---------------------------- MODULE TrustProofs -----------------------------
(***************************************************************************)
(* verifyDocument stops at what was revoked when it began, follows its     *)
(* chain to an anchor within the depth of the policy, fails closed and     *)
(* spends a nonce once: for any number of verifications, keys and issuers, *)
(* any registry, and any order of its changes.                             *)
(***************************************************************************)
EXTENDS TrustChain, FiniteSetTheorems, TLAPS

Steps == {"idle", "key", "chain", "issuer", "target-key", "target-issuer", "target-document",
          "signature", "replay", "done"}

IssueCodes == {"ALGORITHM_NOT_ALLOWED", "PROOF_MALFORMED", "PROOF_NOT_YET_VALID", "PROOF_EXPIRED", "PROOF_TOO_OLD",
               "DOCUMENT_NOT_YET_VALID", "DOCUMENT_EXPIRED", "AUDIENCE_MISMATCH", "KEY_NOT_FOUND", "KEY_INVALID",
               "KEY_REVOKED", "SIGNATURE_INVALID", "ISSUER_NOT_TRUSTED", "ISSUER_REVOKED", "DOCUMENT_REVOKED",
               "REVOCATION_UNAVAILABLE", "REPLAY_DETECTED"}

\* What every variable holds.
Typed ==
  /\ now \in Nat /\ changes \in Nat
  /\ key \in [Keys -> KeyRecord \cup {None}]
  /\ issuer \in [Issuers -> IssuerRecord \cup {None}]
  /\ revocation \in [Targets -> Revocation \cup {None}]
  /\ nonces \in [Nonces -> Nat \cup {None}]
  /\ pc \in [Verifications -> Steps]
  /\ startedAt \in [Verifications -> Nat]
  /\ current \in [Verifications -> Issuers \cup {None}]
  /\ visited \in [Verifications -> SUBSET Issuers]
  /\ record \in [Verifications -> KeyRecord \cup {None}]
  /\ issues \in [Verifications -> SUBSET IssueCodes]
  /\ unavailable \subseteq Verifications
  /\ condemned \in [Verifications -> SUBSET Targets]
  /\ acceptedAt \in [Verifications -> Nat \cup {-1}]
  /\ \A v \in Verifications : pc[v] \in {"chain", "issuer"} => current[v] \in Issuers

-----------------------------------------------------------------------------
(* Typing. *)

\* Every check reports codes of IssueCodes only: checkProofTime, checkKey and
\* the signature.
LEMMA StaticIssuesType == ASSUME NEW d, NEW t PROVE staticIssues(d, t) \in SUBSET IssueCodes
BY DEF staticIssues, IssueCodes

\* checkKey.
LEMMA KeyIssuesType == ASSUME NEW k, NEW d, NEW t PROVE keyIssues(k, d, t) \in SUBSET IssueCodes
BY DEF keyIssues, IssueCodes

\* The signature and the digest.
LEMMA SignatureIssuesType ==
  ASSUME NEW k, NEW d, NEW f PROVE signatureIssues(k, d, f) \in SUBSET IssueCodes
BY DEF signatureIssues, IssueCodes

\* issue() adds to what a verification has collected.
LEMMA ReportType ==
  ASSUME issues \in [Verifications -> SUBSET IssueCodes], NEW v \in Verifications,
         NEW codes \in SUBSET IssueCodes, Report(v, codes)
  PROVE  issues' \in [Verifications -> SUBSET IssueCodes]
<1>1. issues[v] \cup codes \in SUBSET IssueCodes
  OBVIOUS
<1> QED BY <1>1 DEF Report

\* What is revoked has an identifier of the registry.
LEMMA RevokedNowType == revokedNow \in SUBSET Targets
BY DEF revokedNow, Targets

\* The initial state has its types.
LEMMA InitTyped == Init => Typed
BY RegistryTyped DEF Init, Typed, Steps

\* A step of one verification.
LEMMA StepTyped ==
  ASSUME Typed, NEW v \in Verifications, Start(v) \/ Continue(v)
  PROVE  Typed'
<1> USE DEF Typed
<1>1. CASE Start(v)
  <2>1. staticIssues(Submitted[v], now) \in SUBSET IssueCodes /\ revokedNow \in SUBSET Targets
    BY StaticIssuesType, RevokedNowType
  <2>2. issues' \in [Verifications -> SUBSET IssueCodes]
    BY <1>1, <2>1, ReportType DEF Start, IssueCodes
  <2>3. pc' \in [Verifications -> Steps] /\ \A w \in Verifications : w # v => pc'[w] = pc[w]
    BY <1>1 DEF Start, GoTo, Steps
  <2>4. pc'[v] \in {"key", "done"}
    BY <1>1 DEF Start, GoTo
  <2> QED BY <1>1, <2>1, <2>2, <2>3, <2>4 DEF Start, registry
<1>2. CASE ResolveKey(v)
  <2> DEFINE k == key[Submitted[v].method]
  <2>1. k \in KeyRecord \cup {None}
    BY SubmissionsTyped
  <2>2. keyIssues(k, Submitted[v], startedAt[v]) \in SUBSET IssueCodes
    BY KeyIssuesType
  <2>3. issues' \in [Verifications -> SUBSET IssueCodes]
    BY <1>2, <2>2, ReportType DEF ResolveKey, IssueCodes
  <2>4. pc' \in [Verifications -> Steps] /\ \A w \in Verifications : w # v => pc'[w] = pc[w]
    BY <1>2 DEF ResolveKey, GoTo, Steps
  <2>5. CASE pc'[v] = "done" /\ UNCHANGED <<current, visited, record>>
    BY <1>2, <2>3, <2>4, <2>5 DEF ResolveKey, LookupThrows, registry
  <2>6. CASE /\ k # None
             /\ record' = [record EXCEPT ![v] = k]
             /\ current' = [current EXCEPT ![v] = k.issuer]
             /\ visited' = [visited EXCEPT ![v] = {k.issuer}]
             /\ UNCHANGED unavailable
    <3>1. k \in KeyRecord /\ k.issuer \in Issuers
      BY <2>1, <2>6 DEF KeyRecord
    <3> HIDE DEF k
    <3> QED BY <1>2, <2>3, <2>4, <2>6, <3>1 DEF ResolveKey, registry
  <2> QED BY <1>2, <2>5, <2>6 DEF ResolveKey, GoTo
<1>3. CASE WalkRevocation(v) \/ CheckTarget(v)
  <2>1. ASSUME NEW target, NEW code \in IssueCodes, NEW next \in Steps \ {"chain", "idle", "key"},
               CheckRevocation(v, target, code, next), next = "issuer" => pc[v] = "chain"
        PROVE  Typed'
    <3>1. issues' \in [Verifications -> SUBSET IssueCodes] /\ unavailable' \subseteq Verifications
      BY <2>1, ReportType DEF IssueCodes, CheckRevocation, LookupThrows
    <3>2. pc' = [pc EXCEPT ![v] = next]
      BY <2>1 DEF CheckRevocation, GoTo
    <3>3. UNCHANGED <<now, registry, nonces, walk, acceptedAt>>
      BY <1>3 DEF WalkRevocation, CheckTarget
    <3> QED BY <2>1, <3>1, <3>2, <3>3 DEF registry, walk, Steps
  <2>2. CASE WalkRevocation(v)
    BY <2>1, <2>2 DEF WalkRevocation, Steps, IssueCodes
  <2>3. CASE CheckTarget(v)
    <3> HIDE DEF Typed
    <3>1. CASE pc[v] = "target-key"
      <4>1. CheckRevocation(v, Submitted[v].method, "KEY_REVOKED", "target-issuer")
        BY <2>3, <3>1 DEF CheckTarget
      <4> QED BY <2>1, <4>1 DEF Steps, IssueCodes
    <3>2. CASE pc[v] = "target-issuer"
      <4>1. CheckRevocation(v, record[v].issuer, "ISSUER_REVOKED",
                            IF Submitted[v].id = None THEN "signature" ELSE "target-document")
        BY <2>3, <3>2 DEF CheckTarget
      <4> QED BY <2>1, <4>1 DEF Steps, IssueCodes
    <3>3. CASE pc[v] = "target-document"
      <4>1. CheckRevocation(v, Submitted[v].id, "DOCUMENT_REVOKED", "signature")
        BY <2>3, <3>3 DEF CheckTarget
      <4> QED BY <2>1, <4>1 DEF Steps, IssueCodes
    <3> QED BY <2>3, <3>1, <3>2, <3>3 DEF CheckTarget
  <2> QED BY <1>3, <2>2, <2>3
<1>4. CASE WalkIssuer(v)
  <2> DEFINE i == issuer[current[v]]
  <2>1. i \in IssuerRecord \cup {None}
    BY <1>4 DEF WalkIssuer
  <2>2. i # None /\ i.parent # None => i.parent \in Issuers
    BY <2>1 DEF IssuerRecord
  <2>3. issues' \in [Verifications -> SUBSET IssueCodes] /\ unavailable' \subseteq Verifications
    BY <1>4, ReportType DEF IssueCodes, WalkIssuer, Visit, LookupThrows
  <2>4. pc' \in [Verifications -> Steps] /\ \A w \in Verifications : w # v => pc'[w] = pc[w]
    BY <1>4 DEF WalkIssuer, Visit, GoTo, Steps
  <2>5. \/ UNCHANGED <<current, visited>> /\ pc'[v] = "target-key"
        \/ /\ i.parent \in Issuers
           /\ current' = [current EXCEPT ![v] = i.parent]
           /\ visited' = [visited EXCEPT ![v] = @ \cup {i.parent}]
    BY <1>4, <2>2 DEF WalkIssuer, Visit, GoTo
  <2>6. UNCHANGED <<now, registry, nonces, startedAt, record, condemned, acceptedAt>>
    BY <1>4 DEF WalkIssuer
  <2> QED BY <2>3, <2>4, <2>5, <2>6 DEF registry
<1>5. CASE CheckSignature(v)
  <2>1. signatureIssues(record[v], Submitted[v], issues[v]) \in SUBSET IssueCodes
    BY SignatureIssuesType
  <2> QED BY <1>5, <2>1 DEF CheckSignature, GoTo, registry, walk, Steps
<1>6. CASE ConsumeNonce(v)
  <2>1. keptUntil(v) \in Nat /\ Submitted[v].nonce \in Nonces
    BY SubmissionsTyped DEF keptUntil, Nonces
  <2>2. nonces' \in [Nonces -> Nat \cup {None}]
    BY <1>6, <2>1 DEF ConsumeNonce
  <2>3. issues' \in [Verifications -> SUBSET IssueCodes] /\ acceptedAt' \in [Verifications -> Nat \cup {-1}]
    BY <1>6, ReportType DEF IssueCodes, ConsumeNonce
  <2> QED BY <1>6, <2>2, <2>3 DEF ConsumeNonce, GoTo, registry, walk, Steps
<1> QED BY <1>1, <1>2, <1>3, <1>4, <1>5, <1>6 DEF Continue

\* A change of the registry.
LEMMA RegistryTypedStep ==
  ASSUME Typed,
         \/ \E k \in Keys : RevokeKey(k)
         \/ \E i \in Issuers : RevokeIssuer(i) \/ \E p \in Issuers : Reparent(i, p)
         \/ \E t \in Targets, s \in {"good", "suspended", "revoked"}, e \in {now, now + 1} : Publish(t, s, e)
  PROVE  Typed' /\ UNCHANGED Others
<1> USE DEF Typed
<1>1. ASSUME NEW k \in Keys, RevokeKey(k) PROVE Typed' /\ UNCHANGED Others
  <2>1. key[k] \in KeyRecord
    BY <1>1 DEF RevokeKey
  <2>2. [key[k] EXCEPT !.status = "revoked"] \in KeyRecord /\ [key[k] EXCEPT !.revokedAt = now + 1] \in KeyRecord
    BY <2>1 DEF KeyRecord
  <2>3. \/ key' = [key EXCEPT ![k] = [key[k] EXCEPT !.status = "revoked"]]
        \/ key' = [key EXCEPT ![k] = [key[k] EXCEPT !.revokedAt = now + 1]]
    BY <1>1 DEF RevokeKey
  <2>4. key' \in [Keys -> KeyRecord \cup {None}]
    BY <2>2, <2>3
  <2> QED BY <1>1, <2>4 DEF RevokeKey, Change, Others, walk
<1>2. ASSUME NEW i \in Issuers, RevokeIssuer(i) PROVE Typed' /\ UNCHANGED Others
  <2>1. issuer[i] \in IssuerRecord
    BY <1>2 DEF RevokeIssuer
  <2>2. /\ [issuer[i] EXCEPT !.status = "revoked"] \in IssuerRecord
        /\ [issuer[i] EXCEPT !.revokedAt = now + 1] \in IssuerRecord
    BY <2>1 DEF IssuerRecord
  <2>3. \/ issuer' = [issuer EXCEPT ![i] = [issuer[i] EXCEPT !.status = "revoked"]]
        \/ issuer' = [issuer EXCEPT ![i] = [issuer[i] EXCEPT !.revokedAt = now + 1]]
    BY <1>2 DEF RevokeIssuer
  <2>4. issuer' \in [Issuers -> IssuerRecord \cup {None}]
    BY <2>2, <2>3
  <2> QED BY <1>2, <2>4 DEF RevokeIssuer, Change, Others, walk
<1>3. ASSUME NEW i \in Issuers, NEW p \in Issuers, Reparent(i, p) PROVE Typed' /\ UNCHANGED Others
  <2>1. issuer[i] \in IssuerRecord
    BY <1>3 DEF Reparent
  <2>2. [issuer[i] EXCEPT !.parent = p] \in IssuerRecord
    BY <2>1 DEF IssuerRecord
  <2>3. issuer' = [issuer EXCEPT ![i] = [issuer[i] EXCEPT !.parent = p]]
    BY <1>3 DEF Reparent
  <2>4. issuer' \in [Issuers -> IssuerRecord \cup {None}]
    BY <2>2, <2>3
  <2> QED BY <1>3, <2>4 DEF Reparent, Change, Others, walk
<1>4. ASSUME NEW t \in Targets, NEW s \in {"good", "suspended", "revoked"}, NEW e \in {now, now + 1}, Publish(t, s, e)
      PROVE  Typed' /\ UNCHANGED Others
  <2>1. [status |-> s, effectiveAt |-> e] \in Revocation
    BY DEF Revocation
  <2>2. revocation' \in [Targets -> Revocation \cup {None}]
    BY <1>4, <2>1 DEF Publish
  <2> QED BY <1>4, <2>2 DEF Publish, Change, Others, walk
<1> QED BY <1>1, <1>2, <1>3, <1>4

\* The variables of verifyDocument and of the registry always have these types.
THEOREM TypeCorrect == Spec => []Typed
<1>1. Typed /\ [Next]_vars => Typed'
  <2>1. ASSUME Typed, Tick PROVE Typed'
    BY <2>1 DEF Typed, Tick, registry, walk
  <2>2. ASSUME Typed, UNCHANGED vars PROVE Typed'
    BY <2>2 DEF Typed, vars, registry, walk
  <2> QED BY <2>1, <2>2, StepTyped, RegistryTypedStep DEF Next
<1> QED BY <1>1, InitTyped, PTL DEF Spec

-----------------------------------------------------------------------------
(* What a step leaves alone. *)

\* Nothing of verification v changes.
Rests(v) ==
  /\ pc'[v] = pc[v] /\ startedAt'[v] = startedAt[v] /\ current'[v] = current[v]
  /\ visited'[v] = visited[v] /\ issues'[v] = issues[v] /\ condemned'[v] = condemned[v]
  /\ acceptedAt'[v] = acceptedAt[v]
  /\ v \in unavailable' <=> v \in unavailable

\* A verification moves by its own steps only: the others, the registry and
\* the clock leave what it holds as it is.
LEMMA OwnSteps ==
  ASSUME Typed, [Next]_vars, NEW v \in Verifications
  PROVE  Start(v) \/ Continue(v) \/ Rests(v)
<1> USE DEF Rests
<1>1. ASSUME NEW w \in Verifications, w # v, Start(w) \/ Continue(w) PROVE Rests(v)
  <2> USE DEF Typed
  <2>1. CASE Start(w)
    BY <1>1, <2>1 DEF Start, Report, GoTo
  <2>2. CASE ResolveKey(w)
    BY <1>1, <2>2 DEF ResolveKey, Report, GoTo, LookupThrows
  <2>3. CASE WalkRevocation(w)
    BY <1>1, <2>3 DEF WalkRevocation, CheckRevocation, Report, GoTo, LookupThrows, walk
  <2>4. CASE WalkIssuer(w)
    BY <1>1, <2>4 DEF WalkIssuer, Visit, Report, GoTo, LookupThrows
  <2>5. CASE CheckTarget(w)
    BY <1>1, <2>5 DEF CheckTarget, CheckRevocation, Report, GoTo, LookupThrows, walk
  <2>6. CASE CheckSignature(w)
    BY <1>1, <2>6 DEF CheckSignature, GoTo, walk
  <2>7. CASE ConsumeNonce(w)
    BY <1>1, <2>7 DEF ConsumeNonce, Report, GoTo, walk
  <2> QED BY <1>1, <2>1, <2>2, <2>3, <2>4, <2>5, <2>6, <2>7 DEF Continue
<1>2. CASE Tick \/ UNCHANGED vars
  BY <1>2 DEF Tick, vars, walk
<1>3. CASE UNCHANGED Others
  BY <1>3 DEF Others, walk
<1> QED BY <1>1, <1>2, <1>3, RegistryTypedStep DEF Next

-----------------------------------------------------------------------------
(* The inductive invariant. *)

\* Revoked as of time t: by the status of a key or of an issuer that is no
\* anchor, or by a Revocation record.
keyRevoked(x, t) ==
  x \in Keys /\ key[x] # None /\ (key[x].status = "revoked" \/ past(key[x].revokedAt, t))

issuerRevoked(x, t) ==
  /\ x \in Issuers \ TrustAnchors /\ issuer[x] # None
  /\ issuer[x].status = "revoked" \/ past(issuer[x].revokedAt, t)

barred(x, t) == x \in Targets /\ inEffect(x, t) /\ revocation[x].status = "revoked"

\* What was revoked when a verification began is revoked, for its `now`, as
\* long as it runs: it may look at the registry whenever it likes.
StillRevoked ==
  \A v \in Verifications : \A x \in condemned[v] :
    \/ keyRevoked(x, startedAt[v]) \/ issuerRevoked(x, startedAt[v]) \/ barred(x, startedAt[v])

Begun   == Steps \ {"idle", "key"}
Walked  == Begun \ {"chain", "issuer"}
Settled == {"signature", "replay", "done"}

\* A clean verification under a revoked key has its Revocation record ahead.
KeyAhead(v) ==
  pc[v] \in Begun /\ issues[v] = {} /\ Submitted[v].method \in condemned[v] =>
    pc[v] \in {"chain", "issuer", "target-key"} /\ barred(Submitted[v].method, startedAt[v])

\* The issuers a clean verification has walked through were not revoked; the
\* one it is at may be, and then the check that finds out is ahead.
IssuerAhead(v) ==
  pc[v] \in Begun /\ issues[v] = {} =>
    \A i \in visited[v] \cap condemned[v] :
      /\ i = current[v]
      /\ pc[v] = "chain" \/ (pc[v] = "issuer" /\ issuerRevoked(i, startedAt[v]))

\* A clean verification past its third target is of no revoked document.
DocumentBehind(v) ==
  pc[v] \in Settled /\ issues[v] = {} => Submitted[v].id \notin condemned[v]

\* A walk that ended without an issue ended at an anchor.
AtAnchor(v) == pc[v] \in Walked /\ issues[v] = {} => current[v] \in TrustAnchors

\* The walk never holds more issuers than the policy's depth and the first.
WithinDepth(v) == IsFiniteSet(visited[v]) /\ Cardinality(visited[v]) <= MaxTrustDepth + 1

\* A lookup that threw has left an issue.
Marked == \A v \in unavailable : issues[v] # {}

TrustInv ==
  /\ Typed /\ StillRevoked /\ Marked
  /\ \A v \in Verifications :
       /\ KeyAhead(v) /\ IssuerAhead(v) /\ DocumentBehind(v) /\ AtAnchor(v) /\ WithinDepth(v)

\* The replay cache knows an accepted nonce until its proof has expired.
Remembered(v) ==
  acceptedAt[v] # -1 =>
    \/ now >= Submitted[v].expires
    \/ nonces[Submitted[v].nonce] # None /\ nonces[Submitted[v].nonce] >= Submitted[v].expires

ReplayInv ==
  /\ Typed /\ NonceOnceUntilExpiry
  /\ \A v \in Verifications : startedAt[v] <= now /\ Remembered(v)

-----------------------------------------------------------------------------
(* Revocation. *)

\* The control plane never takes a revocation back: what is revoked as of a
\* time t stays revoked as of t, whatever is published, moved or revoked next.
LEMMA RevocationIsFinal ==
  ASSUME Typed, [Next]_vars, NEW x, NEW t \in Nat
  PROVE  /\ keyRevoked(x, t) => keyRevoked(x, t)'
         /\ issuerRevoked(x, t) => issuerRevoked(x, t)'
         /\ barred(x, t) => barred(x, t)'
<1> USE DEF keyRevoked, issuerRevoked, barred, inEffect, past
<1>1. CASE UNCHANGED registry
  BY <1>1 DEF registry
<1>2. ASSUME NEW k \in Keys, RevokeKey(k) PROVE keyRevoked(x, t) => keyRevoked(x, t)'
  <2>1. key \in [Keys -> KeyRecord \cup {None}] /\ key[k] \in KeyRecord
    BY <1>2 DEF Typed, RevokeKey
  <2> DEFINE a == [key[k] EXCEPT !.status = "revoked"]
             b == [key[k] EXCEPT !.revokedAt = now + 1]
  <2>2. a # None /\ b # None
    <3>1. a \in KeyRecord /\ b \in KeyRecord
      BY <2>1 DEF KeyRecord, Typed
    <3> QED BY <3>1, NoneIsNoRecord
  <2>3. key' = [key EXCEPT ![k] = a] \/ (key[k].revokedAt = None /\ key' = [key EXCEPT ![k] = b])
    BY <1>2 DEF RevokeKey
  <2>4. a.status = "revoked" /\ b.status = key[k].status
    BY <2>1 DEF KeyRecord
  <2> HIDE DEF a, b
  <2> QED BY <2>1, <2>2, <2>3, <2>4
<1>3. ASSUME NEW i \in Issuers, NEW p \in Issuers, RevokeIssuer(i) \/ Reparent(i, p)
      PROVE  issuerRevoked(x, t) => issuerRevoked(x, t)'
  <2>1. issuer \in [Issuers -> IssuerRecord \cup {None}] /\ issuer[i] \in IssuerRecord
    BY <1>3 DEF Typed, RevokeIssuer, Reparent
  <2> DEFINE a == [issuer[i] EXCEPT !.status = "revoked"]
             b == [issuer[i] EXCEPT !.revokedAt = now + 1]
             c == [issuer[i] EXCEPT !.parent = p]
  <2>2. a # None /\ b # None /\ c # None
    <3>1. a \in IssuerRecord /\ b \in IssuerRecord /\ c \in IssuerRecord
      BY <2>1 DEF IssuerRecord, Typed
    <3> QED BY <3>1, NoneIsNoRecord
  <2>3. \/ issuer' = [issuer EXCEPT ![i] = a]
        \/ issuer[i].revokedAt = None /\ issuer' = [issuer EXCEPT ![i] = b]
        \/ issuer' = [issuer EXCEPT ![i] = c]
    BY <1>3 DEF RevokeIssuer, Reparent
  <2>4. /\ a.status = "revoked" /\ b.status = issuer[i].status
        /\ c.status = issuer[i].status /\ c.revokedAt = issuer[i].revokedAt
    BY <2>1 DEF IssuerRecord
  <2> HIDE DEF a, b, c
  <2> QED BY <2>1, <2>2, <2>3, <2>4
<1>4. ASSUME NEW y \in Targets, NEW s, NEW e, Publish(y, s, e) PROVE barred(x, t) => barred(x, t)'
  BY <1>4 DEF Publish, Typed
<1> HIDE DEF keyRevoked, issuerRevoked, barred
<1>5. CASE \E k \in Keys : RevokeKey(k)
  <2>1. UNCHANGED <<issuer, revocation>>
    BY <1>5 DEF RevokeKey
  <2> QED BY <1>2, <1>5, <2>1 DEF issuerRevoked, barred
<1>6. CASE \E i \in Issuers : RevokeIssuer(i) \/ \E p \in Issuers : Reparent(i, p)
  <2>1. UNCHANGED <<key, revocation>>
    BY <1>6 DEF RevokeIssuer, Reparent
  <2> QED BY <1>3, <1>6, <2>1 DEF keyRevoked, barred
<1>7. CASE \E y \in Targets, s \in {"good", "suspended", "revoked"}, e \in {now, now + 1} : Publish(y, s, e)
  <2>1. UNCHANGED <<key, issuer>>
    BY <1>7 DEF Publish
  <2> QED BY <1>4, <1>7, <2>1 DEF keyRevoked, issuerRevoked
<1>8. ASSUME NEW v \in Verifications, Start(v) \/ Continue(v) PROVE UNCHANGED registry
  BY <1>8 DEF Start, Continue, ResolveKey, WalkRevocation, WalkIssuer, CheckTarget, CheckSignature, ConsumeNonce, registry
<1>9. CASE Tick \/ UNCHANGED vars
  BY <1>9, <1>1 DEF Tick, vars, registry
<1> QED BY <1>1, <1>5, <1>6, <1>7, <1>8, <1>9 DEF Next

\* checkKey reports a key that is revoked as of the time it is given.
LEMMA RevokedKeyReported ==
  ASSUME NEW k, NEW d, NEW t, k.status = "revoked" \/ past(k.revokedAt, t)
  PROVE  keyIssues(k, d, t) # {}
<1>1. "KEY_REVOKED" \in keyIssues(k, d, t)
  BY DEF keyIssues
<1> QED BY <1>1

\* What a verification collected stays collected.
LEMMA IssuesGrow ==
  ASSUME Typed, [Next]_vars, NEW v \in Verifications
  PROVE  issues[v] \subseteq issues'[v]
<1> USE DEF Typed
<1>1. CASE Start(v)
  BY <1>1 DEF Start, Report
<1>2. CASE ResolveKey(v)
  BY <1>2 DEF ResolveKey, Report
<1>3. CASE WalkRevocation(v)
  BY <1>3 DEF WalkRevocation, CheckRevocation, Report
<1>4. CASE WalkIssuer(v)
  BY <1>4 DEF WalkIssuer, Visit, Report
<1>5. CASE CheckTarget(v)
  BY <1>5 DEF CheckTarget, CheckRevocation, Report
<1>6. CASE CheckSignature(v)
  BY <1>6 DEF CheckSignature
<1>7. CASE ConsumeNonce(v)
  BY <1>7 DEF ConsumeNonce, Report
<1>8. CASE Rests(v)
  BY <1>8 DEF Rests
<1> QED BY <1>1, <1>2, <1>3, <1>4, <1>5, <1>6, <1>7, <1>8, OwnSteps DEF Continue

\* A lookup that throws leaves an issue, and issues stay.
LEMMA MarkedStep ==
  ASSUME Typed, Marked, [Next]_vars
  PROVE  Marked'
<1> SUFFICES ASSUME NEW v \in Verifications, v \in unavailable' PROVE issues'[v] # {}
  <2>1. Typed'
    BY StepTyped, RegistryTypedStep DEF Next, Typed, Tick, vars, registry, walk
  <2> QED BY <2>1 DEF Marked, Typed
<1>1. CASE v \in unavailable
  BY <1>1, IssuesGrow DEF Marked
<1>2. CASE v \notin unavailable
  <2> USE DEF Typed
  <2>1. Continue(v)
    BY <1>2, OwnSteps DEF Rests, Start
  <2>2. \/ ResolveKey(v) /\ LookupThrows(v) /\ Report(v, {"KEY_NOT_FOUND"})
        \/ WalkIssuer(v) /\ LookupThrows(v) /\ Report(v, {"ISSUER_NOT_TRUSTED"})
        \/ LookupThrows(v) /\ Report(v, {"REVOCATION_UNAVAILABLE"})
    BY <1>2, <2>1 DEF Continue, ResolveKey, WalkIssuer, WalkRevocation, CheckTarget, CheckRevocation,
                      CheckSignature, ConsumeNonce
  <2>3. PICK code : issues' = [issues EXCEPT ![v] = @ \cup {code}]
    BY <2>2 DEF Report
  <2>4. code \in issues'[v]
    BY <2>3
  <2> QED BY <2>4
<1> QED BY <1>1, <1>2

\* Between its first and its last step nothing changes what a verification has
\* to find out: its `now` and what was revoked when it began.
LEMMA KeepsStart ==
  ASSUME Typed, NEW v \in Verifications, Continue(v) \/ Rests(v)
  PROVE  startedAt'[v] = startedAt[v] /\ condemned'[v] = condemned[v]
BY DEF Continue, ResolveKey, WalkRevocation, WalkIssuer, CheckTarget, CheckSignature, ConsumeNonce, walk, Rests

\* What was revoked when a verification began stays revoked through every step.
LEMMA StillRevokedStep ==
  ASSUME Typed, StillRevoked, [Next]_vars
  PROVE  StillRevoked'
<1> SUFFICES ASSUME NEW v \in Verifications, NEW x \in condemned'[v]
             PROVE  (keyRevoked(x, startedAt[v]) \/ issuerRevoked(x, startedAt[v]) \/ barred(x, startedAt[v]))'
  BY DEF StillRevoked
<1>1. CASE Start(v)
  <2>1. startedAt'[v] = now /\ x \in revokedNow /\ UNCHANGED registry
    BY <1>1 DEF Start, Typed
  <2> QED BY <2>1 DEF registry, revokedNow, keyRevoked, issuerRevoked, barred, inEffect, past
<1>2. CASE Continue(v) \/ Rests(v)
  <2>1. x \in condemned[v] /\ startedAt'[v] = startedAt[v] /\ startedAt[v] \in Nat
    BY <1>2, KeepsStart DEF Typed
  <2>2. PICK t \in Nat : t = startedAt[v] /\ t = startedAt'[v]
    BY <2>1
  <2>3. keyRevoked(x, t) \/ issuerRevoked(x, t) \/ barred(x, t)
    BY <2>1, <2>2 DEF StillRevoked
  <2>4. keyRevoked(x, t)' \/ issuerRevoked(x, t)' \/ barred(x, t)'
    BY <2>3, RevocationIsFinal
  <2> QED BY <2>2, <2>4 DEF keyRevoked, issuerRevoked, barred, inEffect
<1> QED BY <1>1, <1>2, OwnSteps

\* A verification that reports something is not clean.
LEMMA CleanReport ==
  ASSUME Typed, NEW v \in Verifications, NEW codes, Report(v, codes), issues'[v] = {}
  PROVE  codes = {}
BY DEF Report, Typed

\* A verification that is clean after a step was clean before it, and the step
\* was not its first.
LEMMA CleanStep ==
  ASSUME Typed, [Next]_vars, NEW v \in Verifications, pc'[v] \in Begun, issues'[v] = {}
  PROVE  /\ issues[v] = {}
         /\ Continue(v) \/ Rests(v)
         /\ condemned'[v] = condemned[v] /\ startedAt'[v] = startedAt[v] /\ startedAt[v] \in Nat
<1>1. issues[v] = {}
  BY IssuesGrow
<1>2. ~Start(v)
  <2>1. SUFFICES ASSUME Start(v) PROVE FALSE
    OBVIOUS
  <2>2. pc'[v] # "key" /\ v \in DOMAIN pc
    BY DEF Begun, Typed
  <2>3. Report(v, {"PROOF_MALFORMED"})
    BY <2>1, <2>2 DEF Start, GoTo
  <2> QED BY <2>3, CleanReport
<1>3. Continue(v) \/ Rests(v)
  BY <1>2, OwnSteps
<1> QED BY <1>1, <1>3, KeepsStart DEF Typed

\* checkKey finds a key that is revoked by its status, the first target of the
\* second checkRevocation one that a Revocation record names.
LEMMA KeyAheadStep ==
  ASSUME Typed, StillRevoked, [Next]_vars, NEW v \in Verifications, KeyAhead(v)
  PROVE  KeyAhead(v)'
<1> DEFINE m == Submitted[v].method
<1> SUFFICES ASSUME pc'[v] \in Begun, issues'[v] = {}, m \in condemned'[v]
             PROVE  pc'[v] \in {"chain", "issuer", "target-key"} /\ barred(m, startedAt[v])'
  BY DEF KeyAhead
<1>1. issues[v] = {}
  BY CleanStep
<1>2. Continue(v) \/ Rests(v)
  BY CleanStep
<1>3. m \in condemned[v] /\ startedAt'[v] = startedAt[v] /\ startedAt[v] \in Nat
  BY CleanStep
<1>4. PICK t \in Nat : t = startedAt[v] /\ t = startedAt'[v]
  BY <1>3
<1>5. barred(m, t)
  <2>1. CASE pc[v] \in Begun
    BY <2>1, <1>1, <1>3, <1>4 DEF KeyAhead
  <2>2. CASE pc[v] \notin Begun
    <3>1. ResolveKey(v)
      BY <2>2, <1>2 DEF Continue, WalkRevocation, WalkIssuer, CheckTarget, CheckSignature, ConsumeNonce, Rests,
                        Begun, Steps
    <3>2. key[m] # None /\ keyIssues(key[m], Submitted[v], t) \subseteq issues'[v]
      <4>1. ~Report(v, {"KEY_NOT_FOUND"})
        BY CleanReport
      <4>2. key[m] # None /\ Report(v, keyIssues(key[m], Submitted[v], startedAt[v]))
        BY <3>1, <4>1 DEF ResolveKey
      <4> QED BY <4>2, <1>4 DEF Report, Typed
    <3>3. ~keyRevoked(m, t)
      BY <3>2, RevokedKeyReported DEF keyRevoked
    <3>4. ~issuerRevoked(m, t)
      BY SubmissionsTyped, NamesApart DEF issuerRevoked
    <3> QED BY <3>3, <3>4, <1>3, <1>4 DEF StillRevoked
  <2> QED BY <2>1, <2>2
<1>6. barred(m, t)'
  BY <1>5, RevocationIsFinal
<1>7. pc'[v] \in {"chain", "issuer", "target-key"}
  <2>1. CASE pc[v] \notin Begun
    <3>1. ResolveKey(v)
      BY <2>1, <1>2 DEF Continue, WalkRevocation, WalkIssuer, CheckTarget, CheckSignature, ConsumeNonce, Rests,
                        Begun, Steps
    <3>2. ~Report(v, {"KEY_NOT_FOUND"})
      BY CleanReport
    <3> QED BY <3>1, <3>2 DEF ResolveKey, GoTo, Typed
  <2>2. CASE pc[v] \in Begun
    <3>1. pc[v] \in {"chain", "issuer", "target-key"}
      BY <2>2, <1>1, <1>3 DEF KeyAhead
    <3>2. CASE pc[v] = "target-key" /\ Continue(v)
      <4>1. CheckRevocation(v, m, "KEY_REVOKED", "target-issuer")
        BY <3>2 DEF Continue, ResolveKey, WalkRevocation, WalkIssuer, CheckTarget, CheckSignature, ConsumeNonce
      <4>2. inEffect(m, startedAt[v])
        BY <1>4, <1>5 DEF barred
      <4> QED BY <4>1, <4>2, CleanReport DEF CheckRevocation
    <3>3. CASE pc[v] \in {"chain", "issuer"} /\ Continue(v)
      BY <3>3 DEF Continue, ResolveKey, WalkRevocation, WalkIssuer, Visit, CheckTarget, CheckSignature, ConsumeNonce,
                  CheckRevocation, GoTo, Typed
    <3> QED BY <3>1, <3>2, <3>3, <1>2 DEF Rests
  <2> QED BY <2>1, <2>2
<1> QED BY <1>4, <1>6, <1>7 DEF barred, inEffect

\* The revocation of an issuer is found by checkRevocation or by its record,
\* before the walk leaves it.
LEMMA IssuerAheadStep ==
  ASSUME Typed, StillRevoked, [Next]_vars, NEW v \in Verifications, IssuerAhead(v)
  PROVE  IssuerAhead(v)'
<1> SUFFICES ASSUME pc'[v] \in Begun, issues'[v] = {}, NEW i \in visited'[v] \cap condemned'[v]
             PROVE  /\ i = current'[v]
                    /\ pc'[v] = "chain" \/ (pc'[v] = "issuer" /\ issuerRevoked(i, startedAt[v])')
  BY DEF IssuerAhead
<1>1. issues[v] = {} /\ (Continue(v) \/ Rests(v)) /\ i \in condemned[v]
  BY CleanStep
<1>2. PICK t \in Nat : t = startedAt[v] /\ t = startedAt'[v]
  BY CleanStep
<1>3. ASSUME issuerRevoked(i, t) PROVE issuerRevoked(i, startedAt[v])'
  <2>1. issuerRevoked(i, t)'
    BY <1>3, RevocationIsFinal
  <2> QED BY <2>1, <1>2 DEF issuerRevoked
<1>4. CASE Rests(v)
  BY <1>1, <1>2, <1>3, <1>4 DEF Rests, IssuerAhead
<1>5. CASE ResolveKey(v)
  <2>1. ~Report(v, {"KEY_NOT_FOUND"})
    BY CleanReport
  <2> QED BY <1>5, <2>1 DEF ResolveKey, GoTo, Typed
<1>6. CASE WalkRevocation(v)
  <2>1. pc[v] = "chain" /\ UNCHANGED walk
    BY <1>6 DEF WalkRevocation
  <2>2. i = current[v] /\ i \in Issuers /\ i = current'[v]
    BY <1>1, <2>1 DEF IssuerAhead, Begun, Steps, Typed, walk
  <2>3. ~Report(v, {"REVOCATION_UNAVAILABLE"}) /\ ~Report(v, {"ISSUER_REVOKED"})
    BY CleanReport
  <2>4. ~inEffect(i, t)
    BY <1>2, <1>6, <2>2, <2>3 DEF WalkRevocation, CheckRevocation
  <2>5. issuerRevoked(i, t)
    BY <1>1, <1>2, <2>2, <2>4, NamesApart DEF StillRevoked, barred, keyRevoked
  <2>6. pc'[v] = "issuer"
    BY <1>6, <2>2, <2>5 DEF WalkRevocation, CheckRevocation, GoTo, Typed, issuerRevoked
  <2> QED BY <1>3, <2>2, <2>5, <2>6
<1>7. CASE WalkIssuer(v)
  <2>1. pc[v] = "issuer"
    BY <1>7 DEF WalkIssuer
  <2>2. ~Report(v, {"ISSUER_NOT_TRUSTED"}) /\ ~Report(v, {"ISSUER_REVOKED"})
    BY CleanReport
  <2> DEFINE r == issuer[current[v]]
  <2>3. /\ inForce(r, t) /\ pc'[v] = "chain" /\ current'[v] = r.parent
        /\ visited'[v] = visited[v] \cup {r.parent}
    BY <1>2, <1>7, <2>2 DEF WalkIssuer, Visit, GoTo, Typed
  <2>4. ~issuerRevoked(current[v], t)
    BY <2>3 DEF inForce, issuerRevoked
  <2>5. i \notin visited[v]
    BY <1>1, <1>2, <2>1, <2>4 DEF IssuerAhead, Begun, Steps
  <2> QED BY <2>3, <2>5
<1>8. CASE CheckTarget(v) \/ CheckSignature(v) \/ ConsumeNonce(v)
  <2>1. pc[v] \in Begun \ {"chain", "issuer"} /\ UNCHANGED walk
    BY <1>8 DEF CheckTarget, CheckSignature, ConsumeNonce, Begun, Steps
  <2> QED BY <1>1, <2>1 DEF IssuerAhead, walk
<1> QED BY <1>1, <1>4, <1>5, <1>6, <1>7, <1>8 DEF Continue

\* The walk ends without an issue at an anchor only.
LEMMA AtAnchorStep ==
  ASSUME Typed, [Next]_vars, NEW v \in Verifications, AtAnchor(v)
  PROVE  AtAnchor(v)'
<1> SUFFICES ASSUME pc'[v] \in Walked, issues'[v] = {} PROVE current'[v] \in TrustAnchors
  BY DEF AtAnchor
<1>1. issues[v] = {} /\ (Continue(v) \/ Rests(v))
  BY CleanStep DEF Walked
<1>2. CASE Rests(v)
  BY <1>1, <1>2 DEF Rests, AtAnchor
<1>3. CASE ResolveKey(v)
  <2>1. ~Report(v, {"KEY_NOT_FOUND"})
    BY CleanReport
  <2>2. pc'[v] = "chain"
    BY <1>3, <2>1 DEF ResolveKey, GoTo, Typed
  <2> QED BY <2>2 DEF Walked
<1>4. CASE WalkRevocation(v)
  <2>1. pc'[v] # "issuer"
    BY DEF Walked
  <2> QED BY <1>4, <2>1 DEF WalkRevocation, CheckRevocation, GoTo, Typed, walk
<1>5. CASE WalkIssuer(v)
  <2>1. ~Report(v, {"ISSUER_NOT_TRUSTED"}) /\ ~Report(v, {"ISSUER_REVOKED"})
    BY CleanReport
  <2>2. pc'[v] = "chain"
    BY <1>5, <2>1 DEF WalkIssuer, Visit, GoTo, Typed
  <2> QED BY <2>2 DEF Walked
<1>6. CASE CheckTarget(v) \/ CheckSignature(v) \/ ConsumeNonce(v)
  <2>1. pc[v] \in Walked /\ UNCHANGED walk
    BY <1>6 DEF CheckTarget, CheckSignature, ConsumeNonce, Walked, Begun, Steps
  <2> QED BY <1>1, <2>1 DEF AtAnchor, walk
<1> QED BY <1>1, <1>2, <1>3, <1>4, <1>5, <1>6 DEF Continue

\* The third target of the second checkRevocation is the document.
LEMMA DocumentBehindStep ==
  ASSUME Typed, StillRevoked, [Next]_vars, NEW v \in Verifications, DocumentBehind(v)
  PROVE  DocumentBehind(v)'
<1> DEFINE d == Submitted[v].id
<1> SUFFICES ASSUME pc'[v] \in Settled, issues'[v] = {}, d \in condemned'[v] PROVE FALSE
  BY DEF DocumentBehind
<1>1. issues[v] = {} /\ (Continue(v) \/ Rests(v)) /\ d \in condemned[v]
  BY CleanStep DEF Settled, Begun, Steps
<1>2. d # None /\ d \notin Keys \cup Issuers
  <2>1. d \in Targets
    BY <1>1 DEF Typed
  <2>2. d \in Documents \/ d = None
    BY DEF Documents
  <2> QED BY <2>1, <2>2, NamesApart DEF Targets, Documents
<1>3. inEffect(d, startedAt[v])
  BY <1>1, <1>2 DEF StillRevoked, keyRevoked, issuerRevoked, barred
<1>4. pc[v] \notin Settled
  BY <1>1 DEF DocumentBehind
<1>5. Continue(v)
  BY <1>1, <1>4 DEF Rests
<1>6. ~ResolveKey(v)
  <2>1. ~Report(v, {"KEY_NOT_FOUND"})
    BY CleanReport
  <2> QED BY <2>1 DEF ResolveKey, GoTo, Typed, Settled
<1>7. CheckTarget(v)
  BY <1>4, <1>5, <1>6 DEF Continue, WalkRevocation, WalkIssuer, Visit, CheckRevocation, CheckSignature, ConsumeNonce,
                          GoTo, Typed, Settled
<1>8. CheckRevocation(v, d, "DOCUMENT_REVOKED", "signature")
  BY <1>2, <1>7 DEF CheckTarget, CheckRevocation, GoTo, Typed, Settled
<1> QED BY <1>3, <1>8, CleanReport DEF CheckRevocation

-----------------------------------------------------------------------------
(* The walk. *)

\* The loop of validateTrustChain goes on to an issuer it has not seen, and
\* only below the depth of the policy.
LEMMA WithinDepthStep ==
  ASSUME Typed, [Next]_vars, NEW v \in Verifications, WithinDepth(v)
  PROVE  WithinDepth(v)'
<1> DEFINE n == Cardinality(visited[v])
<1>1. n \in Nat /\ n <= MaxTrustDepth + 1 /\ MaxTrustDepth \in Nat
  BY FS_CardinalityType, PolicyTyped DEF WithinDepth
<1>2. CASE visited'[v] = visited[v]
  BY <1>2 DEF WithinDepth
<1>3. ASSUME NEW i, visited'[v] = {i} PROVE WithinDepth(v)'
  <2>1. IsFiniteSet({i}) /\ Cardinality({i}) = 1
    BY FS_Singleton
  <2> QED BY <1>1, <1>3, <2>1 DEF WithinDepth
<1>4. ASSUME NEW i, i \notin visited[v], n <= MaxTrustDepth, visited'[v] = visited[v] \cup {i}
      PROVE  WithinDepth(v)'
  <2>1. IsFiniteSet(visited[v] \cup {i}) /\ Cardinality(visited[v] \cup {i}) = n + 1
    BY <1>4, FS_AddElement DEF WithinDepth
  <2> QED BY <1>1, <1>4, <2>1 DEF WithinDepth
<1>5. CASE ResolveKey(v)
  BY <1>2, <1>3, <1>5 DEF ResolveKey, Typed
<1>6. CASE WalkIssuer(v)
  <2>1. \/ visited'[v] = visited[v]
        \/ \E i : ~walkEnds(v, i) /\ visited'[v] = visited[v] \cup {i}
    BY <1>6 DEF WalkIssuer, Visit, Typed
  <2> QED BY <1>1, <1>2, <1>4, <2>1 DEF walkEnds
<1>7. CASE Start(v) \/ WalkRevocation(v) \/ CheckTarget(v) \/ CheckSignature(v) \/ ConsumeNonce(v) \/ Rests(v)
  BY <1>2, <1>7 DEF Start, WalkRevocation, CheckTarget, CheckSignature, ConsumeNonce, Rests, walk
<1> QED BY <1>5, <1>6, <1>7, OwnSteps DEF Continue

\* Every step of a verification brings it nearer to its end.
LEMMA DistanceFalls ==
  ASSUME Typed, [Next]_vars, NEW v \in Verifications, WithinDepth(v), pc'[v] # pc[v]
  PROVE  distance(v)' \in 0 .. (distance(v) - 1)
<1> DEFINE n == Cardinality(visited[v])
           m == Cardinality(visited'[v])
<1>1. n \in Nat /\ n <= MaxTrustDepth + 1 /\ MaxTrustDepth \in Nat
  BY FS_CardinalityType, PolicyTyped DEF WithinDepth
<1>2. m \in Nat /\ m <= MaxTrustDepth + 1
  BY WithinDepthStep, FS_CardinalityType DEF WithinDepth
<1> DEFINE far(p, l) ==
             CASE p = "idle"            -> 2 * MaxTrustDepth + 11
               [] p = "key"             -> 2 * MaxTrustDepth + 10
               [] p = "chain"           -> 2 * (MaxTrustDepth + 1 - l) + 7
               [] p = "issuer"          -> 2 * (MaxTrustDepth + 1 - l) + 6
               [] p = "target-key"      -> 5
               [] p = "target-issuer"   -> 4
               [] p = "target-document" -> 3
               [] p = "signature"       -> 2
               [] p = "replay"          -> 1
               [] p = "done"            -> 0
<1>3. distance(v) = far(pc[v], n) /\ distance(v)' = far(pc'[v], m)
  BY DEF distance
<1>4. ASSUME NEW l
      PROVE  /\ far("idle", l) = 2 * MaxTrustDepth + 11 /\ far("key", l) = 2 * MaxTrustDepth + 10
             /\ far("chain", l) = 2 * (MaxTrustDepth + 1 - l) + 7
             /\ far("issuer", l) = 2 * (MaxTrustDepth + 1 - l) + 6
             /\ far("target-key", l) = 5 /\ far("target-issuer", l) = 4 /\ far("target-document", l) = 3
             /\ far("signature", l) = 2 /\ far("replay", l) = 1 /\ far("done", l) = 0
  OBVIOUS
<1> HIDE DEF n, m, far
<1>5. CASE Start(v)
  <2>1. pc[v] = "idle" /\ pc'[v] \in {"key", "done"}
    BY <1>5 DEF Start, GoTo, Typed
  <2> QED BY <1>1, <1>3, <1>4, <2>1
<1>6. CASE ResolveKey(v)
  <2>1. pc[v] = "key" /\ pc'[v] \in {"chain", "done"}
    BY <1>6 DEF ResolveKey, GoTo, Typed
  <2>2. pc'[v] = "chain" => m = 1
    <3>1. pc'[v] = "chain" => visited'[v] = {key[Submitted[v].method].issuer}
      BY <1>6 DEF ResolveKey, GoTo, Typed
    <3> QED BY <3>1, FS_Singleton DEF m
  <2> QED BY <1>1, <1>3, <1>4, <2>1, <2>2
<1>7. CASE WalkRevocation(v)
  <2>1. pc[v] = "chain" /\ pc'[v] \in {"issuer", "target-key"} /\ m = n
    BY <1>7 DEF WalkRevocation, CheckRevocation, GoTo, Typed, walk, m, n
  <2> QED BY <1>1, <1>3, <1>4, <2>1
<1>8. CASE WalkIssuer(v)
  <2>1. pc[v] = "issuer"
    BY <1>8 DEF WalkIssuer
  <2>2. CASE pc'[v] = "target-key"
    BY <1>1, <1>3, <1>4, <2>1, <2>2
  <2>3. CASE pc'[v] # "target-key"
    <3>1. PICK i : pc'[v] = "chain" /\ ~walkEnds(v, i) /\ visited'[v] = visited[v] \cup {i}
      BY <1>8, <2>3 DEF WalkIssuer, Visit, GoTo, Typed
    <3>2. m = n + 1
      BY <3>1, FS_AddElement DEF walkEnds, WithinDepth, m, n
    <3> QED BY <1>1, <1>2, <1>3, <1>4, <2>1, <3>1, <3>2
  <2> QED BY <2>2, <2>3
<1>9. CASE CheckTarget(v)
  <2>1. \/ pc[v] = "target-key" /\ pc'[v] = "target-issuer"
        \/ pc[v] = "target-issuer" /\ pc'[v] \in {"target-document", "signature"}
        \/ pc[v] = "target-document" /\ pc'[v] = "signature"
    BY <1>9 DEF CheckTarget, CheckRevocation, GoTo, Typed
  <2> QED BY <1>3, <1>4, <2>1
<1>10. CASE CheckSignature(v) \/ ConsumeNonce(v)
  <2>1. \/ pc[v] = "signature" /\ pc'[v] \in {"replay", "done"}
        \/ pc[v] = "replay" /\ pc'[v] = "done"
    BY <1>10 DEF CheckSignature, ConsumeNonce, GoTo, Typed
  <2> QED BY <1>3, <1>4, <2>1
<1> QED BY <1>5, <1>6, <1>7, <1>8, <1>9, <1>10, OwnSteps DEF Continue, Rests

-----------------------------------------------------------------------------
(* The theorems. *)

\* No verification has begun at first.
LEMMA TrustInvInit == Init => TrustInv
<1> SUFFICES ASSUME Init PROVE TrustInv
  OBVIOUS
<1>1. Typed
  BY InitTyped
<1>2. StillRevoked /\ Marked
  BY DEF Init, StillRevoked, Marked
<1>3. ASSUME NEW v \in Verifications
      PROVE  KeyAhead(v) /\ IssuerAhead(v) /\ DocumentBehind(v) /\ AtAnchor(v)
  BY DEF Init, KeyAhead, IssuerAhead, DocumentBehind, AtAnchor, Begun, Walked, Settled, Steps
<1>4. ASSUME NEW v \in Verifications PROVE WithinDepth(v)
  <2>1. visited[v] = {}
    BY DEF Init
  <2> QED BY <2>1, FS_EmptySet, PolicyTyped DEF WithinDepth
<1> QED BY <1>1, <1>2, <1>3, <1>4 DEF TrustInv

\* The inductive invariant behind the theorems on trust.
LEMMA TrustInvariant == Spec => []TrustInv
<1>1. TrustInv /\ [Next]_vars => TrustInv'
  <2> SUFFICES ASSUME TrustInv, [Next]_vars PROVE TrustInv'
    OBVIOUS
  <2>1. Typed'
    BY StepTyped, RegistryTypedStep DEF TrustInv, Next, Typed, Tick, vars, registry, walk
  <2>2. StillRevoked' /\ Marked'
    BY StillRevokedStep, MarkedStep DEF TrustInv
  <2>3. ASSUME NEW v \in Verifications
        PROVE  (KeyAhead(v) /\ IssuerAhead(v) /\ DocumentBehind(v) /\ AtAnchor(v) /\ WithinDepth(v))'
    BY KeyAheadStep, IssuerAheadStep, DocumentBehindStep, AtAnchorStep, WithinDepthStep DEF TrustInv
  <2> QED BY <2>1, <2>2, <2>3 DEF TrustInv
<1> QED BY <1>1, TrustInvInit, PTL DEF Spec

\* RevocationStopsTrust, for any registry and any schedule: what was revoked
\* when verifyDocument began is behind no document it verifies.
THEOREM RevocationIsSeen == Spec => []RevocationStopsTrust
<1>1. TrustInv => RevocationStopsTrust
  <2> SUFFICES ASSUME TrustInv, NEW v \in Verifications, verified(v) PROVE reliedOn(v) \cap condemned[v] = {}
    BY DEF RevocationStopsTrust
  <2>1. pc[v] = "done" /\ issues[v] = {}
    BY DEF verified
  <2>2. Submitted[v].method \notin condemned[v]
    BY <2>1 DEF TrustInv, KeyAhead, Begun, Steps
  <2>3. visited[v] \cap condemned[v] = {}
    BY <2>1 DEF TrustInv, IssuerAhead, Begun, Steps
  <2>4. Submitted[v].id \notin condemned[v]
    BY <2>1 DEF TrustInv, DocumentBehind, Settled
  <2> QED BY <2>2, <2>3, <2>4 DEF reliedOn
<1> QED BY <1>1, TrustInvariant, PTL

\* ChainGrounded: a verified document's chain ends at an anchor, within the
\* depth of the policy.
THEOREM ChainsEndAtAnchors == Spec => []ChainGrounded
<1>1. TrustInv => ChainGrounded
  BY DEF TrustInv, ChainGrounded, verified, AtAnchor, WithinDepth, Walked, Begun, Steps
<1> QED BY <1>1, TrustInvariant, PTL

\* FailsClosed: a lookup that threw is behind no verified document.
THEOREM FailedLookupsClose == Spec => []FailsClosed
<1>1. TrustInv => FailsClosed
  BY DEF TrustInv, FailsClosed, Marked, verified
<1> QED BY <1>1, TrustInvariant, PTL

\* WalkAdvances: every step of a verification brings it nearer to its end, for
\* any depth of the policy and any registry, cycles included.
THEOREM WalksAdvance == Spec => WalkAdvances
<1>1. TrustInv /\ [Next]_vars =>
        [\A v \in Verifications : pc'[v] # pc[v] => distance(v)' \in 0 .. (distance(v) - 1)]_vars
  BY DistanceFalls DEF TrustInv
<1> QED BY <1>1, TrustInvariant, PTL DEF Spec, WalkAdvances

-----------------------------------------------------------------------------
(* Replay. *)

\* A nonce is given up, by pruning or to another proof, only when the clock has
\* passed the expiry it was kept with, although the `now` of checkAndStore is
\* the older one of its verification.
LEMMA AcceptStep ==
  ASSUME ReplayInv, NEW u \in Verifications, ConsumeNonce(u), ~UNCHANGED <<nonces, acceptedAt>>
  PROVE  /\ \A v \in Verifications : Remembered(v)'
         /\ NonceOnceUntilExpiry'
<1> DEFINE n        == Submitted[u].nonce
           added    == [nonces EXCEPT ![n] = keptUntil(u)]
           e(v)     == Submitted[v].expires
<1>1. /\ ~(nonces[n] # None /\ nonces[n] > startedAt[u])
      /\ acceptedAt' = [acceptedAt EXCEPT ![u] = now] /\ now' = now
      /\ \/ nonces' = added
         \/ nonces' = [m \in Nonces |-> IF added[m] # None /\ added[m] <= startedAt[u] THEN None ELSE added[m]]
  BY DEF ConsumeNonce
<1>2. /\ now \in Nat /\ startedAt[u] \in Nat /\ startedAt[u] <= now
      /\ nonces \in [Nonces -> Nat \cup {None}] /\ acceptedAt \in [Verifications -> Nat \cup {-1}]
  BY DEF ReplayInv, Typed
<1>3. \A v \in Verifications : Submitted[v].nonce \in Nonces /\ e(v) \in Nat
  BY SubmissionsTyped DEF Nonces
<1>4. added \in [Nonces -> Nat \cup {None}] /\ added[n] = e(u)
      /\ \A m \in Nonces : m # n => added[m] = nonces[m]
  BY <1>2, <1>3 DEF keptUntil
<1>5. \A m \in Nonces : nonces'[m] = added[m] \/ (added[m] # None /\ added[m] <= now)
  BY <1>1, <1>2, <1>4
<1> HIDE DEF added
<1>6. ASSUME NEW v \in Verifications, v # u, acceptedAt[v] # -1, Submitted[v].nonce = n PROVE now >= e(v)
  BY <1>1, <1>2, <1>3, <1>6 DEF ReplayInv, Remembered
<1>7. ASSUME NEW v \in Verifications PROVE Remembered(v)'
  <2> SUFFICES ASSUME acceptedAt'[v] # -1
               PROVE  \/ now >= e(v)
                      \/ nonces'[Submitted[v].nonce] # None /\ nonces'[Submitted[v].nonce] >= e(v)
    BY <1>1 DEF Remembered
  <2>1. CASE v = u
    <3>1. e(u) # None
      BY <1>3, NoneIsNoRecord
    <3> QED BY <1>2, <1>3, <1>4, <1>5, <2>1, <3>1
  <2>2. CASE v # u /\ Submitted[v].nonce = n
    BY <1>1, <1>2, <1>6, <2>2
  <2>3. CASE v # u /\ Submitted[v].nonce # n
    <3>1. Remembered(v) /\ acceptedAt[v] # -1
      BY <1>1, <1>2, <2>3 DEF ReplayInv
    <3> QED BY <1>2, <1>3, <1>4, <1>5, <2>3, <3>1 DEF Remembered
  <2> QED BY <2>1, <2>2, <2>3
<1>8. NonceOnceUntilExpiry'
  <2> SUFFICES ASSUME NEW v \in Verifications, NEW w \in Verifications, v # w,
                      Submitted[v].nonce = Submitted[w].nonce, acceptedAt'[v] # -1, acceptedAt'[w] # -1
               PROVE  acceptedAt'[v] >= e(w) \/ acceptedAt'[w] >= e(v)
    BY DEF NonceOnceUntilExpiry
  <2>1. CASE v = u
    BY <1>1, <1>2, <1>6, <2>1
  <2>2. CASE w = u
    BY <1>1, <1>2, <1>6, <2>2
  <2>3. CASE v # u /\ w # u
    BY <1>1, <1>2, <2>3 DEF ReplayInv, NonceOnceUntilExpiry
  <2> QED BY <2>1, <2>2, <2>3
<1> QED BY <1>7, <1>8

\* NonceOnceUntilExpiry: before its proof expires a nonce is accepted once,
\* however late a verification comes to the replay cache.
THEOREM NoncesAreSpentOnce == Spec => []NonceOnceUntilExpiry
<1>1. Init => ReplayInv
  <2> SUFFICES ASSUME Init PROVE ReplayInv
    OBVIOUS
  <2>1. Typed
    BY InitTyped
  <2> QED BY <2>1 DEF Init, ReplayInv, NonceOnceUntilExpiry, Remembered
<1>2. ReplayInv /\ [Next]_vars => ReplayInv'
  <2> SUFFICES ASSUME ReplayInv, [Next]_vars PROVE ReplayInv'
    OBVIOUS
  <2>1. Typed /\ Typed'
    BY StepTyped, RegistryTypedStep DEF ReplayInv, Next, Typed, Tick, vars, registry, walk
  <2>2. now \in Nat /\ now' \in Nat /\ now' >= now
    <3>1. ASSUME NEW v \in Verifications, Start(v) \/ Continue(v) PROVE now' = now
      BY <3>1 DEF Start, Continue, ResolveKey, WalkRevocation, WalkIssuer, CheckTarget, CheckSignature, ConsumeNonce
    <3>2. now' = now \/ now' = now + 1
      BY <2>1, <3>1, RegistryTypedStep DEF Next, Tick, vars, Others
    <3> QED BY <2>1, <3>2 DEF Typed
  <2>3. ASSUME NEW v \in Verifications PROVE startedAt'[v] <= now'
    <3>1. startedAt[v] \in Nat /\ startedAt[v] <= now
      BY <2>1 DEF ReplayInv, Typed
    <3>2. startedAt'[v] = startedAt[v] \/ startedAt'[v] = now
      BY <2>1, OwnSteps, KeepsStart DEF Start, Typed
    <3> QED BY <2>2, <3>1, <3>2
  <2>4. CASE UNCHANGED <<nonces, acceptedAt>>
    <3>1. NonceOnceUntilExpiry'
      BY <2>4 DEF ReplayInv, NonceOnceUntilExpiry
    <3>2. ASSUME NEW v \in Verifications PROVE Remembered(v)'
      BY <2>2, <2>4, SubmissionsTyped DEF ReplayInv, Remembered
    <3> QED BY <2>1, <2>3, <3>1, <3>2 DEF ReplayInv
  <2>5. CASE ~UNCHANGED <<nonces, acceptedAt>>
    <3>1. ASSUME NEW v \in Verifications, (Start(v) \/ Continue(v)) /\ ~ConsumeNonce(v)
          PROVE  UNCHANGED <<nonces, acceptedAt>>
      BY <3>1 DEF Start, Continue, ResolveKey, WalkRevocation, WalkIssuer, CheckTarget, CheckSignature
    <3>2. PICK u \in Verifications : ConsumeNonce(u)
      BY <2>1, <2>5, <3>1, RegistryTypedStep DEF Next, Tick, vars, Others
    <3> QED BY <2>1, <2>3, <2>5, <3>2, AcceptStep DEF ReplayInv
  <2> QED BY <2>4, <2>5
<1> QED BY <1>1, <1>2, PTL DEF Spec, ReplayInv
=============================================================================
