----------------------------- MODULE TrustChain -----------------------------
(***************************************************************************)
(* verifyDocument (sdk/typescript/src/crypto.ts): signature, key           *)
(* lifecycle, issuer chain, revocation, time, audience and replay of one   *)
(* signed document.  Each lookup is an await; between two of them the      *)
(* registry may revoke what was already read, move an issuer under another *)
(* parent, or let the clock pass an effective date, while `now` stays the  *)
(* one read at the start.                                                  *)
(*                                                                         *)
(* The resolver reads the registry itself (StaticTrustResolver, or the     *)
(* lookup client without its cache); LookupCache is about the cache.  The  *)
(* replay cache is MemoryReplayCache.                                      *)
(*                                                                         *)
(* Submitted[v] has the members                                            *)
(*   id, signer      the document's id, and its issuer or agent_id (None   *)
(*                   if it has none)                                       *)
(*   method, nonce   of the proof; nonce stands for the replay key         *)
(*   created, expires                        the life of the proof         *)
(*   not_before, expires_at                  the life of the document      *)
(*   wellFormed, allowed, addressed, intact  shape of the proof, algorithm,*)
(*                                           audience and signature        *)
(***************************************************************************)
EXTENDS Integers, FiniteSets

CONSTANTS
  None,
  Verifications,        \* concurrent calls of verifyDocument
  Submitted,            \* the document given to each
  Keys, Issuers,        \* identifiers of the registry
  InitialKeys,          \* key records the registry may start with
  InitialIssuers,       \* issuer records it may start with
  TrustAnchors, MaxTrustDepth, ClockSkew, MaxProofAge,     \* the policy
  PruneAbove,           \* size above which MemoryReplayCache prunes
  MaxChanges, MaxTime   \* bounds on registry changes and on the clock

Time      == 0 .. MaxTime
Nonces    == {Submitted[v].nonce : v \in Verifications}
Documents == {Submitted[v].id : v \in Verifications} \ {None}
Targets   == Keys \cup Issuers \cup Documents

\* `usable`: proof_status is verified, algorithm, id and JWK fit the proof and the
\* timestamps parse.
KeyRecord == [controller : STRING, issuer : Issuers, status : {"active", "retired", "revoked", "unknown"},
              validFrom : Nat, validUntil : Nat \cup {None}, revokedAt : Nat \cup {None}, usable : BOOLEAN]
IssuerRecord == [status : {"active", "suspended", "revoked"}, parent : Issuers \cup {None},
                 validFrom : Nat, validUntil : Nat, revokedAt : Nat \cup {None}, verified : BOOLEAN]
Revocation == [status : {"good", "suspended", "revoked"}, effectiveAt : Nat]

ASSUME RegistryTyped ==
  /\ InitialKeys \subseteq [Keys -> KeyRecord \cup {None}]
  /\ InitialIssuers \subseteq [Issuers -> IssuerRecord \cup {None}]
  /\ TrustAnchors \subseteq Issuers
ASSUME NoneIsNoRecord == None \notin Nat \cup KeyRecord \cup IssuerRecord \cup Revocation
ASSUME SubmissionsTyped ==
  \A v \in Verifications : Submitted[v].method \in Keys /\ Submitted[v].expires \in Nat
\* The identifiers of keys, of issuers and of the documents that are verified
\* (Passports, Mandates, Envelopes, Receipts) have prefixes of their own in the
\* schemas, and None stands for no identifier.
ASSUME NamesApart ==
  /\ None \notin Keys \cup Issuers
  /\ Keys \cap Issuers = {} /\ Documents \cap (Keys \cup Issuers) = {}
ASSUME PolicyTyped ==
  /\ MaxTrustDepth \in Nat /\ ClockSkew \in Nat /\ MaxProofAge \in Nat /\ PruneAbove \in Nat
  /\ MaxChanges \in Nat /\ MaxTime \in Nat

VARIABLES
  now,          \* the clock
  key,          \* public Key records, None if unpublished
  issuer,       \* public Issuer records
  revocation,   \* Revocation records by target, None if there is none
  changes,      \* number of registry changes so far
  nonces,       \* entries of MemoryReplayCache: expiry of each nonce, None if absent
  pc,           \* where each verification is
  startedAt,    \* its policy.now
  current,      \* the issuer its chain walk has reached
  visited,      \* the issuers it has walked through
  record,       \* the key record it resolved
  issues,       \* the codes it has collected
  unavailable,  \* verifications one of whose lookups threw, history
  condemned,    \* what was revoked when each verification started, history
  acceptedAt    \* when each verification's nonce was taken (-1: never), history

registry == <<key, issuer, revocation, changes>>
walk     == <<startedAt, current, visited, record, condemned>>
vars     == <<now, registry, nonces, pc, walk, issues, unavailable, acceptedAt>>

-----------------------------------------------------------------------------
\* The checks without a lookup.

staticIssues(d, t) ==
  LET found == [ALGORITHM_NOT_ALLOWED  |-> ~d.allowed,
                PROOF_MALFORMED        |-> d.expires <= d.created,
                PROOF_NOT_YET_VALID    |-> d.expires > d.created /\ d.created > t + ClockSkew,
                PROOF_EXPIRED          |-> d.expires > d.created /\ d.expires <= t - ClockSkew,
                PROOF_TOO_OLD          |-> d.expires > d.created /\ t - d.created > MaxProofAge + ClockSkew,
                DOCUMENT_NOT_YET_VALID |-> d.not_before > t + ClockSkew,
                DOCUMENT_EXPIRED       |-> d.expires_at <= t - ClockSkew,
                AUDIENCE_MISMATCH      |-> ~d.addressed]
  IN  {code \in DOMAIN found : found[code]}

past(instant, t) == instant # None /\ instant <= t

\* checkKey.
keyIssues(k, d, t) ==
  LET found == [KEY_INVALID |-> \/ ~k.usable \/ k.status \notin {"active", "retired", "revoked"}
                                \/ k.status = "retired" /\ k.validUntil = None
                                \/ d.created < k.validFrom - ClockSkew
                                \/ k.validUntil # None /\ d.created >= k.validUntil + ClockSkew,
                KEY_REVOKED |-> k.status = "revoked" \/ past(k.revokedAt, t)]
  IN  {code \in DOMAIN found : found[code]}

\* checkSignerBinding and the detached JWS, which is not looked at when the
\* proof is malformed or its algorithm is not allowed.
signatureIssues(k, d, before) ==
  LET found == [KEY_INVALID       |-> d.signer \notin {None, k.controller, k.issuer},
                SIGNATURE_INVALID |-> ~d.intact /\ before \cap {"PROOF_MALFORMED", "ALGORITHM_NOT_ALLOWED"} = {}]
  IN  {code \in DOMAIN found : found[code]}

\* A revocation record that counts at time t.
inEffect(target, t) ==
  /\ revocation[target] # None
  /\ revocation[target].status # "good" /\ revocation[target].effectiveAt <= t

-----------------------------------------------------------------------------
Init ==
  /\ now = 0 /\ changes = 0
  /\ key \in InitialKeys
  /\ issuer \in InitialIssuers
  /\ revocation = [t \in Targets |-> None]
  /\ nonces = [n \in Nonces |-> None]
  /\ pc = [v \in Verifications |-> "idle"]
  /\ startedAt = [v \in Verifications |-> 0]
  /\ current = [v \in Verifications |-> None]
  /\ visited = [v \in Verifications |-> {}]
  /\ record = [v \in Verifications |-> None]
  /\ issues = [v \in Verifications |-> {}]
  /\ unavailable = {}
  /\ condemned = [v \in Verifications |-> {}]
  /\ acceptedAt = [v \in Verifications |-> -1]

GoTo(v, step) == pc' = [pc EXCEPT ![v] = step]
Report(v, codes) == issues' = [issues EXCEPT ![v] = @ \cup codes]
LookupThrows(v) == unavailable' = unavailable \cup {v}

\* What is revoked now, by status or by a revocation record in effect.
revokedNow ==
  {k \in Keys : key[k] # None /\ (key[k].status = "revoked" \/ past(key[k].revokedAt, now))}
    \cup {i \in Issuers \ TrustAnchors :
             issuer[i] # None /\ (issuer[i].status = "revoked" \/ past(issuer[i].revokedAt, now))}
    \cup {t \in Targets : inEffect(t, now) /\ revocation[t].status = "revoked"}

Start(v) ==
  /\ pc[v] = "idle"
  /\ startedAt' = [startedAt EXCEPT ![v] = now]
  /\ condemned' = [condemned EXCEPT ![v] = revokedNow]
  /\ IF Submitted[v].wellFormed
     THEN Report(v, staticIssues(Submitted[v], now)) /\ GoTo(v, "key")
     ELSE Report(v, {"PROOF_MALFORMED"}) /\ GoTo(v, "done")
  /\ UNCHANGED <<now, registry, nonces, current, visited, record, unavailable, acceptedAt>>

\* Faulty variant: the walk is neither bounded nor kept from cycles.
walkEndless(v, i) == FALSE

\* The loop of validateTrustChain gives up before it looks at issuer i.
walkEnds(v, i) == i \in visited[v] \/ Cardinality(visited[v]) > MaxTrustDepth

\* The head of the loop, for the next issuer.
Visit(v, i) ==
  IF walkEnds(v, i)
  THEN GoTo(v, "target-key") /\ Report(v, {"ISSUER_NOT_TRUSTED"}) /\ UNCHANGED <<current, visited>>
  ELSE /\ GoTo(v, "chain")
       /\ current' = [current EXCEPT ![v] = i]
       /\ visited' = [visited EXCEPT ![v] = @ \cup {i}]
       /\ UNCHANGED issues

\* resolveKey and checkKey.
ResolveKey(v) ==
  LET k == key[Submitted[v].method] IN
  /\ pc[v] = "key"
  /\ \/ /\ k = None
        /\ Report(v, {"KEY_NOT_FOUND"}) /\ GoTo(v, "done")
        /\ UNCHANGED <<current, visited, record, unavailable>>
     \/ /\ LookupThrows(v)
        /\ Report(v, {"KEY_NOT_FOUND"}) /\ GoTo(v, "done")
        /\ UNCHANGED <<current, visited, record>>
     \/ /\ k # None
        /\ record' = [record EXCEPT ![v] = k]
        /\ GoTo(v, "chain") /\ Report(v, keyIssues(k, Submitted[v], startedAt[v]))
        /\ current' = [current EXCEPT ![v] = k.issuer]
        /\ visited' = [visited EXCEPT ![v] = {k.issuer}]
        /\ UNCHANGED unavailable
  /\ UNCHANGED <<now, registry, nonces, startedAt, condemned, acceptedAt>>

\* Faulty variant: a status that cannot be read counts as good.
CheckRevocationOpen(v, target, code, next) ==
  /\ GoTo(v, next)
  /\ \/ LookupThrows(v) /\ UNCHANGED issues
     \/ /\ Report(v, IF inEffect(target, startedAt[v]) THEN {code} ELSE {})
        /\ UNCHANGED unavailable

\* checkRevocation of one target.
CheckRevocation(v, target, code, next) ==
  /\ GoTo(v, next)
  /\ \/ LookupThrows(v) /\ Report(v, {"REVOCATION_UNAVAILABLE"})
     \/ /\ Report(v, IF inEffect(target, startedAt[v]) THEN {code} ELSE {})
        /\ UNCHANGED unavailable

\* Faulty variant: an anchor is trusted before its revocation is looked up.
WalkAnchorFirst(v) ==
  /\ pc[v] = "chain"
  /\ IF current[v] \in TrustAnchors
     THEN GoTo(v, "target-key") /\ UNCHANGED <<issues, unavailable>>
     ELSE CheckRevocation(v, current[v], "ISSUER_REVOKED", "issuer")
  /\ UNCHANGED <<now, registry, nonces, walk, acceptedAt>>

\* One link of the chain: its revocation, then the end at an anchor.
WalkRevocation(v) ==
  /\ pc[v] = "chain"
  /\ CheckRevocation(v, current[v], "ISSUER_REVOKED",
                     IF current[v] \in TrustAnchors THEN "target-key" ELSE "issuer")
  /\ UNCHANGED <<now, registry, nonces, walk, acceptedAt>>

\* An issuer that may vouch at time t.
inForce(i, t) ==
  /\ i.status = "active" /\ ~past(i.revokedAt, t)
  /\ i.validFrom <= t + ClockSkew /\ i.validUntil > t - ClockSkew

\* Faulty variant: an issuer without a parent ends the walk in trust.
WalkIssuerRootless(v) ==
  LET i == issuer[current[v]] IN
  /\ pc[v] = "issuer" /\ i # None
  /\ IF i.parent = None
     THEN GoTo(v, "target-key") /\ UNCHANGED <<current, visited, issues>>
     ELSE Visit(v, i.parent)
  /\ UNCHANGED <<now, registry, nonces, startedAt, record, condemned, unavailable, acceptedAt>>

\* The issuer record of a link that is no anchor, and the step to its parent.
WalkIssuer(v) ==
  LET i == issuer[current[v]]
      Stop(code) == GoTo(v, "target-key") /\ Report(v, {code}) /\ UNCHANGED <<current, visited>>
  IN
  /\ pc[v] = "issuer"
  /\ \/ LookupThrows(v) /\ Stop("ISSUER_NOT_TRUSTED")
     \/ /\ IF i = None \/ ~i.verified THEN Stop("ISSUER_NOT_TRUSTED")
           ELSE IF ~inForce(i, startedAt[v]) THEN Stop("ISSUER_REVOKED")
           ELSE IF i.parent = None THEN Stop("ISSUER_NOT_TRUSTED")
           ELSE Visit(v, i.parent)
        /\ UNCHANGED unavailable
  /\ UNCHANGED <<now, registry, nonces, startedAt, record, condemned, acceptedAt>>

\* The second checkRevocation, over key, issuer and document.
CheckTarget(v) ==
  /\ \/ /\ pc[v] = "target-key"
        /\ CheckRevocation(v, Submitted[v].method, "KEY_REVOKED", "target-issuer")
     \/ /\ pc[v] = "target-issuer"
        /\ CheckRevocation(v, record[v].issuer, "ISSUER_REVOKED",
                           IF Submitted[v].id = None THEN "signature" ELSE "target-document")
     \/ /\ pc[v] = "target-document"
        /\ CheckRevocation(v, Submitted[v].id, "DOCUMENT_REVOKED", "signature")
  /\ UNCHANGED <<now, registry, nonces, walk, acceptedAt>>

\* Binding and signature; only a document without an issue goes on to replay.
CheckSignature(v) ==
  LET found == issues[v] \cup signatureIssues(record[v], Submitted[v], issues[v]) IN
  /\ pc[v] = "signature"
  /\ issues' = [issues EXCEPT ![v] = found]
  /\ GoTo(v, IF found = {} THEN "replay" ELSE "done")
  /\ UNCHANGED <<now, registry, nonces, walk, unavailable, acceptedAt>>

\* Faulty variant: a nonce is remembered for as long as its check runs.
remembered(v) == now

\* The expiry kept with a nonce.
keptUntil(v) == Submitted[v].expires

\* MemoryReplayCache.checkAndStore with the verification's own `now`.
ConsumeNonce(v) ==
  LET n     == Submitted[v].nonce
      taken == nonces[n] # None /\ nonces[n] > startedAt[v]
      added == [nonces EXCEPT ![n] = keptUntil(v)]
  IN
  /\ pc[v] = "replay"
  /\ IF taken
     THEN Report(v, {"REPLAY_DETECTED"}) /\ UNCHANGED <<nonces, acceptedAt>>
     ELSE /\ nonces' = IF Cardinality({m \in Nonces : added[m] # None}) > PruneAbove
                       THEN [m \in Nonces |-> IF added[m] # None /\ added[m] <= startedAt[v]
                                              THEN None ELSE added[m]]
                       ELSE added
          /\ acceptedAt' = [acceptedAt EXCEPT ![v] = now]
          /\ UNCHANGED issues
  /\ GoTo(v, "done")
  /\ UNCHANGED <<now, registry, walk, unavailable>>

-----------------------------------------------------------------------------
(* The control plane.  A revocation is for good; a suspension may be lifted. *)

Change == changes < MaxChanges /\ changes' = changes + 1
Others == <<now, nonces, pc, walk, issues, unavailable, acceptedAt>>

RevokeKey(k) ==
  /\ Change /\ key[k] # None
  /\ \/ key' = [key EXCEPT ![k].status = "revoked"]
     \/ key[k].revokedAt = None /\ key' = [key EXCEPT ![k].revokedAt = now + 1]
  /\ UNCHANGED <<issuer, revocation>> /\ UNCHANGED Others

RevokeIssuer(i) ==
  /\ Change /\ issuer[i] # None
  /\ \/ issuer' = [issuer EXCEPT ![i].status = "revoked"]
     \/ issuer[i].revokedAt = None /\ issuer' = [issuer EXCEPT ![i].revokedAt = now + 1]
  /\ UNCHANGED <<key, revocation>> /\ UNCHANGED Others

Reparent(i, p) ==
  /\ Change /\ issuer[i] # None
  /\ issuer' = [issuer EXCEPT ![i].parent = p]
  /\ UNCHANGED <<key, revocation>> /\ UNCHANGED Others

Publish(target, status, effectiveAt) ==
  /\ Change
  /\ revocation[target] # None => revocation[target].status # "revoked"
  /\ revocation' = [revocation EXCEPT ![target] = [status |-> status, effectiveAt |-> effectiveAt]]
  /\ UNCHANGED <<key, issuer>> /\ UNCHANGED Others

Tick == now < MaxTime /\ now' = now + 1
        /\ UNCHANGED <<registry, nonces, pc, walk, issues, unavailable, acceptedAt>>

Continue(v) ==
  \/ ResolveKey(v) \/ WalkRevocation(v) \/ WalkIssuer(v) \/ CheckTarget(v)
  \/ CheckSignature(v) \/ ConsumeNonce(v)

Next ==
  \/ \E v \in Verifications : Start(v) \/ Continue(v)
  \/ \E k \in Keys : RevokeKey(k)
  \/ \E i \in Issuers : RevokeIssuer(i) \/ \E p \in Issuers : Reparent(i, p)
  \/ \E t \in Targets, s \in {"good", "suspended", "revoked"}, e \in {now, now + 1} : Publish(t, s, e)
  \/ Tick

Spec == Init /\ [][Next]_vars

-----------------------------------------------------------------------------
verified(v) == pc[v] = "done" /\ issues[v] = {}

\* Everything a verdict rests on.
reliedOn(v) == {Submitted[v].method, Submitted[v].id} \cup visited[v]

\* A verification that starts after a key, an issuer of its chain or the
\* document was revoked never succeeds, whatever the registry does while the
\* chain is walked (anchors included: their revocation records count).
RevocationStopsTrust ==
  \A v \in Verifications : verified(v) => reliedOn(v) \cap condemned[v] = {}

\* A verified document's chain ended at a trust anchor, within the depth the
\* policy allows, although parents may change under the walk.
ChainGrounded ==
  \A v \in Verifications : verified(v) =>
    current[v] \in TrustAnchors /\ Cardinality(visited[v]) <= MaxTrustDepth + 1

\* No lookup that failed is behind a verified document.
FailsClosed == \A v \in unavailable : ~verified(v)

\* Until its proof expires a nonce is accepted once, with slow verifications
\* that carry an old `now` and with pruning.
NonceOnceUntilExpiry ==
  \A v, w \in Verifications :
    /\ v # w /\ Submitted[v].nonce = Submitted[w].nonce
    /\ acceptedAt[v] # -1 /\ acceptedAt[w] # -1
    => \/ acceptedAt[v] >= Submitted[w].expires
       \/ acceptedAt[w] >= Submitted[v].expires

\* How far a verification is from its end: the links it may still walk, then
\* the fixed steps that follow.
distance(v) ==
  LET left == 2 * (MaxTrustDepth + 1 - Cardinality(visited[v])) IN
  CASE pc[v] = "idle"            -> 2 * MaxTrustDepth + 11
    [] pc[v] = "key"             -> 2 * MaxTrustDepth + 10
    [] pc[v] = "chain"           -> left + 7
    [] pc[v] = "issuer"          -> left + 6
    [] pc[v] = "target-key"      -> 5
    [] pc[v] = "target-issuer"   -> 4
    [] pc[v] = "target-document" -> 3
    [] pc[v] = "signature"       -> 2
    [] pc[v] = "replay"          -> 1
    [] pc[v] = "done"            -> 0

\* Every step of a verification brings it nearer to its end, whatever the
\* registry does under the walk: a cycle of issuers, or a chain that keeps
\* growing, cannot hold validateTrustChain in its loop.  Since every lookup
\* answers or throws (LookupEnds in LookupCache), every verification ends.
WalkAdvances ==
  [][\A v \in Verifications : pc'[v] # pc[v] => distance(v)' \in 0 .. (distance(v) - 1)]_vars
=============================================================================
