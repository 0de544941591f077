----------------------------- MODULE IssuerProofs -----------------------------
(***************************************************************************)
(* The development issuer, for any number of overlapping calls, agents and *)
(* inputs: the records of an agent fit together, Envelopes verify against  *)
(* them, what is suspended stays so, and every record can be published.    *)
(*                                                                         *)
(* What the records of an agent say is tied to its signing key as long as  *)
(* no two registrations of it overlap; a Mandate's identifier is fresh     *)
(* because it ends with a number that nextId gives out once.  A record can *)
(* be published because the schema that its document passed requires the   *)
(* members that the public record needs, and its key is exported without   *)
(* the private part.                                                       *)
(***************************************************************************)
EXTENDS Issuer, SequenceTheorems, TLAPS

AgentIds == {agentIdOf(input.slug) : input \in Registrations}

\* The number that nextId gave an identifier.
stamp(id) == id[Len(id)]

-----------------------------------------------------------------------------
(* Identifiers. *)

\* An identifier that nextId ends: its kind is its first part, the number its
\* last.
LEMMA Named ==
  ASSUME NEW s \in Ids, NEW kind \in Parts, NEW t \in Parts, NEW n \in Parts
  PROVE  LET id == <<kind>> \o Tail(s) \o <<t, n>>
         IN  id \in Ids /\ id[1] = kind /\ stamp(id) = n
<1>1. s \in Seq(Parts) /\ s # << >>
  BY DEF Ids
<1>2. Tail(s) \in Seq(Parts)
  BY <1>1
<1> DEFINE l == <<kind>>
           m == l \o Tail(s)
           r == <<t, n>>
           id == m \o r
<1>3. l \in Seq(Parts) /\ Len(l) = 1 /\ l[1] = kind
  OBVIOUS
<1>4. r \in Seq(Parts) /\ Len(r) = 2 /\ r[2] = n
  OBVIOUS
<1> HIDE DEF l, r
<1>5. m \in Seq(Parts) /\ Len(m) = 1 + Len(Tail(s)) /\ m[1] = kind
  BY <1>2, <1>3, ConcatProperties
<1> HIDE DEF m
<1>6. Len(m) \in Nat /\ Len(m) >= 1
  BY <1>2, <1>5, LenProperties
<1>7. id \in Seq(Parts) /\ Len(id) = Len(m) + 2 /\ id[1] = m[1] /\ id[Len(m) + 2] = r[2]
  <2>1. /\ id \in Seq(Parts) /\ Len(id) = Len(m) + Len(r)
        /\ \A i \in 1 .. Len(m) + Len(r) : id[i] = IF i <= Len(m) THEN m[i] ELSE r[i - Len(m)]
    <3>1. m \in Seq(Parts) /\ r \in Seq(Parts)
      BY <1>4, <1>5
    <3> QED
      BY <3>1, ConcatProperties
  <2>2. 1 \in 1 .. Len(m) + Len(r) /\ 1 <= Len(m)
    BY <1>4, <1>6
  <2>3. Len(m) + 2 \in 1 .. Len(m) + Len(r) /\ ~(Len(m) + 2 <= Len(m)) /\ Len(m) + 2 - Len(m) = 2
    BY <1>4, <1>6
  <2> HIDE DEF id
  <2> QED
    BY <1>4, <2>1, <2>2, <2>3
<1> HIDE DEF id
<1>8. id \in Ids /\ id[1] = kind /\ stamp(id) = n
  BY <1>4, <1>5, <1>6, <1>7 DEF Ids, stamp
<1> QED
  BY <1>8 DEF id, m, l, r

\* The method of an agent, written out.
LEMMA Method ==
  ASSUME NEW x
  PROVE  agentMethod(<<"agent", "o", x>>) = <<"key", "o", x, "development-1">>
<1> DEFINE S == {"key", "o", x, "development-1"}
           l == <<"key">>
           t == Tail(<<"agent", "o", x>>)
           e == <<"development-1">>
           m == l \o t
           all == <<"key", "o", x, "development-1">>
<1>1. l \in Seq(S) /\ Len(l) = 1 /\ l[1] = "key"
  OBVIOUS
<1>2. t = <<"o", x>>
  OBVIOUS
<1>3. t \in Seq(S) /\ Len(t) = 2 /\ t[1] = "o" /\ t[2] = x
  BY <1>2
<1>4. e \in Seq(S) /\ Len(e) = 1 /\ e[1] = "development-1"
  OBVIOUS
<1>5. all \in Seq(S) /\ Len(all) = 4 /\ all[1] = "key" /\ all[2] = "o" /\ all[3] = x /\ all[4] = "development-1"
  OBVIOUS
<1> HIDE DEF S, l, t, e, all
<1>6. m \in Seq(S) /\ Len(m) = 3 /\ m[1] = "key" /\ m[2] = "o" /\ m[3] = x
  BY <1>1, <1>3, ConcatProperties
<1> HIDE DEF m
<1>7. m \o e \in Seq(S) /\ Len(m \o e) = 4 /\ (m \o e)[1] = "key" /\ (m \o e)[2] = "o" /\ (m \o e)[3] = x
        /\ (m \o e)[4] = "development-1"
  <2>0. /\ m \o e \in Seq(S) /\ Len(m \o e) = Len(m) + Len(e)
        /\ \A i \in 1 .. Len(m) + Len(e) : (m \o e)[i] = IF i <= Len(m) THEN m[i] ELSE e[i - Len(m)]
    BY <1>4, <1>6, ConcatProperties
  <2>1. /\ m \o e \in Seq(S) /\ Len(m \o e) = 4
        /\ \A i \in 1 .. 4 : (m \o e)[i] = IF i <= 3 THEN m[i] ELSE e[i - 3]
    BY <1>4, <1>6, <2>0
  <2>2. (m \o e)[1] = m[1] /\ (m \o e)[2] = m[2] /\ (m \o e)[3] = m[3] /\ (m \o e)[4] = e[1]
    BY <2>1
  <2> QED
    BY <1>4, <1>6, <2>1, <2>2
<1>8. m \o e = all
  <2> DEFINE whole == m \o e
  <2>1. whole \in Seq(S) /\ Len(whole) = 4 /\ \A i \in 1..4 : whole[i] = all[i]
    BY <1>5, <1>7
  <2> HIDE DEF whole
  <2>2. whole = all
    BY <1>5, <2>1, SeqEqual
  <2> QED
    BY <2>2 DEF whole
<1> QED
  BY <1>8 DEF agentMethod, m, l, t, e, all

\* Agents have methods of their own, other than the issuer's.
LEMMA MethodsApart ==
  ASSUME NEW a \in AgentIds
  PROVE  /\ agentMethod(a) # verificationMethodId
         /\ \A b \in AgentIds : agentMethod(a) = agentMethod(b) => a = b
<1>1. \A b \in AgentIds : \E x : b = <<"agent", "o", x>>
  BY DEF AgentIds, agentIdOf
<1>2. PICK x : a = <<"agent", "o", x>>
  BY <1>1
<1>3. agentMethod(a) = <<"key", "o", x, "development-1">>
  BY <1>2, Method
<1>4. agentMethod(a) # verificationMethodId
  BY <1>3 DEF verificationMethodId
<1>5. ASSUME NEW b \in AgentIds, agentMethod(a) = agentMethod(b)
      PROVE  a = b
  <2>1. PICK y : b = <<"agent", "o", y>>
    BY <1>1
  <2>2. agentMethod(b) = <<"key", "o", y, "development-1">>
    BY <2>1, Method
  <2>3. x = y
    BY <1>3, <1>5, <2>2
  <2> QED
    BY <1>2, <2>1, <2>3
<1> QED
  BY <1>4, <1>5

\* An agent's identifier is one, of its own kind.
LEMMA AgentsNamed == \A a \in AgentIds : a \in Ids /\ a[1] = "agent"
<1> SUFFICES ASSUME NEW input \in Registrations
             PROVE  agentIdOf(input.slug) \in Ids /\ agentIdOf(input.slug)[1] = "agent"
  BY DEF AgentIds
<1> DEFINE x == Normal[input.slug]
<1>1. x \in Parts /\ "agent" \in Parts /\ "o" \in Parts
  BY DEF Parts, Kinds
<1> HIDE DEF x
<1>2. <<"agent", "o", x>> \in Seq(Parts) /\ <<"agent", "o", x>> # << >> /\ <<"agent", "o", x>>[1] = "agent"
  BY <1>1
<1> QED
  BY <1>2 DEF agentIdOf, Ids, x

-----------------------------------------------------------------------------
(* The inductive invariant. *)

\* The call x is registering the agent a.
Enrols(x, a) == x.pc \in {"generate", "sign"} /\ (x.pc = "sign" => x.type = "passport") /\ x.document.id = a

jwkOf(document) == document.verification_methods[1].public_key_jwk

RecordTypesInv == {"organisation", "issuer", "key", "agent", "passport", "mandate", "receipt", "revocation"}

\* What the registry holds under a key.  Only agents, Passports and Mandates
\* can be suspended, and a revocation never was anything else.
RecordInv(k) ==
  /\ k = <<k[1], k[2]>> /\ k[1] \in RecordTypesInv
  /\ k[1] \in {"agent", "passport", "mandate"} => {"status", "private_attributes"} \subseteq DOMAIN records[k]
  /\ k[1] \in {"key", "receipt", "organisation", "issuer"} => records[k].status = "active"
  /\ k[1] \in {"agent", "passport"} => k[2] \in AgentIds
  /\ k[1] = "passport" => registered("agent", k[2])
  /\ k[1] = "mandate" => stamp(k[2]) \in Nat /\ stamp(k[2]) <= sequence
  /\ k[1] = "key" => \/ k[2] = verificationMethodId
                     \/ \E a \in AgentIds : /\ k[2] = agentMethod(a) /\ registered("agent", a)
                                            /\ records[k].public_attributes.controller = a

\* The records of an agent are there together and name one key; unless
\* registrations overlapped, it is the key that the agent signs with.
AgentInv(a) ==
  LET credential == records[<<"passport", a>>].private_attributes.credential
      published == records[<<"key", agentMethod(a)>>].public_attributes.public_key_jwk
  IN  /\ registered("agent", a) =>
           /\ registered("passport", a) /\ registered("key", agentMethod(a))
           /\ records[<<"agent", a>>].private_attributes.passport = credential
           /\ jwkOf(credential) = published
           /\ a \notin overlapped => /\ a \in DOMAIN agentKeys /\ published = publicJwk(agentKeys[a])
                                     /\ \A c \in Calls : ~Enrols(call[c], a)
      /\ a \notin overlapped => \A c, d \in Calls : Enrols(call[c], a) /\ Enrols(call[d], a) => c = d

PassportInv(d) ==
  /\ d.id \in AgentIds /\ d.verification_methods[1].id = agentMethod(d.id)
  /\ d.id \notin overlapped => d.id \in DOMAIN agentKeys /\ jwkOf(d) = publicJwk(agentKeys[d.id])

\* A Mandate that is being signed has an identifier of its own.
MandateInv(d) ==
  /\ d.id[1] = "mandate"
  /\ stamp(d.id) \in Nat /\ stamp(d.id) <= sequence /\ ~registered("mandate", d.id)

EnvelopeInv(e) ==
  LET credential == records[<<"mandate", e.mandate_id>>].private_attributes.credential
  IN  /\ e.id \in Ids /\ e.id[1] = "tx"
      /\ registered("mandate", e.mandate_id) /\ credential.subject = e.agent_id
      /\ credential.not_before <= e.issued_at /\ e.issued_at < credential.expires_at
      /\ e.agent_id \in AgentIds /\ registered("agent", e.agent_id)
      /\ e.proof.verification_method = agentMethod(e.agent_id)
      /\ e.agent_id \in overlapped \/ e.proof.signature = agentKeys[e.agent_id]

CallInv(x) ==
  /\ x.pc \in {"idle", "generate", "sign"}
  /\ x.pc = "generate" => "id" \in DOMAIN x.document /\ x.document.id \in AgentIds
  /\ x.pc = "sign" =>
       /\ x.type \in {"passport", "mandate", "envelope", "receipt"}
       /\ x.type = "passport" => PassportInv(x.document)
       /\ x.type = "mandate" => MandateInv(x.document)
       /\ x.type = "envelope" => EnvelopeInv(x.document)
       /\ x.type = "receipt" => x.document.id[1] = "receipt"

Mints(x) == x.pc = "sign" /\ x.type = "mandate"

IssuerInv ==
  /\ now \in Nat /\ sequence \in Nat /\ call = [c \in Calls |-> call[c]] /\ DOMAIN agentKeys \subseteq AgentIds
  /\ \A k \in DOMAIN records : RecordInv(k)
  /\ \A a \in AgentIds : AgentInv(a)
  /\ \A c \in Calls : CallInv(call[c])
  /\ \A c, d \in Calls : c # d /\ Mints(call[c]) /\ Mints(call[d]) =>
       stamp(call[c].document.id) # stamp(call[d].document.id)
  /\ \A d \in handed : d.id[1] = "tx" => EnvelopeInv(d)

\* The registry that create leaves behind satisfies the invariant.
LEMMA InitInv == Init => IssuerInv
<1> SUFFICES ASSUME Init PROVE IssuerInv
  OBVIOUS
<1>1. /\ now = 0 /\ sequence = 0 /\ agentKeys = << >> /\ handed = {} /\ overlapped = {}
      /\ call = [c \in Calls |-> [pc |-> "idle"]]
  BY DEF Init
<1>2. /\ now \in Nat /\ sequence \in Nat /\ call = [c \in Calls |-> call[c]] /\ DOMAIN agentKeys \subseteq AgentIds
  BY <1>1
<1>3. \A k \in DOMAIN records : /\ k \in {<<"organisation", organisationId>>, <<"issuer", issuerId>>,
                                          <<"key", verificationMethodId>>}
                                /\ records[k].status = "active"
  <2> DEFINE own(type, id) ==
               [type |-> type, id |-> id, display_name |-> "organisation", status |-> "active", issuer |-> issuerId,
                organisation_id |-> IF type = "issuer" THEN organisationId ELSE None, issued_at |-> now,
                assurance_level |-> IF type = "organisation" THEN "development" ELSE None,
                proof_status |-> "verified", public_attributes |-> [environment |-> "development"]]
             first == {own("organisation", organisationId), own("issuer", issuerId),
                       registryKey(verificationMethodId, issuerId, exported(0), now, now + Day)}
  <2>1. records = [k \in {key(r) : r \in first} |-> CHOOSE r \in first : key(r) = k]
    BY DEF Init
  <2>2. \A r \in first : /\ r.status = "active"
                         /\ key(r) \in {<<"organisation", organisationId>>, <<"issuer", issuerId>>,
                                        <<"key", verificationMethodId>>}
    BY DEF key, registryKey
  <2> HIDE DEF first
  <2>3. ASSUME NEW k \in DOMAIN records
        PROVE  records[k] \in first /\ key(records[k]) = k
    <3>1. k \in {key(r) : r \in first} /\ records[k] = CHOOSE r \in first : key(r) = k
      BY <2>1
    <3>2. \E r \in first : key(r) = k
      BY <3>1
    <3> QED
      BY <3>1, <3>2
  <2> QED
    BY <2>2, <2>3
<1>4. \A k \in DOMAIN records : RecordInv(k)
  BY <1>3 DEF RecordInv, RecordTypesInv
<1>5. \A a \in AgentIds : AgentInv(a)
  BY <1>1, <1>3 DEF AgentInv, registered, Enrols
<1>6. \A c \in Calls : CallInv(call[c]) /\ ~Mints(call[c])
  BY <1>1 DEF CallInv, Mints
<1> QED
  BY <1>1, <1>2, <1>4, <1>5, <1>6 DEF IssuerInv

\* Steps that record nothing and leave alone the keys of the agents that are
\* registered, unless registrations of theirs overlapped.
LEMMA RecordsKept ==
  ASSUME records' = records, sequence \in Nat, sequence' \in Nat, sequence <= sequence', overlapped \subseteq overlapped',
         \A a \in AgentIds : registered("agent", a) => a \in overlapped' \/ agentKeys'[a] = agentKeys[a]
  PROVE  /\ \A k : RecordInv(k) => RecordInv(k)'
         /\ \A d : MandateInv(d) => MandateInv(d)'
         /\ \A e : EnvelopeInv(e) => EnvelopeInv(e)'
<1>1. \A t, i : registered(t, i)' = registered(t, i)
  BY DEF registered
<1>2. ASSUME NEW k, RecordInv(k)
      PROVE  RecordInv(k)'
  BY <1>1, <1>2 DEF RecordInv
<1>3. ASSUME NEW d, MandateInv(d)
      PROVE  MandateInv(d)'
  BY <1>1, <1>3 DEF MandateInv
<1>4. ASSUME NEW e, EnvelopeInv(e)
      PROVE  EnvelopeInv(e)'
  BY <1>1, <1>4 DEF EnvelopeInv
<1> QED
  BY <1>2, <1>3, <1>4

\* A call of createMandate, signTransaction or issueReceipt goes to its
\* signature.
LEMMA Started ==
  ASSUME IssuerInv, NEW c \in Calls, call[c].pc = "idle", NEW x, call' = [call EXCEPT ![c] = x],
         UNCHANGED <<records, agentKeys, now, handed, overlapped>>, sequence' = sequence + 2,
         x.pc = "sign", x.type # "passport", CallInv(x)', Mints(x) => stamp(x.document.id) = sequence + 1
  PROVE  IssuerInv'
<1> USE DEF IssuerInv
<1>1. /\ now' \in Nat /\ sequence' \in Nat /\ call' = [d \in Calls |-> call'[d]] /\ DOMAIN agentKeys' \subseteq AgentIds
  OBVIOUS
<1>2. call'[c] = x /\ \A d \in Calls : d # c => call'[d] = call[d]
  OBVIOUS
<1>3. sequence \in Nat /\ sequence' \in Nat /\ sequence <= sequence' /\ overlapped \subseteq overlapped'
  OBVIOUS
<1>4. /\ \A k : RecordInv(k) => RecordInv(k)'
      /\ \A d : MandateInv(d) => MandateInv(d)'
      /\ \A e : EnvelopeInv(e) => EnvelopeInv(e)'
  BY <1>3, RecordsKept
<1>5. \A k \in DOMAIN records' : RecordInv(k)'
  BY <1>4
<1>6. ASSUME NEW a \in AgentIds
      PROVE  AgentInv(a)'
  <2>1. \A d \in Calls : Enrols(call'[d], a) => Enrols(call[d], a)
    BY <1>2 DEF Enrols
  <2>2. AgentInv(a)
    OBVIOUS
  <2> QED
    BY <2>1, <2>2 DEF AgentInv, registered
<1>7. ASSUME NEW d \in Calls
      PROVE  CallInv(call[d])'
  <2>1. CASE d = c
    BY <1>2, <2>1
  <2>2. CASE d # c
    <3>1. call'[d] = call[d] /\ CallInv(call[d])
      BY <1>2, <2>2
    <3>2. \A p : PassportInv(p) => PassportInv(p)'
      BY DEF PassportInv
    <3> QED
      BY <1>4, <3>1, <3>2 DEF CallInv
  <2> QED
    BY <2>1, <2>2
<1>8. ASSUME NEW d \in Calls, NEW e \in Calls, d # e, Mints(call[d])', Mints(call[e])'
      PROVE  stamp(call'[d].document.id) # stamp(call'[e].document.id)
  <2>1. \A f \in Calls : Mints(call[f]) => stamp(call[f].document.id) \in Nat /\ stamp(call[f].document.id) <= sequence
    BY DEF CallInv, MandateInv, Mints
  <2>2. CASE d # c /\ e # c
    BY <1>2, <1>8, <2>2
  <2>3. CASE d = c
    <3>1. call'[e] = call[e] /\ Mints(call[e]) /\ stamp(call'[d].document.id) = sequence + 1
      BY <1>2, <1>8, <2>3
    <3> QED
      BY <1>3, <2>1, <3>1
  <2>4. CASE e = c
    <3>1. call'[d] = call[d] /\ Mints(call[d]) /\ stamp(call'[e].document.id) = sequence + 1
      BY <1>2, <1>8, <2>4
    <3> QED
      BY <1>3, <2>1, <3>1
  <2> QED
    BY <2>2, <2>3, <2>4
<1>9. \A d \in handed' : d.id[1] = "tx" => EnvelopeInv(d)'
  BY <1>4
<1> QED
  BY <1>1, <1>5, <1>6, <1>7, <1>8, <1>9

\* What nextId makes is made of parts.
LEMMA NumbersAreParts ==
  ASSUME IssuerInv
  PROVE  /\ now \in Parts /\ sequence + 1 \in Parts
         /\ {"mandate", "tx", "receipt"} \subseteq Parts
<1>1. now \in Nat /\ sequence + 1 \in Nat
  BY DEF IssuerInv
<1>2. {"mandate", "tx", "receipt"} \subseteq Kinds
  BY DEF Kinds
<1> QED
  BY <1>1, <1>2 DEF Parts

\* createMandate: the identifier is new because its number is.
LEMMA CreateMandateKeeps ==
  ASSUME IssuerInv, NEW c \in Calls, createMandate(c)
  PROVE  IssuerInv'
<1>1. PICK agentId \in DOMAIN agentKeys, input \in MandateInputs :
        LET document == [oati_version |-> "1.0", id |-> <<"mandate">> \o Tail(agentId) \o nextId(now, 1),
                         issuer |-> issuerId, subject |-> agentId, purpose |-> input.purpose,
                         actions |-> input.actions, profile |-> ifGiven(input.profile), not_before |-> now,
                         expires_at |-> now + input.lifetime, status |-> "active",
                         delegation |-> [allowed |-> FALSE, max_depth |-> 0]]
        IN  Await(c, [pc |-> "sign", type |-> "mandate", display |-> input.purpose,
                      document |-> signed(document, 0, verificationMethodId, "oati:development:mandate",
                                          now, input.lifetime, nextId(now, 2))])
  BY DEF createMandate
<1>2. /\ call[c].pc = "idle" /\ sequence' = sequence + 2
      /\ UNCHANGED <<records, agentKeys, now, handed, overlapped>>
  BY DEF createMandate, Idle
<1> DEFINE id == <<"mandate">> \o Tail(agentId) \o <<now, sequence + 1>>
           document == [oati_version |-> "1.0", id |-> id,
                        issuer |-> issuerId, subject |-> agentId, purpose |-> input.purpose,
                        actions |-> input.actions, profile |-> ifGiven(input.profile), not_before |-> now,
                        expires_at |-> now + input.lifetime, status |-> "active",
                        delegation |-> [allowed |-> FALSE, max_depth |-> 0]]
           m == signed(document, 0, verificationMethodId, "oati:development:mandate", now, input.lifetime, nextId(now, 2))
           x == [pc |-> "sign", type |-> "mandate", display |-> input.purpose, document |-> m]
<1>3. call' = [call EXCEPT ![c] = x]
  BY <1>1 DEF Await, nextId
<1>4. agentId \in Ids
  BY AgentsNamed DEF IssuerInv
<1>5. id[1] = "mandate" /\ stamp(id) = sequence + 1
  BY <1>4, Named, NumbersAreParts
<1>6. m.id = id
  <2> HIDE DEF id
  <2>1. "id" \in DOMAIN document /\ document.id = id
    OBVIOUS
  <2> HIDE DEF document
  <2>2. \A f \in DOMAIN document : f # "proof" => m[f] = document[f]
    BY DEF signed, with, put
  <2> HIDE DEF m
  <2> QED
    BY <2>1, <2>2
<1>7. x.pc = "sign" /\ x.type = "mandate" /\ x.document = m
  <2> HIDE DEF m
  <2> QED
    OBVIOUS
<1> HIDE DEF m, x
<1>8. PICK y : /\ call' = [call EXCEPT ![c] = y] /\ y.pc = "sign" /\ y.type = "mandate"
               /\ y.document.id[1] = "mandate" /\ stamp(y.document.id) = sequence + 1
  BY <1>3, <1>5, <1>6, <1>7
<1>9. ~registered("mandate", y.document.id)
  <2> SUFFICES ASSUME registered("mandate", y.document.id) PROVE FALSE
    OBVIOUS
  <2> DEFINE k == <<"mandate", y.document.id>>
  <2>1. RecordInv(k)
    BY DEF IssuerInv, registered
  <2>2. stamp(y.document.id) \in Nat /\ stamp(y.document.id) <= sequence
    BY <2>1 DEF RecordInv
  <2> QED
    BY <1>8, <2>2 DEF IssuerInv
<1>10. CallInv(y)'
  <2>1. sequence \in Nat /\ registered("mandate", y.document.id)' = registered("mandate", y.document.id)
    BY <1>2 DEF IssuerInv, registered
  <2>2. stamp(y.document.id) \in Nat /\ stamp(y.document.id) <= sequence'
    BY <1>2, <1>8, <2>1
  <2>3. MandateInv(y.document)'
    BY <1>8, <1>9, <2>1, <2>2 DEF MandateInv
  <2> QED
    BY <1>8, <2>3 DEF CallInv
<1> QED
  BY <1>2, <1>8, <1>10, Started

\* signTransaction: the Mandate it accepts is the registered credential, and the
\* key it signs with is the one that the registry publishes.
LEMMA SignTransactionKeeps ==
  ASSUME IssuerInv, NEW c \in Calls, signTransaction(c)
  PROVE  IssuerInv'
<1>1. PICK agentId \in DOMAIN agentKeys, m \in presented, input \in TransactionInputs :
        /\ inService("agent", agentId)
        /\ mandateAccepted(m, agentId)
        /\ LET document == [oati_version |-> "1.0", id |-> <<"tx">> \o Tail(agentId) \o nextId(now, 1),
                            agent_id |-> agentId,
                            organisation_id |-> organisationId, mandate_id |-> m.id, action |-> input.action,
                            resource |-> input.resource, purpose |-> orElse(input, "purpose", m.purpose),
                            profile |-> ifGiven(orElse(input, "profile", m.profile)),
                            issued_at |-> now, nonce |-> <<36, sequence>>]
           IN  Await(c, [pc |-> "sign", type |-> "envelope", display |-> input.action,
                         document |-> signed(document, signingPair(agentId), agentMethod(agentId), input.audience,
                                             now, input.lifetime, nextId(now, 2))])
  BY DEF signTransaction
<1>2. /\ call[c].pc = "idle" /\ sequence' = sequence + 2
      /\ UNCHANGED <<records, agentKeys, now, handed, overlapped>>
  BY DEF signTransaction, Idle
<1> DEFINE id == <<"tx">> \o Tail(agentId) \o <<now, sequence + 1>>
           purpose == orElse(input, "purpose", m.purpose)
           profile == ifGiven(orElse(input, "profile", m.profile))
           document == [oati_version |-> "1.0", id |-> id, agent_id |-> agentId,
                        organisation_id |-> organisationId, mandate_id |-> m.id, action |-> input.action,
                        resource |-> input.resource, purpose |-> purpose, profile |-> profile,
                        issued_at |-> now, nonce |-> <<36, sequence>>]
           e == signed(document, signingPair(agentId), agentMethod(agentId), input.audience,
                       now, input.lifetime, nextId(now, 2))
           x == [pc |-> "sign", type |-> "envelope", display |-> input.action, document |-> e]
<1>3. call' = [call EXCEPT ![c] = x]
  BY <1>1 DEF Await, nextId
<1>4. agentId \in AgentIds /\ agentId \in Ids
  BY AgentsNamed DEF IssuerInv
<1>5. id[1] = "tx" /\ id \in Ids
  BY <1>4, Named, NumbersAreParts
<1>6. /\ e.id = id /\ e.agent_id = agentId /\ e.mandate_id = m.id /\ e.issued_at = now
      /\ e.proof.verification_method = agentMethod(agentId) /\ e.proof.signature = agentKeys[agentId]
  <2> HIDE DEF id, purpose, profile
  <2>1. /\ "id" \in DOMAIN document /\ document.id = id
        /\ "agent_id" \in DOMAIN document /\ document.agent_id = agentId
        /\ "mandate_id" \in DOMAIN document /\ document.mandate_id = m.id
        /\ "issued_at" \in DOMAIN document /\ document.issued_at = now
    OBVIOUS
  <2> HIDE DEF document
  <2>2. \A f \in DOMAIN document : f # "proof" => e[f] = document[f]
    BY DEF signed, with, put
  <2>3. e.proof.verification_method = agentMethod(agentId) /\ e.proof.signature = agentKeys[agentId]
    BY DEF signed, with, put, signingPair
  <2> HIDE DEF e
  <2> QED
    BY <2>1, <2>2, <2>3
<1>7. x.pc = "sign" /\ x.type = "envelope" /\ x.document = e
  <2> HIDE DEF e
  <2> QED
    OBVIOUS
<1> HIDE DEF e, x, id
<1>8. PICK y : /\ call' = [call EXCEPT ![c] = y] /\ y.pc = "sign" /\ y.type = "envelope"
               /\ y.document.id \in Ids /\ y.document.id[1] = "tx"
               /\ y.document.agent_id = agentId /\ y.document.mandate_id = m.id /\ y.document.issued_at = now
               /\ y.document.proof.verification_method = agentMethod(agentId)
               /\ y.document.proof.signature = agentKeys[agentId]
  BY <1>3, <1>5, <1>6, <1>7
<1>9. /\ registered("agent", agentId) /\ registered("mandate", m.id) /\ m.subject = agentId
      /\ records[<<"mandate", m.id>>].private_attributes.credential = m
      /\ m.not_before <= now /\ now < m.expires_at
  BY <1>1 DEF mandateAccepted, inService
<1>10. CallInv(y)'
  <2>1. \A t, i : registered(t, i)' = registered(t, i)
    BY <1>2 DEF registered
  <2>2. EnvelopeInv(y.document)'
    BY <1>2, <1>4, <1>8, <1>9, <2>1 DEF EnvelopeInv
  <2> QED
    BY <1>8, <2>2 DEF CallInv
<1> QED
  BY <1>2, <1>8, <1>10, Started DEF Mints

\* issueReceipt.
LEMMA IssueReceiptKeeps ==
  ASSUME IssuerInv, NEW c \in Calls, issueReceipt(c)
  PROVE  IssuerInv'
<1>1. PICK transaction \in {d \in handed : d.id[1] = "tx"} \cup Unsigned, input \in ReceiptInputs :
        LET document == [oati_version |-> "1.0", id |-> <<"receipt">> \o Tail(transaction.id) \o nextId(now, 1),
                         transaction_id |-> transaction.id, agent_id |-> transaction.agent_id,
                         organisation_id |-> transaction.organisation_id, mandate_id |-> transaction.mandate_id,
                         decision |-> input.decision, outcome |-> input.outcome, occurred_at |-> now,
                         issuer |-> issuerId, profile |-> ifGiven(input.profile)]
        IN  Await(c, [pc |-> "sign", type |-> "receipt", display |-> "receipt",
                      document |-> signed(document, 0, verificationMethodId, input.audience, now, Day, nextId(now, 2))])
  BY DEF issueReceipt
<1>2. /\ call[c].pc = "idle" /\ sequence' = sequence + 2
      /\ UNCHANGED <<records, agentKeys, now, handed, overlapped>>
  BY DEF issueReceipt, Idle
<1> DEFINE id == <<"receipt">> \o Tail(transaction.id) \o <<now, sequence + 1>>
           document == [oati_version |-> "1.0", id |-> id,
                        transaction_id |-> transaction.id, agent_id |-> transaction.agent_id,
                        organisation_id |-> transaction.organisation_id, mandate_id |-> transaction.mandate_id,
                        decision |-> input.decision, outcome |-> input.outcome, occurred_at |-> now,
                        issuer |-> issuerId, profile |-> ifGiven(input.profile)]
           r == signed(document, 0, verificationMethodId, input.audience, now, Day, nextId(now, 2))
           x == [pc |-> "sign", type |-> "receipt", display |-> "receipt", document |-> r]
<1>3. call' = [call EXCEPT ![c] = x]
  BY <1>1 DEF Await, nextId
<1>4. transaction.id \in Ids
  BY UnsignedAreNamed DEF IssuerInv, EnvelopeInv
<1>5. id[1] = "receipt"
  BY <1>4, Named, NumbersAreParts
<1>6. r.id = id
  <2> HIDE DEF id
  <2>1. "id" \in DOMAIN document /\ document.id = id
    OBVIOUS
  <2> HIDE DEF document
  <2>2. \A f \in DOMAIN document : f # "proof" => r[f] = document[f]
    BY DEF signed, with, put
  <2> HIDE DEF r
  <2> QED
    BY <2>1, <2>2
<1>7. x.pc = "sign" /\ x.type = "receipt" /\ x.document = r
  <2> HIDE DEF r
  <2> QED
    OBVIOUS
<1> HIDE DEF r, x, id
<1>8. PICK y : /\ call' = [call EXCEPT ![c] = y] /\ y.pc = "sign" /\ y.type = "receipt"
               /\ y.document.id[1] = "receipt"
  BY <1>3, <1>5, <1>6, <1>7
<1>9. CallInv(y)'
  BY <1>8 DEF CallInv
<1> QED
  BY <1>2, <1>8, <1>9, Started DEF Mints

\* registerAgent up to the key: a second call under way is noted as an overlap.
LEMMA RegisterAgentKeeps ==
  ASSUME IssuerInv, NEW c \in Calls, registerAgent(c)
  PROVE  IssuerInv'
<1> USE DEF IssuerInv
<1>1. PICK input \in Registrations :
        LET agentId == agentIdOf(input.slug) IN
        /\ ~registered("agent", agentId)
        /\ Await(c, [pc |-> "generate",
                     document |-> [oati_version |-> "1.0", id |-> agentId, organisation_id |-> organisationId,
                                   issuer |-> issuerId, status |-> "active", display_name |-> input.displayName,
                                   capabilities |-> input.capabilities, protocols |-> input.protocols,
                                   assurance_level |-> "development", issued_at |-> now, expires_at |-> now + Day]])
        /\ overlapped' = IF registering(agentId) = {} THEN overlapped ELSE overlapped \cup {agentId}
  BY DEF registerAgent
<1>2. call[c].pc = "idle" /\ UNCHANGED <<records, agentKeys, sequence, now, handed>>
  BY DEF registerAgent, Idle
<1>3. PICK a \in AgentIds : a = agentIdOf(input.slug)
  BY DEF AgentIds
<1>4. PICK y : call' = [call EXCEPT ![c] = y] /\ y.pc = "generate" /\ "id" \in DOMAIN y.document /\ y.document.id = a
  <2> DEFINE document == [oati_version |-> "1.0", id |-> a, organisation_id |-> organisationId,
                          issuer |-> issuerId, status |-> "active", display_name |-> input.displayName,
                          capabilities |-> input.capabilities, protocols |-> input.protocols,
                          assurance_level |-> "development", issued_at |-> now, expires_at |-> now + Day]
             z == [pc |-> "generate", document |-> document]
  <2>1. call' = [call EXCEPT ![c] = z]
    BY <1>1, <1>3 DEF Await
  <2>2. "id" \in DOMAIN document /\ document.id = a
    OBVIOUS
  <2> HIDE DEF document
  <2>3. z.pc = "generate" /\ z.document = document
    OBVIOUS
  <2> HIDE DEF z
  <2> QED
    BY <2>1, <2>2, <2>3
<1>5. /\ overlapped \subseteq overlapped' /\ overlapped' \subseteq overlapped \cup {a}
      /\ a \notin overlapped' => \A d \in Calls : ~Enrols(call[d], a)
  BY <1>1, <1>3 DEF registering, Enrols
<1>6. /\ now' \in Nat /\ sequence' \in Nat /\ call' = [d \in Calls |-> call'[d]] /\ DOMAIN agentKeys' \subseteq AgentIds
  BY <1>2, <1>4
<1>7. call'[c] = y /\ \A d \in Calls : d # c => call'[d] = call[d]
  BY <1>4
<1>8. /\ \A k : RecordInv(k) => RecordInv(k)'
      /\ \A d : MandateInv(d) => MandateInv(d)'
      /\ \A e : EnvelopeInv(e) => EnvelopeInv(e)'
  <2>1. sequence \in Nat /\ sequence' \in Nat /\ sequence <= sequence'
    BY <1>2
  <2> QED
    BY <1>2, <1>5, <2>1, RecordsKept
<1>9. ASSUME NEW b \in AgentIds
      PROVE  AgentInv(b)'
  <2>1. AgentInv(b)
    OBVIOUS
  <2>2. \A t, i : registered(t, i)' = registered(t, i)
    BY <1>2 DEF registered
  <2>3. CASE b # a
    <3>1. \A d \in Calls : Enrols(call'[d], b) => Enrols(call[d], b)
      BY <1>4, <1>7, <2>3 DEF Enrols
    <3>2. b \notin overlapped' => b \notin overlapped
      BY <1>5
    <3> QED
      BY <1>2, <2>1, <2>2, <3>1, <3>2 DEF AgentInv
  <2>4. CASE b = a
    <3>1. ~registered("agent", b)'
      BY <1>1, <1>3, <2>2, <2>4
    <3>2. b \notin overlapped' => \A d \in Calls : Enrols(call'[d], b) => d = c
      BY <1>5, <1>7, <2>4
    <3> QED
      BY <3>1, <3>2 DEF AgentInv
  <2> QED
    BY <2>3, <2>4
<1>10. ASSUME NEW d \in Calls
       PROVE  CallInv(call[d])'
  <2>1. CASE d = c
    BY <1>4, <1>7, <2>1 DEF CallInv
  <2>2. CASE d # c
    <3>1. call'[d] = call[d] /\ CallInv(call[d])
      BY <1>7, <2>2
    <3>2. \A p : PassportInv(p) => PassportInv(p)'
      BY <1>2, <1>5 DEF PassportInv
    <3> QED
      BY <1>8, <3>1, <3>2 DEF CallInv
  <2> QED
    BY <2>1, <2>2
<1>11. \A d \in Calls : Mints(call'[d]) => d # c /\ Mints(call[d]) /\ call'[d] = call[d]
  BY <1>4, <1>7 DEF Mints
<1> QED
  BY <1>2, <1>6, <1>8, <1>9, <1>10, <1>11

\* registerAgent up to the signature: the key of a registered agent stays, unless
\* registrations overlapped.
LEMMA GenerateKeyKeeps ==
  ASSUME IssuerInv, NEW c \in Calls, generateKey(c)
  PROVE  IssuerInv'
<1> USE DEF IssuerInv
<1>1. /\ call[c].pc = "generate" /\ sequence' = sequence + 1
      /\ agentKeys' = put(agentKeys, call[c].document.id, keyPairs)
      /\ UNCHANGED <<records, now, handed, overlapped>>
      /\ call' = [call EXCEPT ![c] = [pc |-> "sign", type |-> "passport", document |-> passportOf(c),
                                      display |-> call[c].document.display_name]]
  BY DEF generateKey, holdPassport, Await
<1>2. "id" \in DOMAIN call[c].document /\ call[c].document.id \in AgentIds
  BY <1>1 DEF CallInv
<1>3. PICK a \in AgentIds : a = call[c].document.id
  BY <1>2
<1>4. /\ passportOf(c).id = a /\ passportOf(c).verification_methods[1].id = agentMethod(a)
      /\ jwkOf(passportOf(c)) = publicJwk(keyPairs)
  <2> DEFINE document == call[c].document
             method == [id |-> agentMethod(a), type |-> "JsonWebKey2020", controller |-> a,
                        public_key_jwk |-> publicJwk(keyPairs)]
             whole == with(document, "verification_methods", <<method>>)
             pass == signed(whole, 0, verificationMethodId,
                            "oati:development:passport", document.issued_at, Day, nextId(document.issued_at, 1))
  <2>1. passportOf(c) = pass
    BY <1>3 DEF passportOf, exported
  <2>2. method.id = agentMethod(a) /\ method.public_key_jwk = publicJwk(keyPairs)
    OBVIOUS
  <2> HIDE DEF method
  <2>3. "id" \in DOMAIN document /\ document.id = a
    BY <1>2, <1>3
  <2> HIDE DEF document
  <2>4. /\ DOMAIN whole = DOMAIN document \cup {"verification_methods"}
        /\ whole.verification_methods = <<method>> /\ whole.id = a
    BY <2>3 DEF with, put
  <2> HIDE DEF whole
  <2>5. \A f \in DOMAIN whole : f # "proof" => pass[f] = whole[f]
    BY DEF signed, with, put
  <2> HIDE DEF pass
  <2>6. pass.id = a /\ pass.verification_methods[1] = method
    BY <2>3, <2>4, <2>5
  <2> QED
    BY <2>1, <2>2, <2>6 DEF jwkOf
<1>5. PICK y : /\ call' = [call EXCEPT ![c] = y] /\ y.pc = "sign" /\ y.type = "passport" /\ y.document.id = a
               /\ y.document.verification_methods[1].id = agentMethod(a) /\ jwkOf(y.document) = publicJwk(keyPairs)
  <2> DEFINE pass == passportOf(c)
             z == [pc |-> "sign", type |-> "passport", document |-> pass, display |-> call[c].document.display_name]
  <2>1. pass.id = a /\ pass.verification_methods[1].id = agentMethod(a) /\ jwkOf(pass) = publicJwk(keyPairs)
    BY <1>4
  <2>2. call' = [call EXCEPT ![c] = z]
    BY <1>1
  <2> HIDE DEF pass
  <2>3. z.pc = "sign" /\ z.type = "passport" /\ z.document = pass
    OBVIOUS
  <2> HIDE DEF z
  <2> QED
    BY <2>1, <2>2, <2>3
<1>6. call'[c] = y /\ \A d \in Calls : d # c => call'[d] = call[d]
  BY <1>5
<1>7. /\ DOMAIN agentKeys' = DOMAIN agentKeys \cup {a} /\ agentKeys'[a] = keyPairs
      /\ \A b \in DOMAIN agentKeys : b # a => agentKeys'[b] = agentKeys[b]
  BY <1>1, <1>3 DEF put
<1>8. Enrols(call[c], a) /\ Enrols(y, a)
  BY <1>1, <1>3, <1>5 DEF Enrols
<1>9. /\ \A b : \A d \in Calls : Enrols(call'[d], b) => Enrols(call[d], b)
      /\ registered("agent", a) => a \in overlapped
  <2>1. \A b : Enrols(y, b) => b = a
    BY <1>5 DEF Enrols
  <2>2. AgentInv(a)
    OBVIOUS
  <2> QED
    BY <1>6, <1>8, <2>1, <2>2 DEF AgentInv
<1>10. \A b \in AgentIds : registered("agent", b) =>
         b \in overlapped \/ (b # a /\ b \in DOMAIN agentKeys /\ agentKeys'[b] = agentKeys[b])
  <2> SUFFICES ASSUME NEW b \in AgentIds, registered("agent", b), b \notin overlapped
               PROVE  b # a /\ b \in DOMAIN agentKeys /\ agentKeys'[b] = agentKeys[b]
    OBVIOUS
  <2>1. AgentInv(b)
    OBVIOUS
  <2>2. b # a /\ b \in DOMAIN agentKeys
    BY <1>9, <2>1 DEF AgentInv
  <2> QED
    BY <1>7, <2>2
<1>11. /\ \A k : RecordInv(k) => RecordInv(k)'
       /\ \A d : MandateInv(d) => MandateInv(d)'
       /\ \A e : EnvelopeInv(e) => EnvelopeInv(e)'
  <2>1. sequence \in Nat /\ sequence' \in Nat /\ sequence <= sequence'
    BY <1>1
  <2> QED
    BY <1>1, <1>10, <2>1, RecordsKept
<1>12. /\ now' \in Nat /\ sequence' \in Nat /\ call' = [d \in Calls |-> call'[d]] /\ DOMAIN agentKeys' \subseteq AgentIds
  BY <1>1, <1>5, <1>7
<1>13. ASSUME NEW b \in AgentIds
       PROVE  AgentInv(b)'
  <2>1. AgentInv(b)
    OBVIOUS
  <2>2. \A t, i : registered(t, i)' = registered(t, i)
    BY <1>1 DEF registered
  <2>3. \A d \in Calls : Enrols(call'[d], b) => Enrols(call[d], b)
    BY <1>9
  <2>4. b \in DOMAIN agentKeys => b \in DOMAIN agentKeys'
    BY <1>7
  <2> QED
    BY <1>1, <1>10, <2>1, <2>2, <2>3, <2>4 DEF AgentInv
<1>14. ASSUME NEW d \in Calls
       PROVE  CallInv(call[d])'
  <2>1. CASE d = c
    <3>1. PassportInv(y.document)'
      BY <1>5, <1>7 DEF PassportInv
    <3> QED
      BY <1>5, <1>6, <2>1, <3>1 DEF CallInv
  <2>2. CASE d # c
    <3>1. call'[d] = call[d] /\ CallInv(call[d])
      BY <1>6, <2>2
    <3>2. ASSUME call[d].pc = "sign", call[d].type = "passport"
          PROVE  PassportInv(call[d].document)'
      <4>1. PassportInv(call[d].document)
        BY <3>1, <3>2 DEF CallInv
      <4>2. PICK p : p = call[d].document
        OBVIOUS
      <4>3. Enrols(call[d], p.id)
        BY <3>2, <4>2 DEF Enrols
      <4>4. p.id \in AgentIds /\ AgentInv(p.id)
        BY <4>1, <4>2 DEF PassportInv
      <4>5. p.id = a => a \in overlapped
        BY <1>8, <2>2, <4>3, <4>4 DEF AgentInv
      <4>6. PassportInv(p)'
        BY <1>1, <1>7, <4>1, <4>2, <4>5 DEF PassportInv
      <4> QED
        BY <3>1, <4>2, <4>6
    <3> QED
      BY <1>11, <3>1, <3>2 DEF CallInv
  <2> QED
    BY <2>1, <2>2
<1>15. \A d \in Calls : Mints(call'[d]) => d # c /\ Mints(call[d]) /\ call'[d] = call[d]
  BY <1>5, <1>6 DEF Mints
<1> QED
  BY <1>1, <1>11, <1>12, <1>13, <1>14, <1>15

\* Only the record under k changes, to r.
Recorded(k, r) ==
  /\ DOMAIN records' = DOMAIN records \cup {k} /\ records'[k] = r
  /\ \A j \in DOMAIN records : j # k => records'[j] = records[j]

\* What credentialRecord makes of a document.
LEMMA CredentialFields ==
  ASSUME NEW type, NEW value, NEW display
  PROVE  LET r == credentialRecord(type, value, display)
         IN  /\ key(r) = <<type, value.id>>
             /\ {"status", "private_attributes"} \subseteq DOMAIN r /\ r.private_attributes.credential = value
             /\ type = "receipt" => r.status = "active"
<1> DEFINE issued == CASE has(value, "issued_at") -> value.issued_at
                       [] has(value, "not_before") -> value.not_before
                       [] OTHER -> value.occurred_at
           expires == IF has(value, "expires_at") THEN value.expires_at ELSE value.proof.expires
           subject == IF has(value, "subject") THEN value.subject ELSE value.id
           status == IF type = "receipt" THEN "active" ELSE value.status
           r == [type |-> type, id |-> value.id, display_name |-> display, status |-> status,
                 issuer |-> value.issuer, organisation_id |-> organisationId,
                 issued_at |-> issued, expires_at |-> expires, proof_status |-> "verified",
                 public_attributes |-> [subject |-> subject],
                 private_attributes |-> [credential |-> value]]
<1>1. credentialRecord(type, value, display) = r
  BY DEF credentialRecord
<1>2. type = "receipt" => status = "active"
  OBVIOUS
<1> HIDE DEF issued, expires, subject, status
<1>3. /\ r.type = type /\ r.id = value.id /\ r.status = status /\ r.private_attributes.credential = value
      /\ {"status", "private_attributes"} \subseteq DOMAIN r
  OBVIOUS
<1> HIDE DEF r
<1> QED
  BY <1>1, <1>2, <1>3 DEF key

\* What finish does: it records nothing, one credential, or the three records of
\* an agent.
LEMMA FinishCases ==
  ASSUME IssuerInv, NEW c \in Calls, finish(c)
  PROVE  /\ call[c].pc = "sign" /\ call' = [call EXCEPT ![c] = [pc |-> "idle"]]
         /\ UNCHANGED <<agentKeys, sequence, now, overlapped>>
         /\ \/ /\ records' = records
               /\ handed' = handed \/ (call[c].type = "envelope" /\ handed' = handed \cup {call[c].document})
            \/ /\ call[c].type \in {"mandate", "receipt"} /\ handed' = handed \cup {call[c].document}
               /\ \E r : /\ Recorded(<<call[c].type, call[c].document.id>>, r)
                         /\ {"status", "private_attributes"} \subseteq DOMAIN r
                         /\ call[c].type = "receipt" => r.status = "active"
            \/ /\ call[c].type = "passport" /\ handed' = handed \cup {call[c].document}
               /\ records' = putAgent(call[c].document, call[c].display)
<1>1. /\ call[c].pc = "sign" /\ call' = [call EXCEPT ![c] = [pc |-> "idle"]]
      /\ UNCHANGED <<agentKeys, sequence, now, overlapped>>
  BY DEF finish, Return, Await
<1> DEFINE type == call[c].type
           d == call[c].document
<1>2. type \in {"passport", "mandate", "envelope", "receipt"}
  BY <1>1 DEF IssuerInv, CallInv
<1>3. \/ records' = records /\ handed' = handed
      \/ /\ handed' = handed \cup {d}
         /\ records' = CASE type = "passport" -> putAgent(d, call[c].display)
                         [] type = "envelope" -> records
                         [] OTHER -> putRecord(records, credentialRecord(type, d, call[c].display))
  BY DEF finish
<1>4. CASE records' = records /\ handed' = handed
  BY <1>1, <1>4
<1>5. CASE /\ handed' = handed \cup {d}
           /\ records' = CASE type = "passport" -> putAgent(d, call[c].display)
                           [] type = "envelope" -> records
                           [] OTHER -> putRecord(records, credentialRecord(type, d, call[c].display))
  <2>1. CASE type = "passport"
    BY <1>1, <1>5, <2>1
  <2>2. CASE type = "envelope"
    BY <1>1, <1>5, <2>2
  <2>3. CASE type \in {"mandate", "receipt"}
    <3>1. PICK r : r = credentialRecord(type, d, call[c].display)
      OBVIOUS
    <3>2. records' = putRecord(records, r)
      BY <1>5, <2>3, <3>1
    <3>3. /\ key(r) = <<type, d.id>> /\ {"status", "private_attributes"} \subseteq DOMAIN r
          /\ type = "receipt" => r.status = "active"
      BY <3>1, CredentialFields
    <3>4. Recorded(<<type, d.id>>, r)
      BY <3>2, <3>3 DEF Recorded, putRecord, put
    <3> QED
      BY <1>1, <1>5, <2>3, <3>3, <3>4
  <2> QED
    BY <1>2, <2>1, <2>2, <2>3
<1> QED
  BY <1>3, <1>4, <1>5

\* What a call that returns leaves behind, whatever it recorded.
LEMMA Returned ==
  ASSUME IssuerInv, NEW c \in Calls, call' = [call EXCEPT ![c] = [pc |-> "idle"]],
         UNCHANGED <<agentKeys, sequence, now, overlapped>>
  PROVE  /\ now' \in Nat /\ sequence' \in Nat /\ call' = [d \in Calls |-> call'[d]] /\ DOMAIN agentKeys' \subseteq AgentIds
         /\ \A d \in Calls : d # c => call'[d] = call[d]
         /\ CallInv(call[c])'
         /\ \A a : \A d \in Calls : Enrols(call'[d], a) => d # c /\ Enrols(call[d], a)
         /\ \A p : PassportInv(p) => PassportInv(p)'
         /\ \A d, e \in Calls : d # e /\ Mints(call'[d]) /\ Mints(call'[e]) =>
              stamp(call'[d].document.id) # stamp(call'[e].document.id)
         /\ (\A d : MandateInv(d) => MandateInv(d)') /\ (\A e : EnvelopeInv(e) => EnvelopeInv(e)') =>
              \A d \in Calls : CallInv(call[d])'
<1> USE DEF IssuerInv
<1>1. /\ now' \in Nat /\ sequence' \in Nat /\ call' = [d \in Calls |-> call'[d]] /\ DOMAIN agentKeys' \subseteq AgentIds
  OBVIOUS
<1>2. call'[c].pc = "idle" /\ \A d \in Calls : d # c => call'[d] = call[d]
  OBVIOUS
<1>3. CallInv(call[c])'
  BY <1>2 DEF CallInv
<1>4. \A a : \A d \in Calls : Enrols(call'[d], a) => d # c /\ Enrols(call[d], a)
  BY <1>2 DEF Enrols
<1>5. \A p : PassportInv(p) => PassportInv(p)'
  BY DEF PassportInv
<1>6. \A d \in Calls : Mints(call'[d]) => d # c /\ Mints(call[d]) /\ call'[d] = call[d]
  BY <1>2 DEF Mints
<1>7. \A d, e \in Calls : d # e /\ Mints(call'[d]) /\ Mints(call'[e]) =>
        stamp(call'[d].document.id) # stamp(call'[e].document.id)
  BY <1>6
<1>8. ASSUME \A d : MandateInv(d) => MandateInv(d)', \A e : EnvelopeInv(e) => EnvelopeInv(e)', NEW d \in Calls
      PROVE  CallInv(call[d])'
  <2>1. CASE d = c
    BY <1>3, <2>1
  <2>2. CASE d # c
    <3>1. call'[d] = call[d] /\ CallInv(call[d])
      BY <1>2, <2>2
    <3> QED
      BY <1>5, <1>8, <3>1 DEF CallInv
  <2> QED
    BY <2>1, <2>2
<1> QED
  BY <1>1, <1>2, <1>3, <1>4, <1>5, <1>7, <1>8

\* finish of an Envelope, or of a document that the schema refuses.
LEMMA FinishUnrecorded ==
  ASSUME IssuerInv, NEW c \in Calls, finish(c), records' = records,
         handed' = handed \/ (call[c].type = "envelope" /\ handed' = handed \cup {call[c].document})
  PROVE  IssuerInv'
<1> USE DEF IssuerInv
<1>1. /\ call[c].pc = "sign" /\ call' = [call EXCEPT ![c] = [pc |-> "idle"]]
      /\ UNCHANGED <<agentKeys, sequence, now, overlapped>>
  BY FinishCases
<1>2. /\ \A k : RecordInv(k) => RecordInv(k)'
      /\ \A d : MandateInv(d) => MandateInv(d)'
      /\ \A e : EnvelopeInv(e) => EnvelopeInv(e)'
  <2>1. sequence \in Nat /\ sequence' \in Nat /\ sequence <= sequence'
    BY <1>1
  <2> QED
    BY <1>1, <2>1, RecordsKept
<1>3. /\ now' \in Nat /\ sequence' \in Nat /\ call' = [d \in Calls |-> call'[d]] /\ DOMAIN agentKeys' \subseteq AgentIds
      /\ \A a : \A d \in Calls : Enrols(call'[d], a) => d # c /\ Enrols(call[d], a)
      /\ \A d, e \in Calls : d # e /\ Mints(call'[d]) /\ Mints(call'[e]) =>
           stamp(call'[d].document.id) # stamp(call'[e].document.id)
  BY <1>1, Returned
<1>4. \A d \in Calls : CallInv(call[d])'
  BY <1>1, <1>2, Returned
<1>5. ASSUME NEW a \in AgentIds
      PROVE  AgentInv(a)'
  <2>1. AgentInv(a)
    OBVIOUS
  <2> QED
    BY <1>1, <1>3, <2>1 DEF AgentInv, registered
<1>6. \A d \in handed' : d.id[1] = "tx" => EnvelopeInv(d)'
  <2>1. call[c].type = "envelope" => EnvelopeInv(call[c].document)
    BY <1>1 DEF CallInv
  <2>2. PICK e : e = call[c].document
    OBVIOUS
  <2> QED
    BY <1>2, <2>1, <2>2
<1> QED
  BY <1>2, <1>3, <1>4, <1>5, <1>6

\* finish of a Mandate or a receipt: a Mandate's record is a new one.
LEMMA FinishCredential ==
  ASSUME IssuerInv, NEW c \in Calls, finish(c), NEW r,
         call[c].type \in {"mandate", "receipt"}, handed' = handed \cup {call[c].document},
         Recorded(<<call[c].type, call[c].document.id>>, r), {"status", "private_attributes"} \subseteq DOMAIN r,
         call[c].type = "receipt" => r.status = "active"
  PROVE  IssuerInv'
<1> USE DEF IssuerInv
<1>1. /\ call[c].pc = "sign" /\ call' = [call EXCEPT ![c] = [pc |-> "idle"]]
      /\ UNCHANGED <<agentKeys, sequence, now, overlapped>>
  BY FinishCases
<1>2. PICK t, d : t = call[c].type /\ d = call[c].document
  OBVIOUS
<1>3. CallInv(call[c])
  OBVIOUS
<1>4. /\ t \in {"mandate", "receipt"}
      /\ t = "mandate" => MandateInv(d)
      /\ t = "receipt" => d.id[1] = "receipt"
  BY <1>1, <1>2, <1>3 DEF CallInv
<1>5. PICK k : k = <<t, d.id>>
  OBVIOUS
<1>6. k[1] = t /\ k[2] = d.id
  BY <1>5
<1>7. /\ DOMAIN records' = DOMAIN records \cup {k} /\ records'[k] = r
      /\ \A j \in DOMAIN records : j # k => records'[j] = records[j]
  BY <1>2, <1>5 DEF Recorded
<1>8. t = "mandate" => k \notin DOMAIN records
  BY <1>4, <1>5 DEF MandateInv, registered
<1>9. \A u, i : /\ registered(u, i) => registered(u, i)'
                /\ u # t => /\ registered(u, i)' = registered(u, i)
                            /\ registered(u, i) => records'[<<u, i>>] = records[<<u, i>>]
  BY <1>5, <1>7 DEF registered
<1>10. \A j \in DOMAIN records' : RecordInv(j)'
  <2>1. ASSUME NEW j \in DOMAIN records, j # k
        PROVE  RecordInv(j)'
    <3>1. records'[j] = records[j] /\ RecordInv(j)
      BY <1>7, <2>1
    <3> QED
      BY <1>1, <1>9, <3>1 DEF RecordInv
  <2>2. RecordInv(k)'
    <3>1. t = "mandate" => stamp(d.id) \in Nat /\ stamp(d.id) <= sequence'
      BY <1>1, <1>4 DEF MandateInv
    <3>2. t = "receipt" => r.status = "active"
      BY <1>2
    <3> QED
      BY <1>4, <1>5, <1>6, <1>7, <3>1, <3>2 DEF RecordInv, RecordTypesInv
  <2> QED
    BY <1>7, <2>1, <2>2
<1>11. \A e : EnvelopeInv(e) => EnvelopeInv(e)'
  <2> SUFFICES ASSUME NEW e, EnvelopeInv(e) PROVE EnvelopeInv(e)'
    OBVIOUS
  <2>1. registered("mandate", e.mandate_id)
        /\ records'[<<"mandate", e.mandate_id>>] = records[<<"mandate", e.mandate_id>>]
    BY <1>7, <1>8, <1>9, <1>4, <1>5 DEF EnvelopeInv, registered
  <2> QED
    BY <1>1, <1>9, <2>1 DEF EnvelopeInv
<1>12. ASSUME NEW a \in AgentIds
       PROVE  AgentInv(a)'
  <2>1. AgentInv(a)
    OBVIOUS
  <2>2. \A e \in Calls : Enrols(call'[e], a) => Enrols(call[e], a)
    BY <1>1, Returned
  <2>3. /\ registered("agent", a)' = registered("agent", a)
        /\ registered("passport", a) => registered("passport", a)' /\ records'[<<"passport", a>>] = records[<<"passport", a>>]
        /\ registered("agent", a) => records'[<<"agent", a>>] = records[<<"agent", a>>]
        /\ registered("key", agentMethod(a)) => /\ registered("key", agentMethod(a))'
                                                /\ records'[<<"key", agentMethod(a)>>] = records[<<"key", agentMethod(a)>>]
    BY <1>4, <1>9
  <2> QED
    BY <1>1, <2>1, <2>2, <2>3 DEF AgentInv
<1>13. /\ now' \in Nat /\ sequence' \in Nat /\ call' = [e \in Calls |-> call'[e]] /\ DOMAIN agentKeys' \subseteq AgentIds
       /\ \A e \in Calls : e # c => call'[e] = call[e]
       /\ CallInv(call[c])'
       /\ \A p : PassportInv(p) => PassportInv(p)'
       /\ \A e, f \in Calls : e # f /\ Mints(call'[e]) /\ Mints(call'[f]) =>
            stamp(call'[e].document.id) # stamp(call'[f].document.id)
  BY <1>1, Returned
<1>14. ASSUME NEW e \in Calls
       PROVE  CallInv(call[e])'
  <2>1. CASE e = c
    BY <1>13, <2>1
  <2>2. CASE e # c
    <3>1. call'[e] = call[e] /\ CallInv(call[e])
      BY <1>13, <2>2
    <3>2. ASSUME Mints(call[e]) PROVE MandateInv(call[e].document)'
      <4>1. MandateInv(call[e].document)
        BY <3>1, <3>2 DEF CallInv, Mints
      <4>2. PICK m : m = call[e].document
        OBVIOUS
      <4>3. t = "mandate" => m.id # d.id
        <5>1. SUFFICES ASSUME t = "mandate" PROVE stamp(m.id) # stamp(d.id)
          OBVIOUS
        <5>2. Mints(call[c])
          BY <1>1, <1>2, <5>1 DEF Mints
        <5> QED
          BY <1>2, <2>2, <3>2, <4>2, <5>2
      <4>4. ~registered("mandate", m.id)'
        BY <1>5, <1>7, <4>1, <4>2, <4>3 DEF MandateInv, registered
      <4>5. MandateInv(m)'
        BY <1>1, <4>1, <4>2, <4>4 DEF MandateInv
      <4> QED
        BY <3>1, <4>2, <4>5
    <3> QED
      BY <1>11, <1>13, <3>1, <3>2 DEF CallInv, Mints
  <2> QED
    BY <2>1, <2>2
<1>15. \A e \in handed' : e.id[1] = "tx" => EnvelopeInv(e)'
  <2>1. d.id[1] # "tx"
    BY <1>4 DEF MandateInv
  <2> QED
    BY <1>2, <1>11, <2>1
<1> QED
  BY <1>10, <1>12, <1>13, <1>14, <1>15

\* The three records of the agent a are put, from the Passport d.
Enrolled(a, d) ==
  LET ka == <<"agent", a>>
      kp == <<"passport", a>>
      kk == <<"key", agentMethod(a)>>
  IN  /\ DOMAIN records' = DOMAIN records \cup {ka, kp, kk}
      /\ \A j \in DOMAIN records : j \notin {ka, kp, kk} => records'[j] = records[j]
      /\ {"status", "private_attributes"} \subseteq DOMAIN records'[ka]
      /\ records'[ka].private_attributes.passport = d
      /\ {"status", "private_attributes"} \subseteq DOMAIN records'[kp]
      /\ records'[kp].private_attributes.credential = d
      /\ records'[kk].status = "active"
      /\ records'[kk].public_attributes.controller = a
      /\ records'[kk].public_attributes.public_key_jwk = jwkOf(d)

\* A registration puts them.
LEMMA AgentRecorded ==
  ASSUME NEW d, NEW display, NEW a, a = d.id, d.verification_methods[1].id = agentMethod(a),
         records' = putAgent(d, display)
  PROVE  Enrolled(a, d)
<1>1. PICK ka, kp, kk : ka = <<"agent", a>> /\ kp = <<"passport", a>> /\ kk = <<"key", agentMethod(a)>>
  OBVIOUS
<1>2. ka # kp /\ ka # kk /\ kp # kk
  BY <1>1
<1>3. PICK ra : ra = agentRecord(d)
  OBVIOUS
<1>4. PICK rp : rp = credentialRecord("passport", d, display)
  OBVIOUS
<1>5. PICK rk : rk = registryKey(agentMethod(a), a, jwkOf(d), d.issued_at, d.expires_at)
  OBVIOUS
<1>6. key(ra) = ka /\ {"status", "private_attributes"} \subseteq DOMAIN ra /\ ra.private_attributes.passport = d
  BY <1>1, <1>3 DEF key, agentRecord
<1>7. key(rp) = kp /\ {"status", "private_attributes"} \subseteq DOMAIN rp /\ rp.private_attributes.credential = d
  BY <1>1, <1>4, CredentialFields
<1>8. /\ key(rk) = kk /\ rk.status = "active" /\ rk.public_attributes.controller = a
      /\ rk.public_attributes.public_key_jwk = jwkOf(d)
  BY <1>1, <1>5 DEF key, registryKey
<1>9. records' = put(put(put(records, ka, ra), kp, rp), kk, rk)
  <2>1. records' = putRecord(putRecord(putRecord(records, ra), rp), rk)
    BY <1>3, <1>4, <1>5 DEF putAgent, jwkOf
  <2> QED
    BY <1>6, <1>7, <1>8, <2>1 DEF putRecord
<1>10. /\ DOMAIN records' = DOMAIN records \cup {ka, kp, kk}
       /\ \A j \in DOMAIN records : j \notin {ka, kp, kk} => records'[j] = records[j]
       /\ records'[ka] = ra /\ records'[kp] = rp /\ records'[kk] = rk
  <2>1. PICK one : one = put(records, ka, ra)
    OBVIOUS
  <2>2. PICK two : two = put(one, kp, rp)
    OBVIOUS
  <2>3. records' = put(two, kk, rk)
    BY <1>9, <2>1, <2>2
  <2>4. DOMAIN one = DOMAIN records \cup {ka} /\ one[ka] = ra /\ \A j \in DOMAIN records : j # ka => one[j] = records[j]
    BY <2>1 DEF put
  <2>5. DOMAIN two = DOMAIN one \cup {kp} /\ two[kp] = rp /\ \A j \in DOMAIN one : j # kp => two[j] = one[j]
    BY <2>2 DEF put
  <2>6. /\ DOMAIN records' = DOMAIN two \cup {kk} /\ records'[kk] = rk
        /\ \A j \in DOMAIN two : j # kk => records'[j] = two[j]
    BY <2>3 DEF put
  <2> QED
    BY <1>2, <2>4, <2>5, <2>6
<1> QED
  BY <1>1, <1>6, <1>7, <1>8, <1>10 DEF Enrolled

\* finish of a registration.
LEMMA FinishPassport ==
  ASSUME IssuerInv, NEW c \in Calls, finish(c), call[c].type = "passport", handed' = handed \cup {call[c].document},
         records' = putAgent(call[c].document, call[c].display)
  PROVE  IssuerInv'
<1> USE DEF IssuerInv
<1>1. /\ call[c].pc = "sign" /\ call' = [call EXCEPT ![c] = [pc |-> "idle"]]
      /\ UNCHANGED <<agentKeys, sequence, now, overlapped>>
  BY FinishCases
<1>2. PICK d, display : d = call[c].document /\ display = call[c].display
  OBVIOUS
<1>3. PassportInv(d)
  BY <1>1, <1>2 DEF CallInv
<1>4. PICK a \in AgentIds : a = d.id
  BY <1>3 DEF PassportInv
<1>5. PICK ka, kp, kk : ka = <<"agent", a>> /\ kp = <<"passport", a>> /\ kk = <<"key", agentMethod(a)>>
  OBVIOUS
<1>6. /\ DOMAIN records' = DOMAIN records \cup {ka, kp, kk}
      /\ \A j \in DOMAIN records : j \notin {ka, kp, kk} => records'[j] = records[j]
      /\ {"status", "private_attributes"} \subseteq DOMAIN records'[ka]
      /\ records'[ka].private_attributes.passport = d
      /\ {"status", "private_attributes"} \subseteq DOMAIN records'[kp]
      /\ records'[kp].private_attributes.credential = d
      /\ records'[kk].status = "active"
      /\ records'[kk].public_attributes.controller = a
      /\ records'[kk].public_attributes.public_key_jwk = jwkOf(d)
  <2>1. d.verification_methods[1].id = agentMethod(a) /\ records' = putAgent(d, display)
    BY <1>2, <1>3, <1>4 DEF PassportInv
  <2>2. Enrolled(a, d)
    BY <1>4, <2>1, AgentRecorded
  <2> QED
    BY <1>5, <2>2 DEF Enrolled
<1>7. /\ \A u, i : registered(u, i) => registered(u, i)'
      /\ registered("agent", a)' /\ registered("passport", a)' /\ registered("key", agentMethod(a))'
      /\ \A i : /\ registered("mandate", i)' = registered("mandate", i)
                /\ registered("mandate", i) => records'[<<"mandate", i>>] = records[<<"mandate", i>>]
  BY <1>5, <1>6 DEF registered
<1>8. \A j \in DOMAIN records' : RecordInv(j)'
  <2>1. ASSUME NEW j \in DOMAIN records, j \notin {ka, kp, kk}
        PROVE  RecordInv(j)'
    <3>1. records'[j] = records[j] /\ RecordInv(j)
      BY <1>6, <2>1
    <3> QED
      BY <1>1, <1>7, <3>1 DEF RecordInv
  <2>2. RecordInv(ka)'
    <3>1. ka[1] = "agent" /\ ka[2] = a
      BY <1>5
    <3> QED
      BY <1>5, <1>6, <3>1 DEF RecordInv, RecordTypesInv
  <2>3. RecordInv(kp)'
    <3>1. kp[1] = "passport" /\ kp[2] = a
      BY <1>5
    <3> QED
      BY <1>5, <1>6, <1>7, <3>1 DEF RecordInv, RecordTypesInv
  <2>4. RecordInv(kk)'
    <3>1. kk[1] = "key" /\ kk[2] = agentMethod(a)
      BY <1>5
    <3> QED
      BY <1>5, <1>6, <1>7, <3>1 DEF RecordInv, RecordTypesInv
  <2> QED
    BY <1>6, <2>1, <2>2, <2>3, <2>4
<1>9. \A e : EnvelopeInv(e) => EnvelopeInv(e)'
  <2> SUFFICES ASSUME NEW e, EnvelopeInv(e) PROVE EnvelopeInv(e)'
    OBVIOUS
  <2> QED
    BY <1>1, <1>7 DEF EnvelopeInv
<1>10. \A m : MandateInv(m) => MandateInv(m)'
  BY <1>1, <1>7 DEF MandateInv
<1>11. /\ now' \in Nat /\ sequence' \in Nat /\ call' = [e \in Calls |-> call'[e]] /\ DOMAIN agentKeys' \subseteq AgentIds
       /\ \A b : \A e \in Calls : Enrols(call'[e], b) => e # c /\ Enrols(call[e], b)
       /\ \A e, f \in Calls : e # f /\ Mints(call'[e]) /\ Mints(call'[f]) =>
            stamp(call'[e].document.id) # stamp(call'[f].document.id)
  BY <1>1, Returned
<1>12. \A e \in Calls : CallInv(call[e])'
  BY <1>1, <1>9, <1>10, Returned
<1>13. ASSUME NEW b \in AgentIds
       PROVE  AgentInv(b)'
  <2>1. AgentInv(b)
    OBVIOUS
  <2>2. CASE b = a
    <3>1. Enrols(call[c], b)
      BY <1>1, <1>2, <1>4, <2>2 DEF Enrols
    <3>2. b \notin overlapped' => \A e \in Calls : ~Enrols(call'[e], b)
      BY <1>1, <1>11, <2>1, <3>1 DEF AgentInv
    <3>3. b \notin overlapped' => b \in DOMAIN agentKeys' /\ jwkOf(d) = publicJwk(agentKeys'[b])
      BY <1>1, <1>3, <1>4, <2>2 DEF PassportInv
    <3> QED
      BY <1>5, <1>6, <1>7, <2>2, <3>2, <3>3 DEF AgentInv
  <2>3. CASE b # a
    <3>1. <<"agent", b>> \notin {ka, kp, kk} /\ <<"passport", b>> \notin {ka, kp, kk}
          /\ <<"key", agentMethod(b)>> \notin {ka, kp, kk}
      <4>1. agentMethod(a) # agentMethod(b)
        BY <2>3, MethodsApart
      <4> QED
        BY <1>5, <2>3, <4>1
    <3>2. /\ registered("agent", b)' = registered("agent", b)
          /\ registered("passport", b) => registered("passport", b)' /\ records'[<<"passport", b>>] = records[<<"passport", b>>]
          /\ registered("agent", b) => records'[<<"agent", b>>] = records[<<"agent", b>>]
          /\ registered("key", agentMethod(b)) => /\ registered("key", agentMethod(b))'
                                                  /\ records'[<<"key", agentMethod(b)>>] = records[<<"key", agentMethod(b)>>]
      BY <1>6, <3>1 DEF registered
    <3>3. \A e \in Calls : Enrols(call'[e], b) => Enrols(call[e], b)
      BY <1>11
    <3> QED
      BY <1>1, <2>1, <3>2, <3>3 DEF AgentInv
  <2> QED
    BY <2>2, <2>3
<1>14. \A e \in handed' : e.id[1] = "tx" => EnvelopeInv(e)'
  <2>1. d.id[1] # "tx"
    BY <1>4, AgentsNamed
  <2> QED
    BY <1>2, <1>9, <2>1
<1> QED
  BY <1>8, <1>11, <1>12, <1>13, <1>14

\* finish, whatever the call was.
LEMMA FinishKeeps ==
  ASSUME IssuerInv, NEW c \in Calls, finish(c)
  PROVE  IssuerInv'
<1>1. CASE /\ records' = records
           /\ handed' = handed \/ (call[c].type = "envelope" /\ handed' = handed \cup {call[c].document})
  BY <1>1, FinishUnrecorded
<1>2. CASE /\ call[c].type \in {"mandate", "receipt"} /\ handed' = handed \cup {call[c].document}
           /\ \E r : /\ Recorded(<<call[c].type, call[c].document.id>>, r)
                     /\ {"status", "private_attributes"} \subseteq DOMAIN r
                     /\ call[c].type = "receipt" => r.status = "active"
  BY <1>2, FinishCredential
<1>3. CASE /\ call[c].type = "passport" /\ handed' = handed \cup {call[c].document}
           /\ records' = putAgent(call[c].document, call[c].display)
  BY <1>3, FinishPassport
<1> QED
  BY <1>1, <1>2, <1>3, FinishCases

\* The record under k gets the status st, and a revocation is put under kr.
Suspends(k, kr, st) ==
  /\ k[1] \in {"agent", "passport", "mandate"} /\ kr = <<"revocation", kr[2]>> /\ st \in {"suspended", "revoked"}
  /\ DOMAIN records' = DOMAIN records \cup {kr} /\ records'[kr].status = st
  /\ \A j \in DOMAIN records : j \notin {k, kr} => records'[j] = records[j]
  /\ DOMAIN records'[k] = DOMAIN records[k] /\ records'[k].status = st
  /\ \A f \in DOMAIN records[k] : f # "status" => records'[k][f] = records[k][f]

\* What setStatus does to the records.
LEMMA StatusSet ==
  ASSUME IssuerInv, setStatus
  PROVE  /\ \E k \in DOMAIN records : \E kr, st : Suspends(k, kr, st)
         /\ sequence' = sequence + 1 /\ UNCHANGED <<agentKeys, call, now, handed, overlapped>>
<1>1. sequence' = sequence + 1 /\ UNCHANGED <<agentKeys, call, now, handed, overlapped>>
  BY DEF setStatus
<1>2. PICK k \in DOMAIN records, st \in {"suspended", "revoked"} :
        LET revocation ==
              [type |-> "revocation", id |-> <<"revocation">> \o Tail(k[2]) \o nextId(now, 1), display_name |-> st,
               status |-> st, issuer |-> issuerId, organisation_id |-> organisationId, issued_at |-> now,
               proof_status |-> "verified",
               public_attributes |-> [target |-> k[2], revocation_status |-> st, effective_at |-> now]]
        IN  /\ k[1] \in {"agent", "passport", "mandate"}
            /\ records' = putRecord([records EXCEPT ![k].status = st], revocation)
  BY DEF setStatus
<1> DEFINE id == <<"revocation">> \o Tail(k[2]) \o nextId(now, 1)
           revocation ==
             [type |-> "revocation", id |-> id, display_name |-> st,
              status |-> st, issuer |-> issuerId, organisation_id |-> organisationId, issued_at |-> now,
              proof_status |-> "verified",
              public_attributes |-> [target |-> k[2], revocation_status |-> st, effective_at |-> now]]
<1>3. PICK changed : changed = [records EXCEPT ![k].status = st]
  OBVIOUS
<1>4. k[1] \in {"agent", "passport", "mandate"} /\ records' = putRecord(changed, revocation)
  BY <1>2, <1>3
<1> HIDE DEF id
<1>5. key(revocation) = <<"revocation", id>> /\ revocation.status = st
  BY DEF key
<1> HIDE DEF revocation
<1>6. PICK kr, r : kr = <<"revocation", id>> /\ r = revocation
  OBVIOUS
<1>7. records' = put(changed, kr, r) /\ r.status = st
  BY <1>4, <1>5, <1>6 DEF putRecord
<1>8. kr = <<"revocation", kr[2]>> /\ kr[1] = "revocation" /\ kr # k
  BY <1>4, <1>6
<1>9. /\ DOMAIN changed = DOMAIN records /\ \A j \in DOMAIN records : j # k => changed[j] = records[j]
      /\ DOMAIN changed[k] = DOMAIN records[k]
      /\ "status" \in DOMAIN records[k] => changed[k].status = st
      /\ \A f \in DOMAIN records[k] : f # "status" => changed[k][f] = records[k][f]
  BY <1>3
<1>10. "status" \in DOMAIN records[k]
  BY <1>4 DEF IssuerInv, RecordInv
<1>11. /\ DOMAIN records' = DOMAIN records \cup {kr} /\ records'[kr] = r
       /\ \A j \in DOMAIN records : j # kr => records'[j] = changed[j]
  BY <1>7, <1>9 DEF put
<1>12. Suspends(k, kr, st)
  BY <1>4, <1>7, <1>8, <1>9, <1>10, <1>11 DEF Suspends
<1> QED
  BY <1>1, <1>12

\* setStatus leaves the attributes of a record, and the key records, alone.
LEMMA SetStatusKeeps ==
  ASSUME IssuerInv, setStatus
  PROVE  IssuerInv'
<1> USE DEF IssuerInv
<1>1. sequence' = sequence + 1 /\ UNCHANGED <<agentKeys, call, now, handed, overlapped>>
  BY StatusSet
<1>2. PICK k \in DOMAIN records : \E kr, st : Suspends(k, kr, st)
  BY StatusSet
<1>3. PICK kr, st : Suspends(k, kr, st)
  BY <1>2
<1>4. /\ k[1] \in {"agent", "passport", "mandate"} /\ kr = <<"revocation", kr[2]>> /\ st \in {"suspended", "revoked"}
      /\ DOMAIN records' = DOMAIN records \cup {kr}
      /\ \A j \in DOMAIN records : j \notin {k, kr} => records'[j] = records[j]
      /\ DOMAIN records'[k] = DOMAIN records[k]
      /\ \A f \in DOMAIN records[k] : f # "status" => records'[k][f] = records[k][f]
  BY <1>3 DEF Suspends
<1>5. kr[1] = "revocation" /\ kr # k
  BY <1>4
<1>6. sequence \in Nat /\ sequence' \in Nat /\ sequence <= sequence'
  BY <1>1
<1>7. \A u, i : /\ registered(u, i) => registered(u, i)'
                /\ u # "revocation" => registered(u, i)' = registered(u, i)
  BY <1>4, <1>5 DEF registered
<1>8. /\ \A i : registered("key", i) => records'[<<"key", i>>] = records[<<"key", i>>]
      /\ \A u \in {"agent", "passport", "mandate"} : \A i :
           registered(u, i) => records'[<<u, i>>].private_attributes = records[<<u, i>>].private_attributes
  <2>1. \A i : registered("key", i) => <<"key", i>> \notin {k, kr}
    BY <1>4, <1>5
  <2>2. ASSUME NEW u \in {"agent", "passport", "mandate"}, NEW i, registered(u, i)
        PROVE  records'[<<u, i>>].private_attributes = records[<<u, i>>].private_attributes
    <3>1. PICK j \in DOMAIN records : j = <<u, i>>
      BY <2>2 DEF registered
    <3>2. j[1] = u /\ j # kr
      BY <1>5, <3>1
    <3>3. RecordInv(j)
      OBVIOUS
    <3>4. "private_attributes" \in DOMAIN records[j]
      BY <3>2, <3>3 DEF RecordInv
    <3>5. records'[j].private_attributes = records[j].private_attributes
      BY <1>4, <3>2, <3>4
    <3> QED
      BY <3>1, <3>5
  <2> QED
    BY <1>4, <2>1, <2>2 DEF registered
<1>9. \A j \in DOMAIN records' : RecordInv(j)'
  <2>1. ASSUME NEW j \in DOMAIN records, j \notin {k, kr}
        PROVE  RecordInv(j)'
    <3>1. records'[j] = records[j] /\ RecordInv(j)
      BY <1>4, <2>1
    <3> QED
      BY <1>6, <1>7, <3>1 DEF RecordInv
  <2>2. RecordInv(k)'
    <3>1. RecordInv(k)
      OBVIOUS
    <3> QED
      BY <1>4, <1>6, <1>7, <3>1 DEF RecordInv
  <2>3. RecordInv(kr)'
    BY <1>4, <1>5 DEF RecordInv, RecordTypesInv
  <2> QED
    BY <1>4, <2>1, <2>2, <2>3
<1>10. \A e : EnvelopeInv(e) => EnvelopeInv(e)'
  BY <1>1, <1>7, <1>8 DEF EnvelopeInv
<1>11. \A m : MandateInv(m) => MandateInv(m)'
  BY <1>6, <1>7 DEF MandateInv
<1>12. \A p : PassportInv(p) => PassportInv(p)'
  BY <1>1 DEF PassportInv
<1>13. ASSUME NEW a \in AgentIds
       PROVE  AgentInv(a)'
  <2>1. AgentInv(a)
    OBVIOUS
  <2> QED
    BY <1>1, <1>7, <1>8, <2>1 DEF AgentInv
<1>14. ASSUME NEW c \in Calls
       PROVE  CallInv(call[c])'
  <2>1. call'[c] = call[c] /\ CallInv(call[c])
    BY <1>1
  <2> QED
    BY <1>10, <1>11, <1>12, <2>1 DEF CallInv
<1> QED
  BY <1>1, <1>6, <1>9, <1>10, <1>13, <1>14

\* Time passes, or nothing happens.
LEMMA IdlingKeeps ==
  ASSUME IssuerInv, now' \in Nat, UNCHANGED <<records, agentKeys, sequence, call, handed, overlapped>>
  PROVE  IssuerInv'
<1>1. \A k : RecordInv(k)' = RecordInv(k)
  BY DEF RecordInv, registered
<1>2. \A a : AgentInv(a)' = AgentInv(a)
  BY DEF AgentInv, registered
<1>3. \A e : EnvelopeInv(e)' = EnvelopeInv(e)
  BY DEF EnvelopeInv, registered
<1>4. \A x : CallInv(x)' = CallInv(x)
  BY <1>3 DEF CallInv, PassportInv, MandateInv, registered
<1> QED
  BY <1>1, <1>2, <1>3, <1>4 DEF IssuerInv

\* The invariant is inductive.
LEMMA NextKeeps == IssuerInv /\ [Next]_vars => IssuerInv'
<1> SUFFICES ASSUME IssuerInv, [Next]_vars PROVE IssuerInv'
  OBVIOUS
<1>1. CASE \E c \in Calls : registerAgent(c) \/ generateKey(c) \/ createMandate(c) \/ signTransaction(c)
                            \/ issueReceipt(c) \/ finish(c)
  BY <1>1, RegisterAgentKeeps, GenerateKeyKeeps, CreateMandateKeeps, SignTransactionKeeps, IssueReceiptKeeps, FinishKeeps
<1>2. CASE setStatus
  BY <1>2, SetStatusKeeps
<1>3. CASE Tick
  <2>1. now' \in Nat
    BY <1>3 DEF Tick, IssuerInv
  <2> QED
    BY <1>3, <2>1, IdlingKeeps DEF Tick
<1>4. CASE UNCHANGED vars
  <2>1. now' \in Nat
    BY <1>4 DEF vars, IssuerInv
  <2> QED
    BY <1>4, <2>1, IdlingKeeps DEF vars
<1> QED
  BY <1>1, <1>2, <1>3, <1>4 DEF Next

\* The inductive invariant holds throughout.
THEOREM IssuerInductive == Spec => []IssuerInv
  BY InitInv, NextKeeps, PTL DEF Spec

-----------------------------------------------------------------------------
(* What can be published. *)

Required == {"type", "id", "display_name", "status", "issuer", "proof_status", "public_attributes"}

\* A record that projectPublicRecord accepts, and makes a public record of.
PublicInv(r) ==
  /\ r.type \in RecordTypesInv /\ Required \subseteq present(r)
  /\ r.id \in Ids /\ r.proof_status = "verified"
  /\ \A f \in {"issued_at", "expires_at"} \cap present(r) : r[f] \in Nat
  /\ \A a \in DOMAIN r.public_attributes : r.public_attributes[a] \in AttributeValues
  /\ r.type = "key" =>
       /\ {"issued_at", "expires_at"} \subseteq present(r)
       /\ DOMAIN r.public_attributes = {"controller", "algorithm", "public_key_jwk"}
       /\ r.public_attributes.controller \in Ids /\ r.public_attributes.algorithm = "EdDSA"
       /\ r.public_attributes.public_key_jwk \in Jwks
  /\ r.type # "key" => DOMAIN r.public_attributes \cap {"document", "public_key_jwk", "signed_document"} = {}

\* What a call holds for the records it will put.
HeldInv(x) ==
  /\ x.pc = "generate" =>
       /\ {"display_name", "protocols"} \subseteq DOMAIN x.document
       /\ x.document.display_name # None /\ x.document.protocols \in {input.protocols : input \in Registrations}
  /\ x.pc = "sign" /\ x.type = "passport" =>
       /\ x.display # None /\ x.document.display_name # None
       /\ x.document.protocols \in {input.protocols : input \in Registrations}
       /\ jwkOf(x.document) \in Jwks
  /\ x.pc = "sign" /\ x.type = "mandate" =>
       x.display = x.document.purpose /\ x.document.id \in Ids /\ x.document.subject \in Ids
  /\ x.pc = "sign" /\ x.type = "receipt" => x.display = "receipt" /\ x.document.id \in Ids

PublicationInv ==
  /\ keyPairs \in Nat
  /\ \A k \in DOMAIN records : key(records[k]) = k /\ PublicInv(records[k])
  /\ \A c \in Calls : HeldInv(call[c])

\* Such a record is accepted, and becomes a public record.
LEMMA Published ==
  ASSUME NEW r, PublicInv(r)
  PROVE  projects(r) /\ publicRecord(projectPublicRecord(r))
<1>1. PICK type, attributes : type = r.type /\ attributes = r.public_attributes
  OBVIOUS
<1>2. type \in DOMAIN PublicAttributes /\ type \in RecordTypes
  BY <1>1 DEF PublicInv, RecordTypesInv, PublicAttributes, RecordTypes
<1>3. PICK names : names = PublicAttributes[type] \cap present(attributes)
  OBVIOUS
<1>4. PICK public : public = publicAttributes(r)
  OBVIOUS
<1>5. DOMAIN public = names /\ \A a \in names : public[a] = attributes[a]
  BY <1>1, <1>3, <1>4 DEF publicAttributes
<1>6. names \subseteq DOMAIN attributes /\ \A a \in names : attributes[a] # None /\ attributes[a] \in AttributeValues
  BY <1>1, <1>3 DEF PublicInv, present
<1>7. public # None
  <2>1. public = [a \in names |-> attributes[a]]
    BY <1>1, <1>3, <1>4 DEF publicAttributes
  <2>2. public \in [names -> AttributeValues]
    BY <1>6, <2>1
  <2>3. names \in SUBSET (PublicAttributes[type] \cup {"subject"})
    BY <1>3
  <2> QED
    BY <1>2, <2>2, <2>3, UndefinedIsNoValue
<1>8. type = "key" =>
        /\ {"issued_at", "expires_at"} \subseteq present(r)
        /\ DOMAIN attributes = {"controller", "algorithm", "public_key_jwk"}
        /\ attributes.controller \in Ids /\ attributes.algorithm = "EdDSA" /\ attributes.public_key_jwk \in Jwks
  BY <1>1 DEF PublicInv
<1>9. projects(r)
  <2>1. ASSUME NEW a \in {"document", "public_key_jwk", "signed_document"} \cap names
        PROVE  assertPublicJson(attributes[a])
    <3>1. type = "key"
      BY <1>1, <1>6, <2>1 DEF PublicInv
    <3>2. a = "public_key_jwk"
      BY <1>6, <1>8, <2>1, <3>1
    <3>3. PICK jwk \in Jwks : jwk = attributes[a]
      BY <1>8, <3>1, <3>2
    <3>4. DOMAIN jwk = {"kty", "x"}
      BY DEF Jwks
    <3> QED
      BY <3>3, <3>4 DEF assertPublicJson, Sensitive
  <2>2. Required \subseteq present(r)
    BY DEF PublicInv
  <2> QED
    BY <1>1, <1>2, <1>4, <1>5, <2>1, <2>2 DEF projects, Required
<1>10. PICK d : d = projectPublicRecord(r)
  OBVIOUS
<1>11. /\ DOMAIN d = PublicFields \cap present(r) /\ d.public_attributes = public
       /\ \A f \in DOMAIN d : f # "public_attributes" => d[f] = r[f]
  <2>1. d = [f \in PublicFields \cap present(r) |-> IF f = "public_attributes" THEN public ELSE r[f]]
    BY <1>4, <1>10 DEF projectPublicRecord
  <2>2. "public_attributes" \in PublicFields \cap present(r)
    BY DEF PublicInv, Required, PublicFields
  <2> QED
    BY <2>1, <2>2
<1>12. present(d) = PublicFields \cap present(r)
  BY <1>7, <1>11 DEF present
<1>13. Required \subseteq present(d)
  BY <1>12 DEF PublicInv, Required, PublicFields
<1>14. d.type = type /\ d.id = r.id /\ d.proof_status = "verified"
  <2>1. {"type", "id", "proof_status"} \subseteq DOMAIN d
    BY <1>11, <1>12, <1>13 DEF Required
  <2> QED
    BY <1>1, <1>11, <2>1 DEF PublicInv
<1>15. closed(d, Required, {"organisation_id", "issued_at", "expires_at", "assurance_level"})
  BY <1>12, <1>13 DEF closed, Required, PublicFields
<1>16. nonEmpty(d.id)
  BY <1>14, IdentifiersAreNotBlank DEF nonEmpty, PublicInv
<1>17. each({"issued_at", "expires_at"}, d, isTime)
  <2> SUFFICES ASSUME NEW f \in {"issued_at", "expires_at"} \cap present(d) PROVE d[f] \in Nat
    BY DEF each, isTime
  <2>1. f \in DOMAIN d /\ f \in present(r) /\ f # "public_attributes"
    BY <1>11, <1>12
  <2> QED
    BY <1>11, <2>1 DEF PublicInv
<1>18. ASSUME type = "key" PROVE keyRecord(d)
  <2>1. {"issued_at", "expires_at"} \subseteq present(d)
    BY <1>8, <1>12, <1>18 DEF PublicFields
  <2>2. attributes.public_key_jwk # None /\ attributes.controller # None /\ attributes.algorithm # None
    <3>1. "EdDSA" # None
      BY UndefinedIsNoValue DEF Words
    <3> QED
      BY <1>8, <1>18, <3>1, UndefinedIsNoValue
  <2>3. names = {"controller", "algorithm", "public_key_jwk"}
    <3>1. {"controller", "algorithm", "public_key_jwk"} \subseteq PublicAttributes[type]
      BY <1>18 DEF PublicAttributes
    <3> QED
      BY <1>3, <1>8, <1>18, <2>2, <3>1 DEF present
  <2>4. present(public) = names
    BY <1>5, <1>6 DEF present
  <2>5. public.controller = attributes.controller /\ public.algorithm = "EdDSA"
    BY <1>5, <1>8, <1>18, <2>3
  <2>6. nonEmpty(public.controller)
    BY <1>8, <1>18, <2>5, IdentifiersAreNotBlank DEF nonEmpty
  <2> QED
    BY <1>11, <2>1, <2>3, <2>4, <2>5, <2>6 DEF keyRecord, open
<1>19. publicRecord(d)
  BY <1>2, <1>14, <1>15, <1>16, <1>17, <1>18 DEF publicRecord, Required
<1> QED
  BY <1>9, <1>10, <1>19

\* The words and numbers that the issuer writes are defined, and values of
\* attributes.
LEMMA Defined ==
  /\ \A w \in Words : w # None /\ w \in AttributeValues
  /\ \A n \in Nat : n # None /\ n \in AttributeValues
  /\ \A i \in Ids : i # None /\ i \in AttributeValues
  /\ \A j \in Jwks : j # None /\ j \in AttributeValues
  BY UndefinedIsNoValue DEF AttributeValues

\* The attributes of a record are defined, whatever it says.
LEMMA AttributesDefined ==
  ASSUME NEW type \in DOMAIN PublicAttributes, NEW names \in SUBSET (PublicAttributes[type] \cup {"subject"}),
         NEW attributes \in [names -> AttributeValues]
  PROVE  attributes # None
  BY UndefinedIsNoValue

\* Identifiers of the issuer and of agents' keys.
LEMMA Identified ==
  /\ organisationId \in Ids /\ issuerId \in Ids /\ verificationMethodId \in Ids
  /\ \A a \in AgentIds : agentMethod(a) \in Ids
<1>1. Kinds \subseteq Parts
  BY DEF Parts
<1>2. {"org", "o", "issuer", "development", "key", "development-1"} \subseteq Parts
  BY <1>1 DEF Kinds
<1>3. <<"org", "o">> \in Ids /\ <<"issuer", "o", "development">> \in Ids /\ <<"key", "o", "development-1">> \in Ids
  BY <1>2 DEF Ids
<1>4. ASSUME NEW a \in AgentIds PROVE agentMethod(a) \in Ids
  <2>1. PICK x \in Parts : a = <<"agent", "o", x>>
    BY DEF AgentIds, agentIdOf, Parts
  <2>2. <<"key", "o", x, "development-1">> \in Ids
    BY <1>2 DEF Ids
  <2> QED
    BY <2>1, <2>2, Method
<1> QED
  BY <1>3, <1>4 DEF organisationId, issuerId, verificationMethodId

\* A key record can be published.
LEMMA KeyPublic ==
  ASSUME NEW id \in Ids, NEW controller \in Ids, NEW jwk \in Jwks, NEW issued \in Nat, NEW expires \in Nat
  PROVE  /\ PublicInv(registryKey(id, controller, jwk, issued, expires))
         /\ key(registryKey(id, controller, jwk, issued, expires)) = <<"key", id>>
<1> DEFINE attributes == [controller |-> controller, algorithm |-> "EdDSA", public_key_jwk |-> jwk]
           r == [type |-> "key", id |-> id, display_name |-> "key", status |-> "active", issuer |-> issuerId,
                 organisation_id |-> organisationId, issued_at |-> issued, expires_at |-> expires,
                 proof_status |-> "verified", public_attributes |-> attributes]
<1>1. r = registryKey(id, controller, jwk, issued, expires)
  BY DEF registryKey
<1>2. /\ DOMAIN attributes = {"controller", "algorithm", "public_key_jwk"}
      /\ attributes.controller = controller /\ attributes.algorithm = "EdDSA" /\ attributes.public_key_jwk = jwk
  OBVIOUS
<1>3. {"key", "active", "verified", "EdDSA"} \subseteq Words
  BY DEF Words
<1>4. \A a \in DOMAIN attributes : attributes[a] \in AttributeValues
  BY <1>2, <1>3, Defined
<1>5. attributes # None
  <2>1. DOMAIN attributes \in SUBSET (PublicAttributes["key"] \cup {"subject"}) /\ "key" \in DOMAIN PublicAttributes
    BY <1>2 DEF PublicAttributes
  <2>2. attributes \in [DOMAIN attributes -> AttributeValues]
    BY <1>4
  <2> HIDE DEF attributes
  <2> QED
    BY <2>1, <2>2, AttributesDefined
<1> HIDE DEF attributes
<1>6. /\ DOMAIN r = {"type", "id", "display_name", "status", "issuer", "organisation_id", "issued_at", "expires_at",
                     "proof_status", "public_attributes"}
      /\ r.type = "key" /\ r.id = id /\ r.display_name = "key" /\ r.status = "active" /\ r.issuer = issuerId
      /\ r.issued_at = issued /\ r.expires_at = expires /\ r.proof_status = "verified" /\ r.public_attributes = attributes
  OBVIOUS
<1> HIDE DEF r
<1>7. Required \cup {"issued_at", "expires_at"} \subseteq present(r)
  BY <1>3, <1>5, <1>6, Defined, Identified DEF present, Required
<1>8. \A f \in {"issued_at", "expires_at"} : r[f] \in Nat
  BY <1>6
<1>9. PublicInv(r)
  BY <1>2, <1>4, <1>6, <1>7, <1>8 DEF PublicInv, RecordTypesInv
<1> QED
  BY <1>1, <1>6, <1>9 DEF key

\* The record of a credential that its schema accepts can be published.
LEMMA CredentialPublic ==
  ASSUME NEW type \in {"passport", "mandate", "receipt"}, NEW d, NEW display, conforms(type, d), display # None,
         d.id \in Ids, has(d, "subject") => d.subject \in Ids
  PROVE  PublicInv(credentialRecord(type, d, display))
<1> DEFINE issued == CASE has(d, "issued_at") -> d.issued_at
                       [] has(d, "not_before") -> d.not_before
                       [] OTHER -> d.occurred_at
           expires == IF has(d, "expires_at") THEN d.expires_at ELSE d.proof.expires
           subject == IF has(d, "subject") THEN d.subject ELSE d.id
           status == IF type = "receipt" THEN "active" ELSE d.status
           attributes == [subject |-> subject]
           r == [type |-> type, id |-> d.id, display_name |-> display, status |-> status,
                 issuer |-> d.issuer, organisation_id |-> organisationId,
                 issued_at |-> issued, expires_at |-> expires, proof_status |-> "verified",
                 public_attributes |-> attributes, private_attributes |-> [credential |-> d]]
<1>1. r = credentialRecord(type, d, display)
  BY DEF credentialRecord
<1>2. {"active", "verified", "receipt"} \subseteq Words
  BY DEF Words
<1>3. issued \in Nat /\ expires \in Nat /\ status # None /\ d.issuer # None
  <2>1. CASE type = "passport"
    <3>1. passport(d)
      BY <2>1 DEF conforms
    <3>2. {"issued_at", "expires_at", "status", "issuer"} \subseteq present(d) /\ "not_before" \notin present(d)
          /\ each({"issued_at", "expires_at"}, d, isTime)
      BY <3>1 DEF passport, closed
    <3> QED
      BY <2>1, <3>2 DEF each, isTime, has, present
  <2>2. CASE type = "mandate"
    <3>1. mandate(d)
      BY <2>2 DEF conforms
    <3>2. {"not_before", "expires_at", "status", "issuer"} \subseteq present(d) /\ "issued_at" \notin present(d)
          /\ each({"not_before", "expires_at"}, d, isTime)
      BY <3>1 DEF mandate, closed
    <3> QED
      BY <2>2, <3>2 DEF each, isTime, has, present
  <2>3. CASE type = "receipt"
    <3>1. receipt(d)
      BY <2>3 DEF conforms
    <3>2. {"occurred_at", "issuer", "proof"} \subseteq present(d) /\ d.occurred_at \in Nat
          /\ "issued_at" \notin present(d) /\ "not_before" \notin present(d) /\ "expires_at" \notin present(d)
      BY <3>1 DEF receipt, closed, isTime
    <3>3. proof(d.proof)
      BY <3>1, <3>2 DEF receipt, proven, each
    <3>4. d.proof.expires \in Nat
      BY <3>3 DEF proof, closed, each, isTime
    <3>5. status = "active" /\ "active" # None
      BY <1>2, <2>3, Defined
    <3> QED
      BY <2>3, <3>2, <3>4, <3>5 DEF has, present
  <2> QED
    BY <2>1, <2>2, <2>3
<1>4. subject \in Ids
  OBVIOUS
<1> HIDE DEF issued, expires, subject, status
<1>5. DOMAIN attributes = {"subject"} /\ attributes.subject = subject
  OBVIOUS
<1>6. \A a \in DOMAIN attributes : attributes[a] \in AttributeValues
  BY <1>4, <1>5, Defined
<1>7. attributes # None
  <2>1. DOMAIN attributes \in SUBSET (PublicAttributes["passport"] \cup {"subject"}) /\ "passport" \in DOMAIN PublicAttributes
    BY <1>5 DEF PublicAttributes
  <2>2. attributes \in [DOMAIN attributes -> AttributeValues]
    BY <1>6
  <2> HIDE DEF attributes
  <2> QED
    BY <2>1, <2>2, AttributesDefined
<1> HIDE DEF attributes
<1>8. /\ Required \cup {"issued_at", "expires_at"} \subseteq DOMAIN r
      /\ r.type = type /\ r.id = d.id /\ r.display_name = display /\ r.status = status /\ r.issuer = d.issuer
      /\ r.issued_at = issued /\ r.expires_at = expires /\ r.proof_status = "verified" /\ r.public_attributes = attributes
  BY DEF Required
<1> HIDE DEF r
<1>9. type # None /\ "verified" # None /\ d.id # None
  <2>1. type \in Words
    BY DEF Words
  <2> QED
    BY <1>2, <2>1, Defined
<1>10. Required \subseteq present(r)
  BY <1>3, <1>7, <1>8, <1>9 DEF present, Required
<1>11. \A f \in {"issued_at", "expires_at"} : r[f] \in Nat
  BY <1>3, <1>8
<1>12. PublicInv(r)
  BY <1>5, <1>6, <1>8, <1>10, <1>11 DEF PublicInv, RecordTypesInv
<1> QED
  BY <1>1, <1>12

\* The record of an agent, made from its Passport, can be published.
LEMMA AgentPublic ==
  ASSUME NEW d, passport(d), d.id \in Ids, d.display_name # None,
         d.protocols \in {input.protocols : input \in Registrations}
  PROVE  PublicInv(agentRecord(d))
<1> DEFINE attributes == [protocols |-> d.protocols]
           r == [type |-> "agent", id |-> d.id, display_name |-> d.display_name, status |-> "active",
                 issuer |-> issuerId, organisation_id |-> organisationId, issued_at |-> d.issued_at,
                 expires_at |-> d.expires_at, assurance_level |-> "development", proof_status |-> "verified",
                 public_attributes |-> attributes, private_attributes |-> [passport |-> d]]
<1>1. r = agentRecord(d)
  BY DEF agentRecord
<1>2. {"active", "verified", "agent"} \subseteq Words
  BY DEF Words
<1>3. d.issued_at \in Nat /\ d.expires_at \in Nat
  BY DEF passport, closed, each, isTime
<1>4. DOMAIN attributes = {"protocols"} /\ attributes.protocols = d.protocols
  OBVIOUS
<1>5. \A a \in DOMAIN attributes : attributes[a] \in AttributeValues
  BY <1>4 DEF AttributeValues
<1>6. attributes # None
  <2>1. DOMAIN attributes \in SUBSET (PublicAttributes["agent"] \cup {"subject"}) /\ "agent" \in DOMAIN PublicAttributes
    BY <1>4 DEF PublicAttributes
  <2>2. attributes \in [DOMAIN attributes -> AttributeValues]
    BY <1>5
  <2> HIDE DEF attributes
  <2> QED
    BY <2>1, <2>2, AttributesDefined
<1> HIDE DEF attributes
<1>7. /\ Required \cup {"issued_at", "expires_at"} \subseteq DOMAIN r
      /\ r.type = "agent" /\ r.id = d.id /\ r.display_name = d.display_name /\ r.status = "active" /\ r.issuer = issuerId
      /\ r.issued_at = d.issued_at /\ r.expires_at = d.expires_at /\ r.proof_status = "verified"
      /\ r.public_attributes = attributes
  BY DEF Required
<1> HIDE DEF r
<1>8. "agent" # None /\ "active" # None /\ "verified" # None /\ d.id # None /\ issuerId # None
  BY <1>2, Defined, Identified
<1>9. Required \subseteq present(r)
  BY <1>6, <1>7, <1>8 DEF present, Required
<1>10. \A f \in {"issued_at", "expires_at"} : r[f] \in Nat
  BY <1>3, <1>7
<1>11. PublicInv(r)
  BY <1>4, <1>5, <1>7, <1>9, <1>10 DEF PublicInv, RecordTypesInv
<1> QED
  BY <1>1, <1>11

\* What create registers can be published.
LEMMA PublicInit == Init => PublicationInv
<1> SUFFICES ASSUME Init PROVE PublicationInv
  OBVIOUS
<1>1. now = 0 /\ keyPairs = 1 /\ call = [c \in Calls |-> [pc |-> "idle"]]
  BY DEF Init
<1> DEFINE own(type, id) ==
             [type |-> type, id |-> id, display_name |-> "organisation", status |-> "active", issuer |-> issuerId,
              organisation_id |-> IF type = "issuer" THEN organisationId ELSE None, issued_at |-> now,
              assurance_level |-> IF type = "organisation" THEN "development" ELSE None,
              proof_status |-> "verified", public_attributes |-> [environment |-> "development"]]
           registryOf == registryKey(verificationMethodId, issuerId, exported(0), now, now + Day)
           first == {own("organisation", organisationId), own("issuer", issuerId), registryOf}
<1>2. records = [k \in {key(r) : r \in first} |-> CHOOSE r \in first : key(r) = k]
  BY DEF Init
<1>3. ASSUME NEW type \in {"organisation", "issuer"}, NEW id \in Ids
      PROVE  PublicInv(own(type, id))
  <2> DEFINE attributes == [environment |-> "development"]
             part == IF type = "issuer" THEN organisationId ELSE None
             level == IF type = "organisation" THEN "development" ELSE None
             r == [type |-> type, id |-> id, display_name |-> "organisation", status |-> "active", issuer |-> issuerId,
                   organisation_id |-> part, issued_at |-> now, assurance_level |-> level,
                   proof_status |-> "verified", public_attributes |-> attributes]
  <2>1. own(type, id) = r
    OBVIOUS
  <2>2. {"organisation", "issuer", "active", "verified", "development"} \subseteq Words
    BY DEF Words
  <2>3. DOMAIN attributes = {"environment"} /\ attributes.environment = "development"
    OBVIOUS
  <2>4. \A a \in DOMAIN attributes : attributes[a] \in AttributeValues
    BY <2>2, <2>3, Defined
  <2>5. attributes # None
    <3>1. DOMAIN attributes \in SUBSET (PublicAttributes["issuer"] \cup {"subject"}) /\ "issuer" \in DOMAIN PublicAttributes
      BY <2>3 DEF PublicAttributes
    <3>2. attributes \in [DOMAIN attributes -> AttributeValues]
      BY <2>4
    <3> HIDE DEF attributes
    <3> QED
      BY <3>1, <3>2, AttributesDefined
  <2> HIDE DEF attributes, part, level
  <2>6. /\ Required \cup {"issued_at"} \subseteq DOMAIN r /\ "expires_at" \notin DOMAIN r
        /\ r.type = type /\ r.id = id /\ r.display_name = "organisation" /\ r.status = "active" /\ r.issuer = issuerId
        /\ r.issued_at = now /\ r.proof_status = "verified" /\ r.public_attributes = attributes
    BY DEF Required
  <2> HIDE DEF r
  <2>7. type # None /\ "organisation" # None /\ "active" # None /\ "verified" # None /\ id # None /\ issuerId # None
    BY <2>2, Defined, Identified
  <2>8. Required \subseteq present(r)
    BY <2>5, <2>6, <2>7 DEF present, Required
  <2>9. \A f \in {"issued_at", "expires_at"} \cap present(r) : r[f] \in Nat
    BY <1>1, <2>6 DEF present
  <2>10. PublicInv(r)
    BY <2>3, <2>4, <2>6, <2>8, <2>9 DEF PublicInv, RecordTypesInv
  <2> QED
    BY <2>1, <2>10
<1>4. PublicInv(registryOf)
  <2>1. exported(0) \in Jwks /\ now \in Nat /\ now + Day \in Nat
    BY <1>1, BoundsAssumption DEF exported, publicJwk, Jwks
  <2> QED
    BY <2>1, KeyPublic, Identified
<1>5. \A r \in first : PublicInv(r)
  <2>1. PublicInv(own("organisation", organisationId)) /\ PublicInv(own("issuer", issuerId))
    BY <1>3, Identified
  <2> HIDE DEF own, registryOf
  <2> QED
    BY <1>4, <2>1
<1> HIDE DEF first
<1>6. ASSUME NEW k \in DOMAIN records
      PROVE  key(records[k]) = k /\ PublicInv(records[k])
  <2>1. k \in {key(r) : r \in first} /\ records[k] = CHOOSE r \in first : key(r) = k
    BY <1>2
  <2>2. \E r \in first : key(r) = k
    BY <2>1
  <2>3. records[k] \in first /\ key(records[k]) = k
    BY <2>1, <2>2
  <2> QED
    BY <1>5, <2>3
<1>7. \A c \in Calls : HeldInv(call[c])
  BY <1>1 DEF HeldInv
<1> QED
  BY <1>1, <1>6, <1>7 DEF PublicationInv

\* A step that records nothing, and after which the call c holds x.
LEMMA Holds ==
  ASSUME IssuerInv, PublicationInv, NEW c \in Calls, NEW x, call' = [call EXCEPT ![c] = x], HeldInv(x),
         records' = records, keyPairs' \in Nat
  PROVE  PublicationInv'
<1>1. \A e \in Calls : call'[e] = IF e = c THEN x ELSE call[e]
  BY DEF IssuerInv
<1>2. \A e \in Calls : HeldInv(call'[e])
  BY <1>1 DEF PublicationInv
<1> QED
  BY <1>2 DEF PublicationInv

\* registerAgent holds a name, and the protocols it was given.
LEMMA RegisterAgentPublic ==
  ASSUME IssuerInv, PublicationInv, NEW c \in Calls, registerAgent(c)
  PROVE  PublicationInv'
<1>1. PICK input \in Registrations :
        Await(c, [pc |-> "generate",
                  document |-> [oati_version |-> "1.0", id |-> agentIdOf(input.slug), organisation_id |-> organisationId,
                                issuer |-> issuerId, status |-> "active", display_name |-> input.displayName,
                                capabilities |-> input.capabilities, protocols |-> input.protocols,
                                assurance_level |-> "development", issued_at |-> now, expires_at |-> now + Day]])
  BY DEF registerAgent
<1> DEFINE document == [oati_version |-> "1.0", id |-> agentIdOf(input.slug), organisation_id |-> organisationId,
                        issuer |-> issuerId, status |-> "active", display_name |-> input.displayName,
                        capabilities |-> input.capabilities, protocols |-> input.protocols,
                        assurance_level |-> "development", issued_at |-> now, expires_at |-> now + Day]
           x == [pc |-> "generate", document |-> document]
<1>2. call' = [call EXCEPT ![c] = x]
  BY <1>1 DEF Await
<1>3. /\ {"display_name", "protocols"} \subseteq DOMAIN document
      /\ document.display_name = input.displayName /\ document.protocols = input.protocols
  OBVIOUS
<1> HIDE DEF document
<1>4. x.pc = "generate" /\ x.document = document
  OBVIOUS
<1> HIDE DEF x
<1>5. HeldInv(x)
  BY <1>3, <1>4, NamesAreGiven DEF HeldInv
<1>6. records' = records /\ keyPairs' \in Nat
  BY DEF registerAgent, PublicationInv
<1>7. PICK y : call' = [call EXCEPT ![c] = y] /\ HeldInv(y)
  BY <1>2, <1>5
<1> QED
  BY <1>6, <1>7, Holds

\* The Passport that registerAgent signs shows a public key.
LEMMA GenerateKeyPublic ==
  ASSUME IssuerInv, PublicationInv, NEW c \in Calls, generateKey(c)
  PROVE  PublicationInv'
<1>1. /\ call[c].pc = "generate" /\ keyPairs' = keyPairs + 1 /\ records' = records
      /\ call' = [call EXCEPT ![c] = [pc |-> "sign", type |-> "passport", document |-> passportOf(c),
                                      display |-> call[c].document.display_name]]
  BY DEF generateKey, holdPassport, Await
<1> DEFINE document == call[c].document
           method == [id |-> agentMethod(document.id), type |-> "JsonWebKey2020", controller |-> document.id,
                      public_key_jwk |-> publicJwk(keyPairs)]
           whole == with(document, "verification_methods", <<method>>)
           pass == signed(whole, 0, verificationMethodId,
                          "oati:development:passport", document.issued_at, Day, nextId(document.issued_at, 1))
           x == [pc |-> "sign", type |-> "passport", document |-> pass, display |-> document.display_name]
<1>2. call' = [call EXCEPT ![c] = x]
  BY <1>1 DEF passportOf, exported
<1>3. /\ {"display_name", "protocols"} \subseteq DOMAIN document
      /\ document.display_name # None /\ document.protocols \in {input.protocols : input \in Registrations}
  BY <1>1 DEF PublicationInv, HeldInv
<1>4. method.public_key_jwk \in Jwks
  BY DEF PublicationInv, publicJwk, Jwks
<1> HIDE DEF document, method
<1>5. /\ DOMAIN whole = DOMAIN document \cup {"verification_methods"} /\ whole.verification_methods = <<method>>
      /\ whole.display_name = document.display_name /\ whole.protocols = document.protocols
  BY <1>3 DEF with, put
<1> HIDE DEF whole
<1>6. \A f \in DOMAIN whole : f # "proof" => pass[f] = whole[f]
  BY DEF signed, with, put
<1> HIDE DEF pass
<1>7. /\ pass.display_name = document.display_name /\ pass.protocols = document.protocols
      /\ pass.verification_methods[1] = method
  BY <1>3, <1>5, <1>6
<1>8. x.pc = "sign" /\ x.type = "passport" /\ x.document = pass /\ x.display = document.display_name
  OBVIOUS
<1> HIDE DEF x
<1>9. HeldInv(x)
  BY <1>3, <1>4, <1>7, <1>8 DEF HeldInv, jwkOf
<1>10. PICK y : call' = [call EXCEPT ![c] = y] /\ HeldInv(y)
  BY <1>2, <1>9
<1>11. keyPairs' \in Nat
  BY <1>1 DEF PublicationInv
<1> QED
  BY <1>1, <1>10, <1>11, Holds

\* createMandate shows the purpose that the Mandate states.
LEMMA CreateMandatePublic ==
  ASSUME IssuerInv, PublicationInv, NEW c \in Calls, createMandate(c)
  PROVE  PublicationInv'
<1>1. PICK agentId \in DOMAIN agentKeys, input \in MandateInputs :
        LET document == [oati_version |-> "1.0", id |-> <<"mandate">> \o Tail(agentId) \o nextId(now, 1),
                         issuer |-> issuerId, subject |-> agentId, purpose |-> input.purpose,
                         actions |-> input.actions, profile |-> ifGiven(input.profile), not_before |-> now,
                         expires_at |-> now + input.lifetime, status |-> "active",
                         delegation |-> [allowed |-> FALSE, max_depth |-> 0]]
        IN  Await(c, [pc |-> "sign", type |-> "mandate", display |-> input.purpose,
                      document |-> signed(document, 0, verificationMethodId, "oati:development:mandate",
                                          now, input.lifetime, nextId(now, 2))])
  BY DEF createMandate
<1> DEFINE id == <<"mandate">> \o Tail(agentId) \o <<now, sequence + 1>>
           document == [oati_version |-> "1.0", id |-> id,
                        issuer |-> issuerId, subject |-> agentId, purpose |-> input.purpose,
                        actions |-> input.actions, profile |-> ifGiven(input.profile), not_before |-> now,
                        expires_at |-> now + input.lifetime, status |-> "active",
                        delegation |-> [allowed |-> FALSE, max_depth |-> 0]]
           m == signed(document, 0, verificationMethodId, "oati:development:mandate", now, input.lifetime, nextId(now, 2))
           x == [pc |-> "sign", type |-> "mandate", display |-> input.purpose, document |-> m]
<1>2. call' = [call EXCEPT ![c] = x]
  BY <1>1 DEF Await, nextId
<1>3. agentId \in Ids
  BY AgentsNamed DEF IssuerInv
<1>4. id \in Ids
  BY <1>3, Named, NumbersAreParts
<1> HIDE DEF id
<1>5. /\ {"id", "subject", "purpose"} \subseteq DOMAIN document
      /\ document.id = id /\ document.subject = agentId /\ document.purpose = input.purpose
  OBVIOUS
<1> HIDE DEF document
<1>6. \A f \in DOMAIN document : f # "proof" => m[f] = document[f]
  BY DEF signed, with, put
<1> HIDE DEF m
<1>7. m.id = id /\ m.subject = agentId /\ m.purpose = input.purpose
  BY <1>5, <1>6
<1>8. x.pc = "sign" /\ x.type = "mandate" /\ x.document = m /\ x.display = input.purpose
  OBVIOUS
<1> HIDE DEF x
<1>9. HeldInv(x)
  BY <1>3, <1>4, <1>7, <1>8 DEF HeldInv
<1>10. PICK y : call' = [call EXCEPT ![c] = y] /\ HeldInv(y)
  BY <1>2, <1>9
<1>11. records' = records /\ keyPairs' \in Nat
  BY DEF createMandate, PublicationInv
<1> QED
  BY <1>10, <1>11, Holds

\* signTransaction holds nothing that will be recorded.
LEMMA SignTransactionPublic ==
  ASSUME IssuerInv, PublicationInv, NEW c \in Calls, signTransaction(c)
  PROVE  PublicationInv'
<1>1. \E display, document :
        Await(c, [pc |-> "sign", type |-> "envelope", display |-> display, document |-> document])
  BY DEF signTransaction
<1>2. PICK display, document :
        call' = [call EXCEPT ![c] = [pc |-> "sign", type |-> "envelope", display |-> display, document |-> document]]
  BY <1>1 DEF Await
<1>3. PICK x : x = [pc |-> "sign", type |-> "envelope", display |-> display, document |-> document]
  OBVIOUS
<1>4. x.pc = "sign" /\ x.type = "envelope"
  BY <1>3
<1>5. call' = [call EXCEPT ![c] = x] /\ HeldInv(x)
  BY <1>2, <1>3, <1>4 DEF HeldInv
<1>6. records' = records /\ keyPairs' \in Nat
  BY DEF signTransaction, PublicationInv
<1> QED
  BY <1>5, <1>6, Holds

\* issueReceipt makes an identifier.
LEMMA IssueReceiptPublic ==
  ASSUME IssuerInv, PublicationInv, NEW c \in Calls, issueReceipt(c)
  PROVE  PublicationInv'
<1>1. PICK transaction \in {d \in handed : d.id[1] = "tx"} \cup Unsigned, input \in ReceiptInputs :
        LET document == [oati_version |-> "1.0", id |-> <<"receipt">> \o Tail(transaction.id) \o nextId(now, 1),
                         transaction_id |-> transaction.id, agent_id |-> transaction.agent_id,
                         organisation_id |-> transaction.organisation_id, mandate_id |-> transaction.mandate_id,
                         decision |-> input.decision, outcome |-> input.outcome, occurred_at |-> now,
                         issuer |-> issuerId, profile |-> ifGiven(input.profile)]
        IN  Await(c, [pc |-> "sign", type |-> "receipt", display |-> "receipt",
                      document |-> signed(document, 0, verificationMethodId, input.audience, now, Day, nextId(now, 2))])
  BY DEF issueReceipt
<1> DEFINE id == <<"receipt">> \o Tail(transaction.id) \o <<now, sequence + 1>>
           document == [oati_version |-> "1.0", id |-> id,
                        transaction_id |-> transaction.id, agent_id |-> transaction.agent_id,
                        organisation_id |-> transaction.organisation_id, mandate_id |-> transaction.mandate_id,
                        decision |-> input.decision, outcome |-> input.outcome, occurred_at |-> now,
                        issuer |-> issuerId, profile |-> ifGiven(input.profile)]
           r == signed(document, 0, verificationMethodId, input.audience, now, Day, nextId(now, 2))
           x == [pc |-> "sign", type |-> "receipt", display |-> "receipt", document |-> r]
<1>2. call' = [call EXCEPT ![c] = x]
  BY <1>1 DEF Await, nextId
<1>3. transaction.id \in Ids
  BY UnsignedAreNamed DEF IssuerInv, EnvelopeInv
<1>4. id \in Ids
  BY <1>3, Named, NumbersAreParts
<1> HIDE DEF id
<1>5. "id" \in DOMAIN document /\ document.id = id
  OBVIOUS
<1> HIDE DEF document
<1>6. \A f \in DOMAIN document : f # "proof" => r[f] = document[f]
  BY DEF signed, with, put
<1> HIDE DEF r
<1>7. r.id = id
  BY <1>5, <1>6
<1>8. x.pc = "sign" /\ x.type = "receipt" /\ x.document = r /\ x.display = "receipt"
  OBVIOUS
<1> HIDE DEF x
<1>9. HeldInv(x)
  BY <1>4, <1>7, <1>8 DEF HeldInv
<1>10. PICK y : call' = [call EXCEPT ![c] = y] /\ HeldInv(y)
  BY <1>2, <1>9
<1>11. records' = records /\ keyPairs' \in Nat
  BY DEF issueReceipt, PublicationInv
<1> QED
  BY <1>10, <1>11, Holds

\* What finish records can be published: the schema that the document passed has
\* its times, status and issuer.
LEMMA FinishPublic ==
  ASSUME IssuerInv, PublicationInv, NEW c \in Calls, finish(c)
  PROVE  PublicationInv'
<1>1. /\ call[c].pc = "sign" /\ call' = [call EXCEPT ![c] = [pc |-> "idle"]] /\ keyPairs' = keyPairs
  BY DEF finish, Return, Await
<1>2. PICK t, d, display : t = call[c].type /\ d = call[c].document /\ display = call[c].display
  OBVIOUS
<1>3. \A e \in Calls : HeldInv(call'[e])
  <2>1. call'[c].pc = "idle" /\ \A e \in Calls : e # c => call'[e] = call[e]
    BY <1>1 DEF IssuerInv
  <2>2. HeldInv(call'[c])
    BY <2>1 DEF HeldInv
  <2> QED
    BY <2>1, <2>2 DEF PublicationInv
<1>4. HeldInv(call[c]) /\ CallInv(call[c])
  BY DEF PublicationInv, IssuerInv
<1>5. t \in {"passport", "mandate", "envelope", "receipt"}
  BY <1>1, <1>2, <1>4 DEF CallInv
<1>6. \A k \in DOMAIN records : key(records[k]) = k /\ PublicInv(records[k])
  BY DEF PublicationInv
<1>7. ASSUME NEW map, NEW r, PublicInv(r), \A k \in DOMAIN map : key(map[k]) = k /\ PublicInv(map[k])
      PROVE  \A k \in DOMAIN putRecord(map, r) : key(putRecord(map, r)[k]) = k /\ PublicInv(putRecord(map, r)[k])
  <2>1. /\ DOMAIN putRecord(map, r) = DOMAIN map \cup {key(r)}
        /\ \A k \in DOMAIN putRecord(map, r) : putRecord(map, r)[k] = IF k = key(r) THEN r ELSE map[k]
    BY DEF putRecord, put
  <2> QED
    BY <1>7, <2>1
<1>8. \A k \in DOMAIN records' : key(records'[k]) = k /\ PublicInv(records'[k])
  <2>1. \/ records' = records
        \/ /\ conforms(t, d)
           /\ records' = CASE t = "passport" -> putAgent(d, display)
                           [] t = "envelope" -> records
                           [] OTHER -> putRecord(records, credentialRecord(t, d, display))
    BY <1>2 DEF finish
  <2>2. CASE records' = records
    BY <1>6, <2>2
  <2>3. CASE t = "envelope"
    BY <1>6, <2>1, <2>3
  <2>4. ASSUME t \in {"mandate", "receipt"}, conforms(t, d),
               records' = putRecord(records, credentialRecord(t, d, display))
        PROVE  \A k \in DOMAIN records' : key(records'[k]) = k /\ PublicInv(records'[k])
    <3>1. d.id \in Ids /\ (t = "mandate" => d.subject \in Ids /\ display = d.purpose) /\ (t = "receipt" => display = "receipt")
      BY <1>1, <1>2, <1>4, <2>4 DEF HeldInv
    <3>2. display # None
      <4>1. CASE t = "mandate"
        <5>1. mandate(d)
          BY <2>4, <4>1 DEF conforms
        <5>2. "purpose" \in present(d)
          BY <5>1 DEF mandate, closed
        <5> QED
          BY <3>1, <4>1, <5>2 DEF present
      <4>2. CASE t = "receipt"
        <5>1. "receipt" \in Words
          BY DEF Words
        <5> QED
          BY <3>1, <4>2, <5>1, Defined
      <4> QED
        BY <2>4, <4>1, <4>2
    <3>3. has(d, "subject") => d.subject \in Ids
      <4>1. CASE t = "receipt"
        <5>1. receipt(d)
          BY <2>4, <4>1 DEF conforms
        <5>2. "subject" \notin present(d)
          BY <5>1 DEF receipt, closed
        <5> QED
          BY <5>2 DEF has
      <4> QED
        BY <2>4, <3>1, <4>1
    <3>4. PICK r : r = credentialRecord(t, d, display)
      OBVIOUS
    <3>5. PublicInv(r)
      BY <2>4, <3>1, <3>2, <3>3, <3>4, CredentialPublic
    <3> QED
      BY <1>6, <1>7, <2>4, <3>4, <3>5
  <2>5. ASSUME t = "passport", conforms(t, d), records' = putAgent(d, display)
        PROVE  \A k \in DOMAIN records' : key(records'[k]) = k /\ PublicInv(records'[k])
    <3>1. passport(d)
      BY <2>5 DEF conforms
    <3>2. /\ display # None /\ d.display_name # None /\ d.protocols \in {input.protocols : input \in Registrations}
          /\ jwkOf(d) \in Jwks
      BY <1>1, <1>2, <1>4, <2>5 DEF HeldInv
    <3>3. d.id \in AgentIds /\ d.verification_methods[1].id = agentMethod(d.id)
      BY <1>1, <1>2, <1>4, <2>5 DEF CallInv, PassportInv
    <3>4. d.id \in Ids /\ agentMethod(d.id) \in Ids
      BY <3>3, AgentsNamed, Identified
    <3>5. d.issued_at \in Nat /\ d.expires_at \in Nat /\ ~has(d, "subject")
      BY <3>1 DEF passport, closed, each, isTime, has
    <3>6. PICK ra : ra = agentRecord(d)
      OBVIOUS
    <3>7. PICK rp : rp = credentialRecord("passport", d, display)
      OBVIOUS
    <3>8. PICK rk : rk = registryKey(agentMethod(d.id), d.id, jwkOf(d), d.issued_at, d.expires_at)
      OBVIOUS
    <3>9. PublicInv(ra)
      BY <3>1, <3>2, <3>4, <3>6, AgentPublic
    <3>10. PublicInv(rp)
      BY <2>5, <3>2, <3>4, <3>5, <3>7, CredentialPublic
    <3>11. PublicInv(rk)
      BY <3>2, <3>4, <3>5, <3>8, KeyPublic
    <3>12. records' = putRecord(putRecord(putRecord(records, ra), rp), rk)
      BY <2>5, <3>3, <3>6, <3>7, <3>8 DEF putAgent, jwkOf
    <3>13. PICK one : one = putRecord(records, ra)
      OBVIOUS
    <3>14. PICK two : two = putRecord(one, rp)
      OBVIOUS
    <3>15. \A k \in DOMAIN one : key(one[k]) = k /\ PublicInv(one[k])
      BY <1>6, <1>7, <3>9, <3>13
    <3>16. \A k \in DOMAIN two : key(two[k]) = k /\ PublicInv(two[k])
      BY <1>7, <3>10, <3>14, <3>15
    <3> QED
      BY <1>7, <3>11, <3>12, <3>13, <3>14, <3>16
  <2> QED
    BY <1>5, <2>1, <2>2, <2>3, <2>4, <2>5
<1> QED
  BY <1>1, <1>3, <1>8 DEF PublicationInv

\* setStatus changes a status, and puts a revocation that can be published.
LEMMA SetStatusPublic ==
  ASSUME IssuerInv, PublicationInv, setStatus
  PROVE  PublicationInv'
<1>1. PICK k \in DOMAIN records, st \in {"suspended", "revoked"} :
        LET revocation ==
              [type |-> "revocation", id |-> <<"revocation">> \o Tail(k[2]) \o nextId(now, 1), display_name |-> st,
               status |-> st, issuer |-> issuerId, organisation_id |-> organisationId, issued_at |-> now,
               proof_status |-> "verified",
               public_attributes |-> [target |-> k[2], revocation_status |-> st, effective_at |-> now]]
        IN  records' = putRecord([records EXCEPT ![k].status = st], revocation)
  BY DEF setStatus
<1> DEFINE id == <<"revocation">> \o Tail(k[2]) \o <<now, sequence + 1>>
           attributes == [target |-> k[2], revocation_status |-> st, effective_at |-> now]
           revocation ==
             [type |-> "revocation", id |-> id, display_name |-> st,
              status |-> st, issuer |-> issuerId, organisation_id |-> organisationId, issued_at |-> now,
              proof_status |-> "verified", public_attributes |-> attributes]
<1>2. PICK changed : changed = [records EXCEPT ![k].status = st]
  OBVIOUS
<1>3. records' = putRecord(changed, revocation)
  BY <1>1, <1>2 DEF nextId
<1>4. k = key(records[k]) /\ PublicInv(records[k])
  BY DEF PublicationInv
<1>5. k[2] \in Ids
  BY <1>4 DEF PublicInv, key
<1>6. now \in Nat /\ sequence + 1 \in Nat /\ "revocation" \in Kinds
  BY DEF IssuerInv, Kinds
<1>7. id \in Ids
  <2>1. now \in Parts /\ sequence + 1 \in Parts /\ "revocation" \in Parts
    BY <1>6 DEF Parts
  <2> QED
    BY <1>5, <2>1, Named
<1>8. {"revocation", "verified", "suspended", "revoked"} \subseteq Words
  BY DEF Words
<1>9. DOMAIN attributes = {"target", "revocation_status", "effective_at"}
      /\ attributes.target = k[2] /\ attributes.revocation_status = st /\ attributes.effective_at = now
  OBVIOUS
<1>10. \A a \in DOMAIN attributes : attributes[a] \in AttributeValues
  <2>1. st \in Words
    BY <1>8
  <2>2. k[2] \in AttributeValues /\ st \in AttributeValues /\ now \in AttributeValues
    BY <1>5, <1>6, <2>1, Defined
  <2> QED
    BY <1>9, <2>2
<1>11. attributes # None
  <2>1. DOMAIN attributes \in SUBSET (PublicAttributes["revocation"] \cup {"subject"})
        /\ "revocation" \in DOMAIN PublicAttributes
    BY <1>9 DEF PublicAttributes
  <2>2. attributes \in [DOMAIN attributes -> AttributeValues]
    BY <1>10
  <2> HIDE DEF attributes
  <2> QED
    BY <2>1, <2>2, AttributesDefined
<1> HIDE DEF id, attributes
<1>12. PICK r : r = revocation
  OBVIOUS
<1>13. /\ Required \cup {"issued_at"} \subseteq DOMAIN r /\ "expires_at" \notin DOMAIN r
       /\ r.type = "revocation" /\ r.id = id /\ r.display_name = st /\ r.status = st /\ r.issuer = issuerId
       /\ r.issued_at = now /\ r.proof_status = "verified" /\ r.public_attributes = attributes
  BY <1>12 DEF Required
<1>14. PublicInv(r)
  <2>1. "revocation" # None /\ "verified" # None /\ st # None /\ id # None /\ issuerId # None
    BY <1>7, <1>8, Defined, Identified
  <2>2. Required \subseteq present(r)
    BY <1>11, <1>13, <2>1 DEF present, Required
  <2>3. \A f \in {"issued_at", "expires_at"} \cap present(r) : r[f] \in Nat
    BY <1>6, <1>13 DEF present
  <2> QED
    BY <1>7, <1>9, <1>10, <1>13, <2>2, <2>3 DEF PublicInv, RecordTypesInv
<1>15. /\ DOMAIN changed = DOMAIN records /\ \A j \in DOMAIN records : j # k => changed[j] = records[j]
       /\ DOMAIN changed[k] = DOMAIN records[k]
       /\ "status" \in DOMAIN records[k] => changed[k].status = st
       /\ \A f \in DOMAIN records[k] : f # "status" => changed[k][f] = records[k][f]
  BY <1>2
<1>16. key(changed[k]) = k /\ PublicInv(changed[k])
  <2>1. PICK old, new : old = records[k] /\ new = changed[k]
    OBVIOUS
  <2>2. PublicInv(old) /\ key(old) = k
    BY <1>4, <2>1
  <2>3. Required \subseteq present(old) /\ Required \subseteq DOMAIN old
    BY <2>2 DEF PublicInv, present
  <2>4. DOMAIN new = DOMAIN old /\ new.status = st /\ \A f \in DOMAIN old : f # "status" => new[f] = old[f]
    BY <1>15, <2>1, <2>3 DEF Required
  <2>5. st # None
    BY <1>8, Defined
  <2>6. /\ new.type = old.type /\ new.id = old.id /\ new.proof_status = old.proof_status
        /\ new.public_attributes = old.public_attributes
    BY <2>3, <2>4 DEF Required
  <2>7. /\ \A f \in present(old) : f # "status" => f \in present(new)
        /\ "status" \in present(new)
        /\ \A f \in present(new) : f # "status" => f \in present(old) /\ new[f] = old[f]
    BY <2>3, <2>4, <2>5 DEF present, Required
  <2>8. Required \subseteq present(new)
    BY <2>3, <2>7
  <2>9. \A f \in {"issued_at", "expires_at"} \cap present(new) : new[f] \in Nat
    BY <2>2, <2>7 DEF PublicInv
  <2>10. {"issued_at", "expires_at"} \subseteq present(old) => {"issued_at", "expires_at"} \subseteq present(new)
    BY <2>7
  <2>11. PublicInv(new)
    BY <2>2, <2>6, <2>8, <2>9, <2>10 DEF PublicInv
  <2> QED
    BY <2>1, <2>2, <2>6, <2>11 DEF key
<1>17. ASSUME NEW j \in DOMAIN records'
       PROVE  key(records'[j]) = j /\ PublicInv(records'[j])
  <2>1. records' = putRecord(changed, r)
    BY <1>3, <1>12
  <2>2. DOMAIN records' = DOMAIN changed \cup {key(r)} /\ records'[j] = IF j = key(r) THEN r ELSE changed[j]
    BY <2>1 DEF putRecord, put
  <2>3. CASE j = key(r)
    BY <1>14, <2>2, <2>3
  <2>4. CASE j # key(r)
    <3>1. j \in DOMAIN records /\ records'[j] = changed[j]
      BY <1>15, <2>2, <2>4
    <3> QED
      BY <1>15, <1>16, <3>1 DEF PublicationInv
  <2> QED
    BY <2>3, <2>4
<1> QED
  BY <1>17 DEF PublicationInv, setStatus

\* Every step keeps the registry publishable.
LEMMA PublicStep == IssuerInv /\ PublicationInv /\ [Next]_vars => PublicationInv'
<1> SUFFICES ASSUME IssuerInv, PublicationInv, [Next]_vars PROVE PublicationInv'
  OBVIOUS
<1>1. CASE \E c \in Calls : registerAgent(c) \/ generateKey(c) \/ createMandate(c) \/ signTransaction(c)
                            \/ issueReceipt(c) \/ finish(c)
  BY <1>1, RegisterAgentPublic, GenerateKeyPublic, CreateMandatePublic, SignTransactionPublic, IssueReceiptPublic,
     FinishPublic
<1>2. CASE setStatus
  BY <1>2, SetStatusPublic
<1>3. CASE Tick
  BY <1>3 DEF Tick, PublicationInv
<1>4. CASE UNCHANGED vars
  BY <1>4 DEF vars, PublicationInv
<1> QED
  BY <1>1, <1>2, <1>3, <1>4 DEF Next

-----------------------------------------------------------------------------
(* What follows. *)

\* The agent record, the Passport and the public key record of an agent are
\* there together and name one key, however registerAgent's calls interleave.
THEOREM RegistryAgrees == Spec => []RecordsAgree
<1>1. IssuerInv => RecordsAgree
  <2> SUFFICES ASSUME IssuerInv, NEW k \in DOMAIN records
               PROVE  LET method == agentMethod(k[2])
                          keyOf == records[<<"key", method>>].public_attributes
                          credential == records[<<"passport", k[2]>>].private_attributes.credential
                      IN  /\ k[1] = "agent" =>
                               /\ registered("passport", k[2]) /\ registered("key", method)
                               /\ records[k].private_attributes.passport = credential
                               /\ credential.verification_methods[1].public_key_jwk = keyOf.public_key_jwk
                          /\ k[1] = "key" /\ k[2] # verificationMethodId =>
                               /\ records[k].public_attributes.controller \in
                                    {a[2] : a \in {b \in DOMAIN records : b[1] = "agent"}}
    BY DEF RecordsAgree
  <2>1. RecordInv(k)
    BY DEF IssuerInv
  <2>2. ASSUME k[1] = "agent"
        PROVE  /\ registered("passport", k[2]) /\ registered("key", agentMethod(k[2]))
               /\ records[k].private_attributes.passport = records[<<"passport", k[2]>>].private_attributes.credential
               /\ jwkOf(records[<<"passport", k[2]>>].private_attributes.credential)
                    = records[<<"key", agentMethod(k[2])>>].public_attributes.public_key_jwk
    <3>1. k = <<"agent", k[2]>> /\ k[2] \in AgentIds
      BY <2>1, <2>2 DEF RecordInv
    <3>2. registered("agent", k[2]) /\ AgentInv(k[2])
      BY <3>1 DEF IssuerInv, registered
    <3> QED
      BY <3>1, <3>2 DEF AgentInv
  <2>3. ASSUME k[1] = "key", k[2] # verificationMethodId
        PROVE  records[k].public_attributes.controller \in {a[2] : a \in {b \in DOMAIN records : b[1] = "agent"}}
    <3>1. PICK a \in AgentIds : registered("agent", a) /\ records[k].public_attributes.controller = a
      BY <2>1, <2>3 DEF RecordInv
    <3>2. <<"agent", a>> \in DOMAIN records /\ <<"agent", a>>[1] = "agent" /\ <<"agent", a>>[2] = a
      BY <3>1 DEF registered
    <3> QED
      BY <3>1, <3>2
  <2> QED
    BY <2>2, <2>3 DEF jwkOf
<1> QED
  BY <1>1, IssuerInductive, PTL

\* An Envelope that signTransaction returned was made under a registered Mandate
\* of its agent, in that Mandate's lifetime, and verifies against the key that
\* the registry publishes, unless two registrations of its agent overlapped.
THEOREM EnvelopesAreVerifiable == Spec => []EnvelopesVerify
<1>1. IssuerInv => EnvelopesVerify
  <2> SUFFICES ASSUME IssuerInv, NEW e \in handed, e.id[1] = "tx"
               PROVE  LET credential == records[<<"mandate", e.mandate_id>>].private_attributes.credential IN
                      /\ registered("mandate", e.mandate_id)
                      /\ credential.subject = e.agent_id
                      /\ credential.not_before <= e.issued_at /\ e.issued_at < credential.expires_at
                      /\ e.agent_id \in overlapped
                         \/ records[<<"key", e.proof.verification_method>>].public_attributes.public_key_jwk
                              = publicJwk(e.proof.signature)
    BY DEF EnvelopesVerify
  <2>1. EnvelopeInv(e)
    BY DEF IssuerInv
  <2>2. AgentInv(e.agent_id) /\ registered("agent", e.agent_id)
    BY <2>1 DEF IssuerInv, EnvelopeInv
  <2>3. e.agent_id \in overlapped
        \/ records[<<"key", e.proof.verification_method>>].public_attributes.public_key_jwk = publicJwk(e.proof.signature)
    BY <2>1, <2>2 DEF EnvelopeInv, AgentInv
  <2> QED
    BY <2>1, <2>3 DEF EnvelopeInv
<1> QED
  BY <1>1, IssuerInductive, PTL

\* A suspended or revoked agent, Passport or Mandate never becomes active again,
\* unless two registrations of the agent overlapped.
THEOREM SuspensionsHold == Spec => SuspensionHolds
<1> DEFINE Held == \A k \in DOMAIN records :
                     \/ records[k].status = "active"
                     \/ k[1] \in {"agent", "passport"} /\ k[2] \in overlapped
                     \/ records'[k].status # "active"
<1>1. IssuerInv /\ [Next]_vars => [Held]_vars
  <2> SUFFICES ASSUME IssuerInv, Next, NEW k \in DOMAIN records, records[k].status # "active",
                      ~(k[1] \in {"agent", "passport"} /\ k[2] \in overlapped)
               PROVE  records'[k].status # "active"
    OBVIOUS
  <2>1. RecordInv(k)
    BY DEF IssuerInv
  <2>2. k = <<k[1], k[2]>> /\ k[1] \in {"agent", "passport", "mandate", "revocation"}
    BY <2>1 DEF RecordInv, RecordTypesInv
  <2>3. CASE records' = records
    BY <2>3
  <2>4. ASSUME NEW c \in Calls, finish(c)
        PROVE  records'[k].status # "active"
    <3>1. CASE records' = records
      BY <3>1
    <3>2. ASSUME call[c].pc = "sign", call[c].type \in {"mandate", "receipt"},
                 NEW r, Recorded(<<call[c].type, call[c].document.id>>, r)
          PROVE  records'[k].status # "active"
      <4>1. PICK t, d : t = call[c].type /\ d = call[c].document
        OBVIOUS
      <4>2. t \in {"mandate", "receipt"} /\ (t = "mandate" => ~registered("mandate", d.id))
        BY <3>2, <4>1 DEF IssuerInv, CallInv, MandateInv
      <4>3. k # <<t, d.id>>
        BY <2>2, <4>2 DEF registered
      <4>4. records'[k] = records[k]
        BY <3>2, <4>1, <4>3 DEF Recorded
      <4> QED
        BY <4>4
    <3>3. ASSUME call[c].pc = "sign", call[c].type = "passport", records' = putAgent(call[c].document, call[c].display)
          PROVE  records'[k].status # "active"
      <4>1. PICK d, display : d = call[c].document /\ display = call[c].display
        OBVIOUS
      <4>2. PassportInv(d)
        BY <3>3, <4>1 DEF IssuerInv, CallInv
      <4>3. PICK a \in AgentIds : a = d.id
        BY <4>2 DEF PassportInv
      <4>4. Enrolled(a, d)
        BY <3>3, <4>1, <4>2, <4>3, AgentRecorded DEF PassportInv
      <4>5. Enrols(call[c], a)
        BY <3>3, <4>1, <4>3 DEF Enrols
      <4>6. a \in overlapped \/ (~registered("agent", a) /\ ~registered("passport", a))
        <5>1. AgentInv(a)
          BY DEF IssuerInv
        <5>2. registered("agent", a) => a \in overlapped
          BY <4>5, <5>1 DEF AgentInv
        <5>3. ASSUME registered("passport", a) PROVE registered("agent", a)
          <6>1. PICK j \in DOMAIN records : j = <<"passport", a>>
            BY <5>3 DEF registered
          <6>2. RecordInv(j) /\ j[1] = "passport" /\ j[2] = a
            BY <6>1 DEF IssuerInv
          <6> QED
            BY <6>2 DEF RecordInv
        <5> QED
          BY <5>2, <5>3
      <4>7. k \notin {<<"agent", a>>, <<"passport", a>>, <<"key", agentMethod(a)>>}
        BY <2>2, <4>6 DEF registered
      <4>8. records'[k] = records[k]
        BY <4>4, <4>7 DEF Enrolled
      <4> QED
        BY <4>8
    <3> QED
      BY <2>4, <3>1, <3>2, <3>3, FinishCases
  <2>5. ASSUME setStatus
        PROVE  records'[k].status # "active"
    <3>1. PICK j \in DOMAIN records : \E jr, st : Suspends(j, jr, st)
      BY <2>5, StatusSet
    <3>2. PICK jr, st : Suspends(j, jr, st)
      BY <3>1
    <3> QED
      BY <3>2 DEF Suspends
  <2>6. \/ records' = records
        \/ \E c \in Calls : finish(c)
        \/ setStatus
    <3>1. \A c \in Calls : registerAgent(c) => records' = records
      BY DEF registerAgent
    <3>2. \A c \in Calls : generateKey(c) => records' = records
      BY DEF generateKey
    <3>3. \A c \in Calls : createMandate(c) => records' = records
      BY DEF createMandate
    <3>4. \A c \in Calls : signTransaction(c) => records' = records
      BY DEF signTransaction
    <3>5. \A c \in Calls : issueReceipt(c) => records' = records
      BY DEF issueReceipt
    <3>6. Tick => records' = records
      BY DEF Tick
    <3> QED
      BY <3>1, <3>2, <3>3, <3>4, <3>5, <3>6 DEF Next
  <2> QED
    BY <2>3, <2>4, <2>5, <2>6
<1>2. Spec => [][Held]_vars
  BY <1>1, IssuerInductive, PTL DEF Spec
<1> QED
  BY <1>2 DEF SuspensionHolds

\* projectPublicRecord accepts every record of the registry, whatever was
\* registered, issued, suspended or revoked and however the calls interleaved,
\* and what it makes of it satisfies the publicRecord schema.
THEOREM RegistryPublishable == Spec => []Publishable
<1>1. PublicationInv => Publishable
  <2> SUFFICES ASSUME PublicationInv, NEW k \in DOMAIN records
               PROVE  projects(records[k]) /\ publicRecord(publish(k))
    BY DEF Publishable
  <2>1. PublicInv(records[k])
    BY DEF PublicationInv
  <2> QED
    BY <2>1, Published DEF publish
<1>2. Spec => []PublicationInv
  BY PublicInit, PublicStep, IssuerInductive, PTL DEF Spec
<1> QED
  BY <1>1, <1>2, PTL

=============================================================================
