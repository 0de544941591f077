------------------------------- MODULE Issuer -------------------------------
(***************************************************************************)
(* DevelopmentIssuer (development.ts): an in-memory registry of one        *)
(* organisation whose asynchronous methods interleave at their awaits (key *)
(* generation and signing), and the projection of its records to the       *)
(* public ones (projection.ts).                                            *)
(*                                                                         *)
(* One step is the code between two awaits.  A call that throws before its *)
(* first assignment is no step.                                            *)
(***************************************************************************)
EXTENDS Schemas

CONSTANTS
  Calls,          \* concurrent calls of the asynchronous methods
  Slugs,          \* texts given as slugs
  Normal,         \* what identifier makes of each: a slug, or Blank
  Registrations, MandateInputs, TransactionInputs, ReceiptInputs,
  Unsigned,       \* transactions that callers made up themselves
  Day,            \* lifetime of keys, Passports and Receipt proofs
  MaxCalls, MaxChanges, MaxTime   \* bounds: calls, setStatus calls, clock

ASSUME NormalAssumption == DOMAIN Normal = Slugs
ASSUME BoundsAssumption == {Day, MaxCalls, MaxChanges, MaxTime} \subseteq Nat

VARIABLES
  records,    \* the Map from type and id to the registry's record
  agentKeys,  \* the Map from agent id to its signing key
  sequence,   \* the counter behind nextId
  keyPairs,   \* key pairs generated so far; pair 0 is the issuer's
  call,       \* where each call is, and what it holds
  now,        \* new Date()
  handed,     \* documents returned to the callers
  overlapped, \* agents with two registrations under way at once
  made, changes

counters == <<made, changes>>
vars == <<records, agentKeys, sequence, keyPairs, call, now, handed, overlapped, counters>>

-----------------------------------------------------------------------------
(* Identifiers, maps and records. *)

organisationId == <<"org", "o">>
issuerId == <<"issuer", "o", "development">>
verificationMethodId == <<"key", "o", "development-1">>
agentIdOf(slug) == <<"agent", "o", Normal[slug]>>
agentMethod(agentId) == <<"key">> \o Tail(agentId) \o <<"development-1">>

\* Faulty variant: the time alone.
timeOnly(at, n) == <<at>>

\* What the n-th call of nextId from here on makes of the time `at`.
nextId(at, n) == <<at, sequence + n>>

key(record) == <<record.type, record.id>>
put(map, k, value) == [x \in DOMAIN map \cup {k} |-> IF x = k THEN value ELSE map[x]]
putRecord(map, record) == put(map, key(record), record)
with(document, f, value) == put(document, f, value)

\* A member that is written only if its text is truthy, and one with a default.
ifGiven(text) == IF text = Blank THEN None ELSE text
orElse(d, f, default) == IF has(d, f) THEN d[f] ELSE default

\* exportKey("jwk", pair.publicKey).
publicJwk(pair) == [kty |-> "OKP", x |-> pair]

\* Faulty variant: it exports the private key.
privateJwk(pair) == [kty |-> "OKP", x |-> pair, d |-> pair]

exported(pair) == publicJwk(pair)

registryKey(id, controller, jwk, issued, expires) ==
  [type |-> "key", id |-> id, display_name |-> "key", status |-> "active", issuer |-> issuerId,
   organisation_id |-> organisationId, issued_at |-> issued, expires_at |-> expires, proof_status |-> "verified",
   public_attributes |-> [controller |-> controller, algorithm |-> "EdDSA", public_key_jwk |-> jwk]]

credentialRecord(type, value, display) ==
  [type |-> type, id |-> value.id, display_name |-> display,
   status |-> IF type = "receipt" THEN "active" ELSE value.status,
   issuer |-> value.issuer, organisation_id |-> organisationId,
   issued_at |-> CASE has(value, "issued_at") -> value.issued_at
                   [] has(value, "not_before") -> value.not_before
                   [] OTHER -> value.occurred_at,
   expires_at |-> IF has(value, "expires_at") THEN value.expires_at ELSE value.proof.expires,
   proof_status |-> "verified",
   public_attributes |-> [subject |-> IF has(value, "subject") THEN value.subject ELSE value.id],
   private_attributes |-> [credential |-> value]]

\* Texts made by join and JSON.stringify are told apart as what they are made of.
agentRecord(document) ==
  [type |-> "agent", id |-> document.id, display_name |-> document.display_name, status |-> "active",
   issuer |-> issuerId, organisation_id |-> organisationId, issued_at |-> document.issued_at,
   expires_at |-> document.expires_at, assurance_level |-> "development", proof_status |-> "verified",
   public_attributes |-> [protocols |-> document.protocols],
   private_attributes |-> [passport |-> document]]

\* sign, signDocument: the proof by `pair` under `method`.
signed(document, pair, method, audience, created, lifetime, nonce) ==
  with(document, "proof",
       [type |-> "OatiJwsProof2026", cryptosuite |-> "eddsa-jcs-2022", algorithm |-> "EdDSA",
        created |-> created, expires |-> created + lifetime, verification_method |-> method,
        proof_purpose |-> "assertionMethod", audience |-> <<audience>>, nonce |-> <<36, nonce>>,
        signature |-> pair])

-----------------------------------------------------------------------------
\* create and the constructor.
Init ==
  /\ now = 0
  /\ LET own(type, id) ==
           [type |-> type, id |-> id, display_name |-> "organisation", status |-> "active", issuer |-> issuerId,
            organisation_id |-> IF type = "issuer" THEN organisationId ELSE None, issued_at |-> now,
            assurance_level |-> IF type = "organisation" THEN "development" ELSE None,
            proof_status |-> "verified", public_attributes |-> [environment |-> "development"]]
         first == {own("organisation", organisationId), own("issuer", issuerId),
                   registryKey(verificationMethodId, issuerId, exported(0), now, now + Day)}
     IN  records = [k \in {key(r) : r \in first} |-> CHOOSE r \in first : key(r) = k]
  /\ agentKeys = << >>
  /\ sequence = 0 /\ keyPairs = 1
  /\ call = [c \in Calls |-> [pc |-> "idle"]]
  /\ handed = {} /\ overlapped = {}
  /\ made = 0 /\ changes = 0

Idle(c) == call[c].pc = "idle" /\ made < MaxCalls
Await(c, held) == call' = [call EXCEPT ![c] = held]
Return(c) == Await(c, [pc |-> "idle"])

registered(type, id) == <<type, id>> \in DOMAIN records
inService(type, id) == registered(type, id) /\ records[<<type, id>>].status = "active"

\* Calls that are registering the agent.
registering(agentId) == {c \in Calls : call[c].pc \in {"generate", "sign"} /\ call[c].document.id = agentId}

\* registerAgent up to generateKey.
registerAgent(c) ==
  \E input \in Registrations :
    LET agentId == agentIdOf(input.slug) IN
    /\ Idle(c)
    /\ Normal[input.slug] # Blank /\ nonEmpty(input.displayName)
    /\ ~registered("agent", agentId)
    /\ Await(c, [pc |-> "generate",
                 document |-> [oati_version |-> "1.0", id |-> agentId, organisation_id |-> organisationId,
                               issuer |-> issuerId, status |-> "active", display_name |-> input.displayName,
                               capabilities |-> input.capabilities, protocols |-> input.protocols,
                               assurance_level |-> "development", issued_at |-> now, expires_at |-> now + Day]])
    /\ overlapped' = IF registering(agentId) = {} THEN overlapped ELSE overlapped \cup {agentId}
    /\ made' = made + 1
    /\ UNCHANGED <<records, agentKeys, sequence, keyPairs, now, handed, changes>>

\* createPassport with the agent's new key, and sign.
passportOf(c) ==
  LET document == call[c].document
      method == [id |-> agentMethod(document.id), type |-> "JsonWebKey2020", controller |-> document.id,
                 public_key_jwk |-> exported(keyPairs)]
  IN  signed(with(document, "verification_methods", <<method>>), 0, verificationMethodId,
             "oati:development:passport", document.issued_at, Day, nextId(document.issued_at, 1))

holdPassport(c) ==
  /\ call[c].pc = "generate"
  /\ keyPairs' = keyPairs + 1
  /\ agentKeys' = put(agentKeys, call[c].document.id, keyPairs)
  /\ sequence' = sequence + 1
  /\ Await(c, [pc |-> "sign", type |-> "passport", document |-> passportOf(c), display |-> call[c].document.display_name])

\* Faulty variant: the key record is there before the Passport is signed.
publishKeyEarly(c) ==
  /\ holdPassport(c)
  /\ records' = putRecord(records, registryKey(agentMethod(call[c].document.id), call[c].document.id,
                                             exported(keyPairs), now, now + Day))
  /\ UNCHANGED <<now, handed, overlapped, counters>>

\* registerAgent from exportKey to the signature.
generateKey(c) ==
  /\ holdPassport(c)
  /\ UNCHANGED <<records, now, handed, overlapped, counters>>

\* createMandate up to the signature.
createMandate(c) ==
  \E agentId \in DOMAIN agentKeys, input \in MandateInputs :
    /\ Idle(c)
    /\ inService("agent", agentId)
    /\ nonEmpty(input.purpose) /\ Len(input.actions) >= 1 /\ input.lifetime > 0
    /\ LET document == [oati_version |-> "1.0", id |-> <<"mandate">> \o Tail(agentId) \o nextId(now, 1),
                        issuer |-> issuerId, subject |-> agentId, purpose |-> input.purpose,
                        actions |-> input.actions, profile |-> ifGiven(input.profile), not_before |-> now,
                        expires_at |-> now + input.lifetime, status |-> "active",
                        delegation |-> [allowed |-> FALSE, max_depth |-> 0]]
       IN  Await(c, [pc |-> "sign", type |-> "mandate", display |-> input.purpose,
                     document |-> signed(document, 0, verificationMethodId, "oati:development:mandate",
                                         now, input.lifetime, nextId(now, 2))])
    /\ sequence' = sequence + 2 /\ made' = made + 1
    /\ UNCHANGED <<records, agentKeys, keyPairs, now, handed, overlapped, changes>>

\* Mandates a caller may present: the ones it was given, and altered ones.
presented ==
  LET given == {d \in handed : d.id[1] = "mandate"}
  IN  given \cup {[m EXCEPT !.purpose = "(altered)"] : m \in given}

\* The conditions of signTransaction on the Mandate.
mandateAccepted(m, agentId) ==
  /\ inService("mandate", m.id)
  /\ m.issuer = issuerId /\ m.subject = agentId /\ m.status = "active"
  /\ records[<<"mandate", m.id>>].private_attributes.credential = m
  /\ m.not_before <= now /\ now < m.expires_at

\* Faulty variant: it signs with the issuer's key.
issuerPair(agentId) == 0

signingPair(agentId) == agentKeys[agentId]

\* signTransaction up to the signature.
signTransaction(c) ==
  \E agentId \in DOMAIN agentKeys, m \in presented, input \in TransactionInputs :
    /\ Idle(c)
    /\ inService("agent", agentId)
    /\ mandateAccepted(m, agentId)
    /\ input.lifetime > 0 /\ nonEmpty(input.audience)
    /\ LET document == [oati_version |-> "1.0", id |-> <<"tx">> \o Tail(agentId) \o nextId(now, 1), agent_id |-> agentId,
                        organisation_id |-> organisationId, mandate_id |-> m.id, action |-> input.action,
                        resource |-> input.resource, purpose |-> orElse(input, "purpose", m.purpose),
                        profile |-> ifGiven(orElse(input, "profile", m.profile)),
                        issued_at |-> now, nonce |-> <<36, sequence>>]
       IN  Await(c, [pc |-> "sign", type |-> "envelope", display |-> input.action,
                     document |-> signed(document, signingPair(agentId), agentMethod(agentId), input.audience,
                                         now, input.lifetime, nextId(now, 2))])
    /\ sequence' = sequence + 2 /\ made' = made + 1
    /\ UNCHANGED <<records, agentKeys, keyPairs, now, handed, overlapped, changes>>

\* issueReceipt up to the signature.  Nothing is asked of the transaction: it may
\* be an Envelope that some caller was given, or no Envelope at all.
issueReceipt(c) ==
  \E transaction \in {d \in handed : d.id[1] = "tx"} \cup Unsigned, input \in ReceiptInputs :
    /\ Idle(c)
    /\ nonEmpty(input.audience)
    /\ LET document == [oati_version |-> "1.0", id |-> <<"receipt">> \o Tail(transaction.id) \o nextId(now, 1),
                        transaction_id |-> transaction.id, agent_id |-> transaction.agent_id,
                        organisation_id |-> transaction.organisation_id, mandate_id |-> transaction.mandate_id,
                        decision |-> input.decision, outcome |-> input.outcome, occurred_at |-> now,
                        issuer |-> issuerId, profile |-> ifGiven(input.profile)]
       IN  Await(c, [pc |-> "sign", type |-> "receipt", display |-> "receipt",
                     document |-> signed(document, 0, verificationMethodId, input.audience, now, Day, nextId(now, 2))])
    /\ sequence' = sequence + 2 /\ made' = made + 1
    /\ UNCHANGED <<records, agentKeys, keyPairs, now, handed, overlapped, changes>>

-----------------------------------------------------------------------------
(* After the signature. *)

conforms(type, document) ==
  CASE type = "passport" -> passport(document)
    [] type = "mandate"  -> mandate(document)
    [] type = "envelope" -> envelope(document)
    [] type = "receipt"  -> receipt(document)

\* The three records of a registration, put one after the other.
putAgent(document, display) ==
  LET method == document.verification_methods[1]
  IN  putRecord(putRecord(putRecord(records, agentRecord(document)),
                          credentialRecord("passport", document, display)),
                registryKey(method.id, document.id, method.public_key_jwk, document.issued_at, document.expires_at))

\* assertSchema throws, or the document is recorded and returned.
finish(c) ==
  LET held == call[c] IN
  /\ held.pc = "sign"
  /\ Return(c)
  /\ \/ ~conforms(held.type, held.document) /\ UNCHANGED <<records, handed>>
     \/ /\ conforms(held.type, held.document)
        /\ handed' = handed \cup {held.document}
        /\ records' = CASE held.type = "passport" -> putAgent(held.document, held.display)
                        [] held.type = "envelope" -> records
                        [] OTHER -> putRecord(records, credentialRecord(held.type, held.document, held.display))
  /\ UNCHANGED <<agentKeys, sequence, keyPairs, now, overlapped, counters>>

\* setStatus.
setStatus ==
  \E k \in DOMAIN records, status \in {"suspended", "revoked"} :
    LET revocation ==
          [type |-> "revocation", id |-> <<"revocation">> \o Tail(k[2]) \o nextId(now, 1), display_name |-> status,
           status |-> status, issuer |-> issuerId, organisation_id |-> organisationId, issued_at |-> now,
           proof_status |-> "verified",
           public_attributes |-> [target |-> k[2], revocation_status |-> status, effective_at |-> now]]
    IN
    /\ changes < MaxChanges /\ k[1] \in {"agent", "passport", "mandate"}
    /\ records' = putRecord([records EXCEPT ![k].status = status], revocation)
    /\ sequence' = sequence + 1 /\ changes' = changes + 1
    /\ UNCHANGED <<agentKeys, keyPairs, call, now, handed, overlapped, made>>

Tick ==
  /\ now < MaxTime /\ now' = now + 1
  /\ UNCHANGED <<records, agentKeys, sequence, keyPairs, call, handed, overlapped, counters>>

Next ==
  \/ \E c \in Calls : registerAgent(c) \/ generateKey(c) \/ createMandate(c) \/ signTransaction(c)
                      \/ issueReceipt(c) \/ finish(c)
  \/ setStatus \/ Tick

Spec == Init /\ [][Next]_vars

-----------------------------------------------------------------------------
(* projection.ts. *)

PublicFields == {"type", "id", "display_name", "status", "issuer", "organisation_id", "issued_at", "expires_at",
                 "assurance_level", "proof_status", "public_attributes"}

PublicAttributes ==
  [organisation |-> {"environment", "website", "jurisdiction", "signed_document"},
   issuer |-> {"environment", "parent", "revoked_at", "signed_document"},
   key |-> {"controller", "algorithm", "public_key_jwk", "revoked_at", "signed_document"},
   agent |-> {"protocol", "protocols", "signed_document"},
   passport |-> {"subject", "signed_document"},
   mandate |-> {"subject", "signed_document"},
   receipt |-> {"transaction_id", "mandate_id", "outcome", "signed_document"},
   revocation |-> {"target", "revocation_status", "effective_at", "signed_document"},
   service |-> {"document", "signed_document"},
   profile |-> {"document", "signed_document"}]

Sensitive == {"access_token", "api_key", "credential", "internal_id", "kms_key", "operator_notes", "password",
              "private_attributes", "private_key", "refresh_token", "secret", "tenant_id"}

\* assertPublicJson, of an object without nested ones.
assertPublicJson(document) ==
  /\ DOMAIN document \cap Sensitive = {}
  /\ ~({"kty", "d"} \subseteq DOMAIN document)

publicAttributes(record) ==
  [a \in PublicAttributes[record.type] \cap present(record.public_attributes) |-> record.public_attributes[a]]

\* projectPublicRecord returns, and what.
projects(record) ==
  /\ record.type \in DOMAIN PublicAttributes
  /\ \A a \in {"document", "public_key_jwk", "signed_document"} \cap DOMAIN publicAttributes(record) :
       assertPublicJson(record.public_attributes[a])
  /\ {"type", "id", "display_name", "status", "issuer", "proof_status", "public_attributes"} \subseteq present(record)

projectPublicRecord(record) ==
  [f \in PublicFields \cap present(record) |->
     IF f = "public_attributes" THEN publicAttributes(record) ELSE record[f]]

\* publish.
publish(k) == projectPublicRecord(records[k])

-----------------------------------------------------------------------------
(* What records are made of. *)

Kinds == {"agent", "mandate", "tx", "receipt", "revocation", "org", "issuer", "key", "o", "development", "development-1"}
Parts == Kinds \cup Nat \cup {Normal[input.slug] : input \in Registrations}
Ids == Seq(Parts) \ {<< >>}

Words == {"organisation", "issuer", "key", "agent", "passport", "mandate", "receipt", "revocation",
          "active", "suspended", "revoked", "verified", "development", "EdDSA"}
Jwks == [kty : {"OKP"}, x : Nat]
AttributeValues == Words \cup Nat \cup Ids \cup Jwks \cup {input.protocols : input \in Registrations}

\* identifier throws on a transaction without an identifier.
ASSUME UnsignedAreNamed == \A transaction \in Unsigned : transaction.id \in Ids

\* registerAgent throws on a displayName that is undefined.
ASSUME NamesAreGiven == \A input \in Registrations : input.displayName # None

\* A value that the issuer writes is not undefined.
ASSUME UndefinedIsNoValue ==
  /\ None \notin Words /\ None \notin Nat /\ None \notin Ids /\ None \notin Jwks
  /\ \A type \in DOMAIN PublicAttributes :
       \A names \in SUBSET (PublicAttributes[type] \cup {"subject"}) : None \notin [names -> AttributeValues]

\* An identifier is not the empty string.
ASSUME IdentifiersAreNotBlank == Blank \notin Ids

-----------------------------------------------------------------------------
(* Properties. *)

\* What the registry says of an agent always fits together: the agent record,
\* the Passport and the public key record are there or missing together, and
\* name the same key, also while several registrations are between their awaits.
RecordsAgree ==
  \A k \in DOMAIN records :
    LET method == agentMethod(k[2])
        keyOf == records[<<"key", method>>].public_attributes
        credential == records[<<"passport", k[2]>>].private_attributes.credential
    IN  /\ k[1] = "agent" =>
             /\ registered("passport", k[2]) /\ registered("key", method)
             /\ records[k].private_attributes.passport = credential
             /\ credential.verification_methods[1].public_key_jwk = keyOf.public_key_jwk
        /\ k[1] = "key" /\ k[2] # verificationMethodId =>
             /\ records[k].public_attributes.controller \in {a[2] : a \in {b \in DOMAIN records : b[1] = "agent"}}

\* An Envelope that signTransaction returned verifies against the key the
\* registry publishes for its agent, and was made under a Mandate that the
\* registry holds as a credential of that agent, while it was valid -- its
\* purpose and profile may be others, if the caller named some.  The key is
\* excepted where two registrations of the agent were under way at once, which
\* leaves agentKeys with the later key pair and the registry with whichever
\* registration finished last.
EnvelopesVerify ==
  \A e \in {d \in handed : d.id[1] = "tx"} :
    LET credential == records[<<"mandate", e.mandate_id>>].private_attributes.credential IN
    /\ registered("mandate", e.mandate_id) /\ credential.subject = e.agent_id
    /\ credential.not_before <= e.issued_at /\ e.issued_at < credential.expires_at
    /\ e.agent_id \in overlapped
       \/ records[<<"key", e.proof.verification_method>>].public_attributes.public_key_jwk = publicJwk(e.proof.signature)

\* A suspended or revoked agent, Passport or Mandate never becomes active again
\* (a Mandate's id is never given to another one), unless a second registration
\* of the agent was already past its check when the first one finished.
SuspensionHolds ==
  [][\A k \in DOMAIN records :
       \/ records[k].status = "active"
       \/ k[1] \in {"agent", "passport"} /\ k[2] \in overlapped
       \/ records'[k].status # "active"]_vars

\* Every record of the registry can be published: projectPublicRecord accepts
\* it, and what it makes of it satisfies the publicRecord schema and shows
\* nothing of the private attributes.
Publishable ==
  \A k \in DOMAIN records : projects(records[k]) /\ publicRecord(publish(k))
=============================================================================
