------------------------------ MODULE Gateway ------------------------------
(***************************************************************************)
(* The authorizer process of services/envoy-authorizer/server.mjs: its     *)
(* configuration, its routes, and how it wires the middleware to the       *)
(* public registry, Valkey, Transit and the evidence service.              *)
(*                                                                         *)
(* The registry and the replies of every dependency change while a request *)
(* is between two awaits.  Middleware.tla is about concurrent requests,    *)
(* usage and time; here the evaluator's verdict is a choice and usage is a *)
(* version number.  TrustChain.tla is about one verifyDocument; here it    *)
(* reads the records it relies on in one step.  The lookup cache is off    *)
(* (OATI_GATEWAY_LOOKUP_CACHE_MS = 0); LookupCache.tla is about the cache. *)
(***************************************************************************)
EXTENDS ValkeyClient, FiniteSets

CONSTANTS
  Environments,   \* environments the process may be started in
  Routes,         \* route and, for /authorize/, what each caller submits
  KeyRecords,     \* what may be published for a key: issuer, controller and JWK
  FirstPublished, \* the record of each key at first
  Listed,         \* the method of that id in the Passport, or None
  Agent, Issuer,  \* the Passport's id and issuer
  Anchored,       \* issuers whose chain ends at a trust anchor
  MaxChanges      \* bound on changes by the control plane and other replicas

Keys      == DOMAIN FirstPublished
Documents == {"mandate", "parent_mandate", "passport"}
Records   == Documents \cup Keys

ASSUME AnswersAssumption ==
  {"+OK", "+PONG", "null", "usage", "0", "1", "id"} \subseteq Answers /\ None \notin Answers
ASSUME KeysTyped == FirstPublished \in [Keys -> KeyRecords] /\ DOMAIN Listed = Keys
ASSUME RoutesTyped ==
  \A r \in Routes, c \in Callers : r[c].path = "/authorize/" => r[c].key \in Keys

VARIABLES
  config,       \* the configuration the process runs with
  route,        \* what each caller asks for
  status,       \* status of each public record
  publications, \* records published for each key, the last one current
  revocations,  \* records a Revocation record names
  changes,      \* number of changes so far
  replay,       \* callers whose replay key is set in Valkey
  usage,        \* version of the Mandate's usage key in Valkey
  stream,       \* Receipts in the stream
  evidence,     \* Receipts the evidence service committed
  at            \* where each caller's handler is, and what it holds

registry == <<config, route, status, publications, revocations, changes>>
valkey   == <<replay, usage, stream>>
vars     == <<registry, valkey, evidence, at, link>>

-----------------------------------------------------------------------------
(* configuration, createApplication and the bearer tokens. *)

Length == {"absent", "short", "long"}

\* What production adds: mTLS, an invalidation token, evidence, HTTPS
\* resolvers and Transit, rediss and an ACL user.
Hardening == {"mtls", "invalidationToken", "evidenceUrl", "evidenceToken", "https", "rediss", "acl"}

given(e) == e.set \cup {t \in {"invalidationToken", "evidenceToken"} : e[t] # "absent"}

\* Faulty variant: production may run without the evidence service.
configurationLenient(e) ==
  "required" \in e.set /\ ("production" \in e.set => Hardening \ {"evidenceUrl", "evidenceToken"} \subseteq given(e))

\* configuration: "required" stands for the variables that must be there and
\* well formed in every environment.
configuration(e) ==
  "required" \in e.set /\ ("production" \in e.set => Hardening \subseteq given(e))

\* configuredInvalidationToken and configuredEvidenceToken.
tokensUsable(e) ==
  /\ e.invalidationToken # "short"
  /\ "evidenceUrl" \in e.set => e.evidenceToken = "long"

starts(e) == configuration(e) /\ tokensUsable(e)

production == "production" \in config.set
hasEvidence == "evidenceUrl" \in config.set

\* cacheInvalidationAuthorized.
invalidationAuthorized(bearer) == config.invalidationToken = "long" /\ bearer = "right"

-----------------------------------------------------------------------------
Init ==
  /\ config \in {e \in Environments : starts(e)}
  /\ route \in Routes
  /\ status = [x \in Records |-> "active"]
  /\ publications = [k \in Keys |-> <<FirstPublished[k]>>]
  /\ revocations = {} /\ changes = 0
  /\ replay \in SUBSET {c \in Callers : route[c].path = "/authorize/"}
  /\ usage = 0 /\ stream = {} /\ evidence = {}
  /\ at = [c \in Callers |-> [pc |-> "received", record |-> "active", vouched |-> FALSE, asked |-> "none", loaded |-> 0,
                              answer |-> 0, version |-> "none", response |-> 0, condemned |-> {}, since |-> 0]]
  /\ LinkInit

\* A decision goes into a Receipt before it is answered.
GoTo(c, pc) == at' = [at EXCEPT ![c].pc = pc]
Respond(c, code) == at' = [at EXCEPT ![c].pc = "done", ![c].response = code]
Decide(c, code) == at' = [at EXCEPT ![c].pc = "sign", ![c].answer = code]
Unavailable(c) == Respond(c, 503)

\* An await on Valkey: the command is issued on the way in.
AskValkey(c, pc) ==
  at' = [at EXCEPT ![c].pc = pc, ![c].asked = pc] /\ command(c)

\* What is revoked for good now.
revokedNow == {x \in Records : status[x] = "revoked"} \cup revocations

\* The record of a key that a lookup returns now.
published(key) == publications[key][Len(publications[key])]

-----------------------------------------------------------------------------
(* Routes. *)

Untouched == UNCHANGED <<registry, valkey, evidence>>

\* /healthz, an unknown path, and /invalidate-cache, which LookupCache models
\* further: a body that is no list of records is a 400.
AnswerSimple(c) ==
  LET r == route[c] IN
  /\ at[c].pc = "received"
  /\ \/ r.path = "/healthz" /\ Respond(c, 200)
     \/ r.path = "other" /\ Respond(c, 404)
     \/ /\ r.path = "/invalidate-cache"
        /\ \/ r.method # "POST" /\ Respond(c, 405)
           \/ r.method = "POST" /\ ~invalidationAuthorized(r.bearer) /\ Respond(c, 401)
           \/ r.method = "POST" /\ invalidationAuthorized(r.bearer) /\ (Respond(c, 200) \/ Respond(c, 400))
  /\ UNCHANGED link /\ Untouched

\* /readyz: PING, the pinned Transit key version, any resolver, and evidence.
Probe(c) ==
  /\ route[c].path = "/readyz"
  /\ \/ at[c].pc = "received" /\ AskValkey(c, "ping")
     \/ at[c].pc = "ping" /\ resolved(c) /\ GoTo(c, "transit") /\ UNCHANGED link
     \/ at[c].pc = "ping" /\ rejected(c) /\ Unavailable(c) /\ UNCHANGED link
     \/ at[c].pc = "transit" /\ (GoTo(c, "resolvers") \/ Unavailable(c)) /\ UNCHANGED link
     \/ /\ at[c].pc = "resolvers" /\ UNCHANGED link
        /\ IF hasEvidence THEN GoTo(c, "evidence") \/ Unavailable(c) ELSE Respond(c, 200) \/ Unavailable(c)
     \/ at[c].pc = "evidence" /\ (Respond(c, 200) \/ Unavailable(c)) /\ UNCHANGED link
  /\ Untouched

\* /authorize/: boundedBody, then extraction and schemas in the middleware.
Authorize(c) ==
  /\ at[c].pc = "received" /\ route[c].path = "/authorize/"
  /\ \/ at' = [at EXCEPT ![c].pc = "mandate", ![c].condemned = revokedNow,
                          ![c].since = Len(publications[route[c].key])]
     \/ Respond(c, 413) \/ Unavailable(c) \/ Respond(c, 400)
  /\ UNCHANGED link /\ Untouched

-----------------------------------------------------------------------------
(* gatewayVerificationPolicy and the verifications it is for. *)

\* What verifyDocument reports about document d itself: its public record as
\* the policy saw it, through lifecycleResolver, or a Revocation record.
\* Faulty variant: the status of the public record is not looked at.
upstreamOnly(recordStatus, d) == d \notin revocations

inGoodStanding(recordStatus, d) == recordStatus = "active" /\ d \notin revocations

\* boundPublicDocument: the lookup fails, the projection is not verified or
\* is not the presented document, or its status goes on with the request.
ReadRecord(c, document, next) ==
  /\ \/ at' = [at EXCEPT ![c].pc = next, ![c].record = status[document]]
     \/ Unavailable(c)
  /\ UNCHANGED link /\ Untouched

\* verifyDocument of a Mandate.  It may fail for reasons of its own.
VerifyMandate(c, document, next) ==
  /\ \/ inGoodStanding(at[c].record, document) /\ GoTo(c, next)
     \/ Decide(c, 401)
  /\ UNCHANGED link /\ Untouched

ReadMandate(c) == at[c].pc = "mandate" /\ ReadRecord(c, "mandate", "verify mandate")
CheckMandate(c) ==
  at[c].pc = "verify mandate"
    /\ VerifyMandate(c, "mandate", IF route[c].delegated THEN "parent" ELSE "passport")
ReadParent(c) == at[c].pc = "parent" /\ ReadRecord(c, "parent_mandate", "verify parent")
CheckParent(c) == at[c].pc = "verify parent" /\ VerifyMandate(c, "parent_mandate", "passport")
ReadPassport(c) == at[c].pc = "passport" /\ ReadRecord(c, "passport", "verify passport")

\* verifyDocument of the Passport: a failure is not an answer yet.  A method
\* the Passport does not list needs no key lookup.  The Passport is read once,
\* so what it lists is a constant of the request.
CheckPassport(c) ==
  LET method == Listed[route[c].key] IN
  /\ at[c].pc = "verify passport"
  /\ \E verified \in BOOLEAN :
       /\ verified => inGoodStanding(at[c].record, "passport")
       /\ IF method = None
          THEN at' = [at EXCEPT ![c].pc = "envelope", ![c].vouched = FALSE]
          ELSE at' = [at EXCEPT ![c].pc = "runtime key", ![c].vouched = verified /\ method.controller = Agent]
  /\ UNCHANGED link /\ Untouched

\* Faulty variant: any active key will do.
anyActiveKey(key) == status[key] = "active"

\* A key record says what the Passport says.
repeats(record, key) ==
  record.issuer = Issuer /\ record.controller = Agent /\ record.jwk = Listed[key].jwk

\* A key record that an Envelope of the agent verifies with.
verifies(record, signedWith) ==
  Agent \in {record.controller, record.issuer} /\ record.issuer \in Anchored /\ record.jwk = signedWith

\* The key the Passport lists is the one the registry knows now.
runtimeMatches(key) == status[key] = "active" /\ repeats(published(key), key)

\* The lookup may fail, or return a record whose proof is not verified.
ReadRuntimeKey(c) ==
  /\ at[c].pc = "runtime key"
  /\ \/ \E proofVerified \in BOOLEAN :
          at' = [at EXCEPT ![c].pc = "envelope", ![c].vouched = @ /\ proofVerified /\ runtimeMatches(route[c].key)]
     \/ Unavailable(c)
  /\ UNCHANGED link /\ Untouched

\* checkKey, validateTrustChain, checkSignerBinding and the signature, with the
\* record of the key that is published by now.
verifiesNow(key, signedWith) ==
  /\ status[key] \in {"active", "retired"} /\ key \notin revocations
  /\ verifies(published(key), signedWith)

\* verifyDocument of the Envelope, with unavailableRuntimeResolver if the key
\* is not vouched for: the key is looked up again, and the signature has to
\* verify under that record; then the replay cache is asked.
VerifyEnvelope(c) ==
  /\ at[c].pc = "envelope"
  /\ \/ /\ at[c].vouched /\ verifiesNow(route[c].key, route[c].signedWith)
        /\ AskValkey(c, "nonce")
     \/ Decide(c, 401) /\ UNCHANGED link
  /\ Untouched

\* checkAndStore has an answer, or throws; then the body's digest.
CheckNonce(c) ==
  /\ at[c].pc = "nonce"
  /\ \/ resolved(c) /\ link[c].result = "+OK" /\ (AskValkey(c, "usage") \/ (Decide(c, 401) /\ UNCHANGED link))
     \/ resolved(c) /\ link[c].result # "+OK" /\ Decide(c, 401) /\ UNCHANGED link
     \/ rejected(c) /\ Unavailable(c) /\ UNCHANGED link
  /\ Untouched

\* The stored usage is evaluated: denied, a throw, or the compare-and-set.
Evaluate(c) ==
  /\ at[c].pc = "usage"
  /\ \/ /\ resolved(c)
        /\ AskValkey(c, "commit") \/ ((Decide(c, 403) \/ Unavailable(c)) /\ UNCHANGED link)
     \/ rejected(c) /\ Unavailable(c) /\ UNCHANGED link
  /\ Untouched

CheckCommit(c) ==
  /\ at[c].pc = "commit"
  /\ \/ resolved(c) /\ link[c].result = "1" /\ Decide(c, 200)
     \/ resolved(c) /\ link[c].result # "1" /\ Decide(c, 409)
     \/ rejected(c) /\ Unavailable(c)
  /\ UNCHANGED link /\ Untouched

-----------------------------------------------------------------------------
(* The Receipt: TransitSigner, the stream, the evidence service. *)

receiptOf(c) == [caller |-> c, answer |-> at[c].answer, version |-> at[c].version]

pinned(version) == version = "pinned"

\* signAndVerify: Transit signs, with the version it likes, and verifies; an
\* error, another version or a signature that is not 64 bytes throws.
Sign(c) ==
  /\ at[c].pc = "sign"
  /\ \/ \E version \in {"pinned", "latest"} :
          /\ pinned(version)
          /\ at' = [at EXCEPT ![c].pc = "stream", ![c].asked = "stream", ![c].version = version]
          /\ command(c)
     \/ Unavailable(c) /\ UNCHANGED link
  /\ Untouched

\* emitReceipt: XADD has answered; writeDecision follows unless the receipt
\* also goes to the evidence service.
Emitted(c) ==
  /\ at[c].pc = "stream"
  /\ \/ resolved(c) /\ hasEvidence /\ GoTo(c, "persist")
     \/ resolved(c) /\ ~hasEvidence /\ Respond(c, at[c].answer)
     \/ rejected(c) /\ Unavailable(c)
  /\ UNCHANGED link /\ Untouched

\* persistEvidence: committed or not, and anything but a 201 throws.
Persist(c) ==
  /\ at[c].pc = "persist"
  /\ \/ evidence' = evidence \cup {receiptOf(c)} /\ (Respond(c, at[c].answer) \/ Unavailable(c))
     \/ Unavailable(c) /\ UNCHANGED evidence
  /\ UNCHANGED <<registry, valkey, link>>

-----------------------------------------------------------------------------
(* The rest of the world. *)

\* What the caller's command does in Valkey: SET NX, GET, the Lua script of
\* compareAndSet, XADD, or PING.  `asked` is the command of the link, which
\* the server may run after the request was answered.
Serve(c) ==
  LET asked == at[c].asked IN
  /\ \/ /\ asked = "ping" /\ Run(c, "+PONG") /\ UNCHANGED <<valkey, at>>
     \/ /\ asked = "nonce" /\ c \in replay /\ Run(c, "null") /\ UNCHANGED <<valkey, at>>
     \/ /\ asked = "nonce" /\ c \notin replay /\ Run(c, "+OK")
        /\ replay' = replay \cup {c} /\ UNCHANGED <<usage, stream, at>>
     \/ /\ asked = "usage" /\ Run(c, "usage")
        /\ at' = [at EXCEPT ![c].loaded = usage] /\ UNCHANGED valkey
     \/ /\ asked = "commit" /\ usage # at[c].loaded /\ Run(c, "0") /\ UNCHANGED <<valkey, at>>
     \/ /\ asked = "commit" /\ usage = at[c].loaded /\ Run(c, "1")
        /\ usage' = usage + 1 /\ UNCHANGED <<replay, stream, at>>
     \/ /\ asked = "stream" /\ Run(c, "id")
        /\ stream' = stream \cup {receiptOf(c)} /\ UNCHANGED <<replay, usage, at>>
  /\ UNCHANGED <<registry, evidence>>

Change == changes < MaxChanges /\ changes' = changes + 1

\* The control plane: a suspension may be lifted, a revocation is for good, and
\* a key may get another record under its id.
SetStatus(x, new) ==
  /\ Change /\ status[x] \notin {new, "revoked"}
  /\ status' = [status EXCEPT ![x] = new]
  /\ UNCHANGED <<config, route, publications, revocations, valkey, evidence, at, link>>

Republish(key, record) ==
  /\ Change /\ record # published(key)
  /\ publications' = [publications EXCEPT ![key] = Append(@, record)]
  /\ UNCHANGED <<config, route, status, revocations, valkey, evidence, at, link>>

PublishRevocation(x) ==
  /\ Change
  /\ revocations' = revocations \cup {x}
  /\ UNCHANGED <<config, route, status, publications, valkey, evidence, at, link>>

\* Another replica uses the same Mandate.
UseElsewhere ==
  /\ Change /\ usage' = usage + 1
  /\ UNCHANGED <<config, route, status, publications, revocations, replay, stream, evidence, at, link>>

Step(c) ==
  \/ AnswerSimple(c) \/ Probe(c) \/ Authorize(c)
  \/ ReadMandate(c) \/ CheckMandate(c) \/ ReadParent(c) \/ CheckParent(c)
  \/ ReadPassport(c) \/ CheckPassport(c) \/ ReadRuntimeKey(c) \/ VerifyEnvelope(c)
  \/ CheckNonce(c) \/ Evaluate(c) \/ CheckCommit(c)
  \/ Sign(c) \/ Emitted(c) \/ Persist(c)

Connection(c) == LinkNext(c) /\ UNCHANGED <<registry, valkey, evidence, at>>

World ==
  \/ \E x \in Records : PublishRevocation(x) \/ \E new \in {"active", "suspended", "retired", "revoked"} : SetStatus(x, new)
  \/ \E key \in Keys, record \in KeyRecords : Republish(key, record)
  \/ UseElsewhere

Next == (\E c \in Callers : Step(c) \/ Serve(c) \/ Connection(c)) \/ World

Spec == Init /\ [][Next]_vars

\* Handlers run when they can: lookups, Transit and evidence calls have
\* timeouts of their own.  Received data are handled, an idle socket times
\* out.  Nothing is assumed of Valkey, the network or the control plane.
FairSpec ==
  /\ Spec
  /\ \A c \in Callers : /\ WF_vars(Step(c))
                        /\ WF_vars(Receive(c) /\ UNCHANGED <<registry, valkey, evidence, at>>)
                        /\ WF_vars(SocketTimeout(c) /\ UNCHANGED <<registry, valkey, evidence, at>>)

-----------------------------------------------------------------------------
submits(c) == route[c].path = "/authorize/"
reliedOn(c) == {"mandate", "passport", route[c].key} \cup (IF route[c].delegated THEN {"parent_mandate"} ELSE {})

\* A request that arrives after its Mandate, parent Mandate, Passport or
\* runtime key was revoked is never let through, although each of the four is
\* read at a different time and the status read by the policy is used later
\* by the resolver (lifecycleResolver, runtimeMatches, resolveRevocation).
RevokedStaysOut ==
  \A c \in Callers : submits(c) /\ at[c].response = 200 => at[c].condemned \cap reliedOn(c) = {}

\* An Envelope is let through only if the Passport lists its key for the agent
\* and, among the records of the key that were current since the request arrived,
\* one says what the Passport says, and the same or a later one, of an anchored
\* issuer and bound to the agent, has the JWK that the Envelope is signed with.  A
\* key that was not published anew in that time is thus the Passport's own; one
\* that was, between the two lookups, need not be.
RuntimeKeyVouched ==
  \A c \in Callers : submits(c) /\ at[c].response = 200 =>
    LET key == route[c].key
        underway == {i \in DOMAIN publications[key] : at[c].since <= i}
    IN  /\ Listed[key] # None /\ Listed[key].controller = Agent
        /\ \E first, second \in underway :
             /\ first <= second
             /\ repeats(publications[key][first], key)
             /\ verifies(publications[key][second], route[c].signedWith)

\* In production no decision, allow or deny, leaves the gateway before its
\* Receipt, signed with the pinned key version, is in the stream and at the
\* evidence service, whatever was lost on the way.
DecisionsRecorded ==
  \A c \in Callers : production /\ submits(c) /\ at[c].response \in {200, 401, 403, 409} =>
    LET receipt == [caller |-> c, answer |-> at[c].response, version |-> "pinned"]
    IN  receipt \in stream \cap evidence

\* Every request is answered, however Valkey, Transit, the registry and the
\* evidence service fail, unless Valkey closed a connection before it replied.
Answered ==
  \A c \in Callers : <>(at[c].pc = "done" \/ link[c].hungUp)

\* Commands are calls: each promise is settled at most once, and resolved
\* only with the answer to the caller's own command.
Call == INSTANCE RemoteCall WITH
  promise <- [c \in Callers |-> link[c].promise],
  answer  <- [c \in Callers |-> link[c].answer],
  result  <- [c \in Callers |-> link[c].result]

CommandsAreCalls == Call!Spec
=============================================================================
