----------------------------- MODULE Middleware -----------------------------
(***************************************************************************)
(* createOatiMiddleware (sdk/typescript/src/middleware.ts) over the        *)
(* dependencies the Envoy authorizer gives it                              *)
(* (services/envoy-authorizer/server.mjs): a Valkey replay cache and usage *)
(* store shared by every replica, a Receipt signer, a Receipt stream and   *)
(* the evidence service.                                                   *)
(*                                                                         *)
(* Each request runs the handler from one await to the next; requests      *)
(* interleave at the awaits.  Any dependency call may fail, and a command  *)
(* that writes may take effect although its reply is lost.  A process may  *)
(* die at any await.  Trust verification of the three documents is one     *)
(* nondeterministic result here; its time rules and the replay cache are   *)
(* modelled.                                                               *)
(*                                                                         *)
(* Two deployments: an application wrapped by the middleware (`next` is    *)
(* the protected operation) and the Envoy gateway, where `next` is empty   *)
(* and Envoy forwards to the upstream after a 200.                         *)
(***************************************************************************)
EXTENDS Ledger

CONSTANTS
  ExternalUpstream,   \* TRUE: the Envoy gateway; FALSE: a wrapped handler
  Storeless,          \* requests to an endpoint without options.usageStore
  ClockSkew,          \* policy.clockSkewMs
  MaxProofAge         \* policy.maxProofAgeMs

ASSUME DeploymentKnown ==
  /\ ExternalUpstream \in BOOLEAN /\ Storeless \subseteq Requests
  /\ ExternalUpstream => Storeless = {}
ASSUME WindowsNat == ClockSkew \in Nat /\ MaxProofAge \in Nat

\* `usage` (the Valkey usage keys: the stored snapshot, None if unset) and the
\* history `charged` are the variables of the ledger this module implements.
VARIABLES
  now,          \* the clock
  pc,           \* where each request's handler is
  response,     \* status returned for a finished request, else 0
  reply,        \* the decision a Receipt is being issued for
  verifiedAt,   \* when envelope verification read the clock
  previous,     \* usage snapshot the request loaded
  evaluatedAt,  \* evaluation_time of the request
  replay,       \* Valkey replay keys: the time each one is dropped, 0 if unset
  stream,       \* Receipts in the Valkey stream
  evidence,     \* Receipts the evidence service committed
  accepted,     \* when each request's nonce was consumed (-1: never), history
  invoked,      \* requests whose protected operation was invoked
  abandoned     \* requests Envoy stopped waiting for

store  == <<replay, usage, charged, accepted>>
local  == <<verifiedAt, previous, evaluatedAt>>
vars == <<now, pc, response, reply, local, store, stream, evidence, invoked, abandoned>>

ReplayKeys == {Submitted[r].proof.key : r \in Requests}

Steps == {"extract", "mandate", "parent", "envelope", "nonce", "digest", "load",
          "evaluate", "commit", "handler", "sign", "stream", "evidence", "done", "dead"}

Replies == [status : {200, 401, 403, 409, 500, 503}, decision : {"allow", "deny"},
            outcome : {"succeeded", "pending", "denied", "failed"}]

\* Faulty variant: an outcome outside the Receipt schema.
DenialRefused(status) == [status |-> status, decision |-> "deny", outcome |-> "refused"]

Denial(status) == [status |-> status, decision |-> "deny", outcome |-> "denied"]

receiptOf(r) == [request |-> r, decision |-> reply[r].decision, outcome |-> reply[r].outcome]

Running(r) == pc[r] \notin {"done", "dead"}

Init ==
  /\ now = 0
  /\ pc = [r \in Requests |-> "extract"]
  /\ response = [r \in Requests |-> 0]
  /\ reply = [r \in Requests |-> Denial(401)]
  /\ verifiedAt = [r \in Requests |-> 0]
  /\ previous = [r \in Requests |-> None]
  /\ evaluatedAt = [r \in Requests |-> 0]
  /\ replay = [k \in ReplayKeys |-> 0]
  /\ usage = [m \in MandateIds |-> None]
  /\ stream = {} /\ evidence = {}
  /\ accepted = [r \in Requests |-> -1]
  /\ charged = {} /\ invoked = {} /\ abandoned = {}

-----------------------------------------------------------------------------
(* Moves of one request: to the next await, to a Receipt, to the end. *)

GoTo(r, step) ==
  /\ pc' = [pc EXCEPT ![r] = step]
  /\ UNCHANGED <<response, reply>>

\* receiptResponse: sign, emit and only then answer.
IssueReceipt(r, answer) ==
  /\ pc' = [pc EXCEPT ![r] = "sign"]
  /\ reply' = [reply EXCEPT ![r] = answer]
  /\ UNCHANGED response

Answer(r, status) ==
  /\ pc' = [pc EXCEPT ![r] = "done"]
  /\ response' = [response EXCEPT ![r] = status]
  /\ UNCHANGED reply

\* problem(...): an exception becomes a 503 with no Receipt (or a 401, were a
\* dependency to throw an OatiError MIDDLEWARE_REPLAY of its own).
Unavailable(r) == Answer(r, 503)

\* Headers that decode to documents of the schema, with matching identifiers.
extracts(r) == Submitted[r].wellFormed

\* httpRequestDigest of the request is the Envelope's request_digest.
digestMatches(r) == Submitted[r].digestOk

(***************************************************************************)
(* The gateway bounds the body (413); extraction and schema validation     *)
(* (400); the correlation ID generator may fail (503).                     *)
(***************************************************************************)
Extract(r) ==
  /\ pc[r] = "extract"
  /\ \/ extracts(r) /\ GoTo(r, "mandate")
     \/ ~extracts(r) /\ Answer(r, 400)
     \/ ~extracts(r) /\ ExternalUpstream /\ Answer(r, 413)
     \/ Unavailable(r)
  /\ UNCHANGED <<now, local, store, stream, evidence, invoked, abandoned>>

(***************************************************************************)
(* verifyDocument on the Mandate and on its parent.  reusableDocumentPolicy*)
(* replaces the replay cache by one that accepts everything.               *)
(***************************************************************************)
VerifyReusable(r, step, next) ==
  /\ pc[r] = step
  /\ \/ GoTo(r, next)
     \/ IssueReceipt(r, Denial(401))
     \/ Unavailable(r)
  /\ UNCHANGED <<now, local, store, stream, evidence, invoked, abandoned>>

VerifyMandate(r) ==
  VerifyReusable(r, "mandate",
                 IF Submitted[r].parent_mandate # None THEN "parent" ELSE "envelope")

VerifyParent(r) == VerifyReusable(r, "parent", "envelope")

(***************************************************************************)
(* verifyDocument on the Envelope: it reads the clock, applies             *)
(* checkProofTime, resolves keys, issuers and revocations, and only a      *)
(* proof with no issue reaches the replay cache.                           *)
(***************************************************************************)
timely(proof, t) ==
  /\ proof.created <= t + ClockSkew
  /\ proof.expires > t - ClockSkew
  /\ t - proof.created <= MaxProofAge + ClockSkew

VerifyEnvelope(r) ==
  /\ pc[r] = "envelope"
  /\ verifiedAt' = [verifiedAt EXCEPT ![r] = now]
  /\ \/ timely(Submitted[r].proof, now) /\ GoTo(r, "nonce")
     \/ IssueReceipt(r, Denial(401))
     \/ Unavailable(r)
  /\ UNCHANGED <<now, previous, evaluatedAt, store, stream, evidence, invoked, abandoned>>

(***************************************************************************)
(* ValkeyReplayCache.checkAndStore: SET key 1 PX ttl NX.                   *)
(***************************************************************************)
nonceHeld(key) == replay[key] > now

\* Faulty variant: the nonce is remembered for one unit, not for the proof's life.
replayTtlMinimal(proof, t) == 1

replayTtl(proof, t) == Max({1, proof.expires - t})

ConsumeNonce(r) ==
  LET proof == Submitted[r].proof IN
  /\ pc[r] = "nonce"
  /\ \/ /\ ~nonceHeld(proof.key)
        /\ replay' = [replay EXCEPT ![proof.key] = now + replayTtl(proof, verifiedAt[r])]
        /\ \/ GoTo(r, "digest") /\ accepted' = [accepted EXCEPT ![r] = now]
           \/ Unavailable(r) /\ UNCHANGED accepted            \* reply lost
     \/ /\ nonceHeld(proof.key)
        /\ IssueReceipt(r, Denial(401))
        /\ UNCHANGED <<replay, accepted>>
     \/ Unavailable(r) /\ UNCHANGED <<replay, accepted>>      \* command failed
  /\ UNCHANGED <<now, local, usage, charged, stream, evidence, invoked, abandoned>>

(***************************************************************************)
(* Request binding, usage load and evaluation.  load and evaluate are      *)
(* separate: the clock is read after the store has answered.               *)
(***************************************************************************)
CheckDigest(r) ==
  /\ pc[r] = "digest"
  /\ \/ digestMatches(r) /\ GoTo(r, "load")
     \/ ~digestMatches(r) /\ IssueReceipt(r, Denial(401))
     \/ Unavailable(r)                           \* the body cannot be read or is too large
  /\ UNCHANGED <<now, local, store, stream, evidence, invoked, abandoned>>

hasUsageStore(r) == r \notin Storeless

\* Faulty variant: only limits, not profiles, ask for persistent usage.
limitsRequireUsage(mandate) == mandate.status = "consumed" \/ mandate.limits # None

requiresPersistentUsage(mandate) ==
  mandate.status = "consumed" \/ mandate.limits # None \/ mandate.profile # None

\* Faulty variant: the comparison value is rebuilt from the normalised snapshot.
LoadNormalized(r) ==
  /\ pc[r] = "load"
  /\ previous' = [previous EXCEPT ![r] = normalizedUsage(usage[accountOf(r)])]
  /\ GoTo(r, "evaluate")
  /\ UNCHANGED <<now, verifiedAt, evaluatedAt, store, stream, evidence, invoked, abandoned>>

LoadUsage(r) ==
  /\ pc[r] = "load"
  /\ \/ /\ hasUsageStore(r)
        /\ previous' = [previous EXCEPT ![r] = usage[accountOf(r)]]
        /\ GoTo(r, "evaluate")
     \/ Unavailable(r) /\ UNCHANGED previous   \* evaluationExtensions or load throws
     \/ /\ ~hasUsageStore(r)                    \* previousUsage is {}
        /\ IF requiresPersistentUsage(mandateOf(r))
           THEN IssueReceipt(r, Denial(503)) ELSE GoTo(r, "evaluate")
        /\ UNCHANGED previous
  /\ UNCHANGED <<now, verifiedAt, evaluatedAt, store, stream, evidence, invoked, abandoned>>

Evaluate(r) ==
  LET q == evaluationRequest(r, now, previous[r]) IN
  /\ pc[r] = "evaluate"
  /\ evaluatedAt' = [evaluatedAt EXCEPT ![r] = now]
  /\ \/ evaluationThrows(q) /\ Unavailable(r)
     \/ ~evaluationThrows(q) /\ ~allows(q) /\ IssueReceipt(r, Denial(403))
     \/ allows(q) /\ GoTo(r, IF hasUsageStore(r) THEN "commit" ELSE "handler")
  /\ UNCHANGED <<now, verifiedAt, previous, store, stream, evidence, invoked, abandoned>>

(***************************************************************************)
(* ValkeyUsageStore.compareAndSet: one Lua script compares the stored      *)
(* string with the one loaded and replaces it.                             *)
(***************************************************************************)
\* Faulty variant: a plain SET in place of the compare-and-set script.
blindWrite(r) == TRUE

unchangedSinceLoad(r) == usage[accountOf(r)] = previous[r]

\* Faulty variant: a lost reply is reported as a usage conflict.
LostReplyAsConflict(r) ==
  /\ pc[r] = "commit"
  /\ \/ /\ unchangedSinceLoad(r)
        /\ usage' = [usage EXCEPT ![accountOf(r)] =
                        nextUsage(evaluationRequest(r, evaluatedAt[r], previous[r]))]
        /\ charged' = charged \cup {r}
        /\ GoTo(r, "handler") \/ IssueReceipt(r, Denial(409))
     \/ IssueReceipt(r, Denial(409)) /\ UNCHANGED <<usage, charged>>
  /\ UNCHANGED <<now, local, replay, accepted, stream, evidence, invoked, abandoned>>

CompareAndSet(r) ==
  /\ pc[r] = "commit"
  /\ \/ /\ unchangedSinceLoad(r)
        /\ usage' = [usage EXCEPT ![accountOf(r)] =
                        nextUsage(evaluationRequest(r, evaluatedAt[r], previous[r]))]
        /\ charged' = charged \cup {r}
        /\ GoTo(r, "handler") \/ Unavailable(r)               \* or reply lost
     \/ /\ ~unchangedSinceLoad(r)
        /\ IssueReceipt(r, Denial(409))
        /\ UNCHANGED <<usage, charged>>
     \/ Unavailable(r) /\ UNCHANGED <<usage, charged>>        \* command failed
  /\ UNCHANGED <<now, local, replay, accepted, stream, evidence, invoked, abandoned>>

(***************************************************************************)
(* next(request, context).  The gateway's handler only builds a 200; a     *)
(* wrapped application runs the operation, which may succeed, refuse with  *)
(* a 403, or fail (an error status or an exception).                       *)
(***************************************************************************)
Allowed(status, outcome) == [status |-> status, decision |-> "allow", outcome |-> outcome]

InvokeHandler(r) ==
  /\ pc[r] = "handler"
  /\ IF ExternalUpstream
     THEN IssueReceipt(r, Allowed(200, "pending")) /\ UNCHANGED invoked
     ELSE /\ invoked' = invoked \cup {r}
          /\ \/ IssueReceipt(r, Allowed(200, "succeeded"))
             \/ IssueReceipt(r, Allowed(403, "denied"))
             \/ IssueReceipt(r, Allowed(500, "failed"))
  /\ UNCHANGED <<now, local, store, stream, evidence, abandoned>>

(***************************************************************************)
(* issueReceipt: sign (Transit), XADD to the stream, POST to the evidence  *)
(* service, and only then the response.                                    *)
(***************************************************************************)
SignReceipt(r) ==
  /\ pc[r] = "sign"
  /\ GoTo(r, "stream") \/ Unavailable(r)
  /\ UNCHANGED <<now, local, store, stream, evidence, invoked, abandoned>>

EmitToStream(r) ==
  /\ pc[r] = "stream"
  /\ \/ /\ stream' = stream \cup {receiptOf(r)}
        /\ GoTo(r, "evidence") \/ Unavailable(r)              \* or reply lost
     \/ Unavailable(r) /\ UNCHANGED stream
  /\ UNCHANGED <<now, local, store, evidence, invoked, abandoned>>

\* Faulty variant: the evidence service is best effort.
EvidenceBestEffort(r) ==
  /\ pc[r] = "evidence"
  /\ evidence' \in {evidence, evidence \cup {receiptOf(r)}}
  /\ Answer(r, reply[r].status)
  /\ UNCHANGED <<now, local, store, stream, invoked, abandoned>>

\* With config.evidenceUrl, which production demands (Gateway has both cases).
PersistEvidence(r) ==
  /\ pc[r] = "evidence"
  /\ \/ /\ evidence' = evidence \cup {receiptOf(r)}
        /\ Answer(r, reply[r].status) \/ Unavailable(r)       \* or answer lost
     \/ Unavailable(r) /\ UNCHANGED evidence
  /\ UNCHANGED <<now, local, store, stream, invoked, abandoned>>

(***************************************************************************)
(* Envoy (failure_mode_allow: false): it forwards a request only after a   *)
(* 200 that arrives before its own ext_authz timeout.                      *)
(***************************************************************************)
EnvoyForward(r) ==
  /\ ExternalUpstream
  /\ response[r] = 200
  /\ r \notin abandoned \cup invoked
  /\ invoked' = invoked \cup {r}
  /\ UNCHANGED <<now, pc, response, reply, local, store, stream, evidence, abandoned>>

EnvoyTimeout(r) ==
  /\ ExternalUpstream
  /\ Running(r)
  /\ r \notin abandoned
  /\ abandoned' = abandoned \cup {r}
  /\ UNCHANGED <<now, pc, response, reply, local, store, stream, evidence, invoked>>

\* The authorizer process dies: the handlers it was running never continue.
Crash(r) ==
  /\ Running(r)
  /\ pc' = [pc EXCEPT ![r] = "dead"]
  /\ UNCHANGED <<now, response, reply, local, store, stream, evidence, invoked, abandoned>>

Tick ==
  /\ now < MaxTime
  /\ now' = now + 1
  /\ UNCHANGED <<pc, response, reply, local, store, stream, evidence, invoked, abandoned>>

Step(r) ==
  \/ Extract(r) \/ VerifyMandate(r) \/ VerifyParent(r) \/ VerifyEnvelope(r)
  \/ ConsumeNonce(r) \/ CheckDigest(r) \/ LoadUsage(r) \/ Evaluate(r)
  \/ CompareAndSet(r) \/ InvokeHandler(r)
  \/ SignReceipt(r) \/ EmitToStream(r) \/ PersistEvidence(r)

Next ==
  \/ \E r \in Requests : Step(r) \/ EnvoyForward(r) \/ EnvoyTimeout(r) \/ Crash(r)
  \/ Tick

Spec == Init /\ [][Next]_vars

-----------------------------------------------------------------------------
(* Type correctness. *)
Receipts == [request : Requests, decision : {"allow", "deny"},
             outcome : {"succeeded", "pending", "denied", "failed"}]

TypeOK ==
  /\ now \in Time
  /\ pc \in [Requests -> Steps]
  /\ response \in [Requests -> {0, 200, 400, 401, 403, 409, 413, 500, 503}]
  /\ reply \in [Requests -> Replies]
  /\ verifiedAt \in [Requests -> Time]
  /\ previous \in [Requests -> UsageSnapshot \cup {None}]
  /\ evaluatedAt \in [Requests -> Time]
  /\ replay \in [ReplayKeys -> Nat]
  /\ usage \in [MandateIds -> UsageSnapshot \cup {None}]
  /\ stream \subseteq Receipts /\ evidence \subseteq Receipts
  /\ accepted \in [Requests -> Time \cup {-1}]
  /\ charged \subseteq Requests /\ invoked \subseteq Requests /\ abandoned \subseteq Requests

(***************************************************************************)
(* The usage protocol implements the ledger: every commit is a grant       *)
(* evaluated against exactly what was committed before it.  The two        *)
(* modules share `usage` and `charged`, so the refinement mapping is the   *)
(* identity.                                                               *)
(***************************************************************************)
\* Load, evaluate and compare-and-set by concurrent requests (with failed
\* commands, lost replies and crashes) behave as one atomic evaluation per
\* committed request.
ImplementsLedger == LSpec

\* However requests interleave, crash or lose replies, the operations
\* invoked under a Mandate respect its call limit, its budgets, its
\* idempotency keys and one-time use.
InvokedWithinAuthority ==
  /\ WithinCallLimit(invoked)
  /\ WithinBudget(invoked)
  /\ OncePerKey(invoked)
  /\ OncePerOneTimeMandate(invoked)

\* A Receipt that says "deny" is never contradicted: its request was not
\* charged and its operation was not and will not be invoked.
DenialIsFinal ==
  \A x \in stream \cup evidence :
     x.decision = "deny" => x.request \notin charged \cup invoked

\* Before Envoy forwards a request, its allow Receipt is committed to the
\* stream and to the evidence service, and never claims more than "pending".
EvidenceBeforeForward ==
  ExternalUpstream =>
    \A r \in invoked :
       [request |-> r, decision |-> "allow", outcome |-> "pending"] \in stream \cap evidence

\* A request is refused with a usage conflict only because another request
\* under the same Mandate was charged.
ConflictHasWinner ==
  \A r \in Requests :
     reply[r].status = 409 => \E s \in charged \ {r} : accountOf(s) = accountOf(r)

\* Until a proof has expired no other request is accepted with its nonce.
NonceOnceBeforeExpiry ==
  \A r, s \in Requests :
     /\ r # s
     /\ Submitted[r].proof.key = Submitted[s].proof.key
     /\ accepted[r] # -1 /\ accepted[s] # -1
     => \/ accepted[s] >= Submitted[r].proof.expires
        \/ accepted[r] >= Submitted[s].proof.expires

\* Later usage counts all that earlier usage counted.
usageGrows(before, after) ==
  LET u == normalizedUsage(before)
      v == normalizedUsage(after)
  IN  /\ u.calls <= v.calls
      /\ decimalAtMost(u.amount, v.amount)
      /\ u.idempotency_keys \subseteq v.idempotency_keys
      /\ u.consumed => v.consumed

Accumulate ==
  /\ charged \subseteq charged' /\ invoked \subseteq invoked'
  /\ evidence \subseteq evidence' /\ stream \subseteq stream'
  /\ \A m \in MandateIds : usageGrows(usage[m], usage'[m])

\* Nothing a finished or dead request did is undone: Receipts, charges and
\* invocations only accumulate and usage counters never fall.
OnlyAccumulates == [][Accumulate]_vars

-----------------------------------------------------------------------------
(* Statements of the documentation that the code does not meet. *)

\* specification/CRYPTOGRAPHIC_PROFILE.md: a previously consumed tuple is
\* rejected as replay, for as long as the verifier still accepts the proof.
EnvelopeAcceptedOnce ==
  \A r, s \in Requests :
     /\ r # s
     /\ Submitted[r].proof.key = Submitted[s].proof.key
     => accepted[r] = -1 \/ accepted[s] = -1

\* specification/HTTP_MIDDLEWARE_PROFILE.md: a Receipt is emitted for
\* authenticated success and for handler failure.
InvocationLeavesReceipt ==
  \A r \in invoked : pc[r] = "done" => \E x \in evidence : x.request = r
=============================================================================
