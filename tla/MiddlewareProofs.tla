-------------------------- MODULE MiddlewareProofs --------------------------
(***************************************************************************)
(* Theorems about Middleware for any requests, Mandates, clock bound and   *)
(* deployment: type correctness, the refinement of the ledger, and what    *)
(* Receipts and nonces promise.                                            *)
(***************************************************************************)
EXTENDS Middleware, LedgerProofs, TLAPS

-----------------------------------------------------------------------------
(* Type correctness. *)

\* The response statuses and the answers a Receipt is issued for.
LEMMA AnswerTypes ==
  /\ \A status \in {401, 403, 409, 503} : Denial(status) \in Replies
  /\ Allowed(200, "pending") \in Replies /\ Allowed(200, "succeeded") \in Replies
  /\ Allowed(403, "denied") \in Replies /\ Allowed(500, "failed") \in Replies
BY DEF Denial, Allowed, Replies

\* A Receipt of a typed answer is typed.
LEMMA ReceiptType ==
  ASSUME TypeOK, NEW r \in Requests
  PROVE  receiptOf(r) \in Receipts
BY DEF TypeOK, receiptOf, Receipts, Replies

\* A replay key lives at least as long as the rest of the proof's life.
LEMMA ReplayTtlBounds ==
  ASSUME NEW r \in Requests, NEW t \in Time
  PROVE  LET ttl == replayTtl(Submitted[r].proof, t)
         IN  ttl \in Nat /\ ttl >= 1 /\ ttl >= Submitted[r].proof.expires - t
<1> DEFINE rest == Submitted[r].proof.expires - t
           ttl  == replayTtl(Submitted[r].proof, t)
<1>1. rest \in Int
  BY SubmissionsTyped DEF Time
<1>2. ttl = Max({1, rest})
  BY DEF replayTtl
<1> HIDE DEF rest, ttl
<1>3. ttl \in {1, rest} /\ ttl >= 1 /\ ttl >= rest
  BY <1>1, <1>2, MaxOfTwo
<1>4. ttl \in Nat
  BY <1>1, <1>3
<1> QED BY <1>3, <1>4 DEF rest, ttl

\* The initial state has its types.
LEMMA TypeInit == Init => TypeOK
BY AnswerTypes, MaxTimeNat DEF Init, TypeOK, Time, Steps

\* The moves of a request keep the types of the variables they assign.
LEMMA MoveTypes ==
  ASSUME TypeOK, NEW r \in Requests
  PROVE  /\ \A step \in Steps : GoTo(r, step) =>
              (pc \in [Requests -> Steps])' /\ UNCHANGED <<response, reply>>
         /\ \A answer \in Replies : IssueReceipt(r, answer) =>
              (pc \in [Requests -> Steps])' /\ (reply \in [Requests -> Replies])'
              /\ UNCHANGED response
         /\ \A status \in {200, 400, 401, 403, 409, 413, 500, 503} : Answer(r, status) =>
              /\ (pc \in [Requests -> Steps])'
              /\ (response \in [Requests -> {0, 200, 400, 401, 403, 409, 413, 500, 503}])'
              /\ UNCHANGED reply
BY DEF TypeOK, GoTo, IssueReceipt, Answer, Steps

\* Every step keeps the types.
LEMMA TypeStep == TypeOK /\ [Next]_vars => TypeOK'
<1> SUFFICES ASSUME TypeOK, [Next]_vars PROVE TypeOK'
  OBVIOUS
<1>1. ASSUME NEW r \in Requests, Extract(r) PROVE TypeOK'
  BY <1>1, MoveTypes DEF Extract, TypeOK, Unavailable, Steps, local, store
<1>2. ASSUME NEW r \in Requests, VerifyMandate(r) \/ VerifyParent(r) PROVE TypeOK'
  BY <1>2, MoveTypes, AnswerTypes
  DEF VerifyMandate, VerifyParent, VerifyReusable, TypeOK, Unavailable, Steps, local, store
<1>3. ASSUME NEW r \in Requests, VerifyEnvelope(r) PROVE TypeOK'
  BY <1>3, MoveTypes, AnswerTypes DEF VerifyEnvelope, TypeOK, Unavailable, Steps, store
<1>4. ASSUME NEW r \in Requests, ConsumeNonce(r) PROVE TypeOK'
  <2>1. replay' \in [ReplayKeys -> Nat]
    <3>1. replayTtl(Submitted[r].proof, verifiedAt[r]) \in Nat
      BY ReplayTtlBounds DEF TypeOK
    <3> QED BY <1>4, <3>1 DEF ConsumeNonce, TypeOK, Time
  <2>2. accepted' \in [Requests -> Time \cup {-1}]
    BY <1>4 DEF ConsumeNonce, TypeOK
  <2> QED BY <1>4, <2>1, <2>2, MoveTypes, AnswerTypes DEF ConsumeNonce, TypeOK, Unavailable, Steps, local
<1>5. ASSUME NEW r \in Requests, CheckDigest(r) PROVE TypeOK'
  BY <1>5, MoveTypes, AnswerTypes DEF CheckDigest, TypeOK, Unavailable, Steps, local, store
<1>6. ASSUME NEW r \in Requests, LoadUsage(r) PROVE TypeOK'
  <2>1. usage[accountOf(r)] \in UsageSnapshot \cup {None}
    BY DEF TypeOK, MandateIds
  <2> QED BY <1>6, <2>1, MoveTypes, AnswerTypes DEF LoadUsage, TypeOK, Unavailable, Steps, store
<1>7. ASSUME NEW r \in Requests, Evaluate(r) PROVE TypeOK'
  BY <1>7, MoveTypes, AnswerTypes DEF Evaluate, TypeOK, Unavailable, Steps, store
<1>8. ASSUME NEW r \in Requests, CompareAndSet(r) PROVE TypeOK'
  <2>1. nextUsage(evaluationRequest(r, evaluatedAt[r], previous[r])) \in UsageSnapshot
    BY NextUsageFields DEF TypeOK
  <2>2. usage' \in [MandateIds -> UsageSnapshot \cup {None}] /\ charged' \subseteq Requests
    BY <1>8, <2>1 DEF CompareAndSet, TypeOK, MandateIds
  <2> QED BY <1>8, <2>2, MoveTypes, AnswerTypes DEF CompareAndSet, TypeOK, Unavailable, Steps, local
<1>9. ASSUME NEW r \in Requests, InvokeHandler(r) PROVE TypeOK'
  BY <1>9, MoveTypes, AnswerTypes DEF InvokeHandler, TypeOK, local, store
<1>10. ASSUME NEW r \in Requests, SignReceipt(r) PROVE TypeOK'
  BY <1>10, MoveTypes DEF SignReceipt, TypeOK, Unavailable, Steps, local, store
<1>11. ASSUME NEW r \in Requests, EmitToStream(r) PROVE TypeOK'
  BY <1>11, MoveTypes, ReceiptType DEF EmitToStream, TypeOK, Unavailable, Steps, local, store
<1>12. ASSUME NEW r \in Requests, PersistEvidence(r) PROVE TypeOK'
  <2>1. reply[r].status \in {200, 401, 403, 409, 500, 503}
    BY DEF TypeOK, Replies
  <2> QED BY <1>12, <2>1, MoveTypes, ReceiptType DEF PersistEvidence, TypeOK, Unavailable, Steps, local, store
<1>13. ASSUME NEW r \in Requests, EnvoyForward(r) \/ EnvoyTimeout(r) \/ Crash(r) PROVE TypeOK'
  BY <1>13 DEF EnvoyForward, EnvoyTimeout, Crash, TypeOK, Steps, local, store
<1>14. CASE Tick
  BY <1>14, MaxTimeNat DEF Tick, TypeOK, Time, local, store
<1>15. CASE UNCHANGED vars
  BY <1>15 DEF vars, local, store, TypeOK
<1> QED
  BY <1>1, <1>2, <1>3, <1>4, <1>5, <1>6, <1>7, <1>8, <1>9, <1>10, <1>11, <1>12, <1>13,
     <1>14, <1>15 DEF Next, Step

\* Every variable of the middleware keeps its type, whatever requests arrive.
THEOREM TypeCorrect == Spec => []TypeOK
BY TypeInit, TypeStep, PTL DEF Spec

-----------------------------------------------------------------------------
(* The inductive invariant. *)

\* Steps before the usage commit, steps of Receipt issuance, and those after.
Early   == {"extract", "mandate", "parent", "envelope", "nonce", "digest", "load",
            "evaluate", "commit"}
Issuing == {"sign", "stream", "evidence"}
Late    == Issuing \cup {"done", "dead"}

OtherCharged(r) == \E s \in charged \ {r} : accountOf(s) = accountOf(r)

\* Where a request is in its handler tells whether it was charged and invoked.
ChargeInv ==
  \A r \in Requests :
    /\ pc[r] \in Early => r \notin charged \cup invoked
    /\ pc[r] = "commit" =>
         r \notin Storeless /\ allows(evaluationRequest(r, evaluatedAt[r], previous[r]))
    /\ pc[r] = "handler" => r \notin invoked /\ (r \notin Storeless => r \in charged)
    /\ pc[r] \in Issuing /\ reply[r].decision = "deny" => r \notin charged \cup invoked
    /\ pc[r] \in Issuing /\ reply[r].decision = "allow" /\ r \notin Storeless => r \in charged
    /\ r \notin Storeless /\ (r \in invoked \/ response[r] = 200) => r \in charged

\* A 200 is returned only with an allow Receipt in the stream and the evidence.
ReplyInv ==
  \A r \in Requests :
    /\ reply[r].status = 200 =>
         /\ reply[r].decision = "allow"
         /\ ExternalUpstream => reply[r].outcome = "pending"
    /\ pc[r] = "evidence" => receiptOf(r) \in stream
    /\ response[r] = 200 => /\ pc[r] = "done" /\ reply[r].status = 200
                            /\ receiptOf(r) \in stream \cap evidence
    /\ ExternalUpstream /\ r \in invoked => response[r] = 200

\* A Receipt states the decision its request was given, for good.
ReceiptInv ==
  \A x \in stream \cup evidence :
    /\ pc[x.request] \in Late
    /\ x = receiptOf(x.request)
    /\ x.decision = "deny" => x.request \notin charged \cup invoked

\* A snapshot that is no longer the stored one was replaced by another request.
SnapshotInv ==
  \A r \in Requests :
    /\ r \notin Storeless /\ pc[r] \in {"evaluate", "commit"} =>
         previous[r] = usage[accountOf(r)] \/ OtherCharged(r)
    /\ reply[r].status = 409 => OtherCharged(r)

\* An accepted nonce is held at least until its proof expires.
NonceInv ==
  \A r \in Requests :
    /\ verifiedAt[r] <= now
    /\ accepted[r] # -1 => replay[Submitted[r].proof.key] >= Submitted[r].proof.expires

Inv == TypeOK /\ ChargeInv /\ ReplyInv /\ ReceiptInv /\ SnapshotInv
       /\ NonceInv /\ NonceOnceBeforeExpiry

\* A request is charged by its own commit only, which needs an allow decision;
\* an operation is invoked after the commit.
LEMMA ChargeStep ==
  ASSUME Inv, [Next]_vars
  PROVE  ChargeInv'
<1> USE DEF Inv, ChargeInv, ReplyInv, TypeOK, Early, Issuing, Running, GoTo,
            IssueReceipt, Answer, Unavailable, Denial, Allowed, local, store
<1>1. ASSUME NEW r \in Requests, Extract(r) PROVE ChargeInv'
  BY <1>1 DEF Extract
<1>2. ASSUME NEW r \in Requests, VerifyMandate(r) \/ VerifyParent(r) PROVE ChargeInv'
  BY <1>2 DEF VerifyMandate, VerifyParent, VerifyReusable
<1>3. ASSUME NEW r \in Requests, VerifyEnvelope(r) PROVE ChargeInv'
  BY <1>3 DEF VerifyEnvelope
<1>4. ASSUME NEW r \in Requests, ConsumeNonce(r) PROVE ChargeInv'
  BY <1>4 DEF ConsumeNonce
<1>5. ASSUME NEW r \in Requests, CheckDigest(r) PROVE ChargeInv'
  BY <1>5 DEF CheckDigest
<1>6. ASSUME NEW r \in Requests, LoadUsage(r) PROVE ChargeInv'
  BY <1>6 DEF LoadUsage
<1>7. ASSUME NEW r \in Requests, Evaluate(r) PROVE ChargeInv'
  BY <1>7 DEF Evaluate, hasUsageStore
<1>8. ASSUME NEW r \in Requests, CompareAndSet(r) PROVE ChargeInv'
  BY <1>8 DEF CompareAndSet
<1>9. ASSUME NEW r \in Requests, InvokeHandler(r) PROVE ChargeInv'
  BY <1>9 DEF InvokeHandler
<1>10. ASSUME NEW r \in Requests, SignReceipt(r) PROVE ChargeInv'
  BY <1>10 DEF SignReceipt
<1>11. ASSUME NEW r \in Requests, EmitToStream(r) PROVE ChargeInv'
  BY <1>11 DEF EmitToStream
<1>12. ASSUME NEW r \in Requests, PersistEvidence(r) PROVE ChargeInv'
  BY <1>12 DEF PersistEvidence
<1>13. ASSUME NEW r \in Requests, EnvoyForward(r) PROVE ChargeInv'
  BY <1>13 DEF EnvoyForward
<1>14. ASSUME NEW r \in Requests, EnvoyTimeout(r) PROVE ChargeInv'
  BY <1>14 DEF EnvoyTimeout
<1>15. ASSUME NEW r \in Requests, Crash(r) PROVE ChargeInv'
  BY <1>15 DEF Crash
<1>16. CASE Tick
  BY <1>16 DEF Tick
<1>17. CASE UNCHANGED vars
  BY <1>17 DEF vars
<1> QED
  BY <1>1, <1>2, <1>3, <1>4, <1>5, <1>6, <1>7, <1>8, <1>9, <1>10, <1>11, <1>12, <1>13,
     <1>14, <1>15, <1>16, <1>17 DEF Next, Step

\* A move of a running request to anything but an answer of 200 or the wait
\* for the evidence service leaves every returned 200 justified.
LEMMA ReplyMove ==
  ASSUME TypeOK, ReplyInv, NEW r \in Requests, pc[r] # "done",
         stream \subseteq stream', evidence \subseteq evidence',
         ExternalUpstream => invoked' = invoked,
         \/ \E step \in Steps \ {"evidence", "done"} : GoTo(r, step)
         \/ \E answer \in Replies :
              /\ IssueReceipt(r, answer)
              /\ answer.status = 200 => /\ answer.decision = "allow"
                                        /\ ExternalUpstream => answer.outcome = "pending"
         \/ \E status \in {400, 401, 403, 409, 413, 500, 503} : Answer(r, status)
  PROVE  ReplyInv'
<1> USE DEF TypeOK, ReplyInv
<1>1. response[r] # 200
  OBVIOUS
<1>2. ASSUME NEW s \in Requests, s # r
      PROVE  pc'[s] = pc[s] /\ reply'[s] = reply[s] /\ response'[s] = response[s]
             /\ receiptOf(s)' = receiptOf(s)
  BY <1>2 DEF GoTo, IssueReceipt, Answer, receiptOf
<1>3. /\ response'[r] # 200 /\ pc'[r] # "evidence"
      /\ reply'[r].status = 200 =>
           reply'[r].decision = "allow" /\ (ExternalUpstream => reply'[r].outcome = "pending")
  BY <1>1 DEF GoTo, IssueReceipt, Answer
<1>4. ExternalUpstream => r \notin invoked'
  BY <1>1
<1> QED BY <1>2, <1>3, <1>4

\* A 200 is returned by PersistEvidence, once the stream and the evidence
\* service have the Receipt.
LEMMA ReplyStep ==
  ASSUME Inv, [Next]_vars
  PROVE  ReplyInv'
<1> USE DEF Inv, local, store
<1>1. ASSUME NEW r \in Requests, Extract(r) PROVE ReplyInv'
  BY <1>1, ReplyMove, AnswerTypes DEF Extract, Unavailable, Steps, Denial
<1>2. ASSUME NEW r \in Requests, VerifyMandate(r) \/ VerifyParent(r) PROVE ReplyInv'
  BY <1>2, ReplyMove, AnswerTypes DEF VerifyMandate, VerifyParent, VerifyReusable, Unavailable, Steps, Denial
<1>3. ASSUME NEW r \in Requests, VerifyEnvelope(r) PROVE ReplyInv'
  BY <1>3, ReplyMove, AnswerTypes DEF VerifyEnvelope, Unavailable, Steps, Denial
<1>4. ASSUME NEW r \in Requests, ConsumeNonce(r) PROVE ReplyInv'
  BY <1>4, ReplyMove, AnswerTypes DEF ConsumeNonce, Unavailable, Steps, Denial
<1>5. ASSUME NEW r \in Requests, CheckDigest(r) PROVE ReplyInv'
  BY <1>5, ReplyMove, AnswerTypes DEF CheckDigest, Unavailable, Steps, Denial
<1>6. ASSUME NEW r \in Requests, LoadUsage(r) PROVE ReplyInv'
  BY <1>6, ReplyMove, AnswerTypes DEF LoadUsage, Unavailable, Steps, Denial
<1>7. ASSUME NEW r \in Requests, Evaluate(r) PROVE ReplyInv'
  BY <1>7, ReplyMove, AnswerTypes DEF Evaluate, Unavailable, Steps, Denial
<1>8. ASSUME NEW r \in Requests, CompareAndSet(r) PROVE ReplyInv'
  BY <1>8, ReplyMove, AnswerTypes DEF CompareAndSet, Unavailable, Steps, Denial
<1>9. ASSUME NEW r \in Requests, InvokeHandler(r) PROVE ReplyInv'
  BY <1>9, ReplyMove, AnswerTypes DEF InvokeHandler, Allowed
<1>10. ASSUME NEW r \in Requests, SignReceipt(r) PROVE ReplyInv'
  BY <1>10, ReplyMove, AnswerTypes DEF SignReceipt, Unavailable, Steps, Denial
<1>11. ASSUME NEW r \in Requests, EmitToStream(r) PROVE ReplyInv'
  <2>1. CASE Unavailable(r)
    BY <1>11, <2>1, ReplyMove DEF EmitToStream, Unavailable
  <2>2. CASE GoTo(r, "evidence") /\ stream' = stream \cup {receiptOf(r)}
    BY <1>11, <2>2 DEF EmitToStream, GoTo, ReplyInv, TypeOK, receiptOf
  <2> QED BY <1>11, <2>1, <2>2 DEF EmitToStream
<1>12. ASSUME NEW r \in Requests, PersistEvidence(r) PROVE ReplyInv'
  <2>1. CASE Unavailable(r)
    BY <1>12, <2>1, ReplyMove DEF PersistEvidence, Unavailable
  <2>2. CASE Answer(r, reply[r].status) /\ evidence' = evidence \cup {receiptOf(r)}
    BY <1>12, <2>2 DEF PersistEvidence, Answer, ReplyInv, TypeOK, receiptOf
  <2> QED BY <1>12, <2>1, <2>2 DEF PersistEvidence
<1>13. ASSUME NEW r \in Requests, EnvoyForward(r) PROVE ReplyInv'
  BY <1>13 DEF EnvoyForward, ReplyInv, TypeOK, receiptOf
<1>14. ASSUME NEW r \in Requests, EnvoyTimeout(r) PROVE ReplyInv'
  BY <1>14 DEF EnvoyTimeout, ReplyInv, receiptOf
<1>15. ASSUME NEW r \in Requests, Crash(r) PROVE ReplyInv'
  BY <1>15 DEF Crash, Running, ReplyInv, TypeOK, receiptOf
<1>16. CASE Tick
  BY <1>16 DEF Tick, ReplyInv, receiptOf
<1>17. CASE UNCHANGED vars
  BY <1>17 DEF vars, ReplyInv, receiptOf
<1> QED
  BY <1>1, <1>2, <1>3, <1>4, <1>5, <1>6, <1>7, <1>8, <1>9, <1>10, <1>11, <1>12, <1>13,
     <1>14, <1>15, <1>16, <1>17 DEF Next, Step

\* Once a Receipt is in the stream its request is past every commit, and its
\* reply is fixed.
LEMMA ReceiptStep ==
  ASSUME Inv, [Next]_vars
  PROVE  ReceiptInv'
<1> USE DEF Inv, ChargeInv, ReplyInv, ReceiptInv, TypeOK, Early, Issuing, Late,
            Running, receiptOf, Receipts, GoTo, IssueReceipt, Answer, Unavailable,
            Denial, Allowed, local, store
<1>1. ASSUME NEW r \in Requests, Extract(r) PROVE ReceiptInv'
  BY <1>1 DEF Extract
<1>2. ASSUME NEW r \in Requests, VerifyMandate(r) \/ VerifyParent(r) PROVE ReceiptInv'
  BY <1>2 DEF VerifyMandate, VerifyParent, VerifyReusable
<1>3. ASSUME NEW r \in Requests, VerifyEnvelope(r) PROVE ReceiptInv'
  BY <1>3 DEF VerifyEnvelope
<1>4. ASSUME NEW r \in Requests, ConsumeNonce(r) PROVE ReceiptInv'
  BY <1>4 DEF ConsumeNonce
<1>5. ASSUME NEW r \in Requests, CheckDigest(r) PROVE ReceiptInv'
  BY <1>5 DEF CheckDigest
<1>6. ASSUME NEW r \in Requests, LoadUsage(r) PROVE ReceiptInv'
  BY <1>6 DEF LoadUsage
<1>7. ASSUME NEW r \in Requests, Evaluate(r) PROVE ReceiptInv'
  BY <1>7 DEF Evaluate
<1>8. ASSUME NEW r \in Requests, CompareAndSet(r) PROVE ReceiptInv'
  BY <1>8 DEF CompareAndSet
<1>9. ASSUME NEW r \in Requests, InvokeHandler(r) PROVE ReceiptInv'
  BY <1>9 DEF InvokeHandler
<1>10. ASSUME NEW r \in Requests, SignReceipt(r) PROVE ReceiptInv'
  BY <1>10 DEF SignReceipt
<1>11. ASSUME NEW r \in Requests, EmitToStream(r) PROVE ReceiptInv'
  BY <1>11 DEF EmitToStream
<1>12. ASSUME NEW r \in Requests, PersistEvidence(r) PROVE ReceiptInv'
  BY <1>12 DEF PersistEvidence
<1>13. ASSUME NEW r \in Requests, EnvoyForward(r) PROVE ReceiptInv'
  BY <1>13 DEF EnvoyForward
<1>14. ASSUME NEW r \in Requests, EnvoyTimeout(r) PROVE ReceiptInv'
  BY <1>14 DEF EnvoyTimeout
<1>15. ASSUME NEW r \in Requests, Crash(r) PROVE ReceiptInv'
  BY <1>15 DEF Crash
<1>16. CASE Tick
  BY <1>16 DEF Tick
<1>17. CASE UNCHANGED vars
  BY <1>17 DEF vars
<1> QED
  BY <1>1, <1>2, <1>3, <1>4, <1>5, <1>6, <1>7, <1>8, <1>9, <1>10, <1>11, <1>12, <1>13,
     <1>14, <1>15, <1>16, <1>17 DEF Next, Step

\* Only another request's commit changes the usage a request has loaded.
LEMMA SnapshotStep ==
  ASSUME Inv, [Next]_vars
  PROVE  SnapshotInv'
<1> USE DEF Inv, ChargeInv, SnapshotInv, OtherCharged, unchangedSinceLoad, Early,
            Running, TypeOK, GoTo, IssueReceipt, Answer, Unavailable, Denial, Allowed,
            local, store
<1>1. ASSUME NEW r \in Requests, Extract(r) PROVE SnapshotInv'
  BY <1>1 DEF Extract
<1>2. ASSUME NEW r \in Requests, VerifyMandate(r) \/ VerifyParent(r) PROVE SnapshotInv'
  BY <1>2 DEF VerifyMandate, VerifyParent, VerifyReusable
<1>3. ASSUME NEW r \in Requests, VerifyEnvelope(r) PROVE SnapshotInv'
  BY <1>3 DEF VerifyEnvelope
<1>4. ASSUME NEW r \in Requests, ConsumeNonce(r) PROVE SnapshotInv'
  BY <1>4 DEF ConsumeNonce
<1>5. ASSUME NEW r \in Requests, CheckDigest(r) PROVE SnapshotInv'
  BY <1>5 DEF CheckDigest
<1>6. ASSUME NEW r \in Requests, LoadUsage(r) PROVE SnapshotInv'
  BY <1>6 DEF LoadUsage, hasUsageStore
<1>7. ASSUME NEW r \in Requests, Evaluate(r) PROVE SnapshotInv'
  BY <1>7 DEF Evaluate
<1>8. ASSUME NEW r \in Requests, CompareAndSet(r) PROVE SnapshotInv'
  <2> SUFFICES ASSUME NEW s \in Requests
               PROVE  /\ s \notin Storeless /\ pc'[s] \in {"evaluate", "commit"} =>
                           previous'[s] = usage'[accountOf(s)] \/ OtherCharged(s)'
                      /\ reply'[s].status = 409 => OtherCharged(s)'
    OBVIOUS
  <2>1. charged \subseteq charged' /\ previous' = previous
    BY <1>8 DEF CompareAndSet
  <2>2. OtherCharged(s) => OtherCharged(s)'
    BY <2>1
  <2>3. CASE s = r
    BY <1>8, <2>2, <2>3 DEF CompareAndSet
  <2>4. CASE s # r
    <3>1. pc'[s] = pc[s] /\ reply'[s] = reply[s]
      BY <1>8, <2>4 DEF CompareAndSet
    <3>2. usage'[accountOf(s)] = usage[accountOf(s)] \/ OtherCharged(s)'
      BY <1>8, <2>4 DEF CompareAndSet, MandateIds
    <3> QED BY <2>1, <2>2, <3>1, <3>2
  <2> QED BY <2>3, <2>4
<1>9. ASSUME NEW r \in Requests, InvokeHandler(r) PROVE SnapshotInv'
  BY <1>9 DEF InvokeHandler
<1>10. ASSUME NEW r \in Requests, SignReceipt(r) PROVE SnapshotInv'
  BY <1>10 DEF SignReceipt
<1>11. ASSUME NEW r \in Requests, EmitToStream(r) PROVE SnapshotInv'
  BY <1>11 DEF EmitToStream
<1>12. ASSUME NEW r \in Requests, PersistEvidence(r) PROVE SnapshotInv'
  BY <1>12 DEF PersistEvidence
<1>13. ASSUME NEW r \in Requests, EnvoyForward(r) PROVE SnapshotInv'
  BY <1>13 DEF EnvoyForward
<1>14. ASSUME NEW r \in Requests, EnvoyTimeout(r) PROVE SnapshotInv'
  BY <1>14 DEF EnvoyTimeout
<1>15. ASSUME NEW r \in Requests, Crash(r) PROVE SnapshotInv'
  BY <1>15 DEF Crash
<1>16. CASE Tick
  BY <1>16 DEF Tick
<1>17. CASE UNCHANGED vars
  BY <1>17 DEF vars
<1> QED
  BY <1>1, <1>2, <1>3, <1>4, <1>5, <1>6, <1>7, <1>8, <1>9, <1>10, <1>11, <1>12, <1>13,
     <1>14, <1>15, <1>16, <1>17 DEF Next, Step

\* A replay key is replaced only when it has run out, by one that lives longer.
LEMMA NonceStep ==
  ASSUME Inv, [Next]_vars
  PROVE  NonceInv' /\ NonceOnceBeforeExpiry'
<1> USE DEF Inv
<1> DEFINE key(r)  == Submitted[r].proof.key
           ends(r) == Submitted[r].proof.expires
<1>1. /\ now \in Nat /\ replay \in [ReplayKeys -> Nat]
      /\ \A r \in Requests : /\ verifiedAt[r] \in Nat /\ accepted[r] \in Int
                             /\ ends(r) \in Nat /\ key(r) \in ReplayKeys
  BY SubmissionsTyped DEF TypeOK, Time, ReplayKeys
<1>2. ASSUME NEW r \in Requests, VerifyEnvelope(r) PROVE NonceInv' /\ NonceOnceBeforeExpiry'
  BY <1>1, <1>2 DEF VerifyEnvelope, NonceInv, NonceOnceBeforeExpiry, TypeOK, store
<1>3. ASSUME NEW r \in Requests, ConsumeNonce(r) PROVE NonceInv' /\ NonceOnceBeforeExpiry'
  <2>1. CASE UNCHANGED <<replay, accepted>>
    BY <1>3, <2>1 DEF ConsumeNonce, NonceInv, NonceOnceBeforeExpiry, local
  <2>2. CASE ~UNCHANGED <<replay, accepted>>
    <3> DEFINE ttl == replayTtl(Submitted[r].proof, verifiedAt[r])
    <3>1. /\ replay[key(r)] <= now
          /\ replay' = [replay EXCEPT ![key(r)] = now + ttl]
          /\ \A s \in Requests : accepted'[s] = accepted[s] \/ (s = r /\ accepted'[s] = now)
          /\ UNCHANGED <<now, verifiedAt>>
      <4>1. /\ ~nonceHeld(key(r)) /\ replay' = [replay EXCEPT ![key(r)] = now + ttl]
            /\ accepted' = [accepted EXCEPT ![r] = now] \/ accepted' = accepted
            /\ UNCHANGED <<now, verifiedAt>>
        BY <1>3, <2>2 DEF ConsumeNonce, local
      <4>2. ~(replay[key(r)] > now) /\ replay[key(r)] \in Nat
        BY <1>1, <4>1 DEF nonceHeld
      <4>3. replay[key(r)] <= now
        BY <1>1, <4>2
      <4>4. \A s \in Requests : accepted'[s] = accepted[s] \/ (s = r /\ accepted'[s] = now)
        <5>1. accepted \in [Requests -> Time \cup {-1}]
          BY DEF TypeOK
        <5>2. CASE accepted' = accepted
          BY <5>2
        <5>3. CASE accepted' = [accepted EXCEPT ![r] = now]
          BY <5>1, <5>3
        <5> QED BY <4>1, <5>2, <5>3
      <4> QED BY <4>1, <4>3, <4>4
    <3>2. ttl \in Nat /\ ttl >= 1 /\ ttl >= ends(r) - verifiedAt[r]
      BY ReplayTtlBounds DEF TypeOK
    <3>3. verifiedAt[r] <= now
      BY DEF NonceInv
    <3> HIDE DEF ttl
    <3>4. now + ttl >= ends(r) /\ now + ttl > replay[key(r)]
      <4>1. replay[key(r)] \in Nat
        BY <1>1
      <4> HIDE DEF ends, key
      <4> QED BY <1>1, <4>1, <3>1, <3>2, <3>3
    <3>5. ASSUME NEW s \in Requests, accepted[s] # -1 PROVE replay[key(s)] >= ends(s)
      BY <3>5 DEF NonceInv
    <3>6. ASSUME NEW s \in Requests, accepted'[s] # -1 PROVE replay'[key(s)] >= ends(s)
      <4>1. CASE key(s) # key(r)
        BY <1>1, <3>1, <3>5, <3>6, <4>1
      <4>2. CASE key(s) = key(r)
        <5>1. replay'[key(s)] = now + ttl
          BY <1>1, <3>1, <4>2
        <5>2. CASE accepted'[s] = accepted[s]
          <6>1. replay[key(r)] >= ends(s) /\ replay[key(r)] \in Nat
            BY <1>1, <3>5, <3>6, <4>2, <5>2
          <6> HIDE DEF ends, key
          <6> QED BY <1>1, <3>2, <3>4, <5>1, <6>1
        <5>3. CASE s = r
          BY <3>4, <5>1, <5>3
        <5> QED BY <3>1, <5>2, <5>3
      <4> QED BY <4>1, <4>2
    <3>7. ASSUME NEW s \in Requests, s # r, key(s) = key(r), accepted'[s] # -1
          PROVE  now >= ends(s)
      <4>1. accepted[s] # -1 /\ replay[key(r)] >= ends(s) /\ replay[key(r)] \in Nat
        BY <1>1, <3>1, <3>5, <3>7
      <4> HIDE DEF ends, key
      <4> QED BY <1>1, <3>1, <4>1
    <3>8. NonceInv'
      BY <3>1, <3>6 DEF NonceInv
    <3>9. NonceOnceBeforeExpiry'
      <4> SUFFICES ASSUME NEW s \in Requests, NEW u \in Requests, s # u, key(s) = key(u),
                          accepted'[s] # -1, accepted'[u] # -1
                   PROVE  accepted'[u] >= ends(s) \/ accepted'[s] >= ends(u)
        BY DEF NonceOnceBeforeExpiry
      <4>1. CASE accepted'[s] = accepted[s] /\ accepted'[u] = accepted[u]
        BY <4>1 DEF NonceOnceBeforeExpiry
      <4>2. CASE u = r /\ accepted'[u] = now
        BY <3>7, <4>2
      <4>3. CASE s = r /\ accepted'[s] = now
        BY <3>7, <4>3
      <4> QED BY <3>1, <4>1, <4>2, <4>3
    <3> QED BY <3>8, <3>9
  <2> QED BY <2>1, <2>2
<1>4. CASE Tick
  BY <1>1, <1>4 DEF Tick, NonceInv, NonceOnceBeforeExpiry, local, store
<1>5. CASE UNCHANGED <<now, verifiedAt, replay, accepted>>
  BY <1>5 DEF NonceInv, NonceOnceBeforeExpiry
<1>6. ASSUME NEW r \in Requests,
             \/ Step(r) /\ ~VerifyEnvelope(r) /\ ~ConsumeNonce(r)
             \/ EnvoyForward(r) \/ EnvoyTimeout(r) \/ Crash(r)
      PROVE  UNCHANGED <<now, verifiedAt, replay, accepted>>
  BY <1>6 DEF Step, Extract, VerifyMandate, VerifyParent, VerifyReusable, CheckDigest, LoadUsage,
     Evaluate, CompareAndSet, InvokeHandler, SignReceipt, EmitToStream, PersistEvidence,
     EnvoyForward, EnvoyTimeout, Crash, local, store
<1>7. CASE UNCHANGED vars
  BY <1>5, <1>7 DEF vars, local, store
<1> QED BY <1>2, <1>3, <1>4, <1>5, <1>6, <1>7 DEF Next, Step

\* No request has been handled at first.
LEMMA InvInit == Init => Inv
<1> SUFFICES ASSUME Init PROVE Inv
  OBVIOUS
<1>1. TypeOK
  BY TypeInit
<1>2. ChargeInv /\ ReplyInv /\ ReceiptInv /\ SnapshotInv
  BY DEF Init, ChargeInv, ReplyInv, ReceiptInv, SnapshotInv, Issuing, Denial
<1>3. NonceInv /\ NonceOnceBeforeExpiry
  BY DEF Init, NonceInv, NonceOnceBeforeExpiry
<1> QED BY <1>1, <1>2, <1>3 DEF Inv

\* The inductive invariant holds in every behaviour.
THEOREM InvariantHolds == Spec => []Inv
<1>1. Inv /\ [Next]_vars => Inv'
  <2> SUFFICES ASSUME Inv, [Next]_vars PROVE Inv'
    OBVIOUS
  <2>1. TypeOK'
    BY TypeStep DEF Inv
  <2> QED BY <2>1, ChargeStep, ReplyStep, ReceiptStep, SnapshotStep, NonceStep DEF Inv
<1> QED BY InvInit, <1>1, PTL DEF Spec

-----------------------------------------------------------------------------
(* What follows. *)

\* A deny Receipt is never contradicted by a charge or an invocation.
THEOREM DenialStays == Spec => []DenialIsFinal
<1>1. Inv => DenialIsFinal
  BY DEF Inv, ReceiptInv, DenialIsFinal
<1> QED BY InvariantHolds, <1>1, PTL

\* Behind Envoy an operation is reached only after its pending allow Receipt
\* is in the stream and with the evidence service.
THEOREM EvidenceFirst == Spec => []EvidenceBeforeForward
<1>1. Inv => EvidenceBeforeForward
  BY DEF Inv, ReplyInv, TypeOK, EvidenceBeforeForward, receiptOf
<1> QED BY InvariantHolds, <1>1, PTL

\* A usage conflict is reported only to a request that lost to another one.
THEOREM ConflictsAreReal == Spec => []ConflictHasWinner
<1>1. Inv => ConflictHasWinner
  BY DEF Inv, SnapshotInv, OtherCharged, ConflictHasWinner
<1> QED BY InvariantHolds, <1>1, PTL

\* Until a proof has expired no other request is accepted with its nonce.
THEOREM NonceHeld == Spec => []NonceOnceBeforeExpiry
<1>1. Inv => NonceOnceBeforeExpiry
  BY DEF Inv
<1> QED BY InvariantHolds, <1>1, PTL

-----------------------------------------------------------------------------
(* Refinement. *)

\* A commit is a grant of the ledger, any other step leaves the ledger alone.
LEMMA StepSimulation == Inv /\ [Next]_vars => [LNext]_lvars
<1> SUFFICES ASSUME Inv, [Next]_vars PROVE [LNext]_lvars
  OBVIOUS
<1>1. ASSUME NEW r \in Requests, CompareAndSet(r) PROVE [LNext]_lvars
  <2>1. CASE UNCHANGED <<usage, charged>>
    BY <2>1 DEF lvars
  <2>2. CASE ~UNCHANGED <<usage, charged>>
    <3>1. /\ pc[r] = "commit" /\ usage[accountOf(r)] = previous[r]
          /\ usage' = [usage EXCEPT ![accountOf(r)] =
                          nextUsage(evaluationRequest(r, evaluatedAt[r], previous[r]))]
          /\ charged' = charged \cup {r}
      BY <1>1, <2>2 DEF CompareAndSet, unchangedSinceLoad
    <3>2. r \notin charged /\ allows(evaluationRequest(r, evaluatedAt[r], previous[r]))
      BY <3>1 DEF Inv, ChargeInv, Early
    <3>3. evaluatedAt[r] \in Time
      BY DEF Inv, TypeOK
    <3>4. Grant(r)
      BY <3>1, <3>2, <3>3 DEF Grant
    <3> QED BY <3>4 DEF LNext
  <2> QED BY <2>1, <2>2
<1>2. ASSUME NEW r \in Requests,
             \/ Step(r) /\ ~CompareAndSet(r)
             \/ EnvoyForward(r) \/ EnvoyTimeout(r) \/ Crash(r)
      PROVE  UNCHANGED lvars
  BY <1>2 DEF Step, Extract, VerifyMandate, VerifyParent, VerifyReusable, VerifyEnvelope,
     ConsumeNonce, CheckDigest, LoadUsage, Evaluate, InvokeHandler, SignReceipt, EmitToStream,
     PersistEvidence, EnvoyForward, EnvoyTimeout, Crash, store, lvars
<1>3. CASE Tick
  BY <1>3 DEF Tick, store, lvars
<1>4. CASE UNCHANGED vars
  BY <1>4 DEF vars, store, lvars
<1> QED BY <1>1, <1>2, <1>3, <1>4 DEF Next, Step

\* Load, evaluate and compare-and-set by any number of concurrent requests,
\* with failures, lost replies and crashes, implement the ledger.
THEOREM Refinement == Spec => ImplementsLedger
<1>1. Init => LInit
  BY DEF Init, LInit
<1> QED BY <1>1, InvariantHolds, StepSimulation, PTL DEF Spec, ImplementsLedger, LSpec

\* The operations invoked at endpoints with a usage store.
Counted == invoked \ Storeless

\* What is invoked at those endpoints stays inside what the ledger granted.
LEMMA CountedWithinAuthority ==
  ASSUME Inv, LInv
  PROVE  /\ WithinCallLimit(Counted) /\ WithinBudget(Counted) /\ OncePerKey(Counted)
         /\ OncePerOneTimeMandate(Counted)
<1>1. Counted \subseteq charged /\ charged \subseteq Requests
  BY DEF Inv, ChargeInv, TypeOK, Counted
<1>2. WithinCallLimit(charged) /\ OncePerKey(charged) /\ OncePerOneTimeMandate(charged)
  BY LedgerLimits DEF ChargedWithinLimits
<1>3. ASSUME NEW m \in MandateIds
      PROVE  /\ On(Counted, m) \subseteq On(charged, m)
             /\ Cardinality(On(Counted, m)) \in Nat /\ Cardinality(On(charged, m)) \in Nat
             /\ Cardinality(On(Counted, m)) <= Cardinality(On(charged, m))
  <2>1. On(Counted, m) \subseteq On(charged, m)
    BY <1>1 DEF On
  <2>2. IsFiniteSet(On(charged, m))
    BY <1>1, RequestsFinite, FS_Subset DEF On
  <2> QED BY <2>1, <2>2, FS_Subset, FS_CardinalityType
<1>4. WithinCallLimit(Counted)
  <2> SUFFICES ASSUME NEW m \in MandateIds, NEW r \in On(Counted, m),
                      hasType(limitOf(mandateOf(r), "max_calls"), "number")
               PROVE  Cardinality(On(Counted, m)) <= limitOf(mandateOf(r), "max_calls").value
    BY DEF WithinCallLimit
  <2>1. Cardinality(On(charged, m)) <= limitOf(mandateOf(r), "max_calls").value
    BY <1>2, <1>3 DEF WithinCallLimit
  <2>2. limitOf(mandateOf(r), "max_calls").value \in Nat
    <3>1. r \in Requests
      BY <1>1 DEF On
    <3> QED BY <3>1, SubmissionsTyped
  <2> QED BY <1>3, <2>1, <2>2
<1>5. WithinBudget(Counted)
  BY <1>1, BudgetsKept
<1>6. OncePerKey(Counted) /\ OncePerOneTimeMandate(Counted)
  BY <1>1, <1>2 DEF OncePerKey, OncePerOneTimeMandate
<1> QED BY <1>4, <1>5, <1>6

\* The operations invoked at endpoints with a usage store stay inside the call
\* limits and the budgets of their Mandates, never share an idempotency key, and
\* use a one-time Mandate once.
THEOREM InvokedWithinLimits ==
  Spec => [](/\ WithinCallLimit(Counted) /\ WithinBudget(Counted) /\ OncePerKey(Counted)
             /\ OncePerOneTimeMandate(Counted))
<1>1. Spec => []LInv
  BY Refinement, LedgerInvariant, PTL DEF ImplementsLedger
<1>2. Inv /\ LInv => (/\ WithinCallLimit(Counted) /\ WithinBudget(Counted)
                      /\ OncePerKey(Counted) /\ OncePerOneTimeMandate(Counted))
  BY CountedWithinAuthority
<1> QED BY InvariantHolds, <1>1, <1>2, PTL

\* At an endpoint without a usage store, only a Mandate that needs none gets
\* past LoadUsage.
StorelessInv ==
  \A r \in Storeless :
    (pc[r] \in {"evaluate", "handler"} \/ r \in invoked)
      => ~requiresPersistentUsage(mandateOf(r))

\* It is kept by every step.
LEMMA StorelessStep ==
  ASSUME TypeOK, ChargeInv, StorelessInv, [Next]_vars
  PROVE  StorelessInv'
<1> USE DEF StorelessInv, TypeOK, Running, GoTo, IssueReceipt, Answer, Unavailable, local, store
<1> USE DeploymentKnown
<1>1. ASSUME NEW r \in Requests, Extract(r) PROVE StorelessInv'
  BY <1>1 DEF Extract
<1>2. ASSUME NEW r \in Requests, VerifyMandate(r) \/ VerifyParent(r) PROVE StorelessInv'
  BY <1>2 DEF VerifyMandate, VerifyParent, VerifyReusable
<1>3. ASSUME NEW r \in Requests, VerifyEnvelope(r) PROVE StorelessInv'
  BY <1>3 DEF VerifyEnvelope
<1>4. ASSUME NEW r \in Requests, ConsumeNonce(r) PROVE StorelessInv'
  BY <1>4 DEF ConsumeNonce
<1>5. ASSUME NEW r \in Requests, CheckDigest(r) PROVE StorelessInv'
  BY <1>5 DEF CheckDigest
<1>6. ASSUME NEW r \in Requests, LoadUsage(r) PROVE StorelessInv'
  BY <1>6 DEF LoadUsage, hasUsageStore
<1>7. ASSUME NEW r \in Requests, Evaluate(r) PROVE StorelessInv'
  BY <1>7 DEF Evaluate, hasUsageStore
<1>8. ASSUME NEW r \in Requests, CompareAndSet(r) PROVE StorelessInv'
  BY <1>8 DEF CompareAndSet, ChargeInv
<1>9. ASSUME NEW r \in Requests, InvokeHandler(r) PROVE StorelessInv'
  BY <1>9 DEF InvokeHandler
<1>10. ASSUME NEW r \in Requests, SignReceipt(r) PROVE StorelessInv'
  BY <1>10 DEF SignReceipt
<1>11. ASSUME NEW r \in Requests, EmitToStream(r) PROVE StorelessInv'
  BY <1>11 DEF EmitToStream
<1>12. ASSUME NEW r \in Requests, PersistEvidence(r) PROVE StorelessInv'
  BY <1>12 DEF PersistEvidence
<1>13. ASSUME NEW r \in Requests, EnvoyForward(r) PROVE StorelessInv'
  BY <1>13 DEF EnvoyForward
<1>14. ASSUME NEW r \in Requests, EnvoyTimeout(r) PROVE StorelessInv'
  BY <1>14 DEF EnvoyTimeout
<1>15. ASSUME NEW r \in Requests, Crash(r) PROVE StorelessInv'
  BY <1>15 DEF Crash
<1>16. CASE Tick
  BY <1>16 DEF Tick
<1>17. CASE UNCHANGED vars
  BY <1>17 DEF vars
<1> QED
  BY <1>1, <1>2, <1>3, <1>4, <1>5, <1>6, <1>7, <1>8, <1>9, <1>10, <1>11, <1>12, <1>13,
     <1>14, <1>15, <1>16, <1>17 DEF Next, Step

\* What requiresPersistentUsage leaves to the deployment: at an endpoint without
\* a usage store, a Mandate with neither limits nor profile must not be one-time
\* and must not pay for purchases (extensions.rwa.one_time and
\* extensions.commerce of a Mandate without a profile).  The Envoy authorizer,
\* where every endpoint has a store, meets it.
Metered ==
  \A r \in Storeless :
    \/ requiresPersistentUsage(mandateOf(r))
    \/ ~isOneTime(mandateOf(r)) /\ Submitted[r].envelope.commerce = None

\* Under that condition what is invoked without a store has no limit to exceed.
LEMMA InvokedLimits ==
  ASSUME Metered, Inv, LInv, StorelessInv
  PROVE  InvokedWithinAuthority
<1>1. WithinCallLimit(Counted) /\ WithinBudget(Counted) /\ OncePerKey(Counted)
      /\ OncePerOneTimeMandate(Counted)
  BY CountedWithinAuthority
<1>2. invoked \subseteq Requests /\ Counted \subseteq invoked
  BY DEF Inv, TypeOK, Counted
<1>3. ASSUME NEW r \in invoked, r \notin Counted
      PROVE  /\ mandateOf(r).limits = None /\ mandateOf(r).profile = None
             /\ ~isOneTime(mandateOf(r)) /\ consumptionOf(r).idempotency_key = Empty
  <2>1. r \in Storeless /\ ~requiresPersistentUsage(mandateOf(r))
    BY <1>3 DEF Counted, StorelessInv
  <2>2. ~isOneTime(mandateOf(r)) /\ Submitted[r].envelope.commerce = None
    BY <2>1 DEF Metered
  <2>3. consumptionOf(r).idempotency_key = Empty
    BY <2>2 DEF consumptionOf, effectiveConsumption, evaluationRequest, orElse, NoConsumption
  <2> QED BY <2>1, <2>2, <2>3 DEF requiresPersistentUsage
<1>4. ASSUME NEW m, NEW r \in On(invoked, m),
             mandateOf(r).limits # None \/ mandateOf(r).profile # None
      PROVE  On(invoked, m) = On(Counted, m) /\ r \in On(Counted, m)
  <2>1. ASSUME NEW s \in On(invoked, m) PROVE s \in Counted
    <3>1. mandateOf(s) = mandateOf(r) /\ s \in invoked
      BY <1>2, <1>4, <2>1, OneDocumentPerMandateId DEF On
    <3> QED BY <1>3, <1>4, <3>1
  <2> QED BY <1>2, <2>1 DEF On
<1>5. \A r : \A name, type : hasType(limitOf(mandateOf(r), name), type)
                               => mandateOf(r).limits # None
  BY DEF hasType, limitOf, member
<1>6. WithinCallLimit(invoked)
  BY <1>1, <1>4, <1>5 DEF WithinCallLimit
<1>7. WithinBudget(invoked)
  <2> SUFFICES ASSUME NEW m \in {accountOf(r) : r \in invoked}, NEW r \in On(invoked, m)
               PROVE  BudgetKept(spent(On(invoked, m)), r)
    BY DEF WithinBudget, BudgetKept
  <2>1. CASE mandateOf(r).limits # None \/ mandateOf(r).profile # None
    <3>1. On(invoked, m) = On(Counted, m) /\ r \in On(Counted, m)
      BY <1>4, <2>1
    <3>2. m \in {accountOf(x) : x \in Counted}
      BY <3>1 DEF On
    <3>3. BudgetKept(spent(On(Counted, m)), r)
      BY <1>1, <3>1, <3>2 DEF WithinBudget, BudgetKept
    <3> QED BY <3>1, <3>3
  <2>2. CASE mandateOf(r).limits = None /\ mandateOf(r).profile = None
    <3>1. ~budgetChecked(mandateOf(r), consumptionOf(r))
      BY <1>5, <2>2 DEF budgetChecked
    <3>2. mandateOf(r).profile # CommerceProfile
      BY <2>2, NoneIsNoProfile
    <3> QED BY <3>1, <3>2 DEF BudgetKept
  <2> QED BY <2>1, <2>2
<1>8. OncePerKey(invoked)
  BY <1>1, <1>3 DEF OncePerKey
<1>9. OncePerOneTimeMandate(invoked)
  <2> SUFFICES ASSUME NEW r \in invoked, NEW s \in invoked, r # s, accountOf(r) = accountOf(s),
                      isOneTime(mandateOf(r))
               PROVE  FALSE
    BY DEF OncePerOneTimeMandate
  <2>1. mandateOf(r) = mandateOf(s)
    BY <1>2, OneDocumentPerMandateId
  <2>2. r \in Counted /\ s \in Counted
    BY <1>3, <2>1
  <2> QED BY <1>1, <2>2 DEF OncePerOneTimeMandate
<1> QED BY <1>6, <1>7, <1>8, <1>9 DEF InvokedWithinAuthority

\* However requests interleave, crash or lose replies, the operations invoked
\* under a Mandate respect its call limit, its budgets, its idempotency keys and
\* one-time use, for amounts of any size and any number of requests.
THEOREM AuthorityRespected ==
  ASSUME Metered
  PROVE  Spec => []InvokedWithinAuthority
<1>1. Init => StorelessInv
  BY DeploymentKnown DEF Init, StorelessInv
<1>2. Inv /\ StorelessInv /\ [Next]_vars => StorelessInv'
  BY StorelessStep DEF Inv
<1>3. Spec => []StorelessInv
  BY <1>1, <1>2, InvariantHolds, PTL DEF Spec
<1>4. Spec => []LInv
  BY Refinement, LedgerInvariant, PTL DEF ImplementsLedger
<1>5. Inv /\ LInv /\ StorelessInv => InvokedWithinAuthority
  BY InvokedLimits
<1> QED BY InvariantHolds, <1>3, <1>4, <1>5, PTL

-----------------------------------------------------------------------------
(* Nothing is undone. *)

\* Usage covers itself.
LEMMA UsageStays ==
  ASSUME NEW p \in UsageSnapshot \cup {None}
  PROVE  usageGrows(p, p)
<1> DEFINE u == normalizedUsage(p)
<1>1. u.calls \in Nat /\ u.amount \in Decimal
  BY NormalizedType DEF UsageSnapshot
<1> HIDE DEF u
<1>2. addDecimal(u.amount, ZeroText) = u.amount /\ ZeroText \in Decimal
  BY <1>1, AddZero DEF ZeroText, D, Decimal
<1>3. decimalAtMost(u.amount, u.amount)
  BY <1>1, <1>2, AddAtLeast
<1> QED BY <1>1, <1>3 DEF usageGrows, u

\* Allowing a request adds to the usage it was evaluated against.
LEMMA UsageAdded ==
  ASSUME NEW r \in Requests, NEW t, NEW p \in UsageSnapshot \cup {None}
  PROVE  usageGrows(p, nextUsage(evaluationRequest(r, t, p)))
<1> DEFINE u == normalizedUsage(p)
           n == nextUsage(evaluationRequest(r, t, p))
           c == consumptionOf(r)
<1>1. /\ n \in UsageSnapshot
      /\ n.calls = u.calls + 1
      /\ n.amount = addDecimal(u.amount, c.amount)
      /\ n.consumed = (u.consumed \/ c.consume)
      /\ u.idempotency_keys \subseteq n.idempotency_keys
  BY NextUsageFields
<1>2. u.calls \in Nat /\ u.amount \in Decimal /\ c.amount \in Decimal
  BY NormalizedType, ConsumptionType DEF UsageSnapshot, Consumption
<1>3. normalizedUsage(n) = n
  BY <1>1, NormalizedSnapshot
<1> HIDE DEF u, n, c
<1>4. decimalAtMost(u.amount, n.amount)
  BY <1>1, <1>2, AddAtLeast
<1>5. u.calls <= n.calls
  BY <1>1, <1>2
<1>6. u.consumed => n.consumed
  BY <1>1, Zenon
<1>7. usageGrows(p, n)
  BY <1>1, <1>3, <1>4, <1>5, <1>6 DEF usageGrows, u
<1> QED BY <1>7 DEF n

\* Receipts and invocations stay.
LEMMA RecordsStay ==
  ASSUME [Next]_vars
  PROVE  invoked \subseteq invoked' /\ evidence \subseteq evidence' /\ stream \subseteq stream'
<1> USE DEF GoTo, IssueReceipt, Answer, Unavailable, local, store
<1>1. CASE UNCHANGED vars
  BY <1>1 DEF vars
<1>2. CASE Tick
  BY <1>2 DEF Tick
<1>3. ASSUME NEW r \in Requests, Step(r)
      PROVE  invoked \subseteq invoked' /\ evidence \subseteq evidence' /\ stream \subseteq stream'
  BY <1>3 DEF Step, Extract, VerifyMandate, VerifyParent, VerifyReusable, VerifyEnvelope,
              ConsumeNonce, CheckDigest, LoadUsage, Evaluate, CompareAndSet, InvokeHandler,
              SignReceipt, EmitToStream, PersistEvidence
<1>4. ASSUME NEW r \in Requests, EnvoyForward(r) \/ EnvoyTimeout(r) \/ Crash(r)
      PROVE  invoked \subseteq invoked' /\ evidence \subseteq evidence' /\ stream \subseteq stream'
  BY <1>4 DEF EnvoyForward, EnvoyTimeout, Crash
<1> QED BY <1>1, <1>2, <1>3, <1>4 DEF Next

\* Receipts, charges and invocations only accumulate, and no usage counter,
\* amount or set of keys ever falls.
THEOREM NothingUndone == Spec => OnlyAccumulates
<1>1. ASSUME Inv, [Next]_vars PROVE Accumulate
  <2>1. usage \in [MandateIds -> UsageSnapshot \cup {None}]
    BY <1>1 DEF Inv, TypeOK
  <2>2. [LNext]_lvars
    BY <1>1, StepSimulation
  <2>3. charged \subseteq charged' /\ \A m \in MandateIds : usageGrows(usage[m], usage'[m])
    <3>1. CASE UNCHANGED lvars
      BY <2>1, <3>1, UsageStays DEF lvars
    <3>2. ASSUME NEW r \in Requests, Grant(r)
          PROVE  charged \subseteq charged' /\ \A m \in MandateIds : usageGrows(usage[m], usage'[m])
      <4> DEFINE a == accountOf(r)
      <4>1. a \in MandateIds
        BY DEF MandateIds
      <4>2. PICK t \in Time :
              usage' = [usage EXCEPT ![a] = nextUsage(evaluationRequest(r, t, usage[a]))]
        BY <3>2 DEF Grant
      <4> HIDE DEF a
      <4>3. ASSUME NEW m \in MandateIds PROVE usageGrows(usage[m], usage'[m])
        <5>1. CASE m = a
          BY <2>1, <4>1, <4>2, <5>1, UsageAdded
        <5>2. CASE m # a
          BY <2>1, <4>2, <5>2, UsageStays
        <5> QED BY <5>1, <5>2
      <4> QED BY <3>2, <4>3 DEF Grant
    <3> QED BY <2>2, <3>1, <3>2 DEF LNext
  <2> QED BY <1>1, <2>3, RecordsStay DEF Accumulate
<1>2. Inv /\ [Next]_vars => [Accumulate]_vars
  BY <1>1
<1> QED BY InvariantHolds, <1>2, PTL DEF Spec, OnlyAccumulates
=============================================================================
