---------------------------- MODULE GatewayProofs ---------------------------
(***************************************************************************)
(* The authorizer process, for any number of callers and keys, any         *)
(* configuration and any session: Valkey's commands are calls that settle  *)
(* once with their own answer; no decision of a production gateway leaves  *)
(* it without its Receipt; what is let through was not revoked when the    *)
(* request arrived and is under the agent's own key.                       *)
(***************************************************************************)
EXTENDS Gateway, TLAPS

-----------------------------------------------------------------------------
(* ValkeyClient: the link of one caller. *)

\* The reply the caller's command got is the last one on the way.
OwnReplyLast(l) ==
  LET last == l.unread[Len(l.unread)] IN fails(last) \/ (l.answer # None /\ last = l.answer)

\* While a connection is open its replies are counted exactly: those handled,
\* those on their way and those to come are the session's and the caller's.
LinkInv(l) ==
  /\ l.socket = "none" <=> l.promise = "none"
  /\ l.socket = "none" => l.toRun = 0
  /\ l.socket = "connecting" =>
       l.promise = "pending" /\ l.toRun = 0 /\ l.answer = None /\ l.unread = <<>> /\ l.completed = 0
  /\ l.socket = "open" =>
       /\ l.promise = "pending"
       /\ l.completed <= Session /\ l.completed + Len(l.unread) + l.toRun = Session + 1
       /\ l.toRun = 0 => OwnReplyLast(l)
  /\ l.toRun > 0 => l.answer = None
  /\ l.promise = "resolved" => l.answer # None /\ l.result = l.answer

LinksTyped == link \in [Callers -> Link]
LinksOK == LinksTyped /\ \A c \in Callers : LinkInv(link[c])

\* What a step may do to a caller's promise, answer and result: what
\* RemoteCall lets it do.
Asks(l, m) ==
  l.promise # "pending" /\ m.promise = "pending" /\ m.answer = None /\ m.result = None
Runs(l, m) ==
  /\ l.promise # "none" /\ l.answer = None /\ m.answer \in Answers
  /\ m.promise = l.promise /\ m.result = l.result
Resolves(l, m) ==
  /\ l.promise = "pending" /\ l.answer # None
  /\ m.promise = "resolved" /\ m.result = l.answer /\ m.answer = l.answer
Rejects(l, m) ==
  l.promise = "pending" /\ m.promise = "rejected" /\ m.answer = l.answer /\ m.result = l.result
Same(l, m) ==
  m.promise = l.promise /\ m.answer = l.answer /\ m.result = l.result

\* A new connection, and none.
LEMMA UnusedLink ==
  LET new == [Unused EXCEPT !.socket = "connecting", !.promise = "pending"]
  IN  Unused \in Link /\ LinkInv(Unused) /\ new \in Link /\ LinkInv(new)
<1>1. PICK zero \in 0 .. Session + 1 : zero = 0
  BY SessionNat
<1>2. PICK nil \in Seq(Replies) : nil = <<>>
  <2>1. <<>> \in Seq(Replies)
    OBVIOUS
  <2> QED BY <2>1
<1>3. Unused = [socket |-> "none", toRun |-> zero, refused |-> FALSE, unread |-> nil, completed |-> zero,
                promise |-> "none", result |-> None, answer |-> None, hungUp |-> FALSE]
  BY <1>1, <1>2 DEF Unused
<1>4. Unused \in Link
  BY <1>3 DEF Link
<1>5. [Unused EXCEPT !.socket = "connecting", !.promise = "pending"] \in Link
  BY <1>4 DEF Link
<1> QED BY <1>4, <1>5 DEF LinkInv, Unused

\* A caller's link is replaced by a link in order.
LEMMA LinkStep ==
  ASSUME LinksOK, NEW c \in Callers, NEW m \in Link, LinkInv(m), link' = [link EXCEPT ![c] = m]
  PROVE  LinksOK' /\ link'[c] = m /\ \A d \in Callers : d # c => link'[d] = link[d]
BY DEF LinksOK, LinksTyped

\* A reply joins the ones on their way.
LEMMA AppendReply ==
  ASSUME NEW l \in Link, NEW reply \in Replies
  PROVE  \E u \in Seq(Replies) : u = Append(l.unread, reply) /\ Len(u) = Len(l.unread) + 1 /\ u[Len(u)] = reply
<1>1. l.unread \in Seq(Replies)
  BY DEF Link
<1> DEFINE u == Append(l.unread, reply)
<1>2. u \in Seq(Replies) /\ Len(u) = Len(l.unread) + 1 /\ u[Len(u)] = reply
  BY <1>1
<1> HIDE DEF u
<1>3. u = Append(l.unread, reply)
  BY DEF u
<1> QED BY <1>2, <1>3

\* The server works one command off: one reply more is on its way.
LEMMA ReplyCounted ==
  ASSUME NEW l \in Link, LinkInv(l), l.toRun > 0, NEW u \in Seq(Replies), Len(u) = Len(l.unread) + 1
  PROVE  /\ l.socket \notin {"none", "connecting"} /\ l.promise # "none" /\ l.answer = None
         /\ l.socket = "open" => l.completed + Len(u) + (l.toRun - 1) = Session + 1
<1>1. l.toRun \in Nat /\ l.completed \in Nat /\ Len(l.unread) \in Nat
  BY SessionNat DEF Link
<1>2. l.socket \notin {"none", "connecting"} /\ l.promise # "none" /\ l.answer = None
  BY <1>1 DEF LinkInv
<1>3. PICK a \in Nat, b \in Nat, t \in Nat : a = l.completed /\ b = Len(l.unread) /\ t = l.toRun
  BY <1>1
<1>4. l.socket = "open" => a + b + t = Session + 1
  BY <1>3 DEF LinkInv
<1>5. a + (b + 1) + (t - 1) = a + b + t
  OBVIOUS
<1> QED BY <1>2, <1>3, <1>4, <1>5

\* "connect": everything is written, nothing is read yet.
LEMMA ConnectStep ==
  ASSUME LinksOK, NEW c \in Callers, Connect(c)
  PROVE  /\ LinksOK' /\ Same(link[c], link'[c])
         /\ \A d \in Callers : d # c => link'[d] = link[d]
<1>1. PICK l \in Link : l = link[c] /\ LinkInv(l) /\ l.socket = "connecting"
  BY DEF LinksOK, LinksTyped, Connect
<1>2. PICK n \in 0 .. Session + 1 : n = Session + 1
  BY SessionNat
<1> DEFINE m == [l EXCEPT !.socket = "open", !.toRun = n]
<1>3. m \in Link
  BY DEF Link
<1>4. LinkInv(m) /\ Same(l, m)
  BY <1>1, <1>2, SessionNat DEF Link, LinkInv, Same
<1>5. link' = [link EXCEPT ![c] = m]
  BY <1>1, <1>2 DEF Connect, LinksOK, LinksTyped
<1> HIDE DEF m
<1> QED BY <1>1, <1>3, <1>4, <1>5, LinkStep

\* The server answers AUTH or SELECT.
LEMMA RunSessionStep ==
  ASSUME LinksOK, NEW c \in Callers, RunSession(c)
  PROVE  /\ LinksOK' /\ Same(link[c], link'[c])
         /\ \A d \in Callers : d # c => link'[d] = link[d]
<1>1. PICK l \in Link : l = link[c] /\ LinkInv(l) /\ l.toRun > 1
  BY DEF LinksOK, LinksTyped, RunSession
<1>2. PICK ok \in BOOLEAN :
        link' = [link EXCEPT ![c].toRun = @ - 1, ![c].refused = @ \/ ~ok,
                             ![c].unread = Append(@, IF ok THEN "+OK" ELSE "-ERR")]
  BY DEF RunSession
<1>3. PICK n \in 0 .. Session + 1 : n = l.toRun - 1
  BY <1>1, SessionNat DEF Link
<1>4. PICK refused \in BOOLEAN : refused = (l.refused \/ ~ok)
  OBVIOUS
<1>5. PICK reply \in Replies : reply = IF ok THEN "+OK" ELSE "-ERR"
  BY DEF Replies
<1>6. PICK u \in Seq(Replies) : u = Append(l.unread, reply) /\ Len(u) = Len(l.unread) + 1
  BY AppendReply
<1> DEFINE m == [l EXCEPT !.toRun = n, !.refused = refused, !.unread = u]
<1>7. m \in Link
  BY DEF Link
<1>8. LinkInv(m) /\ Same(l, m)
  <2>1. /\ m.socket = l.socket /\ m.toRun = n /\ m.unread = u /\ m.completed = l.completed
        /\ m.promise = l.promise /\ m.result = l.result /\ m.answer = l.answer
    BY DEF Link
  <2>2. /\ l.socket \notin {"none", "connecting"} /\ l.promise # "none" /\ l.answer = None
        /\ l.socket = "open" => l.completed + Len(u) + n = Session + 1
    <3>1. l.toRun > 0
      BY <1>1, SessionNat DEF Link
    <3> QED BY <1>1, <1>3, <1>6, <3>1, ReplyCounted
  <2> HIDE DEF m
  <2>3. Same(l, m)
    BY <2>1 DEF Same
  <2>4. LinkInv(m)
    <3>1. n > 0
      BY <1>1, <1>3, SessionNat DEF Link
    <3> QED BY <1>1, <2>1, <2>2, <3>1 DEF LinkInv
  <2> QED BY <2>3, <2>4
<1>9. link' = [link EXCEPT ![c] = m]
  <2>1. link \in [Callers -> Link]
    BY DEF LinksOK, LinksTyped
  <2>2. link' = [link EXCEPT ![c] = [l EXCEPT !.toRun = l.toRun - 1, !.refused = l.refused \/ ~ok,
                                              !.unread = Append(l.unread, IF ok THEN "+OK" ELSE "-ERR")]]
    BY <1>1, <1>2, <2>1 DEF Link
  <2> QED BY <1>3, <1>4, <1>5, <1>6, <2>2
<1> HIDE DEF m
<1> QED BY <1>1, <1>7, <1>8, <1>9, LinkStep

\* The server refuses the caller's command.
LEMMA RefuseStep ==
  ASSUME LinksOK, NEW c \in Callers, Refuse(c)
  PROVE  /\ LinksOK' /\ Same(link[c], link'[c])
         /\ \A d \in Callers : d # c => link'[d] = link[d]
<1>1. PICK l \in Link : l = link[c] /\ LinkInv(l) /\ l.toRun = 1
  BY DEF LinksOK, LinksTyped, Refuse
<1>2. PICK reply \in Replies : fails(reply) /\ link' = [link EXCEPT ![c].toRun = 0, ![c].unread = Append(@, reply)]
  BY DEF Refuse, Replies, fails
<1>3. PICK n \in 0 .. Session + 1 : n = 0
  BY SessionNat
<1>4. PICK u \in Seq(Replies) : u = Append(l.unread, reply) /\ Len(u) = Len(l.unread) + 1 /\ u[Len(u)] = reply
  BY AppendReply
<1> DEFINE m == [l EXCEPT !.toRun = n, !.unread = u]
<1>5. m \in Link
  BY DEF Link
<1>6. LinkInv(m) /\ Same(l, m)
  <2>1. /\ m.socket = l.socket /\ m.toRun = n /\ m.unread = u /\ m.completed = l.completed
        /\ m.promise = l.promise /\ m.result = l.result /\ m.answer = l.answer
    BY DEF Link
  <2>2. /\ l.socket \notin {"none", "connecting"} /\ l.promise # "none" /\ l.answer = None
        /\ l.socket = "open" => l.completed + Len(u) + n = Session + 1
    <3>1. l.toRun > 0 /\ l.toRun - 1 = n
      BY <1>1, <1>3
    <3> QED BY <1>1, <1>4, <3>1, ReplyCounted
  <2> HIDE DEF m
  <2>3. OwnReplyLast(m)
    BY <1>2, <1>4, <2>1 DEF OwnReplyLast
  <2>4. LinkInv(m)
    BY <1>1, <1>3, <2>1, <2>2, <2>3 DEF LinkInv
  <2> QED BY <2>1, <2>4 DEF Same
<1>7. link' = [link EXCEPT ![c] = m]
  <2>1. link' = [link EXCEPT ![c] = [l EXCEPT !.toRun = 0, !.unread = Append(l.unread, reply)]]
    BY <1>1, <1>2 DEF LinksOK, LinksTyped, Link
  <2> QED BY <1>3, <1>4, <2>1
<1> HIDE DEF m
<1> QED BY <1>1, <1>5, <1>6, <1>7, LinkStep

\* The server runs the caller's command and answers it.
LEMMA RunStep ==
  ASSUME LinksOK, NEW c \in Callers, NEW a \in Answers, Run(c, a)
  PROVE  /\ LinksOK' /\ Runs(link[c], link'[c]) /\ link'[c].answer = a
         /\ \A d \in Callers : d # c => link'[d] = link[d]
<1>1. PICK l \in Link : l = link[c] /\ LinkInv(l) /\ l.toRun = 1
  BY DEF LinksOK, LinksTyped, Run
<1>2. a \in Replies /\ a # None
  BY AnswersAssumption DEF Replies
<1>3. PICK n \in 0 .. Session + 1 : n = 0
  BY SessionNat
<1>4. PICK u \in Seq(Replies) : u = Append(l.unread, a) /\ Len(u) = Len(l.unread) + 1 /\ u[Len(u)] = a
  BY <1>2, AppendReply
<1> DEFINE m == [l EXCEPT !.toRun = n, !.unread = u, !.answer = a]
<1>5. m \in Link
  BY DEF Link
<1>6. LinkInv(m) /\ Runs(l, m) /\ m.answer = a
  <2>1. /\ m.socket = l.socket /\ m.toRun = n /\ m.unread = u /\ m.completed = l.completed
        /\ m.promise = l.promise /\ m.result = l.result /\ m.answer = a
    BY DEF Link
  <2>2. /\ l.socket \notin {"none", "connecting"} /\ l.promise # "none" /\ l.answer = None
        /\ l.socket = "open" => l.completed + Len(u) + n = Session + 1
    <3>1. l.toRun > 0 /\ l.toRun - 1 = n
      BY <1>1, <1>3
    <3> QED BY <1>1, <1>4, <3>1, ReplyCounted
  <2> HIDE DEF m
  <2>3. OwnReplyLast(m)
    BY <1>2, <1>4, <2>1 DEF OwnReplyLast
  <2>4. l.promise # "resolved"
    BY <1>1, <2>2 DEF LinkInv
  <2>5. LinkInv(m)
    BY <1>1, <1>2, <1>3, <2>1, <2>2, <2>3, <2>4 DEF LinkInv
  <2> QED BY <2>1, <2>2, <2>5 DEF Runs
<1>7. link' = [link EXCEPT ![c] = m]
  <2>1. link' = [link EXCEPT ![c] = [l EXCEPT !.toRun = 0, !.unread = Append(l.unread, a), !.answer = a]]
    BY <1>1 DEF Run, LinksOK, LinksTyped, Link
  <2> QED BY <1>3, <1>4, <2>1
<1> HIDE DEF m
<1> QED BY <1>1, <1>5, <1>6, <1>7, LinkStep

\* A reply leaves the queue; the last one stays the last.
LEMMA TakeReply ==
  ASSUME NEW l \in Link, l.unread # <<>>
  PROVE  /\ Head(l.unread) \in Replies /\ Head(l.unread) = l.unread[1] /\ Len(l.unread) \in Nat \ {0}
         /\ \E u \in Seq(Replies) :
              /\ u = Tail(l.unread) /\ Len(u) = Len(l.unread) - 1
              /\ Len(u) > 0 => u[Len(u)] = l.unread[Len(l.unread)]
<1>1. PICK s \in Seq(Replies) : s = l.unread
  BY DEF Link
<1>2. s # <<>>
  BY <1>1
<1>3. Head(s) \in Replies /\ Head(s) = s[1] /\ Len(s) \in Nat \ {0}
  BY <1>2
<1> DEFINE u == Tail(s)
<1>4. u \in Seq(Replies) /\ Len(u) = Len(s) - 1 /\ (Len(u) > 0 => u[Len(u)] = s[Len(s)])
  BY <1>2
<1> HIDE DEF u
<1>5. u = Tail(s)
  BY DEF u
<1> QED BY <1>1, <1>3, <1>4, <1>5

\* The last reply of the session is the one to the caller's own command.
LEMMA LastIsOwn ==
  ASSUME NEW l \in Link, LinkInv(l), l.socket = "open", l.unread # <<>>, l.completed = Session,
         ~fails(Head(l.unread))
  PROVE  l.answer # None /\ Head(l.unread) = l.answer
<1>1. PICK t \in Nat, n \in Nat \ {0} : t = l.toRun /\ n = Len(l.unread)
  BY TakeReply, SessionNat DEF Link
<1>2. Session + n + t = Session + 1
  BY <1>1 DEF LinkInv
<1>3. n = 1 /\ t = 0
  BY <1>2, SessionNat
<1>4. Head(l.unread) = l.unread[Len(l.unread)]
  BY <1>1, <1>3, TakeReply
<1>5. OwnReplyLast(l)
  BY <1>1, <1>3 DEF LinkInv
<1> QED BY <1>4, <1>5 DEF OwnReplyLast

\* One reply is handled: the promise settles with the caller's own answer, is
\* rejected, or waits on.
LEMMA ReceiveStep ==
  ASSUME LinksOK, NEW c \in Callers, Receive(c)
  PROVE  /\ LinksOK'
         /\ Same(link[c], link'[c]) \/ Resolves(link[c], link'[c]) \/ Rejects(link[c], link'[c])
         /\ \A d \in Callers : d # c => link'[d] = link[d]
<1>1. PICK l \in Link : l = link[c] /\ LinkInv(l) /\ l.socket = "open" /\ l.unread # <<>>
  BY DEF LinksOK, LinksTyped, Receive
<1>2. PICK reply \in Replies : reply = Head(l.unread)
  BY <1>1, TakeReply
<1>3. PICK u \in Seq(Replies) : /\ u = Tail(l.unread) /\ Len(u) = Len(l.unread) - 1
                                /\ Len(u) > 0 => u[Len(u)] = l.unread[Len(l.unread)]
  BY <1>1, TakeReply
<1>4. PICK k \in Nat, n \in Nat \ {0}, t \in Nat : k = l.completed /\ n = Len(l.unread) /\ t = l.toRun
  <2>1. l.completed \in Nat /\ l.toRun \in Nat /\ Len(l.unread) \in Nat \ {0}
    <3>1. Len(l.unread) \in Nat \ {0}
      BY <1>1, TakeReply
    <3> QED BY <3>1, SessionNat DEF Link
  <2> QED BY <2>1
<1>5. k <= Session /\ k + n + t = Session + 1
  BY <1>1, <1>4 DEF LinkInv
<1>6. PICK done \in 0 .. Session + 1 : done = k + 1
  BY <1>5, SessionNat
<1>7. PICK socket \in {"closed", "open"} :
        socket = IF fails(reply) \/ lastReply(done) THEN "closed" ELSE "open"
  OBVIOUS
<1>8. PICK promise \in {"pending", "resolved", "rejected"} :
        promise = IF fails(reply) THEN "rejected" ELSE IF lastReply(done) THEN "resolved" ELSE "pending"
  OBVIOUS
<1>9. PICK result \in Replies \cup {None} : result = IF ~fails(reply) /\ lastReply(done) THEN reply ELSE l.result
  BY DEF Link
<1>10. l.promise = "pending"
  BY <1>1 DEF LinkInv
<1> DEFINE m == [l EXCEPT !.unread = u, !.completed = done, !.socket = socket, !.promise = promise,
                          !.result = result]
<1>11. m \in Link
  BY DEF Link
<1>12. /\ m.socket = socket /\ m.toRun = t /\ m.unread = u /\ m.completed = done /\ m.promise = promise
       /\ m.result = result /\ m.answer = l.answer
  BY <1>4 DEF Link
<1>13. link' = [link EXCEPT ![c] = m]
  <2>1. link' = [link EXCEPT ![c] =
          [l EXCEPT !.unread = Tail(l.unread), !.completed = l.completed + 1,
                    !.socket = IF fails(Head(l.unread)) \/ lastReply(l.completed + 1) THEN "closed" ELSE l.socket,
                    !.promise = IF fails(Head(l.unread)) THEN "rejected"
                                ELSE IF lastReply(l.completed + 1) THEN "resolved" ELSE l.promise,
                    !.result = IF ~fails(Head(l.unread)) /\ lastReply(l.completed + 1) THEN Head(l.unread)
                               ELSE l.result]]
    BY <1>1 DEF Receive, LinksOK, LinksTyped, Link
  <2> QED BY <1>1, <1>2, <1>3, <1>4, <1>6, <1>7, <1>8, <1>9, <1>10, <2>1
<1> HIDE DEF m
<1>14. l.toRun > 0 => l.answer = None
  BY <1>1 DEF LinkInv
<1>15. LinkInv(m) /\ (Same(l, m) \/ Resolves(l, m) \/ Rejects(l, m))
  <2>1. CASE fails(reply)
    <3>1. socket = "closed" /\ promise = "rejected" /\ result = l.result
      BY <1>7, <1>8, <1>9, <2>1
    <3> QED BY <1>4, <1>10, <1>12, <1>14, <3>1 DEF LinkInv, Rejects
  <2>2. CASE ~fails(reply) /\ lastReply(done)
    <3>1. socket = "closed" /\ promise = "resolved" /\ result = reply
      BY <1>7, <1>8, <1>9, <2>2
    <3>2. l.completed = Session
      BY <1>4, <1>6, <2>2, SessionNat DEF lastReply
    <3>3. l.answer # None /\ reply = l.answer
      BY <1>1, <1>2, <2>2, <3>2, LastIsOwn
    <3> QED BY <1>4, <1>10, <1>12, <1>14, <3>1, <3>3 DEF LinkInv, Resolves
  <2>3. CASE ~fails(reply) /\ ~lastReply(done)
    <3>1. socket = "open" /\ promise = "pending" /\ result = l.result
      BY <1>7, <1>8, <1>9, <2>3
    <3>2. done <= Session /\ done + Len(u) + t = Session + 1
      BY <1>3, <1>4, <1>5, <1>6, <2>3, SessionNat DEF lastReply
    <3>3. ASSUME t = 0 PROVE OwnReplyLast(m)
      <4>1. n > 1
        BY <1>5, <1>6, <3>2, <3>3, SessionNat
      <4>2. u[Len(u)] = l.unread[Len(l.unread)]
        BY <1>3, <1>4, <4>1
      <4>3. OwnReplyLast(l)
        BY <1>1, <1>4, <3>3 DEF LinkInv
      <4> QED BY <1>12, <4>2, <4>3 DEF OwnReplyLast
    <3> QED BY <1>4, <1>10, <1>12, <1>14, <3>1, <3>2, <3>3 DEF LinkInv, Same
  <2> QED BY <2>1, <2>2, <2>3
<1> QED BY <1>1, <1>11, <1>13, <1>15, LinkStep

\* The socket is destroyed with an error: the pending promise is rejected.
LEMMA DestroyStep ==
  ASSUME LinksOK, NEW c \in Callers, SocketTimeout(c) \/ SocketError(c)
  PROVE  /\ LinksOK' /\ Rejects(link[c], link'[c])
         /\ \A d \in Callers : d # c => link'[d] = link[d]
<1>1. PICK l \in Link : l = link[c] /\ LinkInv(l) /\ l.socket \in {"connecting", "open"}
  BY DEF LinksOK, LinksTyped, SocketTimeout, SocketError, connected
<1>2. l.promise = "pending"
  BY <1>1 DEF LinkInv
<1> DEFINE m == [l EXCEPT !.socket = "closed", !.promise = "rejected"]
<1>3. m \in Link
  BY DEF Link
<1>4. /\ m.socket = "closed" /\ m.toRun = l.toRun /\ m.promise = "rejected" /\ m.answer = l.answer
      /\ m.result = l.result
  BY DEF Link
<1>5. link' = [link EXCEPT ![c] = m]
  BY <1>1, <1>2 DEF SocketTimeout, SocketError, destroyed, LinksOK, LinksTyped, Link
<1> HIDE DEF m
<1>6. LinkInv(m) /\ Rejects(l, m)
  BY <1>1, <1>2, <1>4 DEF LinkInv, Rejects
<1> QED BY <1>1, <1>3, <1>5, <1>6, LinkStep

\* The server hangs up: nothing settles.
LEMMA PeerClosesStep ==
  ASSUME LinksOK, NEW c \in Callers, PeerCloses(c)
  PROVE  /\ LinksOK' /\ Same(link[c], link'[c])
         /\ \A d \in Callers : d # c => link'[d] = link[d]
<1>1. PICK l \in Link : l = link[c] /\ LinkInv(l) /\ l.socket = "open"
  BY DEF LinksOK, LinksTyped, PeerCloses
<1>2. PICK n \in 0 .. Session + 1 : n = 0
  BY SessionNat
<1> DEFINE m == [l EXCEPT !.socket = "closed", !.toRun = n, !.hungUp = TRUE]
<1>3. m \in Link
  BY DEF Link
<1>4. /\ m.socket = "closed" /\ m.toRun = 0 /\ m.promise = l.promise /\ m.answer = l.answer
      /\ m.result = l.result
  BY <1>2 DEF Link
<1>5. link' = [link EXCEPT ![c] = m]
  BY <1>1, <1>2 DEF PeerCloses, LinksOK, LinksTyped, Link
<1> HIDE DEF m
<1>6. LinkInv(m) /\ Same(l, m)
  BY <1>1, <1>4 DEF LinkInv, Same
<1> QED BY <1>1, <1>3, <1>5, <1>6, LinkStep

\* A settled caller issues its next command.
LEMMA CommandStep ==
  ASSUME LinksOK, NEW c \in Callers, link[c].promise # "pending", command(c)
  PROVE  /\ LinksOK' /\ Asks(link[c], link'[c]) /\ link'[c].promise = "pending"
         /\ \A d \in Callers : d # c => link'[d] = link[d]
<1> DEFINE m == [Unused EXCEPT !.socket = "connecting", !.promise = "pending"]
<1>1. m \in Link /\ LinkInv(m)
  BY UnusedLink
<1>2. m.promise = "pending" /\ m.answer = None /\ m.result = None
  BY DEF Unused
<1>3. link' = [link EXCEPT ![c] = m]
  BY DEF command
<1> HIDE DEF m
<1>4. LinksOK' /\ link'[c] = m /\ \A d \in Callers : d # c => link'[d] = link[d]
  BY <1>1, <1>3, LinkStep
<1> QED BY <1>2, <1>4 DEF Asks

\* Whatever happens on a connection, short of the run of the command.
LEMMA LinkNextStep ==
  ASSUME LinksOK, NEW c \in Callers, LinkNext(c)
  PROVE  /\ LinksOK'
         /\ Same(link[c], link'[c]) \/ Resolves(link[c], link'[c]) \/ Rejects(link[c], link'[c])
         /\ \A d \in Callers : d # c => link'[d] = link[d]
<1>1. CASE Connect(c)
  BY <1>1, ConnectStep
<1>2. CASE RunSession(c)
  BY <1>2, RunSessionStep
<1>3. CASE Refuse(c)
  BY <1>3, RefuseStep
<1>4. CASE Receive(c)
  BY <1>4, ReceiveStep
<1>5. CASE SocketTimeout(c) \/ SocketError(c)
  BY <1>5, DestroyStep
<1>6. CASE PeerCloses(c)
  BY <1>6, PeerClosesStep
<1> QED BY <1>1, <1>2, <1>3, <1>4, <1>5, <1>6 DEF LinkNext

-----------------------------------------------------------------------------
(* The handlers. *)

Waiting == {"ping", "nonce", "usage", "commit", "stream"}
Decided == {"sign", "stream", "persist", "done"}
Admitting == {"nonce", "usage", "commit"}
KeyReads == {"runtime key", "envelope"}
AfterParent == {"passport", "verify passport"} \cup KeyReads
AfterMandate == {"parent", "verify parent"} \cup AfterParent
Reading == {"mandate", "verify mandate"} \cup AfterMandate
Places == {"received", "transit", "resolvers", "evidence", "mandate", "verify mandate"}
            \cup Waiting \cup Decided \cup AfterMandate
Statuses == {"active", "suspended", "retired", "revoked"}
Decisions == {200, 401, 403, 409}
Codes == {0, 200, 400, 401, 403, 404, 405, 409, 413, 503}

Handler == [pc : Places, record : Statuses, vouched : BOOLEAN,
            asked : {"none"} \cup Waiting, loaded : Nat,
            answer : Codes, version : {"none", "pinned", "latest"}, response : Codes,
            condemned : SUBSET Records, since : Nat]

HandlersTyped == at \in [Callers -> Handler]

WorldTyped ==
  /\ config \in Environments /\ starts(config) /\ route \in Routes
  /\ status \in [Records -> Statuses] /\ revocations \subseteq Records /\ usage \in Nat
  /\ publications \in [Keys -> Seq(KeyRecords) \ {<<>>}]

\* A caller whose submission passed every verification.
Admitted(c) ==
  at[c].pc \in Admitting \/ at[c].answer = 200 \/ (submits(c) /\ at[c].response = 200)

\* A handler waits for its command; it has an answer, and responds, at the end.
Placed(c) ==
  /\ link[c].promise = "pending" => at[c].pc \in Waiting
  /\ at[c].answer = 200 => at[c].pc \in Decided
  /\ at[c].response = 200 => at[c].pc = "done"

\* The records of its key that the registry has published since a request
\* arrived.
Underway(c) == {i \in DOMAIN publications[route[c].key] : at[c].since <= i}

Arrived(c) == submits(c) /\ at[c].since \in DOMAIN publications[route[c].key]

\* The Passport lists the key for the agent.
ListsAgent(c) == Listed[route[c].key] # None /\ Listed[route[c].key].controller = Agent

\* One of the records said the same, and then one verified the signature.
Matched(c) == \E first \in Underway(c) : repeats(publications[route[c].key][first], route[c].key)
Bound(c) ==
  \E first, second \in Underway(c) :
    /\ first <= second
    /\ repeats(publications[route[c].key][first], route[c].key)
    /\ verifies(publications[route[c].key][second], route[c].signedWith)

\* What is known of the key a submission is signed with.
KeyChecked(c) ==
  /\ at[c].pc \in Reading \/ Admitted(c) => Arrived(c)
  /\ at[c].pc \in KeyReads /\ at[c].vouched => ListsAgent(c)
  /\ at[c].pc = "envelope" /\ at[c].vouched => Matched(c)
  /\ Admitted(c) => ListsAgent(c) /\ Bound(c)

\* If d was revoked before the request, a status read since then tells, or
\* the Revocation record that named it is still there to be found.
StillTold(c, d) == d \in at[c].condemned /\ at[c].record = "active" => d \in revocations

\* What is known of the documents a submission relies on.
StandingChecked(c) ==
  /\ at[c].condemned \subseteq revokedNow
  /\ at[c].pc = "verify mandate" => StillTold(c, "mandate")
  /\ at[c].pc = "verify parent" => StillTold(c, "parent_mandate")
  /\ at[c].pc = "verify passport" => StillTold(c, "passport")
  /\ at[c].pc \in AfterMandate \/ Admitted(c) => "mandate" \notin at[c].condemned
  /\ route[c].delegated /\ (at[c].pc \in AfterParent \/ Admitted(c)) => "parent_mandate" \notin at[c].condemned
  /\ (at[c].pc \in KeyReads /\ at[c].vouched) \/ Admitted(c) => "passport" \notin at[c].condemned
  /\ Admitted(c) => route[c].key \notin at[c].condemned

\* How far the Receipt of a decision has come.
Kept(c) ==
  /\ at[c].pc = "stream" => /\ at[c].asked = "stream" /\ at[c].version = "pinned"
                            /\ link[c].answer # None => receiptOf(c) \in stream
  /\ at[c].pc = "persist" => at[c].version = "pinned" /\ receiptOf(c) \in stream
  /\ hasEvidence /\ submits(c) /\ at[c].response \in Decisions =>
       [caller |-> c, answer |-> at[c].response, version |-> "pinned"] \in stream \cap evidence

CallerInv(c) == Placed(c) /\ KeyChecked(c) /\ StandingChecked(c) /\ Kept(c)

GatewayInv == WorldTyped /\ HandlersTyped /\ LinksOK /\ \A c \in Callers : CallerInv(c)

\* What a handler's step does for its caller and to the others.
Advances(c) ==
  /\ HandlersTyped' /\ LinksOK' /\ CallerInv(c)'
  /\ link'[c] = link[c] \/ Asks(link[c], link'[c])
  /\ \A d \in Callers : d # c => at'[d] = at[d] /\ link'[d] = link[d]

\* A handler moves on.
LEMMA GoToStep ==
  ASSUME HandlersTyped, NEW c \in Callers, NEW pc \in Places, GoTo(c, pc)
  PROVE  /\ HandlersTyped' /\ \A d \in Callers : d # c => at'[d] = at[d]
         /\ at'[c].pc = pc /\ at'[c].answer = at[c].answer /\ at'[c].response = at[c].response
         /\ at'[c].vouched = at[c].vouched /\ at'[c].record = at[c].record /\ at'[c].asked = at[c].asked
         /\ at'[c].version = at[c].version /\ at'[c].condemned = at[c].condemned /\ at'[c].since = at[c].since
<1>1. PICK h \in Handler : h = at[c]
  BY DEF HandlersTyped
<1> DEFINE g == [h EXCEPT !.pc = pc]
<1>2. /\ g \in Handler
      /\ g.pc = pc /\ g.answer = h.answer /\ g.response = h.response /\ g.vouched = h.vouched
      /\ g.record = h.record /\ g.asked = h.asked /\ g.version = h.version
      /\ g.condemned = h.condemned /\ g.since = h.since
  BY DEF Handler
<1>3. at' = [at EXCEPT ![c] = g]
  BY <1>1 DEF GoTo, HandlersTyped, Handler
<1> HIDE DEF g
<1> QED BY <1>1, <1>2, <1>3 DEF HandlersTyped

\* A handler responds.
LEMMA RespondStep ==
  ASSUME HandlersTyped, NEW c \in Callers, NEW code, Respond(c, code),
         code \in Codes \/ code = at[c].answer
  PROVE  /\ HandlersTyped' /\ \A d \in Callers : d # c => at'[d] = at[d]
         /\ at'[c].pc = "done" /\ at'[c].answer = at[c].answer /\ at'[c].response = code
         /\ at'[c].vouched = at[c].vouched /\ at'[c].record = at[c].record /\ at'[c].asked = at[c].asked
         /\ at'[c].version = at[c].version /\ at'[c].condemned = at[c].condemned /\ at'[c].since = at[c].since
<1>1. PICK h \in Handler : h = at[c]
  BY DEF HandlersTyped
<1>2. code \in Codes
  BY <1>1 DEF Handler
<1> DEFINE g == [h EXCEPT !.pc = "done", !.response = code]
<1>3. /\ g \in Handler
      /\ g.pc = "done" /\ g.answer = h.answer /\ g.response = code /\ g.vouched = h.vouched
      /\ g.record = h.record /\ g.asked = h.asked /\ g.version = h.version
      /\ g.condemned = h.condemned /\ g.since = h.since
  BY <1>2 DEF Handler, Places, Decided
<1>4. at' = [at EXCEPT ![c] = g]
  BY <1>1 DEF Respond, HandlersTyped, Handler
<1> HIDE DEF g
<1> QED BY <1>1, <1>3, <1>4 DEF HandlersTyped

\* A handler has a decision to record.
LEMMA DecideStep ==
  ASSUME HandlersTyped, NEW c \in Callers, NEW code \in Codes, Decide(c, code)
  PROVE  /\ HandlersTyped' /\ \A d \in Callers : d # c => at'[d] = at[d]
         /\ at'[c].pc = "sign" /\ at'[c].answer = code /\ at'[c].response = at[c].response
         /\ at'[c].vouched = at[c].vouched /\ at'[c].record = at[c].record /\ at'[c].asked = at[c].asked
         /\ at'[c].version = at[c].version /\ at'[c].condemned = at[c].condemned /\ at'[c].since = at[c].since
<1>1. PICK h \in Handler : h = at[c]
  BY DEF HandlersTyped
<1> DEFINE g == [h EXCEPT !.pc = "sign", !.answer = code]
<1>2. /\ g \in Handler
      /\ g.pc = "sign" /\ g.answer = code /\ g.response = h.response /\ g.vouched = h.vouched
      /\ g.record = h.record /\ g.asked = h.asked /\ g.version = h.version
      /\ g.condemned = h.condemned /\ g.since = h.since
  BY DEF Handler, Places, Decided
<1>3. at' = [at EXCEPT ![c] = g]
  BY <1>1 DEF Decide, HandlersTyped, Handler
<1> HIDE DEF g
<1> QED BY <1>1, <1>2, <1>3 DEF HandlersTyped

\* A handler issues a command and waits for it.
LEMMA AskStep ==
  ASSUME HandlersTyped, LinksOK, NEW c \in Callers, link[c].promise # "pending", NEW pc \in Waiting,
         AskValkey(c, pc)
  PROVE  /\ HandlersTyped' /\ LinksOK' /\ Asks(link[c], link'[c]) /\ link'[c].promise = "pending"
         /\ \A d \in Callers : d # c => at'[d] = at[d] /\ link'[d] = link[d]
         /\ at'[c].pc = pc /\ at'[c].answer = at[c].answer /\ at'[c].response = at[c].response
         /\ at'[c].vouched = at[c].vouched /\ at'[c].record = at[c].record /\ at'[c].asked = pc
         /\ at'[c].version = at[c].version /\ at'[c].condemned = at[c].condemned /\ at'[c].since = at[c].since
<1>1. PICK h \in Handler : h = at[c]
  BY DEF HandlersTyped
<1> DEFINE g == [h EXCEPT !.pc = pc, !.asked = pc]
<1>2. /\ g \in Handler
      /\ g.pc = pc /\ g.answer = h.answer /\ g.response = h.response /\ g.vouched = h.vouched
      /\ g.record = h.record /\ g.asked = pc /\ g.version = h.version
      /\ g.condemned = h.condemned /\ g.since = h.since
  BY DEF Handler, Places
<1>3. at' = [at EXCEPT ![c] = g]
  BY <1>1 DEF AskValkey, HandlersTyped, Handler
<1> HIDE DEF g
<1>4. /\ LinksOK' /\ Asks(link[c], link'[c]) /\ link'[c].promise = "pending"
      /\ \A d \in Callers : d # c => link'[d] = link[d]
  BY CommandStep DEF AskValkey
<1> QED BY <1>1, <1>2, <1>3, <1>4 DEF HandlersTyped

\* A step that leaves the registry alone leaves what is revoked alone.
LEMMA SameRevoked ==
  ASSUME UNCHANGED registry
  PROVE  /\ revokedNow' = revokedNow /\ revocations' = revocations
         /\ config' = config /\ route' = route /\ status' = status /\ publications' = publications
         /\ \A c : submits(c)' = submits(c)
         /\ hasEvidence' = hasEvidence
BY DEF registry, revokedNow, submits, hasEvidence

\* What is known of a key does not depend on where the handler is.
LEMMA SameKey ==
  ASSUME NEW c \in Callers, UNCHANGED registry, at'[c].since = at[c].since
  PROVE  Arrived(c)' = Arrived(c) /\ ListsAgent(c)' = ListsAgent(c) /\ Matched(c)' = Matched(c) /\ Bound(c)' = Bound(c)
<1>1. route' = route /\ publications' = publications /\ submits(c)' = submits(c)
  BY SameRevoked
<1>2. Underway(c)' = Underway(c)
  BY <1>1 DEF Underway
<1>3. Arrived(c)' = Arrived(c) /\ ListsAgent(c)' = ListsAgent(c)
  BY <1>1 DEF Arrived, ListsAgent
<1>4. Matched(c)' = Matched(c) /\ Bound(c)' = Bound(c)
  BY <1>1, <1>2 DEF Matched, Bound
<1> QED BY <1>3, <1>4

\* What is published is not withdrawn.
Growing ==
  \A k \in Keys : \A i \in DOMAIN publications[k] :
    i \in DOMAIN publications'[k] /\ publications'[k][i] = publications[k][i]

LEMMA KeyGrown ==
  ASSUME WorldTyped, NEW c \in Callers, route' = route, at'[c] = at[c], Growing, Arrived(c)
  PROVE  Arrived(c)' /\ (ListsAgent(c) => ListsAgent(c)') /\ (Matched(c) => Matched(c)') /\ (Bound(c) => Bound(c)')
<1>1. PICK k \in Keys : k = route[c].key
  BY RoutesTyped DEF Arrived, submits, WorldTyped
<1>2. \A i \in Underway(c) : i \in Underway(c)' /\ publications'[k][i] = publications[k][i]
  BY <1>1 DEF Underway, Growing
<1>3. Arrived(c)' /\ (ListsAgent(c) => ListsAgent(c)')
  BY <1>1 DEF Arrived, ListsAgent, Growing, submits
<1>4. ASSUME Matched(c) PROVE Matched(c)'
  BY <1>1, <1>2, <1>4 DEF Matched, repeats
<1>5. ASSUME Bound(c) PROVE Bound(c)'
  <2>1. PICK first \in Underway(c), second \in Underway(c) :
          /\ first <= second /\ repeats(publications[k][first], k)
          /\ verifies(publications[k][second], route[c].signedWith)
    BY <1>1, <1>5 DEF Bound
  <2>2. /\ repeats(publications'[k][first], k) /\ verifies(publications'[k][second], route[c].signedWith)
        /\ first \in Underway(c)' /\ second \in Underway(c)'
    BY <1>2, <2>1
  <2> QED BY <1>1, <2>1, <2>2 DEF Bound
<1> QED BY <1>3, <1>4, <1>5

\* A response that is no decision, or of a caller that submits nothing.
LEMMA PlainResponse ==
  ASSUME HandlersTyped, LinksOK, NEW c \in Callers, CallerInv(c), link[c].promise # "pending",
         NEW code \in Codes, Respond(c, code), submits(c) => code \notin Decisions,
         UNCHANGED registry, UNCHANGED link
  PROVE  Advances(c)
<1>1. /\ HandlersTyped' /\ \A d \in Callers : d # c => at'[d] = at[d]
      /\ at'[c].pc = "done" /\ at'[c].answer = at[c].answer /\ at'[c].response = code
      /\ at'[c].condemned = at[c].condemned /\ at'[c].since = at[c].since
  BY RespondStep
<1>2. LinksOK' /\ \A d \in Callers : link'[d] = link[d]
  BY DEF LinksOK, LinksTyped
<1>3. Admitted(c)' => Admitted(c)
  BY <1>1, SameRevoked DEF Admitted, Admitting, Decisions
<1>4. revokedNow' = revokedNow /\ route' = route
  BY SameRevoked
<1>5. Placed(c)'
  BY <1>1, <1>2 DEF Placed, Decided
<1>6. KeyChecked(c)'
  BY <1>1, <1>3, SameKey DEF CallerInv, KeyChecked, Reading, AfterMandate, AfterParent, KeyReads
<1>7. StandingChecked(c)'
  BY <1>1, <1>3, <1>4 DEF CallerInv, StandingChecked, AfterMandate, AfterParent, KeyReads
<1>8. Kept(c)'
  BY <1>1, SameRevoked DEF Kept, Decisions
<1> QED BY <1>1, <1>2, <1>5, <1>6, <1>7, <1>8 DEF Advances, CallerInv

\* A decision against the request.
LEMMA Denial ==
  ASSUME HandlersTyped, LinksOK, NEW c \in Callers, CallerInv(c), link[c].promise # "pending",
         NEW code \in Codes \ {200}, Decide(c, code), at[c].pc # "done", Untouched, UNCHANGED link
  PROVE  Advances(c)
<1>1. /\ HandlersTyped' /\ \A d \in Callers : d # c => at'[d] = at[d]
      /\ at'[c].pc = "sign" /\ at'[c].answer = code /\ at'[c].response = at[c].response
      /\ at'[c].condemned = at[c].condemned /\ at'[c].since = at[c].since
  BY DecideStep
<1>2. LinksOK' /\ \A d \in Callers : link'[d] = link[d]
  BY DEF LinksOK, LinksTyped
<1>3. UNCHANGED registry /\ stream' = stream /\ evidence' = evidence
  BY DEF Untouched, valkey
<1>4. Admitted(c)' => Admitted(c)
  BY <1>1, <1>3, SameRevoked DEF Admitted, Admitting
<1>5. Placed(c)'
  BY <1>1, <1>2 DEF CallerInv, Placed, Decided
<1>6. KeyChecked(c)'
  BY <1>1, <1>3, <1>4, SameKey DEF CallerInv, KeyChecked, Reading, AfterMandate, AfterParent, KeyReads
<1>7. StandingChecked(c)'
  BY <1>1, <1>3, <1>4, SameRevoked DEF CallerInv, StandingChecked, AfterMandate, AfterParent, KeyReads
<1>8. Kept(c)'
  BY <1>1, <1>3, SameRevoked DEF CallerInv, Kept
<1> QED BY <1>1, <1>2, <1>5, <1>6, <1>7, <1>8 DEF Advances, CallerInv

\* The handler decides 401, 403 or 409 at a place before the decision.
LEMMA Denies ==
  ASSUME HandlersTyped, LinksOK, NEW c \in Callers, CallerInv(c), link[c].promise # "pending",
         Decide(c, 401) \/ Decide(c, 403) \/ Decide(c, 409), at[c].pc \notin Decided, Untouched, UNCHANGED link
  PROVE  Advances(c)
<1>1. 401 \in Codes \ {200} /\ 403 \in Codes \ {200} /\ 409 \in Codes \ {200}
  BY DEF Codes
<1>2. PICK code \in Codes \ {200} : Decide(c, code)
  BY <1>1
<1>3. at[c].pc # "done"
  BY DEF Decided
<1> QED BY <1>2, <1>3, Denial

\* What one caller's handler knows stays true while others act: revocations
\* are for good, Receipts are not withdrawn.
LEMMA Undisturbed ==
  ASSUME WorldTyped, NEW c \in Callers, CallerInv(c), at'[c] = at[c], link'[c] = link[c],
         config' = config, route' = route, Growing, revocations \subseteq revocations',
         \A x \in Records : status[x] = "revoked" => status'[x] = "revoked",
         stream \subseteq stream', evidence \subseteq evidence'
  PROVE  CallerInv(c)'
<1>1. revokedNow \subseteq revokedNow'
  BY DEF revokedNow
<1>2. Admitted(c)' = Admitted(c) /\ submits(c)' = submits(c) /\ hasEvidence' = hasEvidence
  BY DEF Admitted, submits, hasEvidence
<1>3. Placed(c)' /\ KeyChecked(c)'
  <2>1. KeyChecked(c)
    BY DEF CallerInv
  <2>2. CASE Arrived(c)
    <3>1. Arrived(c)' /\ (ListsAgent(c) => ListsAgent(c)') /\ (Matched(c) => Matched(c)') /\ (Bound(c) => Bound(c)')
      BY <2>2, KeyGrown
    <3> QED BY <1>2, <2>1, <3>1 DEF CallerInv, Placed, KeyChecked
  <2>3. CASE ~Arrived(c)
    BY <1>2, <2>1, <2>3 DEF CallerInv, Placed, KeyChecked, Reading, AfterMandate, AfterParent, KeyReads
  <2> QED BY <2>2, <2>3
<1>4. StandingChecked(c)'
  BY <1>1, <1>2 DEF CallerInv, StandingChecked, StillTold
<1>5. Kept(c)'
  BY <1>2 DEF CallerInv, Kept, receiptOf
<1> QED BY <1>3, <1>4, <1>5 DEF CallerInv

-----------------------------------------------------------------------------
(* One lemma per step of a handler. *)

\* A handler that has not decided goes on without a response: nothing has
\* been let through, and what is left to show is what its new place claims.
LEMMA Onward ==
  ASSUME NEW c \in Callers, CallerInv(c), at[c].pc \notin Decided,
         at'[c].answer = at[c].answer, at'[c].response = at[c].response,
         at'[c].pc \notin Decided, link'[c].promise = "pending" => at'[c].pc \in Waiting, Untouched
  PROVE  /\ Placed(c)' /\ Kept(c)'
         /\ Admitted(c) <=> at[c].pc \in Admitting
         /\ Admitted(c)' <=> at'[c].pc \in Admitting
         /\ config' = config /\ route' = route /\ status' = status /\ revocations' = revocations
         /\ revokedNow' = revokedNow
<1>1. UNCHANGED registry /\ stream' = stream /\ evidence' = evidence
  BY DEF Untouched, valkey
<1>2. at[c].answer # 200 /\ at[c].response # 200
  BY DEF CallerInv, Placed, Decided
<1>3. Placed(c)'
  BY <1>2 DEF Placed
<1>4. Kept(c)'
  <2>1. at'[c].pc \notin {"stream", "persist"}
    BY DEF Decided
  <2>2. submits(c)' = submits(c) /\ hasEvidence' = hasEvidence
    BY <1>1, SameRevoked
  <2> QED BY <1>1, <2>1, <2>2 DEF CallerInv, Kept
<1>5. /\ Admitted(c) <=> at[c].pc \in Admitting
      /\ Admitted(c)' <=> at'[c].pc \in Admitting
  BY <1>2 DEF Admitted
<1> QED BY <1>1, <1>3, <1>4, <1>5, SameRevoked

\* Nothing is pending where a handler does not wait, or has seen its command
\* settled.
LEMMA Quiet ==
  ASSUME NEW c \in Callers, CallerInv(c), at[c].pc \notin Waiting \/ resolved(c) \/ rejected(c)
  PROVE  link[c].promise # "pending"
BY DEF CallerInv, Placed, resolved, rejected

\* /healthz, /invalidate-cache and unknown paths.
LEMMA AnswerSimpleStep ==
  ASSUME HandlersTyped, LinksOK, NEW c \in Callers, CallerInv(c), AnswerSimple(c)
  PROVE  Advances(c)
<1>1. PICK code \in Codes : Respond(c, code)
  <2>1. 200 \in Codes /\ 400 \in Codes /\ 401 \in Codes /\ 404 \in Codes /\ 405 \in Codes
    BY DEF Codes
  <2> QED BY <2>1 DEF AnswerSimple
<1>2. ~submits(c)
  BY DEF AnswerSimple, submits
<1>3. link[c].promise # "pending"
  <2>1. at[c].pc \notin Waiting
    BY DEF AnswerSimple, Waiting
  <2> QED BY <2>1, Quiet
<1>4. UNCHANGED registry /\ UNCHANGED link
  BY DEF AnswerSimple, Untouched
<1> QED BY <1>1, <1>2, <1>3, <1>4, PlainResponse

\* The handler of /readyz goes on: it submits nothing, so nothing is claimed
\* of its key or its documents.
LEMMA ProbeMoves ==
  ASSUME HandlersTyped, NEW c \in Callers, CallerInv(c), at[c].pc \notin Decided,
         at'[c].answer = at[c].answer, at'[c].response = at[c].response,
         at'[c].condemned = at[c].condemned, at'[c].since = at[c].since,
         at'[c].pc \in {"ping", "transit", "resolvers", "evidence"},
         link'[c].promise = "pending" => at'[c].pc = "ping", Untouched
  PROVE  CallerInv(c)'
<1>1. at'[c].pc \notin Decided /\ at'[c].pc \notin Admitting /\ at'[c].pc \notin KeyReads /\ at'[c].pc \notin Reading
  BY DEF Decided, Admitting, KeyReads, Reading, AfterMandate, AfterParent
<1>2. at'[c].pc \notin AfterMandate \cup AfterParent \cup {"verify mandate", "verify parent", "verify passport"}
  BY DEF AfterMandate, AfterParent, KeyReads
<1>3. link'[c].promise = "pending" => at'[c].pc \in Waiting
  BY DEF Waiting
<1>4. Placed(c)' /\ Kept(c)' /\ ~Admitted(c)' /\ revokedNow' = revokedNow
  BY <1>1, <1>3, Onward
<1>5. KeyChecked(c)'
  BY <1>1, <1>4 DEF KeyChecked, KeyReads
<1>6. StandingChecked(c)'
  BY <1>1, <1>2, <1>4 DEF StandingChecked, CallerInv
<1> QED BY <1>4, <1>5, <1>6 DEF CallerInv

\* /readyz.
LEMMA ProbeStep ==
  ASSUME HandlersTyped, LinksOK, NEW c \in Callers, CallerInv(c), Probe(c)
  PROVE  Advances(c)
<1>1. Untouched /\ UNCHANGED registry /\ ~submits(c)
  BY DEF Probe, Untouched, submits
<1>2. CASE \E code \in Codes : Respond(c, code) /\ UNCHANGED link /\ link[c].promise # "pending"
  BY <1>1, <1>2, PlainResponse
<1>3. CASE at[c].pc = "received" /\ AskValkey(c, "ping")
  <2>1. at[c].pc \notin Waiting /\ at[c].pc \notin Decided /\ "ping" \in Waiting
    BY <1>3 DEF Waiting, Decided
  <2>2. link[c].promise # "pending"
    BY <2>1, Quiet
  <2>3. /\ HandlersTyped' /\ LinksOK' /\ Asks(link[c], link'[c])
        /\ \A d \in Callers : d # c => at'[d] = at[d] /\ link'[d] = link[d]
        /\ at'[c].pc = "ping" /\ at'[c].answer = at[c].answer /\ at'[c].response = at[c].response
        /\ at'[c].condemned = at[c].condemned /\ at'[c].since = at[c].since
    BY <1>3, <2>1, <2>2, AskStep
  <2>4. CallerInv(c)'
    BY <1>1, <2>1, <2>3, ProbeMoves
  <2> QED BY <2>3, <2>4 DEF Advances
<1>4. CASE \E pc \in {"transit", "resolvers", "evidence"} :
             at[c].pc \notin Decided /\ GoTo(c, pc) /\ UNCHANGED link /\ link[c].promise # "pending"
  <2>1. PICK pc \in {"transit", "resolvers", "evidence"} :
          at[c].pc \notin Decided /\ GoTo(c, pc) /\ UNCHANGED link /\ link[c].promise # "pending"
    BY <1>4
  <2>2. pc \in Places
    BY DEF Places
  <2>3. /\ HandlersTyped' /\ \A d \in Callers : d # c => at'[d] = at[d]
        /\ at'[c].pc = pc /\ at'[c].answer = at[c].answer /\ at'[c].response = at[c].response
        /\ at'[c].condemned = at[c].condemned /\ at'[c].since = at[c].since
    BY <2>1, <2>2, GoToStep
  <2>4. LinksOK' /\ \A d \in Callers : link'[d] = link[d]
    BY <2>1 DEF LinksOK, LinksTyped
  <2>5. CallerInv(c)'
    BY <1>1, <2>1, <2>3, <2>4, ProbeMoves
  <2> QED BY <2>3, <2>4, <2>5 DEF Advances
<1>5. at[c].pc \in {"received", "ping", "transit", "resolvers", "evidence"}
  BY DEF Probe
<1>6. at[c].pc \notin Decided /\ (at[c].pc # "ping" => at[c].pc \notin Waiting) /\ 200 \in Codes /\ 503 \in Codes
  BY <1>5 DEF Decided, Waiting, Codes
<1>7. at[c].pc # "ping" \/ resolved(c) \/ rejected(c) => link[c].promise # "pending"
  BY <1>6, Quiet
<1> QED BY <1>2, <1>3, <1>4, <1>6, <1>7 DEF Probe, Unavailable

\* No answer from a service, or a body that is refused.
LEMMA GivesUp ==
  ASSUME HandlersTyped, LinksOK, NEW c \in Callers, CallerInv(c), link[c].promise # "pending",
         Unavailable(c) \/ Respond(c, 400) \/ Respond(c, 413), UNCHANGED registry, UNCHANGED link
  PROVE  Advances(c)
<1>1. 503 \in Codes \ Decisions /\ 400 \in Codes \ Decisions /\ 413 \in Codes \ Decisions
  BY DEF Codes, Decisions
<1> QED BY <1>1, PlainResponse DEF Unavailable

\* A sequence that is not empty has a last element.
LEMMA LenInDomain ==
  ASSUME NEW S, NEW p \in Seq(S) \ {<<>>}
  PROVE  Len(p) \in Nat /\ Len(p) \in DOMAIN p
OBVIOUS

\* A request arrives: what is revoked by now must not be relied on, and what
\* is published for its key from now on may be.
LEMMA AuthorizeStep ==
  ASSUME HandlersTyped, WorldTyped, LinksOK, NEW c \in Callers, CallerInv(c), Authorize(c)
  PROVE  Advances(c)
<1>1. at[c].pc \notin Waiting /\ at[c].pc \notin Decided /\ at[c].pc \notin Admitting
  BY DEF Authorize, Waiting, Decided, Admitting
<1>2. link[c].promise # "pending" /\ Untouched /\ UNCHANGED registry /\ UNCHANGED link
  BY <1>1, Quiet DEF Authorize, Untouched
<1>3. CASE Unavailable(c) \/ Respond(c, 400) \/ Respond(c, 413)
  BY <1>2, <1>3, GivesUp
<1>4. CASE at' = [at EXCEPT ![c].pc = "mandate", ![c].condemned = revokedNow,
                            ![c].since = Len(publications[route[c].key])]
  <2>1. PICK h \in Handler : h = at[c]
    BY DEF HandlersTyped
  <2>2. PICK revoked \in SUBSET Records : revoked = revokedNow
    BY DEF WorldTyped, revokedNow
  <2>3. submits(c)
    BY DEF Authorize, submits
  <2>4. PICK n \in Nat : n = Len(publications[route[c].key]) /\ n \in DOMAIN publications[route[c].key]
    <3>1. PICK p \in Seq(KeyRecords) \ {<<>>} : p = publications[route[c].key]
      BY <2>3, RoutesTyped DEF WorldTyped, submits
    <3>2. Len(p) \in Nat /\ Len(p) \in DOMAIN p
      BY <3>1, LenInDomain
    <3> QED BY <3>1, <3>2
  <2> DEFINE g == [h EXCEPT !.pc = "mandate", !.condemned = revoked, !.since = n]
  <2>5. /\ g \in Handler /\ g.pc = "mandate" /\ g.answer = h.answer /\ g.response = h.response
        /\ g.condemned = revoked /\ g.since = n
    BY DEF Handler, Places, AfterMandate
  <2>6. at' = [at EXCEPT ![c] = g]
    BY <1>4, <2>1, <2>2, <2>4 DEF HandlersTyped, Handler
  <2> HIDE DEF g
  <2>7. /\ HandlersTyped' /\ \A d \in Callers : d # c => at'[d] = at[d]
        /\ at'[c].pc = "mandate" /\ at'[c].answer = at[c].answer /\ at'[c].response = at[c].response
        /\ at'[c].condemned = revokedNow /\ at'[c].since = n
    BY <2>1, <2>2, <2>5, <2>6 DEF HandlersTyped
  <2>8. LinksOK' /\ \A d \in Callers : link'[d] = link[d]
    BY <1>2 DEF LinksOK, LinksTyped
  <2>9. at'[c].pc \notin Decided /\ at'[c].pc \notin Admitting
    BY <2>7 DEF Decided, Admitting
  <2>10. Placed(c)' /\ Kept(c)' /\ ~Admitted(c)' /\ revokedNow' = revokedNow
    BY <1>1, <1>2, <2>7, <2>8, <2>9, Onward
  <2>11. Arrived(c)'
    BY <1>2, <2>3, <2>4, <2>7, SameRevoked DEF Arrived
  <2>12. KeyChecked(c)'
    BY <2>7, <2>10, <2>11 DEF KeyChecked, KeyReads
  <2>13. StandingChecked(c)'
    BY <2>7, <2>10 DEF StandingChecked, AfterMandate, AfterParent, KeyReads
  <2> QED BY <2>7, <2>8, <2>10, <2>12, <2>13 DEF Advances, CallerInv
<1> QED BY <1>3, <1>4 DEF Authorize

\* boundPublicDocument: a status read since the request arrived tells of
\* every revocation before it.
LEMMA ReadStep ==
  ASSUME HandlersTyped, WorldTyped, LinksOK, NEW c \in Callers, CallerInv(c),
         NEW document \in Documents, NEW next, ReadRecord(c, document, next),
         \/ at[c].pc = "mandate" /\ document = "mandate" /\ next = "verify mandate"
         \/ at[c].pc = "parent" /\ document = "parent_mandate" /\ next = "verify parent"
         \/ at[c].pc = "passport" /\ document = "passport" /\ next = "verify passport"
  PROVE  Advances(c)
<1>1. at[c].pc \notin Waiting /\ at[c].pc \notin Decided /\ at[c].pc \notin Admitting
  BY DEF Waiting, Decided, Admitting
<1>2. link[c].promise # "pending" /\ Untouched /\ UNCHANGED registry /\ UNCHANGED link
  BY <1>1, Quiet DEF ReadRecord, Untouched
<1>3. CASE Unavailable(c)
  BY <1>2, <1>3, GivesUp
<1>4. CASE at' = [at EXCEPT ![c].pc = next, ![c].record = status[document]]
  <2>1. PICK h \in Handler : h = at[c]
    BY DEF HandlersTyped
  <2>2. PICK read \in Statuses : read = status[document]
    BY DEF WorldTyped, Records
  <2>3. next \in Places /\ next \notin Decided /\ next \notin Admitting /\ next \notin KeyReads
    BY DEF Places, AfterMandate, AfterParent, Decided, Admitting, KeyReads
  <2> DEFINE g == [h EXCEPT !.pc = next, !.record = read]
  <2>4. /\ g \in Handler /\ g.pc = next /\ g.answer = h.answer /\ g.response = h.response
        /\ g.condemned = h.condemned /\ g.since = h.since /\ g.record = read
    BY <2>3 DEF Handler
  <2>5. at' = [at EXCEPT ![c] = g]
    BY <1>4, <2>1, <2>2 DEF HandlersTyped, Handler
  <2> HIDE DEF g
  <2>6. /\ HandlersTyped' /\ \A d \in Callers : d # c => at'[d] = at[d]
        /\ at'[c].pc = next /\ at'[c].answer = at[c].answer /\ at'[c].response = at[c].response
        /\ at'[c].condemned = at[c].condemned /\ at'[c].since = at[c].since /\ at'[c].record = status[document]
    BY <2>1, <2>2, <2>4, <2>5 DEF HandlersTyped
  <2>7. LinksOK' /\ \A d \in Callers : link'[d] = link[d]
    BY <1>2 DEF LinksOK, LinksTyped
  <2>8. /\ Placed(c)' /\ Kept(c)' /\ ~Admitted(c)' /\ revokedNow' = revokedNow /\ route' = route
        /\ revocations' = revocations
    BY <1>1, <1>2, <2>3, <2>6, <2>7, Onward
  <2>9. KeyChecked(c)'
    <3>1. Arrived(c)
      BY DEF CallerInv, KeyChecked, Reading, AfterMandate, AfterParent
    <3>2. Arrived(c)'
      BY <1>2, <2>6, <3>1, SameKey
    <3> QED BY <2>3, <2>6, <2>8, <3>2 DEF KeyChecked, KeyReads
  <2>10. StandingChecked(c)'
    <3>1. StandingChecked(c)
      BY DEF CallerInv
    <3>2. StillTold(c, document)'
      <4>1. SUFFICES ASSUME document \in at[c].condemned, status[document] = "active"
                     PROVE  document \in revocations
        BY <2>6, <2>8 DEF StillTold
      <4>2. document \in revokedNow
        BY <3>1, <4>1 DEF StandingChecked
      <4> QED BY <4>1, <4>2 DEF revokedNow
    <3>3. CASE document = "mandate"
      BY <2>3, <2>6, <2>8, <3>1, <3>2, <3>3 DEF StandingChecked, AfterMandate, AfterParent
    <3>4. CASE document = "parent_mandate"
      BY <2>3, <2>6, <2>8, <3>1, <3>2, <3>4 DEF StandingChecked, AfterMandate, AfterParent
    <3>5. CASE document = "passport"
      BY <2>3, <2>6, <2>8, <3>1, <3>2, <3>5 DEF StandingChecked, AfterMandate, AfterParent
    <3> QED BY <3>3, <3>4, <3>5 DEF Documents
  <2> QED BY <2>6, <2>7, <2>8, <2>9, <2>10 DEF Advances, CallerInv
<1> QED BY <1>3, <1>4 DEF ReadRecord

\* verifyDocument of a Mandate: a Mandate revoked before the request does not
\* get past it.
LEMMA VerifyMandateStep ==
  ASSUME HandlersTyped, LinksOK, NEW c \in Callers, CallerInv(c),
         NEW document, NEW next, VerifyMandate(c, document, next),
         \/ /\ at[c].pc = "verify mandate" /\ document = "mandate"
            /\ next = IF route[c].delegated THEN "parent" ELSE "passport"
         \/ at[c].pc = "verify parent" /\ document = "parent_mandate" /\ next = "passport"
  PROVE  Advances(c)
<1>1. at[c].pc \notin Waiting /\ at[c].pc \notin Decided /\ at[c].pc \notin Admitting
  BY DEF Waiting, Decided, Admitting
<1>2. link[c].promise # "pending" /\ Untouched /\ UNCHANGED registry /\ UNCHANGED link
  BY <1>1, Quiet DEF VerifyMandate, Untouched
<1>3. CASE Decide(c, 401)
  BY <1>1, <1>2, <1>3, Denies
<1>4. CASE inGoodStanding(at[c].record, document) /\ GoTo(c, next)
  <2>1. /\ next \in Places /\ next \notin Decided /\ next \notin Admitting /\ next \notin KeyReads
        /\ next \in {"parent", "passport"}
    BY DEF Places, AfterMandate, AfterParent, Decided, Admitting, KeyReads
  <2>2. /\ HandlersTyped' /\ \A d \in Callers : d # c => at'[d] = at[d]
        /\ at'[c].pc = next /\ at'[c].answer = at[c].answer /\ at'[c].response = at[c].response
        /\ at'[c].condemned = at[c].condemned /\ at'[c].since = at[c].since
    BY <1>4, <2>1, GoToStep
  <2>3. LinksOK' /\ \A d \in Callers : link'[d] = link[d]
    BY <1>2 DEF LinksOK, LinksTyped
  <2>4. /\ Placed(c)' /\ Kept(c)' /\ ~Admitted(c)' /\ revokedNow' = revokedNow /\ route' = route
        /\ revocations' = revocations
    BY <1>1, <1>2, <2>1, <2>2, <2>3, Onward
  <2>5. KeyChecked(c)'
    <3>1. Arrived(c)
      BY DEF CallerInv, KeyChecked, Reading, AfterMandate, AfterParent
    <3>2. Arrived(c)'
      BY <1>2, <2>2, <3>1, SameKey
    <3> QED BY <2>1, <2>2, <2>4, <3>2 DEF KeyChecked, KeyReads
  <2>6. StandingChecked(c)'
    <3>1. StandingChecked(c)
      BY DEF CallerInv
    <3>2. document \notin at[c].condemned
      BY <1>4, <3>1 DEF StandingChecked, StillTold, inGoodStanding
    <3>3. CASE document = "mandate"
      BY <2>1, <2>2, <2>4, <3>1, <3>2, <3>3 DEF StandingChecked, AfterMandate, AfterParent
    <3>4. CASE document = "parent_mandate"
      BY <2>1, <2>2, <2>4, <3>1, <3>2, <3>4 DEF StandingChecked, AfterMandate, AfterParent
    <3> QED BY <3>3, <3>4
  <2> QED BY <2>2, <2>3, <2>4, <2>5, <2>6 DEF Advances, CallerInv
<1> QED BY <1>3, <1>4 DEF VerifyMandate

\* The handler goes on and notes whether the key is vouched for.
LEMMA VouchStep ==
  ASSUME HandlersTyped, NEW c \in Callers, NEW pc \in Places, NEW v \in BOOLEAN,
         at' = [at EXCEPT ![c].pc = pc, ![c].vouched = v]
  PROVE  /\ HandlersTyped' /\ \A d \in Callers : d # c => at'[d] = at[d]
         /\ at'[c].pc = pc /\ at'[c].answer = at[c].answer /\ at'[c].response = at[c].response
         /\ at'[c].vouched = v /\ at'[c].condemned = at[c].condemned /\ at'[c].since = at[c].since
<1>1. PICK h \in Handler : h = at[c]
  BY DEF HandlersTyped
<1> DEFINE g == [h EXCEPT !.pc = pc, !.vouched = v]
<1>2. /\ g \in Handler /\ g.pc = pc /\ g.answer = h.answer /\ g.response = h.response
      /\ g.vouched = v /\ g.condemned = h.condemned /\ g.since = h.since
  BY DEF Handler
<1>3. at' = [at EXCEPT ![c] = g]
  BY <1>1 DEF HandlersTyped, Handler
<1> HIDE DEF g
<1> QED BY <1>1, <1>2, <1>3 DEF HandlersTyped

\* The handler reads keys: what it claims is right if what it vouches for is.
LEMMA KeyReadStep ==
  ASSUME HandlersTyped, LinksOK, NEW c \in Callers, CallerInv(c),
         at[c].pc \in {"verify passport", "runtime key"}, NEW pc \in KeyReads, NEW v \in BOOLEAN,
         at' = [at EXCEPT ![c].pc = pc, ![c].vouched = v], Untouched, UNCHANGED link,
         v => ListsAgent(c) /\ "passport" \notin at[c].condemned /\ (pc = "envelope" => Matched(c))
  PROVE  Advances(c)
<1>1. at[c].pc \notin Waiting /\ at[c].pc \notin Decided
  BY DEF Waiting, Decided
<1>2. link[c].promise # "pending"
  BY <1>1, Quiet
<1>3. pc \in Places /\ pc \notin Decided /\ pc \notin Admitting
  BY DEF KeyReads, Places, AfterMandate, AfterParent, Decided, Admitting
<1>4. /\ HandlersTyped' /\ \A d \in Callers : d # c => at'[d] = at[d]
      /\ at'[c].pc = pc /\ at'[c].answer = at[c].answer /\ at'[c].response = at[c].response
      /\ at'[c].vouched = v /\ at'[c].condemned = at[c].condemned /\ at'[c].since = at[c].since
  BY <1>3, VouchStep
<1>5. LinksOK' /\ \A d \in Callers : link'[d] = link[d]
  BY DEF LinksOK, LinksTyped
<1>6. /\ Placed(c)' /\ Kept(c)' /\ ~Admitted(c)' /\ revokedNow' = revokedNow /\ route' = route
  BY <1>1, <1>2, <1>3, <1>4, <1>5, Onward
<1>7. KeyChecked(c)'
  <2>1. Arrived(c) /\ UNCHANGED registry
    BY DEF CallerInv, KeyChecked, Reading, AfterMandate, AfterParent, KeyReads, Untouched
  <2>2. Arrived(c)' /\ ListsAgent(c)' = ListsAgent(c) /\ Matched(c)' = Matched(c)
    BY <1>4, <2>1, SameKey
  <2> QED BY <1>4, <1>6, <2>2 DEF KeyChecked
<1>8. StandingChecked(c)'
  <2>1. StandingChecked(c) /\ at[c].pc \in AfterMandate /\ at[c].pc \in AfterParent
    BY DEF CallerInv, AfterMandate, AfterParent, KeyReads
  <2>2. pc \notin {"verify mandate", "verify parent", "verify passport"}
    BY DEF KeyReads
  <2> QED BY <1>4, <1>6, <2>1, <2>2 DEF StandingChecked
<1> QED BY <1>4, <1>5, <1>6, <1>7, <1>8 DEF Advances, CallerInv

\* verifyDocument of the Passport.
LEMMA CheckPassportStep ==
  ASSUME HandlersTyped, LinksOK, NEW c \in Callers, CallerInv(c), CheckPassport(c)
  PROVE  Advances(c)
<1> DEFINE method == Listed[route[c].key]
<1>1. Untouched /\ UNCHANGED link /\ at[c].pc = "verify passport"
  BY DEF CheckPassport
<1>2. PICK verified \in BOOLEAN :
        /\ verified => inGoodStanding(at[c].record, "passport")
        /\ IF method = None
           THEN at' = [at EXCEPT ![c].pc = "envelope", ![c].vouched = FALSE]
           ELSE at' = [at EXCEPT ![c].pc = "runtime key", ![c].vouched = verified /\ method.controller = Agent]
  BY DEF CheckPassport
<1>3. verified => "passport" \notin at[c].condemned
  BY <1>1, <1>2 DEF CallerInv, StandingChecked, StillTold, inGoodStanding
<1>4. CASE method = None
  <2>1. "envelope" \in KeyReads
    BY DEF KeyReads
  <2> QED BY <1>1, <1>2, <1>4, <2>1, KeyReadStep
<1>5. CASE method # None
  <2>1. "runtime key" \in KeyReads
    BY DEF KeyReads
  <2>2. PICK v \in BOOLEAN : v = (verified /\ method.controller = Agent)
    OBVIOUS
  <2>3. at' = [at EXCEPT ![c].pc = "runtime key", ![c].vouched = v]
    BY <1>2, <1>5, <2>2
  <2>4. v => ListsAgent(c) /\ "passport" \notin at[c].condemned
    BY <1>3, <1>5, <2>2 DEF ListsAgent
  <2> QED BY <1>1, <2>1, <2>3, <2>4, KeyReadStep
<1> QED BY <1>4, <1>5

\* The last record of the caller's key is one of those since it arrived.
LEMMA PublishedUnderway ==
  ASSUME WorldTyped, HandlersTyped, NEW c \in Callers, Arrived(c)
  PROVE  \E last \in Underway(c) : /\ publications[route[c].key][last] = published(route[c].key)
                                   /\ \A i \in Underway(c) : i <= last
<1>1. PICK p \in Seq(KeyRecords) \ {<<>>} : p = publications[route[c].key]
  BY RoutesTyped DEF WorldTyped, Arrived, submits
<1>2. PICK since \in Nat : since = at[c].since
  BY DEF HandlersTyped, Handler
<1>3. DOMAIN p = 1 .. Len(p) /\ Len(p) \in Nat \ {0}
  BY <1>1
<1>4. since \in DOMAIN p /\ Underway(c) = {i \in DOMAIN p : since <= i}
  BY <1>1, <1>2 DEF Arrived, Underway
<1>5. Len(p) \in Underway(c) /\ \A i \in Underway(c) : i <= Len(p)
  BY <1>3, <1>4
<1> QED BY <1>1, <1>5 DEF published

\* The registry's record of the key the Passport lists.
LEMMA ReadRuntimeKeyStep ==
  ASSUME HandlersTyped, WorldTyped, LinksOK, NEW c \in Callers, CallerInv(c), ReadRuntimeKey(c)
  PROVE  Advances(c)
<1>1. Untouched /\ UNCHANGED link /\ UNCHANGED registry /\ at[c].pc = "runtime key"
  BY DEF ReadRuntimeKey, Untouched
<1>2. at[c].pc \notin Waiting
  BY <1>1 DEF Waiting
<1>3. CASE Unavailable(c)
  BY <1>1, <1>2, <1>3, Quiet, GivesUp
<1>4. ASSUME NEW proofVerified \in BOOLEAN,
             at' = [at EXCEPT ![c].pc = "envelope", ![c].vouched = @ /\ proofVerified /\ runtimeMatches(route[c].key)]
      PROVE  Advances(c)
  <2>1. "envelope" \in KeyReads
    BY DEF KeyReads
  <2>2. PICK v \in BOOLEAN : v = (at[c].vouched /\ proofVerified /\ runtimeMatches(route[c].key))
    OBVIOUS
  <2>3. at' = [at EXCEPT ![c].pc = "envelope", ![c].vouched = v]
    BY <1>4, <2>2 DEF HandlersTyped, Handler
  <2>4. v => ListsAgent(c) /\ "passport" \notin at[c].condemned
    BY <1>1, <2>2 DEF CallerInv, KeyChecked, StandingChecked, KeyReads
  <2>5. ASSUME v PROVE Matched(c)
    <3>1. Arrived(c)
      BY <1>1 DEF CallerInv, KeyChecked, Reading, AfterMandate, AfterParent, KeyReads
    <3>2. PICK last \in Underway(c) : publications[route[c].key][last] = published(route[c].key)
      BY <3>1, PublishedUnderway
    <3> QED BY <2>2, <2>5, <3>2 DEF Matched, runtimeMatches
  <2> QED BY <1>1, <2>1, <2>3, <2>4, <2>5, KeyReadStep
<1> QED BY <1>3, <1>4 DEF ReadRuntimeKey

\* verifyDocument of the Envelope: with it a submission is admitted.
LEMMA VerifyEnvelopeStep ==
  ASSUME HandlersTyped, WorldTyped, LinksOK, NEW c \in Callers, CallerInv(c), VerifyEnvelope(c)
  PROVE  Advances(c)
<1>1. Untouched /\ at[c].pc = "envelope"
  BY DEF VerifyEnvelope
<1>2. at[c].pc \notin Waiting /\ at[c].pc \notin Decided /\ "nonce" \in Waiting
  BY <1>1 DEF Waiting, Decided
<1>3. link[c].promise # "pending"
  BY <1>2, Quiet
<1>4. CASE Decide(c, 401) /\ UNCHANGED link
  BY <1>1, <1>2, <1>3, <1>4, Denies
<1>5. CASE at[c].vouched /\ verifiesNow(route[c].key, route[c].signedWith) /\ AskValkey(c, "nonce")
  <2>1. /\ HandlersTyped' /\ LinksOK' /\ Asks(link[c], link'[c])
        /\ \A d \in Callers : d # c => at'[d] = at[d] /\ link'[d] = link[d]
        /\ at'[c].pc = "nonce" /\ at'[c].answer = at[c].answer /\ at'[c].response = at[c].response
        /\ at'[c].condemned = at[c].condemned /\ at'[c].since = at[c].since
    BY <1>2, <1>3, <1>5, AskStep
  <2>2. at'[c].pc \notin Decided /\ at'[c].pc \in Waiting
    BY <2>1 DEF Decided, Waiting
  <2>3. Placed(c)' /\ Kept(c)' /\ revokedNow' = revokedNow /\ route' = route
    BY <1>1, <1>2, <2>1, <2>2, Onward
  <2>4. KeyChecked(c)'
    <3>1. Arrived(c) /\ ListsAgent(c) /\ Matched(c)
      BY <1>1, <1>5 DEF CallerInv, KeyChecked, Reading, AfterMandate, AfterParent, KeyReads
    <3>2. PICK last \in Underway(c) : /\ publications[route[c].key][last] = published(route[c].key)
                                      /\ \A i \in Underway(c) : i <= last
      BY <3>1, PublishedUnderway
    <3>3. PICK first \in Underway(c) : repeats(publications[route[c].key][first], route[c].key)
      BY <3>1 DEF Matched
    <3>4. verifies(publications[route[c].key][last], route[c].signedWith)
      BY <1>5, <3>2 DEF verifiesNow
    <3>5. Bound(c)
      BY <3>2, <3>3, <3>4 DEF Bound
    <3>6. Arrived(c)' /\ ListsAgent(c)' /\ Bound(c)'
      BY <1>1, <2>1, <3>1, <3>5, SameKey DEF Untouched
    <3> QED BY <2>1, <3>6 DEF KeyChecked, KeyReads
  <2>5. StandingChecked(c)'
    <3>1. StandingChecked(c) /\ at[c].pc \in AfterMandate /\ at[c].pc \in AfterParent /\ at[c].pc \in KeyReads
      BY <1>1 DEF CallerInv, AfterMandate, AfterParent, KeyReads
    <3>2. route[c].key \notin at[c].condemned
      BY <1>5, <3>1 DEF StandingChecked, revokedNow, verifiesNow
    <3>3. /\ at[c].condemned \subseteq revokedNow
          /\ "mandate" \notin at[c].condemned /\ "passport" \notin at[c].condemned
          /\ route[c].delegated => "parent_mandate" \notin at[c].condemned
      BY <1>5, <3>1 DEF StandingChecked
    <3> QED BY <2>1, <2>3, <3>2, <3>3 DEF StandingChecked
  <2> QED BY <2>1, <2>3, <2>4, <2>5 DEF Advances, CallerInv
<1> QED BY <1>4, <1>5 DEF VerifyEnvelope

\* An admitted submission goes on to the next command.
LEMMA AdmittedAsks ==
  ASSUME HandlersTyped, LinksOK, NEW c \in Callers, CallerInv(c), at[c].pc \in Admitting, resolved(c),
         NEW next \in Admitting, AskValkey(c, next), Untouched
  PROVE  Advances(c)
<1>1. /\ at[c].pc \notin Decided /\ next \notin Decided /\ next \in Waiting
      /\ next \notin AfterMandate \cup AfterParent \cup KeyReads
      /\ next \notin {"verify mandate", "verify parent", "verify passport", "runtime key", "envelope"}
  BY DEF Waiting, Decided, Admitting, AfterMandate, AfterParent, KeyReads
<1>2. link[c].promise # "pending"
  BY Quiet
<1>3. /\ HandlersTyped' /\ LinksOK' /\ Asks(link[c], link'[c])
      /\ \A d \in Callers : d # c => at'[d] = at[d] /\ link'[d] = link[d]
      /\ at'[c].pc = next /\ at'[c].answer = at[c].answer /\ at'[c].response = at[c].response
      /\ at'[c].condemned = at[c].condemned /\ at'[c].since = at[c].since
  BY <1>1, <1>2, AskStep
<1>4. Placed(c)' /\ Kept(c)' /\ Admitted(c) /\ revokedNow' = revokedNow /\ route' = route
  BY <1>1, <1>3, Onward
<1>5. KeyChecked(c)'
  BY <1>1, <1>3, <1>4, SameKey DEF CallerInv, KeyChecked, Untouched
<1>6. StandingChecked(c)'
  BY <1>1, <1>3, <1>4 DEF CallerInv, StandingChecked
<1> QED BY <1>3, <1>4, <1>5, <1>6 DEF Advances, CallerInv

\* checkAndStore's answer.
LEMMA CheckNonceStep ==
  ASSUME HandlersTyped, LinksOK, NEW c \in Callers, CallerInv(c), CheckNonce(c)
  PROVE  Advances(c)
<1>1. /\ Untouched /\ UNCHANGED registry /\ link[c].promise # "pending" /\ at[c].pc \in Admitting
      /\ at[c].pc \notin Decided /\ "usage" \in Admitting
  BY Quiet DEF CheckNonce, Untouched, Admitting, Decided
<1>2. CASE resolved(c) /\ AskValkey(c, "usage")
  BY <1>1, <1>2, AdmittedAsks
<1>3. CASE Decide(c, 401) /\ UNCHANGED link
  BY <1>1, <1>3, Denies
<1>4. CASE Unavailable(c) /\ UNCHANGED link
  BY <1>1, <1>4, GivesUp
<1> QED BY <1>2, <1>3, <1>4 DEF CheckNonce

\* The evaluation.
LEMMA EvaluateStep ==
  ASSUME HandlersTyped, LinksOK, NEW c \in Callers, CallerInv(c), Evaluate(c)
  PROVE  Advances(c)
<1>1. /\ Untouched /\ UNCHANGED registry /\ link[c].promise # "pending" /\ at[c].pc \in Admitting
      /\ at[c].pc \notin Decided /\ "commit" \in Admitting
  BY Quiet DEF Evaluate, Untouched, Admitting, Decided
<1>2. CASE resolved(c) /\ AskValkey(c, "commit")
  BY <1>1, <1>2, AdmittedAsks
<1>3. CASE Decide(c, 403) /\ UNCHANGED link
  BY <1>1, <1>3, Denies
<1>4. CASE Unavailable(c) /\ UNCHANGED link
  BY <1>1, <1>4, GivesUp
<1> QED BY <1>2, <1>3, <1>4 DEF Evaluate

\* What is known of key and documents is kept on the way from the commit to
\* the response.
LEMMA StaysAdmitted ==
  ASSUME NEW c \in Callers, CallerInv(c), Admitted(c)' => Admitted(c), at'[c].pc \in Decided,
         at'[c].condemned = at[c].condemned, at'[c].since = at[c].since, UNCHANGED registry
  PROVE  KeyChecked(c)' /\ StandingChecked(c)'
<1>1. revokedNow' = revokedNow /\ route' = route
  BY SameRevoked
<1>2. /\ at'[c].pc \notin AfterMandate \cup AfterParent \cup KeyReads
      /\ at'[c].pc \notin {"verify mandate", "verify parent", "verify passport", "runtime key", "envelope"}
  BY DEF Decided, AfterMandate, AfterParent, KeyReads
<1>3. KeyChecked(c)'
  <2>1. at'[c].pc \notin Reading
    BY DEF Decided, Reading, AfterMandate, AfterParent, KeyReads
  <2> QED BY <1>2, <2>1, SameKey DEF CallerInv, KeyChecked
<1>4. StandingChecked(c)'
  BY <1>1, <1>2 DEF CallerInv, StandingChecked
<1> QED BY <1>3, <1>4

\* The compare-and-set's answer: only an admitted submission is allowed.
LEMMA CheckCommitStep ==
  ASSUME HandlersTyped, LinksOK, NEW c \in Callers, CallerInv(c), CheckCommit(c)
  PROVE  Advances(c)
<1>1. /\ Untouched /\ UNCHANGED registry /\ UNCHANGED link /\ link[c].promise # "pending"
      /\ at[c].pc \in Admitting /\ at[c].pc \notin Decided
  BY Quiet DEF CheckCommit, Untouched, Admitting, Decided
<1>2. CASE Decide(c, 200)
  <2>1. PICK code \in Codes : code = 200
    BY DEF Codes
  <2>2. Decide(c, code)
    BY <1>2, <2>1
  <2>3. /\ HandlersTyped' /\ \A d \in Callers : d # c => at'[d] = at[d]
        /\ at'[c].pc = "sign" /\ at'[c].answer = code /\ at'[c].response = at[c].response
        /\ at'[c].condemned = at[c].condemned /\ at'[c].since = at[c].since
    BY <2>2, DecideStep
  <2>4. LinksOK' /\ \A d \in Callers : link'[d] = link[d]
    BY <1>1 DEF LinksOK, LinksTyped
  <2>5. Admitted(c)
    BY <1>1 DEF Admitted
  <2>6. at'[c].pc \in Decided
    BY <2>3 DEF Decided
  <2>7. KeyChecked(c)' /\ StandingChecked(c)'
    BY <1>1, <2>3, <2>5, <2>6, StaysAdmitted
  <2>8. Placed(c)'
    <3>1. at[c].response # 200
      BY <1>1 DEF CallerInv, Placed, Decided
    <3> QED BY <1>1, <2>3, <2>4, <2>6, <3>1 DEF Placed
  <2>9. Kept(c)'
    <3>1. submits(c)' = submits(c) /\ hasEvidence' = hasEvidence
      BY <1>1, SameRevoked
    <3> QED BY <1>1, <2>3, <3>1 DEF CallerInv, Kept, Untouched, valkey
  <2> QED BY <2>3, <2>4, <2>7, <2>8, <2>9 DEF Advances, CallerInv
<1>3. CASE Decide(c, 409)
  BY <1>1, <1>3, Denies
<1>4. CASE Unavailable(c)
  BY <1>1, <1>4, GivesUp
<1> QED BY <1>2, <1>3, <1>4 DEF CheckCommit

\* TransitSigner: a Receipt goes to the stream only under the pinned key.
LEMMA SignStep ==
  ASSUME HandlersTyped, LinksOK, NEW c \in Callers, CallerInv(c), Sign(c)
  PROVE  Advances(c)
<1>1. Untouched /\ UNCHANGED registry /\ at[c].pc = "sign"
  BY DEF Sign, Untouched
<1>2. link[c].promise # "pending"
  <2>1. at[c].pc \notin Waiting
    BY <1>1 DEF Waiting
  <2> QED BY <2>1, Quiet
<1>3. CASE Unavailable(c) /\ UNCHANGED link
  BY <1>1, <1>2, <1>3, GivesUp
<1>4. CASE /\ at' = [at EXCEPT ![c].pc = "stream", ![c].asked = "stream", ![c].version = "pinned"]
           /\ command(c)
  <2>1. PICK h \in Handler : h = at[c]
    BY DEF HandlersTyped
  <2> DEFINE g == [h EXCEPT !.pc = "stream", !.asked = "stream", !.version = "pinned"]
  <2>2. /\ g \in Handler /\ g.pc = "stream" /\ g.answer = h.answer /\ g.response = h.response
        /\ g.condemned = h.condemned /\ g.since = h.since /\ g.asked = "stream" /\ g.version = "pinned"
    BY DEF Handler, Places, Waiting
  <2>3. at' = [at EXCEPT ![c] = g]
    BY <1>4, <2>1 DEF HandlersTyped, Handler
  <2> HIDE DEF g
  <2>4. /\ HandlersTyped' /\ \A d \in Callers : d # c => at'[d] = at[d]
        /\ at'[c].pc = "stream" /\ at'[c].answer = at[c].answer /\ at'[c].response = at[c].response
        /\ at'[c].condemned = at[c].condemned /\ at'[c].since = at[c].since
        /\ at'[c].asked = "stream" /\ at'[c].version = "pinned"
    BY <2>1, <2>2, <2>3 DEF HandlersTyped
  <2>5. /\ LinksOK' /\ Asks(link[c], link'[c]) /\ link'[c].promise = "pending"
        /\ \A d \in Callers : d # c => link'[d] = link[d]
    BY <1>2, <1>4, CommandStep
  <2>6. submits(c)' = submits(c) /\ hasEvidence' = hasEvidence
    BY <1>1, SameRevoked
  <2>7. Admitted(c)' => Admitted(c)
    BY <2>4, <2>6 DEF Admitted, Admitting
  <2>8. at'[c].pc \in Decided /\ at'[c].pc \in Waiting
    BY <2>4 DEF Decided, Waiting
  <2>9. KeyChecked(c)' /\ StandingChecked(c)'
    BY <1>1, <2>4, <2>7, <2>8, StaysAdmitted
  <2>10. Placed(c)'
    BY <1>1, <2>4, <2>8 DEF CallerInv, Placed
  <2>11. Kept(c)'
    BY <1>1, <2>4, <2>5, <2>6 DEF CallerInv, Kept, Asks, Untouched, valkey
  <2> QED BY <2>4, <2>5, <2>9, <2>10, <2>11 DEF Advances, CallerInv
<1> QED BY <1>3, <1>4 DEF Sign, pinned

\* A recorded decision is answered.
LEMMA RecordedResponse ==
  ASSUME HandlersTyped, LinksOK, NEW c \in Callers, CallerInv(c), link[c].promise # "pending",
         at[c].pc \in Decided, Respond(c, at[c].answer), UNCHANGED registry, UNCHANGED link, stream' = stream,
         hasEvidence => [caller |-> c, answer |-> at[c].answer, version |-> "pinned"] \in stream \cap evidence'
  PROVE  Advances(c)
<1>1. PICK code \in Codes : code = at[c].answer
  BY DEF HandlersTyped, Handler
<1>2. /\ HandlersTyped' /\ \A d \in Callers : d # c => at'[d] = at[d]
      /\ at'[c].pc = "done" /\ at'[c].answer = at[c].answer /\ at'[c].response = at[c].answer
      /\ at'[c].condemned = at[c].condemned /\ at'[c].since = at[c].since
  BY RespondStep
<1>3. LinksOK' /\ \A d \in Callers : link'[d] = link[d]
  BY DEF LinksOK, LinksTyped
<1>4. submits(c)' = submits(c) /\ hasEvidence' = hasEvidence
  BY SameRevoked
<1>5. Admitted(c)' => Admitted(c)
  BY <1>2, <1>4 DEF Admitted, Admitting
<1>6. at'[c].pc \in Decided
  BY <1>2 DEF Decided
<1>7. KeyChecked(c)' /\ StandingChecked(c)'
  BY <1>2, <1>5, <1>6, StaysAdmitted
<1>8. Placed(c)'
  BY <1>2, <1>3, <1>6 DEF Placed
<1>9. Kept(c)'
  BY <1>2, <1>4 DEF Kept
<1> QED BY <1>2, <1>3, <1>7, <1>8, <1>9 DEF Advances, CallerInv

\* XADD's answer.
LEMMA EmittedStep ==
  ASSUME HandlersTyped, LinksOK, NEW c \in Callers, CallerInv(c), Emitted(c)
  PROVE  Advances(c)
<1>1. /\ Untouched /\ UNCHANGED registry /\ UNCHANGED link /\ link[c].promise # "pending"
      /\ at[c].pc = "stream" /\ at[c].pc \in Decided
  BY Quiet DEF Emitted, Untouched, Decided
<1>2. stream' = stream /\ evidence' = evidence
  BY <1>1 DEF Untouched, valkey
<1>3. CASE Unavailable(c)
  BY <1>1, <1>3, GivesUp
<1>4. CASE ~hasEvidence /\ Respond(c, at[c].answer)
  BY <1>1, <1>2, <1>4, RecordedResponse
<1>5. CASE resolved(c) /\ GoTo(c, "persist")
  <2>1. "persist" \in Places /\ "persist" \in Decided
    BY DEF Places, Decided
  <2>2. /\ HandlersTyped' /\ \A d \in Callers : d # c => at'[d] = at[d]
        /\ at'[c].pc = "persist" /\ at'[c].answer = at[c].answer /\ at'[c].response = at[c].response
        /\ at'[c].condemned = at[c].condemned /\ at'[c].since = at[c].since /\ at'[c].version = at[c].version
    BY <1>5, <2>1, GoToStep
  <2>3. LinksOK' /\ \A d \in Callers : link'[d] = link[d]
    BY <1>1 DEF LinksOK, LinksTyped
  <2>4. submits(c)' = submits(c) /\ hasEvidence' = hasEvidence
    BY <1>1, SameRevoked
  <2>5. Admitted(c)' => Admitted(c)
    BY <2>2, <2>4 DEF Admitted, Admitting
  <2>6. KeyChecked(c)' /\ StandingChecked(c)'
    BY <1>1, <2>1, <2>2, <2>5, StaysAdmitted
  <2>7. Placed(c)'
    BY <1>1, <2>1, <2>2, <2>3 DEF CallerInv, Placed
  <2>8. link[c].answer # None
    BY <1>5 DEF LinksOK, LinkInv, resolved
  <2>9. receiptOf(c) \in stream /\ at[c].version = "pinned"
    BY <1>1, <2>8 DEF CallerInv, Kept
  <2>10. receiptOf(c)' = receiptOf(c)
    BY <2>2 DEF receiptOf
  <2>11. Kept(c)'
    BY <1>2, <2>2, <2>4, <2>9, <2>10 DEF CallerInv, Kept
  <2> QED BY <2>2, <2>3, <2>6, <2>7, <2>11 DEF Advances, CallerInv
<1> QED BY <1>3, <1>4, <1>5 DEF Emitted

\* persistEvidence.
LEMMA PersistStep ==
  ASSUME HandlersTyped, LinksOK, NEW c \in Callers, CallerInv(c), Persist(c)
  PROVE  Advances(c)
<1>1. /\ UNCHANGED registry /\ UNCHANGED link /\ at[c].pc = "persist" /\ at[c].pc \in Decided
      /\ at[c].pc \notin Waiting /\ stream' = stream
  BY DEF Persist, Decided, Waiting, valkey
<1>2. link[c].promise # "pending"
  BY <1>1, Quiet
<1>3. CASE Unavailable(c)
  BY <1>1, <1>2, <1>3, GivesUp
<1>4. CASE Respond(c, at[c].answer) /\ evidence' = evidence \cup {receiptOf(c)}
  <2>1. receiptOf(c) \in stream \cap evidence' /\ at[c].version = "pinned"
    BY <1>1, <1>4 DEF CallerInv, Kept
  <2> QED BY <1>1, <1>2, <1>4, <2>1, RecordedResponse DEF receiptOf
<1> QED BY <1>3, <1>4 DEF Persist

-----------------------------------------------------------------------------
(* Valkey, the connections and the control plane. *)

\* What the server or the network does to a caller's link leaves what its
\* handler knows, provided a Receipt is in the stream once its XADD has run.
LEMMA Overtaken ==
  ASSUME NEW c \in Callers, CallerInv(c), UNCHANGED registry, evidence' = evidence, stream \subseteq stream',
         at'[c].pc = at[c].pc, at'[c].answer = at[c].answer, at'[c].response = at[c].response,
         at'[c].vouched = at[c].vouched, at'[c].record = at[c].record, at'[c].asked = at[c].asked,
         at'[c].version = at[c].version, at'[c].condemned = at[c].condemned,
         at'[c].since = at[c].since,
         link'[c].promise = "pending" => link[c].promise = "pending",
         at[c].asked = "stream" /\ link'[c].answer # None => link[c].answer # None \/ receiptOf(c) \in stream'
  PROVE  CallerInv(c)'
<1>1. /\ revokedNow' = revokedNow /\ route' = route /\ revocations' = revocations
      /\ submits(c)' = submits(c) /\ hasEvidence' = hasEvidence
  BY SameRevoked
<1>2. Admitted(c)' <=> Admitted(c)
  BY <1>1 DEF Admitted
<1>3. receiptOf(c)' = receiptOf(c)
  BY DEF receiptOf
<1>4. Placed(c)'
  BY DEF CallerInv, Placed
<1>5. KeyChecked(c)'
  BY <1>2, SameKey DEF CallerInv, KeyChecked
<1>6. StandingChecked(c)'
  BY <1>1, <1>2 DEF CallerInv, StandingChecked, StillTold
<1>7. Kept(c)'
  BY <1>1, <1>3 DEF CallerInv, Kept
<1> QED BY <1>4, <1>5, <1>6, <1>7 DEF CallerInv

\* A connection's step settles the caller's promise at most.
LEMMA ConnectionStep ==
  ASSUME LinksOK, NEW c \in Callers, CallerInv(c), Connection(c)
  PROVE  /\ LinksOK' /\ CallerInv(c)'
         /\ Same(link[c], link'[c]) \/ Resolves(link[c], link'[c]) \/ Rejects(link[c], link'[c])
         /\ \A d \in Callers : d # c => link'[d] = link[d]
<1>1. /\ LinkNext(c) /\ UNCHANGED registry /\ at' = at /\ stream' = stream /\ evidence' = evidence
  BY DEF Connection, valkey
<1>2. /\ LinksOK'
      /\ Same(link[c], link'[c]) \/ Resolves(link[c], link'[c]) \/ Rejects(link[c], link'[c])
      /\ \A d \in Callers : d # c => link'[d] = link[d]
  BY <1>1, LinkNextStep
<1>3. /\ link'[c].promise = "pending" => link[c].promise = "pending"
      /\ link'[c].answer = link[c].answer
  BY <1>2 DEF Same, Resolves, Rejects
<1>4. CallerInv(c)'
  BY <1>1, <1>3, Overtaken
<1> QED BY <1>2, <1>4

\* The server runs the caller's command: if it is XADD, the Receipt is there.
LEMMA ServeStep ==
  ASSUME HandlersTyped, WorldTyped, LinksOK, NEW c \in Callers, CallerInv(c), Serve(c)
  PROVE  /\ HandlersTyped' /\ LinksOK' /\ CallerInv(c)' /\ usage' \in Nat /\ stream \subseteq stream'
         /\ Runs(link[c], link'[c])
         /\ \A d \in Callers : d # c => at'[d] = at[d] /\ link'[d] = link[d]
<1>1. /\ UNCHANGED registry /\ evidence' = evidence /\ stream \subseteq stream'
      /\ at[c].asked = "stream" => receiptOf(c) \in stream'
  BY DEF Serve, valkey
<1>2. usage' \in Nat
  BY DEF Serve, WorldTyped, valkey
<1>3. PICK a \in Answers : Run(c, a)
  BY AnswersAssumption DEF Serve
<1>4. /\ LinksOK' /\ Runs(link[c], link'[c])
      /\ \A d \in Callers : d # c => link'[d] = link[d]
  BY <1>3, RunStep
<1>5. at' = at \/ at' = [at EXCEPT ![c].loaded = usage]
  BY DEF Serve
<1>6. /\ HandlersTyped' /\ \A d \in Callers : d # c => at'[d] = at[d]
      /\ at'[c].pc = at[c].pc /\ at'[c].answer = at[c].answer /\ at'[c].response = at[c].response
      /\ at'[c].vouched = at[c].vouched /\ at'[c].record = at[c].record /\ at'[c].asked = at[c].asked
      /\ at'[c].version = at[c].version /\ at'[c].condemned = at[c].condemned /\ at'[c].since = at[c].since
  <2>1. CASE at' = at
    BY <2>1 DEF HandlersTyped
  <2>2. CASE at' = [at EXCEPT ![c].loaded = usage]
    <3>1. PICK h \in Handler : h = at[c]
      BY DEF HandlersTyped
    <3>2. PICK n \in Nat : n = usage
      BY DEF WorldTyped
    <3> DEFINE g == [h EXCEPT !.loaded = n]
    <3>3. /\ g \in Handler
          /\ g.pc = h.pc /\ g.answer = h.answer /\ g.response = h.response /\ g.vouched = h.vouched
          /\ g.record = h.record /\ g.asked = h.asked /\ g.version = h.version
          /\ g.condemned = h.condemned /\ g.since = h.since
      BY DEF Handler
    <3>4. at' = [at EXCEPT ![c] = g]
      BY <2>2, <3>1, <3>2 DEF HandlersTyped, Handler
    <3> HIDE DEF g
    <3> QED BY <3>1, <3>3, <3>4 DEF HandlersTyped
  <2> QED BY <1>5, <2>1, <2>2
<1>7. CallerInv(c)'
  BY <1>1, <1>4, <1>6, Overtaken DEF Runs
<1> QED BY <1>1, <1>2, <1>4, <1>6, <1>7

\* The control plane and other replicas change no handler and no link, and
\* take no revocation back.
LEMMA WorldStep ==
  ASSUME WorldTyped, World
  PROVE  /\ WorldTyped' /\ at' = at /\ link' = link /\ stream' = stream /\ evidence' = evidence
         /\ config' = config /\ route' = route /\ revocations \subseteq revocations' /\ Growing
         /\ \A x \in Records : status[x] = "revoked" => status'[x] = "revoked"
<1>1. CASE UseElsewhere
  BY <1>1 DEF UseElsewhere, Growing, WorldTyped, starts, configuration, tokensUsable, given
<1>2. CASE \E x \in Records : PublishRevocation(x)
  BY <1>2 DEF PublishRevocation, Growing, WorldTyped, valkey, starts, configuration, tokensUsable, given
<1>3. CASE \E x \in Records, new \in Statuses : SetStatus(x, new)
  BY <1>3 DEF SetStatus, Growing, WorldTyped, valkey, starts, configuration, tokensUsable, given
<1>4. ASSUME NEW key \in Keys, NEW record \in KeyRecords, Republish(key, record)
      PROVE  WorldTyped' /\ Growing
  <2>1. PICK p \in Seq(KeyRecords) \ {<<>>} : p = publications[key]
    BY DEF WorldTyped
  <2>2. PICK q \in Seq(KeyRecords) \ {<<>>} :
          q = Append(p, record) /\ \A i \in DOMAIN p : i \in DOMAIN q /\ q[i] = p[i]
    <3> DEFINE q == Append(p, record)
    <3>1. q \in Seq(KeyRecords) \ {<<>>} /\ \A i \in DOMAIN p : i \in DOMAIN q /\ q[i] = p[i]
      <4>1. p \in Seq(KeyRecords) /\ Len(p) \in Nat /\ DOMAIN p = 1 .. Len(p)
        BY <2>1
      <4>2. q \in Seq(KeyRecords) /\ Len(q) = Len(p) + 1 /\ DOMAIN q = 1 .. Len(q)
        BY <4>1
      <4>3. q # <<>>
        BY <4>1, <4>2
      <4>4. \A i \in 1 .. Len(p) : q[i] = p[i]
        BY <4>1
      <4> QED BY <4>1, <4>2, <4>3, <4>4
    <3> QED BY <3>1
  <2>3. publications' = [publications EXCEPT ![key] = q]
    BY <1>4, <2>1, <2>2 DEF Republish, WorldTyped
  <2>4. Growing
    BY <2>1, <2>2, <2>3 DEF Growing, WorldTyped
  <2>5. WorldTyped'
    BY <1>4, <2>2, <2>3 DEF Republish, WorldTyped, valkey, starts, configuration, tokensUsable, given
  <2> QED BY <2>4, <2>5
<1>5. CASE \E key \in Keys, record \in KeyRecords : Republish(key, record)
  BY <1>4, <1>5 DEF Republish, valkey
<1> QED BY <1>1, <1>2, <1>3, <1>5 DEF World, Statuses

\* A step of a caller's handler, whichever it is.
LEMMA HandlerStep ==
  ASSUME HandlersTyped, WorldTyped, LinksOK, NEW c \in Callers, CallerInv(c), Step(c)
  PROVE  /\ Advances(c) /\ UNCHANGED registry /\ UNCHANGED valkey /\ evidence \subseteq evidence'
<1>1. UNCHANGED registry /\ UNCHANGED valkey /\ evidence \subseteq evidence'
  BY DEF Step, AnswerSimple, Probe, Authorize, ReadMandate, CheckMandate, ReadParent, CheckParent,
         ReadPassport, CheckPassport, ReadRuntimeKey, VerifyEnvelope, CheckNonce, Evaluate, CheckCommit,
         Sign, Emitted, Persist, ReadRecord, VerifyMandate, Untouched
<1>2. Advances(c)
  <2>1. CASE AnswerSimple(c) \/ Probe(c) \/ Authorize(c)
    BY <2>1, AnswerSimpleStep, ProbeStep, AuthorizeStep
  <2>2. CASE ReadMandate(c) \/ ReadParent(c) \/ ReadPassport(c)
    BY <2>2, ReadStep DEF ReadMandate, ReadParent, ReadPassport, Documents
  <2>3. CASE CheckMandate(c) \/ CheckParent(c)
    BY <2>3, VerifyMandateStep DEF CheckMandate, CheckParent
  <2>4. CASE CheckPassport(c) \/ ReadRuntimeKey(c) \/ VerifyEnvelope(c)
    BY <2>4, CheckPassportStep, ReadRuntimeKeyStep, VerifyEnvelopeStep
  <2>5. CASE CheckNonce(c) \/ Evaluate(c) \/ CheckCommit(c)
    BY <2>5, CheckNonceStep, EvaluateStep, CheckCommitStep
  <2>6. CASE Sign(c) \/ Emitted(c) \/ Persist(c)
    BY <2>6, SignStep, EmittedStep, PersistStep
  <2> QED BY <2>1, <2>2, <2>3, <2>4, <2>5, <2>6 DEF Step
<1> QED BY <1>1, <1>2

-----------------------------------------------------------------------------
(* The invariant, and what it is for. *)

\* A process that starts is configured; no request has been looked at.
LEMMA GatewayInvInit == Init => GatewayInv
<1> SUFFICES ASSUME Init PROVE GatewayInv
  OBVIOUS
<1>1. WorldTyped
  <2>1. \A k \in Keys : <<FirstPublished[k]>> \in Seq(KeyRecords) \ {<<>>}
    BY KeysTyped
  <2>2. publications \in [Keys -> Seq(KeyRecords) \ {<<>>}]
    BY <2>1 DEF Init
  <2> QED BY <2>2 DEF Init, WorldTyped, Statuses
<1>2. LinksOK
  BY UnusedLink DEF Init, LinkInit, LinksOK, LinksTyped
<1>3. HandlersTyped
  <2>1. 0 \in Codes /\ 0 \in Nat /\ {} \in SUBSET Records
    BY DEF Codes
  <2>2. PICK zero \in Codes, none \in SUBSET Records, n \in Nat : zero = 0 /\ none = {} /\ n = 0
    BY <2>1
  <2>3. [pc |-> "received", record |-> "active", vouched |-> FALSE, asked |-> "none", loaded |-> n,
         answer |-> zero, version |-> "none", response |-> zero, condemned |-> none, since |-> n] \in Handler
    BY DEF Handler, Places, Statuses
  <2> QED BY <2>2, <2>3 DEF Init, HandlersTyped
<1>4. ASSUME NEW c \in Callers PROVE CallerInv(c)
  <2>1. /\ at[c].pc = "received" /\ at[c].answer = 0 /\ at[c].response = 0 /\ at[c].condemned = {}
    BY DEF Init
  <2>2. link[c].promise = "none"
    BY DEF Init, LinkInit, Unused
  <2>3. ~Admitted(c)
    BY <2>1 DEF Admitted, Admitting
  <2>4. Placed(c)
    BY <2>1, <2>2 DEF Placed
  <2>5. KeyChecked(c)
    BY <2>1, <2>3 DEF KeyChecked, Reading, AfterMandate, AfterParent, KeyReads
  <2>6. StandingChecked(c)
    BY <2>1, <2>3 DEF StandingChecked, AfterMandate, AfterParent, KeyReads
  <2>7. Kept(c)
    BY <2>1 DEF Kept, Decisions
  <2> QED BY <2>4, <2>5, <2>6, <2>7 DEF CallerInv
<1> QED BY <1>1, <1>2, <1>3, <1>4 DEF GatewayInv

\* Every step keeps the invariant: the caller it is of by the lemma about the
\* step, the others because nothing they rely on is taken back.
LEMMA GatewayInvStep == GatewayInv /\ [Next]_vars => GatewayInv'
<1> SUFFICES ASSUME GatewayInv, [Next]_vars PROVE GatewayInv'
  OBVIOUS
<1>1. WorldTyped /\ HandlersTyped /\ LinksOK /\ \A c \in Callers : CallerInv(c)
  BY DEF GatewayInv
<1>2. ASSUME UNCHANGED registry, usage' \in Nat PROVE WorldTyped' /\ Growing
  BY <1>1, <1>2 DEF WorldTyped, Growing, registry, starts, configuration, tokensUsable, given
<1>3. ASSUME NEW c \in Callers, Step(c) PROVE GatewayInv'
  <2>1. Advances(c) /\ UNCHANGED registry /\ UNCHANGED valkey /\ evidence \subseteq evidence'
    BY <1>1, <1>3, HandlerStep
  <2>2. WorldTyped' /\ Growing
    BY <1>1, <1>2, <2>1 DEF WorldTyped, valkey
  <2>3. ASSUME NEW d \in Callers PROVE CallerInv(d)'
    <3>1. CASE d = c
      BY <2>1, <3>1 DEF Advances
    <3>2. CASE d # c
      <4>1. at'[d] = at[d] /\ link'[d] = link[d]
        BY <2>1, <3>2 DEF Advances
      <4> QED BY <1>1, <2>1, <2>2, <4>1, Undisturbed DEF registry, valkey
    <3> QED BY <3>1, <3>2
  <2> QED BY <2>1, <2>2, <2>3 DEF GatewayInv, Advances
<1>4. ASSUME NEW c \in Callers, Serve(c) PROVE GatewayInv'
  <2>1. /\ HandlersTyped' /\ LinksOK' /\ CallerInv(c)' /\ usage' \in Nat /\ stream \subseteq stream'
        /\ \A d \in Callers : d # c => at'[d] = at[d] /\ link'[d] = link[d]
    BY <1>1, <1>4, ServeStep
  <2>2. UNCHANGED registry /\ evidence' = evidence
    BY <1>4 DEF Serve
  <2>3. WorldTyped' /\ Growing
    BY <1>2, <2>1, <2>2
  <2>4. ASSUME NEW d \in Callers PROVE CallerInv(d)'
    <3>1. CASE d = c
      BY <2>1, <3>1
    <3>2. CASE d # c
      BY <1>1, <2>1, <2>2, <2>3, <3>2, Undisturbed DEF registry
    <3> QED BY <3>1, <3>2
  <2> QED BY <2>1, <2>3, <2>4 DEF GatewayInv
<1>5. ASSUME NEW c \in Callers, Connection(c) PROVE GatewayInv'
  <2>1. /\ LinksOK' /\ CallerInv(c)' /\ \A d \in Callers : d # c => link'[d] = link[d]
    BY <1>1, <1>5, ConnectionStep
  <2>2. UNCHANGED registry /\ at' = at /\ stream' = stream /\ usage' = usage /\ evidence' = evidence
    BY <1>5 DEF Connection, valkey
  <2>3. WorldTyped' /\ Growing /\ HandlersTyped'
    BY <1>1, <1>2, <2>2 DEF WorldTyped, HandlersTyped
  <2>4. ASSUME NEW d \in Callers PROVE CallerInv(d)'
    <3>1. CASE d = c
      BY <2>1, <3>1
    <3>2. CASE d # c
      BY <1>1, <2>1, <2>2, <2>3, <3>2, Undisturbed DEF registry
    <3> QED BY <3>1, <3>2
  <2> QED BY <2>1, <2>3, <2>4 DEF GatewayInv
<1>6. ASSUME World PROVE GatewayInv'
  <2>1. /\ WorldTyped' /\ at' = at /\ link' = link /\ stream' = stream /\ evidence' = evidence
        /\ config' = config /\ route' = route /\ revocations \subseteq revocations' /\ Growing
        /\ \A x \in Records : status[x] = "revoked" => status'[x] = "revoked"
    BY <1>1, <1>6, WorldStep
  <2>2. LinksOK' /\ HandlersTyped'
    BY <1>1, <2>1 DEF LinksOK, LinksTyped, HandlersTyped
  <2>3. ASSUME NEW d \in Callers PROVE CallerInv(d)'
    BY <1>1, <2>1, Undisturbed
  <2> QED BY <2>1, <2>2, <2>3 DEF GatewayInv
<1>7. ASSUME UNCHANGED vars PROVE GatewayInv'
  <2>1. /\ UNCHANGED registry /\ at' = at /\ link' = link /\ stream' = stream /\ evidence' = evidence
        /\ usage' = usage
    BY <1>7 DEF vars, valkey
  <2>2. WorldTyped' /\ Growing /\ LinksOK' /\ HandlersTyped'
    BY <1>1, <1>2, <2>1 DEF WorldTyped, LinksOK, LinksTyped, HandlersTyped
  <2>3. ASSUME NEW d \in Callers PROVE CallerInv(d)'
    BY <1>1, <2>1, <2>2, Undisturbed DEF registry
  <2> QED BY <2>2, <2>3 DEF GatewayInv
<1> QED BY <1>3, <1>4, <1>5, <1>6, <1>7 DEF Next

\* The invariant of the authorizer process, its variables' types included.
THEOREM GatewayCorrect == Spec => []GatewayInv
BY GatewayInvInit, GatewayInvStep, PTL DEF Spec

\* A request that arrives after its Mandate, parent Mandate, Passport or
\* runtime key was revoked is never let through, however the reads of
\* gatewayVerificationPolicy interleave with the control plane.
THEOREM RevokedNotServed == Spec => []RevokedStaysOut
<1>1. GatewayInv => RevokedStaysOut
  <2> SUFFICES ASSUME GatewayInv, NEW c \in Callers, submits(c), at[c].response = 200
               PROVE  at[c].condemned \cap reliedOn(c) = {}
    BY DEF RevokedStaysOut
  <2>1. Admitted(c)
    BY DEF Admitted
  <2>2. /\ "mandate" \notin at[c].condemned /\ "passport" \notin at[c].condemned
        /\ route[c].key \notin at[c].condemned
        /\ route[c].delegated => "parent_mandate" \notin at[c].condemned
    BY <2>1 DEF GatewayInv, CallerInv, StandingChecked
  <2> QED BY <2>2 DEF reliedOn
<1> QED BY <1>1, GatewayCorrect, PTL

\* An Envelope is let through only if the Passport lists its key for the
\* agent, a record published for that key since the request arrived said the
\* same, and the record that is published then or was published later in that
\* time, of an anchored issuer and bound to the agent, verifies the signature,
\* however runtimeMatches and verifyDocument interleave with republications.
THEOREM OnlyTheAgentsKey == Spec => []RuntimeKeyVouched
<1>1. GatewayInv => RuntimeKeyVouched
  <2> SUFFICES ASSUME GatewayInv, NEW c \in Callers, submits(c), at[c].response = 200
               PROVE  /\ Listed[route[c].key] # None /\ Listed[route[c].key].controller = Agent
                      /\ \E first, second \in {i \in DOMAIN publications[route[c].key] : at[c].since <= i} :
                           /\ first <= second
                           /\ repeats(publications[route[c].key][first], route[c].key)
                           /\ verifies(publications[route[c].key][second], route[c].signedWith)
    BY DEF RuntimeKeyVouched
  <2>1. Admitted(c)
    BY DEF Admitted
  <2>2. ListsAgent(c) /\ Bound(c)
    BY <2>1 DEF GatewayInv, CallerInv, KeyChecked
  <2> QED BY <2>2 DEF ListsAgent, Bound, Underway
<1> QED BY <1>1, GatewayCorrect, PTL

\* In production no decision leaves the gateway before its Receipt, under the
\* pinned key, is in the stream and at the evidence service.
THEOREM ReceiptsBeforeResponses == Spec => []DecisionsRecorded
<1>1. GatewayInv => DecisionsRecorded
  <2> SUFFICES ASSUME GatewayInv, NEW c \in Callers, production, submits(c), at[c].response \in Decisions
               PROVE  [caller |-> c, answer |-> at[c].response, version |-> "pinned"] \in stream \cap evidence
    BY DEF DecisionsRecorded, Decisions
  <2>1. hasEvidence
    BY DEF GatewayInv, WorldTyped, starts, configuration, production, hasEvidence, Hardening, given
  <2> QED BY <2>1 DEF GatewayInv, CallerInv, Kept
<1> QED BY <1>1, GatewayCorrect, PTL

-----------------------------------------------------------------------------
(* Commands are calls. *)

\* What happens to one link is what RemoteCall lets happen to one call.
LEMMA CallStep ==
  ASSUME LinksTyped, LinksTyped', NEW c \in Callers,
         \A d \in Callers : d # c => link'[d] = link[d],
         \/ Same(link[c], link'[c]) \/ Asks(link[c], link'[c]) \/ Runs(link[c], link'[c])
         \/ Resolves(link[c], link'[c]) \/ Rejects(link[c], link'[c])
  PROVE  Call!Next \/ UNCHANGED Call!calls
<1>1. CASE Same(link[c], link'[c])
  BY <1>1 DEF Same, Call!calls
<1>2. CASE Asks(link[c], link'[c])
  <2>1. link[c].promise \in {"none", "resolved", "rejected"}
    BY <1>2 DEF Asks, LinksTyped, Link
  <2>2. Call!Ask(c)
    BY <1>2, <2>1 DEF Asks, Call!Ask, Call!Quiet
  <2> QED BY <2>2 DEF Call!Next
<1>3. CASE Runs(link[c], link'[c])
  <2>1. Call!Run(c)
    BY <1>3 DEF Runs, Call!Run
  <2> QED BY <2>1 DEF Call!Next
<1>4. CASE Resolves(link[c], link'[c])
  <2>1. Call!Resolve(c)
    BY <1>4 DEF Resolves, Call!Resolve
  <2> QED BY <2>1 DEF Call!Next
<1>5. CASE Rejects(link[c], link'[c])
  <2>1. Call!Reject(c)
    BY <1>5 DEF Rejects, Call!Reject
  <2> QED BY <2>1 DEF Call!Next
<1> QED BY <1>1, <1>2, <1>3, <1>4, <1>5

\* ValkeyClient implements RemoteCall: each command's promise settles at most
\* once, and is resolved only with the answer to that very command.
THEOREM ValkeyImplementsCalls == Spec => CommandsAreCalls
<1>1. Init => Call!Init
  BY DEF Init, LinkInit, Unused, Call!Init
<1>2. GatewayInv /\ GatewayInv' /\ [Next]_vars =>
        [Call!Next]_(Call!calls)
  <2> SUFFICES ASSUME GatewayInv, GatewayInv', [Next]_vars
               PROVE  Call!Next \/ UNCHANGED Call!calls
    OBVIOUS
  <2>1. LinksTyped /\ LinksTyped' /\ WorldTyped /\ HandlersTyped /\ LinksOK /\ \A c \in Callers : CallerInv(c)
    BY DEF GatewayInv, LinksOK
  <2>2. ASSUME NEW c \in Callers, Step(c)
        PROVE  /\ Same(link[c], link'[c]) \/ Asks(link[c], link'[c])
               /\ \A d \in Callers : d # c => link'[d] = link[d]
    BY <2>1, <2>2, HandlerStep DEF Advances, Same
  <2>3. ASSUME NEW c \in Callers, Serve(c)
        PROVE  Runs(link[c], link'[c]) /\ \A d \in Callers : d # c => link'[d] = link[d]
    BY <2>1, <2>3, ServeStep
  <2>4. ASSUME NEW c \in Callers, Connection(c)
        PROVE  /\ Same(link[c], link'[c]) \/ Resolves(link[c], link'[c]) \/ Rejects(link[c], link'[c])
               /\ \A d \in Callers : d # c => link'[d] = link[d]
    BY <2>1, <2>4, ConnectionStep
  <2>5. CASE World \/ UNCHANGED vars
    <3>1. link' = link
      BY <2>1, <2>5, WorldStep DEF vars
    <3> QED BY <3>1 DEF Call!calls
  <2>6. CASE \E c \in Callers : Step(c) \/ Serve(c) \/ Connection(c)
    BY <2>1, <2>2, <2>3, <2>4, <2>6, CallStep
  <2> QED BY <2>5, <2>6 DEF Next
<1> QED BY <1>1, <1>2, GatewayCorrect, PTL DEF Spec, CommandsAreCalls, Call!Spec
=============================================================================
