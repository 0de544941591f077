---------------------------- MODULE ValkeyClient ----------------------------
(***************************************************************************)
(* ValkeyClient of services/envoy-authorizer/server.mjs.  Every command    *)
(* opens a connection of its own, pipelines AUTH and SELECT before it,     *)
(* counts replies and settles a promise.  The link of a caller is the      *)
(* connection of its last command.                                         *)
(*                                                                         *)
(* The server works through what was written whether or not the client     *)
(* still listens.  A chunk of data that carries several replies is several *)
(* steps here; an incomplete reply is no step.                             *)
(***************************************************************************)
EXTENDS Naturals, Sequences

CONSTANTS
  Callers,   \* requests that issue commands, one at a time each
  Session,   \* number of commands before the caller's own (AUTH, SELECT)
  Answers,   \* answers to a caller's command
  None

ASSUME SessionNat == Session \in Nat

VARIABLE link

Replies == {"+OK", "-ERR", "?"} \cup Answers

Link == [socket : {"none", "connecting", "open", "closed"},   \* the client's side
         toRun : 0 .. Session + 1,             \* commands the server has yet to run
         refused : BOOLEAN,                    \* AUTH or SELECT failed
         unread : Seq(Replies),                \* replies on their way
         completed : 0 .. Session + 1,
         promise : {"none", "pending", "resolved", "rejected"},
         result : Replies \cup {None},
         answer : Answers \cup {None},         \* the server's answer to the caller's command, history
         hungUp : BOOLEAN]                     \* the server closed before it answered, history

Unused == [socket |-> "none", toRun |-> 0, refused |-> FALSE, unread |-> <<>>, completed |-> 0,
           promise |-> "none", result |-> None, answer |-> None, hungUp |-> FALSE]

LinkInit == link = [c \in Callers |-> Unused]

\* command(...parts): a new connection for this caller.
command(c) ==
  link' = [link EXCEPT ![c] = [Unused EXCEPT !.socket = "connecting", !.promise = "pending"]]

\* "connect" or "secureConnect": everything is written at once.
Connect(c) ==
  /\ link[c].socket = "connecting"
  /\ link' = [link EXCEPT ![c].socket = "open", ![c].toRun = Session + 1]

\* The server runs AUTH or SELECT.  If one is refused the caller's command is
\* refused too (AUTH) or runs in another database (SELECT).
RunSession(c) ==
  /\ link[c].toRun > 1
  /\ \E ok \in BOOLEAN :
       link' = [link EXCEPT ![c].toRun = @ - 1, ![c].refused = @ \/ ~ok,
                            ![c].unread = Append(@, IF ok THEN "+OK" ELSE "-ERR")]

\* The server refuses the caller's command, or answers what parseResp rejects.
Refuse(c) ==
  /\ link[c].toRun = 1
  /\ \E reply \in {"-ERR", "?"} :
       link' = [link EXCEPT ![c].toRun = 0, ![c].unread = Append(@, reply)]

\* The server runs the caller's command; its effect is the composing module's.
Run(c, answer) ==
  /\ link[c].toRun = 1 /\ ~link[c].refused
  /\ link' = [link EXCEPT ![c].toRun = 0, ![c].unread = Append(@, answer), ![c].answer = answer]

\* parseResp: an error reply, or one it has no case for.
fails(reply) == reply \in {"-ERR", "?"}

\* Faulty variant: the first reply settles the promise.
firstReply(completed) == completed = 1

lastReply(completed) == completed = Session + 1

\* The "data" handler, for one complete reply.
Receive(c) ==
  LET l     == link[c]
      reply == Head(l.unread)
      done  == l.completed + 1
  IN
  /\ l.socket = "open" /\ l.unread # <<>>
  /\ link' = [link EXCEPT ![c] =
       [l EXCEPT !.unread = Tail(@), !.completed = done,
                 !.socket = IF fails(reply) \/ lastReply(done) THEN "closed" ELSE @,
                 !.promise = IF fails(reply) THEN "rejected" ELSE IF lastReply(done) THEN "resolved" ELSE @,
                 !.result = IF ~fails(reply) /\ lastReply(done) THEN reply ELSE @]]

connected(c) == link[c].socket \in {"connecting", "open"}

\* destroy(error): the "error" handler rejects an unsettled promise.
destroyed(l) == [l EXCEPT !.socket = "closed", !.promise = IF @ = "pending" THEN "rejected" ELSE @]

\* Faulty variant: the socket is destroyed without an error.
SilentTimeout(c) == connected(c) /\ link' = [link EXCEPT ![c].socket = "closed"]

\* "timeout": two seconds without traffic.
SocketTimeout(c) == connected(c) /\ link' = [link EXCEPT ![c] = destroyed(@)]

\* "error": refused, unreachable, reset, TLS failure.
SocketError(c) == connected(c) /\ link' = [link EXCEPT ![c] = destroyed(@)]

\* The server closes the connection cleanly.  No handler listens for "end" or
\* "close", and a closed socket has no timeout: the promise stays as it is.
PeerCloses(c) ==
  /\ link[c].socket = "open" /\ link[c].unread = <<>>
  /\ link' = [link EXCEPT ![c].socket = "closed", ![c].toRun = 0, ![c].hungUp = TRUE]

\* Everything but the run of the caller's command.
LinkNext(c) ==
  \/ Connect(c) \/ RunSession(c) \/ Refuse(c) \/ Receive(c)
  \/ SocketTimeout(c) \/ SocketError(c) \/ PeerCloses(c)

resolved(c) == link[c].promise = "resolved"
rejected(c) == link[c].promise = "rejected"
=============================================================================
