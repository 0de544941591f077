----------------------------- MODULE RemoteCall -----------------------------
(***************************************************************************)
(* What a caller of ValkeyClient.command may rely on: the promise settles  *)
(* at most once, the server runs the command at most once, and a promise   *)
(* is resolved only with the answer the server gave to this very command.  *)
(* A rejected promise says nothing: the command may have run, may run      *)
(* later, or may never run.                                                *)
(***************************************************************************)
CONSTANTS Callers, Answers, None

VARIABLES promise,   \* of each caller's command
          answer,    \* what the server answered to it, None before it ran
          result     \* what the promise was resolved with, else None

calls == <<promise, answer, result>>

\* Nothing is asked for yet, or the last command has settled.
Quiet(c) == promise[c] \in {"none", "resolved", "rejected"}

Init ==
  /\ promise = [c \in Callers |-> "none"]
  /\ answer = [c \in Callers |-> None]
  /\ result = [c \in Callers |-> None]

Ask(c) ==
  /\ Quiet(c)
  /\ promise' = [promise EXCEPT ![c] = "pending"]
  /\ answer' = [answer EXCEPT ![c] = None]
  /\ result' = [result EXCEPT ![c] = None]

Run(c) ==
  /\ promise[c] # "none" /\ answer[c] = None
  /\ \E a \in Answers : answer' = [answer EXCEPT ![c] = a]
  /\ UNCHANGED <<promise, result>>

Resolve(c) ==
  /\ promise[c] = "pending" /\ answer[c] # None
  /\ promise' = [promise EXCEPT ![c] = "resolved"]
  /\ result' = [result EXCEPT ![c] = answer[c]]
  /\ UNCHANGED answer

Reject(c) ==
  /\ promise[c] = "pending"
  /\ promise' = [promise EXCEPT ![c] = "rejected"]
  /\ UNCHANGED <<answer, result>>

Next == \E c \in Callers : Ask(c) \/ Run(c) \/ Resolve(c) \/ Reject(c)

Spec == Init /\ [][Next]_calls
=============================================================================
