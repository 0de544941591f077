------------------------------ MODULE MCIssuer ------------------------------
(***************************************************************************)
(* A small instance of Issuer: two slugs that normalise to one agent, of   *)
(* which one registration is refused by the schema; a Mandate that is      *)
(* valid for one unit of time and one whose profile is no URI; Envelopes   *)
(* with their Mandate's purpose, another or none; Receipts of such         *)
(* Envelopes and of made-up ones; two calls under way at once.             *)
(***************************************************************************)
EXTENDS Issuer, TLC

Spellings == [bot |-> "bot", Bot |-> "bot"]

Agents ==
  {[slug |-> "bot", displayName |-> "Bot", capabilities |-> <<"buy">>, protocols |-> <<"http">>],
   [slug |-> "Bot", displayName |-> "Bot", capabilities |-> <<"buy", "buy">>, protocols |-> <<"http">>]}

Purposes ==
  {[purpose |-> "p", actions |-> <<"read">>, profile |-> p, lifetime |-> 1] : p \in {None, "no uri"}}

Requests == {[action |-> "read", resource |-> "r", purpose |-> p, profile |-> None, audience |-> "a", lifetime |-> 1] :
               p \in {None, "other", Blank}}

Outcomes == {[decision |-> "allow", outcome |-> "succeeded", profile |-> None, audience |-> "buyer"]}

\* A transaction of another organisation, and one that the schema refuses.
MadeUp ==
  {[id |-> <<"tx", "o">>, agent_id |-> <<"agent", "o", "bot">>, organisation_id |-> o,
    mandate_id |-> <<"mandate", "o">>] : o \in {<<"org", "other">>, <<"org">>}}

NoTexts == {}

Interchangeable == Permutations(Calls)
=============================================================================
