------------------------------- MODULE MCTrust ------------------------------
(***************************************************************************)
(* Instances of TrustChain: a leaf issuer, a middle one and a root, the    *)
(* only anchor.                                                            *)
(***************************************************************************)
EXTENDS TrustChain, TLC

CONSTANTS v1, v2

Vouching(parent) ==
  [status |-> "active", parent |-> parent, validFrom |-> 0, validUntil |-> 9,
   revokedAt |-> None, verified |-> TRUE]

Chain(leaf, mid) ==
  [i \in {"leaf", "mid", "root"} |->
     Vouching(CASE i = "leaf" -> leaf [] i = "mid" -> mid [] i = "root" -> None)]

\* Too deep for MaxTrustDepth = 1; within it; a cycle; no parent or no record
\* of the leaf.
Chains == {Chain("mid", "root"), Chain("root", "root"), Chain("mid", "leaf"), Chain(None, "root"),
           [Chain("root", "root") EXCEPT !["leaf"] = None]}

Active == [controller |-> "agent", issuer |-> "leaf", status |-> "active", validFrom |-> 0,
           validUntil |-> 9, revokedAt |-> None, usable |-> TRUE]

\* Retired with no end of its validity, which no verification accepts.
Retired == [Active EXCEPT !.status = "retired", !.validUntil = None]

SomeKeys == {[k \in {"k"} |-> published] : published \in {Active, Retired, None}}

Document ==
  [id |-> "doc", signer |-> "agent", method |-> "k", nonce |-> "n", created |-> 0, expires |-> 1,
   not_before |-> 0, expires_at |-> 9, wellFormed |-> TRUE, allowed |-> TRUE, addressed |-> TRUE,
   intact |-> TRUE]

\* One document verified twice.
Twice == (v1 :> Document) @@ (v2 :> Document)

Symmetry == Permutations(Verifications)
=============================================================================
