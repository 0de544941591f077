------------------------------ MODULE MCLookup ------------------------------
(***************************************************************************)
(* Instances of LookupCache.                                               *)
(***************************************************************************)
EXTENDS LookupCache, TLC

\* One Mandate looked up by identifier.
OneMandate == {[type |-> "mandate", selector |-> "id", value |-> "m"]}

\* A revocation that is cached under its identifier and under its target.
Revocation == {[type |-> "revocation", selector |-> "id", value |-> "r"],
               [type |-> "revocation", selector |-> "target", value |-> "m"]}

Plain      == [kind |-> "none", age |-> 0]
NoStore    == [kind |-> "no-store", age |-> 0]
MaxAge(n)  == [kind |-> "max-age", age |-> n]
Expires(n) == [kind |-> "expires", age |-> n]

PlainOnly     == {Plain}
ServerChooses == {NoStore, MaxAge(1)}
Dated         == {Expires(1)}

Symmetry == Permutations(Lookups)
=============================================================================
