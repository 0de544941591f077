----------------------------- MODULE MCGateway -----------------------------
(***************************************************************************)
(* One authorization and one other request at an authorizer that runs in   *)
(* production or in development.                                           *)
(***************************************************************************)
EXTENDS Gateway, TLC

CONSTANTS a, b

Environment(set, invalidation, token) ==
  [set |-> set, invalidationToken |-> invalidation, evidenceToken |-> token]

Hardened == {"required", "production", "mtls", "evidenceUrl", "https", "rediss", "acl"}

\* Complete, without evidence, without mTLS, with a short token; development
\* with and without evidence, and one that lacks a required variable.
SomeEnvironments ==
  {Environment(Hardened, "long", "long"),
   Environment(Hardened \ {"evidenceUrl"}, "long", "absent"),
   Environment(Hardened \ {"mtls"}, "long", "long"),
   Environment(Hardened, "short", "long"),
   Environment({"required"}, "absent", "absent"),
   Environment({"required", "evidenceUrl"}, "absent", "short"),
   Environment({"evidenceUrl"}, "long", "long")}

Record(issuer, controller, jwk) == [issuer |-> issuer, controller |-> controller, jwk |-> jwk]
Method(controller, jwk) == [controller |-> controller, jwk |-> jwk]

\* The agent's key; one another issuer publishes for the agent; the issuer's
\* own; one whose JWK was replaced; one listed for another controller; and one
\* the Passport does not list.
SomeKeys ==
     "own"      :> Record("issuer", "agent", "jwk")
  @@ "foreign"  :> Record("partner", "agent", "jwk")
  @@ "issuers"  :> Record("issuer", "issuer", "jwk")
  @@ "replaced" :> Record("issuer", "agent", "new")
  @@ "borrowed" :> Record("issuer", "agent", "jwk")
  @@ "unlisted" :> Record("issuer", "agent", "jwk")

SomeMethods ==
  [k \in DOMAIN SomeKeys |-> CASE k = "unlisted" -> None
                               [] k = "borrowed" -> Method("other", "jwk")
                               [] OTHER -> Method("agent", "jwk")]

\* An issuer no anchor vouches for may publish a record too.
SomeRecords == {SomeKeys[k] : k \in DOMAIN SomeKeys} \cup {Record("rogue", "agent", "jwk")}

Submission(key, jwk, delegated) ==
  [path |-> "/authorize/", key |-> key, signedWith |-> jwk, delegated |-> delegated]
Operator(path, method, bearer) == [path |-> path, method |-> method, bearer |-> bearer]

SomeRoutes ==
  {(a :> first) @@ (b :> second) :
     first \in {Submission("own", "jwk", TRUE), Submission("own", "new", FALSE)}
               \cup {Submission(key, SomeKeys[key].jwk, FALSE) : key \in DOMAIN SomeKeys \ {"own"}},
     second \in {Operator("/healthz", "GET", "none")}}
  \cup
  {(a :> first) @@ (b :> second) :
     first \in {Operator("other", "GET", "none")},
     second \in {Operator("/readyz", "GET", "none"), Operator("/invalidate-cache", "GET", "right"),
                 Operator("/invalidate-cache", "POST", "wrong"), Operator("/invalidate-cache", "POST", "right")}}
=============================================================================
