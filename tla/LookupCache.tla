---------------------------- MODULE LookupCache -----------------------------
(***************************************************************************)
(* OatiLookupClient (sdk/typescript/src/lookup.ts): the client through     *)
(* which the gateway learns who is trusted.  Concurrent lookups share one  *)
(* LRU cache, ask the configured resolvers in order, retry each of them,   *)
(* and revalidate with ETags; the authorizer's /invalidate-cache           *)
(* (services/envoy-authorizer/server.mjs) purges entries meanwhile.        *)
(*                                                                         *)
(* A public record is a version: 0 while it is unpublished, then counted   *)
(* up by every publication (a revocation is a publication).  All resolvers *)
(* answer from the version that is current when they read it; the answer   *)
(* then travels, and may arrive after a publication or a purge.  ETags     *)
(* tell versions apart.                                                    *)
(***************************************************************************)
EXTENDS Integers, Sequences, FiniteSets

CONSTANTS
  None,          \* no entry / no ETag / no Retry-After
  Lookups,       \* calls of lookupDetailed and lookupRevocationByTargetDetailed
  Keys,          \* cache keys: records [type, selector, value]
  Modes,         \* options.cache: a subset of {"default", "reload", "no-store"}
  Resolvers,     \* number of resolverUrls
  MaxRetries, BaseDelay, MaxDelay,      \* options.retry
  Timeout,                              \* options.timeoutMs
  Ttl, NegativeTtl, MaxEntries,         \* options.cache
  Controls,      \* caching headers resolvers send: [kind, age]
  Refusals,      \* how calls are refused before they look at the cache
  Faults,        \* failing answers resolvers give
  RetryAfters,   \* Retry-After values of error answers (None: no header)
  Lifetime,      \* bound on every lifetime above
  MaxVersion,    \* bound on publications of a record
  LastBegin, MaxTime                    \* bounds on the clock

ASSUME KeysAreRecords ==
  Keys \subseteq [type : {"mandate", "passport", "key", "revocation"}, selector : {"id", "target"}, value : STRING]
ASSUME OptionsValid ==
  /\ Resolvers \in Nat \ {0} /\ MaxRetries \in Nat
  /\ BaseDelay \in Nat \ {0} /\ MaxDelay \in Nat \ {0} /\ Timeout \in Nat \ {0}
  /\ Ttl \in Nat /\ NegativeTtl \in Nat /\ MaxEntries \in Nat \ {0}
  /\ Modes \subseteq {"default", "reload", "no-store"}
ASSUME AnswersTyped ==
  /\ Controls \subseteq [kind : {"none", "no-store", "max-age", "expires"}, age : Nat]
  /\ Faults \subseteq {"400", "429", "5xx", "mismatch"}
  /\ Refusals \subseteq {"LOOKUP_BAD_REQUEST", "LOOKUP_CANCELLED"}
  /\ RetryAfters \subseteq Nat \cup {None}
ASSUME LifetimeBounds ==
  /\ Lifetime \in Nat \ {0} /\ Ttl <= Lifetime /\ NegativeTtl <= Lifetime
  /\ \A control \in Controls : control.age <= Lifetime
ASSUME BoundsNat == MaxVersion \in Nat /\ LastBegin \in Nat /\ MaxTime \in Nat

VARIABLES
  now,        \* Date.now()
  version,    \* the public registry: current version of every record
  retired,    \* when each version was superseded (-1: it has not been), history
  entries,    \* cacheEntries: an entry or None for every key
  order,      \* the insertion order of cacheEntries, least recently used first
  call,       \* the state of every lookup
  purged,     \* version of each record at its last purge, history
  floor       \* the same for purges no older answer was in flight past, history

cache == <<entries, order>>
registry == <<version, retired>>
history == <<purged, floor>>
vars == <<now, registry, cache, call, history>>

Versions == 0 .. MaxVersion
Time == 0 .. MaxTime

Entry == [version : Versions, expiresAt : Nat, etag : BOOLEAN, resolver : 1 .. Resolvers]

ASSUME NoneIsNoVersion == None \notin Nat \cup Entry

Retryable == {"LOOKUP_RATE_LIMITED", "LOOKUP_UNAVAILABLE", "LOOKUP_TIMEOUT"}
Fatal     == {"LOOKUP_CANCELLED", "LOOKUP_BAD_REQUEST", "LOOKUP_INVALID_RESPONSE"}
Codes     == {"found", "LOOKUP_NOT_FOUND"} \cup Retryable \cup Fatal

\* A resolver's answer.  `record` is the version a 200 carries.
Replies == [status : {"200", "304", "404"} \cup Faults, record : Versions, etag : BOOLEAN,
            control : Controls, readAt : Nat, retryAfter : Nat \cup {None}]

InFlight == {"asking", "answered"}
Idle == [phase |-> "idle"]

\* A lookup that has begun.  `cached` is what cacheEntries.get returned then;
\* `purged` and `floor` are the histories as they were then.
Running == [phase : {"asking", "answered", "delaying"}, key : Keys, mode : Modes,
            cached : Entry \cup {None}, resolver : 1 .. Resolvers, attempt : 0 .. MaxRetries,
            sentAt : Nat, wakeAt : Nat, reply : Replies \cup {None},
            begunAt : Nat, purged : Versions, floor : Versions]

\* A lookup that has returned a version, thrown "not found", or failed.
Ended == [phase : {"done"}, key : Keys, code : Codes, result : Versions, endedAt : Nat,
          purged : Versions, floor : Versions]

-----------------------------------------------------------------------------
\* The Map of cacheEntries.

\* The keys that stay when those of S are deleted, in their order.
without(keys, S) ==
  LET kept[i \in 0 .. Len(keys)] ==
        IF i = 0 THEN << >>
        ELSE IF keys[i] \in S THEN kept[i - 1] ELSE Append(kept[i - 1], keys[i])
  IN  kept[Len(keys)]

\* touch: delete and set again, which moves the key to the end.
touch(k) == order' = Append(without(order, {k}), k) /\ UNCHANGED entries

\* Faulty variant: nothing is evicted.
keepAll(keys) == keys

\* The while loop of store: drop from the front down to maxEntries.
evictOldest(keys) ==
  IF Len(keys) > MaxEntries THEN SubSeq(keys, Len(keys) - MaxEntries + 1, Len(keys)) ELSE keys

store(k, entry) ==
  /\ order' = evictOldest(Append(without(order, {k}), k))
  /\ entries' = [l \in Keys |-> IF l = k THEN entry
                                ELSE IF \E i \in 1 .. Len(order') : order'[i] = l THEN entries[l] ELSE None]

\* Faulty variant: only keys with the "id" selector are built and deleted.
clearIdsOnly(S) ==
  LET T == {k \in S : k.selector = "id"}
  IN  /\ entries' = [k \in Keys |-> IF k \in T THEN None ELSE entries[k]]
      /\ order' = without(order, T)

\* clearCache and clearRevocationTargetCache delete a set of keys.
clear(S) ==
  /\ entries' = [k \in Keys |-> IF k \in S THEN None ELSE entries[k]]
  /\ order' = without(order, S)

\* Faulty variant: an entry lives through the millisecond it expires in.
freshInclusive(entry) == entry.expiresAt >= now

fresh(entry) == entry.expiresAt > now

\* expiry: no-store, max-age, Expires, or the configured fallback.
expiry(reply) ==
  CASE reply.control.kind = "no-store" -> 0
    [] reply.control.kind = "max-age"  -> now + reply.control.age
    [] reply.control.kind = "expires"  -> reply.readAt + reply.control.age
    [] OTHER                           -> now + Ttl

isCacheable(reply) == reply.control.kind # "no-store"

\* The entry offered for revalidation: `reusable` in lookupSelectedDetailed.
reusable(c) ==
  IF call[c].mode # "no-store" /\ call[c].cached # None /\ call[c].cached.resolver = call[c].resolver
  THEN call[c].cached ELSE None

\* The version named by If-None-Match.
ifNoneMatch(c) == IF reusable(c) # None /\ reusable(c).etag THEN reusable(c).version ELSE None

-----------------------------------------------------------------------------
\* Outcomes of a lookup and of one attempt.

ended(running, code, result) ==
  [phase |-> "done", key |-> running.key, code |-> code, result |-> result, endedAt |-> now,
   purged |-> running.purged, floor |-> running.floor]

finish(c, code, result) == call' = [call EXCEPT ![c] = ended(call[c], code, result)]

ask(c, resolver, attempt) ==
  call' = [call EXCEPT ![c].phase = "asking", ![c].resolver = resolver, ![c].attempt = attempt,
                       ![c].sentAt = now, ![c].reply = None]

min(a, b) == IF a < b THEN a ELSE b

\* retry.baseDelayMs * 2 ** n.
doubled[n \in Nat] == IF n = 0 THEN BaseDelay ELSE 2 * doubled[n - 1]

\* Faulty variant: the resolver's Retry-After is obeyed without a limit.
retryDelayUncapped(retryAfter, attempt) ==
  IF retryAfter # None THEN retryAfter ELSE min(doubled[attempt - 1], MaxDelay)

retryDelay(retryAfter, attempt) ==
  IF retryAfter # None THEN min(retryAfter, MaxDelay)
  ELSE min(doubled[attempt - 1], MaxDelay)

\* Faulty variant: after the last resolver the first one is asked again.
failForever(c, code, retryAfter) ==
  IF call[c].attempt < MaxRetries
  THEN call' = [call EXCEPT ![c].phase = "delaying", ![c].attempt = @ + 1, ![c].reply = None,
                            ![c].wakeAt = now + retryDelay(retryAfter, call[c].attempt + 1)]
  ELSE ask(c, (call[c].resolver % Resolvers) + 1, 0)

\* Faulty variant: one attempt too many.
failOneMore(c, code, retryAfter) ==
  IF call[c].attempt <= MaxRetries
  THEN call' = [call EXCEPT ![c].phase = "delaying", ![c].attempt = @ + 1, ![c].reply = None,
                            ![c].wakeAt = now + retryDelay(retryAfter, call[c].attempt + 1)]
  ELSE IF call[c].resolver < Resolvers
       THEN ask(c, call[c].resolver + 1, 0)
       ELSE finish(c, code, 0)

\* A retryable error: retry this resolver after a delay, fall over to the next
\* one, or give up with the last error.
fail(c, code, retryAfter) ==
  IF call[c].attempt < MaxRetries
  THEN call' = [call EXCEPT ![c].phase = "delaying", ![c].attempt = @ + 1, ![c].reply = None,
                            ![c].wakeAt = now + retryDelay(retryAfter, call[c].attempt + 1)]
  ELSE IF call[c].resolver < Resolvers
       THEN ask(c, call[c].resolver + 1, 0)
       ELSE finish(c, code, 0)

-----------------------------------------------------------------------------
Init ==
  /\ now = 0
  /\ version \in [Keys -> {0, min(1, MaxVersion)}]
  /\ retired = [k \in Keys |-> [v \in Versions |-> IF v < version[k] THEN 0 ELSE -1]]
  /\ entries = [k \in Keys |-> None]
  /\ order = <<>>
  /\ call = [c \in Lookups |-> Idle]
  /\ purged = [k \in Keys |-> 0]
  /\ floor = [k \in Keys |-> 0]

\* lookupSelectedDetailed up to its first await: an aborted signal or invalid
\* input is refused, a hit is answered at once, anything else asks the first
\* resolver.
Begin(c, k, mode) ==
  /\ call[c] = Idle /\ now <= LastBegin
  /\ LET hit == mode = "default" /\ entries[k] # None /\ fresh(entries[k])
         begun == [phase |-> "asking", key |-> k, mode |-> mode, cached |-> entries[k],
                   resolver |-> 1, attempt |-> 0, sentAt |-> now, wakeAt |-> 0, reply |-> None,
                   begunAt |-> now, purged |-> purged[k], floor |-> floor[k]]
     IN  \/ /\ \E code \in Refusals : call' = [call EXCEPT ![c] = ended(begun, code, 0)]
            /\ UNCHANGED cache
         \/ /\ hit
            /\ touch(k)
            /\ call' = [call EXCEPT ![c] =
                 ended(begun, IF entries[k].version = 0 THEN "LOOKUP_NOT_FOUND" ELSE "found", entries[k].version)]
         \/ /\ ~hit
            /\ call' = [call EXCEPT ![c] = begun]
            /\ UNCHANGED cache
  /\ UNCHANGED <<now, registry, history>>

\* A resolver reads the registry and answers (a service outside this code).
Answer(c) ==
  LET current == version[call[c].key]
      answer(status, record, etag, control, wait) ==
        call' = [call EXCEPT ![c].phase = "answered", ![c].reply =
                  [status |-> status, record |-> record, etag |-> etag, control |-> control,
                   readAt |-> now, retryAfter |-> wait]]
  IN  /\ call[c].phase = "asking"
      /\ \E control \in Controls :
           \/ current > 0 /\ \E etag \in BOOLEAN : answer("200", current, etag, control, None)
           \/ current > 0 /\ ifNoneMatch(c) = current /\ answer("304", 0, TRUE, control, None)
           \/ \E wait \in RetryAfters :
                \/ current = 0 /\ answer("404", 0, FALSE, control, wait)
                \/ \E fault \in Faults \ {"mismatch"} : answer(fault, 0, FALSE, control, wait)
           \/ "mismatch" \in Faults /\ answer("mismatch", 0, FALSE, control, None)
      /\ UNCHANGED <<now, registry, cache, history>>

\* The answer arrives: the rest of requestOnce, and what lookupSelectedDetailed
\* does with its result.
Deliver(c) ==
  LET reply == call[c].reply
      key   == call[c].key
      keep(v, etag) ==
        IF call[c].mode # "no-store" /\ isCacheable(reply)
        THEN store(key, [version |-> v, expiresAt |-> expiry(reply), etag |-> etag, resolver |-> call[c].resolver])
        ELSE UNCHANGED cache
  IN  /\ call[c].phase = "answered"
      /\ \/ /\ reply.status = "200"
            /\ keep(reply.record, reply.etag)
            /\ finish(c, "found", reply.record)
         \/ /\ reply.status = "304"
            /\ keep(reusable(c).version, reusable(c).etag)
            /\ finish(c, "found", reusable(c).version)
         \/ /\ reply.status = "404"
            /\ IF call[c].mode # "no-store"
               THEN store(key, [version |-> 0, expiresAt |-> now + NegativeTtl, etag |-> FALSE, resolver |-> call[c].resolver])
               ELSE UNCHANGED cache
            /\ finish(c, "LOOKUP_NOT_FOUND", 0)
         \/ /\ reply.status = "400"
            /\ finish(c, "LOOKUP_BAD_REQUEST", 0) /\ UNCHANGED cache
         \/ /\ reply.status = "mismatch"
            /\ finish(c, "LOOKUP_INVALID_RESPONSE", 0) /\ UNCHANGED cache
         \/ /\ reply.status \in {"429", "5xx"}
            /\ fail(c, IF reply.status = "429" THEN "LOOKUP_RATE_LIMITED" ELSE "LOOKUP_UNAVAILABLE", reply.retryAfter)
            /\ UNCHANGED cache
      /\ UNCHANGED <<now, registry, history>>

\* The connection fails.
Disconnect(c) ==
  /\ call[c].phase \in InFlight
  /\ fail(c, "LOOKUP_UNAVAILABLE", None)
  /\ UNCHANGED <<now, registry, cache, history>>

\* The timer of requestOnce aborts the attempt.
Expire(c) ==
  /\ call[c].phase \in InFlight /\ now >= call[c].sentAt + Timeout
  /\ fail(c, "LOOKUP_TIMEOUT", None)
  /\ UNCHANGED <<now, registry, cache, history>>

\* The timer of delay starts the next attempt.
Retry(c) ==
  /\ call[c].phase = "delaying" /\ now >= call[c].wakeAt
  /\ ask(c, call[c].resolver, call[c].attempt)
  /\ UNCHANGED <<now, registry, cache, history>>

\* The caller's AbortSignal, during a request or a delay.
Cancel(c) ==
  /\ call[c].phase \in InFlight \cup {"delaying"}
  /\ finish(c, "LOOKUP_CANCELLED", 0)
  /\ UNCHANGED <<now, registry, cache, history>>

\* The control plane publishes a new version of a record.
Publish(k) ==
  /\ version[k] < MaxVersion
  /\ version' = [version EXCEPT ![k] = @ + 1]
  /\ retired' = [retired EXCEPT ![k][version[k]] = now]
  /\ UNCHANGED <<now, cache, call, history>>

\* The version an answer in flight will store.
carried(c) == IF call[c].reply.status = "304" THEN reusable(c).version ELSE call[c].reply.record

olderInFlight(k) ==
  \E c \in Lookups : /\ call[c].phase = "answered" /\ call[c].key = k
                     /\ call[c].reply.status \in {"200", "304", "404"}
                     /\ carried(c) < version[k]

purge(S) ==
  /\ clear(S)
  /\ purged' = [k \in Keys |-> IF k \in S THEN version[k] ELSE purged[k]]
  /\ floor' = [k \in Keys |-> IF k \in S /\ ~olderInFlight(k) THEN version[k] ELSE floor[k]]
  /\ UNCHANGED <<now, registry, call>>

\* What one record of /invalidate-cache deletes: clearCache(type, id) and, for
\* a revocation, clearRevocationTargetCache().
invalidated(type, id) ==
  {k \in Keys : \/ k.type = type /\ k.selector = "id" /\ k.value = id
                \/ type = "revocation" /\ k.type = "revocation" /\ k.selector = "target"}

\* The control plane publishes a record and then fans its purge out.
Invalidate(type, id) == purge(invalidated(type, id))

\* clearCache(type) and clearCache().
ClearType(type) == purge({k \in Keys : k.type = type})
ClearAll == purge(Keys)

\* Timers fire when they are due.
overdue(c) == \/ call[c].phase \in InFlight /\ now >= call[c].sentAt + Timeout
              \/ call[c].phase = "delaying" /\ now >= call[c].wakeAt

Tick ==
  /\ now < MaxTime /\ \A c \in Lookups : ~overdue(c)
  /\ now' = now + 1
  /\ UNCHANGED <<registry, cache, call, history>>

Next ==
  \/ \E c \in Lookups :
       \/ \E k \in Keys, mode \in Modes : Begin(c, k, mode)
       \/ Answer(c) \/ Deliver(c) \/ Disconnect(c) \/ Expire(c) \/ Retry(c) \/ Cancel(c)
  \/ \E k \in Keys : Publish(k) \/ Invalidate(k.type, k.value) \/ ClearType(k.type)
  \/ ClearAll
  \/ Tick

Spec == Init /\ [][Next]_vars

\* Timers are fair: the runtime's clock goes on and fires what is due.
\* Nothing is assumed of resolvers, connections or callers.
TimersFair ==
  /\ WF_vars(Tick)
  /\ \A c \in Lookups : WF_vars(Expire(c)) /\ WF_vars(Retry(c))

FairSpec == Spec /\ TimersFair

-----------------------------------------------------------------------------
TypeOK ==
  /\ now \in Time
  /\ version \in [Keys -> Versions]
  /\ retired \in [Keys -> [Versions -> {-1} \cup Time]]
  /\ entries \in [Keys -> Entry \cup {None}]
  /\ order \in Seq(Keys)
  /\ call \in [Lookups -> {Idle} \cup Running \cup Ended]
  /\ purged \in [Keys -> Versions]
  /\ floor \in [Keys -> Versions]

answered(c) == call[c].phase = "done" /\ call[c].code \in {"found", "LOOKUP_NOT_FOUND"}

\* v was still the current version of k at some time later than t - age.
currentWithin(k, v, t, age) == v = version[k] \/ t < retired[k][v] + age

\* What a lookup returns was current in the registry less than one request
\* timeout plus one lifetime ago, whatever retries, revalidations, concurrent
\* lookups and purges happened in between (the expiry computed when the answer
\* arrives, the strict comparison on a hit, the re-stored record of a 304).
StalenessBounded ==
  \A c \in Lookups : answered(c) =>
    currentWithin(call[c].key, call[c].result, call[c].endedAt, Timeout + Lifetime)

\* A lookup that begins after a purge returns nothing older than the purge,
\* if no older answer was already on its way to the cache then: purging
\* removes every entry the published change could still be hidden behind,
\* target-indexed revocations included.
PurgeHolds ==
  \A c \in Lookups : answered(c) => call[c].result >= call[c].floor

\* The Map never outgrows maxEntries, and the order of its keys lists exactly
\* the keys that have an entry, each once.
CacheBounded ==
  /\ Len(order) <= MaxEntries
  /\ {order[i] : i \in 1 .. Len(order)} = {k \in Keys : entries[k] # None}
  /\ \A i, j \in 1 .. Len(order) : order[i] = order[j] => i = j

\* A lookup has ended, one way or another, once every attempt at every
\* resolver has timed out and every delay has passed.
Longest == Resolvers * ((MaxRetries + 1) * Timeout + MaxRetries * MaxDelay)

EndsInTime ==
  \A c \in Lookups : call[c].phase \notin {"idle", "done"} => now <= call[c].begunAt + Longest

\* Every lookup that begins ends, though no resolver need ever answer.
LookupEnds ==
  \A c \in Lookups : (call[c].phase # "idle") ~> (call[c].phase = "done")

\* The README of the authorizer: suspending or revoking a public record stops
\* subsequent traffic after cache invalidation.  A lookup that begins after
\* the purge must not see a version from before it.
InvalidationStopsTraffic ==
  \A c \in Lookups : answered(c) => call[c].result >= call[c].purged
=============================================================================
