----------------------------- MODULE LookupProofs ----------------------------
(***************************************************************************)
(* The lookup client, for any number of concurrent lookups, keys,          *)
(* resolvers and retries: what a lookup returns is at most one timeout and *)
(* one lifetime old, nothing older than a purge comes back unless it was   *)
(* on its way already, and every lookup is over after a known time.        *)
(*                                                                         *)
(* To these properties it does not matter which entry is evicted, only     *)
(* that an entry is kept as it is or dropped.  The order of the Map's keys *)
(* has an invariant of its own: the Map never outgrows its limit, and its  *)
(* order and its entries stay together.                                    *)
(***************************************************************************)
EXTENDS LookupCache, DecimalProofs, SequenceTheorems

Recorded ==
  /\ now \in Nat /\ version \in [Keys -> Versions] /\ retired \in [Keys -> [Versions -> Int]]
  /\ entries \in [Keys -> Entry \cup {None}] /\ call \in [Lookups -> {Idle} \cup Running \cup Ended]
  /\ purged \in [Keys -> Versions] /\ floor \in [Keys -> Versions]

\* reusable and carried, of the record of a lookup.
reuse(x) == IF x.mode # "no-store" /\ x.cached # None /\ x.cached.resolver = x.resolver THEN x.cached ELSE None
brings(x) == IF x.reply.status = "304" THEN reuse(x).version ELSE x.reply.record

Successes == {"200", "304", "404"}

\* An answer on its way was right when it was read, and is not older than the
\* last purge that no older answer was in flight past.
AnswerInv(x) ==
  /\ x.reply \in Replies /\ x.sentAt <= x.reply.readAt /\ x.reply.readAt <= now
  /\ x.reply.status = "304" => reuse(x) # None
  /\ x.reply.status = "404" => x.reply.record = 0
  /\ x.reply.status \in Successes =>
       currentWithin(x.key, brings(x), x.reply.readAt, 1) /\ brings(x) >= floor[x.key]

\* The time a lookup may have taken before this attempt.
PerResolver == (MaxRetries + 1) * Timeout + MaxRetries * MaxDelay
spent(r, a) == (r - 1) * PerResolver + a * (Timeout + MaxDelay)
used(x) == spent(x.resolver, x.attempt)

GoingInv(x) ==
  /\ x.phase # "delaying" => x.sentAt <= now /\ now <= x.sentAt + Timeout /\ x.sentAt <= x.begunAt + used(x)
  /\ x.phase = "delaying" => now <= x.begunAt + used(x) /\ x.wakeAt <= x.begunAt + used(x)
  /\ x.phase = "answered" => AnswerInv(x)
  /\ x.floor <= floor[x.key]

EndedInv(x) ==
  /\ x.endedAt <= now
  /\ x.code \in {"found", "LOOKUP_NOT_FOUND"} =>
       currentWithin(x.key, x.result, x.endedAt, Timeout + Lifetime) /\ x.result >= x.floor

CallInv(x) == (x \in Running => GoingInv(x)) /\ (x \in Ended => EndedInv(x))

\* What is in the cache expires in time, also if it is superseded now.
EntryOK(k, e) ==
  /\ e.expiresAt <= now + Lifetime
  /\ currentWithin(k, e.version, e.expiresAt - 1, Timeout + Lifetime)
  /\ e.version >= floor[k]

EntriesOK == \A k \in Keys : entries[k] # None => EntryOK(k, entries[k])
FloorOK == \A k \in Keys : floor[k] <= version[k]

LookupInv == Recorded /\ EntriesOK /\ FloorOK /\ \A c \in Lookups : CallInv(call[c])

-----------------------------------------------------------------------------
(* Publications, purges and the clock. *)

\* What was current late enough stays so through a publication.
LEMMA PublishKeeps ==
  ASSUME Recorded, NEW j \in Keys, Publish(j), NEW k \in Keys, NEW v \in Versions, NEW t \in Int, NEW age \in Int,
         currentWithin(k, v, t, age), t < now + age
  PROVE  currentWithin(k, v, t, age)'
<1>1. version' = [version EXCEPT ![j] = version[j] + 1]
      /\ retired' = [retired EXCEPT ![j] = [retired[j] EXCEPT ![version[j]] = now]]
  BY DEF Publish, Recorded
<1>2. CASE k # j
  BY <1>1, <1>2 DEF currentWithin, Recorded
<1>3. CASE k = j /\ v = version[j]
  BY <1>1, <1>3 DEF currentWithin, Recorded
<1>4. CASE k = j /\ v # version[j]
  BY <1>1, <1>4 DEF currentWithin, Recorded
<1> QED BY <1>2, <1>3, <1>4

\* The version an answer in flight brings.
LEMMA BroughtVersion ==
  ASSUME NEW x \in Running, AnswerInv(x), x.reply.status \in Successes
  PROVE  brings(x) \in Versions
<1>1. CASE x.reply.status = "304"
  <2>1. reuse(x) \in Entry
    BY <1>1 DEF AnswerInv, reuse, Running
  <2> QED BY <1>1, <2>1 DEF brings, Entry
<1>2. CASE x.reply.status # "304"
  BY <1>2 DEF brings, AnswerInv, Replies
<1> QED BY <1>1, <1>2

\* The control plane publishes: nothing in the cache, on its way or returned
\* becomes too old by that.
LEMMA PublishStep ==
  ASSUME LookupInv, NEW j \in Keys, Publish(j)
  PROVE  LookupInv'
<1>1. /\ now' = now /\ entries' = entries /\ call' = call /\ floor' = floor /\ purged' = purged
      /\ version[j] < MaxVersion
  BY DEF Publish, cache, history
<1>2. Recorded
  BY DEF LookupInv
<1>3. Timeout \in Nat \ {0} /\ Lifetime \in Nat \ {0}
  BY OptionsValid, LifetimeBounds
<1>4. Recorded'
  BY <1>1, <1>2, BoundsNat DEF Recorded, Publish, Versions
<1>5. FloorOK'
  <2> SUFFICES ASSUME NEW k \in Keys PROVE floor[k] <= version'[k]
    BY <1>1 DEF FloorOK
  <2>1. floor[k] <= version[k] /\ floor[k] \in Int /\ version[k] \in Int
    BY <1>2, BoundsNat DEF LookupInv, FloorOK, Recorded, Versions
  <2>2. version'[k] = version[k] \/ version'[k] = version[k] + 1
    BY <1>2 DEF Recorded, Publish
  <2> QED BY <2>1, <2>2
<1>6. EntriesOK'
  <2> SUFFICES ASSUME NEW k \in Keys, entries[k] # None PROVE EntryOK(k, entries[k])'
    BY <1>1 DEF EntriesOK
  <2>1. PICK e \in Entry : e = entries[k]
    BY <1>2 DEF Recorded
  <2>2. EntryOK(k, e)
    BY <2>1 DEF LookupInv, EntriesOK
  <2>3. PICK t \in Int : t = e.expiresAt - 1
    BY DEF Entry
  <2>4. t < now + (Timeout + Lifetime)
    BY <1>2, <1>3, <2>2, <2>3 DEF EntryOK, Entry, Recorded
  <2>5. e.version \in Versions /\ Timeout + Lifetime \in Int
    BY <1>3 DEF Entry
  <2>6. currentWithin(k, e.version, t, Timeout + Lifetime)'
    BY <1>2, <2>2, <2>3, <2>4, <2>5, PublishKeeps DEF EntryOK
  <2>7. currentWithin(k, e.version, e.expiresAt - 1, Timeout + Lifetime)'
    BY <2>3, <2>6
  <2> QED BY <1>1, <2>1, <2>2, <2>7 DEF EntryOK
<1>7. ASSUME NEW c \in Lookups PROVE CallInv(call[c])'
  <2>1. PICK x \in {Idle} \cup Running \cup Ended : x = call[c] /\ x = call'[c]
    BY <1>1, <1>2 DEF Recorded
  <2>2. CallInv(x)
    BY <2>1 DEF LookupInv
  <2>3. ASSUME x \in Running PROVE GoingInv(x)'
    <3>1. GoingInv(x)
      BY <2>2, <2>3 DEF CallInv
    <3>2. ASSUME x.phase = "answered" PROVE AnswerInv(x)'
      <4>1. AnswerInv(x)
        BY <3>1, <3>2 DEF GoingInv
      <4>2. ASSUME x.reply.status \in Successes PROVE currentWithin(x.key, brings(x), x.reply.readAt, 1)'
        <5>1. PICK v \in Versions : v = brings(x)
          BY <2>3, <4>1, <4>2, BroughtVersion
        <5>2. PICK t \in Int : t = x.reply.readAt
          BY <4>1 DEF AnswerInv, Replies
        <5>3. t < now + 1
          BY <1>2, <4>1, <5>2 DEF AnswerInv, Recorded
        <5>4. x.key \in Keys
          BY <2>3 DEF Running
        <5>5. currentWithin(x.key, v, t, 1)'
          BY <1>2, <4>1, <4>2, <5>1, <5>2, <5>3, <5>4, PublishKeeps DEF AnswerInv
        <5> QED BY <5>1, <5>2, <5>5 DEF brings, reuse
      <4> QED BY <1>1, <4>1, <4>2 DEF AnswerInv, brings, reuse
    <3> QED BY <1>1, <3>1, <3>2 DEF GoingInv, used, spent
  <2>4. ASSUME x \in Ended PROVE EndedInv(x)'
    <3>1. EndedInv(x)
      BY <2>2, <2>4 DEF CallInv
    <3>2. ASSUME x.code \in {"found", "LOOKUP_NOT_FOUND"}
          PROVE  currentWithin(x.key, x.result, x.endedAt, Timeout + Lifetime)'
      <4>1. PICK t \in Int : t = x.endedAt
        BY <2>4 DEF Ended
      <4>2. t < now + (Timeout + Lifetime)
        BY <1>2, <1>3, <3>1, <4>1 DEF EndedInv, Recorded
      <4>3. x.key \in Keys /\ x.result \in Versions /\ Timeout + Lifetime \in Int
        BY <1>3, <2>4 DEF Ended
      <4> QED BY <1>2, <3>1, <3>2, <4>1, <4>2, <4>3, PublishKeeps DEF EndedInv
    <3> QED BY <1>1, <3>1, <3>2 DEF EndedInv
  <2> QED BY <2>1, <2>3, <2>4 DEF CallInv
<1> QED BY <1>4, <1>5, <1>6, <1>7 DEF LookupInv

\* A purge: entries go, and a floor is raised only past answers that are
\* recent enough.
LEMMA PurgeStep ==
  ASSUME LookupInv, NEW S \in SUBSET Keys, purge(S)
  PROVE  LookupInv'
<1>1. /\ now' = now /\ version' = version /\ retired' = retired /\ call' = call
      /\ purged' = [k \in Keys |-> IF k \in S THEN version[k] ELSE purged[k]]
      /\ floor' = [k \in Keys |-> IF k \in S /\ ~olderInFlight(k) THEN version[k] ELSE floor[k]]
      /\ entries' = [k \in Keys |-> IF k \in S THEN None ELSE entries[k]]
  BY DEF purge, clear, registry
<1>2. Recorded
  BY DEF LookupInv
<1>3. Recorded'
  BY <1>1, <1>2 DEF Recorded
<1>4. \A k \in Keys : /\ floor[k] \in Int /\ floor'[k] \in Int /\ version[k] \in Int
                      /\ floor[k] <= version[k] /\ floor[k] <= floor'[k] /\ floor'[k] <= version[k]
  <2> SUFFICES ASSUME NEW k \in Keys
               PROVE  /\ floor[k] \in Int /\ floor'[k] \in Int /\ version[k] \in Int
                      /\ floor[k] <= version[k] /\ floor[k] <= floor'[k] /\ floor'[k] <= version[k]
    OBVIOUS
  <2>1. floor[k] <= version[k] /\ floor[k] \in Int /\ version[k] \in Int
    BY <1>2, BoundsNat DEF LookupInv, FloorOK, Recorded, Versions
  <2>2. floor'[k] = floor[k] \/ floor'[k] = version[k]
    BY <1>1
  <2> QED BY <2>1, <2>2
<1>5. FloorOK'
  BY <1>1, <1>4 DEF FloorOK
<1>6. EntriesOK'
  <2> SUFFICES ASSUME NEW k \in Keys, entries'[k] # None PROVE EntryOK(k, entries[k])' /\ entries'[k] = entries[k]
    BY DEF EntriesOK
  <2>1. k \notin S /\ entries'[k] = entries[k] /\ floor'[k] = floor[k]
    BY <1>1
  <2>2. EntryOK(k, entries[k])
    BY <2>1 DEF LookupInv, EntriesOK
  <2> QED BY <1>1, <2>1, <2>2 DEF EntryOK, currentWithin
<1>7. ASSUME NEW c \in Lookups PROVE CallInv(call[c])'
  <2>1. PICK x \in {Idle} \cup Running \cup Ended : x = call[c] /\ x = call'[c]
    BY <1>1, <1>2 DEF Recorded
  <2>2. CallInv(x)
    BY <2>1 DEF LookupInv
  <2>3. ASSUME x \in Running PROVE GoingInv(x)'
    <3>1. GoingInv(x) /\ x.key \in Keys /\ x.floor \in Int
      BY <2>2, <2>3, BoundsNat DEF CallInv, Running, Versions
    <3>2. ASSUME x.phase = "answered" PROVE AnswerInv(x)'
      <4>1. AnswerInv(x)
        BY <3>1, <3>2 DEF GoingInv
      <4>2. ASSUME x.reply.status \in Successes PROVE brings(x) >= floor'[x.key]
        <5>1. brings(x) \in Int /\ brings(x) >= floor[x.key]
          BY <2>3, <4>1, <4>2, BroughtVersion, BoundsNat DEF Versions, AnswerInv
        <5>2. CASE floor'[x.key] = floor[x.key]
          BY <5>1, <5>2
        <5>3. CASE floor'[x.key] # floor[x.key]
          <6>1. floor'[x.key] = version[x.key] /\ ~olderInFlight(x.key)
            BY <1>1, <3>1, <5>3
          <6>2. brings(x) = carried(c)
            BY <2>1 DEF brings, carried, reuse, reusable
          <6>3. ~(carried(c) < version[x.key])
            BY <2>1, <3>2, <4>2, <6>1 DEF olderInFlight, Successes
          <6> QED BY <1>4, <3>1, <5>1, <6>1, <6>2, <6>3
        <5> QED BY <5>2, <5>3
      <4> QED BY <1>1, <4>1, <4>2 DEF AnswerInv, brings, reuse, currentWithin
    <3>3. x.floor <= floor'[x.key]
      BY <1>4, <3>1 DEF GoingInv
    <3> QED BY <1>1, <3>1, <3>2, <3>3 DEF GoingInv, used, spent
  <2>4. ASSUME x \in Ended PROVE EndedInv(x)'
    BY <1>1, <2>2, <2>4 DEF CallInv, EndedInv, currentWithin
  <2> QED BY <2>1, <2>3, <2>4 DEF CallInv
<1> QED BY <1>3, <1>5, <1>6, <1>7 DEF LookupInv

\* The time spent: an attempt costs a timeout and a delay, and all of them
\* together no more than Longest.
LEMMA Budget ==
  ASSUME NEW r \in 1 .. Resolvers, NEW a \in 0 .. MaxRetries
  PROVE  /\ spent(r, a) \in Nat /\ spent(1, 0) = 0
         /\ spent(r, a + 1) = spent(r, a) + Timeout + MaxDelay
         /\ a = MaxRetries => spent(r + 1, 0) = spent(r, a) + Timeout
         /\ spent(r, a) + Timeout <= Longest
<1>1. Timeout \in Nat /\ MaxDelay \in Nat /\ MaxRetries \in Nat /\ Resolvers \in Nat
  BY OptionsValid
<1>2. PICK P \in Nat : P = PerResolver /\ P = MaxRetries * (Timeout + MaxDelay) + Timeout
  <2>1. (MaxRetries + 1) * Timeout + MaxRetries * MaxDelay = MaxRetries * (Timeout + MaxDelay) + Timeout
    BY <1>1
  <2>2. MaxRetries * (Timeout + MaxDelay) + Timeout \in Nat
    BY <1>1
  <2> QED BY <2>1, <2>2 DEF PerResolver
<1>3. PICK C \in Nat : C = Timeout + MaxDelay
  BY <1>1
<1>4. r \in Nat /\ r >= 1 /\ r <= Resolvers /\ a \in Nat /\ a <= MaxRetries
  BY <1>1
<1>5. spent(r, a) = (r - 1) * P + a * C /\ spent(r, a + 1) = (r - 1) * P + (a + 1) * C
  BY <1>2, <1>3 DEF spent
<1>6. spent(r + 1, 0) = r * P /\ spent(1, 0) = 0
  BY <1>2, <1>3, <1>4 DEF spent
<1>7. (r - 1) * P \in Nat /\ a * C \in Nat /\ r * P = (r - 1) * P + P /\ (a + 1) * C = a * C + C
  BY <1>4
<1>8. a * C <= MaxRetries * C /\ r * P <= Resolvers * P
  BY <1>1, <1>4
<1>9. Longest = Resolvers * P
  BY <1>2 DEF Longest, PerResolver
<1>10. MaxRetries * C + Timeout = P /\ MaxRetries * C \in Nat /\ Resolvers * P \in Nat
  BY <1>1, <1>2, <1>3
<1>11. PICK x \in Nat, y \in Nat, z \in Nat, l \in Nat :
         x = (r - 1) * P /\ y = a * C /\ z = MaxRetries * C /\ l = Resolvers * P
  BY <1>7, <1>10
<1>12. spent(r, a) = x + y /\ spent(r, a + 1) = x + y + C /\ spent(r + 1, 0) = x + P
  BY <1>5, <1>6, <1>7, <1>11
<1>13. y <= z /\ x + P <= l /\ z + Timeout = P
  BY <1>7, <1>8, <1>10, <1>11
<1>14. a = MaxRetries => y = z
  BY <1>11
<1> QED BY <1>1, <1>3, <1>6, <1>9, <1>11, <1>12, <1>13, <1>14

\* The clock goes on: timers that are due have fired.
LEMMA TickStep ==
  ASSUME LookupInv, Tick
  PROVE  LookupInv'
<1>1. /\ now' = now + 1 /\ version' = version /\ retired' = retired /\ call' = call
      /\ purged' = purged /\ floor' = floor /\ entries' = entries
  BY DEF Tick, registry, cache, history
<1>2. Recorded
  BY DEF LookupInv
<1>3. PICK n \in Nat : n = now /\ now' = n + 1
  BY <1>1, <1>2 DEF Recorded
<1>4. Recorded' /\ FloorOK'
  BY <1>1, <1>2, <1>3 DEF Recorded, LookupInv, FloorOK
<1>5. EntriesOK'
  <2> SUFFICES ASSUME NEW k \in Keys, entries[k] # None PROVE EntryOK(k, entries[k])'
    BY <1>1 DEF EntriesOK
  <2>1. PICK e \in Entry : e = entries[k]
    BY <1>2 DEF Recorded
  <2>2. EntryOK(k, e)
    BY <2>1 DEF LookupInv, EntriesOK
  <2>3. e.expiresAt <= now' + Lifetime
    BY <1>3, <2>2, LifetimeBounds DEF EntryOK, Entry
  <2> QED BY <1>1, <2>1, <2>2, <2>3 DEF EntryOK, currentWithin
<1>6. ASSUME NEW c \in Lookups PROVE CallInv(call[c])'
  <2>1. PICK x \in {Idle} \cup Running \cup Ended : x = call[c] /\ x = call'[c]
    BY <1>1, <1>2 DEF Recorded
  <2>2. CallInv(x)
    BY <2>1 DEF LookupInv
  <2>3. ASSUME x \in Running PROVE GoingInv(x)'
    <3>1. GoingInv(x)
      BY <2>2, <2>3 DEF CallInv
    <3>2. ~overdue(c)
      BY DEF Tick
    <3>3. PICK s \in Nat, w \in Nat, T \in Nat : s = x.sentAt /\ w = x.wakeAt /\ T = Timeout
      BY <2>3, OptionsValid DEF Running
    <3>4. x.phase # "delaying" => x.sentAt <= now' /\ now' <= x.sentAt + Timeout
      <4>1. x.phase # "delaying" => x.phase \in InFlight
        BY <2>3 DEF Running, InFlight
      <4>2. x.phase # "delaying" => s <= n /\ ~(n >= s + T)
        BY <1>3, <2>1, <3>1, <3>2, <3>3, <4>1 DEF GoingInv, overdue
      <4> QED BY <1>3, <3>3, <4>2
    <3>5. x.phase = "delaying" => now' <= x.begunAt + used(x)
      <4>1. x.phase = "delaying" => ~(n >= w)
        BY <1>3, <2>1, <3>2, <3>3 DEF overdue
      <4>2. PICK b \in Nat, r \in 1 .. Resolvers, a \in 0 .. MaxRetries :
              b = x.begunAt /\ r = x.resolver /\ a = x.attempt
        BY <2>3 DEF Running
      <4>3. PICK u \in Nat : u = used(x)
        BY <4>2, Budget DEF used
      <4>4. x.phase = "delaying" => w <= b + u
        BY <3>1, <3>3, <4>2, <4>3 DEF GoingInv
      <4> QED BY <1>3, <4>1, <4>2, <4>3, <4>4
    <3>6. x.phase = "answered" => AnswerInv(x)'
      <4>1. ASSUME x.reply \in Replies, x.reply.readAt <= now PROVE x.reply.readAt <= now'
        BY <1>3, <4>1 DEF Replies
      <4> QED BY <1>1, <3>1, <4>1 DEF GoingInv, AnswerInv, brings, reuse, currentWithin
    <3> QED BY <1>1, <3>1, <3>4, <3>5, <3>6 DEF GoingInv, used, spent
  <2>4. ASSUME x \in Ended PROVE EndedInv(x)'
    <3>1. EndedInv(x)
      BY <2>2, <2>4 DEF CallInv
    <3>2. x.endedAt <= now'
      BY <1>3, <2>4, <3>1 DEF EndedInv, Ended
    <3> QED BY <1>1, <3>1, <3>2 DEF EndedInv, currentWithin
  <2> QED BY <2>1, <2>3, <2>4 DEF CallInv
<1> QED BY <1>4, <1>5, <1>6 DEF LookupInv

-----------------------------------------------------------------------------
(* Steps of a lookup. *)

\* A lookup's step changes its own record only.
LEMMA CallsKept ==
  ASSUME LookupInv, UNCHANGED <<now, registry, history>>, NEW c \in Lookups,
         NEW m \in Running \cup Ended, CallInv(m), call' = [call EXCEPT ![c] = m]
  PROVE  /\ call' \in [Lookups -> {Idle} \cup Running \cup Ended]
         /\ \A d \in Lookups : CallInv(call[d])'
<1>1. now' = now /\ version' = version /\ retired' = retired /\ floor' = floor /\ purged' = purged
  BY DEF registry, history
<1>2. Recorded
  BY DEF LookupInv
<1>3. ASSUME NEW d \in Lookups PROVE CallInv(call[d])'
  <2>1. call'[d] = IF d = c THEN m ELSE call[d]
    BY <1>2 DEF Recorded
  <2>2. CallInv(call'[d])
    BY <2>1 DEF LookupInv
  <2>3. PICK x : x = call'[d]
    OBVIOUS
  <2>4. CallInv(x)'
    BY <1>1, <2>2, <2>3 DEF CallInv, GoingInv, EndedInv, AnswerInv, used, spent, brings, reuse, currentWithin
  <2> QED BY <2>3, <2>4
<1> QED BY <1>2, <1>3 DEF Recorded

\* The cache stays as it is.
LEMMA CallStep ==
  ASSUME LookupInv, UNCHANGED <<now, registry, history>>, entries' = entries, NEW c \in Lookups,
         NEW m \in Running \cup Ended, CallInv(m), call' = [call EXCEPT ![c] = m]
  PROVE  LookupInv'
<1>1. now' = now /\ version' = version /\ retired' = retired /\ floor' = floor /\ purged' = purged
  BY DEF registry, history
<1>2. Recorded /\ FloorOK /\ EntriesOK
  BY DEF LookupInv
<1>3. /\ call' \in [Lookups -> {Idle} \cup Running \cup Ended]
      /\ \A d \in Lookups : CallInv(call[d])'
  BY CallsKept
<1>4. Recorded' /\ FloorOK' /\ EntriesOK'
  BY <1>1, <1>2, <1>3 DEF Recorded, FloorOK, EntriesOK, EntryOK, currentWithin
<1> QED BY <1>3, <1>4 DEF LookupInv

\* An entry in order is stored; others are evicted or stay.
LEMMA StoreStep ==
  ASSUME LookupInv, UNCHANGED <<now, registry, history>>, NEW c \in Lookups,
         NEW m \in Running \cup Ended, CallInv(m), call' = [call EXCEPT ![c] = m],
         NEW j \in Keys, NEW e \in Entry, EntryOK(j, e), store(j, e)
  PROVE  LookupInv'
<1>1. now' = now /\ version' = version /\ retired' = retired /\ floor' = floor /\ purged' = purged
  BY DEF registry, history
<1>2. Recorded /\ FloorOK /\ EntriesOK
  BY DEF LookupInv
<1>3. /\ call' \in [Lookups -> {Idle} \cup Running \cup Ended]
      /\ \A d \in Lookups : CallInv(call[d])'
  BY CallsKept
<1>4. /\ entries' \in [Keys -> Entry \cup {None}]
      /\ \A k \in Keys : entries'[k] \in {entries[k], None} \/ (k = j /\ entries'[k] = e)
  BY <1>2 DEF store, Recorded
<1>5. Recorded' /\ FloorOK'
  BY <1>1, <1>2, <1>3, <1>4 DEF Recorded, FloorOK
<1>6. EntriesOK'
  <2> SUFFICES ASSUME NEW k \in Keys, entries'[k] # None PROVE EntryOK(k, entries[k])'
    BY DEF EntriesOK
  <2>1. EntryOK(k, entries'[k])
    BY <1>2, <1>4 DEF EntriesOK
  <2> QED BY <1>1, <2>1 DEF EntryOK, currentWithin
<1> QED BY <1>3, <1>5, <1>6 DEF LookupInv

\* The two phases of a record are apart.
LEMMA Apart ==
  /\ \A x \in Running : x \notin Ended /\ x.phase \in {"asking", "answered", "delaying"}
  /\ \A x \in Ended : x \notin Running /\ x.phase = "done"
  /\ Idle.phase = "idle"
BY DEF Running, Ended, Idle

\* A lookup that fails, or is refused.
LEMMA FailedRecord ==
  ASSUME Recorded, NEW x \in Running, NEW code \in Codes \ {"found", "LOOKUP_NOT_FOUND"}
  PROVE  ended(x, code, 0) \in Ended /\ CallInv(ended(x, code, 0))
<1>1. PICK n \in Nat, zero \in Versions, k \in Keys, p \in Versions, f \in Versions :
        n = now /\ zero = 0 /\ k = x.key /\ p = x.purged /\ f = x.floor
  <2>1. 0 \in Versions
    BY BoundsNat DEF Versions
  <2> QED BY <2>1 DEF Recorded, Running
<1> DEFINE m == [phase |-> "done", key |-> k, code |-> code, result |-> zero, endedAt |-> n, purged |-> p, floor |-> f]
<1>2. m \in Ended /\ m.code = code /\ m.endedAt = n
  BY DEF Ended
<1>3. ended(x, code, 0) = m
  BY <1>1 DEF ended
<1> HIDE DEF m
<1>4. EndedInv(m)
  BY <1>1, <1>2 DEF EndedInv
<1> QED BY <1>2, <1>3, <1>4, Apart DEF CallInv

\* A lookup that returns a version, or that there is none.
LEMMA AnsweredRecord ==
  ASSUME Recorded, NEW x \in Running, NEW v \in Versions, NEW code \in {"found", "LOOKUP_NOT_FOUND"},
         currentWithin(x.key, v, now, Timeout + Lifetime), v >= x.floor
  PROVE  ended(x, code, v) \in Ended /\ CallInv(ended(x, code, v))
<1>1. PICK n \in Nat, k \in Keys, p \in Versions, f \in Versions :
        n = now /\ k = x.key /\ p = x.purged /\ f = x.floor
  BY DEF Recorded, Running
<1> DEFINE m == [phase |-> "done", key |-> k, code |-> code, result |-> v, endedAt |-> n, purged |-> p, floor |-> f]
<1>2. m \in Ended /\ m.key = k /\ m.result = v /\ m.endedAt = n /\ m.floor = f
  BY DEF Ended, Codes
<1>3. ended(x, code, v) = m
  BY <1>1 DEF ended
<1> HIDE DEF m
<1>4. EndedInv(m)
  BY <1>1, <1>2 DEF EndedInv
<1> QED BY <1>2, <1>3, <1>4, Apart DEF CallInv

\* The caller's signal.
LEMMA CancelStep ==
  ASSUME LookupInv, NEW c \in Lookups, Cancel(c)
  PROVE  LookupInv'
<1>1. PICK x \in Running : x = call[c]
  <2>1. call[c] \in {Idle} \cup Running \cup Ended /\ call[c].phase \notin {"idle", "done"}
    BY DEF Cancel, InFlight, LookupInv, Recorded
  <2> QED BY <2>1, Apart
<1>2. "LOOKUP_CANCELLED" \in Codes \ {"found", "LOOKUP_NOT_FOUND"}
  BY DEF Codes, Fatal
<1>3. PICK m \in Ended : m = ended(x, "LOOKUP_CANCELLED", 0) /\ CallInv(m)
  BY <1>2, FailedRecord DEF LookupInv
<1>4. call' = [call EXCEPT ![c] = m]
  BY <1>1, <1>3 DEF Cancel, finish
<1> QED BY <1>3, <1>4, CallStep DEF Cancel, cache

\* A lookup begins: refused, answered from the cache, or asking.
LEMMA BeginStep ==
  ASSUME LookupInv, NEW c \in Lookups, NEW k \in Keys, NEW mode \in Modes, Begin(c, k, mode)
  PROVE  LookupInv'
<1> DEFINE begun == [phase |-> "asking", key |-> k, mode |-> mode, cached |-> entries[k],
                     resolver |-> 1, attempt |-> 0, sentAt |-> now, wakeAt |-> 0, reply |-> None,
                     begunAt |-> now, purged |-> purged[k], floor |-> floor[k]]
<1>1. Recorded /\ UNCHANGED <<now, registry, history>>
  BY DEF LookupInv, Begin
<1>2. 1 \in 1 .. Resolvers /\ 0 \in 0 .. MaxRetries /\ 0 \in Nat
  BY OptionsValid
<1>3. PICK one \in 1 .. Resolvers, none \in 0 .. MaxRetries, zero \in Nat, n \in Nat,
           kept \in Entry \cup {None}, p \in Versions, f \in Versions :
        one = 1 /\ none = 0 /\ zero = 0 /\ n = now /\ kept = entries[k] /\ p = purged[k] /\ f = floor[k]
  BY <1>1, <1>2 DEF Recorded
<1>4. PICK x \in Running :
        /\ x = [phase |-> "asking", key |-> k, mode |-> mode, cached |-> kept, resolver |-> one, attempt |-> none,
                sentAt |-> n, wakeAt |-> zero, reply |-> None, begunAt |-> n, purged |-> p, floor |-> f]
        /\ x.phase = "asking" /\ x.key = k /\ x.resolver = one /\ x.attempt = none /\ x.sentAt = n
        /\ x.begunAt = n /\ x.floor = f
  <2> DEFINE x == [phase |-> "asking", key |-> k, mode |-> mode, cached |-> kept, resolver |-> one,
                   attempt |-> none, sentAt |-> n, wakeAt |-> zero, reply |-> None, begunAt |-> n,
                   purged |-> p, floor |-> f]
  <2>1. x \in Running /\ x.phase = "asking" /\ x.key = k /\ x.resolver = one /\ x.attempt = none /\ x.sentAt = n
        /\ x.begunAt = n /\ x.floor = f
    BY DEF Running
  <2> QED BY <2>1
<1>5. begun = x
  BY <1>3, <1>4
<1> HIDE DEF begun
<1>6. CASE (\E code \in Refusals : call' = [call EXCEPT ![c] = ended(begun, code, 0)]) /\ UNCHANGED cache
  <2>1. PICK code \in Refusals : call' = [call EXCEPT ![c] = ended(begun, code, 0)]
    BY <1>6
  <2>2. code \in Codes \ {"found", "LOOKUP_NOT_FOUND"}
    BY AnswersTyped DEF Codes, Fatal
  <2>3. PICK m \in Ended : m = ended(x, code, 0) /\ CallInv(m)
    BY <1>1, <2>2, FailedRecord
  <2> QED BY <1>1, <1>5, <1>6, <2>1, <2>3, CallStep DEF cache
<1>7. CASE /\ entries[k] # None /\ fresh(entries[k]) /\ touch(k)
           /\ call' = [call EXCEPT ![c] = ended(begun, IF entries[k].version = 0 THEN "LOOKUP_NOT_FOUND" ELSE "found",
                                                entries[k].version)]
  <2>1. PICK e \in Entry : e = entries[k] /\ EntryOK(k, e) /\ e.expiresAt > now
    BY <1>1, <1>7 DEF Recorded, LookupInv, EntriesOK, fresh
  <2>2. PICK code \in {"found", "LOOKUP_NOT_FOUND"} : code = IF e.version = 0 THEN "LOOKUP_NOT_FOUND" ELSE "found"
    OBVIOUS
  <2>3. PICK v \in Versions, t \in Int : v = e.version /\ t = e.expiresAt - 1
    BY DEF Entry
  <2>4. currentWithin(k, v, now, Timeout + Lifetime)
    <3>1. currentWithin(k, v, t, Timeout + Lifetime) /\ now <= t
      BY <1>3, <2>1, <2>3 DEF EntryOK, Entry
    <3>2. retired[k][v] \in Int /\ Timeout + Lifetime \in Int /\ now \in Int
      BY <1>1, OptionsValid, LifetimeBounds DEF Recorded
    <3> QED BY <3>1, <3>2 DEF currentWithin
  <2>5. v >= x.floor
    BY <1>3, <1>4, <2>1, <2>3 DEF EntryOK
  <2>6. PICK m \in Ended : m = ended(x, code, v) /\ CallInv(m)
    BY <1>1, <1>4, <2>4, <2>5, AnsweredRecord
  <2>7. call' = [call EXCEPT ![c] = m]
    BY <1>5, <1>7, <2>1, <2>2, <2>3, <2>6
  <2> QED BY <1>1, <1>7, <2>6, <2>7, CallStep DEF touch
<1>8. CASE call' = [call EXCEPT ![c] = begun] /\ UNCHANGED cache
  <2>1. used(x) = 0
    BY <1>2, <1>3, <1>4, Budget DEF used
  <2>2. n <= n /\ n <= n + Timeout /\ n <= n + 0 /\ f <= f
    BY OptionsValid, BoundsNat DEF Versions
  <2>3. x.sentAt <= now /\ now <= x.sentAt + Timeout /\ x.sentAt <= x.begunAt + used(x) /\ x.floor <= floor[x.key]
    BY <1>3, <1>4, <2>1, <2>2
  <2>4. GoingInv(x)
    BY <1>4, <2>3 DEF GoingInv
  <2>5. CallInv(x)
    BY <2>4, Apart DEF CallInv
  <2> QED BY <1>1, <1>5, <1>8, <2>5, CallStep DEF cache
<1> QED BY <1>6, <1>7, <1>8 DEF Begin, begun

\* The lookup whose record a step is about has begun.
LEMMA HasBegun ==
  ASSUME LookupInv, NEW c \in Lookups, call[c].phase \notin {"idle", "done"}
  PROVE  call[c] \in Running /\ GoingInv(call[c])
<1>1. call[c] \in {Idle} \cup Running \cup Ended /\ CallInv(call[c])
  BY DEF LookupInv, Recorded
<1> QED BY <1>1, Apart DEF CallInv

\* A resolver answers with what is current.
LEMMA AnswerStep ==
  ASSUME LookupInv, NEW c \in Lookups, Answer(c)
  PROVE  LookupInv'
<1>1. UNCHANGED <<now, registry, history>> /\ entries' = entries /\ Recorded
  BY DEF Answer, cache, LookupInv
<1>2. PICK x \in Running : x = call[c] /\ x.phase = "asking" /\ GoingInv(x)
  BY HasBegun DEF Answer
<1>3. PICK current \in Versions : current = version[x.key]
  BY <1>1 DEF Recorded, Running
<1>4. 0 \in Versions
  BY BoundsNat DEF Versions
<1>5. PICK status \in Successes \cup Faults, record \in Versions, etag \in BOOLEAN, control \in Controls,
           wait \in Nat \cup {None} :
        /\ call' = [call EXCEPT ![c].phase = "answered", ![c].reply =
                     [status |-> status, record |-> record, etag |-> etag, control |-> control,
                      readAt |-> now, retryAfter |-> wait]]
        /\ \/ status = "200" /\ record = current
           \/ status = "304" /\ current > 0 /\ ifNoneMatch(c) = current
           \/ status = "404" /\ record = 0 /\ current = 0
           \/ status \in Faults
  <2>1. RetryAfters \subseteq Nat \cup {None} /\ "200" \in Successes /\ "304" \in Successes /\ "404" \in Successes
    BY AnswersTyped DEF Successes
  <2> QED BY <1>2, <1>3, <1>4, <2>1 DEF Answer
<1>6. PICK n \in Nat : n = now
  BY <1>1 DEF Recorded
<1>7. PICK reply \in Replies :
        /\ reply = [status |-> status, record |-> record, etag |-> etag, control |-> control,
                    readAt |-> n, retryAfter |-> wait]
        /\ reply.status = status /\ reply.record = record /\ reply.readAt = n
  <2> DEFINE reply == [status |-> status, record |-> record, etag |-> etag, control |-> control,
                       readAt |-> n, retryAfter |-> wait]
  <2>1. reply \in Replies /\ reply.status = status /\ reply.record = record /\ reply.readAt = n
    BY DEF Replies, Successes
  <2> QED BY <2>1
<1> DEFINE m == [x EXCEPT !.phase = "answered", !.reply = reply]
<1>8. m \in Running
  BY DEF Running
<1>9. /\ m.phase = "answered" /\ m.reply = reply /\ m.key = x.key /\ m.mode = x.mode /\ m.cached = x.cached
      /\ m.resolver = x.resolver /\ m.attempt = x.attempt /\ m.sentAt = x.sentAt /\ m.begunAt = x.begunAt
      /\ m.floor = x.floor
  BY DEF Running
<1>10. call' = [call EXCEPT ![c] = m]
  <2>1. call' = [call EXCEPT ![c] = [x EXCEPT !.phase = "answered", !.reply = reply]]
    BY <1>1, <1>2, <1>5, <1>6, <1>7 DEF Recorded
  <2> QED BY <2>1
<1> HIDE DEF m
<1>11. Faults \cap Successes = {}
  BY AnswersTyped DEF Successes
<1>12. ASSUME status \in Successes
       PROVE  brings(m) = current /\ (status = "304" => reuse(m) # None) /\ (status = "404" => record = 0)
  <2>1. CASE status = "304"
    <3>1. current > 0 /\ ifNoneMatch(c) = current
      BY <1>5, <1>11, <1>12, <2>1
    <3>2. current # None
      BY NoneIsNoVersion, BoundsNat DEF Versions
    <3>3. reusable(c) # None /\ reusable(c).version = current
      BY <3>1, <3>2 DEF ifNoneMatch
    <3>4. reuse(m) = reusable(c)
      BY <1>2, <1>9 DEF reuse, reusable
    <3> QED BY <1>7, <1>9, <2>1, <3>3, <3>4 DEF brings
  <2>2. CASE status # "304"
    BY <1>5, <1>7, <1>9, <1>11, <1>12, <2>2 DEF brings
  <2> QED BY <2>1, <2>2
<1>13. AnswerInv(m)
  <2>1. x.sentAt <= now
    BY <1>2 DEF GoingInv
  <2>2. current >= floor[x.key]
    BY <1>1, <1>3, BoundsNat DEF LookupInv, FloorOK, Running, Recorded, Versions
  <2>3. currentWithin(x.key, current, n, 1)
    BY <1>3 DEF currentWithin
  <2>4. m.reply \in Replies /\ m.sentAt <= m.reply.readAt /\ m.reply.readAt <= now
    BY <1>6, <1>7, <1>9, <2>1
  <2>5. m.reply.status = status /\ m.reply.record = record /\ m.reply.readAt = n /\ m.key = x.key
    BY <1>7, <1>9
  <2>6. ASSUME status \in Successes
        PROVE  currentWithin(m.key, brings(m), m.reply.readAt, 1) /\ brings(m) >= floor[m.key]
    BY <1>12, <2>2, <2>3, <2>5, <2>6
  <2>7. "304" \in Successes /\ "404" \in Successes
    BY DEF Successes
  <2>8. (status = "304" => reuse(m) # None) /\ (status = "404" => record = 0)
    BY <1>12, <2>7
  <2> QED BY <2>4, <2>5, <2>6, <2>8 DEF AnswerInv
<1>14. GoingInv(m)
  BY <1>2, <1>9, <1>13 DEF GoingInv, used
<1> QED BY <1>1, <1>8, <1>10, <1>14, Apart, CallStep DEF CallInv

\* The recursion of doubled gives natural numbers.
LEMMA DoubledType == \A n \in Nat : doubled[n] \in Nat
<1> DEFINE F == [p \in Nat \X Nat |-> 2 * p[2]]
<1>1. F \in [Nat \X Nat -> Nat] /\ \A n, m \in Nat : F[<<n, m>>] = 2 * m
  OBVIOUS
<1> HIDE DEF F
<1>2. PICK f : Follows(f, BaseDelay, F, Nat)
  <2>1. BaseDelay \in Nat
    BY OptionsValid
  <2> QED BY <1>1, <2>1, Recursion
<1>3. ASSUME NEW n \in Nat PROVE f[n] = IF n = 0 THEN BaseDelay ELSE 2 * f[n - 1]
  <2>1. CASE n # 0
    <3>1. n - 1 \in Nat /\ (n - 1) + 1 = n /\ f[n - 1] \in Nat
      BY <1>2, <2>1 DEF Follows
    <3>2. f[n] = F[<<n, f[n - 1]>>]
      BY <1>2, <3>1 DEF Follows
    <3> QED BY <1>1, <2>1, <3>1, <3>2
  <2> QED BY <1>2, <2>1 DEF Follows
<1>4. f = [n \in Nat |-> IF n = 0 THEN BaseDelay ELSE 2 * f[n - 1]]
  BY <1>2, <1>3 DEF Follows
<1>5. doubled = [n \in Nat |-> IF n = 0 THEN BaseDelay ELSE 2 * doubled[n - 1]]
  BY <1>4 DEF doubled
<1> DEFINE T == {n \in Nat : doubled[n] \in Nat}
<1>6. ASSUME NEW n \in Nat PROVE doubled[n] = IF n = 0 THEN BaseDelay ELSE 2 * doubled[n - 1]
  BY <1>5
<1>7. 0 \in T
  BY <1>6, OptionsValid
<1>8. ASSUME NEW n \in Nat, n \in T PROVE n + 1 \in T
  <2>1. n + 1 \in Nat /\ n + 1 # 0 /\ (n + 1) - 1 = n
    OBVIOUS
  <2> QED BY <1>6, <1>8, <2>1
<1> HIDE DEF T
<1>9. Nat \subseteq T
  BY <1>7, <1>8, EveryNumber
<1> QED BY <1>9 DEF T

\* A delay is at most the largest one.
LEMMA DelayBounded ==
  ASSUME NEW retryAfter \in Nat \cup {None}, NEW attempt \in Nat \ {0}
  PROVE  retryDelay(retryAfter, attempt) \in Nat /\ retryDelay(retryAfter, attempt) <= MaxDelay
<1>1. MaxDelay \in Nat
  BY OptionsValid
<1>2. ASSUME NEW d \in Nat PROVE min(d, MaxDelay) \in Nat /\ min(d, MaxDelay) <= MaxDelay
  BY <1>1, <1>2 DEF min
<1>3. attempt - 1 \in Nat
  OBVIOUS
<1>4. doubled[attempt - 1] \in Nat
  BY <1>3, DoubledType
<1>5. CASE retryAfter # None
  BY <1>2, <1>5 DEF retryDelay
<1>6. CASE retryAfter = None
  BY <1>2, <1>4, <1>6 DEF retryDelay
<1> QED BY <1>5, <1>6

\* An attempt fails: a delay, the next resolver, or the end.
LEMMA FailStep ==
  ASSUME LookupInv, UNCHANGED <<now, registry, cache, history>>, NEW c \in Lookups, call[c].phase \in InFlight,
         NEW code \in Retryable, NEW retryAfter \in Nat \cup {None}, fail(c, code, retryAfter)
  PROVE  LookupInv'
<1>1. UNCHANGED <<now, registry, history>> /\ entries' = entries /\ Recorded
  BY DEF cache, LookupInv
<1>2. PICK x \in Running : x = call[c] /\ x.phase # "delaying" /\ GoingInv(x)
  BY HasBegun DEF InFlight
<1>3. PICK n \in Nat, s \in Nat, b \in Nat, r \in 1 .. Resolvers, a \in 0 .. MaxRetries :
        n = now /\ s = x.sentAt /\ b = x.begunAt /\ r = x.resolver /\ a = x.attempt
  BY <1>1 DEF Recorded, Running
<1>4. PICK u \in Nat : u = spent(r, a)
  BY Budget
<1>5. PICK T \in Nat, M \in Nat : T = Timeout /\ M = MaxDelay
  BY OptionsValid
<1>6. s <= n /\ n <= s + T /\ s <= b + u
  BY <1>2, <1>3, <1>4, <1>5 DEF GoingInv, used
<1>7. n <= b + u + T
  BY <1>6
<1>8. x.floor <= floor[x.key]
  BY <1>2 DEF GoingInv
<1>9. Resolvers \in Nat /\ MaxRetries \in Nat
  BY OptionsValid
<1>10. CASE a < MaxRetries
  <2>1. PICK w \in Nat : w = now + retryDelay(retryAfter, a + 1) /\ w <= n + M
    <3>1. a + 1 \in Nat \ {0}
      BY <1>9
    <3>2. PICK d \in Nat : d = retryDelay(retryAfter, a + 1) /\ d <= M
      BY <1>5, <3>1, DelayBounded
    <3>3. n + d \in Nat /\ n + d <= n + M
      BY <3>2
    <3> QED BY <1>3, <3>2, <3>3
  <2>2. PICK y \in 0 .. MaxRetries : y = a + 1
    BY <1>9, <1>10
  <2> DEFINE m == [x EXCEPT !.phase = "delaying", !.attempt = y, !.reply = None, !.wakeAt = w]
  <2>3. m \in Running
    BY DEF Running
  <2>4. /\ m.phase = "delaying" /\ m.wakeAt = w /\ m.key = x.key /\ m.resolver = r /\ m.attempt = y
        /\ m.begunAt = b /\ m.floor = x.floor
    BY <1>3 DEF Running
  <2>5. call' = [call EXCEPT ![c] = m]
    <3>1. call' = [call EXCEPT ![c].phase = "delaying", ![c].attempt = a + 1, ![c].reply = None, ![c].wakeAt = w]
      BY <1>2, <1>3, <1>10, <2>1 DEF fail
    <3> QED BY <1>1, <1>2, <2>2, <3>1 DEF Recorded
  <2> HIDE DEF m
  <2>6. used(m) = u + T + M
    BY <1>4, <1>5, <2>2, <2>4, Budget DEF used
  <2>7. n <= b + (u + T + M) /\ w <= b + (u + T + M)
    BY <1>7, <2>1
  <2>8. GoingInv(m)
    BY <1>3, <1>8, <2>4, <2>6, <2>7 DEF GoingInv
  <2> QED BY <1>1, <2>3, <2>5, <2>8, Apart, CallStep DEF CallInv
<1>11. CASE a = MaxRetries /\ r < Resolvers
  <2>1. PICK q \in 1 .. Resolvers, y \in 0 .. MaxRetries : q = r + 1 /\ y = 0
    BY <1>9, <1>11
  <2> DEFINE m == [x EXCEPT !.phase = "asking", !.resolver = q, !.attempt = y, !.sentAt = n, !.reply = None]
  <2>2. m \in Running
    BY DEF Running
  <2>3. /\ m.phase = "asking" /\ m.sentAt = n /\ m.key = x.key /\ m.resolver = q /\ m.attempt = y
        /\ m.begunAt = b /\ m.floor = x.floor
    BY <1>3 DEF Running
  <2>4. call' = [call EXCEPT ![c] = m]
    <3>1. call' = [call EXCEPT ![c].phase = "asking", ![c].resolver = q, ![c].attempt = y,
                               ![c].sentAt = n, ![c].reply = None]
      BY <1>2, <1>3, <1>9, <1>11, <2>1 DEF fail, ask
    <3> QED BY <1>1, <1>2, <3>1 DEF Recorded
  <2> HIDE DEF m
  <2>5. used(m) = u + T
    BY <1>4, <1>5, <1>11, <2>1, <2>3, Budget DEF used
  <2>6. n <= n /\ n <= n + T /\ n <= b + (u + T)
    BY <1>7
  <2>7. GoingInv(m)
    BY <1>3, <1>5, <1>8, <2>3, <2>5, <2>6 DEF GoingInv
  <2> QED BY <1>1, <2>2, <2>4, <2>7, Apart, CallStep DEF CallInv
<1>12. CASE a = MaxRetries /\ ~(r < Resolvers)
  <2>1. code \in Codes \ {"found", "LOOKUP_NOT_FOUND"}
    BY DEF Codes, Retryable
  <2>2. PICK m \in Ended : m = ended(x, code, 0) /\ CallInv(m)
    BY <1>1, <2>1, FailedRecord
  <2>3. call' = [call EXCEPT ![c] = m]
    BY <1>2, <1>3, <1>9, <1>12, <2>2 DEF fail, finish
  <2> QED BY <1>1, <2>2, <2>3, CallStep
<1> QED BY <1>9, <1>10, <1>11, <1>12

\* The delay is over: the same resolver is asked again.
LEMMA RetryStep ==
  ASSUME LookupInv, NEW c \in Lookups, Retry(c)
  PROVE  LookupInv'
<1>1. UNCHANGED <<now, registry, history>> /\ entries' = entries /\ Recorded
  BY DEF cache, LookupInv, Retry
<1>2. PICK x \in Running : x = call[c] /\ x.phase = "delaying" /\ GoingInv(x)
  BY HasBegun DEF Retry
<1>3. PICK n \in Nat, b \in Nat, r \in 1 .. Resolvers, a \in 0 .. MaxRetries :
        n = now /\ b = x.begunAt /\ r = x.resolver /\ a = x.attempt
  BY <1>1, <1>2 DEF Recorded, Running
<1>4. PICK u \in Nat : u = spent(r, a)
  BY Budget
<1>5. PICK T \in Nat : T = Timeout
  BY OptionsValid
<1>6. n <= b + u /\ n <= n /\ n <= n + T
  BY <1>2, <1>3, <1>4, <1>5 DEF GoingInv, used
<1> DEFINE m == [x EXCEPT !.phase = "asking", !.resolver = r, !.attempt = a, !.sentAt = n, !.reply = None]
<1>7. m \in Running
  BY DEF Running
<1>8. /\ m.phase = "asking" /\ m.sentAt = n /\ m.key = x.key /\ m.resolver = r /\ m.attempt = a
      /\ m.begunAt = b /\ m.floor = x.floor
  BY <1>3 DEF Running
<1>9. call' = [call EXCEPT ![c] = m]
  <2>1. call' = [call EXCEPT ![c].phase = "asking", ![c].resolver = r, ![c].attempt = a,
                             ![c].sentAt = n, ![c].reply = None]
    BY <1>2, <1>3 DEF Retry, ask
  <2> QED BY <1>1, <1>2, <2>1 DEF Recorded
<1> HIDE DEF m
<1>10. used(m) = u
  BY <1>4, <1>8 DEF used
<1>11. x.floor <= floor[x.key]
  BY <1>2 DEF GoingInv
<1>12. GoingInv(m)
  BY <1>3, <1>5, <1>6, <1>8, <1>10, <1>11 DEF GoingInv
<1> QED BY <1>1, <1>7, <1>9, <1>12, Apart, CallStep DEF CallInv

\* What an answer brings may be kept for a lifetime from now: it was current
\* when it was read, and the request has not timed out since.
LEMMA BroughtIsRecent ==
  ASSUME Recorded, NEW x \in Running, GoingInv(x), x.phase = "answered", x.reply.status \in Successes,
         NEW t \in Int, t < now + Lifetime
  PROVE  currentWithin(x.key, brings(x), t, Timeout + Lifetime)
<1>1. AnswerInv(x) /\ x.key \in Keys
  BY DEF GoingInv, Running
<1>2. PICK v \in Versions : v = brings(x)
  BY <1>1, BroughtVersion
<1>3. PICK n \in Nat, s \in Nat, at \in Nat, gone \in Int, T \in Nat, L \in Nat :
        n = now /\ s = x.sentAt /\ at = x.reply.readAt /\ gone = retired[x.key][v] /\ T = Timeout /\ L = Lifetime
  <2>1. now \in Nat /\ Timeout \in Nat /\ Lifetime \in Nat
    BY OptionsValid, LifetimeBounds DEF Recorded
  <2>2. x.sentAt \in Nat
    BY DEF Running
  <2>3. x.reply.readAt \in Nat
    BY <1>1 DEF AnswerInv, Replies
  <2>4. retired[x.key][v] \in Int
    BY <1>1 DEF Recorded
  <2> QED BY <2>1, <2>2, <2>3, <2>4
<1>4. s <= at /\ n <= s + T /\ t < n + L
  BY <1>1, <1>3 DEF GoingInv, AnswerInv
<1>5. v = version[x.key] \/ at < gone + 1
  BY <1>1, <1>2, <1>3 DEF AnswerInv, currentWithin
<1>6. at < gone + 1 => t < gone + (T + L)
  BY <1>4
<1> QED BY <1>2, <1>3, <1>5, <1>6 DEF currentWithin

\* A lookup returns what an answer brought, and may have kept it in the cache.
LEMMA SuccessStep ==
  ASSUME LookupInv, UNCHANGED <<now, registry, history>>, NEW c \in Lookups,
         NEW x \in Running, x = call[c], x.phase = "answered", x.reply.status \in Successes,
         NEW code \in {"found", "LOOKUP_NOT_FOUND"}, finish(c, code, brings(x)),
         NEW e \in Entry, e.version = brings(x), e.expiresAt <= now + Lifetime,
         store(x.key, e) \/ UNCHANGED cache
  PROVE  LookupInv'
<1>1. Recorded /\ GoingInv(x) /\ AnswerInv(x) /\ x.key \in Keys
  BY DEF LookupInv, CallInv, GoingInv, Running
<1>2. PICK v \in Versions : v = brings(x)
  BY <1>1, BroughtVersion
<1>3. PICK n \in Nat, L \in Nat \ {0}, until \in Nat, fl \in Int, xf \in Int :
        n = now /\ L = Lifetime /\ until = e.expiresAt /\ fl = floor[x.key] /\ xf = x.floor
  <2>1. now \in Nat /\ Lifetime \in Nat \ {0}
    BY <1>1, LifetimeBounds DEF Recorded
  <2>2. e.expiresAt \in Nat
    BY DEF Entry
  <2>3. floor[x.key] \in Int /\ x.floor \in Int
    BY <1>1, BoundsNat DEF Recorded, Running, Versions
  <2> QED BY <2>1, <2>2, <2>3
<1>4. v \in Int /\ v >= fl /\ xf <= fl
  BY <1>1, <1>2, <1>3, BoundsNat DEF AnswerInv, GoingInv, Versions
<1>5. PICK m \in Ended : m = ended(x, code, v) /\ CallInv(m)
  <2>1. n < n + L
    BY <1>3
  <2>2. currentWithin(x.key, v, now, Timeout + Lifetime)
    BY <1>1, <1>2, <1>3, <2>1, BroughtIsRecent
  <2>3. v >= x.floor
    BY <1>3, <1>4
  <2> QED BY <1>1, <2>2, <2>3, AnsweredRecord
<1>6. call' = [call EXCEPT ![c] = m]
  BY <1>2, <1>5 DEF finish
<1>7. EntryOK(x.key, e)
  <2>1. PICK t \in Int : t = e.expiresAt - 1 /\ t < now + Lifetime
    BY <1>3
  <2>2. currentWithin(x.key, v, t, Timeout + Lifetime)
    BY <1>1, <1>2, <2>1, BroughtIsRecent
  <2> QED BY <1>2, <1>3, <1>4, <2>1, <2>2 DEF EntryOK
<1>8. CASE store(x.key, e)
  BY <1>1, <1>5, <1>6, <1>7, <1>8, StoreStep
<1>9. CASE UNCHANGED cache
  BY <1>5, <1>6, <1>9, CallStep DEF cache
<1> QED BY <1>8, <1>9

\* The expiry computed from an answer that may be cached.
LEMMA ExpiryBounded ==
  ASSUME now \in Nat, NEW reply \in Replies, reply.readAt <= now, isCacheable(reply)
  PROVE  expiry(reply) \in Nat /\ expiry(reply) <= now + Lifetime
<1>1. PICK n \in Nat, at \in Nat, age \in Nat, L \in Nat, ttl \in Nat :
        n = now /\ at = reply.readAt /\ age = reply.control.age /\ L = Lifetime /\ ttl = Ttl
  BY AnswersTyped, LifetimeBounds, OptionsValid DEF Replies
<1>2. at <= n /\ age <= L /\ ttl <= L
  BY <1>1, LifetimeBounds DEF Replies
<1>3. n + age <= n + L /\ at + age <= n + L /\ n + ttl <= n + L
  BY <1>2
<1>4. expiry(reply) \in {n + age, at + age, n + ttl}
  BY <1>1 DEF expiry, isCacheable
<1> QED BY <1>1, <1>3, <1>4

\* An answer arrives.
LEMMA DeliverStep ==
  ASSUME LookupInv, NEW c \in Lookups, Deliver(c)
  PROVE  LookupInv'
<1>1. UNCHANGED <<now, registry, history>> /\ Recorded
  BY DEF Deliver, LookupInv
<1>2. PICK x \in Running : x = call[c] /\ x.phase = "answered" /\ GoingInv(x)
  BY HasBegun DEF Deliver
<1>3. AnswerInv(x) /\ x.reply \in Replies /\ x.reply.readAt <= now
  BY <1>2 DEF GoingInv, AnswerInv
<1>4. PICK r \in 1 .. Resolvers, zero \in Versions : r = x.resolver /\ zero = 0
  <2>1. 0 \in Versions
    BY BoundsNat DEF Versions
  <2> QED BY <2>1 DEF Running
<1>5. PICK n \in Nat, L \in Nat : n = now /\ L = Lifetime
  BY <1>1, LifetimeBounds DEF Recorded
\* The entry kept, if one is: what is brought, for at most a lifetime.
<1>6. ASSUME NEW v \in Versions, NEW etag \in BOOLEAN, v = brings(x), x.reply.status \in Successes,
             NEW code \in {"found", "LOOKUP_NOT_FOUND"}, finish(c, code, v),
             \/ UNCHANGED cache
             \/ \E until \in Nat : /\ until <= now + Lifetime
                                  /\ store(x.key, [version |-> v, expiresAt |-> until, etag |-> etag, resolver |-> r])
      PROVE  LookupInv'
  <2>1. PICK until \in Nat :
          /\ until <= now + Lifetime
          /\ \/ UNCHANGED cache
             \/ store(x.key, [version |-> v, expiresAt |-> until, etag |-> etag, resolver |-> r])
    <3>1. CASE UNCHANGED cache
      <4>1. n <= n + L
        BY <1>5
      <4> QED BY <1>5, <3>1, <4>1
    <3> QED BY <1>6, <3>1
  <2>2. PICK e \in Entry : /\ e = [version |-> v, expiresAt |-> until, etag |-> etag, resolver |-> r]
                          /\ e.version = v /\ e.expiresAt = until
    <3> DEFINE e == [version |-> v, expiresAt |-> until, etag |-> etag, resolver |-> r]
    <3>1. e \in Entry /\ e.version = v /\ e.expiresAt = until
      BY DEF Entry
    <3> QED BY <3>1
  <2> QED BY <1>1, <1>2, <1>6, <2>1, <2>2, SuccessStep
<1>7. CASE x.reply.status = "200"
  <2>1. brings(x) = x.reply.record /\ x.reply.record \in Versions /\ x.reply.etag \in BOOLEAN
        /\ x.reply.status \in Successes
    BY <1>3, <1>7 DEF brings, Replies, Successes
  <2>2. finish(c, "found", x.reply.record)
    BY <1>2, <1>7 DEF Deliver
  <2>3. \/ UNCHANGED cache
        \/ /\ isCacheable(x.reply)
           /\ store(x.key, [version |-> x.reply.record, expiresAt |-> expiry(x.reply), etag |-> x.reply.etag, resolver |-> r])
    BY <1>2, <1>4, <1>7 DEF Deliver
  <2>4. isCacheable(x.reply) => expiry(x.reply) \in Nat /\ expiry(x.reply) <= now + Lifetime
    BY <1>1, <1>3, ExpiryBounded DEF Recorded
  <2> QED BY <1>6, <2>1, <2>2, <2>3, <2>4
<1>8. CASE x.reply.status = "304"
  <2>1. PICK kept \in Entry : kept = reuse(x) /\ kept = reusable(c)
    BY <1>2, <1>3, <1>8 DEF AnswerInv, reuse, reusable, Running
  <2>2. brings(x) = kept.version /\ kept.version \in Versions /\ kept.etag \in BOOLEAN
        /\ x.reply.status \in Successes
    BY <1>8, <2>1 DEF brings, Entry, Successes
  <2>3. finish(c, "found", kept.version)
    BY <1>2, <1>8, <2>1 DEF Deliver
  <2>4. \/ UNCHANGED cache
        \/ /\ isCacheable(x.reply)
           /\ store(x.key, [version |-> kept.version, expiresAt |-> expiry(x.reply), etag |-> kept.etag, resolver |-> r])
    BY <1>2, <1>4, <1>8, <2>1 DEF Deliver
  <2>5. isCacheable(x.reply) => expiry(x.reply) \in Nat /\ expiry(x.reply) <= now + Lifetime
    BY <1>1, <1>3, ExpiryBounded DEF Recorded
  <2> QED BY <1>6, <2>2, <2>3, <2>4, <2>5
<1>9. CASE x.reply.status = "404"
  <2>1. brings(x) = zero /\ x.reply.status \in Successes
    BY <1>3, <1>4, <1>9 DEF brings, AnswerInv, Successes
  <2>2. finish(c, "LOOKUP_NOT_FOUND", zero)
    BY <1>2, <1>4, <1>9 DEF Deliver
  <2>3. PICK until \in Nat : until = now + NegativeTtl /\ until <= now + Lifetime
    <3>1. PICK ttl \in Nat : ttl = NegativeTtl /\ ttl <= L
      BY <1>5, OptionsValid, LifetimeBounds
    <3> QED BY <1>5, <3>1
  <2>4. \/ UNCHANGED cache
        \/ store(x.key, [version |-> zero, expiresAt |-> until, etag |-> FALSE, resolver |-> r])
    BY <1>2, <1>4, <1>9, <2>3 DEF Deliver
  <2> QED BY <1>6, <2>1, <2>2, <2>3, <2>4
<1>10. CASE x.reply.status \in {"400", "mismatch"}
  <2>1. PICK code \in Codes \ {"found", "LOOKUP_NOT_FOUND"} : finish(c, code, 0) /\ UNCHANGED cache
    <3>1. "LOOKUP_BAD_REQUEST" \in Codes \ {"found", "LOOKUP_NOT_FOUND"}
          /\ "LOOKUP_INVALID_RESPONSE" \in Codes \ {"found", "LOOKUP_NOT_FOUND"}
      BY DEF Codes, Fatal
    <3>2. \/ finish(c, "LOOKUP_BAD_REQUEST", 0) /\ UNCHANGED cache
          \/ finish(c, "LOOKUP_INVALID_RESPONSE", 0) /\ UNCHANGED cache
      BY <1>2, <1>10 DEF Deliver
    <3> QED BY <3>1, <3>2
  <2>2. PICK m \in Ended : m = ended(x, code, 0) /\ CallInv(m)
    BY <1>1, FailedRecord
  <2> QED BY <1>1, <1>2, <2>1, <2>2, CallStep DEF finish, cache
<1>11. CASE x.reply.status \in {"429", "5xx"}
  <2>1. PICK code \in Retryable : fail(c, code, x.reply.retryAfter) /\ UNCHANGED cache
    <3>1. "LOOKUP_RATE_LIMITED" \in Retryable /\ "LOOKUP_UNAVAILABLE" \in Retryable
      BY DEF Retryable
    <3>2. \/ fail(c, "LOOKUP_RATE_LIMITED", x.reply.retryAfter) /\ UNCHANGED cache
          \/ fail(c, "LOOKUP_UNAVAILABLE", x.reply.retryAfter) /\ UNCHANGED cache
      BY <1>2, <1>11 DEF Deliver
    <3> QED BY <3>1, <3>2
  <2>2. x.reply.retryAfter \in Nat \cup {None} /\ call[c].phase \in InFlight
    BY <1>2, <1>3 DEF Replies, InFlight
  <2> QED BY <1>1, <2>1, <2>2, FailStep
<1>12. x.reply.status \in {"200", "304", "404", "400", "mismatch", "429", "5xx"}
  BY <1>3, AnswersTyped DEF Replies
<1> QED BY <1>7, <1>8, <1>9, <1>10, <1>11, <1>12

-----------------------------------------------------------------------------
(* The Map. *)

\* The keys of a Map: x is among them; they are pairwise different.
Has(keys, x) == \E i \in 1 .. Len(keys) : keys[i] = x
Distinct(keys) == \A i, j \in 1 .. Len(keys) : keys[i] = keys[j] => i = j

\* The recursion of without.
keptStep(g, i, keys, S) ==
  IF i = 0 THEN << >> ELSE IF keys[i] \in S THEN g[i - 1] ELSE Append(g[i - 1], keys[i])

keptOf(keys, S) == CHOOSE g : g = [i \in 0 .. Len(keys) |-> keptStep(g, i, keys, S)]

\* The definition of without.
LEMMA WithoutDef == ASSUME NEW keys, NEW S PROVE without(keys, S) = keptOf(keys, S)[Len(keys)]
BY DEF without, keptOf, keptStep

\* Going through the keys comes to an end.
LEMMA KeptUnfold ==
  ASSUME NEW K, NEW keys \in Seq(K), NEW S
  PROVE  \A i \in 0 .. Len(keys) : keptOf(keys, S)[i] = keptStep(keptOf(keys, S), i, keys, S)
<1> DEFINE V == Seq(K)
           F == [p \in Nat \X V |-> IF p[1] \in 1 .. Len(keys) /\ keys[p[1]] \notin S
                                    THEN Append(p[2], keys[p[1]]) ELSE p[2]]
<1>1. << >> \in V /\ \A i \in 1 .. Len(keys), s \in V : Append(s, keys[i]) \in V
  BY ElementOfSeq, AppendProperties
<1>2. F \in [Nat \X V -> V]
  <2> SUFFICES ASSUME NEW p \in Nat \X V PROVE F[p] \in V
    OBVIOUS
  <2> QED BY <1>1
<1>3. \A i \in 1 .. Len(keys), s \in V : F[<<i, s>>] = IF keys[i] \in S THEN s ELSE Append(s, keys[i])
  <2> SUFFICES ASSUME NEW i \in 1 .. Len(keys), NEW s \in V
               PROVE  F[<<i, s>>] = IF keys[i] \in S THEN s ELSE Append(s, keys[i])
    OBVIOUS
  <2>1. <<i, s>> \in Nat \X V
    BY LenProperties
  <2> QED BY <2>1
<1> HIDE DEF F, V
<1>4. PICK f : Follows(f, << >>, F, V)
  BY <1>1, <1>2, Recursion
<1> DEFINE g == [i \in 0 .. Len(keys) |-> f[i]]
<1>5. ASSUME NEW i \in 0 .. Len(keys) PROVE g[i] = keptStep(g, i, keys, S)
  <2>1. CASE i = 0
    BY <1>4, <2>1, LenProperties DEF Follows, keptStep
  <2>2. CASE i # 0
    <3>1. i \in Nat /\ i - 1 \in Nat /\ (i - 1) + 1 = i /\ i \in 1 .. Len(keys) /\ i - 1 \in 0 .. Len(keys)
      BY <2>2, LenProperties
    <3>2. f[i] = F[<<i, f[i - 1]>>] /\ f[i - 1] \in V
      BY <1>4, <3>1 DEF Follows
    <3>3. f[i] = IF keys[i] \in S THEN f[i - 1] ELSE Append(f[i - 1], keys[i])
      BY <1>3, <3>1, <3>2
    <3> QED BY <2>2, <3>1, <3>3 DEF keptStep
  <2> QED BY <2>1, <2>2
<1>6. g = [i \in 0 .. Len(keys) |-> keptStep(g, i, keys, S)]
  BY <1>5
<1> HIDE DEF g
<1> DEFINE h == keptOf(keys, S)
<1>7. h = [i \in 0 .. Len(keys) |-> keptStep(h, i, keys, S)]
  BY <1>6 DEF keptOf
<1> HIDE DEF h
<1>8. \A i \in 0 .. Len(keys) : h[i] = keptStep(h, i, keys, S)
  BY <1>7
<1> QED BY <1>8 DEF h

\* A key is set that the Map does not have.
LEMMA Appended ==
  ASSUME NEW K, NEW s \in Seq(K), NEW x \in K
  PROVE  /\ Append(s, x) \in Seq(K) /\ Len(Append(s, x)) = Len(s) + 1
         /\ \A y : Has(Append(s, x), y) <=> Has(s, y) \/ y = x
         /\ Distinct(s) /\ ~Has(s, x) => Distinct(Append(s, x))
<1>1. /\ Append(s, x) \in Seq(K) /\ Len(Append(s, x)) = Len(s) + 1 /\ Len(s) \in Nat
      /\ \A i \in 1 .. Len(s) : Append(s, x)[i] = s[i]
      /\ Append(s, x)[Len(s) + 1] = x
  BY AppendProperties, LenProperties
<1>2. PICK n \in Nat : n = Len(s)
  BY <1>1
<1>3. \A i \in 1 .. n + 1 : i \in 1 .. n \/ i = n + 1
  OBVIOUS
<1>4. 1 .. n \subseteq 1 .. n + 1 /\ n + 1 \in 1 .. n + 1
  OBVIOUS
<1>5. ASSUME NEW y PROVE Has(Append(s, x), y) <=> Has(s, y) \/ y = x
  BY <1>1, <1>2, <1>3, <1>4 DEF Has
<1>6. ASSUME Distinct(s), ~Has(s, x) PROVE Distinct(Append(s, x))
  <2> SUFFICES ASSUME NEW i \in 1 .. n + 1, NEW j \in 1 .. n + 1, Append(s, x)[i] = Append(s, x)[j] PROVE i = j
    BY <1>1, <1>2 DEF Distinct
  <2> QED BY <1>1, <1>2, <1>3, <1>6 DEF Has, Distinct
<1> QED BY <1>1, <1>5, <1>6

\* What without leaves.
LEMMA Without ==
  ASSUME NEW K, NEW keys \in Seq(K), NEW S
  PROVE  /\ without(keys, S) \in Seq(K) /\ Len(without(keys, S)) <= Len(keys)
         /\ \A x : Has(without(keys, S), x) <=> Has(keys, x) /\ x \notin S
         /\ Distinct(keys) => Distinct(without(keys, S))
         /\ (\E x \in S : Has(keys, x)) => Len(without(keys, S)) < Len(keys)
<1> DEFINE h == keptOf(keys, S)
           before(i, x) == \E j \in 1 .. i : keys[j] = x
           Good(s, i) == /\ s \in Seq(K) /\ Len(s) <= i
                         /\ \A x : Has(s, x) <=> before(i, x) /\ x \notin S
                         /\ Distinct(keys) => Distinct(s)
                         /\ (\E x \in S : before(i, x)) => Len(s) < i
           T == {i \in Nat : i <= Len(keys) => Good(h[i], i)}
<1>0. Len(keys) \in Nat /\ \A i \in 1 .. Len(keys) : keys[i] \in K
  BY LenProperties, ElementOfSeq
<1>1. \A i \in 0 .. Len(keys) : h[i] = keptStep(h, i, keys, S)
  BY KeptUnfold
<1> HIDE DEF h
<1>2. 0 \in T
  <2>1. h[0] = << >>
    BY <1>0, <1>1 DEF keptStep
  <2>2. << >> \in Seq(K) /\ Len(<< >>) = 0 /\ 1 .. 0 = {}
    BY EmptySeq
  <2>3. Good(<< >>, 0)
    BY <2>2 DEF Has, Distinct
  <2> QED BY <2>1, <2>3
<1>3. ASSUME NEW n \in Nat, n \in T PROVE n + 1 \in T
  <2> SUFFICES ASSUME n + 1 <= Len(keys) PROVE Good(h[n + 1], n + 1)
    OBVIOUS
  <2>1. n + 1 \in 0 .. Len(keys) /\ n + 1 # 0 /\ (n + 1) - 1 = n /\ n <= Len(keys) /\ keys[n + 1] \in K
    BY <1>0
  <2>2. Good(h[n], n)
    BY <1>3, <2>1
  <2>3. h[n + 1] = IF keys[n + 1] \in S THEN h[n] ELSE Append(h[n], keys[n + 1])
    BY <1>1, <2>1 DEF keptStep
  <2>4. \A x : before(n + 1, x) <=> before(n, x) \/ x = keys[n + 1]
    <3>1. \A i \in 1 .. n + 1 : i \in 1 .. n \/ i = n + 1
      OBVIOUS
    <3>2. 1 .. n \subseteq 1 .. n + 1 /\ n + 1 \in 1 .. n + 1
      OBVIOUS
    <3> QED BY <3>1, <3>2
  <2>5. PICK s \in Seq(K) : s = h[n]
    BY <2>2
  <2>6. Len(s) \in Nat
    BY LenProperties
  <2>7. CASE keys[n + 1] \in S
    <3>1. h[n + 1] = s
      BY <2>3, <2>5, <2>7
    <3>2. Len(s) <= n + 1 /\ Len(s) < n + 1
      BY <2>2, <2>5, <2>6
    <3>3. ASSUME NEW x PROVE Has(s, x) <=> before(n + 1, x) /\ x \notin S
      BY <2>2, <2>4, <2>5, <2>7
    <3> HIDE DEF before
    <3> QED BY <2>2, <2>5, <3>1, <3>2, <3>3
  <2>8. CASE keys[n + 1] \notin S
    <3> DEFINE t == Append(s, keys[n + 1])
    <3>1. h[n + 1] = t
      BY <2>3, <2>5, <2>8
    <3>2. /\ t \in Seq(K) /\ Len(t) = Len(s) + 1
          /\ \A y : Has(t, y) <=> Has(s, y) \/ y = keys[n + 1]
          /\ Distinct(s) /\ ~Has(s, keys[n + 1]) => Distinct(t)
      BY <2>1, Appended
    <3> HIDE DEF t
    <3>3. Len(t) <= n + 1
      BY <2>2, <2>5, <2>6, <3>2
    <3>4. ASSUME NEW x PROVE Has(t, x) <=> before(n + 1, x) /\ x \notin S
      BY <2>2, <2>4, <2>5, <2>8, <3>2
    <3>5. ASSUME Distinct(keys) PROVE Distinct(t)
      <4>1. ~before(n, keys[n + 1])
        <5>1. n + 1 \in 1 .. Len(keys) /\ \A j \in 1 .. n : j \in 1 .. Len(keys) /\ j # n + 1
          BY <1>0, <2>1
        <5> QED BY <3>5, <5>1 DEF Distinct
      <4> QED BY <2>2, <2>5, <3>2, <3>5, <4>1
    <3>6. ASSUME NEW x \in S, before(n + 1, x) PROVE Len(t) < n + 1
      <4>1. before(n, x)
        BY <2>4, <2>8, <3>6
      <4>2. Len(s) < n
        BY <2>2, <2>5, <4>1
      <4> QED BY <2>6, <3>2, <4>2
    <3> HIDE DEF before
    <3> QED BY <3>1, <3>2, <3>3, <3>4, <3>5, <3>6
  <2> QED BY <2>7, <2>8
<1>4. Nat \subseteq T
  <2> HIDE DEF T
  <2> QED BY <1>2, <1>3, EveryNumber
<1>5. Good(h[Len(keys)], Len(keys))
  <2>1. Len(keys) \in T /\ Len(keys) <= Len(keys)
    <3> HIDE DEF T
    <3> QED BY <1>0, <1>4
  <2> HIDE DEF Good
  <2> QED BY <2>1
<1>6. without(keys, S) = h[Len(keys)]
  BY WithoutDef DEF h
<1>7. \A x : Has(keys, x) <=> before(Len(keys), x)
  BY DEF Has
<1> HIDE DEF before
<1> QED BY <1>5, <1>6, <1>7

\* What the while loop of store leaves: the youngest keys, the last one among
\* them.
LEMMA Evicted ==
  ASSUME NEW s \in Seq(Keys), Distinct(s), NEW last, Len(s) # 0, s[Len(s)] = last
  PROVE  /\ evictOldest(s) \in Seq(Keys) /\ Len(evictOldest(s)) <= MaxEntries
         /\ Distinct(evictOldest(s)) /\ Has(evictOldest(s), last)
         /\ \A x : Has(evictOldest(s), x) => Has(s, x)
<1>1. PICK n \in Nat \ {0}, m \in Nat \ {0} : n = Len(s) /\ m = MaxEntries
  BY LenProperties, OptionsValid
<1>2. \A i \in 1 .. n : s[i] \in Keys
  BY <1>1, ElementOfSeq
<1>3. CASE n > m
  <2>1. PICK a \in Nat : a = n - m /\ a + 1 \in Int /\ a + 1 <= n /\ n - (a + 1) + 1 = m
    <3>1. n - m \in Nat /\ (n - m) + 1 <= n /\ n - ((n - m) + 1) + 1 = m
      BY <1>1, <1>3
    <3> QED BY <3>1
  <2> DEFINE t == SubSeq(s, a + 1, n)
  <2>2. evictOldest(s) = t
    BY <1>1, <1>3, <2>1 DEF evictOldest
  <2>3. \A i \in a + 1 .. n : s[i] \in Keys
    BY <1>2, <2>1
  <2>4. t \in Seq(Keys) /\ Len(t) = m /\ \A i \in 1 .. m : t[i] = s[(a + 1) + i - 1]
    BY <2>1, <2>3, SubSeqProperties
  <2>5. \A i \in 1 .. m : (a + 1) + i - 1 = a + i /\ a + i \in 1 .. n
    BY <1>1, <2>1
  <2> HIDE DEF t
  <2>6. \A i \in 1 .. m : t[i] = s[a + i]
    BY <2>4, <2>5
  <2>7. Distinct(t)
    <3> SUFFICES ASSUME NEW i \in 1 .. m, NEW j \in 1 .. m, t[i] = t[j] PROVE i = j
      BY <2>4 DEF Distinct
    <3>1. s[a + i] = s[a + j] /\ a + i \in 1 .. Len(s) /\ a + j \in 1 .. Len(s)
      BY <1>1, <2>5, <2>6
    <3>2. a + i = a + j
      BY <3>1 DEF Distinct
    <3> QED BY <3>2
  <2>8. Has(t, last)
    <3>1. m \in 1 .. m /\ a + m = n
      BY <1>1, <2>1
    <3> QED BY <1>1, <2>4, <2>6, <3>1 DEF Has
  <2>9. ASSUME NEW x, Has(t, x) PROVE Has(s, x)
    <3>1. PICK i \in 1 .. m : t[i] = x
      BY <2>4, <2>9 DEF Has
    <3> QED BY <1>1, <2>5, <2>6, <3>1 DEF Has
  <2> QED BY <1>1, <2>2, <2>4, <2>7, <2>8, <2>9
<1>4. CASE ~(n > m)
  <2>1. evictOldest(s) = s /\ n <= m /\ n \in 1 .. n
    BY <1>1, <1>4 DEF evictOldest
  <2> QED BY <1>1, <2>1 DEF Has
<1> QED BY <1>3, <1>4

\* The keys in order and the entries belong together.
MapOf(keys, es) ==
  /\ keys \in Seq(Keys) /\ Len(keys) <= MaxEntries /\ Distinct(keys)
  /\ \A k \in Keys : Has(keys, k) <=> es[k] # None

\* A hit moves its key to the end.
LEMMA MapTouched ==
  ASSUME NEW keys, NEW es, MapOf(keys, es), NEW k \in Keys, es[k] # None
  PROVE  MapOf(Append(without(keys, {k}), k), es)
<1>1. keys \in Seq(Keys) /\ Has(keys, k) /\ Len(keys) \in Nat /\ Len(keys) <= MaxEntries /\ Distinct(keys)
  BY LenProperties DEF MapOf
<1>2. PICK s \in Seq(Keys) :
        /\ s = without(keys, {k}) /\ Len(s) < Len(keys) /\ Distinct(s)
        /\ \A x : Has(s, x) <=> Has(keys, x) /\ x \notin {k}
  BY <1>1, Without
<1>3. /\ Append(s, k) \in Seq(Keys) /\ Len(Append(s, k)) = Len(s) + 1 /\ Distinct(Append(s, k))
      /\ \A y : Has(Append(s, k), y) <=> Has(s, y) \/ y = k
  <2>1. ~Has(s, k)
    BY <1>2
  <2>2. /\ Append(s, k) \in Seq(Keys) /\ Len(Append(s, k)) = Len(s) + 1
        /\ \A y : Has(Append(s, k), y) <=> Has(s, y) \/ y = k
        /\ Distinct(s) /\ ~Has(s, k) => Distinct(Append(s, k))
    BY Appended
  <2> QED BY <1>2, <2>1, <2>2
<1>4. Len(Append(s, k)) <= MaxEntries
  <2>1. Len(s) \in Nat /\ MaxEntries \in Nat
    BY LenProperties, OptionsValid
  <2> QED BY <1>1, <1>2, <1>3, <2>1
<1> QED BY <1>1, <1>2, <1>3, <1>4 DEF MapOf

\* The keys and the entries after e is stored under k.
storedKeys(keys, k) == evictOldest(Append(without(keys, {k}), k))
storedEntries(es, left, k, e) ==
  [l \in Keys |-> IF l = k THEN e ELSE IF \E i \in 1 .. Len(left) : left[i] = l THEN es[l] ELSE None]

\* An entry is stored, and the oldest ones are evicted.
LEMMA MapStored ==
  ASSUME NEW keys, NEW es, MapOf(keys, es), NEW k \in Keys, NEW e \in Entry
  PROVE  MapOf(storedKeys(keys, k), storedEntries(es, storedKeys(keys, k), k, e))
<1>0. PICK left, es2 : left = storedKeys(keys, k) /\ es2 = storedEntries(es, left, k, e)
  OBVIOUS
<1>1. keys \in Seq(Keys) /\ Distinct(keys)
  BY DEF MapOf
<1>2. PICK s \in Seq(Keys) :
        /\ s = without(keys, {k}) /\ Distinct(s)
        /\ \A x : Has(s, x) <=> Has(keys, x) /\ x \notin {k}
  BY <1>1, Without
<1>3. PICK t \in Seq(Keys) :
        /\ t = Append(s, k) /\ Len(t) = Len(s) + 1 /\ Distinct(t)
        /\ \A y : Has(t, y) <=> Has(s, y) \/ y = k
  <2>1. ~Has(s, k)
    BY <1>2
  <2>2. /\ Append(s, k) \in Seq(Keys) /\ Len(Append(s, k)) = Len(s) + 1
        /\ \A y : Has(Append(s, k), y) <=> Has(s, y) \/ y = k
        /\ Distinct(s) /\ ~Has(s, k) => Distinct(Append(s, k))
    BY Appended
  <2> QED BY <1>2, <2>1, <2>2
<1>4. Len(t) # 0 /\ t[Len(t)] = k
  <2>1. Len(s) \in Nat /\ t[Len(s) + 1] = k
    BY <1>3, LenProperties, AppendProperties
  <2> QED BY <1>3, <2>1
<1>5. /\ left \in Seq(Keys) /\ Len(left) <= MaxEntries /\ Distinct(left) /\ Has(left, k)
      /\ \A x : Has(left, x) => Has(t, x)
  BY <1>0, <1>2, <1>3, <1>4, Evicted DEF storedKeys
<1>6. ASSUME NEW l \in Keys PROVE Has(left, l) <=> es2[l] # None
  <2>1. es2[l] = IF l = k THEN e ELSE IF Has(left, l) THEN es[l] ELSE None
    BY <1>0 DEF Has, storedEntries
  <2>2. CASE l = k
    BY <1>5, <2>1, <2>2, NoneIsNoVersion
  <2>3. CASE l # k
    <3>1. Has(left, l) => Has(keys, l)
      BY <1>2, <1>3, <1>5, <2>3
    <3>2. Has(keys, l) => es[l] # None
      BY DEF MapOf
    <3> QED BY <2>1, <2>3, <3>1, <3>2
  <2> QED BY <2>2, <2>3
<1>7. MapOf(left, es2)
  BY <1>5, <1>6 DEF MapOf
<1> QED BY <1>0, <1>7

\* Keys are deleted.
LEMMA MapCleared ==
  ASSUME NEW keys, NEW es, MapOf(keys, es), NEW S
  PROVE  MapOf(without(keys, S), [k \in Keys |-> IF k \in S THEN None ELSE es[k]])
<1>1. keys \in Seq(Keys) /\ Len(keys) \in Nat /\ Len(keys) <= MaxEntries /\ Distinct(keys)
  BY LenProperties DEF MapOf
<1>2. PICK s \in Seq(Keys) :
        /\ s = without(keys, S) /\ Len(s) <= Len(keys) /\ Distinct(s)
        /\ \A x : Has(s, x) <=> Has(keys, x) /\ x \notin S
  BY <1>1, Without
<1>3. Len(s) <= MaxEntries
  <2>1. Len(s) \in Nat /\ MaxEntries \in Nat
    BY LenProperties, OptionsValid
  <2> QED BY <1>1, <1>2, <2>1
<1>4. \A k \in Keys : Has(keys, k) <=> es[k] # None
  BY DEF MapOf
<1> QED BY <1>2, <1>3, <1>4 DEF MapOf

\* What an answer brings to the cache is an entry.
LEMMA DeliverKeeps ==
  ASSUME LookupInv, NEW c \in Lookups, Deliver(c)
  PROVE  UNCHANGED cache \/ \E k \in Keys, e \in Entry : store(k, e)
<1>1. PICK x \in Running : x = call[c] /\ x.phase = "answered" /\ GoingInv(x)
  BY HasBegun DEF Deliver
<1>2. PICK reply \in Replies : reply = x.reply /\ reply.readAt <= now
  BY <1>1 DEF GoingInv, AnswerInv
<1>3. PICK k \in Keys, r \in 1 .. Resolvers, n \in Nat, ttl \in Nat, zero \in Versions :
        k = x.key /\ r = x.resolver /\ n = now /\ ttl = NegativeTtl /\ zero = 0
  <2>1. 0 \in Versions /\ NegativeTtl \in Nat
    BY BoundsNat, OptionsValid DEF Versions
  <2> QED BY <2>1 DEF Running, LookupInv, Recorded
<1>4. ASSUME NEW v \in Versions, NEW until \in Nat, NEW etag \in BOOLEAN,
             store(k, [version |-> v, expiresAt |-> until, etag |-> etag, resolver |-> r])
      PROVE  \E j \in Keys, e \in Entry : store(j, e)
  <2>1. [version |-> v, expiresAt |-> until, etag |-> etag, resolver |-> r] \in Entry
    BY DEF Entry
  <2> QED BY <1>4, <2>1
<1>5. isCacheable(reply) => expiry(reply) \in Nat
  BY <1>2, <1>3, ExpiryBounded
<1>6. CASE reply.status = "200"
  <2>1. \/ UNCHANGED cache
        \/ /\ isCacheable(reply)
           /\ store(k, [version |-> reply.record, expiresAt |-> expiry(reply), etag |-> reply.etag, resolver |-> r])
    BY <1>1, <1>2, <1>3, <1>6 DEF Deliver
  <2>2. reply.record \in Versions /\ reply.etag \in BOOLEAN
    BY DEF Replies
  <2> QED BY <1>4, <1>5, <2>1, <2>2
<1>7. CASE reply.status = "304"
  <2>1. PICK kept \in Entry : kept = reusable(c)
    BY <1>1, <1>2, <1>7 DEF GoingInv, AnswerInv, reuse, reusable, Running
  <2>2. \/ UNCHANGED cache
        \/ /\ isCacheable(reply)
           /\ store(k, [version |-> kept.version, expiresAt |-> expiry(reply), etag |-> kept.etag, resolver |-> r])
    BY <1>1, <1>2, <1>3, <1>7, <2>1 DEF Deliver
  <2>3. kept.version \in Versions /\ kept.etag \in BOOLEAN
    BY DEF Entry
  <2> QED BY <1>4, <1>5, <2>2, <2>3
<1>8. CASE reply.status = "404"
  <2>1. \/ UNCHANGED cache
        \/ store(k, [version |-> zero, expiresAt |-> n + ttl, etag |-> FALSE, resolver |-> r])
    BY <1>1, <1>2, <1>3, <1>8 DEF Deliver
  <2>2. n + ttl \in Nat /\ FALSE \in BOOLEAN
    OBVIOUS
  <2> QED BY <1>4, <2>1, <2>2
<1>9. CASE reply.status \notin {"200", "304", "404"}
  BY <1>1, <1>2, <1>9 DEF Deliver
<1> QED BY <1>6, <1>7, <1>8, <1>9

\* Every step keeps the order of the Map with its entries.
LEMMA MapStep ==
  ASSUME LookupInv, MapOf(order, entries), [Next]_vars
  PROVE  MapOf(order', entries')
<1>1. CASE order' = order /\ entries' = entries
  BY <1>1
<1>2. ASSUME NEW c \in Lookups, NEW k \in Keys, NEW mode \in Modes, Begin(c, k, mode) PROVE MapOf(order', entries')
  <2>1. CASE entries[k] # None /\ touch(k)
    BY <2>1, MapTouched DEF touch
  <2> QED BY <1>1, <1>2, <2>1 DEF Begin, cache
<1>3. ASSUME NEW c \in Lookups, Deliver(c) PROVE MapOf(order', entries')
  <2>1. ASSUME NEW k \in Keys, NEW e \in Entry, store(k, e) PROVE MapOf(order', entries')
    <3>1. order' = storedKeys(order, k) /\ entries' = storedEntries(entries, order', k, e)
      BY <2>1 DEF store, storedKeys, storedEntries
    <3>2. MapOf(storedKeys(order, k), storedEntries(entries, storedKeys(order, k), k, e))
      BY MapStored
    <3> QED BY <3>1, <3>2
  <2> QED BY <1>1, <1>3, <2>1, DeliverKeeps DEF cache
<1>4. ASSUME NEW c \in Lookups, Answer(c) \/ Disconnect(c) \/ Expire(c) \/ Retry(c) \/ Cancel(c)
      PROVE  MapOf(order', entries')
  BY <1>1, <1>4 DEF Answer, Disconnect, Expire, Retry, Cancel, cache
<1>5. ASSUME NEW k \in Keys, Publish(k) PROVE MapOf(order', entries')
  BY <1>1, <1>5 DEF Publish, cache
<1>6. ASSUME NEW S, purge(S) PROVE MapOf(order', entries')
  BY <1>6, MapCleared DEF purge, clear
<1>7. CASE Tick
  BY <1>1, <1>7 DEF Tick, cache
<1>8. CASE UNCHANGED vars
  BY <1>1, <1>8 DEF vars, cache
<1> QED BY <1>2, <1>3, <1>4, <1>5, <1>6, <1>7, <1>8 DEF Next, Invalidate, ClearType, ClearAll

-----------------------------------------------------------------------------
(* The theorems. *)

\* The invariant holds at first: nothing is cached and nobody has asked.
LEMMA LookupInit == Init => LookupInv
<1> SUFFICES ASSUME Init PROVE LookupInv
  OBVIOUS
<1>1. 0 \in Versions /\ min(1, MaxVersion) \in Versions
  BY BoundsNat DEF Versions, min
<1>2. version \in [Keys -> Versions] /\ \A k \in Keys : version[k] \in Nat
  BY <1>1, BoundsNat DEF Init, Versions
<1>3. retired \in [Keys -> [Versions -> Int]]
  BY DEF Init
<1>4. Recorded
  BY <1>1, <1>2, <1>3 DEF Init, Recorded
<1>5. EntriesOK
  BY DEF Init, EntriesOK
<1>6. FloorOK
  BY <1>2 DEF Init, FloorOK
<1>7. \A c \in Lookups : CallInv(call[c])
  BY Apart DEF Init, CallInv, Idle, Running, Ended
<1> QED BY <1>4, <1>5, <1>6, <1>7 DEF LookupInv

\* Every step of the client, the resolvers, the control plane and the clock
\* keeps the invariant.
LEMMA LookupNext == LookupInv /\ [Next]_vars => LookupInv'
<1> SUFFICES ASSUME LookupInv, [Next]_vars PROVE LookupInv'
  OBVIOUS
<1>1. ASSUME NEW c \in Lookups, NEW k \in Keys, NEW mode \in Modes, Begin(c, k, mode) PROVE LookupInv'
  BY <1>1, BeginStep
<1>2. ASSUME NEW c \in Lookups, Answer(c) PROVE LookupInv'
  BY <1>2, AnswerStep
<1>3. ASSUME NEW c \in Lookups, Deliver(c) PROVE LookupInv'
  BY <1>3, DeliverStep
<1>4. None \in Nat \cup {None} /\ "LOOKUP_UNAVAILABLE" \in Retryable /\ "LOOKUP_TIMEOUT" \in Retryable
  BY DEF Retryable
<1>5. ASSUME NEW c \in Lookups, Disconnect(c) PROVE LookupInv'
  BY <1>4, <1>5, FailStep DEF Disconnect
<1>6. ASSUME NEW c \in Lookups, Expire(c) PROVE LookupInv'
  BY <1>4, <1>6, FailStep DEF Expire
<1>7. ASSUME NEW c \in Lookups, Retry(c) PROVE LookupInv'
  BY <1>7, RetryStep
<1>8. ASSUME NEW c \in Lookups, Cancel(c) PROVE LookupInv'
  BY <1>8, CancelStep
<1>9. ASSUME NEW k \in Keys, Publish(k) PROVE LookupInv'
  BY <1>9, PublishStep
<1>10. ASSUME NEW k \in Keys, Invalidate(k.type, k.value) PROVE LookupInv'
  <2>1. invalidated(k.type, k.value) \in SUBSET Keys
    BY DEF invalidated
  <2> QED BY <1>10, <2>1, PurgeStep DEF Invalidate
<1>11. ASSUME NEW k \in Keys, ClearType(k.type) PROVE LookupInv'
  <2>1. {j \in Keys : j.type = k.type} \in SUBSET Keys
    OBVIOUS
  <2> QED BY <1>11, <2>1, PurgeStep DEF ClearType
<1>12. CASE ClearAll
  BY <1>12, PurgeStep DEF ClearAll
<1>13. CASE Tick
  BY <1>13, TickStep
<1>14. CASE UNCHANGED vars
  <2>1. /\ now' = now /\ version' = version /\ retired' = retired /\ entries' = entries /\ call' = call
        /\ purged' = purged /\ floor' = floor
    BY <1>14 DEF vars, registry, cache, history
  <2>2. ASSUME NEW c \in Lookups PROVE CallInv(call[c])'
    <3>1. PICK x : x = call[c] /\ x = call'[c]
      BY <2>1
    <3>2. CallInv(x)
      BY <3>1 DEF LookupInv
    <3>3. CallInv(x)'
      BY <2>1, <3>2 DEF CallInv, GoingInv, EndedInv, AnswerInv, used, spent, brings, reuse, currentWithin
    <3> QED BY <3>1, <3>3
  <2>3. Recorded' /\ FloorOK' /\ EntriesOK'
    BY <2>1 DEF LookupInv, Recorded, FloorOK, EntriesOK, EntryOK, currentWithin
  <2> QED BY <2>2, <2>3 DEF LookupInv
<1> QED BY <1>1, <1>2, <1>3, <1>5, <1>6, <1>7, <1>8, <1>9, <1>10, <1>11, <1>12, <1>13, <1>14 DEF Next

\* In every reachable state of the lookup client the invariant holds: entries
\* expire in time, answers on their way were right when they were read, and
\* no lookup has used more than its share of time.
THEOREM LookupCorrect == Spec => []LookupInv
BY LookupInit, LookupNext, PTL DEF Spec

\* What a lookup returns was current less than a timeout and a lifetime ago.
THEOREM AnswersAreRecent == Spec => []StalenessBounded
<1>1. LookupInv => StalenessBounded
  <2> SUFFICES ASSUME LookupInv, NEW c \in Lookups, answered(c)
               PROVE  currentWithin(call[c].key, call[c].result, call[c].endedAt, Timeout + Lifetime)
    BY DEF StalenessBounded
  <2>1. call[c] \in Ended /\ CallInv(call[c]) /\ call[c].code \in {"found", "LOOKUP_NOT_FOUND"}
    BY Apart DEF LookupInv, Recorded, answered
  <2> QED BY <2>1 DEF CallInv, EndedInv
<1> QED BY <1>1, LookupCorrect, PTL

\* Nothing older than a purge is returned to a lookup that began after it,
\* unless an older answer was on its way to the cache then.
THEOREM PurgesTakeEffect == Spec => []PurgeHolds
<1>1. LookupInv => PurgeHolds
  <2> SUFFICES ASSUME LookupInv, NEW c \in Lookups, answered(c)
               PROVE  call[c].result >= call[c].floor
    BY DEF PurgeHolds
  <2>1. call[c] \in Ended /\ CallInv(call[c]) /\ call[c].code \in {"found", "LOOKUP_NOT_FOUND"}
    BY Apart DEF LookupInv, Recorded, answered
  <2> QED BY <2>1 DEF CallInv, EndedInv
<1> QED BY <1>1, LookupCorrect, PTL

\* A lookup is over once every attempt at every resolver has timed out and
\* every delay has passed.
THEOREM LookupsAreOver == Spec => []EndsInTime
<1>1. LookupInv => EndsInTime
  <2> SUFFICES ASSUME LookupInv, NEW c \in Lookups, call[c].phase \notin {"idle", "done"}
               PROVE  now <= call[c].begunAt + Longest
    BY DEF EndsInTime
  <2>1. PICK x \in Running : x = call[c] /\ GoingInv(x)
    BY HasBegun
  <2>2. PICK n \in Nat, s \in Nat, b \in Nat, r \in 1 .. Resolvers, a \in 0 .. MaxRetries :
          n = now /\ s = x.sentAt /\ b = x.begunAt /\ r = x.resolver /\ a = x.attempt
    BY DEF LookupInv, Recorded, Running
  <2>3. PICK u \in Nat, T \in Nat, l \in Nat : u = spent(r, a) /\ T = Timeout /\ l = Longest /\ u + T <= l
    <3>1. Longest \in Nat
      BY OptionsValid DEF Longest
    <3> QED BY <3>1, Budget, OptionsValid
  <2>4. n <= b + u \/ (n <= s + T /\ s <= b + u)
    BY <2>1, <2>2, <2>3 DEF GoingInv, used
  <2>5. n <= b + l
    BY <2>3, <2>4
  <2> QED BY <2>1, <2>2, <2>3, <2>5
<1> QED BY <1>1, LookupCorrect, PTL

\* The Map is in order in every reachable state.
LEMMA MapHolds == Spec => []MapOf(order, entries)
<1>1. Init => MapOf(order, entries)
  <2> SUFFICES ASSUME Init PROVE MapOf(order, entries)
    OBVIOUS
  <2>1. order = << >> /\ \A k \in Keys : entries[k] = None
    BY DEF Init
  <2>2. << >> \in Seq(Keys) /\ Len(<< >>) = 0 /\ 1 .. 0 = {} /\ 0 <= MaxEntries
    BY EmptySeq, OptionsValid
  <2> QED BY <2>1, <2>2 DEF MapOf, Has, Distinct
<1>2. LookupInv /\ MapOf(order, entries) /\ [Next]_vars => MapOf(order, entries)'
  BY MapStep
<1> QED BY <1>1, <1>2, LookupCorrect, PTL DEF Spec

\* The Map never outgrows maxEntries, whatever lookups end and purges come in
\* between, and its order lists exactly the keys that have an entry.
THEOREM CacheStaysBounded == Spec => []CacheBounded
<1>1. MapOf(order, entries) => CacheBounded
  <2> SUFFICES ASSUME MapOf(order, entries) PROVE CacheBounded
    OBVIOUS
  <2>1. \A i \in 1 .. Len(order) : order[i] \in Keys
    BY ElementOfSeq DEF MapOf
  <2>2. {order[i] : i \in 1 .. Len(order)} = {k \in Keys : entries[k] # None}
    BY <2>1 DEF MapOf, Has
  <2> QED BY <2>2 DEF MapOf, Distinct, CacheBounded
<1> QED BY <1>1, MapHolds, PTL

\* The clock and the times it leaves in the history stay within their bounds.
ClockInv == now \in Time /\ retired \in [Keys -> [Versions -> {-1} \cup Time]]

\* Every variable of the lookup client has its type in every reachable state.
THEOREM LookupTypes == Spec => []TypeOK
<1>1. Init => ClockInv
  <2> SUFFICES ASSUME Init PROVE ClockInv
    OBVIOUS
  <2>1. 0 \in Time
    BY BoundsNat DEF Time
  <2> QED BY <2>1 DEF Init, ClockInv
<1>2. LookupInv /\ ClockInv /\ [Next]_vars => ClockInv'
  <2> SUFFICES ASSUME LookupInv, ClockInv, [Next]_vars PROVE ClockInv'
    OBVIOUS
  <2>1. CASE now' = now /\ retired' = retired
    BY <2>1 DEF ClockInv
  <2>2. ASSUME NEW c \in Lookups, \/ \E k \in Keys, mode \in Modes : Begin(c, k, mode)
                                 \/ Answer(c) \/ Deliver(c) \/ Disconnect(c) \/ Expire(c) \/ Retry(c) \/ Cancel(c)
        PROVE  ClockInv'
    <3>1. UNCHANGED <<now, registry>>
      <4>1. ASSUME NEW k \in Keys, NEW mode \in Modes, Begin(c, k, mode) PROVE UNCHANGED <<now, registry>>
        BY <4>1 DEF Begin
      <4>2. CASE Answer(c) \/ Deliver(c)
        BY <4>2 DEF Answer, Deliver
      <4>3. CASE Disconnect(c) \/ Expire(c) \/ Retry(c) \/ Cancel(c)
        BY <4>3 DEF Disconnect, Expire, Retry, Cancel
      <4> QED BY <2>2, <4>1, <4>2, <4>3
    <3> QED BY <2>1, <3>1 DEF registry
  <2>3. ASSUME NEW k \in Keys, Publish(k) PROVE ClockInv'
    <3>1. /\ now' = now /\ now \in Time /\ version[k] \in Versions
          /\ retired' = [retired EXCEPT ![k] = [retired[k] EXCEPT ![version[k]] = now]]
      BY <2>3 DEF Publish, ClockInv, LookupInv, Recorded
    <3> QED BY <3>1 DEF ClockInv
  <2>4. ASSUME NEW S, purge(S) PROVE ClockInv'
    BY <2>1, <2>4 DEF purge, registry
  <2>5. CASE Tick
    <3>1. now' = now + 1 /\ now < MaxTime /\ retired' = retired /\ now \in Time
      BY <2>5 DEF Tick, registry, ClockInv
    <3>2. now' \in Time
      BY <3>1, BoundsNat DEF Time
    <3> QED BY <3>1, <3>2 DEF ClockInv
  <2>6. CASE UNCHANGED vars
    BY <2>1, <2>6 DEF vars, registry
  <2> QED BY <2>2, <2>3, <2>4, <2>5, <2>6 DEF Next, Invalidate, ClearType, ClearAll
<1>3. LookupInv /\ ClockInv /\ MapOf(order, entries) => TypeOK
  BY DEF LookupInv, Recorded, ClockInv, MapOf, TypeOK
<1> QED BY <1>1, <1>2, <1>3, LookupCorrect, MapHolds, PTL DEF Spec
=============================================================================
