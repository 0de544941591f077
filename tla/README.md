# OATI in TLA+

A verification development for the OATI repository (Open Agent Trust
Infrastructure): TLA+ models of the code that decides whether an agent's
request may run, TLC configurations that check them on small instances, and
TLAPS proofs for every instance. Source paths are relative to the repository.

## 1. The system

An agent holds a *Passport* (who it is) and a *Mandate* (what it may do), both
signed by an issuer. It sends an HTTP request with a signed *Envelope* (what it
does now). A verifier checks the three documents against public trust records,
evaluates the Mandate, counts what the request uses up, lets the request
through, and leaves a signed *Receipt*.

| Component | State it keeps | Operations | Interacts with |
|---|---|---|---|
| Authority evaluator, `sdk/typescript/src/evaluator.ts` | none; maps a usage snapshot to the next one | `evaluateAuthority` | called by the middleware |
| HTTP middleware, `middleware.ts` | none of its own between requests | `createOatiMiddleware` handler | verifier, usage store, Receipt signer and sink, protected operation |
| Envoy authorizer, `services/envoy-authorizer/server.mjs` | Valkey replay keys, Valkey usage snapshots, Receipt stream, evidence service | `/authorize`, `/invalidate-cache`, `/readyz`, `/healthz` | middleware, lookup client, Valkey, Transit, evidence API, Envoy |
| Envoy, `integrations/envoy/envoy.yaml` | requests waiting for a decision (2 s) | ext_authz | authorizer, upstream |
| Document verification, `crypto.ts` | `MemoryReplayCache` entries | `verifyDocument`, `signDocument` | trust resolver, replay cache |
| Lookup client, `lookup.ts` | LRU cache of public records | lookups, discovery, `clearCache`, `clearRevocationTargetCache` | resolvers over HTTP |
| Development issuer, `development.ts`; sandbox, `sandbox/service.mjs` | records, agent keys, status; a seller's usage | register, mandate, sign, suspend, revoke; purchase, mint | the evaluator and the verifier, in tests and demos |
| Adapters and DPoP, `adapters.ts` | a replay cache | MCP/A2A/OPA mappings, DPoP proofs | middleware |
| Go SDK, Python SDK, CLI | CLI: a replay file | the same evaluator, verifier and lookup again | each other through conformance vectors |
| Profile validators, `index.ts`; schemas; projection | none | pure functions | issuer, sellers, buyers |
| Canonical JSON, builders, errors | none | pure functions | everything |

### What is hard

* **Shared usage.** `load`, `evaluateAuthority`, `compareAndSet` are three
  awaits; requests under one Mandate interleave across replicas, commands fail,
  replies are lost after the command took effect, processes die in between.
* **Evidence.** A Receipt is signed, put in a stream and committed to the
  evidence service, each of which can fail alone; Envoy gives up after 2 s
  while the authorizer goes on.
* **Replay.** The same Envelope arrives twice, at two replicas, around the
  expiry of its proof, with a clock-skew allowance.
* **Trust over several lookups.** A verification reads a key, a chain of
  issuers and several revocations at different moments, with one `now`.
* **The trust cache.** Answers in flight, ETag revalidation, purges and
  republications race; lifetimes come from two sides; retries must end.
* **Arithmetic and narrowing.** Exact decimals, limits at their boundary,
  one-time Mandates, delegation that must not amplify; amounts compared as
  text in one place and as scaled integers in another.
* **One connection per command.** The Valkey client pipelines, counts replies,
  and settles a promise from three event handlers while the server may run the
  command after the client gave up.
* **Registration.** The development issuer checks, awaits key generation and a
  signature, and then puts three records; two calls overlap at every await.

### What makes each component correct

* Evaluator with middleware: the operations that really ran respect call
  limits, budgets, idempotency keys and one-time use (`InvokedWithinAuthority`);
  every commit is an evaluation against exactly what was committed before it
  (`ImplementsLedger`); usage never decreases (`OnlyAccumulates`).
* Receipts: a denial is never contradicted (`DenialIsFinal`), nothing is
  forwarded without durable evidence (`EvidenceBeforeForward`), a conflict has
  a winner (`ConflictHasWinner`).
* Replay: one acceptance per nonce until the proof expires
  (`NonceOnceBeforeExpiry`, `NonceOnceUntilExpiry`).
* Verification: revoked before the start means rejected
  (`RevocationStopsTrust`), chains end at an anchor (`ChainGrounded`), failures
  reject (`FailsClosed`), every step of a walk brings it nearer its end
  (`WalkAdvances`).
* Lookup client: bounded staleness (`StalenessBounded`), effective purges
  (`PurgeHolds`), bounded memory (`CacheBounded`), bounded time (`EndsInTime`,
  `LookupEnds`).
* Authorizer: what was revoked when a request arrived lets nothing through,
  although Mandate, parent, Passport and key are read one after the other
  (`RevokedStaysOut`); a signature counts only if the registry published, since
  the request arrived, a record of its key that repeats the Passport and one, the
  same or a later, that verifies it (`RuntimeKeyVouched`); no decision without its Receipt in production
  (`DecisionsRecorded`); every request is answered (`Answered`); a Valkey
  command is a remote call (`CommandsAreCalls`).
* Development issuer: the records of an agent fit together (`RecordsAgree`),
  Envelopes are made under a Mandate of their agent while it is valid and verify
  against the published key (`EnvelopesVerify`), a suspension lasts
  (`SuspensionHolds`), every record can be published (`Publishable`).
* Sellers and validators: evaluator and validator agree on a purchase
  (`CommerceAgree`, `AmountsInOrder`), mints stay within the State Claim
  (`MintWithinClaim`), a budget keeps its currency (`BudgetKeepsCurrency`), the
  published schemas accept the answers (`AnswersConform`).

## 2. The modules

```
Decimals  Delegation                 Schemas
     \      /                        /     \
    Evaluator ---- Profiles ---------        Issuer -- MCIssuer
        |             |   (INSTANCE Schemas)
    Submissions    Sellers -- MCSellers
        |
      Ledger
        |
    Middleware -- MCMiddleware    TrustChain -- MCTrust    LookupCache -- MCLookup

    ValkeyClient -- Gateway -- MCGateway
    RemoteCall  ----'  (INSTANCE ... WITH, what a command promises)
```

Each component's proofs are in a module that extends it: LedgerProofs (which
extends DecimalProofs), MiddlewareProofs (which extends LedgerProofs),
TrustProofs, GatewayProofs, LookupProofs, IssuerProofs and SellersProofs.
SellersProofs and LookupProofs extend DecimalProofs too, for the arithmetic and
for induction and recursion.

**Decimals** is the exact decimal arithmetic of `evaluator.ts` (a coefficient
and a scale, aligned before comparing or adding).

**Delegation** is `checkChildMandate` with `narrowerObject`,
`constrainedSubset` and `checkProfileSubset`. JSON members carry their type, so
that the comparisons of values of unequal type are the code's.

**Evaluator** is `evaluateAuthority`: the set of reason codes, the exception of
`checkChildMandate` (`evaluationThrows`), the decision (`allows`) and the next
usage snapshot (`nextUsage`). `Empty` stands for the empty string.

**Submissions** is what requests carry: the documents, the digest's verdict and
the proof. Its assumptions are what schema validation guarantees.

**Ledger** is the abstract specification: authority is granted to one request at
a time, each evaluated against everything granted before. It also states what
such a ledger guarantees.

**Middleware** is the handler of `createOatiMiddleware` over the authorizer's
dependencies. `pc[r]` is the await at which request `r` stands; one action runs
to the next await:

| Action | Code |
|---|---|
| `Extract` | size limits, header extraction, schema validation, transaction and correlation ids |
| `VerifyMandate`, `VerifyParent` | `verifyDocument` with `reusableDocumentPolicy` |
| `VerifyEnvelope`, `ConsumeNonce` | `verifyDocument` on the Envelope: `checkProofTime`, then `ValkeyReplayCache.checkAndStore` |
| `CheckDigest`, `LoadUsage`, `Evaluate` | request binding, `usageStore.load` (or the refusal without a store), `evaluateAuthority` |
| `CompareAndSet` | `ValkeyUsageStore.compareAndSet` |
| `InvokeHandler` | `next(request, context)` |
| `SignReceipt`, `EmitToStream`, `PersistEvidence` | `issueReceipt`: Transit, `XADD`, evidence API |
| `EnvoyForward`, `EnvoyTimeout` | ext_authz |
| `Crash`, `Tick` | process exit, clock |

A command that writes has three outcomes: done, done with its reply lost, not
done. `charged`, `accepted` and `invoked` are histories. `usage` and `charged`
are the ledger's own variables, so the refinement mapping is the identity.
`Storeless` holds the requests that arrive at a middleware built without a
usage store.

**TrustChain** is `verifyDocument`: `Start` reads the clock and applies the
static checks, then one action per lookup (`ResolveKey`; `WalkRevocation` and
`WalkIssuer` for each link; `CheckTarget` for key, issuer and document), then
`CheckSignature` and `ConsumeNonce` on `MemoryReplayCache`. The registry
changes in between (`RevokeKey`, `RevokeIssuer`, `Reparent`, `Publish`). The
resolver reads the registry directly; what the cache adds is LookupCache's
subject. A revocation is final, a suspension can be lifted.

**LookupCache** is `OatiLookupClient`: `Begin` (a hit, or the first request),
`Answer` (a resolver, external), `Deliver`, `Disconnect`, `Expire`, `Retry`,
`Cancel`, and the purges `Invalidate`, `ClearType`, `ClearAll`. A record is a
version number, 0 while unpublished; ETags tell versions apart. `entries` and
`order` are the JavaScript `Map`: entries, and its insertion order. `retired`,
`purged` and `floor` are histories.

**ValkeyClient** is the client class of the authorizer. `link[c]` is the
connection of caller `c`'s last command: the socket, what the server has yet to
run, replies under way, the number of completed replies, the promise. `Connect`,
`Receive`, `SocketTimeout`, `SocketError` are the event handlers; `RunSession`,
`Refuse`, `Run`, `PeerCloses` are the server. **RemoteCall** is the abstract
specification of a command: a promise settles once, and is resolved only with
the server's answer to that command. `Gateway!CommandsAreCalls` is the
refinement, by a mapping from links to promises, answers and results.

**Gateway** is the authorizer process: `configuration` and the token checks say
which environments it starts in; the routes are `AnswerSimple`, `Probe`
(`/readyz`) and `Authorize`; then `gatewayVerificationPolicy` in one action per
await (`ReadMandate`, `CheckMandate`, ..., `ReadRuntimeKey`, `VerifyEnvelope`),
the replay key, usage and compare-and-set through the Valkey client
(`CheckNonce`, `Evaluate`, `CheckCommit`), and the Receipt (`Sign` with the
pinned Transit version, `Emitted`, `Persist`). `Serve` is what Valkey does with
a command; it may do it after the request was answered. The control plane
changes statuses, publishes revocations and publishes keys anew under their ids
between any two steps. A key record is read twice: `ReadRuntimeKey` compares
what `published` says then with the Passport, `VerifyEnvelope` resolves the key
again and verifies the signature with what is published by then. The Passport is
read once, so what it lists (`Listed`) is a constant; `KeyRecords` are the
records a key may get, `publications` those it has had. Middleware
looks closer at concurrent requests, usage and time, TrustChain at one
verification, LookupCache at the cache; Gateway is the composition of the
process, with the evaluator's verdict as a choice, usage as a version, and the
cache switched off (`OATI_GATEWAY_LOOKUP_CACHE_MS` may be 0).

**Schemas** has one predicate per published schema that the modelled code meets.
Identifiers, times, amounts, nonces and other texts are told apart as far as the
schemas do.

**Issuer** is `DevelopmentIssuer` and `projection.ts`. `registerAgent`,
`createMandate`, `signTransaction` and `issueReceipt` run to their first await,
`generateKey` is the part of a registration between key generation and
signature, `finish` is what follows a signature: the schema, then the records.
`setStatus` is synchronous. `records` and `agentKeys` are the two Maps, `handed`
the documents returned, `overlapped` a history of agents that two registrations
were under way for at once. A transaction takes purpose and profile of its
Mandate unless the caller names others. Receipts are issued for Envelopes that
were handed out and for transactions that a caller made up (`Unsigned`).

**Profiles** is the validators of `index.ts` with their decimal arithmetic on
digits. `MaxSafeInteger` is the largest multiplier of `multiplyDecimal`; MCSellers
has 2 in the place of 2^53 - 1. **Sellers** follows one request through a sandbox seller, or a caller of
the middleware that meters consumption itself: the evaluation context built from
the signed terms, the evaluator, and the Receipt. `conforms` says which requests
there are: documents that satisfy their schemas, with the members that the
sandbox's buyer signs and its seller attests, after a usage that an evaluation
can have left. Quantities are at most `MaxPlainInteger` (10^21 - 1 in the code):
JavaScript writes larger numbers with an exponent, and the evaluator throws.

Definitions that begin with the comment "Faulty variant" are not part of the
model. Each is a plausible bug; substituted for the definition it varies, it
makes TLC refute the property it is listed with in `PROJECT.json`.

## 3. The runs

`tlc -workers 2 -config <run>.cfg <module>`

| Run | Module | Question | Bounds |
|---|---|---|---|
| MCMarket | MCMiddleware | do three racing purchases stay within a Mandate that pays for two | 3 requests, 1 Mandate, clock stopped |
| MCResend | MCMiddleware | is nothing forwarded without evidence; is a nonce taken once before expiry | 2 requests with one nonce at the gateway, clock 0..2 around the expiry |
| MCMint | MCMiddleware | does a delegated one-time Mandate mint once, although one endpoint has no usage store; does an exception fail closed | 3 requests (1 at an endpoint without a store), RWA profile, parent Mandate, a Mandate without calls |
| MCVerify | MCTrust | can a revoked, ungrounded or unreadable chain verify; can slow verifications both take a nonce; does every walk end | 2 verifications of one document, 3 states of its key, 3 issuers in 5 shapes, depth 1, 1 registry change, clock 0..1, pruning at every store |
| MCStale | MCLookup | how old can a returned record be; does a purge hold; does the Map stay bounded | 2 lookups, 2 keys, 1 entry, 2 versions, clock 0..2 |
| MCFailover | MCLookup | do lookups end, and in time (liveness) | 2 lookups, 2 resolvers, 1 retry, every fault |
| MCGateway | MCGateway | what gets through while records are revoked and dependencies fail; is every request answered (liveness); is a command a remote call (refinement) | 1 authorization with 6 kinds of key beside 1 other request, 7 environments, 1 command before the caller's, 1 change by others (a status, a revocation, a record of a key, or usage) |
| MCIssuer | MCIssuer | do the records of the issuer fit together under overlapping calls | 2 calls at once, 4 in all, 2 spellings of one agent, 3 purposes of a transaction, 2 made-up transactions, 1 status change, clock 0..1 |
| MCSellers | MCSellers | do evaluator, validators and schemas agree | 13216 requests: amounts at, below and above every limit, written with different scales, after no or one earlier request; mints of nothing, terms without a digest, budgets without a currency or not in decimals; quantities up to one beyond the safe integers |

Why these are enough: each race needs two contenders, and a charge needs a third
to observe what they left behind. Clock bounds reach the last boundary the code
compares with. MCMarket stops the clock because
its questions are about interleaving, MCResend moves it. MCVerify's depth of 1
lets a two-link chain verify and a three-link chain run into the limit. In
MCGateway requests meet only in Valkey's usage key and in the registry, so
another replica's use of the Mandate (`UseElsewhere`) stands for the second
authorization; each dependency may fail at every call. MCIssuer's four calls are
the shortest way from two overlapping registrations through a Mandate to an
Envelope, or from a registration to a Receipt. Symmetry is used in safety runs
only, where lookups, verifications or calls are interchangeable.
Deadlock checking is off: all requests, lookups or verifications of an instance
finish, and then the model stops as it should.

Three runs show that the code does not do what its documentation says
(`findings` in `PROJECT.json`):

* **MCReplayWindow.** A replay key lives until `proof.expires`, a proof is
  accepted until `expires + clockSkewMs`. In between, a consumed Envelope is
  accepted again.
* **MCReceiptless.** After the operation ran, a failure to sign or emit its
  Receipt gives a 503 and no Receipt.
* **MCInvalidation.** An answer read before a publication, delivered after the
  purge, is cached: later lookups see the old record.

What the runs also brought out, and the properties except or leave open:

* A connection that Valkey closes cleanly before it replies settles no promise;
  the request stays without an answer until Envoy gives up (`hungUp`).
* The key record that the authorizer compares with the Passport
  (`server.mjs:140`) is not the one it verifies the signature with, which
  `verifyDocument` looks up again. A key published anew under its id between the
  two, as an overlapping registration does, lets an Envelope through that the
  Passport's key did not sign, which `services/envoy-authorizer/README.md:26` rules
  out. `RuntimeKeyVouched` therefore speaks of two records.
* Overlapping registrations of one agent leave the signing key of one and the
  records of the other (`overlapped`).
* An amount of `"0"` rewrites the currency of a metered budget; a budget without
  a currency, or one written as a JSON number, adds up amounts of several
  (`BudgetKeepsCurrency`).
* The validator of a Commerce Receipt refuses a quantity beyond the safe
  integers, which evaluator and Mandate accept (`CommerceAgree`).
* A mint of zero is allowed by the evaluator and refused by
  `validateRwaReceipt` (`MintWithinClaim`).
* Mandate and evaluator accept Commerce terms without a `terms_digest`; the
  schema of the Commerce Receipt requires one (`AnswersConform`).
* The Commerce seller's Receipt carries an `idempotency_key` that the
  `commerceReceipt` schema does not allow; the RWA seller's context carries four
  members of its terms that `evaluationRequest` does not allow; a usage snapshot
  with an empty currency does not satisfy `evaluationRequest`
  (`AnswersConform`).
* A sandbox seller verifies the Mandate with the replay cache it uses for
  Envelopes, so a second purchase under a Mandate is refused as a replay.
* `requiresPersistentUsage` looks at status, limits and profile only. At an
  endpoint without a usage store, a Mandate without limits and profile whose
  `extensions.rwa.one_time` is set is therefore not refused, although
  `sdk/typescript/README.md:171` says that one-time Mandates require a store.
  This is the hypothesis `Metered` of `AuthorityRespected`; the Envoy authorizer
  always has a store.

### Fairness

The safety runs assume none. `LookupEnds` assumes that the clock advances and
that due timers fire (`setTimeout` in `requestOnce` and `delay`); nothing is
assumed of resolvers, connections or callers. Timers firing when due is also the
premise of `StalenessBounded` and `EndsInTime`: the clock does not pass a
deadline before its timer has run. `Answered` assumes that a handler that can go
on does (its lookups, Transit and evidence calls have timeouts of their own),
that received data are handled, and that an idle socket times out after 2 s
(`socket.setTimeout`); nothing is assumed of Valkey or the network.
`WalkAdvances` needs no fairness: it is a measure that every step of a
verification decreases.

## 4. The proofs

`tlapm <module>.tla` for LedgerProofs, MiddlewareProofs, TrustProofs,
GatewayProofs, LookupProofs, IssuerProofs, SellersProofs and DecimalProofs. The
theorems hold for any number of requests, calls, keys and retries, and for
amounts and times of any size.

**DecimalProofs.** `CompareAligned` and `AddAligned`: the evaluator's comparison
and sum of two amounts are those of their values at every scale both can be
written with. The lemmas are about powers of ten and about changing the scale of
an amount; the budget proofs need them, because the snapshot's scale grows with
what is added to it. The library's induction theorems take a predicate as a
parameter; here they are restated with a set in its place, and proved from the
well-foundedness of the natural numbers (`EveryNumber`, `EveryFiniteSet`). A
recursive definition is shown to have a function that satisfies it by building
its finite approximations (`Recursion`).

**LedgerProofs.** `LedgerInvariant` proves `LSpec => []LInv`: the snapshot of a
Mandate counts exactly its charged requests, holds their idempotency keys and
knows of a one-time use (`Recorded`), and its amount is the exact total of what
was charged, a sum over the set of charged requests (`Accounted`). Without these the limits are not inductive, because the evaluator
only sees the snapshot. The lemmas say what the evaluator contributes: which
fields `nextUsage` changes (`NextUsageFields`), what an allowed request was
checked for (`AllowedFacts`). `LedgerWithinLimits` draws the conclusion.

**MiddlewareProofs.** `InvariantHolds` proves an inductive invariant with parts
for charges (a request past the commit has been charged, one before it has
not), answers (a denial comes from a step before the charge), Receipts (what is
in the stream and in the evidence service agrees with the answer being given),
snapshots (a loaded snapshot was stored before, and a later one differs by
someone else's charge) and nonces (a replay key outlives the proof of whoever
was accepted with it). From it follow `TypeCorrect`, `DenialStays`,
`EvidenceFirst`, `ConflictsAreReal`, `NonceHeld`; `NothingUndone` is the action
property `OnlyAccumulates`; `Refinement` proves that every step is a ledger step
or leaves the ledger alone; `InvokedWithinLimits` transfers the ledger's limits
to what was invoked at endpoints with a usage store. `AuthorityRespected` proves
`InvokedWithinAuthority` at every endpoint: where there is no store, only
Mandates that need none get past `LoadUsage` (`StorelessInv`), provided that
what needs none is not one-time and buys nothing (`Metered`, see above).

**TrustProofs.** `TrustInv` says where a verification stands with respect to
what was revoked when it began: the registry still says so for its `now`
(`StillRevoked`, because a revocation is final), and as long as it has found no
issue the check that will find it lies ahead (`KeyAhead`, `IssuerAhead`,
`DocumentBehind`). The property alone is not inductive: in the middle of a walk
nothing is verified yet. `RevocationIsSeen`, `ChainsEndAtAnchors`,
`FailedLookupsClose` follow; `WalksAdvance` shows that every step lowers a
natural number, for registries of any shape, cycles included.
`NoncesAreSpentOnce` needs that no verification's time is ahead of the clock,
and that the cache remembers a nonce until its proof has expired
(`Remembered`), pruning with an older `now` notwithstanding.

**GatewayProofs.** `GatewayInv` says for each await of the authorizer what a
request that got there has passed (`KeyChecked`, `StandingChecked`), which of the
records published for its key since it arrived fitted the Passport and the
signature (`Matched`, `Bound`), how far its Receipt is (`Kept`), and that a handler waits while its command is pending
(`Placed`). It gives `RevokedNotServed`, `OnlyTheAgentsKey` and
`ReceiptsBeforeResponses`. `LinkInv` counts the replies of a connection: those
handled, on their way and to come are the session's and the caller's, and the
caller's is the last. With it `ValkeyImplementsCalls` shows that every step of
client and server is a step of RemoteCall, or none.

**LookupProofs.** `LookupInv` bounds what is in the cache and on its way: an
entry expires in time also if it is superseded now (`EntriesOK`), an answer in
flight was right when it was read and is not older than the purges it may not
outlive (`AnswerInv`), and each lookup keeps within its share of time
(`GoingInv`). It gives `AnswersAreRecent`, `PurgesTakeEffect` and
`LookupsAreOver`. `CacheStaysBounded` has an invariant of its own, `MapOf`: the
insertion order names each key of the Map once, and no other, through hits,
stores, evictions and purges. `LookupTypes` needs that the clock stays within
its bound and that retry delays are numbers (`ClockInv`, `DoubledType`).

**IssuerProofs.** `IssuerInv` ties the three records of an agent to its signing
key: as long as no two registrations of it overlapped, at most one call is
registering it, none once it is registered, and the published key is the one it
signs with (`AgentInv`). An Envelope being signed, or handed out, was signed
with that key under a Mandate that is registered for its agent, within the
Mandate's lifetime (`EnvelopeInv`). A
Mandate being signed has an identifier that no record and no other call has,
because it ends with a number that `sequence` has passed once (`MandateInv`).
`RegistryAgrees`, `EnvelopesAreVerifiable` and `SuspensionsHold` follow; without
the calls under way none of them is inductive. The parts of identifiers are
compared after writing out what `agentMethod` and `nextId` make of them
(`Method`, `Named`). `RegistryPublishable` has an invariant of its own
(`PublicationInv`): a record has the members that the public one requires, since
the schema that its document passed requires them, or since the constructor
writes them; its identifier is one; its key was exported without the private
part. What a call holds between generating a key and recording it is part of it
(`HeldInv`).

**SellersProofs.** `TextsAndValues`: the validators' comparison of two amounts,
digit by digit on texts padded with zeros, is the evaluator's, on integers of a
common scale. The proof has texts spell numbers (`Spells`): longer means larger
when there are no leading zeros, the first digit that differs decides, and zeros
at the end of a fraction change nothing. `SellersInvariant` says that a trusted
request has the answer its seller computes, and thereby reduces the properties to
facts about the evaluation. `OrderOfTexts`, `EvaluatorAndValidatorAgree`,
`BudgetsInOneCurrency` and `MintsWithinClaim` follow from what an allowed request
was checked for; the last adds that the Mandate's limit, which bounds what is
minted in all, is within the claim that it was validated against.
`AnswersAreInput` goes through the members of Receipt and usage, and needs that
what the evaluator adds up are amounts again.

**Assumptions** are the named `ASSUME`s of the component modules, and TLC
evaluates them in every run. Evaluator, Submissions and Middleware: finitely many
requests, members as the schemas type them, one document per Mandate identifier,
natural bounds. TrustChain, Gateway and LookupCache: registry, configuration and
answers of the documented shapes, names of keys, issuers and documents apart,
options that the constructors accept, natural bounds. `None`, which stands for
JavaScript's undefined, is none of the values it is told apart from
(`UndefinedIsNoValue` of Issuer and of Sellers). Issuer: a registration names its
agent (`displayName.trim()` throws otherwise), identifiers are not the empty
string; only `RegistryPublishable` uses these. A transaction that a caller made
up has an identifier (`identifier` throws otherwise). Sellers: every request satisfies
`conforms` (`ExchangesConform`), which is what verification, the schemas and the
seller's own code leave possible; TLC's instance is filtered with the same
predicate.

**Model-checked only.** Every safety property of the passing runs is stated by a
theorem. Liveness (`LookupEnds`, `Answered`) is beyond the prover and stays with
TLC. Of the bounds on time, the provers see `EndsInTime`, which does not need
fairness.

## 5. Not modelled

* Cryptographic primitives, canonical JSON, base64url, curve arithmetic: one
  verdict per signature or digest.
* The schemas no modelled code validates against: `verificationKey`, `issuer`,
  `revocation`, `evaluationResult`, `decision`, `commerceOffer`, `rwaAsset`,
  discovery and conformance. In Middleware, what the schemas guarantee is an
  assumption on submissions.
* In Middleware and Gateway, the verification of a document is one result that
  may fail for reasons of its own; TrustChain looks inside it.
* Counters beyond 2^53: usage counts exactly here, and calls are numbers in the
  code.
* In Middleware, a gateway without an evidence service (Gateway has it), and a
  dependency that itself throws the error `MIDDLEWARE_REPLAY`, which would be
  answered with 401 in place of 503. None in the repository does.
* JSON objects nested deeper than one level in `limits`, `data_use` and public
  attributes.
* Resolvers that lag behind the registry; the lookup cache inside Gateway.
* Discovery and federation of the lookup client: requests without a cache, to
  one resolver after the other, whose answers are checked member by member.
* Adapters and DPoP: translations without state, and a proof check over the same
  replay store as the modelled one.
* The sandbox's issuer, control plane, lookup and buyer services, which forward
  to the modelled SDK.
* The Go and Python SDKs and the CLI: further implementations of what is
  modelled here; that they agree is left to the conformance vectors.
* Canonical JSON, errors, conformance runners, test support and scripts.

## 6. State

The models cover the components of the table as far as section 5 says, and
every safety property that a passing run checks has a theorem. What would extend
the development: the discovery part of the lookup client; the adapters' DPoP
check, whose replay entry ends a second before its proof does (`hazards` in
`PROJECT.json`); and a model of the Go and Python evaluators, to compare them
with this one rather than through vectors.
