# treetop-rest: a TLA+ model of the policy server

treetop-rest is an HTTP server that answers authorization requests against one
Cedar policy engine. The engine is computed from three documents (policies,
labels, schema) that administrators upload, that background tasks fetch from
URLs, or that arrive together as a signed bundle. These modules model how the
documents are replaced while requests are answered, check the models with TLC
on small instances, and prove the safety properties for all instances with the
TLA+ proof system.

## 1. The system

| Component | Source | State | Operations | Interacts with |
|---|---|---|---|---|
| policy store | `src/state.rs` | engine, metadata of three documents, remembered labelers, bundle, remote load status, two listing caches | `set_dsl`, `set_labels`, `set_schema`, `prepare_bundle`/`apply_prepared_bundle`, `configure_remote_source`, `mark_remote_source_loaded`, `list_policies_raw/_json` | one `RwLock` around it; everybody |
| component fetchers | `src/fetcher/generic.rs`, `policy.rs`, `labels.rs`, `schema.rs` | validators (ETag, Last-Modified) and hash of the last applied body | `spawn`, `check_and_update` | HTTP origins, store |
| bundle fetcher | `src/fetcher/bundle.rs` | validators and digest of the last applied archive | `spawn`, `check_and_update` | HTTP origin, blocking pool, store |
| authorize handler | `src/handlers.rs` 425-705 | one request: batch, snapshot, results | `authorize`, `evaluate_batch_requests`, `eval_one` | store (read lock once), rayon |
| upload handlers | `src/handlers.rs` 761-1017 | none | `upload_policies`, `upload_schema`, `upload_bundle` | store |
| readiness probe | `src/handlers.rs` 346-353 | none | `readyz` | store (`try_read`) |
| read endpoints | `src/handlers.rs` | none | `version`, `status`, `get_policies`, `get_schema`, `list_policies` | store |
| startup, configuration | `src/bin/server.rs`, `src/config.rs` | modes, limits, URLs | `main`, `bundle_runtime_config` | configures the store, spawns tasks, then serves |
| store lock | `src/state.rs` (`SharedPolicyStore`), `src/handlers.rs`, `src/errors.rs` | readers, writer, poisoned | `read`, `write`, `try_read`, the mutexes of the listing caches | around the store |
| admission control | `src/middleware.rs`, `src/config.rs` | three settings, fixed at startup | `AdmissionConfig::parse`, `resolve_client_ip`, `bearer_token`, `allows`, `matches` | in front of the handlers |
| request tracing | `src/middleware.rs` | one request: start time, client address | `TracingMiddleware` | between admission control and the handlers; updates metrics |
| metrics | `src/metrics.rs` | counters, cache of per-action metrics | `on_evaluation`, `on_evaluation_phases`, `action_metrics`, `HttpMetrics::observe`, `AuthorizationMetrics::observe`, `record_*`, `encode_registry_*` | called by the engine, middlewares, handlers and fetchers |
| parallelism | `src/config.rs`, `src/parallel.rs` | thread counts, threshold | `init_parallelism`, `ParallelConfig::new` | read by authorize |

What is hard here:

* Many writers (three polling tasks or one bundle task, uploads) replace one
  state; readers must see old or new, never a mixture.
* A poll is several awaits long. Between a HEAD and a GET the origin changes,
  between the preparation of a bundle and its publication the store changes.
* Requests fail, bodies break off, documents are rejected, and the polling
  task must still come back to the right document. What a task remembers
  (validators, hashes) decides whether it will.
* In strict mode each update is judged against the parts that are in place, so
  order matters.
* Readiness is a promise about history: every configured source was loaded
  once. Uploads and bundles rewrite the metadata meanwhile.
* A batch is evaluated, possibly in parallel, while the store moves on.
* An update assigns many fields; a thread may panic between two of them. Reads
  fill the listing caches under a read lock, in two separate mutex sections.
* The address that admission judges is read from a header that every proxy
  extends and that the client may have begun itself.
* Threads that evaluate the same action for the first time race for its metrics.
* A response updates several metrics one after the other while scrapes read
  them; rejected, dropped and failed requests each leave other traces.
* A bundle arrives in chunks under two size limits, is judged by signature
  policy, trusted keys and strict mode, and its client may leave while the
  blocking pool still works on it.
* A restart renews the upload token and forgets the documents.

`PROJECT.json` lists these hazards line by line with the properties that cover
them.

## 2. The modules

| Module | Models | Role |
|---|---|---|
| `ActiveState` | - | abstract specification: one active state, replaced part by part or as a whole, with its runtime in the same step |
| `PolicyStore` | `state.rs` | the store; one method under the write lock is one step |
| `GenericFetcher` | `fetcher/generic.rs` and adapters | `EXTENDS PolicyStore`; tasks, origins, startup, uploads |
| `BundleFetcher` | `fetcher/bundle.rs`, `upload_bundle` | `EXTENDS PolicyStore`; the bundle task and concurrent uploads |
| `Evaluation` | `handlers.rs` 425-531, 592-660 | pure operators: limits, one check, counts of a response |
| `AtomicAuthorize` | - | abstract specification: a request is answered from the state at one moment |
| `Authorize` | `handlers.rs` 642-705 | `EXTENDS PolicyStore, Evaluation`; concurrent requests over a changing store |
| `SerialStore` | - | abstract specification: each method of the store is one step between its request and its answer; a panic in an update closes the store |
| `StoreLock` | `SharedPolicyStore` and the use of its guards | implements `SerialStore`, the ground for taking a store method as one step: its assignments, the lock and panics |
| `Admission` | `middleware.rs`, `AdmissionConfig` | settings, the way of a request through proxies, the decision |
| `ActionMetrics` | `metrics.rs`, the evaluation sink | cache and lazily initialized handles under concurrent callbacks |
| `ParallelConfig` | `parallel.rs`, argument defaults | the computation of threads and threshold |
| `BundleLoads` | `upload_bundle`, `fetcher/bundle.rs`, `bundle_runtime_config` | a bundle from its headers to the counters: chunks, limits, signatures, blocking pool, failures |
| `UploadRequests` | `upload_policies`, `upload_schema`, `check_upload_auth` | permission, body forms, answers, restarts of the process |
| `ContextLimits` | `validate_request_context` | `EXTENDS Authorize`; the measures of a context, computed from its values |
| `RequestTracing` | both middlewares, `HttpMetrics`, `AuthorizationMetrics`, `/metrics` | what each request leaves in the metrics and what a scrape sees of it |
| `BearerToken` | `valid_bearer_token` | the scan of a token text |
| `PolicyStoreProofs`, `GenericFetcherProofs`, `BundleFetcherProofs`, `AuthorizeProofs`, `StoreLockProofs`, `AdmissionProofs`, `MetricsProofs`, `UploadProofs` | - | theorems: the last two about `ActionMetrics` with `RequestTracing`, and about `BundleLoads` with `UploadRequests` |
| `MC*` | - | constant values for TLC |

### How state and actions correspond to the code

`PolicyStore` names its variables after the fields of the struct. `engine`
stands for the prepared engine: the text it was compiled from, the schema it
checks requests with, its labelers and the digest of the label document, and
its layout (one set of policies, or one per module of a bundle).
`policies`, `labels`, `schema` are the metadata: content and remote source.
`remote_loads` is the status per source. `list_caches` holds the two LRU caches
as sets of entries with their rank. `serving` is the point where `main` reaches
`HttpServer::run`: `#[actix_web::main]` runs background tasks on the same
thread, so no fetch task runs before all of them have been configured.

Documents are opaque. What Cedar, treetop_core and treetop_bundle say of them
is given by sets and relations (`Compiles`, `ValidLabels`, `ValidSchemas`,
`PolicyFits`, `LabelsFit`, `Bundles`), with the assumptions that the code
relies on stated by name. `BundleAssumption` is the one about an external
crate: a validated archive fits its own schema.

Every check of an update method comes before its first assignment. A rejected
update is therefore a stutter; the operators `...Accepted` say when an update
is taken, and the fetchers need them to remember what was rejected. A poll
that ends with a 304 or with a failed first request changes nothing either.

In `GenericFetcher` a task goes from `sleep` by a HEAD to `get`, by a GET to
`body`, and back to `sleep` by skipping, rejecting or applying the body. The
validators are kept when the HEAD succeeds, as in the code; `SendsValidators` says
which origins send any, and `allow_upload` whether administrators interfere. The two halves of
a validator (ETag, Last-Modified) are one value. In `BundleFetcher` the
conditional GET leads to `body`, a successful preparation to `prepared`, and
the apply back to `sleep`. A response may lack validators
(`ResponseValidators`). In both modules, uploads need no token: a request that
`check_upload_auth` refuses changes nothing.

In `Authorize` a client is `accepted` once its batch passed the size limit,
`evaluating` once it holds its snapshot and `answered` once the response is
built. `Evaluate(c, i)` evaluates one check; without parallelism only the
lowest remaining index, with it any (rayon promises no order). What an engine
decides is a record of the documents it was built from, so that two engines
are told apart whenever they could decide differently.

`StoreLock` abstracts the contents of the store to the documents that each
field was made from and takes the methods apart instead. A thread is a handler
or a polling task; `Assignments(op)` lists what an update assigns, in order, and
`Assign` makes one assignment. A read handler copies runtime and metadata in
two steps under one guard; a listing is looked up, computed and inserted in
three, with the cache mutex free in between. An upload checks its permission
under a read guard, drops it, prepares, and takes the write lock. The lock is
that of `std`: a waiting writer holds new readers back, a panic with the write
guard poisons. `Panic` may strike anywhere below a handler, which is more than
the code is known to do, and `PolicyStore` is the special case without panics.
There is one listing filter: filters only meet in the eviction order, which
`PolicyStore` models. To `SerialStore` the store shows the last published
state, and closes when the lock is poisoned; a thread shows its request from
the moment it asks and its answer from the moment it has one, and nothing in
between.

In `Admission` a client sends a request with any forwarding header, proxies on
the trusted list each append the address they saw (in the last line or in a
line of their own; the edge proxy may drop what the client sent), and the
server decides: access list first, then token. `ForwardedClientIp` reads all
lines as one chain from the right.

In `ActionMetrics` a thread looks its action up under the read guard, inserts
under the write guard if it still has to, and then for each metric of its
callback initializes the `OnceLock` if need be and adds one. The metrics
library (`Family`, atomics) is modelled from its use: a family has one value for
each label, and an increment is atomic.

`ParallelConfig` is the computation at startup: arguments with their defaults,
environment, number of CPUs.

`BundleLoads` is the other side of `BundleFetcher`: there a response is whole
and the store has all its fields; here the store is only the load that was
applied last, and the way to it is taken apart. The model begins with
`bundle_runtime_config` on one of several settings. A load is a poll or an
upload; both go from headers through `reading` (one step per chunk, of any
size), `preparing` (in the blocking pool), `prepared` and `applied` to `done`,
with the guards in which the two paths differ: the limit, which failures they
count, and the digest that only a poll compares. How a load ended (`outcome`)
says what happened to it, not whether that was counted. When the client of an upload
leaves, its future is dropped at an await, except that a closure in the
blocking pool runs on (`detached`).

`UploadRequests` takes the other two uploads apart: extraction of the body by
the framework (`web::Bytes`, limited by the `PayloadConfig` of `server.rs` 160),
first check under the read lock, body without a lock, second check and update
under the write lock. A body has a content type, a form (wrapper object, the
document itself, neither), a text, and a way to arrive: whole, too large, or
broken. The extractor (external) answers the last two with 413 and 400 before
the handler is called, and so before anybody asks for a token. The token is the number of the process that generated it;
`Restart` counts on. Whether the store accepts a document is a relation
(`Fits`); `PolicyStore` says why.

`ContextLimits` computes nesting depth by a recursive function over values,
and the length of the serialized context from the lengths of keys, scalars and
the punctuation between them. `Evaluation` takes the measures of each check as
the constant `Context`; `MCAuthorize` gives it those that `ContextLimits`
computes, so that the run of `Authorize` compares real contexts with the limits.

In `RequestTracing` a request is rejected by admission control, or handled,
and its response updates the families of `HttpObserve` and, if the handler had
marked an accepted batch, of `AuthorizationObserve`, one increment per step.
A scrape is a request itself; `ReadFamily` reads one family, in the order in
which `init_prometheus` registers them.

`BearerToken` is one step per byte of `valid_bearer_token`; bytes are letters
of the alphabet, padding or other. It has no run: its one property is proved for
texts of any length.

Several definitions carry a comment `Fault:` and are used by no
specification: each is the definition after it with a plausible mistake, used
to show that a property notices (`mutants` in `PROJECT.json`).

## 3. What is checked

| Run | Shows | Bounds |
|---|---|---|
| `store` | coherent state, strict mode, labels against schema, bundle provenance, current caches within their limit, honest and lasting readiness; implements `ActiveState` | 4 policy texts (one malformed), 2 label documents, 2 schemas, 2 bundles, 3 listing keys with limit 2, both modes, both layouts, every set of configured sources |
| `fetch` | a source counts as loaded exactly when one of its bodies was applied, whatever administrators upload; a remembered hash stands for the served document unless they do; polls of an unchanged document never undo an upload; published documents come into force where the origin sends no validators | policies and schema URL, the schema's origin with validators, with and without uploads, one change of the origins |
| `fetch_lost` | **violated**: with validators a published document may never be served | no change of the origins is needed |
| `bundle` | the active state is always one bundle; validators and digest only stand for applied archives; readiness only from the URL; an acceptable archive that stays published is finally active | 4 validators of 3 archives (one twice, one that strict mode rejects, one invalid), two concurrent uploads, three changes |
| `authorize` | responses are atomic; strict mode never decides a context without a schema; contexts are refused exactly beyond a limit | two clients, batches of 1, 2 and 3 (one too long), a context at all three limits and one beyond each, nonconforming requests, uploads at any moment |
| `lock` | implements `SerialStore`: whatever a method reports is the store at one moment of its request; a cached listing is never outdated, a poisoned store stays closed, every request is answered whichever threads panic; no deadlock | two threads, two contents, two updates |
| `metrics` | no observation is lost or doubled; handles are shared | two threads, three spellings of two actions, three callbacks |
| `threshold` | **violated**: an unset threshold is not computed from the threads | 1 to several CPUs, each option given or not |
| `admission` | exactly permitted senders with a token are admitted; the recorded client is the sender | 4 addresses, 2 networks, 2 tokens, two proxies on the way, settings valid and invalid |
| `loads` | no load holds more bytes than its limit, only admissible bundles come into force, reloads are counted once, and so are failures, except those that the code leaves out (below); a poll whose body arrived returns | 2 polls, 1 upload, 6 archives of 1 to 3 bytes (limits 1 and 2), 2 keys, 9 settings of which 5 are refused |
| `tracing` | each response is counted in its place; accepted batches are observed in agreeing classes and buckets; a scrape shows what was answered before it, and two scrapes are in order | 3 requests, batches of 0, 4 and 5 checks with a limit of 4 |
| `uploads` | documents only change by permitted uploads or restarts; without permission an answer to a body that arrived reveals nothing, with it nobody is refused for want of it; documented forms are understood | 2 clients, 1 restart, 14 bodies of which 2 do not arrive |

The type invariants of the modules with proofs (`FetchTypeOK`, `BundleTypeOK`,
`AuthTypeOK`, `LockTypeOK`, `MetricsTypeOK`, `AdmissionTypeOK`) are theorems and
are not run again; so are `CachesAreRanked` and `AnswersAreWhole`.

Why the bounds are enough: each document set holds a member for each way a
check can go (malformed, fitting, fitting another schema, without rules), the
LRU limit is one less than the number of keys so that eviction, promotion and
hits in every rank occur, and two uploads or two clients are what a race needs.
In `lock`, either of two threads may be reader, writer or an upload between its
two guards (`StoreLockProofs` proves the safety for any number), a second
update makes a writer that waits for another, and one document besides the
empty one already tells two states apart. In `admission`, two hops make a chain
of a trusted entry behind an untrusted one. In `metrics`, two spellings with
one label let two cache entries share a counter. In `authorize`, one context
has exactly the keys, bytes and depth that are allowed, and each of three
others exceeds one of them by one. In `loads`, the second poll meets the digest
that the first one left, and the upload overtakes both; an archive of each size
lies below, at and above a limit, and each signature is good under one setting
and bad under another. In `tracing`, two scrapes and one request between or
beside them are what an order of readings needs, and a batch of 4 is at the
limit and at the end of its class; the theorem `ClassesAreBuckets` compares the
two tables for every size. In `uploads`, one restart tells a
present token from an earlier one and two clients race between the two checks.
`MaxPolls`, `MaxUpdates` and `MaxRestarts` bound what could go on for ever.
Origin changes are bounded by `MaxPublications`: one change between two awaits
is the interesting case, and the liveness properties hold only once the origin
has come to rest, so more changes only lengthen the prefix.

The labels URL is left out of `fetch`: its task runs the same `check_and_update`,
a third one would multiply the states of the liveness check, and
`GenericFetcherProofs` holds for any set of sources.

Deadlock is checked in `lock`, where a thread that cannot go on would be a
fault. Elsewhere `CHECK_DEADLOCK FALSE` is needed: an origin at its bound, a
store with nobody to upload to it, a server without tasks or with refused
settings, threads that have made their last callback, loads and requests that
are done, really have nothing left to do.

### Fairness

`LiveFetchSpec` and `LiveBundleSpec` assume that startup completes and that a
task which can proceed with the body in its hands does (weak fairness: the loop
in `spawn` has no exit, and no step of the store blocks for ever). Requests to
an origin may fail any number of times but not always: strong fairness of
`HeadModified` and `GetSucceeds`, and in `BundleFetcher` of finishing a
response, because a body that breaks off starts the poll again. Nothing is
assumed of origins, administrators or clients. `FairLockSpec` assumes that the
scheduler lets each thread run that can; a bounded number of updates
(`MaxUpdates`) stands for the fact that writers pause, without which readers
could wait for ever. In `BundleLoads` the server's own steps are weakly fair
(`ServerFairness`: the runtime polls the task and the blocking pool runs its
closures). Nothing is assumed of the network: nothing in the code bounds the
time of a request, so `PollsReturn` begins when a body has arrived.

### Disagreements of code and documentation

`fetch_lost` shows that the component fetcher can lose a document. It keeps
the validators of a HEAD before it knows that the GET and the update succeed
(`fetcher/generic.rs` 61-72). In the trace the schema is not yet loaded in
strict mode, so the policy document is rejected; at the next poll the origin
answers 304 to those validators, and the policies stay empty although the
schema has arrived and the store would accept them. A failed GET has the same
effect. The documentation promises an update at every refresh interval. The
bundle fetcher keeps validators only after the apply, and `bundle` shows
that this avoids the problem.

`threshold` shows that the batch threshold is never computed: `config.rs` 99
gives the argument the default 8, so that `ParallelConfig::new` always finds a
value. `docs/config.md` and the README call an unset threshold automatic; only
an explicit 0 is.

Two observations show in `BundleLoads` without a run of their own:

* `bundle_reload_failures_total` does not count all "Failed bundle loads"
  (`docs/api.md` 94). Three ways to fail return an error and record no reason:
  a preparation that panics, of a poll (`fetcher/bundle.rs` 211-212, logged as
  "bundle fetch loop error") as of an upload (`handlers.rs` 896-900); an upload
  whose body breaks off (`handlers.rs` 856); and an upload that finds the store
  poisoned after its preparation (902). The bundle task records the last two.
  Nor is an upload counted that is refused before its body is read.
  `CountersAreHonest` names these exceptions (`Uncounted`) and says what holds
  beside them: nothing else that fails is left out, nothing is counted twice,
  and no load that succeeded or changed nothing is counted as a failure.
* Polling may end: the HTTP client has no timeout (`fetcher/bundle.rs` 67), the
  loop awaits one poll at a time, and an origin that keeps the connection open
  in silence is waited for, while `docs/config.md` 42 promises a poll at every
  interval. Once a body has arrived, each poll returns (`PollsReturn`).

## 4. What is proved

All theorems hold for every value of the constants under the named assumptions.

* **Store** (`PolicyStoreProofs`). `StoreInvariance` proves one inductive
  invariant. The safety properties alone are not inductive: it adds that the
  texts in place are valid ones, that the remembered labelers are those of the
  labels in place (the next rebuild installs them), that only configured or
  configurable sources appear, and the ranks of the caches. From it follow
  `TypeCorrectness`, `EngineCoherence`, `StrictModeSafety`, `LabelSafety`,
  `BundleProvenance`, `CacheFreshness`, `CacheRanking`, `ReadinessSafety` and
  the action property `ReadinessLatched`. `StoreImplementsActiveState` is the
  refinement: each action is a replacement of a part, of the whole, or a
  stutter of `ActiveState`. Lemmas state what one replacing operation does, so
  that uploads and remote loads share their proof.
* **Component fetchers** (`GenericFetcherProofs`). `FetchingImplementsStore`:
  every step of the composition is a step of the store or leaves it alone, so
  the theorems above hold of it. `FetchTypeCorrectness` and
  `RemoteLoadConfirmation` (a load is confirmed exactly when a body was
  applied) come from `PollInvariance`. `RememberedBodyInForce` and the action
  property `UploadsOutliveRepeatedPolls` are the two sides of the content hash:
  `ApplyBody` is the only step that writes a hash, and puts the same body in
  force (lemma `ApplyBodyServesIt`); every other step of a poll leaves the
  store and the hash alone.
* **Bundle mode** (`BundleFetcherProofs`). `BundleModeImplementsStore`,
  `BundleTypeCorrectness`, `ValidatorSafety`, `LoadConfirmation`,
  `OneBundleAtATime` and `RememberedArchiveInForce`. The invariant says that what was prepared outside the
  lock stays acceptable: the strict mode is fixed once the server serves.
* **Authorization** (`AuthorizeProofs`). `AuthorizeIsAtomic`: for any clients,
  batches, limits and parallelism the handler implements `AtomicAuthorize`.
  The moment of atomicity is the snapshot; the invariant says that results
  already stored are those of the snapshot and that a response is the answer
  to its batch. `StrictContextSafety` adds that in strict mode a successful
  check with a context used a schema.
  `ExactLimits` says which checks succeed, and its core is `DepthIsNesting`:
  the recursive `context_value_depth` exceeds a number exactly if the values
  nest in a chain that is longer. The proof defines the height of a value
  without recursion, as the length of the longest chain that begins with it
  (`ShortestChain`, `LongerChain`, `ShorterChain`). `HeightExists` shows that
  every value has one, because a set of values without would have a member
  that none of its own members belongs to (`ValuesAreTrees`: an `AttrValue`
  owns what it contains, so it cannot contain itself). `HeightEquation` and
  `DepthEquation` show that height and depth obey the same equation, and
  `DepthIsHeight` that the equation has one solution. The length of a context
  in bytes is not characterized in this way: model and property use the same
  sum, of which the theorem only says that it is compared exactly.

* **Store lock** (`StoreLockProofs`). `LockInvariance`: the lock is held by
  exactly the threads at work; a writer has made every assignment it no longer
  has to make, and all other fields are those it found; without a writer the
  store is the last published state or poisoned; what a reader holds is in the
  store. From it `LockTypeCorrectness`, `WholeAnswers`, `FreshListings` and
  `PoisonClosure`. The first two conjuncts are what `AnswersAreWhole` alone
  lacks: an update in progress is torn, and only its remaining assignments say
  how it will be whole again.
  `LockImplementsSerialStore` is the refinement. A read takes effect when its
  last field is read or its listing is found or inserted, an update when its
  guard is dropped; all steps before are stutters (`WithinRequest`). `MethodInv`
  adds to the invariant what the mapping needs: a read that has copied the
  runtime belongs to a method that reports it, and the goal of a writer is what
  its update makes of the last published state, so that `UpdatesAreSerial` can
  show the finished update to be one `Update` step. Refusals and panics are
  answers without effect (`WithoutEffect`).
* **Admission** (`AdmissionProofs`). `AdmissionInvariance`: the chain of a
  travelling request, from the right, consists of trusted proxies down to the
  sender. If the sender is not trusted, the rightmost untrusted place exists
  and is unique, and holds the sender, so `AdmissionSoundness`,
  `RejectionSoundness` and `RecordedClient` follow for any header the client
  began with and any number of proxies.
  `TokensMatchGrammar` (from `BearerInvariance`) says of a token text of any
  length that `valid_bearer_token` accepts it exactly if it is letters, at least
  one, and then padding: what the scan has seen is always letters and then
  padding, as many letters as `body_bytes`.
* **Evaluation sink** (`MetricsProofs`). `MetricsInvariance`: what is in the
  cache stays there, an initialized lock holds an exported value, no callback
  observes a metric twice. `ObservationsAreCounted` counts along: each step
  adds one request and one outstanding observation, or turns an outstanding
  observation into one exported.
* **Tracing** (`MetricsProofs`). What the runs check says something only when
  no request is under way, or of a scrape that is complete; neither is
  inductive. `TracingInvariance` says where each request is: it has updated the
  first `Updates(r)` families of `Registered`, a scrape has read the first
  `Reads(r)`, and the rest of its plan begins with the next one (`RestFacts`).
  Each family is the count of the requests that have updated it, under each
  label (`FamilyOK`). What a scrape has read of a family lies between the
  requests answered before it came and those counted by now (`ReadingOK`), and
  covers what an earlier scrape read of it and of the families after it
  (`CoverOK`), because whoever a later family counts the earlier ones count too
  (`CountedInOrder`). Then `CountedResponses`, `ObservedBatches` and
  `ConsistentScrapes` follow for any number of requests and scrapes and batches
  of any size; `ClassesAreBuckets` says that the labels of latencies and the
  buckets of sizes are cut at the same places.
* **Bundle loads** (`UploadProofs`). `LoadsInvariance`: a load has not received
  more than its limit or its archive, and one that is prepared passed every
  check of its stage under the settings in force (`LoadOK`); the bundle in force
  belongs to a load that was applied; the books balance after every step. From
  it `LoadsTypeCorrectness` (no buffer exceeds its limit), `ActiveBundleSafety`
  and `HonestCounters`: an end of a load either is counted once, or is one of
  those that the code does not count (`Uncounted`: panics, and two ends of
  uploads), and the lemmas from `AccountableAfterMove` to `CountedReloads`
  compare the sets of ended loads before and after.
* **Uploads** (`UploadProofs`). `UploadsInvariance` keeps with each request what
  was already checked of it: a request that reached its handler has a body
  that arrived, one that is past the permission check had permission, a document that is about to be applied is what its body means,
  and a request that is not answered belongs to the running process. From it
  `UploadTypeCorrectness`, `JustifiedAnswers` and the action property
  `PermittedUploads`.

Sums in these models (`Total`, `FailureTotal`, the checks in a set of batches)
are cardinalities of the sets of things that were counted. The library has
theorems about cardinalities, while a fold could be reasoned about only by
induction over data.

Induction over values and numbers is done with the least element of a set
(`LeastNumber`, from `WFMin`), because the induction theorems of the library
take an operator as parameter.

Only model-checked: the liveness properties (`PublishedDocumentsAreServed`,
`PublishedBundleIsServed`, `RequestsAreAnswered`, `PollsReturn`), which rest on
fairness and ENABLED and are out of the prover's reach. Every safety property
that a passing run checks, and each of the three refinements, is a theorem.

## 5. What is not modelled

* The contents of documents and decisions: data of external crates.
* Times (`loaded_at`, generations) and sizes in the metadata.
* The text of headers and addresses (parsing) and the hashing of tokens:
  `Admission` takes them as parsed or malformed.
* Poisoning of the cache mutexes and of the lock in `metrics.rs`: the code
  below them does not panic except out of memory.
* The reload counters of policies and schemas (single additions in a callback
  of the engine), the counters of refused contexts, the escaping of label
  values, build information, and the two encodings of metrics: formatting
  without state.
* Response models, OpenAPI, identifiers in logs, TLS and the wiring of routes:
  no shared state and no control.
* The extractors of actix-web beyond their answer: `UploadRequests` takes a
  body that exceeds the limit or breaks off as one step. A client that leaves
  during the extraction never gets an answer and changes nothing.
* Redirects, timeouts of the operating system and retries inside the HTTP
  client: a request fails, is answered, or is still under way.

## 6. Plan

Done: the store with `ActiveState`; the component fetchers; the bundle
fetcher; authorization with `AtomicAuthorize`; `StoreLock`, `Admission`,
`ActionMetrics` and `ParallelConfig`, with the theorems of section 4; then
`BundleLoads`, `UploadRequests`, `ContextLimits`, `RequestTracing` and
`BearerToken`.

The last theorems were the refinement of `StoreLock` to `SerialStore` and the
meaning of the context limits. What could follow:

1. The numbers of `ParallelConfig` for every processor count and every argument.
2. The sum in `ContextBytes`, compared with the number of bytes of the document.
3. `SerialStore` and `PolicyStore` describe the same methods with other data;
   one module with both views would make the step from the one to the other a
   theorem as well.
