---------------------------- MODULE BundleLoads ----------------------------
(***************************************************************************)
(* The way of a bundle archive into the server, by a poll of the bundle    *)
(* URL (src/src/fetcher/bundle.rs) or by an upload (upload_bundle in       *)
(* src/src/handlers.rs), under the settings that bundle_runtime_config     *)
(* accepted: the body in chunks under the size limits, validation and      *)
(* preparation in the blocking pool, the apply, and the counters of        *)
(* reloads and failures (ServiceMetrics in src/src/metrics.rs).            *)
(*                                                                         *)
(* BundleFetcher says what the applied bundles do to the store; here the   *)
(* store is the load that was applied last.  A load is used once.  An      *)
(* upload without permission, of another media type or to a store already  *)
(* poisoned ends before its body is read and is a stutter.                 *)
(***************************************************************************)
EXTENDS Naturals, FiniteSets, FiniteSetsExt

CONSTANTS
  MaxPolls,     \* bound on the polls of the bundle task, one after another
  Uploads,      \* uploads of permitted administrators
  Keys,         \* public keys, in key files that can be read
  BadKey,       \* a key file that cannot be read or conflicts with another
  Archives,     \* what the origin serves and administrators send
  Configs,      \* settings the server may be started with
  None

Signatures == Keys \cup {"none", "invalid"}

Archive == [ size : Nat \ {0}, uncompressed : Nat, signature : Signatures,
             flaw : {"none", "archive", "validation"}, schema : BOOLEAN ]

Config == [ bundle_url : BOOLEAN, component_urls : BOOLEAN, bundle_refresh : Nat,
            max_bundle_compressed_bytes : Nat, max_bundle_uncompressed_bytes : Nat,
            max_request_size : Nat, signature_policy : {"allow-unsigned", "required"},
            trusted_keys : SUBSET (Keys \cup {BadKey}), strict : BOOLEAN ]

Reasons == { "fetch", "size_limit", "archive", "validation", "signature_missing",
             "untrusted_key", "invalid_signature", "store" }

(* How a load ends: refused or unanswered ("failed"), its body broken off, *)
(* the store found poisoned ("closed"), its preparation panicked.  These   *)
(* four are the loads for which the code returns an error.                 *)
FailedEndings == {"failed", "broken_off", "closed", "panicked"}
Endings == FailedEndings \cup {"unchanged", "applied", "abandoned"}

Polls == 1 .. MaxPolls
Loads == Polls \cup Uploads

ASSUME LoadsAssumption ==
  /\ MaxPolls \in Nat /\ IsFiniteSet(Uploads) /\ Uploads \cap Nat = {}
  /\ BadKey \notin Keys /\ Keys \cap {"none", "invalid"} = {}
  /\ Archives \subseteq Archive /\ Configs \subseteq Config
  /\ None \notin Archive \cup Loads \cup Nat \cup Endings

VARIABLES
  config,       \* the arguments
  server,       \* starting, refused or serving
  load,         \* per load: step, archive, declared size, bytes received, outcome
  active,       \* the load whose bundle is in force
  archive_sha256, \* the archive that the task applied last
  poisoned,     \* whether the lock of the store is poisoned
  reloads,      \* bundle_reloads_total
  failures      \* bundle_reload_failures_total by reason

settingVars == <<config, server>>
metricVars == <<reloads, failures>>
storeVars == <<active, archive_sha256, poisoned>>
loadVars == <<settingVars, load, storeVars, metricVars>>

-----------------------------------------------------------------------------
(* Startup: bundle_runtime_config.                                         *)

ConfigAccepted ==
  /\ config.bundle_url => ~config.component_urls /\ config.bundle_refresh > 0
  /\ config.max_bundle_compressed_bytes > 0 /\ config.max_bundle_uncompressed_bytes > 0
  /\ BadKey \notin config.trusted_keys
  /\ config.signature_policy = "required" => config.trusted_keys # {}

Start ==
  /\ server = "starting"
  /\ server' = IF ConfigAccepted THEN "serving" ELSE "refused"
  /\ UNCHANGED <<config, load, storeVars, metricVars>>

-----------------------------------------------------------------------------
(* Limits and reasons.                                                     *)

Limit(l) ==
  IF l \in Polls THEN config.max_bundle_compressed_bytes
  ELSE Min({config.max_bundle_compressed_bytes, config.max_request_size})

(* Fault: a signature matters only where one is required.                  *)
SignatureFaultsIfRequired(a) ==
  IF config.signature_policy # "required" THEN {}
  ELSE IF a.signature = "none" THEN {"signature_missing"}
  ELSE IF a.signature \notin config.trusted_keys THEN {"untrusted_key"} ELSE {}

SignatureFaults(a) ==
  CASE a.signature = "none" ->
         IF config.signature_policy = "required" THEN {"signature_missing"} ELSE {}
    [] a.signature = "invalid" -> {"invalid_signature"}
    [] OTHER -> IF a.signature \in config.trusted_keys THEN {} ELSE {"untrusted_key"}

(* The library reports one fault, whichever it finds first.                *)
ValidationFaults(a) ==
  SignatureFaults(a)
  \cup (IF a.uncompressed > config.max_bundle_uncompressed_bytes THEN {"size_limit"} ELSE {})
  \cup ({a.flaw} \ {"none"})

(* A validated archive may still lack the schema of the strict mode.       *)
PreparationFaults(a) ==
  IF ValidationFaults(a) = {} /\ config.strict /\ ~a.schema THEN {"validation"}
  ELSE ValidationFaults(a)

-----------------------------------------------------------------------------
(* What a step does to its load and to the counters.                       *)

At(l, step) == load[l].step = step

Go(l, step) == load' = [load EXCEPT ![l].step = step]

(* The buffer is gone with the future; what was applied is remembered.     *)
End(l, outcome) ==
  load' = [load EXCEPT ![l] =
             [ step |-> "done", outcome |-> outcome, declared |-> None, received |-> 0,
               archive |-> IF outcome = "applied" THEN @.archive ELSE None ]]

RecordBundleFailure(reason) ==
  /\ failures' = [failures EXCEPT ![reason] = @ + 1]
  /\ UNCHANGED reloads

RecordBundleReload ==
  /\ reloads' = reloads + 1
  /\ UNCHANGED failures

Fail(l, outcome, reason) ==
  /\ End(l, outcome) /\ RecordBundleFailure(reason)
  /\ UNCHANGED <<settingVars, storeVars>>

FailUnrecorded(l, outcome) ==
  /\ End(l, outcome)
  /\ UNCHANGED <<settingVars, storeVars, metricVars>>

-----------------------------------------------------------------------------
(* The request.                                                            *)

(* The loop of spawn: the next poll starts when the last one returned.     *)
SendRequest(p) ==
  /\ server = "serving" /\ config.bundle_url
  /\ At(p, "idle") /\ \A earlier \in 1 .. p - 1 : At(earlier, "done")
  /\ Go(p, "requested")
  /\ UNCHANGED <<settingVars, storeVars, metricVars>>

(* No answer, or a status other than success.                              *)
RequestFails(p) == At(p, "requested") /\ Fail(p, "failed", "fetch")

NotModified(p) == At(p, "requested") /\ FailUnrecorded(p, "unchanged")

(* The headers are here: the answer of the origin, or a permitted upload.  *)
HeadersArrive(l) ==
  \/ l \in Polls /\ At(l, "requested")
  \/ l \in Uploads /\ At(l, "idle") /\ server = "serving" /\ ~poisoned

(* Fault: the declared size is taken at its word.                          *)
StartReadingUnchecked(l, a, declared) ==
  /\ HeadersArrive(l)
  /\ load' = [load EXCEPT ![l].step = "reading", ![l].archive = a, ![l].declared = declared]
  /\ UNCHANGED <<settingVars, storeVars, metricVars>>

StartReading(l, a, declared) ==
  /\ HeadersArrive(l) /\ (declared # None => declared <= Limit(l))
  /\ load' = [load EXCEPT ![l].step = "reading", ![l].archive = a, ![l].declared = declared]
  /\ UNCHANGED <<settingVars, storeVars, metricVars>>

DeclaredTooLarge(l, a) ==
  /\ HeadersArrive(l) /\ a.size > Limit(l)
  /\ Fail(l, "failed", "size_limit")

-----------------------------------------------------------------------------
(* The body: chunks that together make the archive, unless it breaks off.  *)

Missing(l) == load[l].archive.size - load[l].received

Receive(l, n) ==
  /\ At(l, "reading") /\ load[l].received + n <= Limit(l)
  /\ load' = [load EXCEPT ![l].received = @ + n]
  /\ UNCHANGED <<settingVars, storeVars, metricVars>>

ChunkTooLarge(l, n) ==
  /\ At(l, "reading") /\ load[l].received + n > Limit(l)
  /\ Fail(l, "failed", "size_limit")

(* Fault: the task does not count it either.                               *)
BodyBreaksOffUnrecorded(l) ==
  /\ At(l, "reading") /\ Missing(l) > 0
  /\ FailUnrecorded(l, "broken_off")

(* The task counts a body that breaks off, the upload handler does not.    *)
BodyBreaksOff(l) ==
  /\ At(l, "reading") /\ Missing(l) > 0
  /\ IF l \in Polls THEN Fail(l, "broken_off", "fetch") ELSE FailUnrecorded(l, "broken_off")

Complete(l) == At(l, "reading") /\ Missing(l) = 0

BodyUnchanged(p) ==
  /\ Complete(p) /\ load[p].archive = archive_sha256
  /\ FailUnrecorded(p, "unchanged")

(* The task asks the store for its mode; an upload asked before.           *)
ModeUnreadable(p) ==
  /\ Complete(p) /\ load[p].archive # archive_sha256 /\ poisoned
  /\ Fail(p, "closed", "store")

StartPreparing(l) ==
  /\ Complete(l)
  /\ l \in Polls => load[l].archive # archive_sha256 /\ ~poisoned
  /\ Go(l, "preparing")
  /\ UNCHANGED <<settingVars, storeVars, metricVars>>

-----------------------------------------------------------------------------
(* Preparation in the blocking pool.  It goes on, and counts, when nobody  *)
(* waits for it any more.                                                  *)

Preparing(l) == load[l].step \in {"preparing", "detached"}

Unless(l, outcome) == IF At(l, "detached") THEN "abandoned" ELSE outcome

PreparationFails(l) ==
  /\ Preparing(l)
  /\ \E reason \in PreparationFaults(load[l].archive) : RecordBundleFailure(reason)
  /\ End(l, Unless(l, "failed"))
  /\ UNCHANGED <<settingVars, storeVars>>

(* A failed load that nothing counts, of a poll as of an upload: the error *)
(* of the joined task goes to the loop, or to the client.                  *)
PreparationPanics(l) == Preparing(l) /\ FailUnrecorded(l, Unless(l, "panicked"))

PreparationSucceeds(l) ==
  /\ Preparing(l) /\ PreparationFaults(load[l].archive) = {}
  /\ IF At(l, "detached") THEN End(l, "abandoned") ELSE Go(l, "prepared")
  /\ UNCHANGED <<settingVars, storeVars, metricVars>>

-----------------------------------------------------------------------------
(* The apply under the write lock, and the counter after it.               *)

Apply(l) ==
  /\ At(l, "prepared") /\ ~poisoned
  /\ active' = l
  /\ Go(l, "applied")
  /\ UNCHANGED <<settingVars, archive_sha256, poisoned, metricVars>>

(* Fault: the task waits for a poisoned store to recover.                  *)
ApplyToPoisonedWaiting(l) ==
  /\ At(l, "prepared") /\ poisoned /\ l \in Uploads
  /\ FailUnrecorded(l, "closed")

(* The task counts a poisoned store, the upload handler does not.          *)
ApplyToPoisoned(l) ==
  /\ At(l, "prepared") /\ poisoned
  /\ IF l \in Polls THEN Fail(l, "closed", "store") ELSE FailUnrecorded(l, "closed")

Report(l) ==
  /\ At(l, "applied") /\ End(l, "applied")
  /\ archive_sha256' = IF l \in Polls THEN load[l].archive ELSE archive_sha256
  /\ RecordBundleReload
  /\ UNCHANGED <<settingVars, active, poisoned>>

-----------------------------------------------------------------------------
(* The environment.                                                        *)

(* The client of an upload leaves: its future is dropped where it waits.   *)
Abandon(u) ==
  \/ (At(u, "reading") \/ At(u, "prepared")) /\ FailUnrecorded(u, "abandoned")
  \/ /\ At(u, "preparing") /\ Go(u, "detached")
     /\ UNCHANGED <<settingVars, storeVars, metricVars>>

(* Some writer panics (StoreLock).                                         *)
Poison ==
  /\ server = "serving" /\ ~poisoned
  /\ poisoned' = TRUE
  /\ UNCHANGED <<settingVars, load, active, archive_sha256, metricVars>>

-----------------------------------------------------------------------------

LoadsInit ==
  /\ config \in Configs /\ server = "starting"
  /\ load = [l \in Loads |-> [ step |-> "idle", archive |-> None, declared |-> None,
                               received |-> 0, outcome |-> None ]]
  /\ active = None /\ archive_sha256 = None /\ poisoned = FALSE
  /\ reloads = 0 /\ failures = [reason \in Reasons |-> 0]

(* What only the network can do.                                           *)
Network(l) ==
  \/ l \in Polls /\ (RequestFails(l) \/ NotModified(l))
  \/ \E a \in Archives : DeclaredTooLarge(l, a) \/ \E d \in {a.size, None} : StartReading(l, a, d)
  \/ At(l, "reading") /\ \E n \in 1 .. Missing(l) : Receive(l, n) \/ ChunkTooLarge(l, n)
  \/ BodyBreaksOff(l)

(* What the server can do with what it has.                                *)
Work(l) ==
  \/ l \in Polls /\ (SendRequest(l) \/ BodyUnchanged(l) \/ ModeUnreadable(l))
  \/ StartPreparing(l)
  \/ PreparationFails(l)
  \/ PreparationPanics(l)
  \/ PreparationSucceeds(l)
  \/ Apply(l)
  \/ ApplyToPoisoned(l)
  \/ Report(l)

LoadsNext ==
  \/ Start
  \/ \E l \in Loads : Network(l) \/ Work(l)
  \/ \E u \in Uploads : Abandon(u)
  \/ Poison

LoadsSpec == LoadsInit /\ [][LoadsNext]_loadVars

(* The runtime schedules the task and the blocking pool.  Of the network   *)
(* nothing is assumed: the client has no timeout (bundle.rs:67), and a     *)
(* connection may stay open and silent.                                    *)
ServerFairness ==
  /\ WF_loadVars(Start)
  /\ \A p \in Polls : WF_loadVars(Work(p))

FairLoadsSpec == LoadsSpec /\ ServerFairness

-----------------------------------------------------------------------------
(* Properties.                                                             *)

Steps == { "idle", "requested", "reading", "preparing", "detached", "prepared", "applied", "done" }

(* "Compressed bodies are bounded while streaming and reserve at most the  *)
(* bounded declared Content-Length" (docs/performance.md): no load holds   *)
(* more bytes than its limit, reserved or received, in any chunking.       *)
BuffersAreBounded ==
  \A l \in Loads :
    /\ load[l].received <= Limit(l)
    /\ load[l].declared # None => load[l].declared <= Limit(l)

(* Types: a load has an outcome when it is done and an archive while it is *)
(* read, prepared and applied; only a running server loads anything, and   *)
(* its buffers stay within their limits (upload_bundle, handlers.rs:840).  *)
LoadsTypeOK ==
  /\ config \in Configs /\ server \in {"starting", "refused", "serving"}
  /\ load \in [Loads -> [ step : Steps, archive : Archives \cup {None}, declared : Nat \cup {None},
                          received : Nat, outcome : Endings \cup {None} ]]
  /\ active \in Loads \cup {None} /\ archive_sha256 \in Archives \cup {None}
  /\ poisoned \in BOOLEAN /\ reloads \in Nat /\ failures \in [Reasons -> Nat]
  /\ \A l \in Loads :
       /\ load[l].outcome # None <=> At(l, "done")
       /\ load[l].archive = None => load[l].step \in {"idle", "requested", "done"}
       /\ ~At(l, "idle") => server = "serving"
  /\ BuffersAreBounded

(* The bundle in force was acceptable under the settings (docs/config.md): *)
(* any signature that is present verifies against a configured key, the    *)
(* required policy wants one, strict mode wants a schema, and "bundle      *)
(* uploads obey the lower" of two limits.                                  *)
ActiveBundleIsAdmissible ==
  active # None =>
    LET a == load[active].archive IN
    /\ a.signature # "none" => a.signature \in config.trusted_keys
    /\ config.signature_policy = "required" => a.signature # "none"
    /\ config.strict => a.schema
    /\ a.flaw = "none"
    /\ a.size <= config.max_bundle_compressed_bytes
    /\ a.uncompressed <= config.max_bundle_uncompressed_bytes
    /\ active \in Uploads => a.size <= config.max_request_size

Ended(outcomes) == {l \in Loads : load[l].outcome \in outcomes}

(* The recorded failures, those of a reason numbered from one.             *)
RecordedFailures == UNION { {reason} \X (1 .. failures[reason]) : reason \in Reasons }

FailureTotal == Cardinality(RecordedFailures)

(* The failed loads that no line of the code counts: any whose preparation *)
(* panics (bundle.rs:211, handlers.rs:898), and uploads whose body breaks  *)
(* off (handlers.rs:856) or which find the store poisoned at the apply     *)
(* (handlers.rs:902).                                                      *)
Uncounted(l, outcome) ==
  outcome = "panicked" \/ (l \in Uploads /\ outcome \in {"broken_off", "closed"})

Accountable == {l \in Ended(FailedEndings) : ~Uncounted(l, load[l].outcome)}

(* "Successfully verified and atomically applied bundles" and "Failed      *)
(* bundle loads" (docs/api.md:93-94), as far as the code keeps to it: what *)
(* was applied is counted as a reload, once, and nothing else is; every    *)
(* failed load but the uncounted ones is counted as a failure, once; and   *)
(* beyond them only a load whose client left may be, because its           *)
(* preparation goes on and counts what it finds.                           *)
CountersAreHonest ==
  /\ reloads = Cardinality(Ended({"applied"}))
  /\ Cardinality(Accountable) <= FailureTotal
  /\ FailureTotal <= Cardinality(Accountable \cup Ended({"abandoned"}))

(* A poll whose body has arrived returns, whether its bundle is unchanged, *)
(* refused, prepared or applied, whatever panics and whoever poisons the   *)
(* store: the task then sends the next one (BundleFetcher::spawn).         *)
PollsReturn == \A p \in Polls : Complete(p) ~> At(p, "done")

=============================================================================
