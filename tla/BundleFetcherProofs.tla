------------------------ MODULE BundleFetcherProofs ------------------------
(***************************************************************************)
(* Proofs about BundleFetcher: the composition of the bundle task, bundle  *)
(* uploads and the store is a behaviour of the store, so that the store's  *)
(* theorems hold of it, and a 304 is only ever taken for an archive that   *)
(* was applied.                                                            *)
(***************************************************************************)
EXTENDS BundleFetcher, PolicyStoreProofs

(* In this composition no component URL is ever configured.                *)
OnlyBundleConfigured == \A kind \in Components : ~Configured(kind)

(* What the task remembers agrees with what it applied and confirmed; it   *)
(* remembers nothing before the server runs, which is what keeps the       *)
(* configuration of the source from undoing a load.                        *)
TaskInv ==
  /\ StoreInv
  /\ BundleTypeOK
  /\ OnlyBundleConfigured
  /\ fetcher.archive # None => serving
  /\ ValidatorsMeanApplied
  /\ LoadedMeansArchiveApplied
  /\ ActiveStateIsOneBundle

(* The store-level steps of the composition.                               *)
LEMMA BundleStepIsStoreStep ==
  BundleTypeOK /\ OnlyBundleConfigured /\ [BundleNext]_bundleVars => [Next]_vars
<1> SUFFICES ASSUME BundleTypeOK, OnlyBundleConfigured, BundleNext
             PROVE  Next \/ UNCHANGED vars
  BY DEF bundleVars
<1>1. ASSUME GetModified \/ BodyFails \/ BodyUnchanged \/ PrepareFails \/ Prepare
      PROVE  UNCHANGED vars
  BY <1>1 DEF GetModified, BodyFails, BodyUnchanged, PrepareFails, Prepare
<1>2. CASE Apply
  <2>1. ArchiveOf[fetcher.response] \in Bundles
    BY <1>2 DEF Apply, At, BundleTypeOK, Preparable
  <2>2. LoadBundle(ArchiveOf[fetcher.response])
    BY <1>2 DEF Apply
  <2>3. QED
    BY <2>1, <2>2 DEF Next
<1>3. ASSUME NEW u \in Uploaders, NEW b \in Bundles, UploadPrepare(u, b)
      PROVE  UNCHANGED vars
  BY <1>3 DEF UploadPrepare
<1>4. ASSUME NEW u \in Uploaders, UploadApply(u)
      PROVE  Next
  <2>1. upload[u] \in Bundles /\ UploadBundle(upload[u])
    BY <1>4 DEF UploadApply, BundleTypeOK
  <2>2. QED
    BY <2>1 DEF Next
<1>5. ASSUME NEW tag \in Tags, Publish(tag)
      PROVE  UNCHANGED vars
  BY <1>5 DEF Publish
<1>6. CASE Startup
  <2>1. CASE StartServing
    BY <2>1 DEF Next
  <2>2. ASSUME NEW url \in Endpoints, ConfigureRemoteSource("bundle", url)
        PROVE  Next
    <3>1. ConfigurationAllowed("bundle") /\ "bundle" \in RemoteSourceKind
      BY DEF OnlyBundleConfigured, ConfigurationAllowed, RemoteSourceKind
    <3>2. QED
      BY <2>2, <3>1 DEF Next
  <2>3. QED
    BY <1>6, <2>1, <2>2 DEF Startup
<1>7. QED
  BY <1>1, <1>2, <1>3, <1>4, <1>5, <1>6 DEF BundleNext, Finish

-----------------------------------------------------------------------------
(* Publishing a prepared bundle installs exactly that bundle.              *)
LEMMA AppliedStateIsOneBundle ==
  ASSUME NEW b \in Bundles, NEW source, ApplyPreparedBundle(PreparedBundle(b, source))
  PROVE  ActiveStateIsOneBundle'
<1>1. b = [policies |-> b.policies, labels |-> b.labels, schema |-> b.schema]
  BY BundleAssumption
<1>2. ReportedState' = b
  BY <1>1 DEF ReportedState, ApplyPreparedBundle, PreparedBundle
<1>3. /\ bundle' = b
      /\ engine'.dsl = b.policies /\ engine'.schema = b.schema
      /\ engine'.labelers = Labelers(b.labels)
  BY DEF ApplyPreparedBundle, PreparedBundle
<1>4. QED
  BY <1>2, <1>3 DEF ActiveStateIsOneBundle, Labelers

(* The steps of the task that only prepare leave the store alone.          *)
LEMMA PollKeepsInv ==
  ASSUME TaskInv, GetModified \/ BodyFails \/ BodyUnchanged \/ PrepareFails \/ Prepare
  PROVE  BundleTypeOK' /\ (fetcher'.archive # None => serving') /\ ValidatorsMeanApplied'
         /\ fetcher'.archive = fetcher.archive /\ UNCHANGED vars
<1> USE TagAssumption DEF TaskInv, BundleTypeOK, ValidatorsMeanApplied, At, environment, Return
<1>1. CASE GetModified
  BY <1>1 DEF GetModified, vars
<1>2. CASE BodyFails
  BY <1>2 DEF BodyFails, vars
<1>3. CASE BodyUnchanged
  BY <1>3 DEF BodyUnchanged, ResponseValidators, vars
<1>4. CASE PrepareFails
  BY <1>4 DEF PrepareFails, vars
<1>5. CASE Prepare
  BY <1>5 DEF Prepare, Preparable, BundleAccepted, Strict, vars, startupVars
<1>6. QED
  BY <1>1, <1>2, <1>3, <1>4, <1>5

(* The invariant holds before any source is configured.                    *)
LEMMA BundleInitInv == BundleInit => TaskInv
<1> SUFFICES ASSUME BundleInit PROVE TaskInv
  OBVIOUS
<1>1. StoreInv
  BY InitInv DEF BundleInit
<1>2. BundleTypeOK
  BY TagAssumption DEF BundleInit, BundleTypeOK
<1>3. OnlyBundleConfigured
  BY DEF BundleInit, Init, OnlyBundleConfigured, Configured, Components, RemoteSourceKind
<1>4. ~remote_loads["bundle"].loaded
  BY DEF BundleInit, Init, RemoteSourceKind
<1>5. fetcher.archive = None /\ fetcher.etag = None
  BY DEF BundleInit
<1>6. ActiveStateIsOneBundle
  BY DEF BundleInit, Init, ActiveStateIsOneBundle
<1>7. QED
  BY <1>1, <1>2, <1>3, <1>4, <1>5, <1>6 DEF TaskInv, ValidatorsMeanApplied, LoadedMeansArchiveApplied

(* A load or an upload publishes a bundle and configures nothing.          *)
LEMMA BundleUpdateKeepsConfiguration ==
  ASSUME TypeOK, OnlyBundleConfigured,
         UNCHANGED remote_loads \/ MarkRemoteSourceLoaded("bundle")
  PROVE  OnlyBundleConfigured'
<1>1. \A kind \in Components : remote_loads'[kind] = remote_loads[kind]
  BY DEF TypeOK, MarkRemoteSourceLoaded, Components, RemoteSourceKind
<1>2. QED
  BY <1>1 DEF OnlyBundleConfigured, Configured

(* The invariant is inductive.                                             *)
LEMMA BundleNextKeepsInv == TaskInv /\ [BundleNext]_bundleVars => TaskInv'
<1> SUFFICES ASSUME TaskInv, [BundleNext]_bundleVars PROVE TaskInv'
  OBVIOUS
<1>1. StoreInv'
  BY BundleStepIsStoreStep, NextKeepsInv DEF TaskInv
<1>2. TypeOK /\ fetcher \in [ step : {"sleep", "body", "prepared"}, etag : Tags \cup {None},
                             archive : Bundles \cup {None}, response : Tags \cup {None} ]
  BY DEF TaskInv, StoreInv, BundleTypeOK
<1>3. ASSUME UNCHANGED vars
      PROVE  /\ OnlyBundleConfigured' /\ ActiveStateIsOneBundle'
             /\ fetcher'.archive = fetcher.archive => LoadedMeansArchiveApplied'
  BY <1>3 DEF TaskInv, vars, partVars, startupVars, OnlyBundleConfigured, Configured, ActiveStateIsOneBundle,
     ReportedState, LoadedMeansArchiveApplied, Labelers
<1>4. ASSUME GetModified \/ BodyFails \/ BodyUnchanged \/ PrepareFails \/ Prepare
      PROVE  TaskInv'
  BY <1>1, <1>3, <1>4, PollKeepsInv DEF TaskInv
<1>5. CASE Apply
  <2> DEFINE b == ArchiveOf[fetcher.response]
  <2>1. b \in Bundles /\ fetcher.response \in Tags
    BY <1>5, TagAssumption DEF Apply, At, TaskInv, BundleTypeOK, Preparable
  <2>2. /\ serving' = serving /\ serving
        /\ MarkRemoteSourceLoaded("bundle")
        /\ ApplyPreparedBundle(PreparedBundle(b, remote_loads["bundle"].configuration))
        /\ UNCHANGED <<environment, upload, schema_validation_mode>>
    BY <1>5 DEF Apply, At, LoadBundle, unchangedByUpdates, startupVars
  <2>3. PICK etag \in ResponseValidators :
          fetcher' = [step |-> "sleep", etag |-> etag, archive |-> b, response |-> None]
    BY <1>5 DEF Apply, Return
  <2>4. BundleTypeOK'
    BY <2>1, <2>2, <2>3, TagAssumption DEF TaskInv, BundleTypeOK, ResponseValidators, environment
  <2>5. ValidatorsMeanApplied'
    BY <2>3 DEF ValidatorsMeanApplied, ResponseValidators
  <2>6. remote_loads'["bundle"].loaded
    BY <1>2, <2>2 DEF MarkRemoteSourceLoaded, TypeOK, RemoteSourceKind
  <2>7. LoadedMeansArchiveApplied'
    BY <2>1, <2>3, <2>6, TagAssumption DEF LoadedMeansArchiveApplied
  <2>8. OnlyBundleConfigured'
    BY <1>2, <2>2, BundleUpdateKeepsConfiguration DEF TaskInv
  <2>9. ActiveStateIsOneBundle'
    BY <2>1, <2>2, AppliedStateIsOneBundle
  <2>10. QED
    BY <1>1, <2>2, <2>4, <2>5, <2>7, <2>8, <2>9 DEF TaskInv
<1>6. ASSUME NEW u \in Uploaders, NEW b \in Bundles, UploadPrepare(u, b)
      PROVE  TaskInv'
  <2>1. UNCHANGED <<vars, environment, fetcher>>
    BY <1>6 DEF UploadPrepare
  <2>2. BundleTypeOK'
    BY <1>6, <2>1 DEF UploadPrepare, TaskInv, BundleTypeOK, environment, Preparable, BundleAccepted, Strict,
       vars, startupVars
  <2>3. QED
    BY <1>1, <1>3, <2>1, <2>2 DEF TaskInv, ValidatorsMeanApplied, vars
<1>7. ASSUME NEW u \in Uploaders, UploadApply(u)
      PROVE  TaskInv'
  <2>1. /\ upload[u] \in Bundles
        /\ ApplyPreparedBundle(PreparedBundle(upload[u], NoSource))
        /\ UNCHANGED <<serving, schema_validation_mode, remote_loads, environment, fetcher>>
    BY <1>7 DEF UploadApply, UploadBundle, unchangedByUpdates, startupVars, TaskInv, BundleTypeOK
  <2>2. BundleTypeOK'
    BY <1>7, <2>1 DEF UploadApply, TaskInv, BundleTypeOK, environment, Preparable, BundleAccepted, Strict
  <2>3. OnlyBundleConfigured'
    BY <1>2, <2>1, BundleUpdateKeepsConfiguration DEF TaskInv
  <2>4. ActiveStateIsOneBundle'
    BY <2>1, AppliedStateIsOneBundle
  <2>5. QED
    BY <1>1, <2>1, <2>2, <2>3, <2>4 DEF TaskInv, ValidatorsMeanApplied, LoadedMeansArchiveApplied
<1>8. ASSUME NEW tag \in Tags, Publish(tag)
      PROVE  TaskInv'
  <2>1. UNCHANGED <<vars, fetcher, upload>>
    BY <1>8 DEF Publish
  <2>2. BundleTypeOK'
    BY <1>8, <2>1, TagAssumption DEF Publish, TaskInv, BundleTypeOK, Preparable, BundleAccepted, Strict,
       vars, startupVars
  <2>3. QED
    BY <1>1, <1>3, <2>1, <2>2 DEF TaskInv, ValidatorsMeanApplied, vars
<1>9. CASE Startup
  <2>1. /\ UNCHANGED <<environment, fetcher, upload, schema_validation_mode>>
        /\ serving => serving'
    BY <1>9 DEF Startup, StartServing, ConfigureRemoteSource, startupVars
  <2>2. BundleTypeOK'
    BY <2>1 DEF TaskInv, BundleTypeOK, environment, Preparable, BundleAccepted, Strict
  <2>3. CASE StartServing
    <3>1. UNCHANGED <<remote_loads, partVars>>
      BY <2>3 DEF StartServing
    <3>2. QED
      BY <1>1, <2>1, <2>2, <3>1 DEF TaskInv, ValidatorsMeanApplied, LoadedMeansArchiveApplied,
         OnlyBundleConfigured, Configured, ActiveStateIsOneBundle, ReportedState, Labelers, partVars
  <2>4. ASSUME NEW url \in Endpoints, ConfigureRemoteSource("bundle", url)
        PROVE  TaskInv'
    <3>1. /\ fetcher.archive = None
          /\ remote_loads' = [remote_loads EXCEPT !["bundle"] = [configuration |-> url, loaded |-> FALSE]]
          /\ UNCHANGED <<policies, labels, schema, engine, bundle>>
      BY <2>4 DEF ConfigureRemoteSource, TaskInv
    <3>2. OnlyBundleConfigured'
      <4>1. \A kind \in Components : remote_loads'[kind] = remote_loads[kind]
        BY <1>2, <3>1 DEF TypeOK, Components, RemoteSourceKind
      <4>2. QED
        BY <4>1 DEF TaskInv, OnlyBundleConfigured, Configured
    <3>3. LoadedMeansArchiveApplied'
      BY <1>2, <2>1, <3>1 DEF LoadedMeansArchiveApplied, TypeOK, RemoteSourceKind
    <3>4. ActiveStateIsOneBundle'
      BY <3>1 DEF TaskInv, ActiveStateIsOneBundle, ReportedState, Labelers
    <3>5. QED
      BY <1>1, <2>1, <2>2, <3>2, <3>3, <3>4 DEF TaskInv, ValidatorsMeanApplied
  <2>5. QED
    BY <1>9, <2>3, <2>4 DEF Startup
<1>10. CASE UNCHANGED bundleVars
  <2>1. BundleTypeOK'
    BY <1>10 DEF bundleVars, vars, startupVars, TaskInv, BundleTypeOK, Preparable, BundleAccepted, Strict
  <2>2. QED
    BY <1>1, <1>3, <1>10, <2>1 DEF bundleVars, TaskInv, ValidatorsMeanApplied, vars
<1>11. QED
  BY <1>4, <1>5, <1>6, <1>7, <1>8, <1>9, <1>10 DEF BundleNext, Finish

(* Every reachable state satisfies the invariant.                          *)
THEOREM TaskInvariance == BundleSpec => []TaskInv
<1>1. QED
  BY BundleInitInv, BundleNextKeepsInv, PTL DEF BundleSpec

(* The task of bundle.rs and the uploads stay within their types: the task *)
(* has a response in hand only while it works on it.                       *)
THEOREM BundleTypeCorrectness == BundleSpec => []BundleTypeOK
<1>1. TaskInv => BundleTypeOK
  BY DEF TaskInv
<1>2. QED
  BY <1>1, TaskInvariance, PTL

(* The task, the uploads and the store together do nothing that the store  *)
(* alone could not do: all theorems of the store hold in bundle URL mode.  *)
THEOREM BundleModeImplementsStore == BundleSpec => Spec
<1>1. BundleInit => Init
  BY DEF BundleInit
<1>2. TaskInv /\ [BundleNext]_bundleVars => [Next]_vars
  BY BundleStepIsStoreStep DEF TaskInv
<1>3. QED
  BY <1>1, <1>2, TaskInvariance, PTL DEF BundleSpec, Spec

(* A 304 Not Modified can only be taken for an archive that was applied:   *)
(* check_and_update adopts validators only after apply_prepared_bundle.    *)
THEOREM ValidatorSafety == BundleSpec => []ValidatorsMeanApplied
<1>1. TaskInv => ValidatorsMeanApplied
  BY DEF TaskInv
<1>2. QED
  BY <1>1, TaskInvariance, PTL

(* Only the application of an archive of the bundle URL confirms its load. *)
THEOREM LoadConfirmation == BundleSpec => []LoadedMeansArchiveApplied
<1>1. TaskInv => LoadedMeansArchiveApplied
  BY DEF TaskInv
<1>2. QED
  BY <1>1, TaskInvariance, PTL

(* However preparations, uploads and polls interleave, what is served is   *)
(* the state of one bundle and never parts of two.                         *)
THEOREM OneBundleAtATime == BundleSpec => []ActiveStateIsOneBundle
<1>1. TaskInv => ActiveStateIsOneBundle
  BY DEF TaskInv
<1>2. QED
  BY <1>1, TaskInvariance, PTL

-----------------------------------------------------------------------------
(* Only an apply of the task gives the policies a source, and it remembers *)
(* the archive in the same step; every upload takes the source away.       *)
LEMMA BundleNextKeepsServed ==
  TaskInv /\ RememberedArchiveIsServed /\ [BundleNext]_bundleVars => RememberedArchiveIsServed'
<1> SUFFICES ASSUME TaskInv, RememberedArchiveIsServed, [BundleNext]_bundleVars,
                    policies'.source # NoSource
             PROVE  bundle' = fetcher'.archive
  BY DEF RememberedArchiveIsServed
<1>1. ASSUME UNCHANGED <<policies, bundle>>, fetcher'.archive = fetcher.archive
      PROVE  bundle' = fetcher'.archive
  BY <1>1 DEF RememberedArchiveIsServed
<1>2. ASSUME GetModified \/ BodyFails \/ BodyUnchanged \/ PrepareFails \/ Prepare
      PROVE  UNCHANGED <<policies, bundle>> /\ fetcher'.archive = fetcher.archive
  BY <1>2, PollKeepsInv DEF vars, partVars
<1>3. CASE Apply
  BY <1>3 DEF Apply, LoadBundle, ApplyPreparedBundle, PreparedBundle, Return
<1>4. ASSUME NEW u \in Uploaders, UploadApply(u)
      PROVE  FALSE
  BY <1>4 DEF UploadApply, UploadBundle, ApplyPreparedBundle, PreparedBundle
<1>5. ASSUME \/ \E u \in Uploaders, b \in Bundles : UploadPrepare(u, b)
             \/ \E tag \in Tags : Publish(tag)
             \/ UNCHANGED bundleVars
      PROVE  UNCHANGED <<policies, bundle, fetcher>>
  BY <1>5 DEF UploadPrepare, Publish, bundleVars, vars, partVars
<1>6. CASE Startup
  BY <1>1, <1>6 DEF Startup, StartServing, ConfigureRemoteSource, partVars
<1>7. QED
  BY <1>1, <1>2, <1>3, <1>4, <1>5, <1>6 DEF BundleNext, Finish

(* An archive that check_and_update skips by its digest is in force,       *)
(* unless an upload has replaced it.                                       *)
THEOREM RememberedArchiveInForce == BundleSpec => []RememberedArchiveIsServed
<1>1. BundleInit => RememberedArchiveIsServed
  BY DEF BundleInit, Init, RememberedArchiveIsServed
<1>2. QED
  BY <1>1, BundleNextKeepsServed, TaskInvariance, PTL DEF BundleSpec

=============================================================================
