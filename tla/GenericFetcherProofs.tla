------------------------ MODULE GenericFetcherProofs ------------------------
(***************************************************************************)
(* Proofs about GenericFetcher: whatever the origins, the polls and the    *)
(* administrators do, the store only makes its own steps, and a source     *)
(* counts as loaded exactly when one of its bodies was applied.            *)
(***************************************************************************)
EXTENDS GenericFetcher, PolicyStoreProofs

(* What the tasks remember and what the store says of their sources.  The  *)
(* tasks remember nothing before the server runs, so that the              *)
(* configuration of a source never undoes a load.                          *)
PollInv ==
  /\ StoreInv
  /\ FetchTypeOK
  /\ ~bundle_url_mode
  /\ ~serving => \A kind \in Sources : fetcher[kind].hash = None
  /\ LoadedMeansBodyApplied

(* The store-level steps of the composition.                               *)
LEMMA FetchStepIsStoreStep ==
  FetchTypeOK /\ ~bundle_url_mode /\ [FetchNext]_fetchVars => [Next]_vars
<1> SUFFICES ASSUME FetchTypeOK, ~bundle_url_mode, FetchNext
             PROVE  Next \/ UNCHANGED vars
  BY DEF fetchVars
<1>1. ASSUME NEW kind \in Sources,
             \/ HeadModified(kind) \/ HeadOtherStatus(kind) \/ GetSucceeds(kind)
             \/ GetFails(kind) \/ BodyUnchanged(kind) \/ RejectBody(kind)
      PROVE  UNCHANGED vars
  BY <1>1 DEF HeadModified, HeadOtherStatus, GetSucceeds, GetFails, BodyUnchanged, RejectBody
<1>2. ASSUME NEW kind \in Sources, ApplyBody(kind)
      PROVE  Next
  <2>1. fetcher[kind].body \in Documents(kind)
    BY <1>2 DEF ApplyBody, At, FetchTypeOK
  <2>2. ApplySuccessfulResponse(kind, fetcher[kind].body)
    BY <1>2 DEF ApplyBody
  <2>3. CASE kind = "policies" /\ LoadPolicies(fetcher[kind].body)
    BY <2>1, <2>3 DEF Documents, Next
  <2>4. CASE kind = "labels" /\ LoadLabels(fetcher[kind].body)
    BY <2>1, <2>4 DEF Documents, Next
  <2>5. CASE kind = "schema" /\ LoadSchema(fetcher[kind].body)
    BY <2>1, <2>5 DEF Documents, Next
  <2>6. QED
    BY <2>2, <2>3, <2>4, <2>5 DEF ApplySuccessfulResponse
<1>3. ASSUME NEW kind \in Sources, NEW d \in Documents(kind), Publish(kind, d)
      PROVE  UNCHANGED vars
  BY <1>3 DEF Publish
<1>4. CASE Startup
  <2>1. CASE StartServing
    BY <2>1 DEF Next
  <2>2. ASSUME NEW kind \in Sources, NEW url \in Endpoints, ConfigureRemoteSource(kind, url)
        PROVE  Next
    <3>1. kind \in RemoteSourceKind /\ ConfigurationAllowed(kind)
      BY SourcesAssumption DEF RemoteSourceKind, Components, ConfigurationAllowed
    <3>2. QED
      BY <2>2, <3>1 DEF Next
  <2>3. QED
    BY <1>4, <2>1, <2>2 DEF Startup
<1>5. CASE Upload
  BY <1>5 DEF Upload, Next
<1>6. QED
  BY <1>1, <1>2, <1>3, <1>4, <1>5 DEF FetchNext, Poll

(* What one task may remember.                                             *)
TaskOK(kind, t) ==
  /\ t \in [step : {"sleep", "get", "body"}, etag : Remembered, hash : Remembered, body : Remembered]
  /\ {t.etag, t.hash} \subseteq Documents(kind) \cup {None}
  /\ IF t.step = "body" THEN t.body \in Documents(kind) ELSE t.body = None

(* A task that moves within these bounds keeps all tasks within them.      *)
LEMMA OneTaskMoves ==
  ASSUME FetchTypeOK, NEW kind \in Sources, NEW t, TaskOK(kind, t),
         fetcher' = [fetcher EXCEPT ![kind] = t], UNCHANGED environment
  PROVE  FetchTypeOK' /\ \A k \in Sources : fetcher'[k] = IF k = kind THEN t ELSE fetcher[k]
  BY DEF FetchTypeOK, TaskOK, environment

(* Every document that can be published for a source can be remembered.    *)
LEMMA DocumentsAreRemembered ==
  ASSUME NEW kind \in Sources
  PROVE  Documents(kind) \subseteq Remembered
<1>1. CASE kind = "policies"
  BY <1>1 DEF Documents, Remembered
<1>2. CASE kind = "labels"
  BY <1>2 DEF Documents, Remembered
<1>3. CASE kind = "schema"
  BY <1>3 DEF Documents, Remembered
<1>4. QED
  BY <1>1, <1>2, <1>3, SourcesAssumption DEF Components

(* A poll that ends without an update, or is not yet there, changes only   *)
(* what its own task remembers, and not the hash.                          *)
LEMMA QuietPollKeepsInv ==
  ASSUME FetchTypeOK, NEW kind \in Sources,
         \/ HeadModified(kind) \/ HeadOtherStatus(kind) \/ GetSucceeds(kind)
         \/ GetFails(kind) \/ BodyUnchanged(kind) \/ RejectBody(kind)
  PROVE  /\ FetchTypeOK' /\ UNCHANGED <<vars, environment>>
         /\ \A k \in Sources : fetcher'[k].hash = fetcher[k].hash
<1> DEFINE old == fetcher[kind]
<1>1. origin[kind] \in Documents(kind) /\ origin[kind] \in Remembered /\ TaskOK(kind, old)
  BY DocumentsAreRemembered DEF FetchTypeOK, TaskOK
<1>2. \E t : /\ fetcher' = [fetcher EXCEPT ![kind] = t]
             /\ TaskOK(kind, t) /\ t.hash = old.hash
             /\ UNCHANGED <<vars, environment>>
  <2> USE DEF At, TaskOK
  <2>1. CASE HeadModified(kind)
    <3>1. fetcher' = [fetcher EXCEPT ![kind] = [old EXCEPT !.step = "get", !.etag = Validator(kind, origin[kind])]]
      BY <2>1 DEF HeadModified
    <3>2. Validator(kind, origin[kind]) \in (Documents(kind) \cup {None}) \cap Remembered
      BY <1>1 DEF Validator, Remembered
    <3>3. QED
      BY <1>1, <2>1, <3>1, <3>2 DEF HeadModified
  <2>2. CASE HeadOtherStatus(kind)
    <3>1. fetcher' = [fetcher EXCEPT ![kind] = [old EXCEPT !.step = "get"]]
      BY <2>2 DEF HeadOtherStatus
    <3>2. QED
      BY <1>1, <2>2, <3>1 DEF HeadOtherStatus
  <2>3. CASE GetSucceeds(kind)
    <3>1. fetcher' = [fetcher EXCEPT ![kind] = [old EXCEPT !.step = "body", !.body = origin[kind]]]
      BY <2>3 DEF GetSucceeds
    <3>2. QED
      BY <1>1, <2>3, <3>1 DEF GetSucceeds
  <2>4. CASE GetFails(kind)
    <3>1. fetcher' = [fetcher EXCEPT ![kind] = [old EXCEPT !.step = "sleep"]]
      BY <2>4 DEF GetFails
    <3>2. QED
      BY <1>1, <2>4, <3>1 DEF GetFails
  <2>5. CASE BodyUnchanged(kind) \/ RejectBody(kind)
    <3>1. fetcher' = [fetcher EXCEPT ![kind] = [old EXCEPT !.step = "sleep", !.hash = old.hash, !.body = None]]
      BY <2>5 DEF BodyUnchanged, RejectBody, Sleep
    <3>2. QED
      BY <1>1, <2>5, <3>1 DEF BodyUnchanged, RejectBody, Remembered
  <2>6. QED
    BY <2>1, <2>2, <2>3, <2>4, <2>5
<1> HIDE DEF old
<1>3. QED
  BY <1>2, OneTaskMoves DEF old

(* An applied body is remembered and its source is loaded, no other.       *)
LEMMA ApplyBodyKeepsInv ==
  ASSUME PollInv, NEW kind \in Sources, ApplyBody(kind)
  PROVE  /\ FetchTypeOK' /\ LoadedMeansBodyApplied'
         /\ UNCHANGED <<serving, bundle_url_mode>> /\ serving
<1> DEFINE old == fetcher[kind]
           d == old.body
<1>1. /\ d \in Documents(kind) /\ d \in Remembered /\ d # None
      /\ TypeOK /\ FetchTypeOK /\ TaskOK(kind, old) /\ old.step = "body"
      /\ kind \in RemoteSourceKind
  <2>1. FetchTypeOK /\ TypeOK /\ old.step = "body"
    BY DEF PollInv, StoreInv, ApplyBody, At
  <2>2. TaskOK(kind, old) /\ d \in Documents(kind)
    BY <2>1 DEF FetchTypeOK, TaskOK
  <2>3. d # None /\ kind \in RemoteSourceKind
    BY <2>2, SourcesAssumption DEF Documents, Components, RemoteSourceKind
  <2>4. QED
    BY <2>1, <2>2, <2>3, DocumentsAreRemembered
<1>2. /\ MarkRemoteSourceLoaded(kind) /\ serving
      /\ UNCHANGED <<serving, bundle_url_mode, environment>>
  BY DEF ApplyBody, ApplySuccessfulResponse, LoadPolicies, LoadLabels, LoadSchema, unchangedByUpdates
<1>3. fetcher' = [fetcher EXCEPT ![kind] = [old EXCEPT !.step = "sleep", !.hash = d, !.body = None]]
  BY DEF ApplyBody, Sleep
<1>4. TaskOK(kind, [old EXCEPT !.step = "sleep", !.hash = d, !.body = None])
  BY <1>1 DEF TaskOK, Remembered
<1>5. /\ FetchTypeOK'
      /\ \A k \in Sources : fetcher'[k].hash = IF k = kind THEN d ELSE fetcher[k].hash
  <2> DEFINE t == [old EXCEPT !.step = "sleep", !.hash = d, !.body = None]
  <2>1. t.hash = d
    BY <1>1 DEF TaskOK
  <2> HIDE DEF t
  <2>2. FetchTypeOK' /\ \A k \in Sources : fetcher'[k] = IF k = kind THEN t ELSE fetcher[k]
    BY <1>1, <1>2, <1>3, <1>4, OneTaskMoves DEF t
  <2>3. QED
    BY <2>1, <2>2
<1>6. \A k \in Sources : remote_loads'[k].loaded = IF k = kind THEN TRUE ELSE remote_loads[k].loaded
  BY <1>1, <1>2, SourcesAssumption DEF MarkRemoteSourceLoaded, TypeOK, RemoteSourceKind
<1> HIDE DEF old, d
<1>7. LoadedMeansBodyApplied'
  BY <1>1, <1>5, <1>6 DEF LoadedMeansBodyApplied, PollInv
<1>8. QED
  BY <1>2, <1>5, <1>7

(* The invariant holds of new tasks.                                       *)
LEMMA FetchInitInv == FetchInit => PollInv
<1> SUFFICES ASSUME FetchInit PROVE PollInv
  OBVIOUS
<1>1. StoreInv /\ ~bundle_url_mode
  BY InitInv DEF FetchInit, Init
<1>2. \A kind \in Sources : ~remote_loads[kind].loaded
  BY SourcesAssumption DEF FetchInit, Init, RemoteSourceKind
<1>3. \A kind \in Sources : fetcher[kind].hash = None
  BY DEF FetchInit
<1>4. FetchTypeOK
  BY SourcesAssumption DEF FetchInit, FetchTypeOK, Remembered
<1>5. QED
  BY <1>1, <1>2, <1>3, <1>4 DEF PollInv, LoadedMeansBodyApplied

(* The invariant is inductive.                                             *)
LEMMA FetchNextKeepsInv == PollInv /\ [FetchNext]_fetchVars => PollInv'
<1> SUFFICES ASSUME PollInv, [FetchNext]_fetchVars PROVE PollInv'
  OBVIOUS
<1>1. StoreInv'
  BY FetchStepIsStoreStep, NextKeepsInv DEF PollInv
<1>2. FetchTypeOK /\ TypeOK
  BY DEF PollInv, StoreInv
<1>3. ASSUME NEW kind \in Sources,
             \/ HeadModified(kind) \/ HeadOtherStatus(kind) \/ GetSucceeds(kind)
             \/ GetFails(kind) \/ BodyUnchanged(kind) \/ RejectBody(kind)
      PROVE  PollInv'
  <2>1. /\ FetchTypeOK' /\ UNCHANGED vars
        /\ \A k \in Sources : fetcher'[k].hash = fetcher[k].hash
    BY <1>2, <1>3, QuietPollKeepsInv
  <2>2. QED
    BY <1>1, <2>1 DEF PollInv, LoadedMeansBodyApplied, vars
<1>4. ASSUME NEW kind \in Sources, ApplyBody(kind)
      PROVE  PollInv'
  BY <1>1, <1>4, ApplyBodyKeepsInv DEF PollInv
<1>5. ASSUME NEW kind \in Sources, NEW d \in Documents(kind), Publish(kind, d)
      PROVE  PollInv'
  <2>1. UNCHANGED <<vars, fetcher, allow_upload>>
    BY <1>5 DEF Publish
  <2>2. origin' = [origin EXCEPT ![kind] = d] /\ publications' \in 0 .. MaxPublications
    BY <1>2, <1>5, SourcesAssumption DEF Publish, FetchTypeOK
  <2>3. origin' \in [Sources -> PolicyTexts \cup LabelTexts \cup SchemaTexts]
    <3>1. d \in PolicyTexts \cup LabelTexts \cup SchemaTexts
      <4>1. kind = "policies" \/ kind = "labels" \/ kind = "schema"
        BY SourcesAssumption DEF Components
      <4>2. QED
        BY <1>5, <4>1 DEF Documents
    <3>2. QED
      BY <1>2, <2>2, <3>1 DEF FetchTypeOK
  <2>4. \A k \in Sources : origin'[k] \in Documents(k)
    BY <1>2, <1>5, <2>2 DEF FetchTypeOK
  <2>5. FetchTypeOK'
    BY <1>2, <2>1, <2>2, <2>3, <2>4 DEF FetchTypeOK
  <2>6. QED
    BY <1>1, <2>1, <2>5 DEF PollInv, LoadedMeansBodyApplied, vars
<1>6. CASE Startup
  <2>1. UNCHANGED <<environment, fetcher>>
    BY <1>6 DEF Startup
  <2>2. FetchTypeOK'
    BY <1>2, <2>1 DEF FetchTypeOK, environment
  <2>3. CASE StartServing
    <3>1. serving' /\ UNCHANGED <<bundle_url_mode, remote_loads>>
      BY <2>3 DEF StartServing
    <3>2. QED
      BY <1>1, <2>1, <2>2, <3>1 DEF PollInv, LoadedMeansBodyApplied
  <2>4. ASSUME NEW kind \in Sources, NEW url \in Endpoints, ConfigureRemoteSource(kind, url)
        PROVE  PollInv'
    <3>1. /\ ~serving /\ ~serving'
          /\ remote_loads' = [remote_loads EXCEPT ![kind] = [configuration |-> url, loaded |-> FALSE]]
      BY <2>4 DEF ConfigureRemoteSource
    <3>2. ~bundle_url_mode'
      BY <2>4, SourcesAssumption DEF ConfigureRemoteSource, PollInv, Components
    <3>3. \A k \in Sources : fetcher[k].hash = None /\ ~remote_loads[k].loaded
      BY <3>1 DEF PollInv, LoadedMeansBodyApplied
    <3>4. \A k \in Sources : ~remote_loads'[k].loaded
      BY <1>2, <3>1, <3>3, SourcesAssumption DEF TypeOK, RemoteSourceKind
    <3>5. QED
      BY <1>1, <2>1, <2>2, <3>1, <3>2, <3>3, <3>4 DEF PollInv, LoadedMeansBodyApplied
  <2>5. QED
    BY <1>6, <2>3, <2>4 DEF Startup
<1>7. CASE Upload
  <2>1. UNCHANGED <<environment, fetcher, serving, bundle_url_mode, remote_loads>>
    BY <1>7 DEF Upload, UploadPolicies, UploadSchema, UploadBundle, unchangedByUpdates
  <2>2. FetchTypeOK'
    BY <1>2, <2>1 DEF FetchTypeOK, environment
  <2>3. QED
    BY <1>1, <2>1, <2>2 DEF PollInv, LoadedMeansBodyApplied
<1>8. CASE UNCHANGED fetchVars
  <2>1. FetchTypeOK'
    BY <1>2, <1>8 DEF FetchTypeOK, fetchVars, environment
  <2>2. QED
    BY <1>1, <1>8, <2>1 DEF PollInv, LoadedMeansBodyApplied, fetchVars, vars
<1>9. QED
  BY <1>3, <1>4, <1>5, <1>6, <1>7, <1>8 DEF FetchNext, Poll

(* Every reachable state satisfies the invariant.                          *)
THEOREM PollInvariance == FetchSpec => []PollInv
<1>1. QED
  BY FetchInitInv, FetchNextKeepsInv, PTL DEF FetchSpec

(* The three tasks stay within check_and_update: a body is in hand only    *)
(* from the end of its GET to the update of the store.                     *)
THEOREM FetchTypeCorrectness == FetchSpec => []FetchTypeOK
<1>1. PollInv => FetchTypeOK
  BY DEF PollInv
<1>2. QED
  BY <1>1, PollInvariance, PTL

(* Tasks, origins and administrators together do nothing that the store    *)
(* alone could not do, so all theorems of the store hold with URLs         *)
(* configured; among them the promise of the strict mode.                  *)
THEOREM FetchingImplementsStore == FetchSpec => Spec
<1>1. FetchInit => Init
  BY DEF FetchInit
<1>2. PollInv /\ [FetchNext]_fetchVars => [Next]_vars
  BY FetchStepIsStoreStep DEF PollInv
<1>3. QED
  BY <1>1, <1>2, PollInvariance, PTL DEF FetchSpec, Spec

(* A source is marked loaded exactly when apply_successful_response took   *)
(* one of its bodies: no HEAD, 304, hash or upload does it.                *)
THEOREM RemoteLoadConfirmation == FetchSpec => []LoadedMeansBodyApplied
<1>1. PollInv => LoadedMeansBodyApplied
  BY DEF PollInv
<1>2. QED
  BY <1>1, PollInvariance, PTL

-----------------------------------------------------------------------------
(* What a poll does to the documents in force.                             *)

QuietPoll(kind) ==
  \/ HeadModified(kind) \/ HeadOtherStatus(kind) \/ GetSucceeds(kind)
  \/ GetFails(kind) \/ BodyUnchanged(kind) \/ RejectBody(kind)

(* An applied body becomes the document in force of its component and the  *)
(* hash that is remembered; the other components and tasks are left alone. *)
LEMMA ApplyBodyServesIt ==
  ASSUME FetchTypeOK, NEW kind \in Sources, ApplyBody(kind)
  PROVE  /\ fetcher'[kind].hash = Content(kind)' /\ Content(kind)' = fetcher[kind].body
         /\ fetcher[kind].body # fetcher[kind].hash
         /\ \A k \in Sources \ {kind} : fetcher'[k] = fetcher[k] /\ Content(k)' = Content(k)
         /\ UNCHANGED environment
<1> DEFINE d == fetcher[kind].body
<1>1. fetcher' = [fetcher EXCEPT ![kind] = [fetcher[kind] EXCEPT !.step = "sleep", !.hash = d, !.body = None]]
  BY DEF ApplyBody, Sleep
<1>2. fetcher'[kind].hash = d /\ \A k \in Sources \ {kind} : fetcher'[k] = fetcher[k]
  BY <1>1 DEF FetchTypeOK
<1>3. ApplySuccessfulResponse(kind, d) /\ d # fetcher[kind].hash /\ UNCHANGED environment
  BY DEF ApplyBody
<1> HIDE DEF d
<1>4. Content(kind)' = d /\ \A k \in Sources \ {kind} : Content(k)' = Content(k)
  <2>1. CASE kind = "policies" /\ LoadPolicies(d)
    <3>1. policies'.content = d /\ UNCHANGED <<labels, schema>>
      BY <2>1 DEF LoadPolicies, SetDsl
    <3>2. QED
      BY <2>1, <3>1, SourcesAssumption DEF Content, Components
  <2>2. CASE kind = "labels" /\ LoadLabels(d)
    <3>1. labels'.content = d /\ UNCHANGED <<policies, schema>>
      BY <2>2 DEF LoadLabels, SetLabels
    <3>2. QED
      BY <2>2, <3>1, SourcesAssumption DEF Content, Components
  <2>3. CASE kind = "schema" /\ LoadSchema(d)
    <3>1. schema'.content = d /\ UNCHANGED <<policies, labels>>
      BY <2>3 DEF LoadSchema, SetSchema
    <3>2. QED
      BY <2>3, <3>1, SourcesAssumption DEF Content, Components
  <2>4. QED
    BY <1>3, <2>1, <2>2, <2>3 DEF ApplySuccessfulResponse
<1>5. QED
  BY <1>2, <1>3, <1>4 DEF d

(* Configuration names a source and leaves the documents as they are.      *)
LEMMA StartupKeepsContents ==
  ASSUME TypeOK, Startup
  PROVE  /\ \A k \in Sources : Content(k)' = Content(k)
         /\ UNCHANGED <<environment, fetcher>>
<1>1. /\ policies'.content = policies.content
      /\ labels'.content = labels.content
      /\ schema'.content = schema.content
  <2>1. CASE StartServing
    BY <2>1 DEF StartServing, partVars
  <2>2. ASSUME NEW kind \in Sources, NEW url \in Endpoints, ConfigureRemoteSource(kind, url)
        PROVE  /\ policies'.content = policies.content
               /\ labels'.content = labels.content
               /\ schema'.content = schema.content
    BY <2>2 DEF ConfigureRemoteSource, TypeOK
  <2>3. QED
    BY <2>1, <2>2 DEF Startup
<1>2. QED
  BY <1>1 DEF Content, Startup

(* While administrators may not upload, what a task remembers stays what   *)
(* the store serves.                                                       *)
LEMMA FetchNextKeepsServed ==
  PollInv /\ RememberedBodyIsServed /\ [FetchNext]_fetchVars => RememberedBodyIsServed'
<1> SUFFICES ASSUME PollInv, RememberedBodyIsServed, [FetchNext]_fetchVars, ~allow_upload'
             PROVE  \A k \in Sources : fetcher'[k].hash # None => Content(k)' = fetcher'[k].hash
  BY DEF RememberedBodyIsServed
<1>1. FetchTypeOK /\ TypeOK
  BY DEF PollInv, StoreInv
<1>2. ASSUME UNCHANGED <<vars, allow_upload>>, \A k \in Sources : fetcher'[k].hash = fetcher[k].hash
      PROVE  \A k \in Sources : fetcher'[k].hash # None => Content(k)' = fetcher'[k].hash
  BY <1>2 DEF RememberedBodyIsServed, Content, vars, partVars
<1>3. ASSUME NEW kind \in Sources, QuietPoll(kind)
      PROVE  UNCHANGED <<vars, allow_upload>> /\ \A k \in Sources : fetcher'[k].hash = fetcher[k].hash
  BY <1>1, <1>3, QuietPollKeepsInv DEF QuietPoll, environment
<1>4. ASSUME NEW kind \in Sources, ApplyBody(kind)
      PROVE  \A k \in Sources : fetcher'[k].hash # None => Content(k)' = fetcher'[k].hash
  <2>1. ~allow_upload
    BY <1>1, <1>4, ApplyBodyServesIt DEF environment
  <2>2. QED
    BY <1>1, <1>4, <2>1, ApplyBodyServesIt DEF RememberedBodyIsServed
<1>5. ASSUME NEW kind \in Sources, NEW d \in Documents(kind), Publish(kind, d)
      PROVE  UNCHANGED <<vars, allow_upload, fetcher>>
  BY <1>5 DEF Publish
<1>6. CASE Startup
  BY <1>1, <1>6, StartupKeepsContents DEF RememberedBodyIsServed, environment
<1>7. CASE Upload
  BY <1>7 DEF Upload, environment
<1>8. CASE UNCHANGED fetchVars
  BY <1>2, <1>8 DEF fetchVars, environment
<1>9. QED
  BY <1>2, <1>3, <1>4, <1>5, <1>6, <1>7, <1>8 DEF FetchNext, Poll, QuietPoll

(* A body that check_and_update skips because its hash is remembered is    *)
(* already in force, as long as only the tasks write to the store.         *)
THEOREM RememberedBodyInForce == FetchSpec => []RememberedBodyIsServed
<1>1. FetchInit => RememberedBodyIsServed
  BY DEF FetchInit, RememberedBodyIsServed
<1>2. QED
  BY <1>1, FetchNextKeepsServed, PollInvariance, PTL DEF FetchSpec

(* A task that moves and replaces the document in force does so with       *)
(* another one than it applied last.                                       *)
LEMMA PollsReplaceByNews ==
  ASSUME PollInv, FetchNext, NEW kind \in Sources,
         fetcher'[kind] # fetcher[kind], Content(kind)' # Content(kind)
  PROVE  Content(kind)' # fetcher[kind].hash
<1>1. FetchTypeOK
  BY DEF PollInv
<1>2. ASSUME NEW k \in Sources, QuietPoll(k)
      PROVE  FALSE
  <2>1. UNCHANGED vars
    BY <1>1, <1>2, QuietPollKeepsInv DEF QuietPoll
  <2>2. QED
    BY <2>1 DEF Content, vars, partVars
<1>3. ASSUME NEW k \in Sources, ApplyBody(k)
      PROVE  Content(kind)' # fetcher[kind].hash
  BY <1>1, <1>3, ApplyBodyServesIt
<1>4. ASSUME NEW k \in Sources, NEW d \in Documents(k), Publish(k, d)
      PROVE  FALSE
  BY <1>4 DEF Publish
<1>5. ~Startup /\ ~Upload
  BY DEF Startup, Upload
<1>6. QED
  BY <1>2, <1>3, <1>4, <1>5 DEF FetchNext, Poll, QuietPoll

(* The content hash protects an upload: a poll puts a document in its      *)
(* place only if the origin has published another than the one that was    *)
(* applied last.                                                           *)
THEOREM UploadsOutliveRepeatedPolls == FetchSpec => PollsKeepUploads
<1>1. PollInv /\ [FetchNext]_fetchVars =>
        [\A kind \in Sources :
           fetcher'[kind] # fetcher[kind] /\ Content(kind)' # Content(kind)
             => Content(kind)' # fetcher[kind].hash]_fetchVars
  BY PollsReplaceByNews
<1>2. QED
  BY <1>1, PollInvariance, PTL DEF FetchSpec, PollsKeepUploads

=============================================================================
