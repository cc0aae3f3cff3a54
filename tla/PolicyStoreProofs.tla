------------------------- MODULE PolicyStoreProofs -------------------------
(***************************************************************************)
(* Proofs, for every choice of documents, bundles, endpoints, keys and     *)
(* cache limit, of the type invariant and of the safety invariants of      *)
(* PolicyStore, from one inductive invariant.                              *)
(***************************************************************************)
EXTENDS PolicyStore, TLAPS

(* Only documents that were validated are ever installed.                  *)
InstalledAreValid ==
  /\ policies.content \in Compiles
  /\ labels.content \in ValidLabels \cup {Empty}
  /\ schema.content \in ValidSchemas \cup {Empty}

(* The labelers that the next rebuild would install are those of the       *)
(* installed labels; without it EngineMatchesMetadata is not inductive.    *)
LabelersMatchLabels == label_registry_labelers = Labelers(labels.content)

StoreInv ==
  /\ TypeOK
  /\ InstalledAreValid
  /\ LabelersMatchLabels
  /\ EngineMatchesMetadata
  /\ StrictStatesHaveCompatibleSchema
  /\ LabelsFitActiveSchema
  /\ BundleDescribesActiveState
  /\ CachedListingsAreCurrent

(* How the load status, the URL mode and the sources in the metadata go    *)
(* together: what readiness rests on.                                      *)
RemoteInv ==
  /\ bundle_url_mode <=> Configured("bundle")
  /\ bundle_url_mode => \A k \in Components : ~Configured(k)
  /\ ~bundle_url_mode => /\ policies.source # NoSource => Configured("policies")
                         /\ labels.source # NoSource => Configured("labels")
                         /\ schema.source # NoSource => Configured("schema")

-----------------------------------------------------------------------------
(* What rebuild_engine_for_dsl_with_parts installs for valid documents.    *)
LEMMA BuiltEngineType ==
  ASSUME NEW p \in PolicyTexts, NEW s \in SchemaTexts \cup {Empty},
         NEW lab \in LabelTexts \cup {NoLabelers},
         NEW version \in LabelTexts \cup {Empty}
  PROVE  /\ BuiltEngine(p, s, lab, version) \in Engine
         /\ SchemaStatus(p, s) \in {"no_schema", "schema_backed", "schema_incompatible"}
  BY DEF BuiltEngine, Engine, SchemaStatus

(* The labelers of a document are no more than that document.              *)
LEMMA LabelersType ==
  ASSUME NEW l \in LabelTexts \cup {Empty}
  PROVE  Labelers(l) \in LabelTexts \cup {NoLabelers}
  BY DocumentAssumption DEF Labelers

(* Cleared caches are caches.                                              *)
LEMMA NoListingsType ==
  NoListings \in [Formats -> SUBSET CacheEntry] /\ \A f \in Formats : NoListings[f] = {}
  BY DEF NoListings

(* What every update of a serving store leaves alone or keeps typed.       *)
Frame ==
  /\ UNCHANGED unchangedByUpdates
  /\ remote_loads' \in [RemoteSourceKind -> [configuration : Source, loaded : BOOLEAN]]

-----------------------------------------------------------------------------
(* set_dsl keeps the invariant, whoever calls it.                          *)
LEMMA SetDslKeepsInv ==
  ASSUME StoreInv, Frame, NEW p \in PolicyTexts, NEW source \in Source, SetDsl(p, source)
  PROVE  StoreInv'
<1> USE DEF StoreInv, SetDsl, RebuildEngine, Frame, unchangedByUpdates, startupVars
<1>1. InstalledAreValid'
  BY DEF InstalledAreValid, PolicyUpdateAccepted
<1>2. TypeOK'
  <2>1. engine' \in Engine /\ request_context_status' \in {"no_schema", "schema_backed", "schema_incompatible"}
    BY BuiltEngineType DEF TypeOK, InstalledAreValid
  <2>2. list_caches' \in [Formats -> SUBSET CacheEntry]
    BY NoListingsType
  <2>3. QED
    BY <2>1, <2>2 DEF TypeOK
<1>3. LabelersMatchLabels'
  BY DEF LabelersMatchLabels, Labelers
<1>4. EngineMatchesMetadata'
  BY <1>3 DEF EngineMatchesMetadata, LabelersMatchLabels, BuiltEngine, SchemaStatus, Labelers
<1>5. StrictStatesHaveCompatibleSchema'
  BY DEF StrictStatesHaveCompatibleSchema, PolicyUpdateAccepted, RuntimeSchemaAccepted, SchemaStatus, Strict
<1>6. LabelsFitActiveSchema'
  BY DEF LabelsFitActiveSchema
<1>7. BundleDescribesActiveState'
  BY DEF BundleDescribesActiveState, BuiltEngine
<1>8. CachedListingsAreCurrent'
  BY NoListingsType DEF CachedListingsAreCurrent
<1>9. QED
  BY <1>1, <1>2, <1>3, <1>4, <1>5, <1>6, <1>7, <1>8

(* set_labels keeps the invariant.                                         *)
LEMMA SetLabelsKeepsInv ==
  ASSUME StoreInv, Frame, NEW l \in LabelTexts, NEW source \in Source, SetLabels(l, source)
  PROVE  StoreInv'
<1> USE DEF StoreInv, SetLabels, RebuildEngine, Frame, unchangedByUpdates, startupVars
<1>1. InstalledAreValid'
  BY DEF InstalledAreValid, LabelUpdateAccepted
<1>2. TypeOK'
  <2>1. engine' \in Engine /\ request_context_status' \in {"no_schema", "schema_backed", "schema_incompatible"}
    BY BuiltEngineType, LabelersType DEF TypeOK
  <2>2. list_caches' \in [Formats -> SUBSET CacheEntry]
    BY NoListingsType
  <2>3. QED
    BY <2>1, <2>2, LabelersType DEF TypeOK
<1>3. LabelersMatchLabels'
  BY DEF LabelersMatchLabels, Labelers
<1>4. EngineMatchesMetadata'
  BY <1>3 DEF EngineMatchesMetadata, LabelersMatchLabels, BuiltEngine, SchemaStatus, Labelers
<1>5. StrictStatesHaveCompatibleSchema'
  BY DEF StrictStatesHaveCompatibleSchema, LabelUpdateAccepted, RuntimeSchemaAccepted, SchemaStatus,
         EngineMatchesMetadata, Strict
<1>6. LabelsFitActiveSchema'
  BY DEF LabelsFitActiveSchema, LabelUpdateAccepted
<1>7. BundleDescribesActiveState'
  BY DEF BundleDescribesActiveState, BuiltEngine
<1>8. CachedListingsAreCurrent'
  BY NoListingsType DEF CachedListingsAreCurrent
<1>9. QED
  BY <1>1, <1>2, <1>3, <1>4, <1>5, <1>6, <1>7, <1>8

(* set_schema keeps the invariant; the caches it leaves alone stay right   *)
(* because the policy text does not change.                                *)
LEMMA SetSchemaKeepsInv ==
  ASSUME StoreInv, Frame, NEW s \in SchemaTexts, NEW source \in Source, SetSchema(s, source)
  PROVE  StoreInv'
<1> USE DEF StoreInv, SetSchema, RebuildEngine, Frame, unchangedByUpdates, startupVars
<1>1. InstalledAreValid'
  BY DEF InstalledAreValid, SchemaUpdateAccepted
<1>2. TypeOK'
  <2>1. engine' \in Engine /\ request_context_status' \in {"no_schema", "schema_backed", "schema_incompatible"}
    BY BuiltEngineType DEF TypeOK
  <2>2. QED
    BY <2>1 DEF TypeOK
<1>3. LabelersMatchLabels'
  BY DEF LabelersMatchLabels, Labelers
<1>4. EngineMatchesMetadata'
  BY <1>3 DEF EngineMatchesMetadata, LabelersMatchLabels, BuiltEngine, SchemaStatus, Labelers
<1>5. StrictStatesHaveCompatibleSchema'
  BY DocumentAssumption DEF StrictStatesHaveCompatibleSchema, SchemaUpdateAccepted, RuntimeSchemaAccepted,
         SchemaStatus, Strict
<1>6. LabelsFitActiveSchema'
  BY DEF LabelsFitActiveSchema, SchemaUpdateAccepted
<1>7. BundleDescribesActiveState'
  BY DEF BundleDescribesActiveState, BuiltEngine
<1>8. CachedListingsAreCurrent'
  BY DEF CachedListingsAreCurrent, EngineMatchesMetadata, BuiltEngine
<1>9. QED
  BY <1>1, <1>2, <1>3, <1>4, <1>5, <1>6, <1>7, <1>8

(* apply_prepared_bundle keeps the invariant, in the given layout.         *)
LEMMA ApplyBundleKeepsInv ==
  ASSUME StoreInv, Frame, NEW b \in Bundles, NEW source \in Source,
         ApplyPreparedBundle(PreparedBundle(b, source))
  PROVE  StoreInv'
<1> USE DEF StoreInv, ApplyPreparedBundle, PreparedBundle, Frame, unchangedByUpdates, startupVars
<1>1. /\ b.policies \in Compiles /\ b.labels \in ValidLabels
      /\ b.schema \in ValidSchemas \cup {Empty}
      /\ b.schema # Empty => <<b.policies, b.schema>> \in PolicyFits /\ <<b.labels, b.schema>> \in LabelsFit
  BY BundleAssumption
<1>2. InstalledAreValid'
  BY <1>1 DEF InstalledAreValid
<1>3. TypeOK'
  <2>1. Labelers(b.labels) \in LabelTexts \cup {NoLabelers}
    BY <1>1, LabelersType, DocumentAssumption
  <2>2. engine' \in Engine
    BY <1>1, <2>1, DocumentAssumption DEF Engine, TypeOK
  <2>3. list_caches' \in [Formats -> SUBSET CacheEntry]
    BY NoListingsType
  <2>4. QED
    BY <1>1, <2>1, <2>2, <2>3, DocumentAssumption DEF TypeOK
<1>4. LabelersMatchLabels'
  BY DEF LabelersMatchLabels, Labelers
<1>5. EngineMatchesMetadata'
  BY <1>1 DEF EngineMatchesMetadata, SchemaStatus, Labelers
<1>6. StrictStatesHaveCompatibleSchema'
  BY DEF StrictStatesHaveCompatibleSchema, BundleAccepted, Strict
<1>7. LabelsFitActiveSchema'
  BY <1>1 DEF LabelsFitActiveSchema
<1>8. BundleDescribesActiveState'
  BY BundleAssumption DEF BundleDescribesActiveState
<1>9. CachedListingsAreCurrent'
  BY NoListingsType DEF CachedListingsAreCurrent
<1>10. QED
  BY <1>2, <1>3, <1>4, <1>5, <1>6, <1>7, <1>8, <1>9

-----------------------------------------------------------------------------
(* Reading a listing changes one cache only, and keeps it within its limit *)
(* and current.                                                            *)
LEMMA ListPoliciesKeepsInv ==
  ASSUME StoreInv, NEW f \in Formats, NEW key \in ListKeys,
         ListPoliciesHit(f, key) \/ ListPoliciesMiss(f, key)
  PROVE  StoreInv'
<1> USE DEF StoreInv, unchangedByUpdates, startupVars, partVars
<1>0. /\ UNCHANGED <<unchangedByUpdates, partVars, remote_loads>>
      /\ list_caches[f] \subseteq CacheEntry
      /\ \A e \in list_caches[f] : e.listing = engine.dsl
      /\ engine.dsl \in PolicyTexts
  BY DEF ListPoliciesHit, ListPoliciesMiss, TypeOK, CachedListingsAreCurrent, Engine
<1>1. \E cache \in SUBSET CacheEntry :
         /\ list_caches' = [list_caches EXCEPT ![f] = cache]
         /\ \A e \in cache : e.listing = engine.dsl
  <2>1. CASE ListPoliciesHit(f, key)
    <3>1. PICK hit \in list_caches[f] : list_caches' = [list_caches EXCEPT ![f] = Promote(list_caches[f], hit)]
      BY <2>1 DEF ListPoliciesHit, TypeOK
    <3>2. Promote(list_caches[f], hit) \in SUBSET CacheEntry
      BY <1>0, LimitAssumption DEF Promote, CacheEntry
    <3>3. \A e \in Promote(list_caches[f], hit) : e.listing = engine.dsl
      BY <1>0 DEF Promote, CacheEntry
    <3>4. QED
      BY <3>1, <3>2, <3>3
  <2>2. CASE ListPoliciesMiss(f, key)
    <3>1. list_caches' = [list_caches EXCEPT ![f] = Insert(list_caches[f], key, engine.dsl)]
      BY <2>2 DEF ListPoliciesMiss, TypeOK
    <3>2. Insert(list_caches[f], key, engine.dsl) \in SUBSET CacheEntry
      BY <1>0, LimitAssumption DEF Insert, CacheEntry
    <3>3. \A e \in Insert(list_caches[f], key, engine.dsl) : e.listing = engine.dsl
      BY <1>0 DEF Insert, CacheEntry
    <3>4. QED
      BY <3>1, <3>2, <3>3
  <2>3. QED
    BY <2>1, <2>2
<1>2. TypeOK'
  BY <1>0, <1>1 DEF TypeOK
<1>3. CachedListingsAreCurrent'
  BY <1>0, <1>1 DEF CachedListingsAreCurrent, TypeOK
<1>4. /\ InstalledAreValid' /\ LabelersMatchLabels' /\ EngineMatchesMetadata'
      /\ StrictStatesHaveCompatibleSchema' /\ LabelsFitActiveSchema' /\ BundleDescribesActiveState'
  BY <1>0 DEF InstalledAreValid, LabelersMatchLabels, EngineMatchesMetadata,
              StrictStatesHaveCompatibleSchema, LabelsFitActiveSchema, BundleDescribesActiveState,
              Labelers, SchemaStatus, Strict
<1>5. QED
  BY <1>2, <1>3, <1>4

(* Before serving, only sources and load status change.                    *)
LEMMA StartupKeepsInv ==
  ASSUME StoreInv,
         \/ StartServing
         \/ \E kind \in RemoteSourceKind, url \in Endpoints : ConfigureRemoteSource(kind, url)
  PROVE  StoreInv'
<1> USE DEF StoreInv, startupVars, partVars
<1>1. /\ UNCHANGED <<startupVars, engine, request_context_status, label_registry_labelers, bundle, list_caches>>
      /\ policies'.content = policies.content /\ labels'.content = labels.content
      /\ schema'.content = schema.content
  BY DEF StartServing, ConfigureRemoteSource, TypeOK
<1>2. TypeOK'
  <2>1. CASE StartServing
    BY <2>1 DEF StartServing, TypeOK
  <2>2. ASSUME NEW kind \in RemoteSourceKind, NEW url \in Endpoints, ConfigureRemoteSource(kind, url)
        PROVE  TypeOK'
    BY <2>2 DEF ConfigureRemoteSource, TypeOK, Source
  <2>3. QED
    BY <2>1, <2>2
<1>3. /\ InstalledAreValid' /\ LabelersMatchLabels' /\ EngineMatchesMetadata'
      /\ StrictStatesHaveCompatibleSchema' /\ LabelsFitActiveSchema' /\ BundleDescribesActiveState'
      /\ CachedListingsAreCurrent'
  BY <1>1 DEF InstalledAreValid, LabelersMatchLabels, EngineMatchesMetadata,
              StrictStatesHaveCompatibleSchema, LabelsFitActiveSchema, BundleDescribesActiveState,
              CachedListingsAreCurrent, Labelers, SchemaStatus, Strict
<1>4. QED
  BY <1>2, <1>3

-----------------------------------------------------------------------------
(* The invariant holds of a new store.                                     *)
LEMMA InitInv == Init => StoreInv
<1> SUFFICES ASSUME Init PROVE StoreInv
  OBVIOUS
<1>1. TypeOK
  BY NoListingsType, DocumentAssumption DEF Init, TypeOK, Engine, Source
<1>2. InstalledAreValid /\ LabelersMatchLabels /\ EngineMatchesMetadata
  BY DocumentAssumption DEF Init, InstalledAreValid, LabelersMatchLabels, EngineMatchesMetadata, Labelers, SchemaStatus
<1>3. StrictStatesHaveCompatibleSchema /\ LabelsFitActiveSchema /\ BundleDescribesActiveState
  BY DEF Init, StrictStatesHaveCompatibleSchema, LabelsFitActiveSchema, BundleDescribesActiveState
<1>4. CachedListingsAreCurrent
  BY NoListingsType DEF Init, CachedListingsAreCurrent
<1>5. QED
  BY <1>1, <1>2, <1>3, <1>4 DEF StoreInv

(* Confirming a load keeps the load status typed, and a configured source  *)
(* is one.                                                                 *)
LEMMA MarkLoadedType ==
  ASSUME TypeOK, NEW kind \in RemoteSourceKind
  PROVE  /\ remote_loads[kind].configuration \in Source
         /\ MarkRemoteSourceLoaded(kind) =>
              remote_loads' \in [RemoteSourceKind -> [configuration : Source, loaded : BOOLEAN]]
<1> DEFINE Status == [configuration : Source, loaded : BOOLEAN]
<1>1. remote_loads \in [RemoteSourceKind -> Status] /\ remote_loads[kind] \in Status
  BY DEF TypeOK
<1>2. [remote_loads[kind] EXCEPT !.loaded = TRUE] \in Status
  BY <1>1
<1>3. remote_loads[kind].configuration \in Source
  BY <1>1
<1> HIDE DEF Status
<1>4. MarkRemoteSourceLoaded(kind) => remote_loads' \in [RemoteSourceKind -> Status]
  BY <1>1, <1>2 DEF MarkRemoteSourceLoaded
<1>5. QED
  BY <1>3, <1>4 DEF Status

(* Every step keeps it.                                                    *)
LEMMA NextKeepsInv == StoreInv /\ [Next]_vars => StoreInv'
<1> SUFFICES ASSUME StoreInv, [Next]_vars PROVE StoreInv'
  OBVIOUS
<1>0. /\ TypeOK /\ policies.source \in Source /\ schema.source \in Source
      /\ NoSource \in Source /\ Components \subseteq RemoteSourceKind /\ "bundle" \in RemoteSourceKind
  BY DEF StoreInv, TypeOK, Source, Components, RemoteSourceKind
<1>1. ASSUME NEW kind \in RemoteSourceKind, NEW url \in Endpoints, ConfigureRemoteSource(kind, url)
      PROVE  StoreInv'
  BY <1>1, StartupKeepsInv
<1>2. CASE StartServing
  BY <1>2, StartupKeepsInv
<1>3. ASSUME NEW p \in PolicyTexts, UploadPolicies(p) PROVE StoreInv'
  BY <1>0, <1>3, SetDslKeepsInv DEF UploadPolicies, Frame, TypeOK
<1>4. ASSUME NEW s \in SchemaTexts, UploadSchema(s) PROVE StoreInv'
  BY <1>0, <1>4, SetSchemaKeepsInv DEF UploadSchema, Frame, TypeOK
<1>5. ASSUME NEW b \in Bundles, UploadBundle(b) PROVE StoreInv'
  BY <1>0, <1>5, ApplyBundleKeepsInv DEF UploadBundle, Frame, TypeOK
<1>6. ASSUME NEW p \in PolicyTexts, LoadPolicies(p) PROVE StoreInv'
  BY <1>0, <1>6, SetDslKeepsInv, MarkLoadedType DEF LoadPolicies, Frame, Components
<1>7. ASSUME NEW l \in LabelTexts, LoadLabels(l) PROVE StoreInv'
  BY <1>0, <1>7, SetLabelsKeepsInv, MarkLoadedType DEF LoadLabels, Frame, Components
<1>8. ASSUME NEW s \in SchemaTexts, LoadSchema(s) PROVE StoreInv'
  BY <1>0, <1>8, SetSchemaKeepsInv, MarkLoadedType DEF LoadSchema, Frame, Components
<1>9. ASSUME NEW b \in Bundles, LoadBundle(b) PROVE StoreInv'
  BY <1>0, <1>9, ApplyBundleKeepsInv, MarkLoadedType DEF LoadBundle, Frame
<1>10. ASSUME NEW f \in Formats, NEW key \in ListKeys,
              ListPoliciesHit(f, key) \/ ListPoliciesMiss(f, key)
       PROVE  StoreInv'
  BY <1>10, ListPoliciesKeepsInv
<1>11. CASE UNCHANGED vars
  BY <1>11 DEF vars, startupVars, partVars, StoreInv, TypeOK, InstalledAreValid, LabelersMatchLabels,
               EngineMatchesMetadata, StrictStatesHaveCompatibleSchema, LabelsFitActiveSchema,
               BundleDescribesActiveState, CachedListingsAreCurrent, Labelers, SchemaStatus, Strict
<1>12. QED
  BY <1>1, <1>2, <1>3, <1>4, <1>5, <1>6, <1>7, <1>8, <1>9, <1>10, <1>11 DEF Next

(* The inductive invariant holds of every reachable state.                 *)
THEOREM StoreInvariance == Spec => []StoreInv
  BY InitInv, NextKeepsInv, PTL DEF Spec

(* Type correctness, the cache limit included (state.rs: PolicyStore).     *)
THEOREM TypeCorrectness == Spec => []TypeOK
<1>1. StoreInv => TypeOK
  BY DEF StoreInv
<1>2. QED
  BY <1>1, StoreInvariance, PTL

(* What is served is what is reported, after any sequence of updates.      *)
THEOREM EngineCoherence == Spec => []EngineMatchesMetadata
<1>1. StoreInv => EngineMatchesMetadata
  BY DEF StoreInv
<1>2. QED
  BY <1>1, StoreInvariance, PTL

(* The strict mode's promise of docs/security.md.                          *)
THEOREM StrictModeSafety == Spec => []StrictStatesHaveCompatibleSchema
<1>1. StoreInv => StrictStatesHaveCompatibleSchema
  BY DEF StoreInv
<1>2. QED
  BY <1>1, StoreInvariance, PTL

(* Labels fit the schema, whichever of set_labels, set_schema and a bundle *)
(* came last.                                                              *)
THEOREM LabelSafety == Spec => []LabelsFitActiveSchema
<1>1. StoreInv => LabelsFitActiveSchema
  BY DEF StoreInv
<1>2. QED
  BY <1>1, StoreInvariance, PTL

(* A reported bundle is the whole active state.                            *)
THEOREM BundleProvenance == Spec => []BundleDescribesActiveState
<1>1. StoreInv => BundleDescribesActiveState
  BY DEF StoreInv
<1>2. QED
  BY <1>1, StoreInvariance, PTL

(* No listing cache outlives the policies it was computed from.            *)
THEOREM CacheFreshness == Spec => []CachedListingsAreCurrent
<1>1. StoreInv => CachedListingsAreCurrent
  BY DEF StoreInv
<1>2. QED
  BY <1>1, StoreInvariance, PTL

-----------------------------------------------------------------------------
(* Readiness.  A source changes only together with its configuration: an   *)
(* update keeps the old one, takes the configured one, or, coming from a   *)
(* bundle, removes it.                                                     *)
SourcesFollowConfiguration ==
  /\ policies'.source \in {policies.source, NoSource, remote_loads["policies"].configuration}
  /\ labels'.source \in {labels.source, NoSource, remote_loads["labels"].configuration}
  /\ schema'.source \in {schema.source, NoSource, remote_loads["schema"].configuration}

(* What a serving store does to readiness: loads are only ever confirmed.  *)
LoadsAreLatched ==
  /\ UNCHANGED bundle_url_mode
  /\ \A k \in RemoteSourceKind :
       /\ remote_loads'[k].configuration = remote_loads[k].configuration
       /\ remote_loads[k].loaded => remote_loads'[k].loaded
  /\ ~bundle_url_mode => SourcesFollowConfiguration

LEMMA MarkLoadedLatches ==
  ASSUME TypeOK, NEW kind \in RemoteSourceKind, MarkRemoteSourceLoaded(kind)
  PROVE  \A k \in RemoteSourceKind :
           /\ remote_loads'[k].configuration = remote_loads[k].configuration
           /\ remote_loads[k].loaded => remote_loads'[k].loaded
<1>1. remote_loads \in [RemoteSourceKind -> [configuration : Source, loaded : BOOLEAN]]
  BY DEF TypeOK
<1>2. remote_loads' = [remote_loads EXCEPT ![kind] = [remote_loads[kind] EXCEPT !.loaded = TRUE]]
  BY DEF MarkRemoteSourceLoaded
<1>3. [remote_loads[kind] EXCEPT !.loaded = TRUE].configuration = remote_loads[kind].configuration
      /\ [remote_loads[kind] EXCEPT !.loaded = TRUE].loaded = TRUE
  BY <1>1
<1>4. QED
  BY <1>1, <1>2, <1>3

(* Every step of a serving store.                                          *)
LEMMA ServingStepsLatch ==
  ASSUME TypeOK, RemoteInv, serving, Next
  PROVE  LoadsAreLatched
<1> USE DEF LoadsAreLatched, SourcesFollowConfiguration, unchangedByUpdates, Components, RemoteSourceKind
<1>1. ASSUME NEW kind \in RemoteSourceKind, NEW url \in Endpoints, ConfigureRemoteSource(kind, url)
      PROVE  FALSE
  BY <1>1 DEF ConfigureRemoteSource
<1>2. CASE StartServing
  BY <1>2 DEF StartServing
<1>3. ASSUME NEW p \in PolicyTexts, UploadPolicies(p) PROVE LoadsAreLatched
  BY <1>3 DEF UploadPolicies, SetDsl
<1>4. ASSUME NEW s \in SchemaTexts, UploadSchema(s) PROVE LoadsAreLatched
  BY <1>4 DEF UploadSchema, SetSchema
<1>5. ASSUME NEW b \in Bundles, UploadBundle(b) PROVE LoadsAreLatched
  BY <1>5 DEF UploadBundle, ApplyPreparedBundle, PreparedBundle
<1>6. ASSUME NEW p \in PolicyTexts, LoadPolicies(p) PROVE LoadsAreLatched
  BY <1>6, MarkLoadedLatches DEF LoadPolicies, SetDsl
<1>7. ASSUME NEW l \in LabelTexts, LoadLabels(l) PROVE LoadsAreLatched
  BY <1>7, MarkLoadedLatches DEF LoadLabels, SetLabels
<1>8. ASSUME NEW s \in SchemaTexts, LoadSchema(s) PROVE LoadsAreLatched
  BY <1>8, MarkLoadedLatches DEF LoadSchema, SetSchema
<1>9. ASSUME NEW b \in Bundles, LoadBundle(b) PROVE LoadsAreLatched
  BY <1>9, MarkLoadedLatches DEF LoadBundle, RemoteInv
<1>10. ASSUME NEW f \in Formats, NEW key \in ListKeys,
              ListPoliciesHit(f, key) \/ ListPoliciesMiss(f, key)
       PROVE  LoadsAreLatched
  BY <1>10 DEF ListPoliciesHit, ListPoliciesMiss, partVars
<1>11. QED
  BY <1>1, <1>2, <1>3, <1>4, <1>5, <1>6, <1>7, <1>8, <1>9, <1>10 DEF Next

(* RemoteInv is kept, before and while serving.                            *)
LEMMA NextKeepsRemoteInv == TypeOK /\ RemoteInv /\ [Next]_vars => RemoteInv'
<1> SUFFICES ASSUME TypeOK, RemoteInv, [Next]_vars PROVE RemoteInv'
  OBVIOUS
<1> USE DEF RemoteInv, Configured
<1>1. CASE serving /\ Next
  BY <1>1, ServingStepsLatch DEF LoadsAreLatched, SourcesFollowConfiguration, Components, RemoteSourceKind
<1>2. ASSUME NEW kind \in RemoteSourceKind, NEW url \in Endpoints,
             ConfigurationAllowed(kind), ConfigureRemoteSource(kind, url)
      PROVE  RemoteInv'
  <2>1. \A k \in RemoteSourceKind :
          Configured(k)' <=> (k = kind \/ Configured(k))
    BY <1>2, EndpointAssumption DEF ConfigureRemoteSource, TypeOK
  <2>2. /\ policies'.source # NoSource => policies.source # NoSource \/ kind = "policies"
        /\ labels'.source # NoSource => labels.source # NoSource \/ kind = "labels"
        /\ schema'.source # NoSource => schema.source # NoSource \/ kind = "schema"
    BY <1>2 DEF ConfigureRemoteSource
  <2>3. bundle_url_mode' <=> (bundle_url_mode \/ kind = "bundle")
    BY <1>2 DEF ConfigureRemoteSource
  <2> HIDE DEF Configured
  <2>4. QED
    BY <1>2, <2>1, <2>2, <2>3 DEF ConfigurationAllowed, Components, RemoteSourceKind
<1>3. CASE UNCHANGED vars
  BY <1>3 DEF vars, partVars, startupVars
<1>4. CASE StartServing
  BY <1>4 DEF StartServing, partVars, startupVars
<1>5. CASE ~serving /\ Next
  BY <1>2, <1>4, <1>5 DEF Next, UploadPolicies, UploadSchema, UploadBundle, LoadPolicies, LoadLabels,
                          LoadSchema, LoadBundle, ListPoliciesHit, ListPoliciesMiss
<1>6. QED
  BY <1>1, <1>3, <1>5

(* A new store has no remote source.                                       *)
LEMMA InitRemoteInv == Init => RemoteInv
  BY DEF Init, RemoteInv, Configured, Components, RemoteSourceKind

LEMMA RemoteInvariance == Spec => [](TypeOK /\ RemoteInv)
  BY TypeCorrectness, InitRemoteInv, NextKeepsRemoteInv, PTL DEF Spec

(* "Bundle uploads no longer erase configured remote-source readiness      *)
(* state" (Changelog.md): ready is never reported before every configured  *)
(* source had its confirmed load.                                          *)
THEOREM ReadinessSafety == Spec => []ReadyMeansRemotesLoaded
<1>1. RemoteInv => ReadyMeansRemotesLoaded
  BY DEF RemoteInv, ReadyMeansRemotesLoaded, ConfiguredSourcesLoaded, SourceReady, Components, RemoteSourceKind
<1>2. QED
  BY <1>1, RemoteInvariance, PTL

(* No update of a serving store takes readiness back.                      *)
THEOREM ReadinessLatched == Spec => ReadinessIsKept
<1>1. TypeOK /\ RemoteInv /\ [Next]_vars
        => [serving /\ ConfiguredSourcesLoaded => ConfiguredSourcesLoaded']_vars
  <2> SUFFICES ASSUME TypeOK, RemoteInv, Next, serving, ConfiguredSourcesLoaded
               PROVE  ConfiguredSourcesLoaded'
    OBVIOUS
  <2>1. LoadsAreLatched
    BY ServingStepsLatch
  <2>2. RemoteInv'
    BY NextKeepsRemoteInv
  <2>3. QED
    BY <2>1, <2>2 DEF LoadsAreLatched, RemoteInv, ConfiguredSourcesLoaded, SourceReady, Configured,
                      Components, RemoteSourceKind
<1>2. QED
  BY <1>1, RemoteInvariance, PTL DEF Spec, ReadinessIsKept

-----------------------------------------------------------------------------
(* Refinement.  In every state of StoreInv the reported documents are an   *)
(* admissible abstract state and the engine is the runtime of that state.  *)
LEMMA InvMapsToAdmissible ==
  StoreInv => /\ ReportedState \in Active!State
              /\ Active!Admissible(ReportedState)
              /\ ServedRuntime = Active!Runtime(ReportedState)
<1> SUFFICES ASSUME StoreInv
             PROVE  /\ ReportedState \in Active!State
                    /\ Active!Admissible(ReportedState)
                    /\ ServedRuntime = Active!Runtime(ReportedState)
  OBVIOUS
<1> USE DEF StoreInv, ReportedState
<1>1. ReportedState \in Active!State
  BY DEF InstalledAreValid, Active!State
<1>2. Active!Fits(ReportedState) <=> request_context_status = "schema_backed"
  BY DocumentAssumption DEF EngineMatchesMetadata, SchemaStatus, Active!Fits
<1>3. Active!Admissible(ReportedState)
  BY <1>2 DEF StrictStatesHaveCompatibleSchema, LabelsFitActiveSchema, Active!Admissible, Strict,
              EngineMatchesMetadata, SchemaStatus
<1>4. ServedRuntime = Active!Runtime(ReportedState)
  BY <1>2 DEF ServedRuntime, EngineMatchesMetadata, Active!Runtime, Labelers
<1>5. QED
  BY <1>1, <1>3, <1>4

(* A step that installs documents is the abstract replacement by them.     *)
LEMMA InstallIsReplace ==
  ASSUME StoreInv', UNCHANGED schema_validation_mode
  PROVE  Active!Replace(ReportedState', bundle')
<1>1. /\ (ReportedState \in Active!State)'
      /\ Active!Admissible(ReportedState)'
      /\ (ServedRuntime = Active!Runtime(ReportedState))'
  BY InvMapsToAdmissible, PTL
<1>2. Active!Admissible(ReportedState')
  BY <1>1 DEF Active!Admissible, Active!Fits
<1>3. ServedRuntime' = Active!Runtime(ReportedState')
  BY <1>1 DEF Active!Runtime, Active!Fits
<1>4. ReportedState' \in Active!State
  BY <1>1 DEF Active!State
<1>5. QED
  BY <1>2, <1>3, <1>4 DEF Active!Replace

(* The four installing operations are the abstract ones.                   *)
LEMMA SetDslIsReplacePart ==
  ASSUME StoreInv', UNCHANGED schema_validation_mode, NEW p \in PolicyTexts, NEW source, SetDsl(p, source)
  PROVE  Active!ReplacePart
<1>1. /\ p \in Compiles /\ bundle' = NoBundle
      /\ ReportedState' = [ReportedState EXCEPT !.policies = p]
  BY DEF SetDsl, PolicyUpdateAccepted, ReportedState
<1>2. QED
  BY <1>1, InstallIsReplace DEF Active!ReplacePart

LEMMA SetLabelsIsReplacePart ==
  ASSUME StoreInv', UNCHANGED schema_validation_mode, NEW l \in LabelTexts, NEW source, SetLabels(l, source)
  PROVE  Active!ReplacePart
<1>1. /\ l \in ValidLabels /\ bundle' = NoBundle
      /\ ReportedState' = [ReportedState EXCEPT !.labels = l]
  BY DEF SetLabels, LabelUpdateAccepted, ReportedState
<1>2. QED
  BY <1>1, InstallIsReplace DEF Active!ReplacePart

LEMMA SetSchemaIsReplacePart ==
  ASSUME StoreInv', UNCHANGED schema_validation_mode, NEW s \in SchemaTexts, NEW source, SetSchema(s, source)
  PROVE  Active!ReplacePart
<1>1. /\ s \in ValidSchemas /\ bundle' = NoBundle
      /\ ReportedState' = [ReportedState EXCEPT !.schema = s]
  BY DEF SetSchema, SchemaUpdateAccepted, ReportedState
<1>2. QED
  BY <1>1, InstallIsReplace DEF Active!ReplacePart

LEMMA ApplyBundleIsReplaceAll ==
  ASSUME StoreInv', UNCHANGED schema_validation_mode, NEW b \in Bundles, NEW source,
         ApplyPreparedBundle(PreparedBundle(b, source))
  PROVE  Active!ReplaceAll
<1>1. bundle' = b /\ ReportedState' = b
  <2>1. b = [policies |-> b.policies, labels |-> b.labels, schema |-> b.schema]
    BY BundleAssumption
  <2>2. QED
    BY <2>1 DEF ApplyPreparedBundle, PreparedBundle, ReportedState
<1>2. QED
  BY <1>1, InstallIsReplace DEF Active!ReplaceAll

(* Every step of the store is an abstract step or changes nothing that     *)
(* the abstract state holds.                                               *)
LEMMA NextImplements ==
  StoreInv /\ StoreInv' /\ [Next]_vars => [Active!StateNext]_(Active!stateVars)
<1> SUFFICES ASSUME StoreInv, StoreInv', [Next]_vars
             PROVE  Active!ReplacePart \/ Active!ReplaceAll \/ UNCHANGED Active!stateVars
  BY DEF Active!StateNext
<1> USE DEF unchangedByUpdates, startupVars
<1>1. ASSUME NEW kind \in RemoteSourceKind, NEW url \in Endpoints, ConfigureRemoteSource(kind, url)
      PROVE  UNCHANGED Active!stateVars
  BY <1>1 DEF ConfigureRemoteSource, Active!stateVars, ReportedState, ServedRuntime, StoreInv, TypeOK
<1>2. CASE StartServing
  BY <1>2 DEF StartServing, partVars, Active!stateVars, ReportedState, ServedRuntime
<1>3. ASSUME NEW p \in PolicyTexts, UploadPolicies(p) \/ LoadPolicies(p)
      PROVE  Active!ReplacePart
  BY <1>3, SetDslIsReplacePart DEF UploadPolicies, LoadPolicies
<1>4. ASSUME NEW s \in SchemaTexts, UploadSchema(s) \/ LoadSchema(s)
      PROVE  Active!ReplacePart
  BY <1>4, SetSchemaIsReplacePart DEF UploadSchema, LoadSchema
<1>5. ASSUME NEW l \in LabelTexts, LoadLabels(l)
      PROVE  Active!ReplacePart
  BY <1>5, SetLabelsIsReplacePart DEF LoadLabels
<1>6. ASSUME NEW b \in Bundles, UploadBundle(b) \/ LoadBundle(b)
      PROVE  Active!ReplaceAll
  BY <1>6, ApplyBundleIsReplaceAll DEF UploadBundle, LoadBundle
<1>7. ASSUME NEW f \in Formats, NEW key \in ListKeys,
             ListPoliciesHit(f, key) \/ ListPoliciesMiss(f, key)
      PROVE  UNCHANGED Active!stateVars
  BY <1>7 DEF ListPoliciesHit, ListPoliciesMiss, partVars, Active!stateVars, ReportedState, ServedRuntime
<1>8. CASE UNCHANGED vars
  BY <1>8 DEF vars, partVars, Active!stateVars, ReportedState, ServedRuntime
<1>9. QED
  BY <1>1, <1>2, <1>3, <1>4, <1>5, <1>6, <1>7, <1>8 DEF Next

(* The store implements the active state that its readers are promised.    *)
THEOREM StoreImplementsActiveState == Spec => ImplementsActiveState
<1>1. Init => Active!StateInit
  <2> SUFFICES ASSUME Init PROVE Active!StateInit
    OBVIOUS
  <2>1. StoreInv
    BY InitInv
  <2>2. ServedRuntime = Active!Runtime(ReportedState)
    BY <2>1, InvMapsToAdmissible
  <2>3. QED
    BY <2>2 DEF Init, Active!StateInit, ReportedState
<1>2. QED
  BY <1>1, NextImplements, StoreInvariance, PTL DEF Spec, ImplementsActiveState, Active!StateSpec

-----------------------------------------------------------------------------
(* The caches stay ranked: a hit and a miss keep keys and ranks apart.     *)
Ranked(cache) ==
  \A e1, e2 \in cache : e1 = e2 \/ (e1.key # e2.key /\ e1.rank # e2.rank)

(* LruCache::get on a ranked cache.                                        *)
LEMMA PromoteKeepsRanked ==
  ASSUME NEW cache \in SUBSET CacheEntry, Ranked(cache), NEW hit \in cache
  PROVE  Ranked(Promote(cache, hit))
<1> DEFINE Aged(e) == IF e = hit THEN [e EXCEPT !.rank = 0]
                      ELSE IF e.rank < hit.rank THEN [e EXCEPT !.rank = e.rank + 1] ELSE e
<1>1. \A e \in cache :
        /\ e.rank \in Nat /\ Aged(e).key = e.key
        /\ Aged(e).rank = IF e = hit THEN 0 ELSE IF e.rank < hit.rank THEN e.rank + 1 ELSE e.rank
  BY LimitAssumption DEF CacheEntry
<1>2. \A e1, e2 \in cache :
        e1 = e2 \/ (Aged(e1).key # Aged(e2).key /\ Aged(e1).rank # Aged(e2).rank)
  BY <1>1 DEF Ranked
<1>3. Promote(cache, hit) = {Aged(e) : e \in cache}
  BY DEF Promote
<1> HIDE DEF Aged
<1>4. QED
  BY <1>2, <1>3 DEF Ranked

(* LruCache::put of a new key into a ranked cache.                         *)
LEMMA InsertKeepsRanked ==
  ASSUME NEW cache \in SUBSET CacheEntry, Ranked(cache),
         NEW key \in ListKeys, key \notin CachedKeys(cache), NEW listing
  PROVE  Ranked(Insert(cache, key, listing))
<1> DEFINE Aged(e) == [e EXCEPT !.rank = e.rank + 1]
           kept == {x \in cache : x.rank + 1 < CacheLimit}
           new == [key |-> key, listing |-> listing, rank |-> 0]
<1>1. \A e \in cache :
        /\ e.rank \in Nat /\ Aged(e).key = e.key /\ Aged(e).rank = e.rank + 1
        /\ e.key # key
  BY LimitAssumption DEF CacheEntry, CachedKeys
<1>2. \A e1, e2 \in cache :
        e1 = e2 \/ (Aged(e1).key # Aged(e2).key /\ Aged(e1).rank # Aged(e2).rank)
  BY <1>1 DEF Ranked
<1>3. \A e \in cache : Aged(e).key # new.key /\ Aged(e).rank # new.rank
  BY <1>1
<1>4. Insert(cache, key, listing) = {Aged(e) : e \in kept} \cup {new}
  BY DEF Insert
<1>5. kept \subseteq cache
  OBVIOUS
<1> HIDE DEF Aged, kept, new
<1>6. QED
  BY <1>2, <1>3, <1>4, <1>5 DEF Ranked

(* No step gives a cache two entries of one key or of one rank.            *)
LEMMA NextKeepsRanked == TypeOK /\ CachesAreRanked /\ [Next]_vars => CachesAreRanked'
<1> SUFFICES ASSUME TypeOK, CachesAreRanked, [Next]_vars PROVE CachesAreRanked'
  OBVIOUS
<1>1. list_caches \in [Formats -> SUBSET CacheEntry] /\ \A f \in Formats : Ranked(list_caches[f])
  BY DEF TypeOK, CachesAreRanked, Ranked
<1>2. ASSUME NEW f \in Formats, NEW key \in ListKeys, ListPoliciesHit(f, key)
      PROVE  CachesAreRanked'
  <2>1. PICK hit \in list_caches[f] : list_caches' = [list_caches EXCEPT ![f] = Promote(list_caches[f], hit)]
    BY <1>2 DEF ListPoliciesHit
  <2>2. Ranked(Promote(list_caches[f], hit))
    BY <1>1, PromoteKeepsRanked
  <2>3. QED
    BY <1>1, <2>1, <2>2 DEF CachesAreRanked, Ranked
<1>3. ASSUME NEW f \in Formats, NEW key \in ListKeys, ListPoliciesMiss(f, key)
      PROVE  CachesAreRanked'
  <2>1. list_caches' = [list_caches EXCEPT ![f] = Insert(list_caches[f], key, engine.dsl)]
    BY <1>3 DEF ListPoliciesMiss
  <2>2. Ranked(Insert(list_caches[f], key, engine.dsl))
    BY <1>1, <1>3, InsertKeepsRanked DEF ListPoliciesMiss
  <2>3. QED
    BY <1>1, <2>1, <2>2 DEF CachesAreRanked, Ranked
<1>4. CASE UNCHANGED list_caches \/ list_caches' = NoListings
  BY <1>4, NoListingsType DEF CachesAreRanked
<1>5. ASSUME NEW p \in PolicyTexts, UploadPolicies(p) \/ LoadPolicies(p) PROVE CachesAreRanked'
  BY <1>4, <1>5 DEF UploadPolicies, LoadPolicies, SetDsl
<1>6. ASSUME NEW s \in SchemaTexts, UploadSchema(s) \/ LoadSchema(s) PROVE CachesAreRanked'
  BY <1>4, <1>6 DEF UploadSchema, LoadSchema, SetSchema
<1>7. ASSUME NEW b \in Bundles, UploadBundle(b) \/ LoadBundle(b) PROVE CachesAreRanked'
  BY <1>4, <1>7 DEF UploadBundle, LoadBundle, ApplyPreparedBundle
<1>8. ASSUME NEW l \in LabelTexts, LoadLabels(l) PROVE CachesAreRanked'
  BY <1>4, <1>8 DEF LoadLabels, SetLabels
<1>9. ASSUME NEW kind \in RemoteSourceKind, NEW url \in Endpoints, ConfigureRemoteSource(kind, url)
      PROVE  CachesAreRanked'
  BY <1>4, <1>9 DEF ConfigureRemoteSource
<1>10. CASE StartServing \/ UNCHANGED vars
  BY <1>4, <1>10 DEF StartServing, vars
<1>11. QED
  BY <1>2, <1>3, <1>5, <1>6, <1>7, <1>8, <1>9, <1>10 DEF Next

(* list_policies_raw and list_policies_json evict the least recently used  *)
(* listing: no key is cached twice and no two entries share a rank.        *)
THEOREM CacheRanking == Spec => []CachesAreRanked
<1>1. Init => CachesAreRanked
  BY NoListingsType DEF Init, CachesAreRanked
<1>2. QED
  BY <1>1, NextKeepsRanked, TypeCorrectness, PTL DEF Spec

=============================================================================
