---------------------------- MODULE PolicyStore ----------------------------
(***************************************************************************)
(* The policy store (src/src/state.rs): the prepared engine that answers   *)
(* authorization requests, the metadata that is reported for its policy,   *)
(* label and schema documents, the bundle it came from, the load status of *)
(* the remote sources and the two caches of policy listings.               *)
(*                                                                         *)
(* Every method that writes runs under the write half of the store's       *)
(* RwLock, so one method is one step here.  A method whose checks fail     *)
(* returns before its first assignment: its step would be a stutter, and   *)
(* the operators ...Accepted below say when it is taken.                   *)
(*                                                                         *)
(* Documents are opaque values.  What Cedar, treetop_core and              *)
(* treetop_bundle say of them (they parse, they fit together) is given by  *)
(* the constant sets and relations below.                                  *)
(***************************************************************************)
EXTENDS Naturals

CONSTANTS
  PolicyTexts,    \* documents that can arrive as policies
  LabelTexts,     \* ... as a label document
  SchemaTexts,    \* ... as a schema
  Empty,          \* the empty document, the content of a new store
  Compiles,       \* policy documents that parse
  ValidLabels,    \* label documents that LabelSet::from_json_str accepts
  RuleFree,       \* those of them that hold no rule, such as []
  ValidSchemas,   \* schema documents that CedarSchema accepts
  PolicyFits,     \* pairs <<policies, schema>> that the strict validator passes
  LabelsFit,      \* pairs <<labels, schema>> that agree on types
  Bundles,        \* archives that treetop_bundle validates
  NoBundle,
  Endpoints,      \* URLs of remote sources
  NoSource,
  NoLabelers,     \* an engine without a label registry
  ListKeys,       \* normalized (user, groups, namespaces) filters
  CacheLimit      \* LIST_POLICIES_CACHE_LIMIT

ASSUME DocumentAssumption ==
  /\ Empty \in Compiles
  /\ Compiles \subseteq PolicyTexts
  /\ ValidLabels \subseteq LabelTexts /\ Empty \notin ValidLabels
  /\ RuleFree \subseteq ValidLabels
  /\ ValidSchemas \subseteq SchemaTexts /\ Empty \notin ValidSchemas
  /\ PolicyFits \subseteq Compiles \X ValidSchemas
  /\ LabelsFit \subseteq ValidLabels \X ValidSchemas
  /\ NoLabelers \notin ValidLabels

(* A validated bundle is complete: with a schema, its policies and labels  *)
(* fit that schema ("Bundle loads always apply strict aggregate schema     *)
(* validation when a schema is present", Changelog.md).                    *)
ASSUME BundleAssumption ==
  /\ NoBundle \notin Bundles
  /\ \A b \in Bundles :
       /\ b \in [policies : Compiles, labels : ValidLabels, schema : ValidSchemas \cup {Empty}]
       /\ b.schema # Empty => /\ <<b.policies, b.schema>> \in PolicyFits
                              /\ <<b.labels, b.schema>> \in LabelsFit

ASSUME LimitAssumption == CacheLimit \in Nat \ {0}
ASSUME EndpointAssumption == NoSource \notin Endpoints

VARIABLES
  schema_validation_mode,   \* "permissive" or "strict", fixed at startup
  bundle_engine_mode,       \* layout of bundle engines, fixed at startup
  serving,                  \* HttpServer::run() has been reached
  bundle_url_mode,          \* a bundle URL is configured
  engine,                   \* what requests are evaluated against
  request_context_status,   \* why the engine has or has not a schema
  policies, labels, schema, \* metadata: content and remote source
  label_registry_labelers,  \* the labelers that the next rebuild installs
  bundle,                   \* the bundle the whole state came from, if any
  remote_loads,             \* per source: configuration and confirmed load
  list_caches               \* the raw and the JSON cache of policy listings

startupVars == <<schema_validation_mode, bundle_engine_mode>>
partVars    == <<engine, request_context_status, policies, labels, schema,
                 label_registry_labelers, bundle>>
vars == <<startupVars, serving, bundle_url_mode, partVars, remote_loads, list_caches>>

Components == {"policies", "labels", "schema"}
RemoteSourceKind == Components \cup {"bundle"}
Formats == {"raw", "json"}

-----------------------------------------------------------------------------
(* Helpers of the store's methods.                                         *)

Strict == schema_validation_mode = "strict"

(* runtime_schema_for_dsl: the status of policies p next to schema s ...   *)
SchemaStatus(p, s) ==
  IF s = Empty THEN "no_schema"
  ELSE IF <<p, s>> \in PolicyFits THEN "schema_backed"
  ELSE "schema_incompatible"

(* ... and whether the mode lets an engine be built from them.             *)
RuntimeSchemaAccepted(p, s) == Strict => SchemaStatus(p, s) # "schema_incompatible"

Labelers(l) == IF l \in ValidLabels \ RuleFree THEN l ELSE NoLabelers

(* build_engine_from_parts: a registry is installed, under the digest of   *)
(* the label document, only when there is at least one labeler.            *)
BuiltEngine(p, s, labelers, version) ==
  [ dsl       |-> p,
    schema    |-> IF SchemaStatus(p, s) = "schema_backed" THEN s ELSE Empty,
    labelers  |-> labelers,
    label_set |-> IF labelers = NoLabelers THEN NoLabelers ELSE version,
    layout    |-> "monolithic" ]

(* rebuild_engine_for_dsl_with_parts *)
RebuildEngine(p, s, labelers, version) ==
  /\ engine' = BuiltEngine(p, s, labelers, version)
  /\ request_context_status' = SchemaStatus(p, s)

NoListings == [f \in Formats |-> {}]

-----------------------------------------------------------------------------
(* The replacing operations: set_dsl, set_labels, set_schema and           *)
(* apply_prepared_bundle, each with the checks that may reject it.         *)

PolicyUpdateAccepted(p) ==
  /\ Strict => schema.content # Empty
  /\ p \in Compiles
  /\ RuntimeSchemaAccepted(p, schema.content)

SetDsl(p, source) ==
  /\ PolicyUpdateAccepted(p)
  /\ RebuildEngine(p, schema.content, label_registry_labelers, labels.content)
  /\ policies' = [content |-> p, source |-> source]
  /\ bundle' = NoBundle
  /\ list_caches' = NoListings
  /\ UNCHANGED <<labels, schema, label_registry_labelers>>

LabelUpdateAccepted(l) ==
  /\ l \in ValidLabels
  /\ schema.content # Empty => <<l, schema.content>> \in LabelsFit
  /\ RuntimeSchemaAccepted(policies.content, schema.content)

(* Fault: the labelers kept for later rebuilds are not updated.            *)
SetLabelsKeepingLabelers(l, source) ==
  /\ LabelUpdateAccepted(l)
  /\ RebuildEngine(policies.content, schema.content, Labelers(l), l)
  /\ labels' = [content |-> l, source |-> source]
  /\ bundle' = NoBundle
  /\ list_caches' = NoListings
  /\ UNCHANGED <<policies, schema, label_registry_labelers>>

SetLabels(l, source) ==
  /\ LabelUpdateAccepted(l)
  /\ RebuildEngine(policies.content, schema.content, Labelers(l), l)
  /\ label_registry_labelers' = Labelers(l)
  /\ labels' = [content |-> l, source |-> source]
  /\ bundle' = NoBundle
  /\ list_caches' = NoListings
  /\ UNCHANGED <<policies, schema>>

(* Fault: the policies in place are not validated against a new schema.    *)
SchemaUpdateAcceptedUnvalidated(s) ==
  s \in ValidSchemas /\ (labels.content # Empty => <<labels.content, s>> \in LabelsFit)

(* Fault: only set_labels compares labels with the schema.                 *)
SchemaUpdateAcceptedForAnyLabels(s) ==
  s \in ValidSchemas /\ RuntimeSchemaAccepted(policies.content, s)

SchemaUpdateAccepted(s) ==
  /\ s \in ValidSchemas
  /\ labels.content # Empty => <<labels.content, s>> \in LabelsFit
  /\ RuntimeSchemaAccepted(policies.content, s)

(* Fault: the component update does not end the bundle.                    *)
SetSchemaKeepingBundle(s, source) ==
  /\ SchemaUpdateAccepted(s)
  /\ RebuildEngine(policies.content, s, label_registry_labelers, labels.content)
  /\ schema' = [content |-> s, source |-> source]
  /\ UNCHANGED <<policies, labels, label_registry_labelers, list_caches, bundle>>

(* Fault: the engine is replaced before the labels are checked.            *)
SetSchemaRebuildingFirst(s, source) ==
  /\ s \in ValidSchemas /\ RuntimeSchemaAccepted(policies.content, s)
  /\ RebuildEngine(policies.content, s, label_registry_labelers, labels.content)
  /\ schema' = IF SchemaUpdateAccepted(s) THEN [content |-> s, source |-> source] ELSE schema
  /\ bundle' = IF SchemaUpdateAccepted(s) THEN NoBundle ELSE bundle
  /\ UNCHANGED <<policies, labels, label_registry_labelers, list_caches>>

(* Unlike the other three, set_schema leaves the listing caches alone.     *)
SetSchema(s, source) ==
  /\ SchemaUpdateAccepted(s)
  /\ RebuildEngine(policies.content, s, label_registry_labelers, labels.content)
  /\ schema' = [content |-> s, source |-> source]
  /\ bundle' = NoBundle
  /\ UNCHANGED <<policies, labels, label_registry_labelers, list_caches>>

(* prepare_bundle_with_engine_mode: the candidate built outside the lock.  *)
PreparedBundle(b, source) ==
  [ engine  |-> [ dsl       |-> b.policies,
                  schema    |-> b.schema,
                  labelers  |-> Labelers(b.labels),
                  label_set |-> Labelers(b.labels),
                  layout    |-> bundle_engine_mode ],
    status  |-> IF b.schema = Empty THEN "no_schema" ELSE "schema_backed",
    policies |-> [content |-> b.policies, source |-> source],
    labels  |-> [content |-> b.labels, source |-> source],
    schema  |-> [content |-> b.schema, source |-> source],
    labelers |-> Labelers(b.labels),
    bundle  |-> b ]

BundleAccepted(b) == Strict => b.schema # Empty

(* Fault: one of the two caches is forgotten.                              *)
ApplyPreparedBundleKeepingJson(prepared) ==
  /\ BundleAccepted(prepared.bundle)
  /\ list_caches' = [list_caches EXCEPT !["raw"] = {}]
  /\ engine' = prepared.engine
  /\ policies' = prepared.policies
  /\ labels' = prepared.labels
  /\ schema' = prepared.schema
  /\ label_registry_labelers' = prepared.labelers
  /\ request_context_status' = prepared.status
  /\ bundle' = prepared.bundle

(* Fault: a bundle without label rules leaves the labels as they are.      *)
ApplyPreparedBundleMergingLabels(prepared) ==
  /\ BundleAccepted(prepared.bundle)
  /\ list_caches' = NoListings
  /\ engine' = prepared.engine
  /\ policies' = prepared.policies
  /\ labels' = IF prepared.labelers = NoLabelers THEN labels ELSE prepared.labels
  /\ schema' = prepared.schema
  /\ label_registry_labelers' = prepared.labelers
  /\ request_context_status' = prepared.status
  /\ bundle' = prepared.bundle

ApplyPreparedBundle(prepared) ==
  /\ BundleAccepted(prepared.bundle)
  /\ list_caches' = NoListings
  /\ engine' = prepared.engine
  /\ policies' = prepared.policies
  /\ labels' = prepared.labels
  /\ schema' = prepared.schema
  /\ label_registry_labelers' = prepared.labelers
  /\ request_context_status' = prepared.status
  /\ bundle' = prepared.bundle

-----------------------------------------------------------------------------
(* Remote sources and readiness.                                           *)

(* configure_remote_source, called by each fetcher's spawn before its task *)
(* can run.  It asks for a fresh confirmed load.                           *)
ConfigureRemoteSource(kind, url) ==
  /\ ~serving
  /\ remote_loads' = [remote_loads EXCEPT ![kind] = [configuration |-> url, loaded |-> FALSE]]
  /\ policies' = IF kind = "policies" THEN [policies EXCEPT !.source = url] ELSE policies
  /\ labels' = IF kind = "labels" THEN [labels EXCEPT !.source = url] ELSE labels
  /\ schema' = IF kind = "schema" THEN [schema EXCEPT !.source = url] ELSE schema
  /\ bundle_url_mode' = (bundle_url_mode \/ kind = "bundle")
  /\ UNCHANGED <<startupVars, serving, engine, request_context_status,
                 label_registry_labelers, bundle, list_caches>>

Configured(kind) == remote_loads[kind].configuration # NoSource

(* bundle_runtime_config: a bundle URL excludes the three component URLs.  *)
ConfigurationAllowed(kind) ==
  IF kind = "bundle" THEN \A k \in Components : ~Configured(k) ELSE ~bundle_url_mode

MarkRemoteSourceLoaded(kind) ==
  remote_loads' = [remote_loads EXCEPT ![kind].loaded = TRUE]

(* Fault: only the metadata tells whether a source is remote.              *)
SourceReadyByMetadata(kind, metadataHasSource) ==
  metadataHasSource => remote_loads[kind].loaded

(* RemoteSourceStatus::ready                                               *)
SourceReady(kind, metadataHasSource) ==
  Configured(kind) \/ metadataHasSource => remote_loads[kind].loaded

(* configured_sources_loaded, what readyz reports.                         *)
ConfiguredSourcesLoaded ==
  IF bundle_url_mode
  THEN SourceReady("bundle", TRUE)
  ELSE /\ SourceReady("policies", policies.source # NoSource)
       /\ SourceReady("labels", labels.source # NoSource)
       /\ SourceReady("schema", schema.source # NoSource)

-----------------------------------------------------------------------------
(* The listing caches: an LRU cache is a set of entries, rank 0 the most   *)
(* recently used.  The listing of a key is determined by the policy text   *)
(* it was computed from.                                                   *)

CachedKeys(cache) == {e.key : e \in cache}

(* LruCache::get: the entry becomes the most recent one.                   *)
Promote(cache, hit) ==
  {IF e = hit THEN [e EXCEPT !.rank = 0]
   ELSE IF e.rank < hit.rank THEN [e EXCEPT !.rank = @ + 1] ELSE e : e \in cache}

(* Fault: no limit.                                                        *)
InsertWithoutLimit(cache, key, listing) ==
  {[e EXCEPT !.rank = @ + 1] : e \in cache} \cup {[key |-> key, listing |-> listing, rank |-> 0]}

(* LruCache::put of a key that is absent: the oldest entry makes room.     *)
Insert(cache, key, listing) ==
  {[e EXCEPT !.rank = @ + 1] : e \in {x \in cache : x.rank + 1 < CacheLimit}}
    \cup {[key |-> key, listing |-> listing, rank |-> 0]}

-----------------------------------------------------------------------------
(* What the running server does with the store.                            *)

StartServing ==
  /\ ~serving
  /\ serving' = TRUE
  /\ UNCHANGED <<startupVars, bundle_url_mode, partVars, remote_loads, list_caches>>

unchangedByUpdates == <<startupVars, serving, bundle_url_mode>>

(* Fault: an upload counts as the load of the remote source.               *)
UploadPoliciesMarkingLoaded(p) ==
  /\ serving /\ ~bundle_url_mode /\ p # Empty
  /\ SetDsl(p, policies.source)
  /\ MarkRemoteSourceLoaded("policies")
  /\ UNCHANGED unchangedByUpdates

(* An upload keeps the source that the metadata had (source.or(old)); a    *)
(* bundle uploaded by hand has none.                                       *)
UploadPolicies(p) ==
  /\ serving /\ ~bundle_url_mode /\ p # Empty
  /\ SetDsl(p, policies.source)
  /\ UNCHANGED <<unchangedByUpdates, remote_loads>>

UploadSchema(s) ==
  /\ serving /\ ~bundle_url_mode /\ s # Empty
  /\ SetSchema(s, schema.source)
  /\ UNCHANGED <<unchangedByUpdates, remote_loads>>

(* Fault: the bundle replaces the load status of the remote sources too.   *)
UploadBundleForgettingLoads(b) ==
  /\ serving
  /\ ApplyPreparedBundle(PreparedBundle(b, NoSource))
  /\ remote_loads' = [k \in RemoteSourceKind |-> [remote_loads[k] EXCEPT !.loaded = FALSE]]
  /\ UNCHANGED unchangedByUpdates

UploadBundle(b) ==
  /\ serving
  /\ ApplyPreparedBundle(PreparedBundle(b, NoSource))
  /\ UNCHANGED <<unchangedByUpdates, remote_loads>>

(* apply_successful_response of the three fetch adapters: the update and   *)
(* mark_remote_source_loaded in one critical section, so that the metadata *)
(* ends with the configured source.                                        *)
LoadPolicies(p) ==
  /\ serving /\ Configured("policies")
  /\ SetDsl(p, remote_loads["policies"].configuration)
  /\ MarkRemoteSourceLoaded("policies")
  /\ UNCHANGED unchangedByUpdates

LoadLabels(l) ==
  /\ serving /\ Configured("labels")
  /\ SetLabels(l, remote_loads["labels"].configuration)
  /\ MarkRemoteSourceLoaded("labels")
  /\ UNCHANGED unchangedByUpdates

LoadSchema(s) ==
  /\ serving /\ Configured("schema")
  /\ SetSchema(s, remote_loads["schema"].configuration)
  /\ MarkRemoteSourceLoaded("schema")
  /\ UNCHANGED unchangedByUpdates

LoadBundle(b) ==
  /\ serving /\ Configured("bundle")
  /\ ApplyPreparedBundle(PreparedBundle(b, remote_loads["bundle"].configuration))
  /\ MarkRemoteSourceLoaded("bundle")
  /\ UNCHANGED unchangedByUpdates

(* list_policies_raw and list_policies_json, under the read lock.          *)
ListPoliciesHit(f, key) ==
  /\ serving
  /\ \E hit \in list_caches[f] :
       /\ hit.key = key
       /\ list_caches' = [list_caches EXCEPT ![f] = Promote(@, hit)]
  /\ UNCHANGED <<unchangedByUpdates, partVars, remote_loads>>

ListPoliciesMiss(f, key) ==
  /\ serving
  /\ key \notin CachedKeys(list_caches[f])
  /\ list_caches' = [list_caches EXCEPT ![f] = Insert(@, key, engine.dsl)]
  /\ UNCHANGED <<unchangedByUpdates, partVars, remote_loads>>

-----------------------------------------------------------------------------
(* PolicyStore::new, then server.rs: the modes are set before serving.     *)
Init ==
  /\ schema_validation_mode \in {"permissive", "strict"}
  /\ bundle_engine_mode \in {"monolithic", "modules"}
  /\ serving = FALSE
  /\ bundle_url_mode = FALSE
  /\ engine = [dsl |-> Empty, schema |-> Empty, labelers |-> NoLabelers,
               label_set |-> NoLabelers, layout |-> "monolithic"]
  /\ request_context_status = "no_schema"
  /\ policies = [content |-> Empty, source |-> NoSource]
  /\ labels = [content |-> Empty, source |-> NoSource]
  /\ schema = [content |-> Empty, source |-> NoSource]
  /\ label_registry_labelers = NoLabelers
  /\ bundle = NoBundle
  /\ remote_loads = [k \in RemoteSourceKind |-> [configuration |-> NoSource, loaded |-> FALSE]]
  /\ list_caches = NoListings

Next ==
  \/ \E kind \in RemoteSourceKind, url \in Endpoints :
       ConfigurationAllowed(kind) /\ ConfigureRemoteSource(kind, url)
  \/ StartServing
  \/ \E p \in PolicyTexts : UploadPolicies(p)
  \/ \E s \in SchemaTexts : UploadSchema(s)
  \/ \E b \in Bundles : UploadBundle(b)
  \/ \E p \in PolicyTexts : LoadPolicies(p)
  \/ \E l \in LabelTexts : LoadLabels(l)
  \/ \E s \in SchemaTexts : LoadSchema(s)
  \/ \E b \in Bundles : LoadBundle(b)
  \/ \E f \in Formats, key \in ListKeys : ListPoliciesHit(f, key)
  \/ \E f \in Formats, key \in ListKeys : ListPoliciesMiss(f, key)

Spec == Init /\ [][Next]_vars

-----------------------------------------------------------------------------
(* Properties.                                                             *)

Engine == [ dsl : PolicyTexts, schema : SchemaTexts \cup {Empty},
            labelers : LabelTexts \cup {NoLabelers},
            label_set : LabelTexts \cup {NoLabelers, Empty},
            layout : {"monolithic", "modules"} ]
Source == Endpoints \cup {NoSource}
CacheEntry == [key : ListKeys, listing : PolicyTexts, rank : 0 .. CacheLimit - 1]

(* Every field of PolicyStore holds a value of its Rust type, and a cache  *)
(* never holds more than its limit.                                        *)
TypeOK ==
  /\ schema_validation_mode \in {"permissive", "strict"}
  /\ bundle_engine_mode \in {"monolithic", "modules"}
  /\ serving \in BOOLEAN
  /\ bundle_url_mode \in BOOLEAN
  /\ engine \in Engine
  /\ request_context_status \in {"no_schema", "schema_backed", "schema_incompatible"}
  /\ policies \in [content : PolicyTexts, source : Source]
  /\ labels \in [content : LabelTexts \cup {Empty}, source : Source]
  /\ schema \in [content : SchemaTexts \cup {Empty}, source : Source]
  /\ label_registry_labelers \in LabelTexts \cup {NoLabelers}
  /\ bundle \in Bundles \cup {NoBundle}
  /\ remote_loads \in [RemoteSourceKind -> [configuration : Source, loaded : BOOLEAN]]
  /\ list_caches \in [Formats -> SUBSET CacheEntry]

(* The engine that answers requests is the one the reported metadata       *)
(* describes: its policies, its labels and their digest, and its schema    *)
(* when the status says so; the status is the one these documents have.    *)
EngineMatchesMetadata ==
  /\ engine.dsl = policies.content
  /\ engine.labelers = Labelers(labels.content)
  /\ engine.label_set = Labelers(labels.content)
  /\ request_context_status = SchemaStatus(policies.content, schema.content)
  /\ engine.schema = IF request_context_status = "schema_backed" THEN schema.content ELSE Empty

(* "Use TREETOP_SCHEMA_VALIDATION_MODE=strict when every policy state must *)
(* have a compatible schema" (docs/security.md): no order of uploads,      *)
(* remote loads and bundles leaves the strict server without one.          *)
StrictStatesHaveCompatibleSchema ==
  Strict => \/ request_context_status = "schema_backed"
            \/ request_context_status = "no_schema" /\ policies.content = Empty

(* set_schema checks the labels it finds and set_labels the schema it      *)
(* finds: whichever came last, installed labels fit the active schema.     *)
LabelsFitActiveSchema ==
  labels.content # Empty /\ schema.content # Empty
    => <<labels.content, schema.content>> \in LabelsFit

(* "bundle" is reported only while the whole active state is that of the   *)
(* bundle, and a per-module engine serves only a bundle.                   *)
BundleDescribesActiveState ==
  /\ bundle # NoBundle =>
       /\ policies.content = bundle.policies
       /\ labels.content = bundle.labels
       /\ schema.content = bundle.schema
       /\ engine.layout = bundle_engine_mode
  /\ engine.layout = "modules" => bundle # NoBundle

(* A cached listing is the one the present engine would give, in both      *)
(* formats: every update that changes the policy text clears them.         *)
CachedListingsAreCurrent ==
  \A f \in Formats : \A e \in list_caches[f] : e.listing = engine.dsl

(* An LRU cache holds a key once and ranks its entries 0, 1, 2, ...: what  *)
(* is evicted at the limit is the least recently used listing.             *)
CachesAreRanked ==
  \A f \in Formats : \A e1, e2 \in list_caches[f] :
    e1 = e2 \/ (e1.key # e2.key /\ e1.rank # e2.rank)

(* Once serving, ready means that every configured source has had its      *)
(* confirmed load, whatever local uploads did to the metadata meanwhile.   *)
ReadyMeansRemotesLoaded ==
  ConfiguredSourcesLoaded
    => \A k \in RemoteSourceKind : Configured(k) => remote_loads[k].loaded

(* "later failures ... do not make the instance unready": no update of a   *)
(* serving store, a bundle upload included, takes readiness back.          *)
ReadinessIsKept ==
  [][serving /\ ConfiguredSourcesLoaded => ConfiguredSourcesLoaded']_vars

-----------------------------------------------------------------------------
(* The abstract state that readers are promised, and its implementation.   *)
ReportedState == [ policies |-> policies.content,
                   labels   |-> labels.content,
                   schema   |-> schema.content ]

ServedRuntime == [ dsl    |-> engine.dsl,
                   schema |-> engine.schema,
                   labels |-> engine.labelers ]

Active == INSTANCE ActiveState
            WITH mode <- schema_validation_mode, active <- ReportedState,
                 runtime <- ServedRuntime, provenance <- bundle

(* Every step of the store replaces one part, or everything by a bundle,   *)
(* with an admissible state whose runtime is installed in the same step,   *)
(* or changes nothing that readers see ("A rejected update leaves the      *)
(* last-known-good engine and metadata available", docs/security.md).      *)
ImplementsActiveState == Active!StateSpec

=============================================================================
