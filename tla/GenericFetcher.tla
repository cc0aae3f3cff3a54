--------------------------- MODULE GenericFetcher ---------------------------
(***************************************************************************)
(* The background tasks that follow the policy, label and schema URLs      *)
(* (src/src/fetcher/generic.rs with its three adapters), composed with the *)
(* policy store they write to, the origins they read from and the uploads  *)
(* of administrators.                                                      *)
(*                                                                         *)
(* A task loops over check_and_update: a conditional HEAD, an              *)
(* unconditional GET, and the update of the store.  Each await is a step   *)
(* boundary: origins change and uploads arrive between two of them.  A     *)
(* poll that ends with a 304 or with a failed HEAD changes nothing and is  *)
(* a stutter.  All requests of one task go to one URL.                     *)
(***************************************************************************)
EXTENDS PolicyStore

CONSTANTS
  Sources,          \* the components whose URL is configured
  SendsValidators,  \* those whose origin sends an ETag or Last-Modified
  MaxPublications,  \* bound on the changes of all origins together
  None

ASSUME SourcesAssumption ==
  /\ Sources \subseteq Components
  /\ SendsValidators \subseteq Sources
  /\ MaxPublications \in Nat
  /\ None \notin PolicyTexts \cup LabelTexts \cup SchemaTexts

VARIABLES
  allow_upload,   \* config.allow_upload
  origin,         \* the document each URL serves
  publications,   \* how often the origins changed
  fetcher         \* per task: step, validator (etag), hash and body in hand

environment == <<allow_upload, origin, publications>>
fetchVars == <<vars, environment, fetcher>>

Documents(kind) == CASE kind = "policies" -> PolicyTexts
                     [] kind = "labels" -> LabelTexts
                     [] kind = "schema" -> SchemaTexts

Content(kind) == CASE kind = "policies" -> policies.content
                   [] kind = "labels" -> labels.content
                   [] kind = "schema" -> schema.content

UpdateAccepted(kind, d) == CASE kind = "policies" -> PolicyUpdateAccepted(d)
                             [] kind = "labels" -> LabelUpdateAccepted(d)
                             [] kind = "schema" -> SchemaUpdateAccepted(d)

(* apply_successful_response of the adapter.                               *)
ApplySuccessfulResponse(kind, d) ==
  \/ kind = "policies" /\ LoadPolicies(d)
  \/ kind = "labels" /\ LoadLabels(d)
  \/ kind = "schema" /\ LoadSchema(d)

(* The validator an origin sends with a document identifies it exactly.    *)
Validator(kind, d) == IF kind \in SendsValidators THEN d ELSE None

-----------------------------------------------------------------------------
(* One task.                                                               *)

At(kind, step) == serving /\ Configured(kind) /\ fetcher[kind].step = step

NotModified(kind) == fetcher[kind].etag # None /\ fetcher[kind].etag = Validator(kind, origin[kind])

(* HEAD answered with success: the validators are kept from here on.       *)
HeadModified(kind) ==
  /\ At(kind, "sleep") /\ ~NotModified(kind)
  /\ fetcher' = [fetcher EXCEPT ![kind].step = "get", ![kind].etag = Validator(kind, origin[kind])]
  /\ UNCHANGED <<vars, environment>>

(* HEAD answered with another status, as by an origin without HEAD.        *)
HeadOtherStatus(kind) ==
  /\ At(kind, "sleep")
  /\ fetcher' = [fetcher EXCEPT ![kind].step = "get"]
  /\ UNCHANGED <<vars, environment>>

GetSucceeds(kind) ==
  /\ At(kind, "get")
  /\ fetcher' = [fetcher EXCEPT ![kind].step = "body", ![kind].body = origin[kind]]
  /\ UNCHANGED <<vars, environment>>

(* No answer, or a status other than success.                              *)
GetFails(kind) ==
  /\ At(kind, "get")
  /\ fetcher' = [fetcher EXCEPT ![kind].step = "sleep"]
  /\ UNCHANGED <<vars, environment>>

Sleep(kind, hash) ==
  fetcher' = [fetcher EXCEPT ![kind].step = "sleep", ![kind].hash = hash, ![kind].body = None]

(* Fault: the hash is recorded before the update is known to be accepted.  *)
RejectBodyKeepingHash(kind) ==
  /\ At(kind, "body") /\ fetcher[kind].body # fetcher[kind].hash
  /\ ~UpdateAccepted(kind, fetcher[kind].body)
  /\ Sleep(kind, fetcher[kind].body)
  /\ UNCHANGED <<vars, environment>>

BodyUnchanged(kind) ==
  /\ At(kind, "body") /\ fetcher[kind].body = fetcher[kind].hash
  /\ Sleep(kind, fetcher[kind].hash)
  /\ UNCHANGED <<vars, environment>>

RejectBody(kind) ==
  /\ At(kind, "body") /\ fetcher[kind].body # fetcher[kind].hash
  /\ ~UpdateAccepted(kind, fetcher[kind].body)
  /\ Sleep(kind, fetcher[kind].hash)
  /\ UNCHANGED <<vars, environment>>

(* Fault: every body that arrives is applied.                              *)
ApplyAnyBody(kind) ==
  /\ At(kind, "body")
  /\ ApplySuccessfulResponse(kind, fetcher[kind].body)
  /\ Sleep(kind, fetcher[kind].body)
  /\ UNCHANGED environment

ApplyBody(kind) ==
  /\ At(kind, "body") /\ fetcher[kind].body # fetcher[kind].hash
  /\ ApplySuccessfulResponse(kind, fetcher[kind].body)
  /\ Sleep(kind, fetcher[kind].body)
  /\ UNCHANGED environment

-----------------------------------------------------------------------------
(* The environment: origins, startup and administrators.                   *)

Publish(kind, d) ==
  /\ publications < MaxPublications /\ d # origin[kind]
  /\ origin' = [origin EXCEPT ![kind] = d]
  /\ publications' = publications + 1
  /\ UNCHANGED <<vars, fetcher, allow_upload>>

Startup ==
  /\ \/ \E kind \in Sources, url \in Endpoints : ~Configured(kind) /\ ConfigureRemoteSource(kind, url)
     \/ (\A kind \in Sources : Configured(kind)) /\ StartServing
  /\ UNCHANGED <<environment, fetcher>>

Upload ==
  /\ allow_upload
  /\ \/ \E p \in PolicyTexts : UploadPolicies(p)
     \/ \E s \in SchemaTexts : UploadSchema(s)
     \/ \E b \in Bundles : UploadBundle(b)
  /\ UNCHANGED <<environment, fetcher>>

FetchInit ==
  /\ Init
  /\ allow_upload \in BOOLEAN
  /\ origin \in [Sources -> PolicyTexts \cup LabelTexts \cup SchemaTexts]
  /\ \A kind \in Sources : origin[kind] \in Documents(kind)
  /\ publications = 0
  /\ fetcher = [kind \in Sources |-> [step |-> "sleep", etag |-> None, hash |-> None, body |-> None]]

Poll(kind) ==
  \/ HeadModified(kind)
  \/ HeadOtherStatus(kind)
  \/ GetSucceeds(kind)
  \/ GetFails(kind)
  \/ BodyUnchanged(kind)
  \/ RejectBody(kind)
  \/ ApplyBody(kind)

FetchNext ==
  \/ \E kind \in Sources : Poll(kind)
  \/ \E kind \in Sources : \E d \in Documents(kind) : Publish(kind, d)
  \/ Startup
  \/ Upload

FetchSpec == FetchInit /\ [][FetchNext]_fetchVars

(* The loop never ends and the runtime schedules its task: what can be     *)
(* done with a body is done.  A HEAD and a GET that are repeated for ever  *)
(* do not fail for ever.                                                   *)
FetchFairness ==
  /\ WF_fetchVars(Startup)
  /\ \A kind \in Sources :
       /\ SF_fetchVars(HeadModified(kind))
       /\ SF_fetchVars(GetSucceeds(kind))
       /\ WF_fetchVars(BodyUnchanged(kind) \/ RejectBody(kind) \/ ApplyBody(kind))

LiveFetchSpec == FetchSpec /\ FetchFairness

-----------------------------------------------------------------------------
(* Properties.                                                             *)

Remembered == PolicyTexts \cup LabelTexts \cup SchemaTexts \cup {None}

(* Each task is between two awaits of check_and_update, and it has a body  *)
(* in hand only from the end of the GET to the update of the store.        *)
FetchTypeOK ==
  /\ allow_upload \in BOOLEAN
  /\ origin \in [Sources -> PolicyTexts \cup LabelTexts \cup SchemaTexts]
  /\ publications \in 0 .. MaxPublications
  /\ fetcher \in [Sources -> [step : {"sleep", "get", "body"}, etag : Remembered,
                              hash : Remembered, body : Remembered]]
  /\ \A kind \in Sources :
       /\ origin[kind] \in Documents(kind)
       /\ {fetcher[kind].etag, fetcher[kind].hash} \subseteq Documents(kind) \cup {None}
       /\ IF fetcher[kind].step = "body" THEN fetcher[kind].body \in Documents(kind)
                                          ELSE fetcher[kind].body = None

(* A source is marked loaded exactly when a body of it was validated and   *)
(* applied: "A HEAD, 304 Not Modified, content hash, or local upload does  *)
(* not establish the initial remote load" (docs/security.md).              *)
LoadedMeansBodyApplied ==
  \A kind \in Sources : remote_loads[kind].loaded <=> fetcher[kind].hash # None

(* While no administrator interferes, the document whose hash the task     *)
(* remembers is the one being served: a body that is skipped as unchanged  *)
(* is already in force.                                                    *)
RememberedBodyIsServed ==
  ~allow_upload => \A kind \in Sources :
                     fetcher[kind].hash # None => Content(kind) = fetcher[kind].hash

(* A poll never undoes an upload with a document it has applied before: the *)
(* upload stays in force until the origin publishes another document than  *)
(* the last one applied, however many polls fetch that one again and       *)
(* whether or not the origin answers with 304.  The hash of the body, in   *)
(* check_and_update, generic.rs:85-108.                                    *)
PollsKeepUploads ==
  [][\A kind \in Sources :
       fetcher'[kind] # fetcher[kind] /\ Content(kind)' # Content(kind)
         => Content(kind)' # fetcher[kind].hash]_fetchVars

(* "The frequency (in seconds) at which to update the policy file from the *)
(* TREETOP_POLICY_URL" (README.md): once the published documents stay the  *)
(* same and the store would accept one of them, it is applied for good,    *)
(* and in force unless administrators may upload another.                  *)
Served(kind) ==
  <>[](UpdateAccepted(kind, origin[kind])) =>
    <>[]( /\ fetcher[kind].hash = origin[kind]
          /\ ~allow_upload => Content(kind) = origin[kind] )

PublishedPoliciesAreServed == Served("policies")

(* The same for every source whose origin sends no validators.             *)
PublishedDocumentsAreServed == \A kind \in Sources \ SendsValidators : Served(kind)

=============================================================================
