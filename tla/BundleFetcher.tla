--------------------------- MODULE BundleFetcher ---------------------------
(***************************************************************************)
(* Bundle URL mode: the background task that follows the bundle URL        *)
(* (src/src/fetcher/bundle.rs) and the requests that upload bundles        *)
(* (upload_bundle in src/src/handlers.rs), composed with the policy store. *)
(*                                                                         *)
(* Both prepare a complete replacement without holding the store's lock    *)
(* and publish it later in one critical section, so anything may happen to *)
(* the store in between.  A poll that ends with a 304, a failed request or *)
(* another status changes nothing and is a stutter.                        *)
(***************************************************************************)
EXTENDS PolicyStore

CONSTANTS
  Tags,             \* validators (ETag, Last-Modified) the origin can send
  ArchiveOf,        \* the archive that a tag identifies
  BadArchives,      \* too large, unsigned, malformed or inconsistent archives
  Uploaders,        \* concurrent bundle uploads
  MaxPublications,  \* bound on the changes of the origin
  None

ASSUME TagAssumption ==
  /\ ArchiveOf \in [Tags -> Bundles \cup BadArchives]
  /\ None \notin Tags \cup Bundles \cup BadArchives
  /\ Bundles \cap BadArchives = {}
  /\ MaxPublications \in Nat

VARIABLES
  origin,         \* the validator of what the bundle URL serves
  publications,
  fetcher,        \* step, stored validator and archive digest, response in hand
  upload          \* per uploader: None or the bundle that was prepared

bundleVars == <<vars, origin, publications, fetcher, upload>>
environment == <<origin, publications>>

-----------------------------------------------------------------------------
(* check_and_update                                                        *)

At(step) == serving /\ Configured("bundle") /\ fetcher.step = step

(* A conditional GET answered with a body: the validators of the response  *)
(* stay local for now.                                                     *)
GetModified ==
  /\ At("sleep") /\ fetcher.etag # origin
  /\ fetcher' = [fetcher EXCEPT !.step = "body", !.response = origin]
  /\ UNCHANGED <<vars, environment, upload>>

Return(etag, archive) ==
  fetcher' = [step |-> "sleep", etag |-> etag, archive |-> archive, response |-> None]

(* Fault: the validators are adopted before the body is complete.          *)
BodyFailsKeepingValidators ==
  /\ At("body")
  /\ Return(fetcher.response, fetcher.archive)
  /\ UNCHANGED <<vars, environment, upload>>

(* The body breaks off.                                                    *)
BodyFails ==
  /\ At("body")
  /\ Return(fetcher.etag, fetcher.archive)
  /\ UNCHANGED <<vars, environment, upload>>

(* The validators of the response, if it carried any.                      *)
ResponseValidators == {fetcher.response, None}

(* The archive is the one applied last: only the validators are adopted.   *)
BodyUnchanged ==
  /\ At("body") /\ fetcher.archive = ArchiveOf[fetcher.response]
  /\ \E etag \in ResponseValidators : Return(etag, fetcher.archive)
  /\ UNCHANGED <<vars, environment, upload>>

(* Preparation in the blocking pool, with the mode read before.            *)
Preparable(a) == a \in Bundles /\ BundleAccepted(a)

(* Fault: the validators are adopted although nothing is applied.          *)
PrepareFailsKeepingValidators ==
  /\ At("body") /\ fetcher.archive # ArchiveOf[fetcher.response]
  /\ ~Preparable(ArchiveOf[fetcher.response])
  /\ Return(fetcher.response, fetcher.archive)
  /\ UNCHANGED <<vars, environment, upload>>

(* Fault: the digest of a rejected archive is kept.                        *)
PrepareFailsKeepingDigest ==
  /\ At("body") /\ fetcher.archive # ArchiveOf[fetcher.response]
  /\ ~Preparable(ArchiveOf[fetcher.response])
  /\ Return(fetcher.etag, ArchiveOf[fetcher.response])
  /\ UNCHANGED <<vars, environment, upload>>

PrepareFails ==
  /\ At("body") /\ fetcher.archive # ArchiveOf[fetcher.response]
  /\ ~Preparable(ArchiveOf[fetcher.response])
  /\ Return(fetcher.etag, fetcher.archive)
  /\ UNCHANGED <<vars, environment, upload>>

Prepare ==
  /\ At("body") /\ fetcher.archive # ArchiveOf[fetcher.response]
  /\ Preparable(ArchiveOf[fetcher.response])
  /\ fetcher' = [fetcher EXCEPT !.step = "prepared"]
  /\ UNCHANGED <<vars, environment, upload>>

(* Apply and confirm the load under the write lock; then, and only then,   *)
(* keep the validators and the digest.                                     *)
Apply ==
  /\ At("prepared")
  /\ LoadBundle(ArchiveOf[fetcher.response])
  /\ \E etag \in ResponseValidators : Return(etag, ArchiveOf[fetcher.response])
  /\ UNCHANGED <<environment, upload>>

-----------------------------------------------------------------------------
(* upload_bundle, the origin and startup.                                  *)

UploadPrepare(u, b) ==
  /\ serving /\ upload[u] = None /\ BundleAccepted(b)
  /\ upload' = [upload EXCEPT ![u] = b]
  /\ UNCHANGED <<vars, environment, fetcher>>

UploadApply(u) ==
  /\ upload[u] # None
  /\ UploadBundle(upload[u])
  /\ upload' = [upload EXCEPT ![u] = None]
  /\ UNCHANGED <<environment, fetcher>>

Publish(tag) ==
  /\ publications < MaxPublications /\ tag # origin
  /\ origin' = tag
  /\ publications' = publications + 1
  /\ UNCHANGED <<vars, fetcher, upload>>

Startup ==
  /\ \/ \E url \in Endpoints : ~Configured("bundle") /\ ConfigureRemoteSource("bundle", url)
     \/ Configured("bundle") /\ StartServing
  /\ UNCHANGED <<environment, fetcher, upload>>

BundleInit ==
  /\ Init
  /\ origin \in Tags
  /\ publications = 0
  /\ fetcher = [step |-> "sleep", etag |-> None, archive |-> None, response |-> None]
  /\ upload = [u \in Uploaders |-> None]

Finish == BodyUnchanged \/ PrepareFails \/ Prepare \/ Apply

BundleNext ==
  \/ GetModified
  \/ BodyFails
  \/ Finish
  \/ \E u \in Uploaders, b \in Bundles : UploadPrepare(u, b)
  \/ \E u \in Uploaders : UploadApply(u)
  \/ \E tag \in Tags : Publish(tag)
  \/ Startup

BundleSpec == BundleInit /\ [][BundleNext]_bundleVars

(* The loop never ends; a download that is repeated for ever does not      *)
(* break off for ever.                                                     *)
BundleFairness ==
  /\ WF_bundleVars(Startup)
  /\ WF_bundleVars(GetModified)
  /\ SF_bundleVars(Finish)

LiveBundleSpec == BundleSpec /\ BundleFairness

-----------------------------------------------------------------------------
(* Properties.                                                             *)

(* The task holds a response only while it works on one, and prepares only *)
(* validated bundles.                                                      *)
BundleTypeOK ==
  /\ origin \in Tags /\ publications \in 0 .. MaxPublications
  /\ fetcher \in [ step : {"sleep", "body", "prepared"}, etag : Tags \cup {None},
                   archive : Bundles \cup {None}, response : Tags \cup {None} ]
  /\ fetcher.step = "sleep" <=> fetcher.response = None
  /\ fetcher.step = "prepared" => Preparable(ArchiveOf[fetcher.response])
  /\ upload \in [Uploaders -> Bundles \cup {None}]

(* A 304 can only be the answer for an archive that was applied: the       *)
(* stored validators identify the archive whose digest is stored.          *)
ValidatorsMeanApplied ==
  fetcher.etag # None => fetcher.archive = ArchiveOf[fetcher.etag]

(* The bundle source is loaded exactly when an archive of it was applied;  *)
(* an upload alone never makes the server ready.                           *)
LoadedMeansArchiveApplied ==
  remote_loads["bundle"].loaded <=> fetcher.archive # None

(* In bundle URL mode the active state is that of one bundle, or the empty *)
(* state before the first: no interleaving of preparations, uploads and    *)
(* polls mixes the parts of two.                                           *)
ActiveStateIsOneBundle ==
  \/ <<policies.content, labels.content, schema.content, bundle>> = <<Empty, Empty, Empty, NoBundle>>
  \/ \E b \in Bundles :
       /\ ReportedState = b /\ bundle = b
       /\ engine.dsl = b.policies /\ engine.schema = b.schema
       /\ engine.labelers = Labelers(b.labels)

(* A state that came from the bundle URL is that of the archive whose      *)
(* digest the task remembers, so an archive that is skipped as unchanged   *)
(* is in force, unless an upload has replaced it.                          *)
RememberedArchiveIsServed ==
  policies.source # NoSource => bundle = fetcher.archive

(* An acceptable archive that stays published is finally applied, however  *)
(* often downloads broke off or earlier archives were rejected, and stays  *)
(* in force unless an upload replaces it.                                  *)
PublishedBundleIsServed ==
  <>[]Preparable(ArchiveOf[origin]) =>
    <>[]( /\ fetcher.archive = ArchiveOf[origin]
          /\ policies.source # NoSource => bundle = ArchiveOf[origin] )

=============================================================================
