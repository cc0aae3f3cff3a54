--------------------------- MODULE UploadRequests ---------------------------
(***************************************************************************)
(* The requests that upload policies or a schema (upload_policies and      *)
(* upload_schema in src/src/handlers.rs): the framework extracts the body  *)
(* up to the request-size limit, permission and mode are checked under the *)
(* read lock, the body is understood without a lock, and both are checked  *)
(* again under the write lock before the store is changed.                 *)
(* Administrators upload side by side, a panic may poison the lock, and    *)
(* the process may be restarted, which loses its documents and its token.  *)
(* What makes the store accept a document is modelled in PolicyStore.      *)
(***************************************************************************)
EXTENDS Naturals

CONSTANTS
  Clients,            \* those who upload
  Policies, Schemas,  \* documents
  Fits,               \* pairs of policies and schema that the store accepts
  Empty, Blank, Junk, \* no text, only white space, text that is no document
  Bodies,             \* bodies that clients send
  MaxRestarts,        \* bound on the restarts of the process
  Nil

Kinds == {"policies", "schema"}
Texts == Policies \cup Schemas \cup {Empty, Blank, Junk}

Codes == { "ok", "lock_poisoned", "upload_not_allowed", "invalid_upload_token", "bundle_mode_conflict",
           "invalid_json_payload", "invalid_text_payload", "schema_validation_error",
           "payload_overflow", "payload_broken" }

(* A body says with its content type how to read it: json or text. It is a *)
(* wrapper with the document as a string, the document itself, or neither: *)
(* no JSON, no Unicode.  It arrives whole, exceeds max_request_size, or    *)
(* breaks off or cannot be decoded on its way.                             *)
ASSUME UploadAssumption ==
  /\ Bodies \subseteq [ type : {"json", "text"}, form : {"wrapper", "document", "neither"}, text : Texts,
                        arrives : {"whole", "oversized", "broken"} ]
  /\ \A body \in Bodies :
       body.type = "json" /\ body.form = "document" => body.text \in Schemas \cup {Junk}
  /\ Fits \subseteq [policies : Policies \cup {Empty, Blank}, schema : Schemas \cup {Empty}]
  /\ [policies |-> Empty, schema |-> Empty] \in Fits
  /\ MaxRestarts \in Nat
  /\ Junk \notin Policies \cup Schemas \cup {Empty, Blank}
  /\ Nil \notin Texts \cup Nat \cup Codes

VARIABLES
  process,     \* counts the starts; the token it generates is that number
  settings,    \* allow_upload, bundle_url_mode
  lock_poisoned,
  documents,   \* policies and schema in force
  upload       \* the request of each client

uploadVars == <<process, settings, lock_poisoned, documents, upload>>

Idle == [stage |-> "idle", kind |-> Nil, sent_to |-> Nil, token |-> Nil, body |-> Nil,
         document |-> Nil, code |-> Nil, metadata |-> Nil]

NoDocuments == [policies |-> Empty, schema |-> Empty]

-----------------------------------------------------------------------------
(* What the handlers decide.                                               *)

(* Fault: a token of an earlier process is good enough.                    *)
RefusalOfUnknownTokens(q) ==
  IF ~settings.allow_upload THEN "upload_not_allowed"
  ELSE IF q.token \notin 0 .. process THEN "invalid_upload_token"
  ELSE IF settings.bundle_url_mode THEN "bundle_mode_conflict"
  ELSE Nil

(* Fault: the mode is checked before the permission.                       *)
RefusalByModeFirst(q) ==
  IF settings.bundle_url_mode THEN "bundle_mode_conflict"
  ELSE IF ~settings.allow_upload THEN "upload_not_allowed"
  ELSE IF q.token # process THEN "invalid_upload_token"
  ELSE Nil

(* A server that allows uploads has a token, from its start.               *)
Refusal(q) ==
  IF ~settings.allow_upload THEN "upload_not_allowed"
  ELSE IF q.token # process THEN "invalid_upload_token"
  ELSE IF settings.bundle_url_mode THEN "bundle_mode_conflict"
  ELSE Nil

(* What the extractor of web::Bytes says of a body, before the handler is  *)
(* called; Nil if it hands the body over.                                  *)
PayloadRefusal(body) ==
  CASE body.arrives = "oversized" -> "payload_overflow"
    [] body.arrives = "broken" -> "payload_broken"
    [] OTHER -> Nil

(* The text in a body, Nil if it is not what its type says; a wrapper in   *)
(* a text body is a text like any other.                                   *)
Understood(kind, body) ==
  IF body.form = "neither" THEN Nil
  ELSE IF body.type = "json"
       THEN IF body.form = "wrapper" \/ kind = "schema" THEN body.text ELSE Nil
       ELSE IF body.form = "document" THEN body.text ELSE Junk

(* Fault: empty policies are applied as they are.                          *)
SchemaMissing(kind, text) == kind = "schema" /\ text \in {Empty, Blank}

(* Only a schema is trimmed before it is found empty.                      *)
TextMissing(kind, text) == text = Empty \/ (kind = "schema" /\ text = Blank)

BodyRefusal(kind, body) ==
  CASE Understood(kind, body) = Nil ->
         IF body.type = "json" THEN "invalid_json_payload" ELSE "invalid_text_payload"
    [] TextMissing(kind, Understood(kind, body)) -> "invalid_text_payload"
    [] OTHER -> Nil

(* ServiceError::status_code, and the framework's for the two of the       *)
(* extractor.                                                              *)
Status(code) ==
  CASE code = "ok" -> 200
    [] code = "lock_poisoned" -> 500
    [] code = "payload_overflow" -> 413
    [] code = "bundle_mode_conflict" -> 409
    [] code \in {"upload_not_allowed", "invalid_upload_token"} -> 403
    [] OTHER -> 400

-----------------------------------------------------------------------------
(* One upload.                                                             *)

InStage(c, stage) == upload[c].stage = stage

Answers(c, code) ==
  upload' = [upload EXCEPT ![c].stage = "answered", ![c].code = code]

(* A client sends a token it was given by a process so far, or none.       *)
Send(c, kind, token, body) ==
  /\ InStage(c, "idle")
  /\ upload' = [upload EXCEPT ![c] = [Idle EXCEPT !.stage = "sent", !.kind = kind,
                                        !.sent_to = process, !.token = token, !.body = body]]
  /\ UNCHANGED <<process, settings, lock_poisoned, documents>>

(* The extractor comes before the handler and its first check: a body that *)
(* is too large or broken is answered whatever the token.                  *)
RefuseToExtract(c) ==
  /\ InStage(c, "sent") /\ PayloadRefusal(upload[c].body) # Nil
  /\ Answers(c, PayloadRefusal(upload[c].body))
  /\ UNCHANGED <<process, settings, lock_poisoned, documents>>

ExtractBody(c) ==
  /\ InStage(c, "sent") /\ PayloadRefusal(upload[c].body) = Nil
  /\ upload' = [upload EXCEPT ![c].stage = "received"]
  /\ UNCHANGED <<process, settings, lock_poisoned, documents>>

(* store.read() or store.write() of a poisoned lock.                       *)
FindPoisoned(c) ==
  /\ upload[c].stage \in {"received", "understood"} /\ lock_poisoned
  /\ Answers(c, "lock_poisoned")
  /\ UNCHANGED <<process, settings, lock_poisoned, documents>>

RefuseUpload(c) ==
  /\ upload[c].stage \in {"received", "understood"} /\ ~lock_poisoned /\ Refusal(upload[c]) # Nil
  /\ Answers(c, Refusal(upload[c]))
  /\ UNCHANGED <<process, settings, lock_poisoned, documents>>

PassCheck(c) ==
  /\ InStage(c, "received") /\ ~lock_poisoned /\ Refusal(upload[c]) = Nil
  /\ upload' = [upload EXCEPT ![c].stage = "checked"]
  /\ UNCHANGED <<process, settings, lock_poisoned, documents>>

RefuseBody(c) ==
  /\ InStage(c, "checked") /\ BodyRefusal(upload[c].kind, upload[c].body) # Nil
  /\ Answers(c, BodyRefusal(upload[c].kind, upload[c].body))
  /\ UNCHANGED <<process, settings, lock_poisoned, documents>>

UnderstandBody(c) ==
  /\ InStage(c, "checked") /\ BodyRefusal(upload[c].kind, upload[c].body) = Nil
  /\ upload' = [upload EXCEPT ![c].stage = "understood",
                              ![c].document = Understood(upload[c].kind, upload[c].body)]
  /\ UNCHANGED <<process, settings, lock_poisoned, documents>>

Updated(c) == [documents EXCEPT ![upload[c].kind] = upload[c].document]

RejectDocument(c) ==
  /\ InStage(c, "understood") /\ ~lock_poisoned /\ Refusal(upload[c]) = Nil
  /\ Updated(c) \notin Fits
  /\ Answers(c, "schema_validation_error")
  /\ UNCHANGED <<process, settings, lock_poisoned, documents>>

(* The answer is made from the guard that changed the store.               *)
ApplyDocument(c) ==
  /\ InStage(c, "understood") /\ ~lock_poisoned /\ Refusal(upload[c]) = Nil
  /\ Updated(c) \in Fits
  /\ documents' = Updated(c)
  /\ upload' = [upload EXCEPT ![c].stage = "answered", ![c].code = "ok", ![c].metadata = Updated(c)]
  /\ UNCHANGED <<process, settings, lock_poisoned>>

Finish(c) ==
  /\ upload[c].stage \in {"answered", "lost"}
  /\ upload' = [upload EXCEPT ![c] = Idle]
  /\ UNCHANGED <<process, settings, lock_poisoned, documents>>

-----------------------------------------------------------------------------
(* The process.                                                            *)

(* A writer panics in the store; StoreLock says what it leaves behind.     *)
PoisonLock ==
  /\ ~lock_poisoned /\ lock_poisoned' = TRUE
  /\ UNCHANGED <<process, settings, documents, upload>>

(* Nothing is kept: documents, token and requests under way are gone.      *)
Restart ==
  /\ process < MaxRestarts
  /\ process' = process + 1
  /\ lock_poisoned' = FALSE
  /\ documents' = NoDocuments
  /\ upload' = [c \in Clients |->
       IF upload[c].stage \in {"idle", "answered", "lost"} THEN upload[c]
       ELSE [upload[c] EXCEPT !.stage = "lost"]]
  /\ UNCHANGED settings

UploadInit ==
  /\ process = 0
  /\ settings \in [allow_upload : BOOLEAN, bundle_url_mode : BOOLEAN]
  /\ lock_poisoned = FALSE
  /\ documents = NoDocuments
  /\ upload = [c \in Clients |-> Idle]

UploadNext ==
  \/ PoisonLock \/ Restart
  \/ \E c \in Clients :
       \/ \E kind \in Kinds, token \in 0 .. process \cup {Nil}, body \in Bodies : Send(c, kind, token, body)
       \/ RefuseToExtract(c) \/ ExtractBody(c)
       \/ FindPoisoned(c) \/ RefuseUpload(c) \/ PassCheck(c)
       \/ RefuseBody(c) \/ UnderstandBody(c) \/ RejectDocument(c) \/ ApplyDocument(c)
       \/ Finish(c)

UploadSpec == UploadInit /\ [][UploadNext]_uploadVars

-----------------------------------------------------------------------------
(* Properties.                                                             *)

(* A client has a document in hand from the understood body on, and        *)
(* metadata with an applied upload only.                                   *)
UploadTypeOK ==
  /\ process \in 0 .. MaxRestarts
  /\ settings \in [allow_upload : BOOLEAN, bundle_url_mode : BOOLEAN]
  /\ lock_poisoned \in BOOLEAN
  /\ documents \in Fits
  /\ \A c \in Clients :
       /\ upload[c].stage \in {"idle", "sent", "received", "checked", "understood", "answered", "lost"}
       /\ ~InStage(c, "idle") => upload[c].kind \in Kinds /\ upload[c].body \in Bodies
       /\ upload[c].document \in (Texts \cup {Nil}) \ {Empty}
       /\ IF InStage(c, "answered") THEN upload[c].code \in Codes ELSE upload[c].code = Nil
       /\ IF upload[c].code = "ok" THEN upload[c].metadata \in Fits ELSE upload[c].metadata = Nil

(* Documents change by a restart, or by an upload that presents the token  *)
(* of the very process that applies it, to a server that allows uploads,   *)
(* follows no bundle and was not poisoned meanwhile: "Restarting the       *)
(* process invalidates the previous upload token" (docs/security.md) and   *)
(* the second check_upload_auth of the handlers.                           *)
UploadsArePermitted ==
  [][documents' # documents =>
       \/ process' # process
       \/ /\ settings.allow_upload /\ ~settings.bundle_url_mode /\ ~lock_poisoned
          /\ \E c \in Clients :
               InStage(c, "understood") /\ upload[c].token = process /\ upload'[c].code = "ok"]_uploadVars

MayUpload(q) == settings.allow_upload /\ q.token = q.sent_to

(* A client without permission whose body arrives is refused as such:      *)
(* neither the mode of the server, nor what its body says, nor the         *)
(* documents in force show in the answer, unless a panic closed the store. *)
(* check_upload_auth comes first in both handlers                          *)
(* (test_upload_authentication_precedes_body_parsing), but the extractor   *)
(* comes before both: a body that does not arrive is answered as that, by  *)
(* its size or its end alone, to clients with and without permission.      *)
RefusalsAreAlike ==
  \A c \in Clients : InStage(c, "answered") =>
    IF PayloadRefusal(upload[c].body) # Nil THEN upload[c].code = PayloadRefusal(upload[c].body)
    ELSE ~MayUpload(upload[c]) => Status(upload[c].code) \in {403, 500}

(* And only such a client is: who may upload is never told that uploads    *)
(* are disabled or that the token is wrong, at neither of the two checks,  *)
(* whoever uploads, panics or restarts the process meanwhile.              *)
RefusalsAreDeserved ==
  \A c \in Clients :
    InStage(c, "answered") /\ MayUpload(upload[c]) => Status(upload[c].code) # 403

(* The forms of docs/api.md: a wrapper or, for a schema, the document as   *)
(* JSON, and the document as text.                                         *)
Documented(kind, body) ==
  \/ body.type = "json" /\ body.form = "wrapper"
  \/ body.type = "json" /\ body.form = "document" /\ kind = "schema"
  \/ body.type = "text" /\ body.form = "document"

(* What is applied came in a documented form, and no permitted client is   *)
(* refused for the form of a document that has one.                        *)
DocumentedFormsAreUnderstood ==
  \A c \in Clients : InStage(c, "answered") =>
    LET documented == Documented(upload[c].kind, upload[c].body)
    IN /\ upload[c].code = "ok" => documented
       /\ upload[c].code \in {"invalid_json_payload", "invalid_text_payload"}
            => ~documented \/ upload[c].body.text \in {Empty, Blank}

(* Every answer is the one that permission, body and form call for.        *)
(* ServiceError in errors.rs, and the order of checks in the two handlers. *)
AnswersAreJustified == RefusalsAreAlike /\ RefusalsAreDeserved /\ DocumentedFormsAreUnderstood
=============================================================================
