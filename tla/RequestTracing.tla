--------------------------- MODULE RequestTracing ---------------------------
(***************************************************************************)
(* One request after another through the middleware of the server          *)
(* (src/src/middleware.rs) and the metrics it leaves behind                *)
(* (src/src/metrics.rs): AccessControlMiddleware is outermost, inside it   *)
(* TracingMiddleware calls the handler and, once there is a response,      *)
(* updates four families, each with atomic additions of its own.  Worker   *)
(* threads run requests side by side, and a scrape of /metrics reads the   *)
(* families one by one.                                                    *)
(***************************************************************************)
EXTENDS Naturals, Sequences, FiniteSets, FiniteSetsExt

CONSTANTS
  HttpRequests,   \* the requests of a behaviour
  Sizes,          \* numbers of checks that clients send
  MaxBatchSize    \* max_batch_size of AuthorizeRuntimeConfig

ASSUME TracingAssumption ==
  /\ IsFiniteSet(HttpRequests) /\ Sizes \subseteq Nat /\ MaxBatchSize \in Nat

Routes == {"authorize", "metrics", "other", "livez"}
Protected == {"authorize", "metrics", "other"}
Statuses == {200, 400, 500}

VARIABLES
  poisoned,    \* a writer panicked, so every lock of the store fails
  request,     \* what each client sends: route, admitted, sound body, size
  stage,       \* where each request is
  status,      \* of its response
  accepted,    \* whether it has its AcceptedAuthorizationBatch extension
  todo,        \* families its response has yet to update, or to read
  before,      \* requests answered when it came
  metrics,     \* the families: value by label
  batch_sum,   \* authorization_batch_size_sum
  reading      \* what a scrape read: the total of each family

tracingVars ==
  <<poisoned, request, stage, status, accepted, todo, before, metrics, batch_sum, reading>>

-----------------------------------------------------------------------------
(* Families and labels.                                                    *)

(* Fault: latencies are recorded before the requests they belong to.       *)
HttpDurationFirst == <<"http_request_duration", "http_requests">>

HttpObserve == <<"http_requests", "http_request_duration">>

AuthorizationObserve == <<"authorization_batch_size", "authorization_request_duration">>

Registered == HttpObserve \o AuthorizationObserve \o <<"admission_rejections">>

Families == {Registered[i] : i \in DOMAIN Registered}

BatchSizeBuckets == <<0, 1, 4, 8, 32, 128, 512>>

(* The first boundary that is not below the size, or the one past the last.*)
BucketOf(n) ==
  Min({i \in DOMAIN BatchSizeBuckets : n <= BatchSizeBuckets[i]} \cup {Len(BatchSizeBuckets) + 1})

Classes == <<"0", "1", "2-4", "5-8", "9-32", "33-128", "129-512", "513+">>

SizeClass(n) ==
  CASE n = 0 -> "0"
    [] n = 1 -> "1"
    [] n \in 2 .. 4 -> "2-4"
    [] n \in 5 .. 8 -> "5-8"
    [] n \in 9 .. 32 -> "9-32"
    [] n \in 33 .. 128 -> "33-128"
    [] n \in 129 .. 512 -> "129-512"
    [] OTHER -> "513+"

LabelsOf(family) ==
  CASE family = "authorization_batch_size" -> 1 .. Len(BatchSizeBuckets) + 1
    [] family = "authorization_request_duration" -> {Classes[i] : i \in DOMAIN Classes}
    [] family = "admission_rejections" -> {"rejected"}
    [] OTHER -> Routes \X Statuses

LabelFor(r, family) ==
  CASE family = "authorization_batch_size" -> BucketOf(request[r].size)
    [] family = "authorization_request_duration" -> SizeClass(request[r].size)
    [] family = "admission_rejections" -> "rejected"
    [] OTHER -> <<request[r].route, status[r]>>

Observations(family) == UNION {{label} \X (1 .. metrics[family][label]) : label \in LabelsOf(family)}

Total(family) == Cardinality(Observations(family))

Increment(r, family) == metrics' = [metrics EXCEPT ![family][LabelFor(r, family)] = @ + 1]

-----------------------------------------------------------------------------
(* A request until its response.                                           *)

InStage(r, s) == stage[r] = s
Goes(r, s) == stage' = [stage EXCEPT ![r] = s]

(* The handler is done; TracingMiddleware has these families to update.    *)
Produces(r, s) ==
  /\ Goes(r, "produced")
  /\ status' = [status EXCEPT ![r] = s]
  /\ todo' = [todo EXCEPT ![r] = HttpObserve \o (IF accepted[r] THEN AuthorizationObserve ELSE << >>)]

Answered == {r \in HttpRequests : stage[r] \in {"answered", "rejected"}}

(* The size counts for authorize only, and only of a body that is read.    *)
Clients ==
  { q \in [route : Routes, admitted : BOOLEAN, sound : BOOLEAN, size : Sizes \cup {0}] :
      /\ q.route \notin Protected => q.admitted
      /\ q.route # "authorize" => q.sound
      /\ q.route # "authorize" \/ ~q.admitted \/ ~q.sound => q.size = 0 }

Arrive(r, q) ==
  /\ InStage(r, "idle")
  /\ request' = [request EXCEPT ![r] = q]
  /\ before' = [before EXCEPT ![r] = Answered]

(* Fault: tracing is outside admission control.                            *)
RejectWithinTracing(r) ==
  \E q \in Clients :
    /\ ~q.admitted
    /\ Arrive(r, q)
    /\ Produces(r, 400)
    /\ metrics' = [metrics EXCEPT !["admission_rejections"]["rejected"] = @ + 1]
    /\ UNCHANGED <<poisoned, accepted, batch_sum, reading>>

(* Tracing never sees a rejected request.                                  *)
Reject(r) ==
  \E q \in Clients :
    /\ ~q.admitted
    /\ Arrive(r, q)
    /\ Goes(r, "rejected")
    /\ metrics' = [metrics EXCEPT !["admission_rejections"]["rejected"] = @ + 1]
    /\ UNCHANGED <<poisoned, status, accepted, todo, batch_sum, reading>>

(* A handler of /metrics starts at once.                                   *)
Admit(r) ==
  \E q \in Clients :
    /\ q.admitted
    /\ Arrive(r, q)
    /\ Goes(r, "handling")
    /\ todo' = [todo EXCEPT ![r] = IF q.route = "metrics" THEN Registered ELSE << >>]
    /\ UNCHANGED <<poisoned, status, accepted, metrics, batch_sum, reading>>

(* Whoever waits for a body may be gone: the future is dropped.            *)
Abandon(r) ==
  /\ InStage(r, "handling") /\ request[r].route \in {"authorize", "other"}
  /\ Goes(r, "abandoned")
  /\ UNCHANGED <<poisoned, request, status, accepted, todo, before, metrics, batch_sum, reading>>

ExtractionFails(r) ==
  /\ InStage(r, "handling") /\ request[r].route = "authorize" /\ ~request[r].sound
  /\ Produces(r, 400)
  /\ UNCHANGED <<poisoned, request, accepted, before, metrics, batch_sum, reading>>

RefuseBatch(r) ==
  /\ InStage(r, "handling") /\ request[r].route = "authorize" /\ request[r].sound
  /\ request[r].size > MaxBatchSize
  /\ Produces(r, 400)
  /\ UNCHANGED <<poisoned, request, accepted, before, metrics, batch_sum, reading>>

(* Fault: the batch is accepted only once the store was read.              *)
AcceptOnceRead(r) ==
  /\ InStage(r, "handling") /\ request[r].route = "authorize" /\ request[r].sound
  /\ request[r].size <= MaxBatchSize
  /\ Goes(r, "accepted")
  /\ accepted' = [accepted EXCEPT ![r] = ~poisoned]
  /\ UNCHANGED <<poisoned, request, status, todo, before, metrics, batch_sum, reading>>

AcceptBatch(r) ==
  /\ InStage(r, "handling") /\ request[r].route = "authorize" /\ request[r].sound
  /\ request[r].size <= MaxBatchSize
  /\ Goes(r, "accepted")
  /\ accepted' = [accepted EXCEPT ![r] = TRUE]
  /\ UNCHANGED <<poisoned, request, status, todo, before, metrics, batch_sum, reading>>

(* store.read(), then the evaluation, whose failures are results.          *)
Authorize(r) ==
  /\ InStage(r, "accepted")
  /\ Produces(r, IF poisoned THEN 500 ELSE 200)
  /\ UNCHANGED <<poisoned, request, accepted, before, metrics, batch_sum, reading>>

HandleOther(r) ==
  /\ InStage(r, "handling")
  /\ \/ request[r].route = "livez" /\ Produces(r, 200)
     \/ request[r].route = "other" /\ \E s \in Statuses : Produces(r, s)
  /\ UNCHANGED <<poisoned, request, accepted, before, metrics, batch_sum, reading>>

(* encode_registry_text and _protobuf go through the families in order.    *)
(* The labels of one family are read in one step; each of them only grows. *)
ReadFamily(r) ==
  /\ InStage(r, "handling") /\ request[r].route = "metrics" /\ todo[r] # << >>
  /\ reading' = [reading EXCEPT ![r][Head(todo[r])] = Total(Head(todo[r]))]
  /\ todo' = [todo EXCEPT ![r] = Tail(@)]
  /\ UNCHANGED <<poisoned, request, stage, status, accepted, before, metrics, batch_sum>>

EndScrape(r) ==
  /\ InStage(r, "handling") /\ request[r].route = "metrics" /\ todo[r] = << >>
  /\ Produces(r, 200)
  /\ UNCHANGED <<poisoned, request, accepted, before, metrics, batch_sum, reading>>

-----------------------------------------------------------------------------
(* TracingMiddleware after the handler: nothing is awaited any more.       *)

UpdateFamily(r) ==
  /\ InStage(r, "produced")
  /\ Increment(r, Head(todo[r]))
  /\ batch_sum' = batch_sum + (IF Head(todo[r]) = "authorization_batch_size" THEN request[r].size ELSE 0)
  /\ todo' = [todo EXCEPT ![r] = Tail(@)]
  /\ Goes(r, IF Tail(todo[r]) = << >> THEN "answered" ELSE "produced")
  /\ UNCHANGED <<poisoned, request, status, accepted, before, reading>>

Poison ==
  /\ ~poisoned /\ poisoned' = TRUE
  /\ UNCHANGED <<request, stage, status, accepted, todo, before, metrics, batch_sum, reading>>

TracingInit ==
  /\ poisoned = FALSE
  /\ request = [r \in HttpRequests |-> [route |-> "livez", admitted |-> TRUE, sound |-> TRUE, size |-> 0]]
  /\ stage = [r \in HttpRequests |-> "idle"]
  /\ status = [r \in HttpRequests |-> 0]
  /\ accepted = [r \in HttpRequests |-> FALSE]
  /\ todo = [r \in HttpRequests |-> << >>]
  /\ before = [r \in HttpRequests |-> {}]
  /\ metrics = [family \in Families |-> [label \in LabelsOf(family) |-> 0]]
  /\ batch_sum = 0
  /\ reading = [r \in HttpRequests |-> [family \in Families |-> 0]]

TracingNext ==
  \/ Poison
  \/ \E r \in HttpRequests :
       \/ Reject(r) \/ Admit(r) \/ Abandon(r)
       \/ ExtractionFails(r) \/ RefuseBatch(r) \/ AcceptBatch(r) \/ Authorize(r)
       \/ HandleOther(r) \/ ReadFamily(r) \/ EndScrape(r) \/ UpdateFamily(r)

TracingSpec == TracingInit /\ [][TracingNext]_tracingVars

-----------------------------------------------------------------------------
(* Properties.                                                             *)

(* Nothing is between two updates.                                         *)
Quiet == \A r \in HttpRequests : stage[r] \in {"idle", "rejected", "abandoned", "answered"}

(* What docs/api.md calls an accepted batch, from what the client sent.    *)
IsAcceptedBatch(r) ==
  /\ request[r].route = "authorize" /\ request[r].admitted /\ request[r].sound
  /\ request[r].size <= MaxBatchSize

Checks(batches) == UNION {{r} \X (1 .. request[r].size) : r \in batches}

AnsweredBatches == {r \in HttpRequests : InStage(r, "answered") /\ IsAcceptedBatch(r)}

(* With no request under way, the requests by route and status, their      *)
(* latencies and the rejections account for every response, each in one    *)
(* place: a rejection is no request, a dropped request is neither, and no  *)
(* label has a latency too many or too few.  middleware.rs:367-395 and     *)
(* reject, middleware.rs:155-175.                                          *)
EveryResponseIsCounted ==
  Quiet =>
    /\ Total("admission_rejections") = Cardinality({r \in HttpRequests : ~request[r].admitted})
    /\ metrics["http_requests"] = metrics["http_request_duration"]
    /\ \A label \in Routes \X Statuses :
         metrics["http_requests"][label] =
           Cardinality({r \in Answered : request[r].admitted /\ label = <<request[r].route, status[r]>>})

(* With no request under way, the authorization metrics hold exactly the   *)
(* accepted batches that got a response, those that a poisoned store       *)
(* failed included, their sum is the number of checks in them, and each    *)
(* class has as many latencies as its bucket has sizes.                    *)
(* docs/api.md:106-117; handlers.rs:652-662 and middleware.rs:387-394.     *)
AcceptedBatchesAreObserved ==
  Quiet =>
    /\ Total("authorization_batch_size") = Cardinality(AnsweredBatches)
    /\ Total("authorization_request_duration") = Cardinality(AnsweredBatches)
    /\ batch_sum = Cardinality(Checks(AnsweredBatches))
    /\ \A i \in DOMAIN Classes :
         metrics["authorization_request_duration"][Classes[i]] = metrics["authorization_batch_size"][i]

Read(r) == request[r].route = "metrics" /\ stage[r] \in {"produced", "answered"}

(* A scrape misses nothing that was answered before it came, in any        *)
(* family, and never counts itself or a request that is dropped or         *)
(* rejected: metrics are updated before the response leaves, and the       *)
(* scrape's own after its body is complete.  middleware.rs:367-411 and     *)
(* handlers.rs:1113-1135.                                                  *)
ScrapesShowWhatWasAnswered ==
  \A r \in HttpRequests : Read(r) =>
    LET requests == {b \in before[r] : request[b].admitted}
        batches == {b \in before[r] : IsAcceptedBatch(b)}
        others == {o \in HttpRequests \ {r} : stage[o] \in {"produced", "answered"}}
    IN /\ \A family \in {"http_requests", "http_request_duration"} :
            reading[r][family] \in Cardinality(requests) .. Cardinality(others)
       /\ \A family \in {"authorization_batch_size", "authorization_request_duration"} :
            reading[r][family] \in Cardinality(batches) .. Cardinality({o \in others : IsAcceptedBatch(o)})
       /\ reading[r]["admission_rejections"] >= Cardinality(before[r] \ requests)

(* Latencies lag behind requests and never lead, so what one scrape read   *)
(* as latencies a later one covers with requests, and with observed sizes  *)
(* what it read as latencies of batches, although a scrape is no snapshot. *)
(* The later one has also seen the request of the earlier one.             *)
(* HttpMetrics::observe and AuthorizationMetrics::observe, metrics.rs:194- *)
(* 201 and 329-353.                                                        *)
LaterScrapesCoverEarlier ==
  \A r, s \in HttpRequests : Read(r) /\ Read(s) /\ s \in before[r] =>
    /\ reading[s]["http_request_duration"] < reading[r]["http_requests"]
    /\ reading[s]["authorization_request_duration"] <= reading[r]["authorization_batch_size"]
    /\ reading[s]["authorization_batch_size"] < reading[r]["http_request_duration"]
    /\ \A family \in Families : reading[s][family] <= reading[r][family]

(* What a scrape shows is neither too old nor ahead of a later one.        *)
(* encode_registry_text, metrics.rs:725-736.                               *)
ScrapesAreConsistent == ScrapesShowWhatWasAnswered /\ LaterScrapesCoverEarlier
=============================================================================
