----------------------------- MODULE Authorize -----------------------------
(***************************************************************************)
(* The authorize handler (src/src/handlers.rs) next to a store that        *)
(* changes: the read lock is held only to take a session of the engine,    *)
(* its version and what is known of the schema; the checks are evaluated   *)
(* after its release, in order on the request's own thread or, for large   *)
(* batches, by the worker threads of rayon in any order.                   *)
(***************************************************************************)
EXTENDS PolicyStore, Evaluation

CONSTANTS
  Clients,
  AllowParallel, ParThreshold,    \* ParallelConfig
  None

ASSUME ParallelAssumption ==
  /\ AllowParallel \in BOOLEAN /\ ParThreshold \in Nat
  /\ None \notin Batches

VARIABLES
  step,        \* per client: idle, accepted, evaluating or answered
  request,     \* the batch of the request
  snapshot,    \* session, version and schema flags taken under the read lock
  results,     \* the results so far, by index
  response

clientVars == <<step, request, snapshot, results, response>>
authVars == <<vars, clientVars>>

View == [ engine        |-> engine,
          strict        |-> Strict,
          schema_loaded |-> schema.content # Empty ]

-----------------------------------------------------------------------------
(* One request.                                                            *)

(* A batch beyond the limit is refused at once, which is a stutter.        *)
Accept(c) ==
  /\ serving /\ step[c] = "idle"
  /\ \E b \in AcceptedBatches : request' = [request EXCEPT ![c] = b]
  /\ step' = [step EXCEPT ![c] = "accepted"]
  /\ UNCHANGED <<vars, snapshot, results, response>>

TakeSnapshot(c) ==
  /\ step[c] = "accepted"
  /\ snapshot' = [snapshot EXCEPT ![c] = View]
  /\ step' = [step EXCEPT ![c] = "evaluating"]
  /\ UNCHANGED <<vars, request, results, response>>

Remaining(c) == DOMAIN request[c] \ DOMAIN results[c]

UseParallel(c) == AllowParallel /\ Len(request[c]) >= ParThreshold

(* Fault: the schema flag is read when the check is evaluated.             *)
EvaluateWithPresentFlag(c, i) ==
  /\ step[c] = "evaluating" /\ i \in Remaining(c)
  /\ UseParallel(c) \/ \A j \in Remaining(c) : i <= j
  /\ LET view == [snapshot[c] EXCEPT !.schema_loaded = schema.content # Empty]
     IN results' = [results EXCEPT ![c] = [j \in DOMAIN @ \cup {i} |->
                      IF j = i THEN EvalOne(view, request[c][i]) ELSE @[j]]]
  /\ UNCHANGED <<vars, step, request, snapshot, response>>

(* Each result is stored at the index of its check.                        *)
Evaluate(c, i) ==
  /\ step[c] = "evaluating" /\ i \in Remaining(c)
  /\ UseParallel(c) \/ \A j \in Remaining(c) : i <= j
  /\ results' = [results EXCEPT ![c] = [j \in DOMAIN @ \cup {i} |->
                   IF j = i THEN EvalOne(snapshot[c], request[c][i]) ELSE @[j]]]
  /\ UNCHANGED <<vars, step, request, snapshot, response>>

(* Fault: the reported version is that of the engine in place now.         *)
RespondWithPresentVersion(c) ==
  /\ step[c] = "evaluating" /\ Remaining(c) = {}
  /\ response' = [response EXCEPT ![c] = Response(results[c], Version(engine))]
  /\ step' = [step EXCEPT ![c] = "answered"]
  /\ UNCHANGED <<vars, request, snapshot, results>>

Respond(c) ==
  /\ step[c] = "evaluating" /\ Remaining(c) = {}
  /\ response' = [response EXCEPT ![c] = Response(results[c], Version(snapshot[c].engine))]
  /\ step' = [step EXCEPT ![c] = "answered"]
  /\ UNCHANGED <<vars, request, snapshot, results>>

Finish(c) ==
  /\ step[c] = "answered"
  /\ step' = [step EXCEPT ![c] = "idle"]
  /\ request' = [request EXCEPT ![c] = None]
  /\ snapshot' = [snapshot EXCEPT ![c] = None]
  /\ results' = [results EXCEPT ![c] = << >>]
  /\ response' = [response EXCEPT ![c] = None]
  /\ UNCHANGED vars

AuthInit ==
  /\ Init
  /\ step = [c \in Clients |-> "idle"]
  /\ request = [c \in Clients |-> None]
  /\ snapshot = [c \in Clients |-> None]
  /\ results = [c \in Clients |-> << >>]
  /\ response = [c \in Clients |-> None]

AuthNext ==
  \/ Next /\ UNCHANGED clientVars
  \/ \E c \in Clients : Accept(c) \/ TakeSnapshot(c) \/ Respond(c) \/ Finish(c)
  \/ \E c \in Clients, i \in 1 .. MaxBatchSize : Evaluate(c, i)

AuthSpec == AuthInit /\ [][AuthNext]_authVars

-----------------------------------------------------------------------------
(* Properties.                                                             *)

(* Each client is where its request is, with exactly the data of that      *)
(* stage; results fill up the indices of the batch.                        *)
AuthTypeOK ==
  /\ step \in [Clients -> {"idle", "accepted", "evaluating", "answered"}]
  /\ request \in [Clients -> AcceptedBatches \cup {None}]
  /\ DOMAIN snapshot = Clients /\ DOMAIN results = Clients /\ DOMAIN response = Clients
  /\ \A c \in Clients :
       /\ step[c] = "idle" <=> request[c] = None
       /\ IF step[c] \in {"idle", "accepted"}
          THEN snapshot[c] = None /\ results[c] = << >>
          ELSE DOMAIN results[c] \subseteq DOMAIN request[c]
       /\ step[c] # "answered" => response[c] = None

(* In strict mode no check with a context is decided without a schema, as  *)
(* "sending context without an uploaded schema fails that request"         *)
(* (docs/api.md), whatever updates arrive during the evaluation.           *)
StrictContextsMeetSchema ==
  Strict => \A c \in Clients : \A i \in DOMAIN results[c] :
    (Context[request[c][i]] # NoContext /\ results[c][i].outcome = "success")
      => results[c][i].decision.schema # Empty

(* "Each authorization batch and every successful item use the same        *)
(* complete state version" (docs/api.md): the handler implements the       *)
(* atomic one; the answer is determined when the snapshot is taken.        *)
DecidedAnswers == [c \in Clients |->
  IF step[c] \in {"evaluating", "answered"} THEN Answer(snapshot[c], request[c]) ELSE None]

StageOf == [idle |-> "idle", accepted |-> "asked", evaluating |-> "decided", answered |-> "replied"]
Stage == [c \in Clients |-> StageOf[step[c]]]

Atomic == INSTANCE AtomicAuthorize
            WITH Batches <- AcceptedBatches, view <- View, stage <- Stage, asked <- request,
                 decided <- DecidedAnswers, reply <- response

ImplementsAtomicAuthorize == Atomic!AuthorizeSpec

=============================================================================
