----------------------------- MODULE StoreLock -----------------------------
(***************************************************************************)
(* The RwLock around the policy store (SharedPolicyStore, src/src/state.rs) *)
(* and the threads that take it: handlers that read, uploads and polling   *)
(* tasks that write.  PolicyStore lets a method be one step; here its      *)
(* assignments are steps, readers come and go between the sections of the  *)
(* cache mutexes, and a thread may panic with the lock in its hands.       *)
(*                                                                         *)
(* A document stands for itself in every field; one listing filter is      *)
(* enough, since filters only meet in the eviction order of PolicyStore.   *)
(***************************************************************************)
EXTENDS Naturals, Sequences

CONSTANTS
  Threads,
  Documents,    \* documents that updates bring
  Empty,        \* what a new store holds
  None,
  MaxUpdates    \* bound on the update requests of a behaviour

Formats == {"raw", "json"}
Components == {"policies", "labels", "schema"}
Uploads == {"policies", "schema", "bundle"}
Updates == Components \cup {"bundle"}
Reads == Formats \cup {"snapshot"}

(* What the fields of the store hold: the documents that they were made    *)
(* from.  A request sees the runtime and the reported fields.              *)
Contents == Documents \cup {Empty}
Engines == [policies : Contents, labels : Contents, schema : Contents]
Statuses == [policies : Contents, schema : Contents]
RuntimeFields == [engine : Engines, context : Statuses]
ReportedFields == [ policies : Contents, labels : Contents, schema : Contents,
                    bundle : Documents \cup {None} ]
Store == [ engine : Engines, context : Statuses, policies : Contents, labels : Contents,
           schema : Contents, labelers : Contents, bundle : Documents \cup {None} ]
StoreFields == {"engine", "context", "policies", "labels", "schema", "labelers", "bundle"}

Outcomes == {"done", "rejected", "refused", "panicked", "ready", "not ready"}

ASSUME LockAssumption ==
  /\ None \notin Threads \cup Contents \cup Outcomes
  /\ None \notin Store \cup RuntimeFields \cup ReportedFields
  /\ MaxUpdates \in Nat

VARIABLES
  memory,       \* the fields of the PolicyStore
  caches,       \* the cached listing in each format, None if there is none
  lock,         \* readers, writer, poisoned
  thread,       \* what each thread is doing
  published,    \* the states that completed updates left, in order
  updates       \* number of update requests so far

lockVars == <<memory, caches, lock, thread, published, updates>>

-----------------------------------------------------------------------------
(* set_dsl, set_labels, set_schema and apply_prepared_bundle: the state    *)
(* each one works towards ...                                              *)
Updated(m, op, d) ==
  LET Changed(field) == op \in {field, "bundle"} IN
  LET p == IF Changed("policies") THEN d ELSE m.policies
      l == IF Changed("labels") THEN d ELSE m.labels
      r == IF Changed("labels") THEN d ELSE m.labelers
      s == IF Changed("schema") THEN d ELSE m.schema IN
  [ engine  |-> [policies |-> p, labels |-> r, schema |-> s],
    context |-> [policies |-> p, schema |-> s],
    policies |-> p, labels |-> l, schema |-> s, labelers |-> r,
    bundle  |-> IF op = "bundle" THEN d ELSE None ]

(* ... and its assignments, in their order.                                *)
Assignments(op) ==
  CASE op = "policies" -> <<"engine", "context", "policies", "bundle", "raw", "json">>
    [] op = "labels" -> <<"engine", "context", "labelers", "labels", "bundle", "raw", "json">>
    [] op = "schema" -> <<"engine", "context", "schema", "bundle">>
    [] op = "bundle" -> <<"raw", "json", "engine", "policies", "labels", "schema", "labelers",
                          "context", "bundle">>

NewStore ==
  [ engine |-> [policies |-> Empty, labels |-> Empty, schema |-> Empty],
    context |-> [policies |-> Empty, schema |-> Empty],
    policies |-> Empty, labels |-> Empty, schema |-> Empty, labelers |-> Empty,
    bundle |-> None ]

Runtime(m) == [engine |-> m.engine, context |-> m.context]
Reported(m) == [policies |-> m.policies, labels |-> m.labels, schema |-> m.schema,
                bundle |-> m.bundle]

-----------------------------------------------------------------------------
(* std::sync::RwLock: a waiting writer keeps new readers out.  An action   *)
(* of a thread is given by the thread's next record.                       *)

Idle == [ stage |-> "idle", op |-> None, since |-> 0, todo |-> << >>, goal |-> None,
          runtime |-> None, reported |-> None, listing |-> None, outcome |-> None ]

At(t, stage) == thread[t].stage = stage
Becomes(t, next) == thread' = [thread EXCEPT ![t] = next]
Goes(t, stage) == Becomes(t, [thread[t] EXCEPT !.stage = stage])
Ends(t, outcome) == Becomes(t, [thread[t] EXCEPT !.stage = "answered", !.outcome = outcome,
                                                 !.todo = << >>, !.goal = None])

WriterWaits == \E t \in Threads : At(t, "wantsWrite")

Released(t) == lock' = [lock EXCEPT !.readers = @ \ {t}]

(* A request arrives or a polling task has a document.  An upload first    *)
(* looks up its permission; labels can only come from their task.          *)
Ask(t) ==
  /\ At(t, "idle")
  /\ \E op \in Reads \cup Updates :
       /\ op \in Updates => updates < MaxUpdates
       /\ updates' = IF op \in Updates THEN updates + 1 ELSE updates
       /\ \/ /\ op \in Reads \cup Uploads
             /\ Becomes(t, [Idle EXCEPT !.stage = "wantsRead", !.op = op, !.since = Len(published)])
          \/ /\ op \in Components
             /\ Becomes(t, [Idle EXCEPT !.stage = "wantsWrite", !.op = op, !.since = Len(published)])
  /\ UNCHANGED <<memory, caches, lock, published>>

(* Fault: an update tries again as long as the lock is poisoned.           *)
RefuseReadsOnly(t) ==
  /\ At(t, "wantsRead")
  /\ lock.poisoned /\ lock.writer = None
  /\ Ends(t, "refused")
  /\ UNCHANGED <<memory, caches, published, updates, lock>>

(* PoisonError becomes an answer of its own, and the guard is dropped.     *)
Refuse(t) ==
  /\ At(t, "wantsRead") \/ At(t, "wantsWrite")
  /\ lock.poisoned /\ lock.writer = None
  /\ Ends(t, "refused")
  /\ UNCHANGED <<memory, caches, lock, published, updates>>

(* Fault: the guard is taken out of the PoisonError.                       *)
AcquireReadOfPoisoned(t) ==
  /\ At(t, "wantsRead") /\ lock.writer = None /\ ~WriterWaits
  /\ lock' = [lock EXCEPT !.readers = @ \cup {t}]
  /\ Goes(t, "reading")
  /\ UNCHANGED <<memory, caches, published, updates>>

AcquireRead(t) ==
  /\ At(t, "wantsRead") /\ lock.writer = None /\ ~WriterWaits /\ ~lock.poisoned
  /\ lock' = [lock EXCEPT !.readers = @ \cup {t}]
  /\ Goes(t, "reading")
  /\ UNCHANGED <<memory, caches, published, updates>>

(* An upload is checked under the read lock, which is dropped while its    *)
(* body is parsed or its bundle prepared, and again under the write lock.  *)
CheckUpload(t) ==
  /\ At(t, "reading") /\ thread[t].op \in Uploads
  /\ Released(t)
  /\ Goes(t, "preparing")
  /\ UNCHANGED <<memory, caches, published, updates>>

PrepareUpload(t) ==
  /\ At(t, "preparing")
  /\ Goes(t, "wantsWrite") \/ Ends(t, "rejected")
  /\ UNCHANGED <<memory, caches, lock, published, updates>>

(* Fault: the guard only lives for the first of several fields.            *)
ReadRuntimeReleasing(t) ==
  /\ At(t, "reading") /\ thread[t].op = "snapshot"
  /\ Becomes(t, [thread[t] EXCEPT !.stage = "readingRest", !.runtime = Runtime(memory)])
  /\ Released(t)
  /\ UNCHANGED <<memory, caches, published, updates>>

(* authorize, version and get_status read several fields under one guard.  *)
ReadRuntime(t) ==
  /\ At(t, "reading") /\ thread[t].op = "snapshot"
  /\ Becomes(t, [thread[t] EXCEPT !.stage = "readingRest", !.runtime = Runtime(memory)])
  /\ UNCHANGED <<memory, caches, lock, published, updates>>

ReadMetadata(t) ==
  /\ At(t, "readingRest")
  /\ Becomes(t, [thread[t] EXCEPT !.stage = "answered", !.outcome = "done",
                                  !.reported = Reported(memory)])
  /\ Released(t)
  /\ UNCHANGED <<memory, caches, published, updates>>

(* list_policies_raw and list_policies_json: the mutex of the cache is     *)
(* held for the look-up and for the insertion, and not in between.         *)
LookUpHit(t) ==
  /\ At(t, "reading") /\ thread[t].op \in Formats /\ caches[thread[t].op] # None
  /\ Becomes(t, [thread[t] EXCEPT !.stage = "answered", !.outcome = "done",
                                  !.listing = caches[thread[t].op]])
  /\ Released(t)
  /\ UNCHANGED <<memory, caches, published, updates>>

LookUpMiss(t) ==
  /\ At(t, "reading") /\ thread[t].op \in Formats /\ caches[thread[t].op] = None
  /\ Goes(t, "listing")
  /\ UNCHANGED <<memory, caches, lock, published, updates>>

(* Fault: the guard is dropped as soon as the listing is computed.         *)
ListPoliciesReleasing(t) ==
  /\ At(t, "listing")
  /\ Becomes(t, [thread[t] EXCEPT !.stage = "caching", !.listing = memory.engine.policies])
  /\ Released(t)
  /\ UNCHANGED <<memory, caches, published, updates>>

ListPolicies(t) ==
  /\ At(t, "listing")
  /\ Becomes(t, [thread[t] EXCEPT !.stage = "caching", !.listing = memory.engine.policies])
  /\ UNCHANGED <<memory, caches, lock, published, updates>>

PutListing(t) ==
  /\ At(t, "caching")
  /\ caches' = [caches EXCEPT ![thread[t].op] = thread[t].listing]
  /\ Ends(t, "done")
  /\ Released(t)
  /\ UNCHANGED <<memory, published, updates>>

AcquireWrite(t) ==
  /\ At(t, "wantsWrite") /\ lock.writer = None /\ lock.readers = {} /\ ~lock.poisoned
  /\ lock' = [lock EXCEPT !.writer = t]
  /\ Goes(t, "checking")
  /\ UNCHANGED <<memory, caches, published, updates>>

(* The checks of an update come before its first assignment.               *)
RejectUpdate(t) ==
  /\ At(t, "checking")
  /\ Ends(t, "rejected")
  /\ lock' = [lock EXCEPT !.writer = None]
  /\ UNCHANGED <<memory, caches, published, updates>>

AcceptUpdate(t) ==
  /\ At(t, "checking")
  /\ \E d \in Documents :
       Becomes(t, [thread[t] EXCEPT !.stage = "writing", !.todo = Assignments(thread[t].op),
                                    !.goal = Updated(memory, thread[t].op, d)])
  /\ UNCHANGED <<memory, caches, lock, published, updates>>

Assign(t) ==
  /\ At(t, "writing") /\ thread[t].todo # << >>
  /\ LET field == Head(thread[t].todo) IN
       IF field \in Formats
       THEN caches' = [caches EXCEPT ![field] = None] /\ memory' = memory
       ELSE memory' = [memory EXCEPT ![field] = thread[t].goal[field]] /\ caches' = caches
  /\ Becomes(t, [thread[t] EXCEPT !.todo = Tail(@)])
  /\ UNCHANGED <<lock, published, updates>>

(* The answer is made from the metadata before the guard is dropped; that  *)
(* of upload_bundle from the prepared bundle, which the fields now hold.   *)
EndUpdate(t) ==
  /\ At(t, "writing") /\ thread[t].todo = << >>
  /\ Becomes(t, [thread[t] EXCEPT !.stage = "answered", !.outcome = "done", !.goal = None,
                                  !.runtime = Runtime(memory), !.reported = Reported(memory)])
  /\ published' = Append(published, memory)
  /\ lock' = [lock EXCEPT !.writer = None]
  /\ UNCHANGED <<memory, caches, updates>>

(* A panic drops the guard; a write guard poisons the lock.  Wherever an   *)
(* update stands, the code below it may panic.                             *)
Panic(t) ==
  /\ thread[t].stage \in {"reading", "listing", "checking", "writing"}
  /\ lock' = [ readers |-> lock.readers \ {t},
               writer |-> IF lock.writer = t THEN None ELSE lock.writer,
               poisoned |-> lock.poisoned \/ lock.writer = t ]
  /\ Ends(t, "panicked")
  /\ UNCHANGED <<memory, caches, published, updates>>

(* readyz does not wait: try_read fails where read would block.            *)
ProbeReadiness(t) ==
  /\ At(t, "idle")
  /\ Becomes(t, [Idle EXCEPT !.stage = "answered", !.since = Len(published),
                   !.outcome = IF lock.writer = None /\ ~WriterWaits /\ ~lock.poisoned
                               THEN "ready" ELSE "not ready"])
  /\ UNCHANGED <<memory, caches, lock, published, updates>>

Finish(t) ==
  /\ At(t, "answered")
  /\ Becomes(t, Idle)
  /\ UNCHANGED <<memory, caches, lock, published, updates>>

LockInit ==
  /\ memory = NewStore
  /\ caches = [f \in Formats |-> None]
  /\ lock = [readers |-> {}, writer |-> None, poisoned |-> FALSE]
  /\ thread = [t \in Threads |-> Idle]
  /\ published = <<NewStore>>
  /\ updates = 0

(* What a thread does once it was asked.                                   *)
Proceed(t) ==
  \/ Refuse(t)
  \/ AcquireRead(t)
  \/ CheckUpload(t)
  \/ PrepareUpload(t)
  \/ ReadRuntime(t)
  \/ ReadMetadata(t)
  \/ LookUpHit(t)
  \/ LookUpMiss(t)
  \/ ListPolicies(t)
  \/ PutListing(t)
  \/ AcquireWrite(t)
  \/ RejectUpdate(t)
  \/ AcceptUpdate(t)
  \/ Assign(t)
  \/ EndUpdate(t)
  \/ Finish(t)

LockNext == \E t \in Threads : Ask(t) \/ Proceed(t) \/ Panic(t) \/ ProbeReadiness(t)

LockSpec == LockInit /\ [][LockNext]_lockVars

(* The scheduler lets every thread run that can.                           *)
FairLockSpec == LockSpec /\ \A t \in Threads : WF_lockVars(Proceed(t))

-----------------------------------------------------------------------------
(* Properties.                                                             *)

Stages == { "idle", "wantsRead", "reading", "preparing", "readingRest", "listing", "caching",
            "wantsWrite", "checking", "writing", "answered" }

ThreadState ==
  [ stage : Stages, op : Reads \cup Updates \cup {None}, since : Nat,
    todo : Seq(StoreFields \cup Formats), goal : Store \cup {None},
    runtime : RuntimeFields \cup {None}, reported : ReportedFields \cup {None},
    listing : Contents \cup {None}, outcome : Outcomes \cup {None} ]

Holders(stages) == {t \in Threads : thread[t].stage \in stages}

(* The lock is held by exactly the threads that read or write, by many     *)
(* readers or by one writer; only a writer has assignments to make.        *)
LockTypeOK ==
  /\ memory \in Store
  /\ caches \in [Formats -> Contents \cup {None}]
  /\ thread \in [Threads -> ThreadState]
  /\ lock.poisoned \in BOOLEAN
  /\ lock.readers = Holders({"reading", "readingRest", "listing", "caching"})
  /\ IF lock.writer = None THEN Holders({"checking", "writing"}) = {}
     ELSE Holders({"checking", "writing"}) = {lock.writer} /\ lock.readers = {}
  /\ published \in Seq(Store)
  /\ updates \in 0 .. MaxUpdates
  /\ \A t \in Threads : /\ At(t, "writing") <=> thread[t].goal # None
                        /\ thread[t].todo # << >> => At(t, "writing")
                        /\ thread[t].outcome # None <=> At(t, "answered")

(* What a handler reports, the answer of an update included, is one state  *)
(* that a completed update left, and no older than the request; it never   *)
(* mixes the engine of one state with metadata of another.                 *)
AnswersAreWhole ==
  \A t \in Threads :
    thread[t].reported # None =>
      \E i \in thread[t].since .. Len(published) :
        /\ thread[t].runtime = Runtime(published[i])
        /\ thread[t].reported = Reported(published[i])

(* Listings are computed and inserted in different sections of the mutex;  *)
(* still no listing survives the update that outdates it, and none that is *)
(* handed out is older than its request.                                   *)
ListingsAreCurrent ==
  /\ lock.writer = None /\ ~lock.poisoned =>
       \A f \in Formats : caches[f] \in {None, memory.engine.policies}
  /\ \A t \in Threads : At(t, "answered") /\ thread[t].listing # None =>
       \E i \in thread[t].since .. Len(published) :
         thread[t].listing = published[i].engine.policies

(* A panic in the middle of an update may leave a torn state.  From then   *)
(* on no request is answered from the store and no probe finds it ready.   *)
PoisonedStoreIsClosed ==
  [][lock.poisoned =>
       /\ UNCHANGED <<memory, caches>>
       /\ \A t \in Threads : At(t, "answered")' /\ ~At(t, "answered")
            => thread'[t].outcome \notin {"done", "ready"}]_lockVars

(* The methods take effect one at a time, each between its request and its *)
(* answer, although an update assigns field by field and a listing is      *)
(* cached in sections: the ground for PolicyStore to take each method of   *)
(* SharedPolicyStore as one step.  A panic in the middle closes the store. *)
Successors(s, op) == {Updated(s, op, d) : d \in Documents}

Failure(outcome) == [outcome |-> outcome, runtime |-> None, reported |-> None, listing |-> None]

Answer(op, s) ==
  IF op \in Formats
  THEN [Failure("done") EXCEPT !.listing = s.engine.policies]
  ELSE [Failure("done") EXCEPT !.runtime = Runtime(s), !.reported = Reported(s)]

AnswerOf(r) ==
  [outcome |-> r.outcome, runtime |-> r.runtime, reported |-> r.reported, listing |-> r.listing]

Settlement == published[Len(published)]
Progress == [t \in Threads |-> IF thread[t].stage \in {"idle", "answered"} THEN thread[t].stage
                               ELSE "asked"]
Requested == [t \in Threads |-> thread[t].op]
Answered == [t \in Threads |-> IF At(t, "answered") THEN AnswerOf(thread[t]) ELSE None]

Serial == INSTANCE SerialStore
            WITH store <- Settlement, closed <- lock.poisoned, stage <- Progress,
                 request <- Requested, answer <- Answered

ImplementsSerialStore == Serial!SerialSpec

(* No order of the two locks and no panic keeps a request waiting for      *)
(* ever: every thread comes to its answer and is free for the next one.    *)
RequestsAreAnswered == \A t \in Threads : ~At(t, "idle") ~> At(t, "idle")

=============================================================================
