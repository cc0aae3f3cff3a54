--------------------------- MODULE ActionMetrics ---------------------------
(***************************************************************************)
(* PrometheusMetricsSink (src/src/metrics.rs): the callbacks with which the *)
(* policy engine reports evaluations, called by all threads that evaluate. *)
(* An ActionMetrics holds one OnceLock per metric, filled on first use     *)
(* with a handle from the registered family; a cache maps the action as    *)
(* the engine spells it to its ActionMetrics.  A handle shares the value   *)
(* that the family exports, and an increment is one atomic addition.       *)
(***************************************************************************)
EXTENDS Naturals, Sequences, FiniteSets

CONSTANTS
  Threads,
  Actions,          \* raw action ids
  LabelOf,          \* metric_action_id: several spellings may have one label
  None,
  MaxObservations   \* bound on the callbacks of a behaviour

Labels == {LabelOf[a] : a \in Actions}
Phases == <<"apply_labels", "construct_entities", "resolve_groups", "cedar_authorize", "overhead">>
Metrics == {"evals", "allowed", "denied", "duration"} \cup {Phases[i] : i \in DOMAIN Phases}

(* The metrics a callback observes, in its order.                          *)
Callbacks ==
  { <<"evals", "allowed", "duration">>, <<"evals", "denied", "duration">>, Phases }

ASSUME MetricsAssumption ==
  /\ LabelOf \in [Actions -> Labels] /\ None \notin Actions \cup Nat
  /\ IsFiniteSet(Threads) /\ MaxObservations \in Nat

VARIABLES
  cached,       \* action_metrics: the position in created, 0 if there is none
  created,      \* the ActionMetrics so far: label and initialized locks
  exported,     \* the families: the value for each label, None before the first use
  thread,       \* where each thread is in its callback
  observed      \* history: the callbacks so far, as pairs of action and callback

metricsVars == <<cached, created, exported, thread, observed>>

Idle == [stage |-> "idle", action |-> None, todo |-> << >>, entry |-> 0]

At(t, stage) == thread[t].stage = stage
Becomes(t, next) == thread' = [thread EXCEPT ![t] = next]
Use(t, entry) == Becomes(t, [thread[t] EXCEPT !.stage = "observing", !.entry = entry])

(* on_evaluation or on_evaluation_phases                                   *)
Observe(t) ==
  /\ At(t, "idle") /\ Len(observed) < MaxObservations
  /\ \E a \in Actions, callback \in Callbacks :
       /\ Becomes(t, [stage |-> "lookup", action |-> a, todo |-> callback, entry |-> 0])
       /\ observed' = Append(observed, [action |-> a, callback |-> callback])
  /\ UNCHANGED <<cached, created, exported>>

(* The read guard lives for the look-up.                                   *)
LookUp(t) ==
  /\ At(t, "lookup")
  /\ IF cached[thread[t].action] # 0 THEN Use(t, cached[thread[t].action])
     ELSE Becomes(t, [thread[t] EXCEPT !.stage = "missed"])
  /\ UNCHANGED <<cached, created, exported, observed>>

NewMetrics(t) == [label |-> LabelOf[thread[t].action], handles |-> {}]

(* Fault: the second look-up, under the write guard, is left out.          *)
InsertUnchecked(t) ==
  /\ At(t, "missed")
  /\ created' = Append(created, NewMetrics(t))
  /\ cached' = [cached EXCEPT ![thread[t].action] = Len(created')]
  /\ Use(t, Len(created'))
  /\ UNCHANGED <<exported, observed>>

(* entry().or_insert() keeps what another thread has inserted meanwhile.   *)
Insert(t) ==
  /\ At(t, "missed")
  /\ IF cached[thread[t].action] = 0
     THEN /\ created' = Append(created, NewMetrics(t))
          /\ cached' = [cached EXCEPT ![thread[t].action] = Len(created')]
     ELSE UNCHANGED <<cached, created>>
  /\ Use(t, cached'[thread[t].action])
  /\ UNCHANGED <<exported, observed>>

(* Fault: the thread that initializes the lock does not count.             *)
GetOrInitInsteadOfCounting(t) ==
  /\ At(t, "observing") /\ thread[t].todo # << >>
  /\ LET m == Head(thread[t].todo)
         e == thread[t].entry IN
       /\ m \notin created[e].handles
       /\ created' = [created EXCEPT ![e].handles = @ \cup {m}]
       /\ exported' = [exported EXCEPT ![m][created[e].label] = IF @ = None THEN 0 ELSE @]
  /\ Becomes(t, [thread[t] EXCEPT !.todo = Tail(@)])
  /\ UNCHANGED <<cached, observed>>

(* get_or_init with get_or_create_owned: the family keeps the value it     *)
(* already has for the label.                                              *)
GetOrInit(t) ==
  /\ At(t, "observing") /\ thread[t].todo # << >>
  /\ LET m == Head(thread[t].todo)
         e == thread[t].entry IN
       /\ m \notin created[e].handles
       /\ created' = [created EXCEPT ![e].handles = @ \cup {m}]
       /\ exported' = [exported EXCEPT ![m][created[e].label] = IF @ = None THEN 0 ELSE @]
  /\ UNCHANGED <<cached, thread, observed>>

(* Counter::inc or Histogram::observe                                      *)
Count(t) ==
  /\ At(t, "observing") /\ thread[t].todo # << >>
  /\ LET m == Head(thread[t].todo)
         e == thread[t].entry IN
       /\ m \in created[e].handles
       /\ exported' = [exported EXCEPT ![m][created[e].label] = @ + 1]
  /\ Becomes(t, [thread[t] EXCEPT !.todo = Tail(@)])
  /\ UNCHANGED <<cached, created, observed>>

Return(t) ==
  /\ At(t, "observing") /\ thread[t].todo = << >>
  /\ Becomes(t, Idle)
  /\ UNCHANGED <<cached, created, exported, observed>>

MetricsInit ==
  /\ cached = [a \in Actions |-> 0]
  /\ created = << >>
  /\ exported = [m \in Metrics |-> [l \in Labels |-> None]]
  /\ thread = [t \in Threads |-> Idle]
  /\ observed = << >>

MetricsNext ==
  \E t \in Threads :
    Observe(t) \/ LookUp(t) \/ Insert(t) \/ GetOrInit(t) \/ Count(t) \/ Return(t)

MetricsSpec == MetricsInit /\ [][MetricsNext]_metricsVars

-----------------------------------------------------------------------------
(* Properties.                                                             *)

Value(m, l) == IF exported[m][l] = None THEN 0 ELSE exported[m][l]

Has(todo, m) == \E j \in DOMAIN todo : todo[j] = m

(* The observations of a metric under a label that were asked for ...      *)
Requests(m, l) ==
  {i \in DOMAIN observed : LabelOf[observed[i].action] = l /\ Has(observed[i].callback, m)}

(* ... and the threads that have still to make one.                        *)
Observers(m, l) ==
  {t \in Threads : ~At(t, "idle") /\ LabelOf[thread[t].action] = l /\ Has(thread[t].todo, m)}

(* A thread observes with the metrics of its action, of which there are    *)
(* only one; a lock is initialized once, and its value is exported.        *)
MetricsTypeOK ==
  /\ cached \in [Actions -> 0 .. Len(created)]
  /\ \A i \in DOMAIN created :
       /\ created[i].label \in Labels /\ created[i].handles \subseteq Metrics
       /\ \A m \in created[i].handles : exported[m][created[i].label] \in Nat
  /\ \A t \in Threads :
       /\ thread[t].stage \in {"idle", "lookup", "missed", "observing"}
       /\ thread[t].todo # << >> => ~At(t, "idle")
       /\ At(t, "observing") => created[thread[t].entry].label = LabelOf[thread[t].action]

(* Whichever threads miss the cache or initialize a lock together, under   *)
(* however many spellings of an action: no observation is lost and none is *)
(* counted twice or under another label.                                   *)
NoObservationIsLost ==
  \A m \in Metrics, l \in Labels :
    Value(m, l) + Cardinality(Observers(m, l)) = Cardinality(Requests(m, l))

(* Threads that observe one action share one ActionMetrics for good, so    *)
(* that a handle is looked up in its family once.                          *)
HandlesAreShared ==
  \A t \in Threads : At(t, "observing") => thread[t].entry = cached[thread[t].action]

=============================================================================
