--------------------------- MODULE MetricsProofs ----------------------------
(* Theorems about the metrics: of the evaluation sink (ActionMetrics), for *)
(* any number of threads and actions, and of the middleware and the scrape *)
(* (RequestTracing), for any number of requests and batches of any size.   *)
EXTENDS ActionMetrics, RequestTracing, FiniteSetTheorems, SequenceTheorems, TLAPS

-----------------------------------------------------------------------------
(* ActionMetrics.  What is in the cache stays there, so a thread that      *)
(* observes does so with the metrics in the cache; no callback observes a  *)
(* metric twice.                                                           *)

Once(rest) == \A i, j \in DOMAIN rest : rest[i] = rest[j] => i = j

ThreadState ==
  [ stage : {"idle", "lookup", "missed", "observing"}, action : Actions \cup {None},
    todo : Seq(Metrics), entry : Nat ]

ThreadInv(r) ==
  /\ Once(r.todo)
  /\ IF r.stage = "idle" THEN r.todo = << >> ELSE r.action \in Actions
  /\ r.stage = "observing" => r.entry = cached[r.action] /\ r.entry # 0

ExportInv ==
  /\ exported \in [Metrics -> [Labels -> Nat \cup {None}]]
  /\ \A i \in DOMAIN created : \A m \in created[i].handles : exported[m][created[i].label] # None

CacheInv ==
  /\ created \in Seq([label : Labels, handles : SUBSET Metrics])
  /\ cached \in [Actions -> 0 .. Len(created)]
  /\ \A a \in Actions : cached[a] # 0 => created[cached[a]].label = LabelOf[a]

Observation == [action : Actions, callback : Seq(Metrics)]

MetricsInv ==
  /\ thread \in [Threads -> ThreadState] /\ \A t \in Threads : ThreadInv(thread[t])
  /\ observed \in Seq(Observation)
  /\ CacheInv
  /\ ExportInv
  /\ NoObservationIsLost

LEMMA CallbackFacts ==
  ASSUME NEW callback \in Callbacks
  PROVE  callback \in Seq(Metrics) /\ Once(callback)
<1>1. {"evals", "allowed", "denied", "duration"} \subseteq Metrics
  BY DEF Metrics
<1>2. Phases \in Seq(Metrics) /\ Once(Phases)
  <2> DEFINE Names == {"apply_labels", "construct_entities", "resolve_groups", "cedar_authorize",
                       "overhead"}
  <2>1. Phases \in Seq(Names) /\ Once(Phases)
    BY DEF Phases, Once
  <2>2. Phases \in [DOMAIN Phases -> Metrics] /\ Len(Phases) \in Nat /\ DOMAIN Phases = 1 .. Len(Phases)
    <3>1. \A i \in DOMAIN Phases : Phases[i] \in Metrics
      BY DEF Metrics
    <3>2. Phases \in Seq(Names)
      BY <2>1
    <3> HIDE DEF Names
    <3> QED BY <3>1, <3>2
  <2>3. Phases \in Seq(Metrics)
    BY <2>2
  <2> QED BY <2>1, <2>3
<1>3. CASE callback = <<"evals", "allowed", "duration">>
  BY <1>1, <1>3 DEF Once
<1>4. CASE callback = <<"evals", "denied", "duration">>
  BY <1>1, <1>4 DEF Once
<1> QED BY <1>2, <1>3, <1>4 DEF Callbacks

LEMMA MetricsInitially == MetricsInit => MetricsInv
<1> SUFFICES ASSUME MetricsInit PROVE MetricsInv
  OBVIOUS
<1> USE MetricsAssumption DEF MetricsInit
<1>1. Idle \in ThreadState /\ ThreadInv(Idle)
  BY DEF Idle, ThreadState, ThreadInv, Once
<1>2. CacheInv /\ ExportInv
  BY DEF CacheInv, ExportInv
<1>3. NoObservationIsLost
  <2> SUFFICES ASSUME NEW m \in Metrics, NEW l \in Labels
               PROVE  Value(m, l) + Cardinality(Observers(m, l)) = Cardinality(Requests(m, l))
    BY DEF NoObservationIsLost
  <2>1. Value(m, l) = 0
    BY DEF Value
  <2>2. Observers(m, l) = {} /\ Requests(m, l) = {}
    BY DEF Observers, Requests, At, Idle
  <2> QED BY <2>1, <2>2, FS_EmptySet
<1> QED BY <1>1, <1>2, <1>3 DEF MetricsInv

LEMMA FiniteCounts ==
  ASSUME MetricsInv, NEW m, NEW l
  PROVE  /\ IsFiniteSet(Observers(m, l)) /\ Cardinality(Observers(m, l)) \in Nat
         /\ IsFiniteSet(Requests(m, l)) /\ Cardinality(Requests(m, l)) \in Nat
<1>1. IsFiniteSet(Observers(m, l))
  <2>1. Observers(m, l) \in SUBSET Threads
    BY DEF Observers
  <2> QED BY <2>1, FS_Subset, MetricsAssumption
<1>2. IsFiniteSet(Requests(m, l))
  <2>1. Len(observed) \in Nat /\ DOMAIN observed = 1 .. Len(observed)
    BY DEF MetricsInv
  <2>2. Requests(m, l) \in SUBSET (1 .. Len(observed))
    BY <2>1 DEF Requests
  <2>3. IsFiniteSet(1 .. Len(observed))
    BY <2>1, FS_Interval
  <2> QED BY <2>2, <2>3, FS_Subset
<1> QED BY <1>1, <1>2, FS_CardinalityType

LEMMA ValueType ==
  ASSUME MetricsInv, NEW m \in Metrics, NEW l \in Labels
  PROVE  Value(m, l) \in Nat /\ exported[m][l] \in Nat \cup {None}
BY DEF MetricsInv, ExportInv, Value

(* Steps after which the same observations are outstanding.                *)
LEMMA SameObservers ==
  ASSUME MetricsInv, NEW t \in Threads, NEW n \in ThreadState,
         thread' = [thread EXCEPT ![t] = n], UNCHANGED observed, n.todo = thread[t].todo,
         \/ n.todo = << >>
         \/ n.action = thread[t].action /\ n.stage # "idle" /\ thread[t].stage # "idle"
  PROVE  \A m \in Metrics, l \in Labels :
           Observers(m, l)' = Observers(m, l) /\ Requests(m, l)' = Requests(m, l)
<1>1. \A u \in Threads : thread'[u] = IF u = t THEN n ELSE thread[u]
  BY DEF MetricsInv
<1>2. \A m : ~Has(<< >>, m)
  BY DEF Has
<1>3. ASSUME NEW m \in Metrics, NEW l \in Labels, NEW u \in Threads
      PROVE  u \in Observers(m, l)' <=> u \in Observers(m, l)
  <2>1. CASE u # t
    BY <1>1, <2>1 DEF Observers, At
  <2>2. CASE u = t /\ n.todo = << >>
    BY <1>1, <1>2, <2>2 DEF Observers
  <2>3. CASE u = t /\ n.todo # << >>
    BY <1>1, <2>3 DEF Observers, At
  <2> QED BY <2>1, <2>2, <2>3
<1>4. \A m \in Metrics, l \in Labels : Observers(m, l)' = Observers(m, l)
  BY <1>3 DEF Observers
<1>5. \A m \in Metrics, l \in Labels : Requests(m, l)' = Requests(m, l)
  BY DEF Requests
<1> QED BY <1>4, <1>5

LEMMA ThreadStep ==
  ASSUME MetricsInv, NEW t \in Threads, NEW n \in ThreadState, thread' = [thread EXCEPT ![t] = n],
         Once(n.todo), IF n.stage = "idle" THEN n.todo = << >> ELSE n.action \in Actions,
         n.stage = "observing" => n.entry = cached'[n.action] /\ n.entry # 0,
         \A a \in Actions : cached[a] # 0 => cached'[a] = cached[a]
  PROVE  thread' \in [Threads -> ThreadState] /\ \A u \in Threads : ThreadInv(thread[u])'
<1>1. thread' \in [Threads -> ThreadState]
      /\ \A u \in Threads : thread'[u] = IF u = t THEN n ELSE thread[u]
  BY DEF MetricsInv
<1>2. ASSUME NEW u \in Threads PROVE ThreadInv(thread[u])'
  <2>1. CASE u = t
    BY <1>1, <2>1 DEF ThreadInv
  <2>2. CASE u # t
    <3>1. thread'[u] = thread[u] /\ ThreadInv(thread[u])
      BY <1>1, <2>2 DEF MetricsInv
    <3> QED BY <3>1 DEF ThreadInv
  <2> QED BY <2>1, <2>2
<1> QED BY <1>1, <1>2

LEMMA ObserveInductive ==
  ASSUME MetricsInv, NEW t \in Threads, Observe(t)
  PROVE  MetricsInv'
<1>1. PICK a \in Actions, callback \in Callbacks :
        /\ thread' = [thread EXCEPT ![t] =
                        [stage |-> "lookup", action |-> a, todo |-> callback, entry |-> 0]]
        /\ observed' = Append(observed, [action |-> a, callback |-> callback])
  BY DEF Observe, Becomes
<1> DEFINE n == [stage |-> "lookup", action |-> a, todo |-> callback, entry |-> 0]
           o == [action |-> a, callback |-> callback]
<1>2. UNCHANGED <<cached, created, exported>> /\ thread[t].stage = "idle"
  BY DEF Observe, At
<1>3. callback \in Seq(Metrics) /\ Once(callback)
  BY CallbackFacts
<1>4. n \in ThreadState /\ o \in Observation
  BY <1>3 DEF ThreadState, Observation
<1>5. n.stage = "lookup" /\ n.action = a /\ n.todo = callback /\ o.action = a /\ o.callback = callback
  OBVIOUS
<1> HIDE DEF n, o
<1>6. thread' = [thread EXCEPT ![t] = n] /\ observed' = Append(observed, o)
  BY <1>1 DEF n, o
<1>7. thread' \in [Threads -> ThreadState] /\ \A u \in Threads : ThreadInv(thread[u])'
  <2>1. thread' \in [Threads -> ThreadState]
        /\ \A u \in Threads : thread'[u] = IF u = t THEN n ELSE thread[u]
    BY <1>4, <1>6 DEF MetricsInv
  <2>2. ASSUME NEW u \in Threads, u # t PROVE ThreadInv(thread[u])'
    <3>1. thread'[u] = thread[u] /\ ThreadInv(thread[u])
      BY <2>1, <2>2 DEF MetricsInv
    <3> QED BY <1>2, <3>1 DEF ThreadInv
  <2>3. ThreadInv(thread[t])'
    BY <1>3, <1>5, <2>1 DEF ThreadInv
  <2> QED BY <2>1, <2>2, <2>3
<1>8. /\ observed \in Seq(Observation) /\ Len(observed) \in Nat
      /\ observed' \in Seq(Observation) /\ DOMAIN observed' = 1 .. Len(observed) + 1
      /\ DOMAIN observed = 1 .. Len(observed) /\ observed'[Len(observed) + 1] = o
      /\ \A i \in DOMAIN observed : observed'[i] = observed[i]
  BY <1>4, <1>6 DEF MetricsInv
<1>9. NoObservationIsLost'
  <2> SUFFICES ASSUME NEW m \in Metrics, NEW l \in Labels
               PROVE  (Value(m, l) + Cardinality(Observers(m, l)) = Cardinality(Requests(m, l)))'
    BY DEF NoObservationIsLost
  <2>1. Value(m, l)' = Value(m, l) /\ Value(m, l) \in Nat
    BY <1>2, ValueType DEF Value
  <2>2. Value(m, l) + Cardinality(Observers(m, l)) = Cardinality(Requests(m, l))
    BY DEF MetricsInv, NoObservationIsLost
  <2>3. t \notin Observers(m, l) /\ Len(observed) + 1 \notin Requests(m, l)
    BY <1>2, <1>8 DEF Observers, Requests, At
  <2>4. \A u \in Threads : thread'[u] = IF u = t THEN n ELSE thread[u]
    BY <1>6 DEF MetricsInv
  <2>5. CASE LabelOf[a] = l /\ Has(callback, m)
    <3>1. Observers(m, l)' = Observers(m, l) \cup {t}
      BY <1>5, <2>4, <2>5 DEF Observers, At
    <3>2. Requests(m, l)' = Requests(m, l) \cup {Len(observed) + 1}
      BY <1>5, <1>8, <2>5 DEF Requests
    <3>3. Cardinality(Observers(m, l)') = Cardinality(Observers(m, l)) + 1
      BY <2>3, <3>1, FiniteCounts, FS_AddElement
    <3>4. Cardinality(Requests(m, l)') = Cardinality(Requests(m, l)) + 1
      BY <2>3, <3>2, FiniteCounts, FS_AddElement
    <3> QED BY <2>1, <2>2, <3>3, <3>4, FiniteCounts
  <2>6. CASE ~(LabelOf[a] = l /\ Has(callback, m))
    <3>1. Observers(m, l)' = Observers(m, l)
      BY <1>5, <2>3, <2>4, <2>6 DEF Observers, At
    <3>2. Requests(m, l)' = Requests(m, l)
      BY <1>5, <1>8, <2>6 DEF Requests
    <3> QED BY <2>1, <2>2, <3>1, <3>2
  <2> QED BY <2>5, <2>6
<1>10. (CacheInv /\ ExportInv)'
  BY <1>2 DEF MetricsInv, CacheInv, ExportInv
<1> QED BY <1>7, <1>8, <1>9, <1>10 DEF MetricsInv

(* What the invariant says of a thread that has to count.                  *)
LEMMA ObservingFacts ==
  ASSUME MetricsInv, NEW t \in Threads, thread[t].stage = "observing", thread[t].todo # << >>
  PROVE  LET m == Head(thread[t].todo)
             e == thread[t].entry IN
         /\ m \in Metrics /\ e \in DOMAIN created
         /\ created[e].label = LabelOf[thread[t].action] /\ created[e].label \in Labels
         /\ Tail(thread[t].todo) \in Seq(Metrics) /\ Once(Tail(thread[t].todo))
         /\ \A k : Has(thread[t].todo, k) <=> k = m \/ Has(Tail(thread[t].todo), k)
         /\ ~Has(Tail(thread[t].todo), m)
<1> DEFINE rest == thread[t].todo
           e == thread[t].entry
           a == thread[t].action
<1>1. /\ rest \in Seq(Metrics) /\ Once(rest) /\ a \in Actions /\ e = cached[a] /\ e # 0
      /\ rest # << >> /\ CacheInv
  BY DEF MetricsInv, ThreadState, ThreadInv
<1>2. /\ e \in DOMAIN created /\ created[e].label = LabelOf[a] /\ created[e].label \in Labels
  <2>1. e \in 1 .. Len(created) /\ DOMAIN created = 1 .. Len(created)
    BY <1>1 DEF CacheInv
  <2> QED BY <1>1, <2>1, MetricsAssumption DEF CacheInv
<1> HIDE DEF rest, e, a
<1>3. /\ Head(rest) \in Metrics /\ Tail(rest) \in Seq(Metrics) /\ Head(rest) = rest[1]
      /\ Len(rest) \in Nat /\ Len(rest) >= 1 /\ DOMAIN rest = 1 .. Len(rest)
      /\ DOMAIN Tail(rest) = 1 .. Len(rest) - 1
      /\ \A i \in 1 .. Len(rest) - 1 : Tail(rest)[i] = rest[i + 1]
  BY <1>1
<1>4. Once(Tail(rest))
  BY <1>1, <1>3 DEF Once
<1>5. ~Has(Tail(rest), Head(rest))
  BY <1>1, <1>3 DEF Once, Has
<1>6. ASSUME NEW k PROVE Has(rest, k) <=> k = Head(rest) \/ Has(Tail(rest), k)
  <2>1. ASSUME NEW j \in DOMAIN rest, rest[j] = k, k # Head(rest) PROVE Has(Tail(rest), k)
    <3>1. j - 1 \in 1 .. Len(rest) - 1 /\ Tail(rest)[j - 1] = k
      BY <1>3, <2>1
    <3> QED BY <1>3, <3>1 DEF Has
  <2>2. ASSUME NEW j \in DOMAIN Tail(rest), Tail(rest)[j] = k PROVE Has(rest, k)
    <3>1. j + 1 \in DOMAIN rest /\ rest[j + 1] = k
      BY <1>3, <2>2
    <3> QED BY <3>1 DEF Has
  <2>3. Has(rest, Head(rest))
    BY <1>3 DEF Has
  <2> QED BY <2>1, <2>2, <2>3 DEF Has
<1> QED BY <1>2, <1>3, <1>4, <1>5, <1>6 DEF rest, e, a

LEMMA CreatedType ==
  ASSUME CacheInv, NEW i \in DOMAIN created
  PROVE  created[i].label \in Labels /\ created[i].handles \subseteq Metrics
<1> DEFINE S == [label : Labels, handles : SUBSET Metrics]
<1>1. created \in Seq(S)
  BY DEF CacheInv
<1> HIDE DEF S
<1>2. created[i] \in S
  BY <1>1
<1> QED BY <1>2 DEF S

LEMMA CountInductive ==
  ASSUME MetricsInv, NEW t \in Threads, Count(t)
  PROVE  MetricsInv'
<1> DEFINE rest == thread[t].todo
           m0 == Head(rest)
           l0 == created[thread[t].entry].label
           n == [thread[t] EXCEPT !.todo = Tail(rest)]
<1>1. /\ thread[t].stage = "observing" /\ rest # << >> /\ thread[t] \in ThreadState
      /\ ThreadInv(thread[t]) /\ UNCHANGED <<cached, created, observed>>
      /\ m0 \in created[thread[t].entry].handles
      /\ exported' = [exported EXCEPT ![m0][l0] = @ + 1]
      /\ thread' = [thread EXCEPT ![t] = n]
  BY DEF Count, At, Becomes, MetricsInv
<1>2. /\ m0 \in Metrics /\ thread[t].entry \in DOMAIN created
      /\ l0 = LabelOf[thread[t].action] /\ l0 \in Labels
      /\ Tail(rest) \in Seq(Metrics) /\ Once(Tail(rest))
      /\ \A k : Has(rest, k) <=> k = m0 \/ Has(Tail(rest), k)
      /\ ~Has(Tail(rest), m0)
  BY <1>1, ObservingFacts
<1>3. exported[m0][l0] \in Nat
  <2>1. exported[m0][l0] # None
    BY <1>1, <1>2 DEF MetricsInv, ExportInv
  <2> QED BY <1>2, <2>1, ValueType
<1>4. /\ n \in ThreadState /\ n.stage = "observing" /\ n.action = thread[t].action
      /\ n.todo = Tail(rest) /\ n.entry = thread[t].entry
  BY <1>1, <1>2 DEF ThreadState
<1> HIDE DEF n, m0, l0
<1>5. thread' \in [Threads -> ThreadState] /\ \A u \in Threads : ThreadInv(thread[u])'
  BY <1>1, <1>2, <1>4, ThreadStep DEF ThreadInv
<1>6. /\ exported' \in [Metrics -> [Labels -> Nat \cup {None}]]
      /\ exported'[m0][l0] = exported[m0][l0] + 1
      /\ \A m \in Metrics, l \in Labels : m # m0 \/ l # l0 => exported'[m][l] = exported[m][l]
  BY <1>1, <1>2, <1>3 DEF MetricsInv, ExportInv
<1>7. ExportInv'
  <2>1. \A m \in Metrics, l \in Labels : exported[m][l] # None => exported'[m][l] # None
    BY <1>2, <1>3, <1>6, MetricsAssumption
  <2>2. \A i \in DOMAIN created : created[i].label \in Labels /\ created[i].handles \subseteq Metrics
    BY CreatedType DEF MetricsInv
  <2> QED BY <1>1, <1>6, <2>1, <2>2 DEF MetricsInv, ExportInv
<1>8. NoObservationIsLost'
  <2> SUFFICES ASSUME NEW m \in Metrics, NEW l \in Labels
               PROVE  (Value(m, l) + Cardinality(Observers(m, l)) = Cardinality(Requests(m, l)))'
    BY DEF NoObservationIsLost
  <2>1. Value(m, l) + Cardinality(Observers(m, l)) = Cardinality(Requests(m, l))
    BY DEF MetricsInv, NoObservationIsLost
  <2>2. Requests(m, l)' = Requests(m, l)
    BY <1>1 DEF Requests
  <2>3. \A u \in Threads : thread'[u] = IF u = t THEN n ELSE thread[u]
    BY <1>1, <1>4 DEF MetricsInv
  <2>4. CASE m = m0 /\ l = l0
    <3>1. t \in Observers(m, l)
      BY <1>1, <1>2, <2>4 DEF Observers, At
    <3>2. Observers(m, l)' = Observers(m, l) \ {t}
      BY <1>2, <1>4, <2>3, <2>4 DEF Observers, At
    <3>3. Cardinality(Observers(m, l)') = Cardinality(Observers(m, l)) - 1
      BY <3>1, <3>2, FiniteCounts, FS_RemoveElement
    <3>4. Value(m, l)' = Value(m, l) + 1
      BY <1>3, <1>6, <2>4, MetricsAssumption DEF Value
    <3> QED BY <2>1, <2>2, <3>3, <3>4, FiniteCounts, ValueType
  <2>5. CASE m # m0 \/ l # l0
    <3>1. Observers(m, l)' = Observers(m, l)
      <4>1. \A u \in Threads : u \in Observers(m, l)' <=> u \in Observers(m, l)
        BY <1>1, <1>2, <1>4, <2>3, <2>5 DEF Observers, At
      <4> QED BY <4>1 DEF Observers
    <3>2. Value(m, l)' = Value(m, l)
      BY <1>6, <2>5 DEF Value
    <3> QED BY <2>1, <2>2, <3>1, <3>2
  <2> QED BY <2>4, <2>5
<1> QED BY <1>1, <1>5, <1>7, <1>8 DEF MetricsInv, CacheInv

(* Steps that find or prepare the metrics to count with.                   *)
LEMMA QuietCounts ==
  ASSUME MetricsInv, NEW t \in Threads, NEW n \in ThreadState,
         thread' = [thread EXCEPT ![t] = n], UNCHANGED observed, n.todo = thread[t].todo,
         \/ n.todo = << >>
         \/ n.action = thread[t].action /\ n.stage # "idle" /\ thread[t].stage # "idle",
         \A m \in Metrics, l \in Labels : Value(m, l)' = Value(m, l)
  PROVE  NoObservationIsLost'
<1>1. \A m \in Metrics, l \in Labels :
        Observers(m, l)' = Observers(m, l) /\ Requests(m, l)' = Requests(m, l)
  BY SameObservers
<1> QED BY <1>1 DEF MetricsInv, NoObservationIsLost

LEMMA LookUpInductive ==
  ASSUME MetricsInv, NEW t \in Threads, LookUp(t)
  PROVE  MetricsInv'
<1> DEFINE a == thread[t].action
<1>1. /\ thread[t].stage = "lookup" /\ thread[t] \in ThreadState /\ ThreadInv(thread[t])
      /\ UNCHANGED <<cached, created, exported, observed>> /\ a \in Actions
      /\ cached[a] \in Nat
  BY DEF LookUp, At, MetricsInv, ThreadInv, CacheInv
<1>2. PICK n \in ThreadState :
        /\ thread' = [thread EXCEPT ![t] = n] /\ n.action = a /\ n.todo = thread[t].todo
        /\ n.stage \in {"observing", "missed"}
        /\ n.stage = "observing" => n.entry = cached[a] /\ n.entry # 0
  <2>1. CASE cached[a] # 0
    <3> DEFINE n == [thread[t] EXCEPT !.stage = "observing", !.entry = cached[a]]
    <3>1. thread' = [thread EXCEPT ![t] = n]
      BY <2>1 DEF LookUp, Use, Becomes
    <3>2. /\ n \in ThreadState /\ n.action = a /\ n.todo = thread[t].todo
          /\ n.stage = "observing" /\ n.entry = cached[a]
      BY <1>1 DEF ThreadState
    <3> QED BY <2>1, <3>1, <3>2
  <2>2. CASE cached[a] = 0
    <3> DEFINE n == [thread[t] EXCEPT !.stage = "missed"]
    <3>1. thread' = [thread EXCEPT ![t] = n]
      BY <2>2 DEF LookUp, Becomes
    <3>2. n \in ThreadState /\ n.action = a /\ n.todo = thread[t].todo /\ n.stage = "missed"
      BY <1>1 DEF ThreadState
    <3> QED BY <3>1, <3>2
  <2> QED BY <2>1, <2>2
<1>3. thread' \in [Threads -> ThreadState] /\ \A u \in Threads : ThreadInv(thread[u])'
  BY <1>1, <1>2, ThreadStep DEF ThreadInv
<1>4. NoObservationIsLost'
  <2>1. \A m \in Metrics, l \in Labels : Value(m, l)' = Value(m, l)
    BY <1>1 DEF Value
  <2> QED BY <1>1, <1>2, <2>1, QuietCounts
<1>5. (CacheInv /\ ExportInv)'
  BY <1>1 DEF MetricsInv, CacheInv, ExportInv
<1> QED BY <1>1, <1>3, <1>4, <1>5 DEF MetricsInv

LEMMA ReturnInductive ==
  ASSUME MetricsInv, NEW t \in Threads, Return(t)
  PROVE  MetricsInv'
<1>1. /\ thread[t].todo = << >> /\ thread' = [thread EXCEPT ![t] = Idle]
      /\ UNCHANGED <<cached, created, exported, observed>>
  BY DEF Return, Becomes
<1>2. Idle \in ThreadState /\ Idle.todo = << >> /\ Idle.stage = "idle" /\ Once(Idle.todo)
  BY DEF Idle, ThreadState, Once
<1>3. thread' \in [Threads -> ThreadState] /\ \A u \in Threads : ThreadInv(thread[u])'
  BY <1>1, <1>2, ThreadStep
<1>4. NoObservationIsLost'
  <2>1. \A m \in Metrics, l \in Labels : Value(m, l)' = Value(m, l)
    BY <1>1 DEF Value
  <2> QED BY <1>1, <1>2, <2>1, QuietCounts
<1>5. (CacheInv /\ ExportInv)'
  BY <1>1 DEF MetricsInv, CacheInv, ExportInv
<1> QED BY <1>1, <1>3, <1>4, <1>5 DEF MetricsInv

LEMMA InsertInductive ==
  ASSUME MetricsInv, NEW t \in Threads, Insert(t)
  PROVE  MetricsInv'
<1> DEFINE a == thread[t].action
           new == NewMetrics(t)
           n == [thread[t] EXCEPT !.stage = "observing", !.entry = cached'[a]]
<1>1. /\ thread[t].stage = "missed" /\ thread[t] \in ThreadState /\ ThreadInv(thread[t])
      /\ UNCHANGED <<exported, observed>> /\ a \in Actions /\ LabelOf[a] \in Labels
      /\ thread' = [thread EXCEPT ![t] = n] /\ CacheInv /\ ExportInv
      /\ Len(created) \in Nat /\ DOMAIN created = 1 .. Len(created)
  BY MetricsAssumption DEF Insert, At, Use, Becomes, MetricsInv, ThreadInv, CacheInv
<1>2. /\ new \in [label : Labels, handles : SUBSET Metrics]
      /\ new.label = LabelOf[a] /\ new.handles = {}
  BY <1>1 DEF NewMetrics
<1> HIDE DEF new
<1>3. /\ CacheInv' /\ ExportInv' /\ cached'[a] # 0 /\ cached'[a] \in Nat
      /\ \A b \in Actions : cached[b] # 0 => cached'[b] = cached[b]
  <2>1. CASE cached[a] # 0
    <3>1. UNCHANGED <<cached, created>>
      BY <2>1 DEF Insert
    <3> QED BY <1>1, <2>1, <3>1 DEF CacheInv, ExportInv
  <2>2. CASE cached[a] = 0
    <3>1. created' = Append(created, new) /\ cached' = [cached EXCEPT ![a] = Len(created')]
      BY <2>2 DEF Insert, new
    <3>2. /\ created' \in Seq([label : Labels, handles : SUBSET Metrics])
          /\ Len(created') = Len(created) + 1 /\ DOMAIN created' = 1 .. Len(created) + 1
          /\ created'[Len(created) + 1] = new
          /\ \A i \in 1 .. Len(created) : created'[i] = created[i]
      <4> DEFINE S == [label : Labels, handles : SUBSET Metrics]
      <4>1. created \in Seq(S) /\ new \in S
        BY <1>1, <1>2 DEF CacheInv
      <4> HIDE DEF S
      <4>2. /\ created' \in Seq(S)
            /\ Len(created') = Len(created) + 1 /\ DOMAIN created' = 1 .. Len(created) + 1
            /\ created'[Len(created) + 1] = new
            /\ \A i \in 1 .. Len(created) : created'[i] = created[i]
        BY <3>1, <4>1
      <4> QED BY <4>2 DEF S
    <3>3. cached \in [Actions -> 0 .. Len(created)]
      BY <1>1 DEF CacheInv
    <3>4. /\ cached' \in [Actions -> 0 .. Len(created')] /\ cached'[a] = Len(created) + 1
          /\ \A b \in Actions : b # a => cached'[b] = cached[b]
      BY <1>1, <3>1, <3>2, <3>3
    <3>5. ASSUME NEW b \in Actions, cached'[b] # 0
          PROVE  created'[cached'[b]].label = LabelOf[b]
      <4>1. CASE b = a
        BY <1>2, <3>2, <3>4, <4>1
      <4>2. CASE b # a
        <5>1. cached'[b] = cached[b] /\ cached[b] \in 1 .. Len(created)
          BY <1>1, <3>3, <3>4, <3>5, <4>2
        <5> QED BY <1>1, <3>2, <3>5, <5>1 DEF CacheInv
      <4> QED BY <4>1, <4>2
    <3>6. CacheInv'
      BY <3>2, <3>4, <3>5 DEF CacheInv
    <3>7. ExportInv'
      <4>1. ASSUME NEW i \in DOMAIN created', NEW m \in created'[i].handles
            PROVE  exported'[m][created'[i].label] # None
        <5>1. i # Len(created) + 1
          BY <1>2, <3>2, <4>1
        <5>2. i \in DOMAIN created /\ created'[i] = created[i]
          BY <1>1, <3>2, <5>1
        <5> QED BY <1>1, <4>1, <5>2 DEF ExportInv
      <4> QED BY <1>1, <4>1 DEF ExportInv
    <3> QED BY <1>1, <2>2, <3>4, <3>6, <3>7
  <2> QED BY <2>1, <2>2
<1>4. /\ n \in ThreadState /\ n.stage = "observing" /\ n.action = a
      /\ n.todo = thread[t].todo /\ n.entry = cached'[a]
  BY <1>1, <1>3 DEF ThreadState
<1> HIDE DEF n
<1>5. thread' \in [Threads -> ThreadState] /\ \A u \in Threads : ThreadInv(thread[u])'
  BY <1>1, <1>3, <1>4, ThreadStep DEF ThreadInv
<1>6. NoObservationIsLost'
  <2>1. \A m \in Metrics, l \in Labels : Value(m, l)' = Value(m, l)
    BY <1>1 DEF Value
  <2> QED BY <1>1, <1>4, <2>1, QuietCounts
<1>7. observed' \in Seq(Observation)
  BY <1>1 DEF MetricsInv
<1> QED BY <1>3, <1>5, <1>6, <1>7 DEF MetricsInv

LEMMA GetOrInitInductive ==
  ASSUME MetricsInv, NEW t \in Threads, GetOrInit(t)
  PROVE  MetricsInv'
<1> DEFINE m0 == Head(thread[t].todo)
           e == thread[t].entry
           l0 == created[e].label
           value == IF exported[m0][l0] = None THEN 0 ELSE exported[m0][l0]
           new == [created[e] EXCEPT !.handles = @ \cup {m0}]
           S == [label : Labels, handles : SUBSET Metrics]
<1>1. /\ thread[t].stage = "observing" /\ thread[t].todo # << >>
      /\ UNCHANGED <<cached, thread, observed>> /\ CacheInv /\ ExportInv
      /\ created' = [created EXCEPT ![e] = new]
      /\ exported' = [exported EXCEPT ![m0][l0] = value]
  BY DEF GetOrInit, At, MetricsInv
<1>2. m0 \in Metrics /\ e \in DOMAIN created /\ l0 \in Labels
  BY <1>1, ObservingFacts
<1>3. created \in Seq(S) /\ created[e] \in S
  <2>1. created \in Seq(S)
    BY <1>1 DEF CacheInv
  <2> HIDE DEF S
  <2> QED BY <1>2, <2>1
<1>4. new \in S /\ new.label = l0 /\ new.handles = created[e].handles \cup {m0}
  BY <1>2, <1>3
<1>5. value \in Nat /\ value # None /\ (exported[m0][l0] # None => value = exported[m0][l0])
  <2> HIDE DEF m0, l0
  <2>1. exported[m0][l0] \in Nat \cup {None}
    BY <1>2, ValueType
  <2>2. None \notin Nat
    BY MetricsAssumption
  <2> QED BY <2>1, <2>2
<1> HIDE DEF S, new, value, m0, l0, e
<1>6. /\ created' \in Seq(S) /\ Len(created') = Len(created) /\ DOMAIN created' = DOMAIN created
      /\ \A i \in DOMAIN created : created'[i] = IF i = e THEN new ELSE created[i]
  BY <1>1, <1>2, <1>3, <1>4
<1>7. \A i \in DOMAIN created : created'[i].label = created[i].label
  BY <1>4, <1>6 DEF l0
<1>8. CacheInv'
  <2>1. cached \in [Actions -> 0 .. Len(created)]
        /\ \A a \in Actions : cached[a] # 0 => created[cached[a]].label = LabelOf[a]
    BY <1>1 DEF CacheInv
  <2>2. Len(created) \in Nat /\ DOMAIN created = 1 .. Len(created)
    BY <1>3
  <2>3. \A a \in Actions : cached[a] # 0 => created'[cached[a]].label = LabelOf[a]
    BY <1>7, <2>1, <2>2
  <2> QED BY <1>1, <1>6, <2>1, <2>3 DEF CacheInv, S
<1>9. /\ exported' \in [Metrics -> [Labels -> Nat \cup {None}]]
      /\ \A m \in Metrics, l \in Labels :
           exported'[m][l] = IF m = m0 /\ l = l0 THEN value ELSE exported[m][l]
  BY <1>1, <1>2, <1>5 DEF ExportInv
<1>10. ExportInv'
  <2>1. ASSUME NEW i \in DOMAIN created, NEW m \in created'[i].handles
        PROVE  exported'[m][created'[i].label] # None
    <3>1. created[i].label \in Labels /\ created[i].handles \subseteq Metrics
      BY <1>1, CreatedType
    <3>2. CASE i = e /\ m = m0
      BY <1>2, <1>4, <1>5, <1>6, <1>9, <3>2
    <3>3. CASE ~(i = e /\ m = m0)
      <4>1. m \in created[i].handles
        BY <1>4, <1>6, <2>1, <3>3
      <4>2. exported[m][created[i].label] # None /\ m \in Metrics
        BY <1>1, <3>1, <4>1 DEF ExportInv
      <4> QED BY <1>5, <1>7, <1>9, <3>1, <4>2
    <3> QED BY <3>2, <3>3
  <2> QED BY <1>6, <1>9, <2>1 DEF ExportInv
<1>11. NoObservationIsLost'
  <2>1. \A m \in Metrics, l \in Labels : Value(m, l)' = Value(m, l)
    BY <1>2, <1>5, <1>9 DEF Value, value
  <2>2. thread[t] \in ThreadState /\ thread' = [thread EXCEPT ![t] = thread[t]]
    BY <1>1 DEF MetricsInv
  <2> QED BY <1>1, <2>1, <2>2, QuietCounts
<1> QED BY <1>1, <1>8, <1>10, <1>11 DEF MetricsInv, ThreadInv

LEMMA MetricsInductive == MetricsInv /\ [MetricsNext]_metricsVars => MetricsInv'
<1> SUFFICES ASSUME MetricsInv, [MetricsNext]_metricsVars PROVE MetricsInv'
  OBVIOUS
<1>1. CASE UNCHANGED metricsVars
  <2>1. UNCHANGED <<cached, created, exported, thread, observed>>
    BY <1>1 DEF metricsVars
  <2>2. (CacheInv /\ ExportInv)'
    BY <2>1 DEF MetricsInv, CacheInv, ExportInv
  <2>3. \A t \in Threads : ThreadInv(thread[t])'
    BY <2>1 DEF MetricsInv, ThreadInv
  <2>4. \A m \in Metrics, l \in Labels :
          /\ Value(m, l)' = Value(m, l)
          /\ Observers(m, l)' = Observers(m, l) /\ Requests(m, l)' = Requests(m, l)
    BY <2>1 DEF Value, Observers, Requests, At
  <2>5. NoObservationIsLost'
    BY <2>4 DEF MetricsInv, NoObservationIsLost
  <2> QED BY <2>1, <2>2, <2>3, <2>5 DEF MetricsInv
<1>2. CASE MetricsNext
  BY <1>2, ObserveInductive, LookUpInductive, InsertInductive, GetOrInitInductive,
     CountInductive, ReturnInductive DEF MetricsNext
<1> QED BY <1>1, <1>2

THEOREM MetricsInvariance == MetricsSpec => []MetricsInv
<1> QED BY MetricsInitially, MetricsInductive, PTL DEF MetricsSpec

-----------------------------------------------------------------------------
(* What the invariant implies.                                             *)

(* A thread observes with the metrics of its action, and a lock that is    *)
(* initialized holds a handle of an exported value.                        *)
THEOREM MetricsTypeCorrectness == MetricsSpec => []MetricsTypeOK
<1>1. MetricsInv => MetricsTypeOK
  <2> SUFFICES ASSUME MetricsInv PROVE MetricsTypeOK
    OBVIOUS
  <2>1. ASSUME NEW i \in DOMAIN created
        PROVE  /\ created[i].label \in Labels /\ created[i].handles \subseteq Metrics
               /\ \A m \in created[i].handles : exported[m][created[i].label] \in Nat
    <3>1. created[i].label \in Labels /\ created[i].handles \subseteq Metrics
      BY CreatedType DEF MetricsInv
    <3> QED BY <3>1 DEF MetricsInv, ExportInv
  <2>2. ASSUME NEW t \in Threads
        PROVE  /\ thread[t].stage \in {"idle", "lookup", "missed", "observing"}
               /\ thread[t].todo # << >> => ~At(t, "idle")
               /\ At(t, "observing") => created[thread[t].entry].label = LabelOf[thread[t].action]
    BY DEF MetricsInv, ThreadInv, ThreadState, CacheInv, At
  <2> QED BY <2>1, <2>2 DEF MetricsTypeOK, MetricsInv, CacheInv
<1> QED BY <1>1, MetricsInvariance, PTL

(* However the callbacks of evaluations interleave, no observation is      *)
(* lost, doubled or counted under another label.                           *)
THEOREM ObservationsAreCounted == MetricsSpec => []NoObservationIsLost
<1>1. MetricsInv => NoObservationIsLost
  BY DEF MetricsInv
<1> QED BY <1>1, MetricsInvariance, PTL

(* The second look-up under the write guard makes threads that miss the    *)
(* cache together share one ActionMetrics.                                 *)
THEOREM SharedHandles == MetricsSpec => []HandlesAreShared
<1>1. MetricsInv => HandlesAreShared
  BY DEF MetricsInv, ThreadInv, HandlesAreShared, At
<1> QED BY <1>1, MetricsInvariance, PTL

-----------------------------------------------------------------------------
(* RequestTracing.  A request is known by how many of the families it has  *)
(* updated, in the order of Registered, and a scrape by how many it has    *)
(* read: whoever updated a family has updated those before it.             *)

Stages == {"idle", "handling", "accepted", "produced", "answered", "rejected", "abandoned"}

RequestRecord == [route : Routes, admitted : BOOLEAN, sound : BOOLEAN, size : Nat]

Responded(r) == stage[r] \in {"produced", "answered"}
Scraping(r) == stage[r] = "handling" /\ request[r].route = "metrics"

PlanLength(r) == IF accepted[r] THEN 4 ELSE 2
Updates(r) == IF Responded(r) THEN PlanLength(r) - Len(todo[r]) ELSE 0
Reads(r) == IF Scraping(r) THEN 5 - Len(todo[r]) ELSE IF Read(r) THEN 5 ELSE 0

(* The requests that the k-th family counts, and those it is about.        *)
Counted(k) == {r \in HttpRequests : IF k = 5 THEN stage[r] = "rejected" ELSE k <= Updates(r)}

Eligible(r, k) ==
  CASE k \in {1, 2} -> request[r].admitted
    [] k \in {3, 4} -> IsAcceptedBatch(r)
    [] OTHER -> ~request[r].admitted

Rests(n) == {SubSeq(Registered, i, n) : i \in 1 .. n + 1}

RequestOK(r) ==
  /\ stage[r] = "rejected" <=> ~request[r].admitted
  /\ accepted[r] <=> stage[r] \in {"accepted", "produced", "answered"} /\ IsAcceptedBatch(r)
  /\ stage[r] = "accepted" => accepted[r]
  /\ Responded(r) => status[r] \in Statuses
  /\ stage[r] = "produced" => todo[r] \in Rests(PlanLength(r)) \ {<< >>}
  /\ Scraping(r) => todo[r] \in Rests(5)
  /\ stage[r] # "produced" /\ ~Scraping(r) => todo[r] = << >>
  /\ before[r] \subseteq Answered

TracingTypes ==
  /\ request \in [HttpRequests -> RequestRecord] /\ stage \in [HttpRequests -> Stages]
  /\ status \in [HttpRequests -> Statuses \cup {0}] /\ accepted \in [HttpRequests -> BOOLEAN]
  /\ todo \in [HttpRequests -> Seq(Families)] /\ before \in [HttpRequests -> SUBSET HttpRequests]
  /\ reading \in [HttpRequests -> [Families -> Nat]]
  /\ metrics = [family \in Families |-> metrics[family]]
  /\ \A family \in Families : metrics[family] \in [LabelsOf(family) -> Nat]

FamilyOK(k) ==
  /\ IsFiniteSet(Observations(Registered[k]))
  /\ Total(Registered[k]) = Cardinality(Counted(k))
  /\ \A label \in LabelsOf(Registered[k]) :
       metrics[Registered[k]][label] = Cardinality({r \in Counted(k) : LabelFor(r, Registered[k]) = label})

SumOK ==
  IsFiniteSet(Checks(Counted(3))) /\ batch_sum = Cardinality(Checks(Counted(3)))

(* What r has read of the k-th family counts what was answered before it   *)
(* came, and nothing that is not counted by now ...                        *)
ReadingOK(r, k) ==
  reading[r][Registered[k]] \in
    Cardinality({b \in before[r] : Eligible(b, k)}) .. Cardinality(Counted(k) \ {r})

(* ... and covers what an earlier scrape read of it and of later families. *)
CoverOK(r, s, k) ==
  \A l \in k .. (IF k = 5 THEN 5 ELSE 4) :
    reading[s][Registered[l]] + (IF k <= 2 THEN 1 ELSE 0) <= reading[r][Registered[k]]

ScrapesOK ==
  \A r \in HttpRequests : \A k \in 1 .. Reads(r) :
    /\ ReadingOK(r, k)
    /\ \A s \in before[r] : stage[s] = "answered" /\ request[s].route = "metrics" => CoverOK(r, s, k)

TracingInv ==
  /\ TracingTypes
  /\ \A r \in HttpRequests : RequestOK(r)
  /\ \A k \in 1 .. 5 : FamilyOK(k)
  /\ SumOK
  /\ ScrapesOK

-----------------------------------------------------------------------------
(* RequestTracing: families, plans and labels.                             *)

FamilyNames ==
  { "http_requests", "http_request_duration", "authorization_batch_size", "authorization_request_duration",
    "admission_rejections" }

LEMMA Pairs ==
  ASSUME NEW S, NEW a \in S, NEW b \in S
  PROVE  /\ <<a>> \in Seq(S) /\ Len(<<a>>) = 1 /\ <<a>>[1] = a
         /\ <<a, b>> \in Seq(S) /\ Len(<<a, b>>) = 2 /\ <<a, b>>[1] = a /\ <<a, b>>[2] = b
OBVIOUS

LEMMA ObservedInOrder ==
  /\ HttpObserve \in Seq(FamilyNames) /\ Len(HttpObserve) = 2
  /\ HttpObserve[1] = "http_requests" /\ HttpObserve[2] = "http_request_duration"
  /\ AuthorizationObserve \in Seq(FamilyNames) /\ Len(AuthorizationObserve) = 2
  /\ AuthorizationObserve[1] = "authorization_batch_size"
  /\ AuthorizationObserve[2] = "authorization_request_duration"
<1>1. /\ "http_requests" \in FamilyNames /\ "http_request_duration" \in FamilyNames
      /\ "authorization_batch_size" \in FamilyNames /\ "authorization_request_duration" \in FamilyNames
  BY DEF FamilyNames
<1>2. QED
  BY <1>1, Pairs DEF HttpObserve, AuthorizationObserve

LEMMA RegisteredFamilies ==
  /\ Registered \in Seq(Families) /\ Len(Registered) = 5
  /\ Registered[1] = "http_requests" /\ Registered[2] = "http_request_duration"
  /\ Registered[3] = "authorization_batch_size" /\ Registered[4] = "authorization_request_duration"
  /\ Registered[5] = "admission_rejections"
  /\ Families = {Registered[k] : k \in 1 .. 5}
<1> DEFINE both == HttpObserve \o AuthorizationObserve
           last == <<"admission_rejections">>
           all == both \o last
<1>1. /\ both \in Seq(FamilyNames) /\ Len(both) = 4
      /\ \A i \in 1 .. 4 : both[i] = IF i <= 2 THEN HttpObserve[i] ELSE AuthorizationObserve[i - 2]
  BY ObservedInOrder, ConcatProperties
<1>2. last \in Seq(FamilyNames) /\ Len(last) = 1 /\ last[1] = "admission_rejections"
  BY Pairs DEF FamilyNames
<1> HIDE DEF both, last
<1>3. /\ all \in Seq(FamilyNames) /\ Len(all) = 5
      /\ \A i \in 1 .. 5 : all[i] = IF i <= 4 THEN both[i] ELSE last[i - 4]
  <2>1. /\ all \in Seq(FamilyNames) /\ Len(all) = Len(both) + Len(last)
        /\ \A i \in 1 .. Len(both) + Len(last) : all[i] = IF i <= Len(both) THEN both[i] ELSE last[i - Len(both)]
    BY <1>1, <1>2, ConcatProperties
  <2>2. QED
    BY <1>1, <1>2, <2>1
<1>4. Registered = all
  BY DEF Registered, both, last
<1> HIDE DEF all
<1>5. /\ all[1] = HttpObserve[1] /\ all[2] = HttpObserve[2] /\ all[3] = AuthorizationObserve[1]
      /\ all[4] = AuthorizationObserve[2] /\ all[5] = last[1]
  BY <1>1, <1>3
<1>6. DOMAIN all = 1 .. 5
  BY <1>3, LenProperties
<1>7. Families = {all[k] : k \in 1 .. 5}
  BY <1>4, <1>6 DEF Families
<1>8. all \in Seq(Families)
  <2>1. all = [k \in 1 .. 5 |-> all[k]]
    BY <1>3, LenProperties
  <2>2. \A k \in 1 .. 5 : all[k] \in Families
    BY <1>7
  <2>3. all \in [1 .. 5 -> Families]
    BY <2>1, <2>2
  <2>4. QED
    BY <2>3, SeqDef
<1>9. QED
  BY <1>2, <1>3, <1>4, <1>5, <1>7, <1>8, ObservedInOrder

LEMMA FamiliesAreDistinct ==
  ASSUME NEW k \in 1 .. 5, NEW l \in 1 .. 5
  PROVE  Registered[k] \in Families /\ (Registered[k] = Registered[l] => k = l)
<1>1. k \in {1, 2, 3, 4, 5} /\ l \in {1, 2, 3, 4, 5}
  OBVIOUS
<1>2. Registered[k] = Registered[l] => k = l
  BY <1>1, RegisteredFamilies
<1>3. QED
  BY <1>2, RegisteredFamilies

LEMMA Prefixes ==
  ASSUME NEW S, NEW s \in Seq(S), NEW t \in Seq(S), NEW n \in 1 .. Len(s)
  PROVE  SubSeq(s \o t, 1, n) = SubSeq(s, 1, n)
<1>1. 1 \in 1 .. Len(s)
  BY LenProperties
<1>2. QED
  BY <1>1, SubSeqOfConcat1, Zenon

(* What TracingMiddleware has to update after a response.                  *)
LEMMA Plans ==
  ASSUME NEW r
  PROVE  HttpObserve \o (IF accepted[r] THEN AuthorizationObserve ELSE << >>)
           = SubSeq(Registered, 1, PlanLength(r))
<1> DEFINE last == <<"admission_rejections">>
           both == HttpObserve \o AuthorizationObserve
<1>1. last \in Seq(FamilyNames)
  BY Pairs DEF FamilyNames
<1>2. both \in Seq(FamilyNames) /\ Len(both) = 4
  <2>1. /\ HttpObserve \in Seq(FamilyNames) /\ AuthorizationObserve \in Seq(FamilyNames)
        /\ Len(HttpObserve) = 2 /\ Len(AuthorizationObserve) = 2
    BY ObservedInOrder
  <2>2. both \in Seq(FamilyNames) /\ Len(both) = Len(HttpObserve) + Len(AuthorizationObserve)
    BY ONLY <2>1, ConcatProperties
  <2> QED BY ONLY <2>1, <2>2
<1>3. Registered = both \o last
  BY DEF Registered
<1>4. SubSeq(both, 1, 4) = both /\ SubSeq(both, 1, 2) = HttpObserve
  BY <1>2, ObservedInOrder, SubSeqFull, SubSeqOfConcat1
<1> DEFINE n2 == 2
           n4 == 4
<1>5. n4 \in 1 .. Len(both) /\ n2 \in 1 .. Len(both)
  BY <1>2
<1> HIDE DEF last, both, n2, n4
<1>6. /\ SubSeq(both \o last, 1, n4) = SubSeq(both, 1, n4)
      /\ SubSeq(both \o last, 1, n2) = SubSeq(both, 1, n2)
  BY <1>1, <1>2, <1>5, Prefixes, Zenon
<1>7. SubSeq(Registered, 1, 4) = both /\ SubSeq(Registered, 1, 2) = HttpObserve
  BY <1>3, <1>4, <1>6, Zenon DEF n2, n4
<1>8. HttpObserve \o << >> = HttpObserve
  BY ObservedInOrder, ConcatEmptySeq
<1>9. QED
  BY <1>7, <1>8 DEF PlanLength, both

(* A rest of a plan begins with the family after those it is done with.    *)
LEMMA RestFacts ==
  ASSUME NEW n \in 0 .. 5, NEW t \in Rests(n)
  PROVE  /\ t \in Seq(Families) /\ Len(t) \in 0 .. n /\ (t = << >> <=> Len(t) = 0)
         /\ t # << >> => /\ Head(t) = Registered[n + 1 - Len(t)]
                         /\ Tail(t) \in Rests(n) /\ Len(Tail(t)) = Len(t) - 1
<1>1. PICK i \in 1 .. n + 1 : t = SubSeq(Registered, i, n)
  BY DEF Rests
<1>2. Registered \in Seq(Families) /\ Len(Registered) = 5
  BY RegisteredFamilies
<1>3. t \in Seq(Families) /\ Len(t) = n + 1 - i
  <2>1. \A j \in i .. n : Registered[j] \in Families
    BY FamiliesAreDistinct
  <2>2. QED
    BY <1>1, <2>1, SubSeqProperties
<1>4. Len(t) \in 0 .. n /\ (t = << >> <=> Len(t) = 0)
  BY <1>3, EmptySeq
<1>5. ASSUME t # << >>
      PROVE  /\ Head(t) = Registered[n + 1 - Len(t)]
             /\ Tail(t) = SubSeq(Registered, i + 1, n) /\ Len(Tail(t)) = Len(t) - 1 /\ i + 1 \in 1 .. n + 1
  <2>1. i \in 1 .. 5 /\ n \in i .. 5
    BY <1>3, <1>4, <1>5
  <2>2. Head(t) = Registered[i] /\ Tail(t) = SubSeq(Registered, i + 1, n)
    BY <1>1, <1>2, <2>1, HeadTailOfSubSeq
  <2>3. Len(Tail(t)) = Len(t) - 1
    BY <1>3, <1>5, HeadTailProperties
  <2>4. i = n + 1 - Len(t)
    BY <1>3
  <2>5. QED
    BY <2>1, <2>2, <2>3, <2>4
<1>6. QED
  BY <1>3, <1>4, <1>5 DEF Rests

LEMMA WholePlans ==
  ASSUME NEW n \in 1 .. 5
  PROVE  /\ SubSeq(Registered, 1, n) \in Rests(n) \ {<< >>} /\ << >> \in Rests(n)
         /\ Len(SubSeq(Registered, 1, n)) = n
<1>1. \A j \in 1 .. n : Registered[j] \in Families
  BY FamiliesAreDistinct
<1> DEFINE p == SubSeq(Registered, 1, n)
<1>2. p \in Seq(Families) /\ Len(p) = n
  BY <1>1, SubSeqProperties
<1>3. SubSeq(Registered, n + 1, n) = << >>
  BY SubSeqEmpty
<1>4. p # << >>
  <2> HIDE DEF p
  <2>1. QED
    BY <1>2
<1>5. 1 \in 1 .. n + 1 /\ n + 1 \in 1 .. n + 1
  OBVIOUS
<1>6. QED
  BY <1>2, <1>3, <1>4, <1>5 DEF Rests

LEMMA WholeScrape == SubSeq(Registered, 1, 5) = Registered
BY RegisteredFamilies, SubSeqFull

LEMMA BucketLimits ==
  /\ DOMAIN BatchSizeBuckets = 1 .. 7 /\ Len(BatchSizeBuckets) = 7
  /\ BatchSizeBuckets[1] = 0 /\ BatchSizeBuckets[2] = 1 /\ BatchSizeBuckets[3] = 4
  /\ BatchSizeBuckets[4] = 8 /\ BatchSizeBuckets[5] = 32 /\ BatchSizeBuckets[6] = 128
  /\ BatchSizeBuckets[7] = 512
BY DEF BatchSizeBuckets

LEMMA ClassNames ==
  /\ DOMAIN Classes = 1 .. 8
  /\ Classes[1] = "0" /\ Classes[2] = "1" /\ Classes[3] = "2-4" /\ Classes[4] = "5-8"
  /\ Classes[5] = "9-32" /\ Classes[6] = "33-128" /\ Classes[7] = "129-512" /\ Classes[8] = "513+"
  /\ \A i, j \in 1 .. 8 : Classes[i] = Classes[j] => i = j
<1>1. /\ DOMAIN Classes = 1 .. 8
      /\ Classes[1] = "0" /\ Classes[2] = "1" /\ Classes[3] = "2-4" /\ Classes[4] = "5-8"
      /\ Classes[5] = "9-32" /\ Classes[6] = "33-128" /\ Classes[7] = "129-512" /\ Classes[8] = "513+"
  BY DEF Classes
<1>2. \A i \in 1 .. 8 : i \in {1, 2, 3, 4, 5, 6, 7, 8}
  OBVIOUS
<1>3. \A i, j \in 1 .. 8 : Classes[i] = Classes[j] => i = j
  BY <1>1, <1>2
<1>4. QED
  BY <1>1, <1>3

(* The first boundary that is not below the size is the one of the class.  *)
LEMMA FirstBoundary ==
  ASSUME NEW n \in Nat, NEW k \in 1 .. 8,
         k < 8 => n <= BatchSizeBuckets[k],
         \A i \in 1 .. 7 : n <= BatchSizeBuckets[i] => k <= i
  PROVE  BucketOf(n) = k
<1> DEFINE S == {i \in DOMAIN BatchSizeBuckets : n <= BatchSizeBuckets[i]} \cup {Len(BatchSizeBuckets) + 1}
<1>1. S = {i \in 1 .. 7 : n <= BatchSizeBuckets[i]} \cup {8}
  BY BucketLimits
<1>2. k \in S /\ S \subseteq 1 .. 8 /\ \A i \in S : k <= i
  BY <1>1
<1>3. BucketOf(n) = Min(S)
  BY DEF BucketOf
<1> HIDE DEF S
<1>4. PICK m \in S : m = Min(S) /\ \A i \in S : m <= i
  BY <1>2 DEF Min
<1>5. m <= k /\ k <= m /\ m \in 1 .. 8
  BY <1>2, <1>4
<1>6. m = k
  BY <1>5
<1>7. QED
  BY <1>3, <1>4, <1>6

(* The classes of the latency and the buckets of the size cut the sizes at *)
(* the same places, for a batch of any size.                               *)
THEOREM ClassesAreBuckets ==
  ASSUME NEW n \in Nat
  PROVE  BucketOf(n) \in 1 .. 8 /\ Classes[BucketOf(n)] = SizeClass(n)
<1>1. \A i \in 1 .. 7 : i \in {1, 2, 3, 4, 5, 6, 7}
  OBVIOUS
<1> DEFINE Falls(k, name) == BucketOf(n) = k /\ SizeClass(n) = name
<1>2. CASE n = 0
  <2>1. Falls(1, "0")
    BY <1>1, <1>2, BucketLimits, FirstBoundary DEF SizeClass
  <2>2. QED
    BY <2>1, ClassNames
<1>3. CASE n = 1
  <2>1. Falls(2, "1")
    BY <1>1, <1>3, BucketLimits, FirstBoundary DEF SizeClass
  <2>2. QED
    BY <2>1, ClassNames
<1>4. CASE n \in 2 .. 4
  <2>1. Falls(3, "2-4")
    BY <1>1, <1>4, BucketLimits, FirstBoundary DEF SizeClass
  <2>2. QED
    BY <2>1, ClassNames
<1>5. CASE n \in 5 .. 8
  <2>1. Falls(4, "5-8")
    BY <1>1, <1>5, BucketLimits, FirstBoundary DEF SizeClass
  <2>2. QED
    BY <2>1, ClassNames
<1>6. CASE n \in 9 .. 32
  <2>1. Falls(5, "9-32")
    BY <1>1, <1>6, BucketLimits, FirstBoundary DEF SizeClass
  <2>2. QED
    BY <2>1, ClassNames
<1>7. CASE n \in 33 .. 128
  <2>1. Falls(6, "33-128")
    BY <1>1, <1>7, BucketLimits, FirstBoundary DEF SizeClass
  <2>2. QED
    BY <2>1, ClassNames
<1>8. CASE n \in 129 .. 512
  <2>1. Falls(7, "129-512")
    BY <1>1, <1>8, BucketLimits, FirstBoundary DEF SizeClass
  <2>2. QED
    BY <2>1, ClassNames
<1>9. CASE n > 512
  <2>1. Falls(8, "513+")
    BY <1>1, <1>9, BucketLimits, FirstBoundary DEF SizeClass
  <2>2. QED
    BY <2>1, ClassNames
<1>10. QED
  BY <1>2, <1>3, <1>4, <1>5, <1>6, <1>7, <1>8, <1>9

(* The labels of each family, and the one a request updates.               *)
LEMMA FamilyLabels ==
  ASSUME NEW r
  PROVE  /\ \A k \in {1, 2} : /\ LabelsOf(Registered[k]) = Routes \X Statuses
                              /\ LabelFor(r, Registered[k]) = <<request[r].route, status[r]>>
         /\ LabelsOf(Registered[3]) = 1 .. 8 /\ LabelFor(r, Registered[3]) = BucketOf(request[r].size)
         /\ LabelsOf(Registered[4]) = {Classes[i] : i \in 1 .. 8}
         /\ LabelFor(r, Registered[4]) = SizeClass(request[r].size)
         /\ LabelsOf(Registered[5]) = {"rejected"} /\ LabelFor(r, Registered[5]) = "rejected"
<1>1. \A k \in {1, 2} : /\ LabelsOf(Registered[k]) = Routes \X Statuses
                        /\ LabelFor(r, Registered[k]) = <<request[r].route, status[r]>>
  BY RegisteredFamilies DEF LabelsOf, LabelFor
<1>2. /\ LabelsOf(Registered[3]) = 1 .. 8 /\ LabelFor(r, Registered[3]) = BucketOf(request[r].size)
      /\ LabelFor(r, Registered[4]) = SizeClass(request[r].size)
      /\ LabelsOf(Registered[5]) = {"rejected"} /\ LabelFor(r, Registered[5]) = "rejected"
  BY RegisteredFamilies, BucketLimits DEF LabelsOf, LabelFor
<1>3. LabelsOf(Registered[4]) = {Classes[i] : i \in 1 .. 8}
  BY RegisteredFamilies, ClassNames DEF LabelsOf
<1>4. QED
  BY <1>1, <1>2, <1>3

LEMMA LabelsAreKnown ==
  ASSUME NEW r, request[r] \in RequestRecord, NEW k \in 1 .. 5, k \in {1, 2} => status[r] \in Statuses
  PROVE  LabelFor(r, Registered[k]) \in LabelsOf(Registered[k])
<1>1. k \in {1, 2, 3, 4, 5} /\ request[r].size \in Nat /\ request[r].route \in Routes
  BY DEF RequestRecord
<1>2. BucketOf(request[r].size) \in 1 .. 8 /\ SizeClass(request[r].size) \in {Classes[i] : i \in 1 .. 8}
  BY <1>1, ClassesAreBuckets
<1>3. QED
  BY <1>1, <1>2, FamilyLabels

-----------------------------------------------------------------------------
(* Counting.  An increment of a family records one observation more.       *)

LEMMA SubsetsAreFinite ==
  ASSUME NEW R \in SUBSET HttpRequests
  PROVE  /\ IsFiniteSet(R) /\ Cardinality(R) \in Nat
         /\ \A Q \in SUBSET R : IsFiniteSet(Q) /\ Cardinality(Q) \in Nat /\ Cardinality(Q) <= Cardinality(R)
<1>1. IsFiniteSet(R)
  BY FS_Subset, TracingAssumption
<1>2. QED
  BY <1>1, FS_Subset, FS_CardinalityType

LEMMA CountedAreFinite ==
  ASSUME NEW k
  PROVE  /\ IsFiniteSet(Counted(k)) /\ Cardinality(Counted(k)) \in Nat
         /\ \A R \in SUBSET Counted(k) : /\ IsFiniteSet(R) /\ Cardinality(R) \in Nat
                                         /\ Cardinality(R) <= Cardinality(Counted(k))
<1>1. Counted(k) \in SUBSET HttpRequests
  BY DEF Counted
<1>2. QED
  BY <1>1, SubsetsAreFinite

LEMMA ReadsAreFew ==
  ASSUME TracingInv, NEW r \in HttpRequests
  PROVE  Reads(r) \in 0 .. 5
<1>1. Scraping(r) => Len(todo[r]) \in 0 .. 5
  BY RestFacts DEF TracingInv, RequestOK
<1>2. CASE Scraping(r)
  <2>1. PICK n \in 0 .. 5 : n = Len(todo[r])
    BY <1>1, <1>2
  <2>2. Reads(r) = 5 - n
    BY <1>2, <2>1 DEF Reads
  <2>3. QED
    BY <2>2
<1>3. CASE ~Scraping(r)
  BY <1>3 DEF Reads
<1>4. QED
  BY <1>2, <1>3

Recorded(m, labels) == UNION {{label} \X (1 .. m[label]) : label \in labels}

LEMMA IncrementAdds ==
  ASSUME NEW labels, NEW m \in [labels -> Nat], NEW l \in labels, NEW m2, m2 = [m EXCEPT ![l] = @ + 1],
         IsFiniteSet(Recorded(m, labels))
  PROVE  /\ IsFiniteSet(Recorded(m2, labels)) /\ Cardinality(Recorded(m, labels)) \in Nat
         /\ Cardinality(Recorded(m2, labels)) = Cardinality(Recorded(m, labels)) + 1
<1> DEFINE n == m[l]
           new == <<l, n + 1>>
           old == Recorded(m, labels)
<1>1. \A x : x \in old <=> \E q \in labels : \E i \in 1 .. m[q] : x = <<q, i>>
  BY DEF Recorded
<1>2. \A x : x \in Recorded(m2, labels) <=> \E q \in labels : \E i \in 1 .. m2[q] : x = <<q, i>>
  BY DEF Recorded
<1>3. n \in Nat /\ (\A q \in labels : m2[q] = IF q = l THEN n + 1 ELSE m[q])
  OBVIOUS
<1> HIDE DEF n
<1>4. 1 .. n + 1 = (1 .. n) \cup {n + 1} /\ n + 1 \notin 1 .. n
  BY <1>3
<1>5. Recorded(m2, labels) = old \cup {new}
  <2>1. ASSUME NEW x \in Recorded(m2, labels)
        PROVE  x \in old \cup {new}
    <3>1. PICK q \in labels : \E i \in 1 .. m2[q] : x = <<q, i>>
      BY <1>2
    <3>2. QED
      BY <1>1, <1>3, <1>4, <3>1 DEF n
  <2>2. ASSUME NEW x \in old
        PROVE  x \in Recorded(m2, labels)
    <3>1. PICK q \in labels : \E i \in 1 .. m[q] : x = <<q, i>>
      BY <1>1
    <3>2. \A i \in 1 .. m[q] : i \in 1 .. m2[q]
      BY <1>3, <1>4 DEF n
    <3>3. QED
      BY <1>2, <3>1, <3>2
  <2>3. new \in Recorded(m2, labels)
    BY <1>2, <1>3, <1>4
  <2>4. QED
    BY <2>1, <2>2, <2>3
<1>6. new \notin old
  BY <1>1, <1>4 DEF n
<1>7. IsFiniteSet(old)
  OBVIOUS
<1> HIDE DEF new, old
<1>8. /\ IsFiniteSet(old \cup {new}) /\ Cardinality(old) \in Nat
      /\ Cardinality(old \cup {new}) = Cardinality(old) + 1
  BY <1>6, <1>7, FS_AddElement, FS_CardinalityType
<1>9. QED
  BY <1>5, <1>8 DEF old

(* A step counts one more request in one family, under its label; those    *)
(* that are counted keep theirs.                                           *)
LEMMA CountingKeepsFamilies ==
  ASSUME TracingInv, NEW k0 \in 1 .. 5, NEW r \in HttpRequests, NEW l0 \in LabelsOf(Registered[k0]),
         metrics' = [metrics EXCEPT ![Registered[k0]][l0] = @ + 1],
         r \notin Counted(k0), Counted(k0)' = Counted(k0) \cup {r}, LabelFor(r, Registered[k0])' = l0,
         \A k \in 1 .. 5 : k # k0 => Counted(k)' = Counted(k),
         \A k \in 1 .. 5 : \A c \in Counted(k) : LabelFor(c, Registered[k])' = LabelFor(c, Registered[k])
  PROVE  /\ \A k \in 1 .. 5 : FamilyOK(k)'
         /\ metrics' = [family \in Families |-> metrics'[family]]
         /\ \A family \in Families : metrics'[family] \in [LabelsOf(family) -> Nat]
<1> DEFINE f0 == Registered[k0]
           old == metrics[f0]
           new == [old EXCEPT ![l0] = @ + 1]
<1>1. /\ metrics = [family \in Families |-> metrics[family]]
      /\ \A family \in Families : metrics[family] \in [LabelsOf(family) -> Nat]
      /\ \A k \in 1 .. 5 : FamilyOK(k)
  BY DEF TracingInv, TracingTypes
<1>2. f0 \in Families /\ old \in [LabelsOf(f0) -> Nat]
  BY <1>1, FamiliesAreDistinct
<1>3. metrics' = [metrics EXCEPT ![f0] = new]
  OBVIOUS
<1>4. new \in [LabelsOf(f0) -> Nat] /\ \A l \in LabelsOf(f0) : new[l] = IF l = l0 THEN old[l0] + 1 ELSE old[l]
  BY <1>2
<1> HIDE DEF f0, new, old
<1>5. /\ metrics' = [family \in Families |-> metrics'[family]]
      /\ \A family \in Families : metrics'[family] = IF family = f0 THEN new ELSE metrics[family]
  BY <1>1, <1>2, <1>3
<1>6. \A family \in Families : metrics'[family] \in [LabelsOf(family) -> Nat]
  BY <1>1, <1>4, <1>5
<1>7. ASSUME NEW k \in 1 .. 5, k # k0
      PROVE  FamilyOK(k)'
  <2>1. Registered[k] \in Families /\ Registered[k] # f0
    BY <1>7, FamiliesAreDistinct DEF f0
  <2>2. metrics'[Registered[k]] = metrics[Registered[k]] /\ Counted(k)' = Counted(k) /\ FamilyOK(k)
    BY <1>1, <1>5, <1>7, <2>1
  <2>3. Observations(Registered[k])' = Observations(Registered[k])
    BY <2>2 DEF Observations
  <2>4. \A l : {c \in Counted(k) : LabelFor(c, Registered[k]) = l}' = {c \in Counted(k) : LabelFor(c, Registered[k]) = l}
    BY <2>2
  <2>5. QED
    BY <2>2, <2>3, <2>4 DEF FamilyOK, Total
<1>8. FamilyOK(k0)'
  <2>1. /\ IsFiniteSet(Observations(f0)) /\ Total(f0) = Cardinality(Counted(k0))
        /\ \A l \in LabelsOf(f0) : old[l] = Cardinality({c \in Counted(k0) : LabelFor(c, f0) = l})
    BY <1>1 DEF FamilyOK, f0, old
  <2>2. metrics'[f0] = new
    BY <1>2, <1>5
  <2>3. IsFiniteSet(Observations(f0)') /\ Total(f0)' = Total(f0) + 1
    <3>1. Observations(f0) = Recorded(old, LabelsOf(f0))
      BY DEF Observations, Recorded, old
    <3>2. Observations(f0)' = Recorded(new, LabelsOf(f0))
      BY <2>2 DEF Observations, Recorded
    <3>3. l0 \in LabelsOf(f0) /\ IsFiniteSet(Recorded(old, LabelsOf(f0)))
      BY <2>1, <3>1 DEF f0
    <3>4. new = [old EXCEPT ![l0] = @ + 1]
      BY DEF new
    <3>5. /\ IsFiniteSet(Recorded(new, LabelsOf(f0)))
          /\ Cardinality(Recorded(new, LabelsOf(f0))) = Cardinality(Recorded(old, LabelsOf(f0))) + 1
      <4>1. old \in [LabelsOf(f0) -> Nat]
        BY <1>2
      <4>2. \A m2 : m2 = [old EXCEPT ![l0] = @ + 1]
                      => /\ IsFiniteSet(Recorded(m2, LabelsOf(f0)))
                         /\ Cardinality(Recorded(m2, LabelsOf(f0))) = Cardinality(Recorded(old, LabelsOf(f0))) + 1
        BY <3>3, <4>1, IncrementAdds
      <4>3. QED
        BY <3>4, <4>2
    <3>6. QED
      BY <3>1, <3>2, <3>5 DEF Total
  <2>4. Cardinality(Counted(k0)') = Cardinality(Counted(k0)) + 1
    BY CountedAreFinite, FS_AddElement
  <2>5. ASSUME NEW l \in LabelsOf(f0)
        PROVE  new[l] = Cardinality({c \in Counted(k0) : LabelFor(c, f0) = l}')
    <3> DEFINE C == {c \in Counted(k0) : LabelFor(c, f0) = l}
    <3>1. C' = IF l = l0 THEN C \cup {r} ELSE C
      BY DEF f0
    <3>2. r \notin C /\ IsFiniteSet(C) /\ Cardinality(C) = old[l]
      BY <2>1, CountedAreFinite
    <3> HIDE DEF C
    <3>3. Cardinality(C') = IF l = l0 THEN old[l] + 1 ELSE old[l]
      BY <3>1, <3>2, FS_AddElement
    <3>4. QED
      BY <1>4, <3>3 DEF C
  <2>6. QED
    BY <2>1, <2>2, <2>3, <2>4, <2>5 DEF FamilyOK, f0
<1>9. QED
  BY <1>5, <1>6, <1>7, <1>8

(* The checks of one more batch.                                           *)
LEMMA ChecksOfOne ==
  ASSUME NEW r, NEW n \in Nat
  PROVE  IsFiniteSet({r} \X (1 .. n)) /\ Cardinality({r} \X (1 .. n)) = n
<1> DEFINE f == [i \in 1 .. n |-> <<r, i>>]
<1>1. f \in Bijection(1 .. n, {r} \X (1 .. n))
  <2>1. f \in [1 .. n -> {r} \X (1 .. n)]
    OBVIOUS
  <2>2. \A i, j \in 1 .. n : f[i] = f[j] => i = j
    OBVIOUS
  <2>3. \A t \in {r} \X (1 .. n) : \E i \in 1 .. n : f[i] = t
    OBVIOUS
  <2> HIDE DEF f
  <2>4. QED
    BY <2>1, <2>2, <2>3 DEF Bijection, Injection, Surjection, IsInjective
<1>2. ExistsBijection(1 .. n, {r} \X (1 .. n))
  BY <1>1 DEF ExistsBijection
<1>3. IsFiniteSet(1 .. n) /\ Cardinality(1 .. n) = n
  BY FS_Interval
<1>4. QED
  BY <1>2, <1>3, FS_Bijection

LEMMA ChecksAdd ==
  ASSUME NEW batches, NEW r, r \notin batches, request[r].size \in Nat, IsFiniteSet(Checks(batches))
  PROVE  /\ IsFiniteSet(Checks(batches \cup {r})) /\ Cardinality(Checks(batches)) \in Nat
         /\ Cardinality(Checks(batches \cup {r})) = Cardinality(Checks(batches)) + request[r].size
<1> DEFINE old == Checks(batches)
           new == {r} \X (1 .. request[r].size)
<1>1. Checks(batches \cup {r}) = old \cup new
  BY DEF Checks
<1>2. old \cap new = {}
  BY DEF Checks
<1>3. IsFiniteSet(new) /\ Cardinality(new) = request[r].size
  BY ChecksOfOne
<1>4. IsFiniteSet(old) /\ Cardinality(old) \in Nat
  BY FS_CardinalityType
<1> HIDE DEF old, new
<1>5. IsFiniteSet(old \cup new) /\ Cardinality(old \cup new) = Cardinality(old) + Cardinality(new) - Cardinality({})
  BY <1>2, <1>3, <1>4, FS_Union
<1>6. Cardinality({}) = 0
  BY FS_EmptySet
<1>7. Cardinality(old \cup new) = Cardinality(old) + request[r].size
  BY <1>3, <1>4, <1>5, <1>6
<1>8. QED
  BY <1>1, <1>4, <1>5, <1>7 DEF old

-----------------------------------------------------------------------------
(* What no step changes: a request that has come, the status of a response *)
(* and an answer.                                                          *)

Stable ==
  \A b \in HttpRequests : /\ stage[b] # "idle" => request'[b] = request[b]
                          /\ Responded(b) => status'[b] = status[b]
                          /\ b \in Answered => stage'[b] = stage[b]

LEMMA CountedHaveCome ==
  ASSUME NEW k \in 1 .. 5, NEW c \in Counted(k)
  PROVE  c \in HttpRequests /\ stage[c] # "idle" /\ (k # 5 => Responded(c))
BY DEF Counted, Updates, Responded

LEMMA LabelsStay ==
  ASSUME Stable, NEW k \in 1 .. 5, NEW c \in Counted(k)
  PROVE  LabelFor(c, Registered[k])' = LabelFor(c, Registered[k])
<1>1. request'[c] = request[c] /\ (k # 5 => status'[c] = status[c])
  BY CountedHaveCome DEF Stable
<1>2. CASE k = 5
  BY <1>2, RegisteredFamilies DEF LabelFor
<1>3. CASE k # 5
  BY <1>1, <1>3 DEF LabelFor
<1>4. QED
  BY <1>2, <1>3

LEMMA UncountedKeepsFamilies ==
  ASSUME TracingInv, Stable, UNCHANGED <<metrics, batch_sum>>, \A k \in 1 .. 5 : Counted(k)' = Counted(k)
  PROVE  (\A k \in 1 .. 5 : FamilyOK(k)') /\ SumOK'
<1>1. ASSUME NEW k \in 1 .. 5
      PROVE  FamilyOK(k)'
  <2>1. FamilyOK(k) /\ Counted(k)' = Counted(k)
    BY DEF TracingInv
  <2>2. Observations(Registered[k])' = Observations(Registered[k])
    BY DEF Observations
  <2>3. \A l : {c \in Counted(k) : LabelFor(c, Registered[k]) = l}' = {c \in Counted(k) : LabelFor(c, Registered[k]) = l}
    BY <2>1, LabelsStay
  <2>4. QED
    BY <2>1, <2>2, <2>3 DEF FamilyOK, Total
<1>2. SumOK'
  <2>1. \A c \in Counted(3) : request'[c] = request[c]
    BY CountedHaveCome DEF Stable
  <2>2. Checks(Counted(3))' = Checks(Counted(3))
    BY <2>1 DEF Checks
  <2>3. QED
    BY <2>2 DEF TracingInv, SumOK
<1>3. QED
  BY <1>1, <1>2

(* Scrapes stay right when others are counted.                             *)
LEMMA EligibleStay ==
  ASSUME TracingInv, Stable, NEW r \in HttpRequests, NEW k, NEW b \in before[r]
  PROVE  /\ b \in HttpRequests /\ stage[b] \in {"answered", "rejected"}
         /\ request'[b] = request[b] /\ stage'[b] = stage[b]
         /\ Eligible(b, k)' <=> Eligible(b, k)
<1>1. b \in Answered /\ b \in HttpRequests /\ stage[b] \in {"answered", "rejected"}
  BY DEF TracingInv, RequestOK, Answered
<1>2. request'[b] = request[b] /\ stage'[b] = stage[b]
  BY <1>1 DEF Stable
<1>3. Eligible(b, k)' <=> Eligible(b, k)
  BY <1>2 DEF Eligible, IsAcceptedBatch
<1>4. QED
  BY <1>1, <1>2, <1>3

LEMMA ReadingStays ==
  ASSUME TracingInv, Stable, \A k \in 1 .. 5 : Counted(k) \subseteq Counted(k)',
         NEW r \in HttpRequests, NEW k \in 1 .. 5, ReadingOK(r, k),
         reading'[r][Registered[k]] = reading[r][Registered[k]], before'[r] = before[r]
  PROVE  ReadingOK(r, k)'
<1> DEFINE seen == {b \in before[r] : Eligible(b, k)}
           most == Counted(k) \ {r}
           value == reading[r][Registered[k]]
<1>1. seen' = seen
  BY EligibleStay
<1>2. Cardinality(most) <= Cardinality(most') /\ Cardinality(most') \in Nat /\ Cardinality(most) \in Nat
  <2>1. most' \in SUBSET HttpRequests /\ most \in SUBSET most'
    BY DEF Counted
  <2>2. QED
    BY <2>1, SubsetsAreFinite
<1>3. value \in Cardinality(seen) .. Cardinality(most) /\ Cardinality(seen) \in Nat
  <2>1. seen \in SUBSET HttpRequests
    BY DEF TracingInv, TracingTypes
  <2>2. QED
    BY <2>1, SubsetsAreFinite DEF ReadingOK
<1> HIDE DEF seen, most, value
<1>4. value \in Cardinality(seen) .. Cardinality(most')
  BY <1>2, <1>3
<1>5. QED
  BY <1>1, <1>4 DEF ReadingOK, seen, most, value

LEMMA ScrapesStay ==
  ASSUME TracingInv, Stable, \A k \in 1 .. 5 : Counted(k) \subseteq Counted(k)',
         \A r \in HttpRequests :
           Reads(r)' = 0 \/ (Reads(r)' = Reads(r) /\ reading'[r] = reading[r] /\ before'[r] = before[r])
  PROVE  ScrapesOK'
<1> SUFFICES ASSUME NEW r \in HttpRequests, NEW k \in 1 .. Reads(r)'
             PROVE  /\ ReadingOK(r, k)'
                    /\ \A s \in before'[r] : stage'[s] = "answered" /\ request'[s].route = "metrics" => CoverOK(r, s, k)'
  BY DEF ScrapesOK
<1>1. Reads(r)' = Reads(r) /\ reading'[r] = reading[r] /\ before'[r] = before[r] /\ k \in 1 .. Reads(r)
  OBVIOUS
<1>2. k \in 1 .. 5
  BY <1>1, ReadsAreFew
<1>3. /\ ReadingOK(r, k)
      /\ \A s \in before[r] : stage[s] = "answered" /\ request[s].route = "metrics" => CoverOK(r, s, k)
  BY <1>1 DEF TracingInv, ScrapesOK
<1>4. ReadingOK(r, k)'
  BY <1>1, <1>2, <1>3, ReadingStays
<1>5. ASSUME NEW s \in before'[r], stage'[s] = "answered", request'[s].route = "metrics"
      PROVE  CoverOK(r, s, k)'
  <2>1. s \in HttpRequests /\ stage[s] = "answered" /\ request[s].route = "metrics"
    BY <1>1, <1>5, EligibleStay
  <2>2. Reads(s)' = 5
    BY <1>5 DEF Reads, Scraping, Read
  <2>3. reading'[s] = reading[s]
    BY <2>1, <2>2
  <2>4. QED
    BY <1>1, <1>3, <2>1, <2>3 DEF CoverOK
<1>6. QED
  BY <1>4, <1>5

-----------------------------------------------------------------------------
(* Moves of one request.                                                   *)

Moves(r) ==
  /\ stage[r] \notin {"answered", "rejected"}
  /\ stage[r] # "idle" => request'[r] = request[r]
  /\ Responded(r) => status'[r] = status[r]
  /\ \A s \in HttpRequests : s # r =>
       /\ request'[s] = request[s] /\ stage'[s] = stage[s] /\ status'[s] = status[s]
       /\ accepted'[s] = accepted[s] /\ todo'[s] = todo[s] /\ before'[s] = before[s]
       /\ reading'[s] = reading[s]

LEMMA OthersStay ==
  ASSUME TracingInv, NEW r \in HttpRequests, Moves(r)
  PROVE  /\ Stable /\ Answered \subseteq Answered'
         /\ \A s \in HttpRequests : s # r =>
              RequestOK(s)' /\ Updates(s)' = Updates(s) /\ Reads(s)' = Reads(s)
<1>1. Stable /\ Answered \subseteq Answered'
  BY DEF Moves, Stable, Answered
<1>2. ASSUME NEW s \in HttpRequests, s # r
      PROVE  RequestOK(s)' /\ Updates(s)' = Updates(s) /\ Reads(s)' = Reads(s)
  <2>1. /\ request'[s] = request[s] /\ stage'[s] = stage[s] /\ status'[s] = status[s]
        /\ accepted'[s] = accepted[s] /\ todo'[s] = todo[s] /\ before'[s] = before[s]
    BY <1>2 DEF Moves
  <2>2. RequestOK(s)
    BY DEF TracingInv
  <2>3. before'[s] \subseteq Answered'
    BY <1>1, <2>1, <2>2 DEF RequestOK
  <2>4. RequestOK(s)'
    BY <2>1, <2>2, <2>3 DEF RequestOK, Responded, Scraping, PlanLength, IsAcceptedBatch
  <2>5. Updates(s)' = Updates(s) /\ Reads(s)' = Reads(s)
    BY <2>1 DEF Updates, Reads, Responded, Scraping, Read, PlanLength
  <2>6. QED
    BY <2>4, <2>5
<1>3. QED
  BY <1>1, <1>2

(* A move by which the metrics do not change, or only scrapes read them.   *)
LEMMA UncountedMoveKeepsInv ==
  ASSUME TracingInv, NEW r \in HttpRequests, Moves(r), TracingTypes', RequestOK(r)',
         UNCHANGED <<metrics, batch_sum>>, stage'[r] # "rejected", Updates(r) = 0, Updates(r)' = 0
  PROVE  /\ \A k \in 1 .. 5 : Counted(k)' = Counted(k)
         /\ ScrapesOK' => TracingInv'
         /\ (Reads(r)' = 0 \/ (Reads(r)' = Reads(r) /\ reading'[r] = reading[r] /\ before'[r] = before[r]))
              => TracingInv'
<1>1. /\ Stable
      /\ \A s \in HttpRequests : s # r =>
           RequestOK(s)' /\ Updates(s)' = Updates(s) /\ Reads(s)' = Reads(s) /\ stage'[s] = stage[s]
           /\ before'[s] = before[s] /\ reading'[s] = reading[s]
  BY OthersStay DEF Moves
<1>2. ASSUME NEW k \in 1 .. 5, NEW c \in HttpRequests
      PROVE  (c \in Counted(k))' <=> c \in Counted(k)
  <2>1. CASE c = r
    BY <2>1 DEF Counted, Moves
  <2>2. CASE c # r
    BY <1>1, <2>2 DEF Counted
  <2>3. QED
    BY <2>1, <2>2
<1>3. \A k \in 1 .. 5 : Counted(k)' = Counted(k)
  BY <1>2 DEF Counted
<1>4. ScrapesOK' => TracingInv'
  BY <1>1, <1>3, UncountedKeepsFamilies DEF TracingInv
<1>5. (Reads(r)' = 0 \/ (Reads(r)' = Reads(r) /\ reading'[r] = reading[r] /\ before'[r] = before[r])) => ScrapesOK'
  BY <1>1, <1>3, ScrapesStay
<1>6. QED
  BY <1>3, <1>4, <1>5

LEMMA ClientsAreRecords == Clients \subseteq RequestRecord
<1>1. Sizes \cup {0} \subseteq Nat
  BY TracingAssumption
<1>2. ASSUME NEW q \in [route : Routes, admitted : BOOLEAN, sound : BOOLEAN, size : Sizes \cup {0}]
      PROVE  q \in RequestRecord
  BY <1>1, <1>2 DEF RequestRecord
<1>3. QED
  BY <1>2 DEF Clients

LEMMA AdmitKeepsInv ==
  ASSUME TracingInv, NEW r \in HttpRequests, Admit(r)
  PROVE  TracingInv'
<1>1. PICK q \in Clients :
        /\ q.admitted /\ stage[r] = "idle"
        /\ request' = [request EXCEPT ![r] = q] /\ before' = [before EXCEPT ![r] = Answered]
        /\ stage' = [stage EXCEPT ![r] = "handling"]
        /\ todo' = [todo EXCEPT ![r] = IF q.route = "metrics" THEN Registered ELSE << >>]
        /\ UNCHANGED <<poisoned, status, accepted, metrics, batch_sum, reading>>
  BY DEF Admit, Arrive, InStage, Goes
<1>2. TracingTypes /\ RequestOK(r) /\ q \in RequestRecord
  BY ClientsAreRecords DEF TracingInv
<1>3. Registered \in Seq(Families) /\ << >> \in Seq(Families) /\ Len(Registered) = 5 /\ Registered \in Rests(5)
  <2>1. Registered \in Rests(5)
    <3>1. 5 \in 1 .. 5
      OBVIOUS
    <3>2. SubSeq(Registered, 1, 5) \in Rests(5)
      BY <3>1, WholePlans, Zenon
    <3>3. QED
      BY <3>2, WholeScrape, Zenon
  <2>2. << >> \in Seq(Families)
    OBVIOUS
  <2>3. QED
    BY <2>1, <2>2, RegisteredFamilies
<1>4. TracingTypes'
  <2>1. /\ request' \in [HttpRequests -> RequestRecord] /\ stage' \in [HttpRequests -> Stages]
        /\ todo' \in [HttpRequests -> Seq(Families)]
    BY <1>1, <1>2, <1>3 DEF TracingTypes, Stages
  <2>2. before' \in [HttpRequests -> SUBSET HttpRequests]
    BY <1>1, <1>2 DEF TracingTypes, Answered
  <2>3. QED
    BY <1>1, <1>2, <2>1, <2>2 DEF TracingTypes
<1>5. /\ request'[r] = q /\ stage'[r] = "handling" /\ accepted'[r] = accepted[r] /\ before'[r] = Answered
      /\ todo'[r] = IF q.route = "metrics" THEN Registered ELSE << >>
  BY <1>1, <1>2 DEF TracingTypes
<1>6. Moves(r)
  BY <1>1, <1>2 DEF Moves, TracingTypes, Responded
<1>7. RequestOK(r)'
  <2>1. ~accepted'[r]
    BY <1>1, <1>2, <1>5 DEF RequestOK
  <2>2. before'[r] \subseteq Answered'
    BY <1>5, <1>6, OthersStay
  <2>3. QED
    BY <1>1, <1>3, <1>5, <2>1, <2>2 DEF RequestOK, Responded, Scraping
<1>8. Updates(r) = 0 /\ Updates(r)' = 0 /\ Reads(r)' = 0
  BY <1>1, <1>3, <1>5 DEF Updates, Reads, Responded, Scraping, Read
<1>9. QED
  BY <1>1, <1>4, <1>5, <1>6, <1>7, <1>8, UncountedMoveKeepsInv

LEMMA AbandonKeepsInv ==
  ASSUME TracingInv, NEW r \in HttpRequests, Abandon(r)
  PROVE  TracingInv'
<1>1. /\ stage[r] = "handling" /\ request[r].route \in {"authorize", "other"}
      /\ stage' = [stage EXCEPT ![r] = "abandoned"]
      /\ UNCHANGED <<poisoned, request, status, accepted, todo, before, metrics, batch_sum, reading>>
  BY DEF Abandon, InStage, Goes
<1>2. TracingTypes /\ RequestOK(r)
  BY DEF TracingInv
<1>3. TracingTypes'
  BY <1>1, <1>2 DEF TracingTypes, Stages, LabelsOf
<1>4. stage'[r] = "abandoned" /\ Moves(r)
  BY <1>1, <1>2 DEF Moves, TracingTypes, Responded
<1>5. RequestOK(r)'
  <2>1. before'[r] \subseteq Answered'
    BY <1>1, <1>2, <1>4, OthersStay DEF RequestOK
  <2>2. QED
    BY <1>1, <1>2, <1>4, <2>1 DEF RequestOK, Responded, Scraping, IsAcceptedBatch
<1>6. Updates(r) = 0 /\ Updates(r)' = 0 /\ Reads(r)' = 0
  BY <1>1, <1>4 DEF Updates, Reads, Responded, Scraping, Read
<1>7. QED
  BY <1>1, <1>3, <1>4, <1>5, <1>6, UncountedMoveKeepsInv

LEMMA AcceptBatchKeepsInv ==
  ASSUME TracingInv, NEW r \in HttpRequests, AcceptBatch(r)
  PROVE  TracingInv'
<1>1. /\ stage[r] = "handling" /\ request[r].route = "authorize" /\ request[r].sound
      /\ request[r].size <= MaxBatchSize
      /\ stage' = [stage EXCEPT ![r] = "accepted"] /\ accepted' = [accepted EXCEPT ![r] = TRUE]
      /\ UNCHANGED <<poisoned, request, status, todo, before, metrics, batch_sum, reading>>
  BY DEF AcceptBatch, InStage, Goes
<1>2. TracingTypes /\ RequestOK(r)
  BY DEF TracingInv
<1>3. TracingTypes'
  BY <1>1, <1>2 DEF TracingTypes, Stages, LabelsOf
<1>4. stage'[r] = "accepted" /\ accepted'[r] /\ Moves(r)
  BY <1>1, <1>2 DEF Moves, TracingTypes, Responded
<1>5. RequestOK(r)'
  <2>1. before'[r] \subseteq Answered'
    BY <1>1, <1>2, <1>4, OthersStay DEF RequestOK
  <2>2. request[r].admitted
    BY <1>1, <1>2 DEF RequestOK, TracingTypes, RequestRecord
  <2>3. QED
    BY <1>1, <1>2, <1>4, <2>1, <2>2 DEF RequestOK, Responded, Scraping, IsAcceptedBatch
<1>6. Updates(r) = 0 /\ Updates(r)' = 0 /\ Reads(r)' = 0
  BY <1>1, <1>4 DEF Updates, Reads, Responded, Scraping, Read
<1>7. QED
  BY <1>1, <1>3, <1>4, <1>5, <1>6, UncountedMoveKeepsInv

(* A handler returns: whatever it answers, a batch is observed if and only *)
(* if it was accepted, and a scrape has read every family.                 *)
LEMMA ProducesKeepsInv ==
  ASSUME TracingInv, NEW r \in HttpRequests, NEW s \in Statuses, Produces(r, s),
         UNCHANGED <<request, accepted, before, metrics, batch_sum, reading>>,
         stage[r] \in {"handling", "accepted"}, accepted[r] <=> IsAcceptedBatch(r),
         request[r].route = "metrics" => stage[r] = "handling" /\ todo[r] = << >>
  PROVE  TracingInv'
<1> DEFINE n == PlanLength(r)
           plan == SubSeq(Registered, 1, n)
<1>1. TracingTypes /\ RequestOK(r)
  BY DEF TracingInv
<1>2. n \in {2, 4} /\ plan \in Rests(n) \ {<< >>} /\ Len(plan) = n /\ plan \in Seq(Families)
  <2>1. n \in {2, 4}
    BY DEF PlanLength
  <2>2. plan \in Rests(n) \ {<< >>} /\ Len(plan) = n
    BY <2>1, WholePlans
  <2>3. plan \in Seq(Families)
    <3> HIDE DEF plan
    <3>1. QED
      BY <2>1, <2>2, RestFacts
  <2>4. QED
    BY <2>1, <2>2, <2>3
<1>3. /\ stage' = [stage EXCEPT ![r] = "produced"] /\ status' = [status EXCEPT ![r] = s]
      /\ todo' = [todo EXCEPT ![r] = plan]
  BY Plans DEF Produces, Goes
<1>4. PlanLength(r)' = n
  BY DEF PlanLength
<1> HIDE DEF n, plan
<1>5. TracingTypes'
  <2>1. todo' \in [HttpRequests -> Seq(Families)] /\ stage' \in [HttpRequests -> Stages]
    BY <1>1, <1>2, <1>3 DEF TracingTypes, Stages
  <2>2. status' \in [HttpRequests -> Statuses \cup {0}]
    BY <1>1, <1>3 DEF TracingTypes
  <2>3. QED
    BY <1>1, <2>1, <2>2 DEF TracingTypes, LabelsOf
<1>6. stage'[r] = "produced" /\ status'[r] = s /\ todo'[r] = plan /\ Moves(r)
  BY <1>1, <1>3 DEF Moves, TracingTypes, Responded
<1>7. RequestOK(r)'
  <2>1. before'[r] \subseteq Answered'
    BY <1>1, <1>6, OthersStay DEF RequestOK
  <2>2. QED
    BY <1>1, <1>2, <1>4, <1>6, <2>1 DEF RequestOK, Responded, Scraping, IsAcceptedBatch
<1>8. Updates(r) = 0 /\ Updates(r)' = 0
  BY <1>2, <1>4, <1>6 DEF Updates, Responded
<1>9. Reads(r)' = Reads(r)
  <2>1. Len(<< >>) = 0
    OBVIOUS
  <2>2. QED
    BY <1>6, <2>1 DEF Reads, Scraping, Read
<1>10. QED
  BY <1>5, <1>6, <1>7, <1>8, <1>9, UncountedMoveKeepsInv

LEMMA HandlersKeepInv ==
  ASSUME TracingInv, NEW r \in HttpRequests,
         ExtractionFails(r) \/ RefuseBatch(r) \/ Authorize(r) \/ HandleOther(r) \/ EndScrape(r)
  PROVE  TracingInv'
<1>1. /\ RequestOK(r) /\ request[r] \in RequestRecord /\ MaxBatchSize \in Nat
      /\ accepted[r] \in BOOLEAN
  BY TracingAssumption DEF TracingInv, TracingTypes
<1>2. CASE ExtractionFails(r)
  <2>1. accepted[r] <=> IsAcceptedBatch(r)
    BY <1>1, <1>2 DEF ExtractionFails, InStage, RequestOK, IsAcceptedBatch
  <2>2. QED
    BY <1>2, <2>1, ProducesKeepsInv DEF ExtractionFails, InStage, Statuses
<1>3. CASE RefuseBatch(r)
  <2>1. ~IsAcceptedBatch(r)
    BY <1>1, <1>3 DEF RefuseBatch, RequestRecord, IsAcceptedBatch
  <2>2. accepted[r] <=> IsAcceptedBatch(r)
    BY <1>1, <1>3, <2>1 DEF RefuseBatch, InStage, RequestOK
  <2>3. QED
    BY <1>3, <2>2, ProducesKeepsInv DEF RefuseBatch, InStage, Statuses
<1>4. CASE Authorize(r)
  <2>1. (accepted[r] <=> IsAcceptedBatch(r)) /\ request[r].route = "authorize" /\ stage[r] = "accepted"
    BY <1>1, <1>4 DEF Authorize, InStage, RequestOK, IsAcceptedBatch
  <2>2. PICK s \in Statuses : Produces(r, s)
    BY <1>4 DEF Authorize, Statuses
  <2>3. QED
    BY <1>4, <2>1, <2>2, ProducesKeepsInv DEF Authorize
<1>5. CASE HandleOther(r)
  <2>1. request[r].route \in {"livez", "other"} /\ stage[r] = "handling"
    BY <1>5 DEF HandleOther, InStage
  <2>2. accepted[r] <=> IsAcceptedBatch(r)
    BY <1>1, <2>1 DEF RequestOK, IsAcceptedBatch
  <2>3. PICK s \in Statuses : Produces(r, s)
    BY <1>5 DEF HandleOther, Statuses
  <2>4. QED
    BY <1>5, <2>1, <2>2, <2>3, ProducesKeepsInv DEF HandleOther
<1>6. CASE EndScrape(r)
  <2>1. accepted[r] <=> IsAcceptedBatch(r)
    BY <1>1, <1>6 DEF EndScrape, InStage, RequestOK, IsAcceptedBatch
  <2>2. QED
    BY <1>6, <2>1, ProducesKeepsInv DEF EndScrape, InStage, Statuses
<1>7. QED
  BY <1>2, <1>3, <1>4, <1>5, <1>6

(* Access control rejects, outside tracing: the last family counts it.     *)
LEMMA RejectKeepsInv ==
  ASSUME TracingInv, NEW r \in HttpRequests, Reject(r)
  PROVE  TracingInv'
<1>1. PICK q \in Clients :
        /\ ~q.admitted /\ stage[r] = "idle"
        /\ request' = [request EXCEPT ![r] = q] /\ before' = [before EXCEPT ![r] = Answered]
        /\ stage' = [stage EXCEPT ![r] = "rejected"]
        /\ metrics' = [metrics EXCEPT !["admission_rejections"]["rejected"] = @ + 1]
        /\ UNCHANGED <<poisoned, status, accepted, todo, batch_sum, reading>>
  BY DEF Reject, Arrive, InStage, Goes
<1>2. TracingTypes /\ RequestOK(r) /\ q \in RequestRecord
  BY ClientsAreRecords DEF TracingInv
<1>3. /\ request'[r] = q /\ stage'[r] = "rejected" /\ accepted'[r] = accepted[r] /\ before'[r] = Answered
      /\ todo'[r] = << >>
  BY <1>1, <1>2 DEF TracingTypes, RequestOK, Scraping
<1>4. Moves(r)
  BY <1>1, <1>2 DEF Moves, TracingTypes, Responded
<1>5. Stable /\ Answered \subseteq Answered'
  BY <1>4, OthersStay
<1>6. RequestOK(r)'
  <2>1. ~accepted'[r]
    BY <1>1, <1>2, <1>3 DEF RequestOK
  <2>2. QED
    BY <1>1, <1>3, <1>5, <2>1 DEF RequestOK, Responded, Scraping
<1>7. Updates(r) = 0 /\ Updates(r)' = 0 /\ Reads(r)' = 0
  BY <1>1, <1>3 DEF Updates, Reads, Responded, Scraping, Read
<1>8. ASSUME NEW k \in 1 .. 5, NEW c \in HttpRequests
      PROVE  (c \in Counted(k))' <=> (c \in Counted(k) \/ (c = r /\ k = 5))
  <2>1. CASE c = r
    BY <1>3, <1>7, <2>1 DEF Counted
  <2>2. CASE c # r
    BY <1>4, <2>2, OthersStay DEF Counted, Moves
  <2>3. QED
    BY <2>1, <2>2
<1>9. /\ r \notin Counted(5) /\ Counted(5)' = Counted(5) \cup {r}
      /\ \A k \in 1 .. 5 : k # 5 => Counted(k)' = Counted(k)
  BY <1>1, <1>8 DEF Counted
<1>10. /\ \A k \in 1 .. 5 : FamilyOK(k)'
       /\ metrics' = [family \in Families |-> metrics'[family]]
       /\ \A family \in Families : metrics'[family] \in [LabelsOf(family) -> Nat]
  <2>1. PICK k0 \in 1 .. 5 : k0 = 5
    OBVIOUS
  <2>2. PICK l0 : l0 = "rejected"
    OBVIOUS
  <2>3. metrics' = [metrics EXCEPT ![Registered[k0]][l0] = @ + 1]
    BY <1>1, <2>1, <2>2, RegisteredFamilies
  <2>4. l0 \in LabelsOf(Registered[k0]) /\ LabelFor(r, Registered[k0])' = l0
    BY <2>1, <2>2, RegisteredFamilies DEF LabelsOf, LabelFor
  <2>5. \A k \in 1 .. 5 : \A c \in Counted(k) : LabelFor(c, Registered[k])' = LabelFor(c, Registered[k])
    BY <1>5, LabelsStay
  <2>6. /\ r \notin Counted(k0) /\ Counted(k0)' = Counted(k0) \cup {r}
        /\ \A k \in 1 .. 5 : k # k0 => Counted(k)' = Counted(k)
    BY <1>9, <2>1
  <2>7. QED
    BY <2>3, <2>4, <2>5, <2>6, CountingKeepsFamilies
<1>11. TracingTypes'
  <2>1. request' \in [HttpRequests -> RequestRecord] /\ stage' \in [HttpRequests -> Stages]
    BY <1>1, <1>2 DEF TracingTypes, Stages
  <2>2. before' \in [HttpRequests -> SUBSET HttpRequests]
    BY <1>1, <1>2 DEF TracingTypes, Answered
  <2>3. QED
    BY <1>1, <1>2, <1>10, <2>1, <2>2 DEF TracingTypes
<1>12. SumOK'
  <2>1. Counted(3)' = Counted(3) /\ \A c \in Counted(3) : request'[c] = request[c]
    BY <1>5, <1>9, CountedHaveCome DEF Stable
  <2>2. Checks(Counted(3))' = Checks(Counted(3))
    BY <2>1 DEF Checks
  <2>3. QED
    BY <1>1, <2>2 DEF TracingInv, SumOK
<1>13. ScrapesOK'
  <2>1. \A s \in HttpRequests :
          Reads(s)' = 0 \/ (Reads(s)' = Reads(s) /\ reading'[s] = reading[s] /\ before'[s] = before[s])
    BY <1>4, <1>7, OthersStay DEF Moves
  <2>2. \A k \in 1 .. 5 : Counted(k) \subseteq Counted(k)'
    BY <1>9
  <2>3. QED
    BY <1>5, <2>1, <2>2, ScrapesStay
<1>14. \A s \in HttpRequests : RequestOK(s)'
  BY <1>4, <1>6, OthersStay
<1>15. QED
  BY <1>10, <1>11, <1>12, <1>13, <1>14 DEF TracingInv

(* TracingMiddleware updates the next family of a response.                *)
LEMMA UpdateFamilyKeepsInv ==
  ASSUME TracingInv, NEW r \in HttpRequests, UpdateFamily(r)
  PROVE  TracingInv'
<1>1. /\ TracingTypes /\ RequestOK(r) /\ stage[r] = "produced"
      /\ request[r] \in RequestRecord /\ status[r] \in Statuses
  BY DEF TracingInv, TracingTypes, RequestOK, Responded, UpdateFamily, InStage
<1>2. PICK n \in {2, 4}, t \in Seq(Families), k0 \in 1 .. 4 :
        /\ n = PlanLength(r) /\ t = todo[r] /\ k0 = n + 1 - Len(t)
        /\ Head(t) = Registered[k0] /\ Tail(t) \in Seq(Families) /\ Tail(t) \in Rests(n)
        /\ Len(t) \in 1 .. n /\ Len(Tail(t)) = Len(t) - 1 /\ (Tail(t) = << >> <=> Len(Tail(t)) = 0)
  <2>1. PICK n \in {2, 4} : n = PlanLength(r)
    BY DEF PlanLength
  <2>2. PICK t \in Rests(n) \ {<< >>} : t = todo[r]
    BY <1>1, <2>1 DEF RequestOK
  <2>3. n \in 0 .. 5
    BY <2>1
  <2>4. /\ Len(t) \in 1 .. n /\ t \in Seq(Families)
        /\ Head(t) = Registered[n + 1 - Len(t)] /\ Tail(t) \in Rests(n) /\ Len(Tail(t)) = Len(t) - 1
    <3>1. Len(t) \in 0 .. n /\ Len(t) # 0
      BY <2>2, <2>3, RestFacts
    <3>2. /\ t \in Seq(Families)
          /\ Head(t) = Registered[n + 1 - Len(t)] /\ Tail(t) \in Rests(n) /\ Len(Tail(t)) = Len(t) - 1
      BY <2>2, <2>3, RestFacts
    <3>3. QED
      BY <2>1, <3>1, <3>2
  <2>5. Tail(t) \in Seq(Families) /\ (Tail(t) = << >> <=> Len(Tail(t)) = 0)
    BY <2>3, <2>4, RestFacts
  <2>6. n + 1 - Len(t) \in 1 .. 4
    BY <2>1, <2>4
  <2>7. QED
    BY <2>1, <2>2, <2>4, <2>5, <2>6
<1>3. k0 \in 1 .. 5 /\ k0 # 5
  OBVIOUS
<1>4. /\ stage' = [stage EXCEPT ![r] = IF Tail(t) = << >> THEN "answered" ELSE "produced"]
      /\ todo' = [todo EXCEPT ![r] = Tail(t)]
      /\ metrics' = [metrics EXCEPT ![Registered[k0]][LabelFor(r, Registered[k0])] = @ + 1]
      /\ batch_sum' = batch_sum + (IF Registered[k0] = "authorization_batch_size" THEN request[r].size ELSE 0)
      /\ UNCHANGED <<poisoned, request, status, accepted, before, reading>>
  BY <1>2 DEF UpdateFamily, Increment, Goes
<1>5. PlanLength(r)' = n
  BY <1>2, <1>4 DEF PlanLength
<1>6. /\ stage'[r] = IF Tail(t) = << >> THEN "answered" ELSE "produced"
      /\ todo'[r] = Tail(t)
  BY <1>1, <1>4 DEF TracingTypes
<1>7. Updates(r) = k0 - 1 /\ Updates(r)' = k0
  <2>1. Updates(r) = n - Len(t)
    BY <1>1, <1>2 DEF Updates, Responded
  <2>2. Updates(r)' = n - Len(Tail(t))
    BY <1>5, <1>6 DEF Updates, Responded
  <2>3. QED
    BY <1>2, <2>1, <2>2
<1>8. Moves(r)
  BY <1>1, <1>4 DEF Moves, TracingTypes, Responded
<1>9. Stable /\ Answered \subseteq Answered'
  BY <1>8, OthersStay
<1>10. RequestOK(r)'
  <2>1. before'[r] \subseteq Answered'
    BY <1>1, <1>4, <1>9 DEF RequestOK
  <2>2. /\ stage'[r] \in {"produced", "answered"}
        /\ stage'[r] = "answered" => todo'[r] = << >>
        /\ stage'[r] = "produced" => todo'[r] \in Rests(n) \ {<< >>}
    BY <1>2, <1>6
  <2>3. (IsAcceptedBatch(r)' <=> IsAcceptedBatch(r)) /\ accepted'[r] = accepted[r] /\ request'[r] = request[r]
        /\ status'[r] = status[r]
    BY <1>4 DEF IsAcceptedBatch
  <2>4. request[r].admitted /\ (accepted[r] <=> IsAcceptedBatch(r))
    BY <1>1 DEF RequestOK
  <2>5. Rests(PlanLength(r))' = Rests(n)
    BY <1>5 DEF Rests
  <2>6. QED
    BY <1>1, <2>1, <2>2, <2>3, <2>4, <2>5 DEF RequestOK, Responded, Scraping
<1>11. ASSUME NEW k \in 1 .. 5, NEW c \in HttpRequests
       PROVE  (c \in Counted(k))' <=> (c \in Counted(k) \/ (c = r /\ k = k0))
  <2>1. CASE c = r
    <3>1. (k = 5 => ~(c \in Counted(k))' /\ c \notin Counted(k)) /\ (k # 5 => ((c \in Counted(k))' <=> k <= k0))
      BY <1>1, <1>6, <1>7, <2>1 DEF Counted
    <3>2. k # 5 => (c \in Counted(k) <=> k <= k0 - 1)
      BY <1>7, <2>1 DEF Counted
    <3>3. k <= k0 <=> (k <= k0 - 1 \/ k = k0)
      BY <1>3
    <3>4. QED
      BY <1>3, <2>1, <3>1, <3>2, <3>3
  <2>2. CASE c # r
    BY <1>8, <2>2, OthersStay DEF Counted, Moves
  <2>3. QED
    BY <2>1, <2>2
<1>12. /\ r \notin Counted(k0) /\ Counted(k0)' = Counted(k0) \cup {r}
       /\ \A k \in 1 .. 5 : k # k0 => Counted(k)' = Counted(k)
  <2>1. r \notin Counted(k0)
    BY <1>7, <1>3 DEF Counted
  <2>2. QED
    BY <1>3, <1>11, <2>1 DEF Counted
<1>13. /\ \A k \in 1 .. 5 : FamilyOK(k)'
       /\ metrics' = [family \in Families |-> metrics'[family]]
       /\ \A family \in Families : metrics'[family] \in [LabelsOf(family) -> Nat]
  <2> PICK l0 : l0 = LabelFor(r, Registered[k0])
    OBVIOUS
  <2>1. l0 \in LabelsOf(Registered[k0])
    BY <1>1, <1>3, LabelsAreKnown
  <2>2. LabelFor(r, Registered[k0])' = l0
    <3>1. request'[r] = request[r] /\ status'[r] = status[r]
      BY <1>4
    <3>2. QED
      BY <3>1 DEF LabelFor
  <2>3. \A k \in 1 .. 5 : \A c \in Counted(k) : LabelFor(c, Registered[k])' = LabelFor(c, Registered[k])
    BY <1>9, LabelsStay
  <2>4. metrics' = [metrics EXCEPT ![Registered[k0]][l0] = @ + 1] /\ k0 \in 1 .. 5
    BY <1>4, <1>3
  <2>5. QED
    BY <1>12, <2>1, <2>2, <2>3, <2>4, CountingKeepsFamilies
<1>14. TracingTypes'
  <2>1. stage' \in [HttpRequests -> Stages] /\ todo' \in [HttpRequests -> Seq(Families)]
    BY <1>1, <1>2, <1>4 DEF TracingTypes, Stages
  <2>2. QED
    BY <1>1, <1>4, <1>13, <2>1 DEF TracingTypes
<1>15. SumOK'
  <2>1. Checks(Counted(3))' = Checks(Counted(3)')
    BY <1>4 DEF Checks
  <2>2. IsFiniteSet(Checks(Counted(3))) /\ batch_sum = Cardinality(Checks(Counted(3)))
    BY DEF TracingInv, SumOK
  <2>3. CASE k0 = 3
    <3>1. Counted(3)' = Counted(3) \cup {r} /\ r \notin Counted(3) /\ request[r].size \in Nat
      BY <1>1, <1>12, <2>3 DEF RequestRecord
    <3>2. batch_sum' = batch_sum + request[r].size
      BY <1>4, <2>3, RegisteredFamilies
    <3>3. QED
      BY <2>1, <2>2, <3>1, <3>2, ChecksAdd DEF SumOK
  <2>4. CASE k0 # 3
    <3>1. Registered[k0] # "authorization_batch_size"
      BY <1>3, <2>4, FamiliesAreDistinct, RegisteredFamilies
    <3>2. Cardinality(Checks(Counted(3))) \in Nat
      BY <2>2, FS_CardinalityType
    <3>3. batch_sum' = batch_sum /\ Counted(3)' = Counted(3)
      BY <1>4, <1>12, <2>2, <2>4, <3>1, <3>2
    <3>4. QED
      BY <2>1, <2>2, <3>3 DEF SumOK
  <2>5. QED
    BY <2>3, <2>4
<1>16. ScrapesOK'
  <2>1. Reads(r)' = Reads(r)
    BY <1>1, <1>4, <1>6 DEF Reads, Scraping, Read
  <2>2. \A s \in HttpRequests :
          Reads(s)' = 0 \/ (Reads(s)' = Reads(s) /\ reading'[s] = reading[s] /\ before'[s] = before[s])
    BY <1>4, <1>8, <2>1, OthersStay
  <2>3. \A k \in 1 .. 5 : Counted(k) \subseteq Counted(k)'
    BY <1>12
  <2>4. QED
    BY <1>9, <2>2, <2>3, ScrapesStay
<1>17. \A s \in HttpRequests : RequestOK(s)'
  BY <1>8, <1>10, OthersStay
<1>18. QED
  BY <1>13, <1>14, <1>15, <1>16, <1>17 DEF TracingInv

-----------------------------------------------------------------------------
(* Reading.  What was answered before a scrape came is counted by now, and *)
(* whoever a later family counts is counted by the earlier ones.           *)

LEMMA AnsweredAreCounted ==
  ASSUME TracingInv, NEW r \in HttpRequests, NEW k \in 1 .. 5
  PROVE  {b \in before[r] : Eligible(b, k)} \subseteq Counted(k)
<1> SUFFICES ASSUME NEW b \in before[r], Eligible(b, k)
             PROVE  b \in Counted(k)
  OBVIOUS
<1>1. b \in HttpRequests /\ stage[b] \in {"answered", "rejected"} /\ RequestOK(b)
  BY DEF TracingInv, RequestOK, Answered
<1>2. CASE k = 5
  BY <1>1, <1>2 DEF Counted, Eligible, RequestOK
<1>3. CASE k # 5
  <2>1. k \in {1, 2, 3, 4}
    BY <1>3
  <2>2. stage[b] = "answered" /\ (k \in {3, 4} => accepted[b])
    BY <1>1, <2>1 DEF Eligible, RequestOK, IsAcceptedBatch
  <2>3. todo[b] = << >> /\ Len(<< >>) = 0
    BY <1>1, <2>2 DEF RequestOK, Scraping
  <2>4. Updates(b) = PlanLength(b)
    BY <2>2, <2>3 DEF Updates, Responded, PlanLength
  <2>5. k <= Updates(b)
    BY <2>1, <2>2, <2>4 DEF PlanLength
  <2>6. QED
    BY <1>1, <1>3, <2>5 DEF Counted
<1>4. QED
  BY <1>2, <1>3

LEMMA CountedInOrder ==
  ASSUME TracingInv, NEW k \in 1 .. 5, NEW l \in k .. (IF k = 5 THEN 5 ELSE 4)
  PROVE  Counted(l) \subseteq Counted(k)
<1>1. \A r \in HttpRequests : Updates(r) \in Int
  <2>1. ASSUME NEW r \in HttpRequests
        PROVE  Len(todo[r]) \in Int
    BY LenProperties DEF TracingInv, TracingTypes
  <2>2. QED
    BY <2>1 DEF Updates, PlanLength
<1>2. QED
  BY <1>1 DEF Counted

LEMMA ReadFamilyKeepsInv ==
  ASSUME TracingInv, NEW r \in HttpRequests, ReadFamily(r)
  PROVE  TracingInv'
<1>1. /\ TracingTypes /\ RequestOK(r) /\ Scraping(r) /\ stage[r] = "handling" /\ request[r].route = "metrics"
  BY DEF TracingInv, ReadFamily, InStage, Scraping
<1>2. PICK t \in Seq(Families), k0 \in 1 .. 5 :
        /\ t = todo[r] /\ k0 = 6 - Len(t)
        /\ Head(t) = Registered[k0] /\ Tail(t) \in Seq(Families) /\ Tail(t) \in Rests(5)
        /\ Len(t) \in 1 .. 5 /\ Len(Tail(t)) = Len(t) - 1
  <2>1. PICK t \in Rests(5) \ {<< >>} : t = todo[r]
    BY <1>1 DEF RequestOK, ReadFamily
  <2>2. PICK n \in 0 .. 5 : n = 5
    OBVIOUS
  <2>3. Len(t) \in 1 .. 5 /\ t \in Seq(Families)
    <3>1. Len(t) \in 0 .. n /\ Len(t) # 0 /\ t \in Seq(Families)
      BY <2>1, <2>2, RestFacts
    <3>2. QED
      BY <2>2, <3>1
  <2>4. Head(t) = Registered[n + 1 - Len(t)] /\ Tail(t) \in Rests(n) /\ Len(Tail(t)) = Len(t) - 1
    BY <2>1, <2>2, RestFacts
  <2>5. Tail(t) \in Seq(Families)
    BY <2>4, RestFacts
  <2>6. 6 - Len(t) \in 1 .. 5 /\ n + 1 - Len(t) = 6 - Len(t)
    <3>1. PICK m \in 1 .. 5 : m = Len(t)
      BY <2>3
    <3>2. 6 - m \in 1 .. 5 /\ n + 1 - m = 6 - m
      BY <2>2
    <3>3. QED
      BY <3>1, <3>2
  <2>7. QED
    BY <2>1, <2>2, <2>3, <2>4, <2>5, <2>6
<1>3. /\ reading' = [reading EXCEPT ![r][Registered[k0]] = Total(Registered[k0])]
      /\ todo' = [todo EXCEPT ![r] = Tail(t)]
      /\ UNCHANGED <<poisoned, request, stage, status, accepted, before, metrics, batch_sum>>
  BY <1>2 DEF ReadFamily
<1>4. /\ Total(Registered[k0]) = Cardinality(Counted(k0)) /\ Total(Registered[k0]) \in Nat
      /\ Registered[k0] \in Families
  BY CountedAreFinite, FamiliesAreDistinct DEF TracingInv, FamilyOK
<1>5. /\ todo'[r] = Tail(t) /\ reading'[r][Registered[k0]] = Total(Registered[k0])
      /\ \A k \in 1 .. 5 : k # k0 => reading'[r][Registered[k]] = reading[r][Registered[k]]
  BY <1>1, <1>3, <1>4, FamiliesAreDistinct DEF TracingTypes
<1>6. TracingTypes'
  <2>1. reading' \in [HttpRequests -> [Families -> Nat]] /\ todo' \in [HttpRequests -> Seq(Families)]
    BY <1>1, <1>2, <1>3, <1>4 DEF TracingTypes
  <2>2. QED
    BY <1>1, <1>3, <2>1 DEF TracingTypes
<1>7. Moves(r)
  BY <1>1, <1>3 DEF Moves, TracingTypes
<1>8. /\ Stable
      /\ \A s \in HttpRequests : s # r => /\ Reads(s)' = Reads(s) /\ reading'[s] = reading[s]
                                          /\ before'[s] = before[s]
  BY <1>7, OthersStay DEF Moves
<1>9. RequestOK(r)'
  BY <1>1, <1>2, <1>3, <1>5 DEF RequestOK, Responded, Scraping, Answered, IsAcceptedBatch
<1>10. Updates(r) = 0 /\ Updates(r)' = 0 /\ stage'[r] # "rejected"
  BY <1>1, <1>3 DEF Updates, Responded
<1>11. Reads(r) = k0 - 1 /\ Reads(r)' = k0
  <2>1. PICK m \in 1 .. 5 : m = Len(t)
    BY <1>2
  <2>2. k0 = 6 - m /\ Len(Tail(t)) = m - 1
    BY <1>2, <2>1
  <2>3. Reads(r) = 5 - m /\ Reads(r)' = 5 - (m - 1)
    BY <1>1, <1>2, <1>3, <1>5, <2>1, <2>2 DEF Reads, Scraping
  <2>4. QED
    BY <2>2, <2>3
<1>12. /\ \A k \in 1 .. 5 : Counted(k)' = Counted(k)
       /\ ScrapesOK' => TracingInv'
  BY <1>3, <1>6, <1>7, <1>9, <1>10, UncountedMoveKeepsInv
<1>13. ASSUME NEW k \in 1 .. k0 - 1
       PROVE  /\ ReadingOK(r, k)'
              /\ \A s \in before'[r] : stage'[s] = "answered" /\ request'[s].route = "metrics" => CoverOK(r, s, k)'
  <2>1. /\ k \in 1 .. 5 /\ k # k0 /\ ReadingOK(r, k)
        /\ \A s \in before[r] : stage[s] = "answered" /\ request[s].route = "metrics" => CoverOK(r, s, k)
    BY <1>11 DEF TracingInv, ScrapesOK
  <2>2. reading'[r][Registered[k]] = reading[r][Registered[k]] /\ before'[r] = before[r]
    BY <1>3, <1>5, <2>1
  <2>3. ReadingOK(r, k)'
    BY <1>8, <1>12, <2>1, <2>2, ReadingStays
  <2>4. ASSUME NEW s \in before'[r], stage'[s] = "answered", request'[s].route = "metrics"
        PROVE  CoverOK(r, s, k)'
    <3>1. s \in before[r] /\ s \in HttpRequests /\ stage[s] = "answered" /\ request[s].route = "metrics" /\ s # r
      BY <1>1, <1>3, <2>4 DEF TracingTypes
    <3>2. CoverOK(r, s, k) /\ reading'[s] = reading[s]
      BY <1>8, <2>1, <3>1
    <3>3. QED
      BY <2>2, <3>2 DEF CoverOK
  <2>5. QED
    BY <2>3, <2>4
<1>14. ReadingOK(r, k0)'
  <2> DEFINE seen == {b \in before[r] : Eligible(b, k0)}
  <2>1. {b \in before[r] : Eligible(b, k0)}' = seen /\ Counted(k0)' = Counted(k0)
    BY <1>3, <1>12 DEF Eligible, IsAcceptedBatch
  <2>2. r \notin Counted(k0)
    BY <1>1, <1>10 DEF Counted
  <2>3. Counted(k0) \ {r} = Counted(k0)
    BY <2>2
  <2>4. seen \in SUBSET Counted(k0)
    BY AnsweredAreCounted
  <2>5. Cardinality(seen) \in Nat /\ Cardinality(seen) <= Cardinality(Counted(k0)) /\ Cardinality(Counted(k0)) \in Nat
    BY <2>4, CountedAreFinite
  <2> HIDE DEF seen
  <2>6. Cardinality(Counted(k0)) \in Cardinality(seen) .. Cardinality(Counted(k0))
    BY <2>5
  <2>7. QED
    BY <1>4, <1>5, <2>1, <2>3, <2>6 DEF ReadingOK
<1>15. ASSUME NEW s \in before'[r], stage'[s] = "answered", request'[s].route = "metrics"
       PROVE  CoverOK(r, s, k0)'
  <2>1. /\ s \in before[r] /\ s \in HttpRequests /\ stage[s] = "answered" /\ request[s].route = "metrics"
        /\ s # r /\ RequestOK(s) /\ reading'[s] = reading[s]
    BY <1>1, <1>3, <1>8, <1>15 DEF TracingTypes, TracingInv
  <2>2. Reads(s) = 5
    BY <2>1 DEF Reads, Scraping, Read
  <2>3. k0 <= 2 => s \in Counted(k0)
    <3>1. request[s].admitted
      BY <2>1 DEF RequestOK
    <3>2. k0 <= 2 => Eligible(s, k0)
      BY <3>1 DEF Eligible
    <3>3. QED
      BY <2>1, <3>2, AnsweredAreCounted
  <2>4. ASSUME NEW l \in k0 .. (IF k0 = 5 THEN 5 ELSE 4)
        PROVE  reading'[s][Registered[l]] + (IF k0 <= 2 THEN 1 ELSE 0) <= reading'[r][Registered[k0]]
    <3>1. l \in 1 .. 5
      OBVIOUS
    <3>2. ReadingOK(s, l)
      BY <2>1, <2>2, <3>1 DEF TracingInv, ScrapesOK
    <3> DEFINE most == Counted(l) \ {s}
    <3>3. /\ most \in SUBSET Counted(k0) /\ Counted(k0) \ {s} \in SUBSET Counted(k0)
          /\ most \in SUBSET (Counted(k0) \ {s})
      BY CountedInOrder
    <3>4. /\ Cardinality(most) \in Nat /\ Cardinality(Counted(k0)) \in Nat
          /\ Cardinality(most) <= Cardinality(Counted(k0))
      BY <3>3, CountedAreFinite
    <3>5. s \in Counted(k0) => Cardinality(most) + 1 <= Cardinality(Counted(k0))
      <4>1. /\ IsFiniteSet(Counted(k0)) /\ IsFiniteSet(Counted(k0) \ {s}) /\ Cardinality(Counted(k0) \ {s}) \in Nat
        BY <3>3, CountedAreFinite
      <4>2. Cardinality(most) <= Cardinality(Counted(k0) \ {s})
        BY <3>3, <4>1, FS_Subset
      <4>3. s \in Counted(k0) => Cardinality(Counted(k0) \ {s}) = Cardinality(Counted(k0)) - 1
        BY <4>1, FS_RemoveElement
      <4> HIDE DEF most
      <4>4. QED
        BY <3>4, <4>1, <4>2, <4>3
    <3>6. reading[s][Registered[l]] \in Nat /\ reading[s][Registered[l]] <= Cardinality(most)
      <4>1. reading[s][Registered[l]] \in Nat
        BY <2>1, <3>1, FamiliesAreDistinct DEF TracingInv, TracingTypes
      <4>2. \A a, b, c : c \in a .. b => c <= b
        OBVIOUS
      <4>3. reading[s][Registered[l]] <= Cardinality(most)
        BY <3>2, <4>2 DEF ReadingOK
      <4>4. QED
        BY <4>1, <4>3
    <3> HIDE DEF most
    <3>7. QED
      BY <1>4, <1>5, <2>1, <2>3, <3>4, <3>5, <3>6
  <2>5. QED
    BY <2>4 DEF CoverOK
<1>16. ScrapesOK'
  <2> SUFFICES ASSUME NEW q \in HttpRequests, NEW k \in 1 .. Reads(q)'
               PROVE  /\ ReadingOK(q, k)'
                      /\ \A s \in before'[q] :
                           stage'[s] = "answered" /\ request'[s].route = "metrics" => CoverOK(q, s, k)'
    BY DEF ScrapesOK
  <2>1. CASE q = r
    <3>1. k \in 1 .. k0 - 1 \/ k = k0
      BY <1>11, <2>1
    <3>2. QED
      BY <1>13, <1>14, <1>15, <2>1, <3>1
  <2>2. CASE q # r
    <3>1. Reads(q)' = Reads(q) /\ reading'[q] = reading[q] /\ before'[q] = before[q] /\ k \in 1 .. Reads(q)
      BY <1>8, <2>2
    <3>2. k \in 1 .. 5
      BY <3>1, ReadsAreFew
    <3>3. /\ ReadingOK(q, k)
          /\ \A s \in before[q] : stage[s] = "answered" /\ request[s].route = "metrics" => CoverOK(q, s, k)
      BY <3>1 DEF TracingInv, ScrapesOK
    <3>4. ReadingOK(q, k)'
      BY <1>8, <1>12, <3>1, <3>2, <3>3, ReadingStays
    <3>5. ASSUME NEW s \in before'[q], stage'[s] = "answered", request'[s].route = "metrics"
          PROVE  CoverOK(q, s, k)'
      <4>1. s \in before[q] /\ s \in HttpRequests /\ stage[s] = "answered" /\ request[s].route = "metrics" /\ s # r
        BY <1>1, <1>3, <3>5 DEF TracingTypes
      <4>2. CoverOK(q, s, k) /\ reading'[s] = reading[s]
        BY <1>8, <3>3, <4>1
      <4>3. QED
        BY <3>1, <4>2 DEF CoverOK
    <3>6. QED
      BY <3>4, <3>5
  <2>3. QED
    BY <2>1, <2>2
<1>17. QED
  BY <1>12, <1>16

-----------------------------------------------------------------------------
(* The invariant, and what it says of a quiet server and of a scrape.      *)

LEMMA TracingInitiallyInv ==
  ASSUME TracingInit
  PROVE  TracingInv
<1>1. /\ request = [r \in HttpRequests |-> [route |-> "livez", admitted |-> TRUE, sound |-> TRUE, size |-> 0]]
      /\ stage = [r \in HttpRequests |-> "idle"] /\ status = [r \in HttpRequests |-> 0]
      /\ accepted = [r \in HttpRequests |-> FALSE] /\ todo = [r \in HttpRequests |-> << >>]
      /\ before = [r \in HttpRequests |-> {}]
      /\ metrics = [family \in Families |-> [label \in LabelsOf(family) |-> 0]]
      /\ batch_sum = 0 /\ reading = [r \in HttpRequests |-> [family \in Families |-> 0]]
  BY DEF TracingInit
<1>2. TracingTypes
  <2>1. request \in [HttpRequests -> RequestRecord]
    BY <1>1 DEF RequestRecord, Routes
  <2>2. stage \in [HttpRequests -> Stages] /\ status \in [HttpRequests -> Statuses \cup {0}]
        /\ accepted \in [HttpRequests -> BOOLEAN] /\ before \in [HttpRequests -> SUBSET HttpRequests]
    BY <1>1 DEF Stages
  <2>3. todo \in [HttpRequests -> Seq(Families)]
    BY <1>1
  <2>4. reading \in [HttpRequests -> [Families -> Nat]]
    BY <1>1
  <2>5. \A family \in Families : metrics[family] = [label \in LabelsOf(family) |-> 0]
    BY <1>1
  <2>6. metrics = [family \in Families |-> metrics[family]]
    BY <1>1
  <2>7. ASSUME NEW family \in Families
        PROVE  metrics[family] \in [LabelsOf(family) -> Nat]
    <3>1. [label \in LabelsOf(family) |-> 0] \in [LabelsOf(family) -> Nat]
      OBVIOUS
    <3>2. QED
      BY <2>5, <3>1
  <2>8. QED
    BY <2>1, <2>2, <2>3, <2>4, <2>6, <2>7 DEF TracingTypes
<1>3. \A r \in HttpRequests : RequestOK(r)
  BY <1>1 DEF RequestOK, Responded, Scraping
<1>4. \A k \in 1 .. 5 : Counted(k) = {}
  BY <1>1 DEF Counted, Updates, Responded
<1>5. IsFiniteSet({}) /\ Cardinality({}) = 0
  BY FS_EmptySet
<1>6. ASSUME NEW k \in 1 .. 5
      PROVE  FamilyOK(k)
  <2>1. \A label \in LabelsOf(Registered[k]) : metrics[Registered[k]][label] = 0
    BY <1>1, FamiliesAreDistinct
  <2>2. Observations(Registered[k]) = {}
    <3>1. \A label \in LabelsOf(Registered[k]) : {label} \X (1 .. metrics[Registered[k]][label]) = {}
      BY <2>1
    <3>2. QED
      BY <3>1 DEF Observations
  <2>3. \A label : {r \in Counted(k) : LabelFor(r, Registered[k]) = label} = {}
    BY <1>4
  <2>4. QED
    BY <1>4, <1>5, <2>1, <2>2, <2>3 DEF FamilyOK, Total
<1>7. SumOK
  <2>1. Checks(Counted(3)) = {}
    BY <1>4 DEF Checks
  <2>2. QED
    BY <1>1, <1>5, <2>1 DEF SumOK
<1>8. ScrapesOK
  BY <1>1 DEF ScrapesOK, Reads, Scraping, Read
<1>9. QED
  BY <1>2, <1>3, <1>6, <1>7, <1>8 DEF TracingInv

LEMMA TracingNextKeepsInv ==
  ASSUME TracingInv, [TracingNext]_tracingVars
  PROVE  TracingInv'
<1>1. CASE Poison \/ UNCHANGED tracingVars
  <2>1. UNCHANGED <<request, stage, status, accepted, todo, before, metrics, batch_sum, reading>>
    BY <1>1 DEF Poison, tracingVars
  <2>2. Stable /\ Answered' = Answered
    BY <2>1 DEF Stable, Answered
  <2>3. TracingTypes'
    BY <2>1 DEF TracingInv, TracingTypes
  <2>4. \A r \in HttpRequests : RequestOK(r)' /\ Updates(r)' = Updates(r) /\ Reads(r)' = Reads(r)
    BY <2>1, <2>2 DEF TracingInv, RequestOK, Updates, Reads, Read, Responded, Scraping, PlanLength, IsAcceptedBatch, Rests
  <2>5. \A k \in 1 .. 5 : Counted(k)' = Counted(k)
    BY <2>1, <2>4 DEF Counted
  <2>6. ScrapesOK'
    BY <2>1, <2>2, <2>4, <2>5, ScrapesStay
  <2>7. QED
    BY <2>1, <2>2, <2>3, <2>4, <2>5, <2>6, UncountedKeepsFamilies DEF TracingInv
<1>2. ASSUME NEW r \in HttpRequests,
             \/ Reject(r) \/ Admit(r) \/ Abandon(r)
             \/ ExtractionFails(r) \/ RefuseBatch(r) \/ AcceptBatch(r) \/ Authorize(r)
             \/ HandleOther(r) \/ ReadFamily(r) \/ EndScrape(r) \/ UpdateFamily(r)
      PROVE  TracingInv'
  BY <1>2, RejectKeepsInv, AdmitKeepsInv, AbandonKeepsInv, HandlersKeepInv, AcceptBatchKeepsInv,
     ReadFamilyKeepsInv, UpdateFamilyKeepsInv
<1>3. QED
  BY <1>1, <1>2 DEF TracingNext

(* Workers may interleave the updates of their responses and the readings  *)
(* of scrapes (middleware.rs:367-395, handlers.rs:1113-1135) in any way:   *)
(* each family stays the count of the requests that have updated it.       *)
THEOREM TracingInvariance == TracingSpec => []TracingInv
<1>1. TracingInit => TracingInv
  BY TracingInitiallyInv
<1>2. TracingInv /\ [TracingNext]_tracingVars => TracingInv'
  BY TracingNextKeepsInv
<1>3. QED
  BY <1>1, <1>2, PTL DEF TracingSpec

(* With no request under way, an answered one has updated its whole plan.  *)
LEMMA QuietFamilies ==
  ASSUME TracingInv, Quiet
  PROVE  /\ Counted(1) = {r \in HttpRequests : stage[r] = "answered"} /\ Counted(2) = Counted(1)
         /\ Counted(3) = AnsweredBatches /\ Counted(4) = AnsweredBatches
         /\ Counted(5) = {r \in HttpRequests : ~request[r].admitted}
<1>1. ASSUME NEW r \in HttpRequests
      PROVE  /\ \A k \in {1, 2} : r \in Counted(k) <=> stage[r] = "answered"
             /\ \A k \in {3, 4} : r \in Counted(k) <=> stage[r] = "answered" /\ IsAcceptedBatch(r)
             /\ r \in Counted(5) <=> ~request[r].admitted
  <2>1. RequestOK(r) /\ stage[r] \in {"idle", "rejected", "abandoned", "answered"} /\ Len(<< >>) = 0
    BY DEF TracingInv, Quiet
  <2>2. Updates(r) = IF stage[r] = "answered" THEN PlanLength(r) ELSE 0
    <3>1. stage[r] = "answered" => Len(todo[r]) = 0
      BY <2>1 DEF RequestOK, Scraping
    <3>2. PlanLength(r) \in Nat
      BY DEF PlanLength
    <3>3. QED
      BY <2>1, <3>1, <3>2 DEF Updates, Responded
  <2>3. stage[r] = "answered" => (accepted[r] <=> IsAcceptedBatch(r))
    BY <2>1 DEF RequestOK
  <2>4. r \in Counted(5) <=> ~request[r].admitted
    BY <2>1 DEF Counted, RequestOK
  <2>5. \A k \in {1, 2} : r \in Counted(k) <=> stage[r] = "answered"
    BY <2>2 DEF Counted, PlanLength
  <2>6. \A k \in {3, 4} : r \in Counted(k) <=> stage[r] = "answered" /\ IsAcceptedBatch(r)
    BY <2>2, <2>3 DEF Counted, PlanLength
  <2>7. QED
    BY <2>4, <2>5, <2>6
<1>2. \A k : Counted(k) \subseteq HttpRequests
  BY DEF Counted
<1>3. QED
  BY <1>1, <1>2 DEF AnsweredBatches, InStage

LEMMA InvCountsResponses ==
  ASSUME TracingInv
  PROVE  EveryResponseIsCounted
<1> SUFFICES ASSUME Quiet
             PROVE  /\ Total("admission_rejections") = Cardinality({r \in HttpRequests : ~request[r].admitted})
                    /\ metrics["http_requests"] = metrics["http_request_duration"]
                    /\ \A label \in Routes \X Statuses :
                         metrics["http_requests"][label] =
                           Cardinality({r \in Answered : request[r].admitted /\ label = <<request[r].route, status[r]>>})
  BY DEF EveryResponseIsCounted
<1> DEFINE with(label) == {r \in Counted(1) : <<request[r].route, status[r]>> = label}
<1>1. \A k \in 1 .. 5 : FamilyOK(k)
  BY DEF TracingInv
<1>2. Total("admission_rejections") = Cardinality({r \in HttpRequests : ~request[r].admitted})
  <2>1. FamilyOK(5)
    BY <1>1
  <2>2. QED
    BY <2>1, QuietFamilies, RegisteredFamilies DEF FamilyOK
<1>3. ASSUME NEW label \in Routes \X Statuses, NEW k \in {1, 2}
      PROVE  metrics[Registered[k]][label] = Cardinality(with(label))
  <2>1. FamilyOK(k) /\ label \in LabelsOf(Registered[k]) /\ Counted(k) = Counted(1)
    BY <1>1, FamilyLabels, QuietFamilies
  <2>2. {r \in Counted(k) : LabelFor(r, Registered[k]) = label} = with(label)
    BY <2>1, FamilyLabels
  <2>3. QED
    BY <2>1, <2>2 DEF FamilyOK
<1>4. \A label \in Routes \X Statuses :
        with(label) = {r \in Answered : request[r].admitted /\ label = <<request[r].route, status[r]>>}
  <2>1. \A r \in HttpRequests : r \in Counted(1) <=> r \in Answered /\ request[r].admitted
    BY QuietFamilies DEF TracingInv, RequestOK, Answered
  <2>2. Counted(1) \subseteq HttpRequests /\ Answered \subseteq HttpRequests
    BY DEF Counted, Answered
  <2>3. QED
    BY <2>1, <2>2
<1> HIDE DEF with
<1>5. metrics["http_requests"] = metrics["http_request_duration"]
  <2>1. \A k \in {1, 2} : metrics[Registered[k]] \in [Routes \X Statuses -> Nat]
    <3>1. ASSUME NEW k \in {1, 2}
          PROVE  metrics[Registered[k]] \in [Routes \X Statuses -> Nat]
      <4>1. Registered[k] \in Families /\ LabelsOf(Registered[k]) = Routes \X Statuses
        BY FamilyLabels, FamiliesAreDistinct
      <4>2. QED
        BY <4>1 DEF TracingInv, TracingTypes
    <3>2. QED
      BY <3>1
  <2>2. \A label \in Routes \X Statuses : metrics[Registered[1]][label] = metrics[Registered[2]][label]
    BY <1>3
  <2>3. metrics[Registered[1]] = metrics[Registered[2]]
    BY <2>1, <2>2
  <2>4. QED
    BY <2>3, RegisteredFamilies
<1>6. QED
  BY <1>2, <1>3, <1>4, <1>5, RegisteredFamilies

LEMMA InvObservesBatches ==
  ASSUME TracingInv
  PROVE  AcceptedBatchesAreObserved
<1> SUFFICES ASSUME Quiet
             PROVE  /\ Total("authorization_batch_size") = Cardinality(AnsweredBatches)
                    /\ Total("authorization_request_duration") = Cardinality(AnsweredBatches)
                    /\ batch_sum = Cardinality(Checks(AnsweredBatches))
                    /\ \A i \in DOMAIN Classes :
                         metrics["authorization_request_duration"][Classes[i]] = metrics["authorization_batch_size"][i]
  BY DEF AcceptedBatchesAreObserved
<1>1. FamilyOK(3) /\ FamilyOK(4) /\ SumOK
  BY DEF TracingInv
<1>2. Counted(3) = AnsweredBatches /\ Counted(4) = AnsweredBatches
  BY QuietFamilies
<1>3. batch_sum = Cardinality(Checks(AnsweredBatches))
  BY <1>1, <1>2 DEF SumOK
<1>4. /\ Total("authorization_batch_size") = Cardinality(AnsweredBatches)
      /\ Total("authorization_request_duration") = Cardinality(AnsweredBatches)
  BY <1>1, <1>2, RegisteredFamilies DEF FamilyOK
<1>5. ASSUME NEW i \in 1 .. 8
      PROVE  metrics["authorization_request_duration"][Classes[i]] = metrics["authorization_batch_size"][i]
  <2> DEFINE inBucket == {r \in AnsweredBatches : BucketOf(request[r].size) = i}
             inClass == {r \in AnsweredBatches : SizeClass(request[r].size) = Classes[i]}
  <2>1. inBucket = inClass
    <3>1. ASSUME NEW r \in AnsweredBatches
          PROVE  BucketOf(request[r].size) = i <=> SizeClass(request[r].size) = Classes[i]
      <4>1. request[r].size \in Nat
        BY DEF AnsweredBatches, TracingInv, TracingTypes, RequestRecord
      <4>2. BucketOf(request[r].size) \in 1 .. 8 /\ Classes[BucketOf(request[r].size)] = SizeClass(request[r].size)
        BY <4>1, ClassesAreBuckets
      <4>3. QED
        BY <4>2, ClassNames
    <3>2. QED
      BY <3>1
  <2>2. metrics[Registered[3]][i] = Cardinality(inBucket)
    <3>1. i \in LabelsOf(Registered[3])
      BY FamilyLabels
    <3>2. {r \in Counted(3) : LabelFor(r, Registered[3]) = i} = inBucket
      BY <1>2, FamilyLabels
    <3>3. QED
      BY <1>1, <3>1, <3>2 DEF FamilyOK
  <2>3. metrics[Registered[4]][Classes[i]] = Cardinality(inClass)
    <3>1. Classes[i] \in LabelsOf(Registered[4])
      BY FamilyLabels
    <3>2. {r \in Counted(4) : LabelFor(r, Registered[4]) = Classes[i]} = inClass
      BY <1>2, FamilyLabels
    <3>3. QED
      BY <1>1, <3>1, <3>2 DEF FamilyOK
  <2>4. QED
    BY <2>1, <2>2, <2>3, RegisteredFamilies
<1>6. QED
  BY <1>3, <1>4, <1>5, ClassNames

(* A scrape that is done has read every family.                            *)
LEMMA WholeReadings ==
  ASSUME TracingInv, NEW r \in HttpRequests, Read(r), NEW k \in 1 .. 5
  PROVE  /\ reading[r][Registered[k]] \in Nat
         /\ Cardinality({b \in before[r] : Eligible(b, k)}) <= reading[r][Registered[k]]
         /\ reading[r][Registered[k]] <= Cardinality(Counted(k) \ {r})
         /\ \A s \in before[r] : stage[s] = "answered" /\ request[s].route = "metrics" => CoverOK(r, s, k)
<1>1. Reads(r) = 5
  BY DEF Reads, Read, Scraping
<1>2. /\ ReadingOK(r, k)
      /\ \A s \in before[r] : stage[s] = "answered" /\ request[s].route = "metrics" => CoverOK(r, s, k)
  BY <1>1 DEF TracingInv, ScrapesOK
<1>3. reading[r][Registered[k]] \in Nat
  BY FamiliesAreDistinct DEF TracingInv, TracingTypes
<1>4. \A a, b, c : c \in a .. b => a <= c /\ c <= b
  OBVIOUS
<1>5. QED
  BY <1>2, <1>3, <1>4 DEF ReadingOK

LEMMA InvShowsWhatWasAnswered ==
  ASSUME TracingInv
  PROVE  ScrapesShowWhatWasAnswered
<1> SUFFICES ASSUME NEW r \in HttpRequests, Read(r)
             PROVE  LET requests == {b \in before[r] : request[b].admitted}
                        batches == {b \in before[r] : IsAcceptedBatch(b)}
                        others == {o \in HttpRequests \ {r} : stage[o] \in {"produced", "answered"}}
                    IN /\ \A family \in {"http_requests", "http_request_duration"} :
                            reading[r][family] \in Cardinality(requests) .. Cardinality(others)
                       /\ \A family \in {"authorization_batch_size", "authorization_request_duration"} :
                            reading[r][family]
                              \in Cardinality(batches) .. Cardinality({o \in others : IsAcceptedBatch(o)})
                       /\ reading[r]["admission_rejections"] >= Cardinality(before[r] \ requests)
  BY DEF ScrapesShowWhatWasAnswered
<1> DEFINE requests == {b \in before[r] : request[b].admitted}
           batches == {b \in before[r] : IsAcceptedBatch(b)}
           others == {o \in HttpRequests \ {r} : stage[o] \in {"produced", "answered"}}
           sizes == {o \in others : IsAcceptedBatch(o)}
           value(k) == reading[r][Registered[k]]
<1>1. /\ requests \in SUBSET HttpRequests /\ batches \in SUBSET HttpRequests
      /\ before[r] \ requests \in SUBSET HttpRequests
      /\ others \in SUBSET HttpRequests /\ sizes \in SUBSET HttpRequests
  BY DEF TracingInv, TracingTypes
<1>2. /\ Cardinality(requests) \in Nat /\ Cardinality(batches) \in Nat
      /\ Cardinality(before[r] \ requests) \in Nat
      /\ Cardinality(others) \in Nat /\ Cardinality(sizes) \in Nat
  BY <1>1, SubsetsAreFinite
<1>3. ASSUME NEW k \in {1, 2}
      PROVE  value(k) \in Cardinality(requests) .. Cardinality(others)
  <2>1. {b \in before[r] : Eligible(b, k)} = requests
    BY DEF Eligible
  <2>2. Counted(k) \ {r} \in SUBSET others
    BY DEF Counted, Updates, Responded
  <2>3. Cardinality(Counted(k) \ {r}) \in Nat /\ Cardinality(Counted(k) \ {r}) <= Cardinality(others)
    BY <1>1, <2>2, SubsetsAreFinite
  <2>4. /\ value(k) \in Nat /\ Cardinality({b \in before[r] : Eligible(b, k)}) <= value(k)
        /\ value(k) <= Cardinality(Counted(k) \ {r})
    <3>1. k \in 1 .. 5
      OBVIOUS
    <3>2. QED
      BY <3>1, WholeReadings
  <2>5. Cardinality(requests) <= value(k)
    BY <2>1, <2>4
  <2> HIDE DEF requests, batches, others, sizes, value
  <2>6. value(k) <= Cardinality(others)
    BY <1>2, <2>3, <2>4
  <2>7. QED
    BY <1>2, <2>4, <2>5, <2>6
<1>4. ASSUME NEW k \in {3, 4}
      PROVE  value(k) \in Cardinality(batches) .. Cardinality(sizes)
  <2>1. {b \in before[r] : Eligible(b, k)} = batches
    BY DEF Eligible
  <2>2. Counted(k) \ {r} \in SUBSET sizes
    <3>1. ASSUME NEW o \in Counted(k)
          PROVE  o \in HttpRequests /\ Responded(o) /\ IsAcceptedBatch(o)
      <4>1. o \in HttpRequests /\ k <= Updates(o)
        BY DEF Counted
      <4>2. Responded(o) /\ k <= PlanLength(o) - Len(todo[o])
        BY <4>1 DEF Updates
      <4>3. Len(todo[o]) \in Nat
        BY <4>1, LenProperties DEF TracingInv, TracingTypes
      <4>4. accepted[o]
        BY <4>2, <4>3 DEF PlanLength
      <4>5. QED
        BY <4>1, <4>2, <4>4 DEF TracingInv, RequestOK
    <3>2. QED
      BY <3>1 DEF Responded
  <2>3. Cardinality(Counted(k) \ {r}) \in Nat /\ Cardinality(Counted(k) \ {r}) <= Cardinality(sizes)
    BY <1>1, <2>2, SubsetsAreFinite
  <2>4. /\ value(k) \in Nat /\ Cardinality({b \in before[r] : Eligible(b, k)}) <= value(k)
        /\ value(k) <= Cardinality(Counted(k) \ {r})
    <3>1. k \in 1 .. 5
      OBVIOUS
    <3>2. QED
      BY <3>1, WholeReadings
  <2>5. Cardinality(batches) <= value(k)
    BY <2>1, <2>4
  <2> HIDE DEF requests, batches, others, sizes, value
  <2>6. value(k) <= Cardinality(sizes)
    BY <1>2, <2>3, <2>4
  <2>7. QED
    BY <1>2, <2>4, <2>5, <2>6
<1>5. value(5) >= Cardinality(before[r] \ requests)
  <2>1. {b \in before[r] : Eligible(b, 5)} = before[r] \ requests
    BY DEF Eligible
  <2>2. value(5) \in Nat /\ Cardinality({b \in before[r] : Eligible(b, 5)}) <= value(5)
    <3>1. 5 \in 1 .. 5
      OBVIOUS
    <3>2. QED
      BY <3>1, WholeReadings
  <2> HIDE DEF requests, value
  <2>3. QED
    BY <1>2, <2>1, <2>2
<1>6. QED
  BY <1>3, <1>4, <1>5, RegisteredFamilies

LEMMA InvCoversEarlierScrapes ==
  ASSUME TracingInv
  PROVE  LaterScrapesCoverEarlier
<1> SUFFICES ASSUME NEW r \in HttpRequests, NEW s \in HttpRequests, Read(r), Read(s), s \in before[r]
             PROVE  /\ reading[s]["http_request_duration"] < reading[r]["http_requests"]
                    /\ reading[s]["authorization_request_duration"] <= reading[r]["authorization_batch_size"]
                    /\ reading[s]["authorization_batch_size"] < reading[r]["http_request_duration"]
                    /\ \A family \in Families : reading[s][family] <= reading[r][family]
  BY DEF LaterScrapesCoverEarlier
<1>1. stage[s] = "answered" /\ request[s].route = "metrics"
  BY DEF TracingInv, RequestOK, Answered, Read
<1>2. \A k \in 1 .. 5 : CoverOK(r, s, k)
  BY <1>1, WholeReadings
<1>3. \A k \in 1 .. 5 : reading[s][Registered[k]] \in Nat /\ reading[r][Registered[k]] \in Nat
  BY WholeReadings
<1>4. \A k \in 1 .. 5 : reading[s][Registered[k]] <= reading[r][Registered[k]]
  <2>1. ASSUME NEW k \in 1 .. 5
        PROVE  reading[s][Registered[k]] + (IF k <= 2 THEN 1 ELSE 0) <= reading[r][Registered[k]]
    BY <1>2 DEF CoverOK
  <2>2. QED
    BY <1>3, <2>1
<1>5. /\ reading[s][Registered[2]] + 1 <= reading[r][Registered[1]]
      /\ reading[s][Registered[3]] + 1 <= reading[r][Registered[2]]
      /\ reading[s][Registered[4]] + 0 <= reading[r][Registered[3]]
  BY <1>2 DEF CoverOK
<1>6. /\ reading[s][Registered[2]] < reading[r][Registered[1]]
      /\ reading[s][Registered[3]] < reading[r][Registered[2]]
      /\ reading[s][Registered[4]] <= reading[r][Registered[3]]
  BY <1>3, <1>5
<1>7. \A family \in Families : reading[s][family] <= reading[r][family]
  BY <1>4, RegisteredFamilies
<1>8. QED
  BY <1>6, <1>7, RegisteredFamilies

(* middleware.rs:367-395 and reject, middleware.rs:155-175: once no        *)
(* request is under way, every response is in the metrics, and in one      *)
(* place, whatever order the worker threads updated the families in.       *)
THEOREM CountedResponses == TracingSpec => []EveryResponseIsCounted
<1>1. TracingInv => EveryResponseIsCounted
  BY InvCountsResponses
<1>2. QED
  BY <1>1, TracingInvariance, PTL

(* handlers.rs:652-662 and middleware.rs:387-394: the authorization        *)
(* metrics hold exactly the accepted batches with a response, by size and  *)
(* by class, and the sum of their sizes.                                   *)
THEOREM ObservedBatches == TracingSpec => []AcceptedBatchesAreObserved
<1>1. TracingInv => AcceptedBatchesAreObserved
  BY InvObservesBatches
<1>2. QED
  BY <1>1, TracingInvariance, PTL

(* encode_registry_text, metrics.rs:725-736: no scrape misses what was     *)
(* answered before it came or shows more than has a response, and a later  *)
(* one covers an earlier one, although neither is a snapshot.              *)
THEOREM ConsistentScrapes == TracingSpec => []ScrapesAreConsistent
<1>1. TracingInv => ScrapesAreConsistent
  BY InvShowsWhatWasAnswered, InvCoversEarlierScrapes DEF ScrapesAreConsistent
<1>2. QED
  BY <1>1, TracingInvariance, PTL
=============================================================================
