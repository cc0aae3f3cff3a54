-------------------------- MODULE StoreLockProofs --------------------------
(* Theorems about StoreLock, for any number of threads.                    *)
EXTENDS StoreLock, TLAPS

-----------------------------------------------------------------------------
(* The inductive invariant.  A thread that writes has made the assignments *)
(* it no longer has to make; a thread that reads holds what the store      *)
(* holds; without a writer the store is the last published state.          *)

Pending(todo, field) == \E i \in DOMAIN todo : todo[i] = field

OnItsWay(r) ==
  /\ r.goal \in Store /\ r.goal.engine.policies = r.goal.policies
  /\ \A field \in StoreFields : Pending(r.todo, field) \/ memory[field] = r.goal[field]
  /\ \A f \in Formats : Pending(r.todo, f) \/ caches[f] \in {None, r.goal.engine.policies}

WholeAnswer(r) ==
  \E i \in r.since .. Len(published) : /\ r.runtime = Runtime(published[i])
                                       /\ r.reported = Reported(published[i])

CurrentListing(r) ==
  \E i \in r.since .. Len(published) : r.listing = published[i].engine.policies

Reading == {"reading", "readingRest", "listing", "caching"}
Writing == {"checking", "writing"}

ThreadInv(r) ==
  /\ r.since <= Len(published)
  /\ r.stage = "idle" \/ r.since >= 1
  /\ r.stage = "writing" <=> r.goal # None
  /\ r.todo # << >> => r.stage = "writing"
  /\ r.outcome # None <=> r.stage = "answered"
  /\ r.stage \in {"listing", "caching"} => r.op \in Formats
  /\ r.stage \in {"preparing", "wantsWrite", "checking", "writing"} => r.op \in Updates
  /\ r.stage = "writing" => OnItsWay(r)
  /\ r.stage = "readingRest" => r.runtime = Runtime(memory)
  /\ r.stage = "caching" => r.listing = memory.engine.policies
  /\ r.reported # None => r.stage = "answered" /\ WholeAnswer(r)
  /\ r.listing # None => r.stage = "caching" \/ (r.stage = "answered" /\ CurrentListing(r))

HoldersInv ==
  /\ lock \in [readers : SUBSET Threads, writer : Threads \cup {None}, poisoned : BOOLEAN]
  /\ \A t \in Threads : t \in lock.readers <=> thread[t].stage \in Reading
  /\ \A t \in Threads : lock.writer = t <=> thread[t].stage \in Writing
  /\ lock.writer # None => lock.readers = {}
  /\ lock.poisoned => lock.writer = None /\ lock.readers = {}

Settled ==
  /\ memory = published[Len(published)]
  /\ memory.engine.policies = memory.policies
  /\ \A f \in Formats : caches[f] \in {None, memory.engine.policies}

TypeInv ==
  /\ memory \in Store
  /\ caches \in [Formats -> Contents \cup {None}]
  /\ thread \in [Threads -> ThreadState]
  /\ published \in Seq(Store) /\ Len(published) >= 1
  /\ updates \in 0 .. MaxUpdates

LockInv ==
  /\ TypeInv
  /\ HoldersInv
  /\ lock.poisoned \/ (\E t \in Threads : thread[t].stage = "writing") \/ Settled
  /\ \A t \in Threads : ThreadInv(thread[t])

LEMMA IdleInv ==
  ASSUME Len(published) \in Nat
  PROVE  ThreadInv(Idle)
<1>1. /\ Idle.stage = "idle" /\ Idle.since = 0 /\ Idle.goal = None /\ Idle.todo = << >>
      /\ Idle.outcome = None /\ Idle.reported = None /\ Idle.listing = None
  BY DEF Idle
<1> QED BY <1>1 DEF ThreadInv

LEMMA IdleType == Idle \in ThreadState
BY DEF Idle, ThreadState, Stages

LEMMA LockInitially == LockInit => LockInv
<1> SUFFICES ASSUME LockInit PROVE LockInv
  OBVIOUS
<1> USE LockAssumption DEF LockInit
<1>1. NewStore \in Store /\ Idle \in ThreadState
  BY DEF NewStore, Store, Engines, Statuses, Contents, Idle, ThreadState, Stages
<1>2. TypeInv
  BY <1>1 DEF TypeInv
<1>3. HoldersInv
  BY DEF HoldersInv, Reading, Writing, Idle
<1>4. Settled
  BY DEF Settled, NewStore
<1>5. \A t \in Threads : ThreadInv(thread[t])
  BY IdleInv
<1> QED BY <1>2, <1>3, <1>4, <1>5 DEF LockInv

(* A step of one thread that leaves the store itself alone.                *)
LEMMA QuietStep ==
  ASSUME LockInv, NEW t \in Threads, NEW n \in ThreadState,
         thread' = [thread EXCEPT ![t] = n], UNCHANGED <<memory, caches, published>>,
         updates' \in 0 .. MaxUpdates, ThreadInv(n), HoldersInv',
         lock.poisoned => lock'.poisoned, thread[t].stage = "writing" => lock'.poisoned
  PROVE  LockInv'
<1>1. TypeInv'
  BY DEF LockInv, TypeInv
<1>2. (lock.poisoned \/ (\E u \in Threads : thread[u].stage = "writing") \/ Settled)'
  <2>1. CASE lock.poisoned
    BY <2>1
  <2>2. ASSUME NEW u \in Threads, thread[u].stage = "writing"
        PROVE  lock'.poisoned \/ thread'[u].stage = "writing"
    BY <2>2 DEF LockInv, TypeInv
  <2>3. CASE Settled
    BY <2>3 DEF Settled
  <2> QED BY <2>1, <2>2, <2>3 DEF LockInv
<1>3. ASSUME NEW u \in Threads PROVE ThreadInv(thread[u])'
  <2>1. ThreadInv(thread'[u])
    <3>1. thread'[u] = IF u = t THEN n ELSE thread[u]
      BY DEF LockInv, TypeInv
    <3> QED BY <3>1 DEF LockInv
  <2> QED BY <2>1 DEF ThreadInv, OnItsWay, WholeAnswer, CurrentListing
<1> QED BY <1>1, <1>2, <1>3 DEF LockInv

(* Who holds the lock when a thread changes its stage.                     *)
LEMMA HoldersStep ==
  ASSUME LockInv, NEW t \in Threads, NEW n \in ThreadState,
         thread' = [thread EXCEPT ![t] = n],
         lock' \in [readers : SUBSET Threads, writer : Threads \cup {None}, poisoned : BOOLEAN],
         t \in lock'.readers <=> n.stage \in Reading,
         lock'.writer = t <=> n.stage \in Writing,
         \A u \in Threads : u # t => (u \in lock'.readers <=> u \in lock.readers),
         \A u \in Threads : u # t => (lock'.writer = u <=> lock.writer = u),
         lock'.writer # None => lock'.readers = {},
         lock'.poisoned => lock'.writer = None /\ lock'.readers = {}
  PROVE  HoldersInv'
<1>1. \A u \in Threads : thread'[u] = IF u = t THEN n ELSE thread[u]
  BY DEF LockInv, TypeInv
<1>2. HoldersInv
  BY DEF LockInv
<1> QED BY <1>1, <1>2 DEF HoldersInv

(* Steps without the lock changing hands.                                  *)
LEMMA SameHolders ==
  ASSUME LockInv, NEW t \in Threads, NEW n \in ThreadState,
         thread' = [thread EXCEPT ![t] = n], UNCHANGED lock,
         n.stage \in Reading <=> thread[t].stage \in Reading,
         n.stage \in Writing <=> thread[t].stage \in Writing
  PROVE  HoldersInv'
<1>1. HoldersInv
  BY DEF LockInv
<1> QED BY <1>1, HoldersStep DEF HoldersInv

LEMMA ReleasedHolders ==
  ASSUME LockInv, NEW t \in Threads, NEW n \in ThreadState,
         thread' = [thread EXCEPT ![t] = n], Released(t),
         thread[t].stage \in Reading, n.stage \notin Reading \cup Writing
  PROVE  HoldersInv' /\ lock'.poisoned = lock.poisoned
<1>1. HoldersInv
  BY DEF LockInv
<1>2. lock' = [lock EXCEPT !.readers = @ \ {t}]
  BY DEF Released
<1>3. lock'.readers = lock.readers \ {t} /\ lock'.writer = lock.writer /\ lock'.poisoned = lock.poisoned
  BY <1>1, <1>2 DEF HoldersInv
<1>4. lock.writer # t
  BY <1>1, LockAssumption DEF HoldersInv, Reading, Writing
<1> QED BY <1>1, <1>2, <1>3, <1>4, HoldersStep DEF HoldersInv

(* What the invariant says of a thread before its step.                    *)
LEMMA ThreadFacts ==
  ASSUME LockInv, NEW t \in Threads
  PROVE  /\ thread[t] \in ThreadState /\ ThreadInv(thread[t])
         /\ memory \in Store /\ Runtime(memory) \in RuntimeFields
         /\ Reported(memory) \in ReportedFields /\ Len(published) \in Nat
         /\ updates \in 0 .. MaxUpdates /\ Len(published) >= 1
BY DEF LockInv, TypeInv, Runtime, Reported, Store, RuntimeFields, ReportedFields

(* A thread that holds the lock for reading finds the last published state. *)
LEMMA ReadersFindSettled ==
  ASSUME LockInv, NEW t \in Threads, thread[t].stage \in Reading
  PROVE  Settled /\ lock.writer = None /\ ~lock.poisoned
<1>1. t \in lock.readers /\ lock.writer = None /\ ~lock.poisoned
  BY DEF LockInv, HoldersInv
<1>2. \A u \in Threads : thread[u].stage # "writing"
  BY <1>1, LockAssumption DEF LockInv, HoldersInv, Writing
<1> QED BY <1>1, <1>2 DEF LockInv

LEMMA AskInductive ==
  ASSUME LockInv, NEW t \in Threads, Ask(t)
  PROVE  LockInv'
<1>1. PICK op \in Reads \cup Updates :
        /\ op \in Updates => updates < MaxUpdates
        /\ updates' = IF op \in Updates THEN updates + 1 ELSE updates
        /\ \/ /\ op \in Reads \cup Uploads
              /\ Becomes(t, [Idle EXCEPT !.stage = "wantsRead", !.op = op, !.since = Len(published)])
           \/ /\ op \in Components
              /\ Becomes(t, [Idle EXCEPT !.stage = "wantsWrite", !.op = op, !.since = Len(published)])
  BY DEF Ask
<1>2. PICK stage \in {"wantsRead", "wantsWrite"} :
        /\ stage = "wantsWrite" => op \in Updates
        /\ thread' = [thread EXCEPT ![t] =
                        [Idle EXCEPT !.stage = stage, !.op = op, !.since = Len(published)]]
  BY <1>1 DEF Becomes, Updates
<1> DEFINE n == [Idle EXCEPT !.stage = stage, !.op = op, !.since = Len(published)]
<1>3. /\ n.stage = stage /\ n.op = op /\ n.since = Len(published) /\ n.goal = None /\ n.todo = << >>
      /\ n.runtime = None /\ n.reported = None /\ n.listing = None /\ n.outcome = None
      /\ n \in ThreadState
  <2>1. Idle \in ThreadState
    BY DEF Idle, ThreadState, Stages
  <2>2. n \in ThreadState
    BY <2>1, ThreadFacts DEF ThreadState, Stages
  <2> QED BY <2>2 DEF Idle
<1> HIDE DEF n
<1>4. ThreadInv(n)
  BY <1>2, <1>3, ThreadFacts DEF ThreadInv
<1>5. updates' \in 0 .. MaxUpdates
  BY <1>1, ThreadFacts, LockAssumption
<1>6. /\ UNCHANGED <<memory, caches, lock, published>> /\ thread[t].stage = "idle"
      /\ thread' = [thread EXCEPT ![t] = n]
  BY <1>2 DEF Ask, At, n
<1>7. HoldersInv'
  BY <1>2, <1>3, <1>6, SameHolders DEF Reading, Writing
<1> QED BY <1>3, <1>4, <1>5, <1>6, <1>7, QuietStep

(* Steps that only change the stage.                                       *)
LEMMA GoesFacts ==
  ASSUME LockInv, NEW t \in Threads, NEW stage \in Stages, Goes(t, stage)
  PROVE  LET n == [thread[t] EXCEPT !.stage = stage] IN
         /\ thread' = [thread EXCEPT ![t] = n] /\ n \in ThreadState /\ n.stage = stage
         /\ \A field \in {"op", "since", "todo", "goal", "runtime", "reported", "listing", "outcome"} :
              n[field] = thread[t][field]
<1> DEFINE n == [thread[t] EXCEPT !.stage = stage]
<1>1. thread[t] \in ThreadState
  BY ThreadFacts
<1>2. n \in ThreadState /\ n.stage = stage
  BY <1>1 DEF ThreadState
<1>3. \A field \in {"op", "since", "todo", "goal", "runtime", "reported", "listing", "outcome"} :
        n[field] = thread[t][field]
  BY <1>1 DEF ThreadState
<1> QED BY <1>2, <1>3 DEF Goes, Becomes

LEMMA GoesKeeps ==
  ASSUME LockInv, NEW t \in Threads, NEW stage \in Stages, Goes(t, stage),
         stage \notin {"idle", "writing", "answered", "readingRest", "caching"},
         thread[t].stage \notin {"idle", "writing", "answered", "caching"},
         stage = "listing" => thread[t].op \in Formats,
         stage \in {"preparing", "wantsWrite", "checking"} => thread[t].op \in Updates
  PROVE  ThreadInv([thread[t] EXCEPT !.stage = stage])
<1> DEFINE n == [thread[t] EXCEPT !.stage = stage]
<1>1. /\ n.stage = stage /\ n.op = thread[t].op /\ n.since = thread[t].since
      /\ n.todo = thread[t].todo /\ n.goal = thread[t].goal /\ n.reported = thread[t].reported
      /\ n.listing = thread[t].listing /\ n.outcome = thread[t].outcome
  BY GoesFacts
<1>2. ThreadInv(thread[t])
  BY ThreadFacts
<1> HIDE DEF n
<1>3. ThreadInv(n)
  BY <1>1, <1>2 DEF ThreadInv
<1> QED BY <1>3 DEF n

(* Steps that end a request without an answer from the store.              *)
LEMMA EndsKeeps ==
  ASSUME LockInv, NEW t \in Threads, NEW outcome \in Outcomes, Ends(t, outcome),
         thread[t].stage \notin {"idle", "answered", "caching"}
  PROVE  LET n == [thread[t] EXCEPT !.stage = "answered", !.outcome = outcome,
                                    !.todo = << >>, !.goal = None] IN
         /\ thread' = [thread EXCEPT ![t] = n] /\ n \in ThreadState /\ n.stage = "answered"
         /\ ThreadInv(n)
<1> DEFINE n == [thread[t] EXCEPT !.stage = "answered", !.outcome = outcome,
                                  !.todo = << >>, !.goal = None]
<1>1. thread[t] \in ThreadState /\ ThreadInv(thread[t])
  BY ThreadFacts
<1>2. n \in ThreadState
  <2>1. << >> \in Seq(StoreFields \cup Formats) /\ "answered" \in Stages
    BY DEF Stages
  <2> DEFINE Todos == Seq(StoreFields \cup Formats)
  <2>2. ThreadState =
          [ stage : Stages, op : Reads \cup Updates \cup {None}, since : Nat,
            todo : Todos, goal : Store \cup {None},
            runtime : RuntimeFields \cup {None}, reported : ReportedFields \cup {None},
            listing : Contents \cup {None}, outcome : Outcomes \cup {None} ]
    BY DEF ThreadState
  <2> HIDE DEF Todos
  <2>3. << >> \in Todos
    BY <2>1 DEF Todos
  <2> QED BY <1>1, <2>1, <2>2, <2>3
<1>3. /\ n.stage = "answered" /\ n.op = thread[t].op /\ n.since = thread[t].since
      /\ n.todo = << >> /\ n.goal = None /\ n.reported = thread[t].reported
      /\ n.listing = thread[t].listing /\ n.outcome = outcome
  BY <1>1 DEF ThreadState
<1>4. outcome # None
  BY LockAssumption
<1> HIDE DEF n
<1>5. ThreadInv(n)
  BY <1>1, <1>3, <1>4 DEF ThreadInv
<1> QED BY <1>2, <1>3, <1>5 DEF Ends, Becomes, n

LEMMA WaitingInductive ==
  ASSUME LockInv, NEW t \in Threads,
         Refuse(t) \/ AcquireRead(t) \/ CheckUpload(t) \/ PrepareUpload(t) \/ AcquireWrite(t)
  PROVE  LockInv'
<1>1. HoldersInv /\ updates \in 0 .. MaxUpdates
  BY DEF LockInv, TypeInv
<1>2. CASE Refuse(t)
  <2>1. /\ thread[t].stage \in {"wantsRead", "wantsWrite"} /\ Ends(t, "refused")
        /\ UNCHANGED <<memory, caches, lock, published, updates>>
    BY <1>2 DEF Refuse, At
  <2> DEFINE n == [thread[t] EXCEPT !.stage = "answered", !.outcome = "refused",
                                    !.todo = << >>, !.goal = None]
  <2>2. /\ thread' = [thread EXCEPT ![t] = n] /\ n \in ThreadState /\ n.stage = "answered"
        /\ ThreadInv(n)
    BY <2>1, EndsKeeps DEF Outcomes
  <2> HIDE DEF n
  <2>3. HoldersInv'
    BY <2>1, <2>2, SameHolders DEF Reading, Writing
  <2> QED BY <1>1, <2>1, <2>2, <2>3, QuietStep
<1>3. CASE AcquireRead(t)
  <2>1. /\ thread[t].stage = "wantsRead" /\ Goes(t, "reading")
        /\ UNCHANGED <<memory, caches, published, updates>>
        /\ lock.writer = None /\ ~lock.poisoned
        /\ lock' = [lock EXCEPT !.readers = @ \cup {t}]
    BY <1>3 DEF AcquireRead, At
  <2> DEFINE n == [thread[t] EXCEPT !.stage = "reading"]
  <2>2. thread' = [thread EXCEPT ![t] = n] /\ n \in ThreadState /\ n.stage = "reading"
    BY <2>1, GoesFacts DEF Stages
  <2>3. ThreadInv(n)
    BY <2>1, GoesKeeps DEF Stages
  <2> HIDE DEF n
  <2>4. /\ lock'.readers = lock.readers \cup {t} /\ lock'.writer = None /\ lock'.poisoned = FALSE
        /\ lock' \in [readers : SUBSET Threads, writer : Threads \cup {None}, poisoned : BOOLEAN]
    BY <1>1, <2>1 DEF HoldersInv
  <2>5. HoldersInv'
    BY <1>1, <2>1, <2>2, <2>4, LockAssumption, HoldersStep DEF Reading, Writing
  <2> QED BY <1>1, <2>1, <2>2, <2>3, <2>5, QuietStep
<1>4. CASE CheckUpload(t)
  <2>1. /\ thread[t].stage = "reading" /\ Goes(t, "preparing") /\ thread[t].op \in Uploads
        /\ UNCHANGED <<memory, caches, published, updates>> /\ Released(t)
    BY <1>4 DEF CheckUpload, At
  <2> DEFINE n == [thread[t] EXCEPT !.stage = "preparing"]
  <2>2. thread' = [thread EXCEPT ![t] = n] /\ n \in ThreadState /\ n.stage = "preparing"
    BY <2>1, GoesFacts DEF Stages
  <2>3. ThreadInv(n)
    BY <2>1, GoesKeeps DEF Stages, Uploads, Updates, Components
  <2> HIDE DEF n
  <2>4. HoldersInv' /\ lock'.poisoned = lock.poisoned
    BY <2>1, <2>2, ReleasedHolders DEF Reading, Writing
  <2> QED BY <1>1, <2>1, <2>2, <2>3, <2>4, QuietStep
<1>5. CASE PrepareUpload(t)
  <2>1. /\ thread[t].stage = "preparing" /\ thread[t].op \in Updates
        /\ UNCHANGED <<memory, caches, lock, published, updates>>
    BY <1>5, ThreadFacts DEF PrepareUpload, At, ThreadInv
  <2>2. CASE Goes(t, "wantsWrite")
    <3> DEFINE n == [thread[t] EXCEPT !.stage = "wantsWrite"]
    <3>1. thread' = [thread EXCEPT ![t] = n] /\ n \in ThreadState /\ n.stage = "wantsWrite"
      BY <2>2, GoesFacts DEF Stages
    <3>2. ThreadInv(n)
      BY <2>1, <2>2, GoesKeeps DEF Stages
    <3> HIDE DEF n
    <3>3. HoldersInv'
      BY <2>1, <3>1, SameHolders DEF Reading, Writing
    <3> QED BY <1>1, <2>1, <3>1, <3>2, <3>3, QuietStep
  <2>3. CASE Ends(t, "rejected")
    <3> DEFINE n == [thread[t] EXCEPT !.stage = "answered", !.outcome = "rejected",
                                      !.todo = << >>, !.goal = None]
    <3>1. /\ thread' = [thread EXCEPT ![t] = n] /\ n \in ThreadState /\ n.stage = "answered"
          /\ ThreadInv(n)
      BY <2>1, <2>3, EndsKeeps DEF Outcomes
    <3> HIDE DEF n
    <3>2. HoldersInv'
      BY <2>1, <3>1, SameHolders DEF Reading, Writing
    <3> QED BY <1>1, <2>1, <3>1, <3>2, QuietStep
  <2> QED BY <1>5, <2>2, <2>3 DEF PrepareUpload
<1>6. CASE AcquireWrite(t)
  <2>1. /\ thread[t].stage = "wantsWrite" /\ Goes(t, "checking")
        /\ UNCHANGED <<memory, caches, published, updates>>
        /\ lock.writer = None /\ ~lock.poisoned /\ lock.readers = {}
        /\ lock' = [lock EXCEPT !.writer = t]
    BY <1>6 DEF AcquireWrite, At
  <2> DEFINE n == [thread[t] EXCEPT !.stage = "checking"]
  <2>2. thread' = [thread EXCEPT ![t] = n] /\ n \in ThreadState /\ n.stage = "checking"
    BY <2>1, GoesFacts DEF Stages
  <2>3. ThreadInv(n)
    <3>1. thread[t].op \in Updates
      BY <2>1, ThreadFacts DEF ThreadInv
    <3> QED BY <2>1, <3>1, GoesKeeps DEF Stages
  <2> HIDE DEF n
  <2>4. /\ lock'.readers = {} /\ lock'.writer = t /\ lock'.poisoned = FALSE
        /\ lock' \in [readers : SUBSET Threads, writer : Threads \cup {None}, poisoned : BOOLEAN]
    BY <1>1, <2>1 DEF HoldersInv
  <2>5. HoldersInv'
    BY <1>1, <2>1, <2>2, <2>4, LockAssumption, HoldersStep DEF Reading, Writing
  <2> QED BY <1>1, <2>1, <2>2, <2>3, <2>5, QuietStep
<1> QED BY <1>2, <1>3, <1>4, <1>5, <1>6

(* Steps of a thread that holds the lock for reading.                      *)
LEMMA ReadingInductive ==
  ASSUME LockInv, NEW t \in Threads,
         ReadRuntime(t) \/ ReadMetadata(t) \/ LookUpHit(t) \/ LookUpMiss(t) \/ ListPolicies(t)
  PROVE  LockInv'
<1>1. /\ thread[t] \in ThreadState /\ ThreadInv(thread[t])
      /\ UNCHANGED <<memory, caches, published, updates>> /\ updates \in 0 .. MaxUpdates
      /\ thread[t].stage \in Reading
  BY ThreadFacts DEF ReadRuntime, ReadMetadata, LookUpHit, LookUpMiss, ListPolicies, At, Reading
<1>2. Settled /\ Len(published) \in 1 .. Len(published)
  BY <1>1, ReadersFindSettled, ThreadFacts
<1>3. CASE ReadRuntime(t)
  <2> DEFINE n == [thread[t] EXCEPT !.stage = "readingRest", !.runtime = Runtime(memory)]
  <2>1. /\ thread[t].stage = "reading" /\ UNCHANGED lock
        /\ thread' = [thread EXCEPT ![t] = n]
    BY <1>3 DEF ReadRuntime, At, Becomes
  <2>2. n \in ThreadState
    BY <1>1, ThreadFacts DEF ThreadState, Stages
  <2>3. /\ n.stage = "readingRest" /\ n.op = thread[t].op /\ n.since = thread[t].since
        /\ n.todo = thread[t].todo /\ n.goal = thread[t].goal /\ n.runtime = Runtime(memory)
        /\ n.reported = thread[t].reported /\ n.listing = thread[t].listing
        /\ n.outcome = thread[t].outcome
    BY <1>1 DEF ThreadState
  <2> HIDE DEF n
  <2>4. ThreadInv(n)
    BY <1>1, <2>1, <2>3 DEF ThreadInv
  <2>5. HoldersInv'
    BY <2>1, <2>2, <2>3, SameHolders DEF Reading, Writing
  <2> QED BY <1>1, <2>1, <2>2, <2>4, <2>5, QuietStep
<1>4. CASE ReadMetadata(t)
  <2> DEFINE n == [thread[t] EXCEPT !.stage = "answered", !.outcome = "done",
                                    !.reported = Reported(memory)]
  <2>1. /\ thread[t].stage = "readingRest" /\ Released(t)
        /\ thread' = [thread EXCEPT ![t] = n]
    BY <1>4 DEF ReadMetadata, At, Becomes
  <2>2. n \in ThreadState
    BY <1>1, ThreadFacts DEF ThreadState, Stages, Outcomes
  <2>3. /\ n.stage = "answered" /\ n.op = thread[t].op /\ n.since = thread[t].since
        /\ n.todo = thread[t].todo /\ n.goal = thread[t].goal /\ n.runtime = thread[t].runtime
        /\ n.reported = Reported(memory) /\ n.listing = thread[t].listing
        /\ n.outcome = "done"
    BY <1>1 DEF ThreadState
  <2> HIDE DEF n
  <2>4. WholeAnswer(n)
    <3>1. n.since \in Nat /\ n.since <= Len(published)
      BY <1>1, <2>3 DEF ThreadInv, ThreadState
    <3>2. Len(published) \in n.since .. Len(published)
      BY <1>2, <3>1
    <3>3. n.runtime = Runtime(memory) /\ memory = published[Len(published)]
      BY <1>1, <1>2, <2>1, <2>3 DEF ThreadInv, Settled
    <3> QED BY <2>3, <3>2, <3>3 DEF WholeAnswer
  <2>5. ThreadInv(n)
    BY <1>1, <2>1, <2>3, <2>4, LockAssumption DEF ThreadInv, Outcomes
  <2>6. HoldersInv' /\ lock'.poisoned = lock.poisoned
    BY <1>1, <2>1, <2>2, <2>3, ReleasedHolders DEF Reading, Writing
  <2> QED BY <1>1, <2>1, <2>2, <2>5, <2>6, QuietStep
<1>5. CASE LookUpHit(t)
  <2> DEFINE n == [thread[t] EXCEPT !.stage = "answered", !.outcome = "done",
                                    !.listing = caches[thread[t].op]]
  <2>1. /\ thread[t].stage = "reading" /\ Released(t)
        /\ thread' = [thread EXCEPT ![t] = n]
        /\ thread[t].op \in Formats /\ caches[thread[t].op] # None
    BY <1>5 DEF LookUpHit, At, Becomes
  <2>2. caches[thread[t].op] = published[Len(published)].engine.policies
    BY <1>2, <2>1 DEF Settled
  <2>3. caches[thread[t].op] \in Contents
    BY <2>1 DEF LockInv, TypeInv
  <2>4. n \in ThreadState
    BY <1>1, <2>3 DEF ThreadState, Stages, Outcomes
  <2>5. /\ n.stage = "answered" /\ n.op = thread[t].op /\ n.since = thread[t].since
        /\ n.todo = thread[t].todo /\ n.goal = thread[t].goal
        /\ n.reported = thread[t].reported /\ n.listing = caches[thread[t].op]
        /\ n.outcome = "done"
    BY <1>1 DEF ThreadState
  <2> HIDE DEF n
  <2>6. CurrentListing(n)
    <3>1. n.since \in Nat /\ n.since <= Len(published)
      BY <1>1, <2>5 DEF ThreadInv, ThreadState
    <3>2. Len(published) \in n.since .. Len(published)
      BY <1>2, <3>1
    <3> QED BY <2>2, <2>5, <3>2 DEF CurrentListing
  <2>7. ThreadInv(n)
    BY <1>1, <2>1, <2>5, <2>6, LockAssumption DEF ThreadInv, Outcomes
  <2>8. HoldersInv' /\ lock'.poisoned = lock.poisoned
    BY <1>1, <2>1, <2>4, <2>5, ReleasedHolders DEF Reading, Writing
  <2> QED BY <1>1, <2>1, <2>4, <2>7, <2>8, QuietStep
<1>6. CASE LookUpMiss(t)
  <2> DEFINE n == [thread[t] EXCEPT !.stage = "listing"]
  <2>1. /\ thread[t].stage = "reading" /\ thread[t].op \in Formats /\ Goes(t, "listing")
        /\ UNCHANGED lock
    BY <1>6 DEF LookUpMiss, At
  <2>2. thread' = [thread EXCEPT ![t] = n] /\ n \in ThreadState /\ n.stage = "listing"
    BY <2>1, GoesFacts DEF Stages
  <2>3. ThreadInv(n)
    BY <2>1, GoesKeeps DEF Stages
  <2> HIDE DEF n
  <2>4. HoldersInv'
    BY <2>1, <2>2, SameHolders DEF Reading, Writing
  <2> QED BY <1>1, <2>1, <2>2, <2>3, <2>4, QuietStep
<1>7. CASE ListPolicies(t)
  <2> DEFINE n == [thread[t] EXCEPT !.stage = "caching", !.listing = memory.engine.policies]
  <2>1. /\ thread[t].stage = "listing" /\ UNCHANGED lock
        /\ thread' = [thread EXCEPT ![t] = n]
    BY <1>7 DEF ListPolicies, At, Becomes
  <2>2. memory.engine.policies \in Contents
    BY ThreadFacts DEF Store, Engines
  <2>3. n \in ThreadState
    BY <1>1, <2>2 DEF ThreadState, Stages
  <2>4. /\ n.stage = "caching" /\ n.op = thread[t].op /\ n.since = thread[t].since
        /\ n.todo = thread[t].todo /\ n.goal = thread[t].goal
        /\ n.reported = thread[t].reported /\ n.listing = memory.engine.policies
        /\ n.outcome = thread[t].outcome
    BY <1>1 DEF ThreadState
  <2> HIDE DEF n
  <2>5. ThreadInv(n)
    BY <1>1, <2>1, <2>4 DEF ThreadInv
  <2>6. HoldersInv'
    BY <2>1, <2>3, <2>4, SameHolders DEF Reading, Writing
  <2> QED BY <1>1, <2>1, <2>3, <2>5, <2>6, QuietStep
<1> QED BY <1>3, <1>4, <1>5, <1>6, <1>7

LEMMA PutListingInductive ==
  ASSUME LockInv, NEW t \in Threads, PutListing(t)
  PROVE  LockInv'
<1> DEFINE n == [thread[t] EXCEPT !.stage = "answered", !.outcome = "done",
                                  !.todo = << >>, !.goal = None]
<1>1. /\ thread[t] \in ThreadState /\ ThreadInv(thread[t]) /\ thread[t].stage = "caching"
      /\ UNCHANGED <<memory, published, updates>> /\ updates \in 0 .. MaxUpdates
      /\ caches' = [caches EXCEPT ![thread[t].op] = thread[t].listing] /\ Released(t)
      /\ thread' = [thread EXCEPT ![t] = n]
  BY ThreadFacts DEF PutListing, At, Ends, Becomes
<1>2. Settled /\ lock.writer = None /\ Len(published) \in 1 .. Len(published)
  BY <1>1, ReadersFindSettled, ThreadFacts DEF Reading
<1>3. /\ thread[t].op \in Formats /\ thread[t].listing = memory.engine.policies
      /\ memory.engine.policies \in Contents
  BY <1>1, ThreadFacts DEF ThreadInv, Store, Engines
<1>4. /\ caches \in [Formats -> Contents \cup {None}]
      /\ caches' \in [Formats -> Contents \cup {None}]
      /\ \A f \in Formats : caches'[f] \in {None, memory.engine.policies}
  <2>1. caches \in [Formats -> Contents \cup {None}]
    BY DEF LockInv, TypeInv
  <2> QED BY <1>1, <1>2, <1>3, <2>1 DEF Settled
<1>5. thread[t].todo = << >> /\ thread[t].goal = None
  BY <1>1 DEF ThreadInv
<1>6. /\ n \in ThreadState
      /\ n.stage = "answered" /\ n.op = thread[t].op /\ n.since = thread[t].since
      /\ n.todo = << >> /\ n.goal = None /\ n.reported = thread[t].reported
      /\ n.listing = memory.engine.policies /\ n.outcome = "done"
  <2> DEFINE m == [thread[t] EXCEPT !.stage = "answered", !.outcome = "done"]
  <2>1. m \in ThreadState
    BY <1>1 DEF ThreadState, Stages, Outcomes
  <2>2. n = m
    BY <1>1, <1>5 DEF ThreadState
  <2> QED BY <1>1, <1>3, <1>5, <2>1, <2>2 DEF ThreadState
<1> HIDE DEF n
<1>7. ThreadInv(n) /\ n.reported = None
  <2>1. n.since \in Nat /\ n.since <= Len(published) /\ n.reported = None
    BY <1>1, <1>6 DEF ThreadInv, ThreadState
  <2>2. Len(published) \in n.since .. Len(published)
    BY <1>2, <2>1
  <2>3. CurrentListing(n)
    BY <1>2, <1>6, <2>2 DEF CurrentListing, Settled
  <2>4. ThreadInv(n)
    BY <1>1, <1>6, <2>1, <2>3, LockAssumption DEF ThreadInv, Outcomes
  <2> QED BY <2>1, <2>4
<1>8. HoldersInv'
  BY <1>1, <1>6, ReleasedHolders DEF Reading, Writing
<1>9. TypeInv'
  BY <1>1, <1>4, <1>6 DEF LockInv, TypeInv
<1>10. Settled'
  BY <1>1, <1>2, <1>4 DEF Settled
<1>11. ASSUME NEW u \in Threads PROVE ThreadInv(thread[u])'
  <2>1. CASE u = t
    <3>1. thread'[u] = n
      BY <1>1, <2>1 DEF LockInv, TypeInv
    <3> QED BY <1>1, <1>6, <1>7, <3>1 DEF ThreadInv, CurrentListing
  <2>2. CASE u # t
    <3>1. thread'[u] = thread[u] /\ ThreadInv(thread[u])
      BY <1>1, <2>2 DEF LockInv, TypeInv
    <3>2. thread[u].stage # "writing"
      BY <1>2, LockAssumption DEF LockInv, HoldersInv, Writing
    <3> QED BY <1>1, <3>1, <3>2 DEF ThreadInv, WholeAnswer, CurrentListing
  <2> QED BY <2>1, <2>2
<1> QED BY <1>8, <1>9, <1>10, <1>11 DEF LockInv

(* A thread that holds the lock for writing is alone with the store.       *)
LEMMA WriterFacts ==
  ASSUME LockInv, NEW t \in Threads, thread[t].stage \in Writing
  PROVE  /\ lock.writer = t /\ lock.readers = {} /\ ~lock.poisoned
         /\ \A u \in Threads : u # t => thread[u].stage \notin Reading \cup Writing
         /\ thread[t].stage = "checking" => Settled
<1>1. lock.writer = t /\ lock.readers = {} /\ ~lock.poisoned
  BY LockAssumption DEF LockInv, HoldersInv
<1>2. \A u \in Threads : u # t => thread[u].stage \notin Reading \cup Writing
  BY <1>1 DEF LockInv, HoldersInv
<1>3. thread[t].stage = "checking" => Settled
  BY <1>1, <1>2 DEF LockInv, Writing
<1> QED BY <1>1, <1>2, <1>3

(* Every field in which the goal of an update differs is assigned.         *)
LEMMA AssignmentsCover ==
  ASSUME NEW op \in Updates
  PROVE  /\ Assignments(op) \in Seq(StoreFields \cup Formats)
         /\ \A field \in {"engine", "context", "bundle"} : Pending(Assignments(op), field)
         /\ op \in {"policies", "bundle"} => Pending(Assignments(op), "policies")
         /\ op \in {"labels", "bundle"} => /\ Pending(Assignments(op), "labels")
                                          /\ Pending(Assignments(op), "labelers")
         /\ op \in {"schema", "bundle"} => Pending(Assignments(op), "schema")
         /\ op # "schema" => \A f \in Formats : Pending(Assignments(op), f)
<1>1. CASE op = "policies"
  <2> DEFINE s == <<"engine", "context", "policies", "bundle", "raw", "json">>
  <2>1. Assignments(op) = s
    BY <1>1 DEF Assignments
  <2>2. /\ s \in Seq(StoreFields \cup Formats) /\ \A i \in 1 .. 6 : i \in DOMAIN s
        /\ s[1] = "engine" /\ s[2] = "context" /\ s[3] = "policies"
        /\ s[4] = "bundle" /\ s[5] = "raw" /\ s[6] = "json"
    BY DEF StoreFields, Formats
  <2> HIDE DEF s
  <2> QED BY <1>1, <2>1, <2>2 DEF Pending, Formats
<1>2. CASE op = "labels"
  <2> DEFINE s == <<"engine", "context", "labelers", "labels", "bundle", "raw", "json">>
  <2>1. Assignments(op) = s
    BY <1>2 DEF Assignments
  <2>2. /\ s \in Seq(StoreFields \cup Formats) /\ \A i \in 1 .. 7 : i \in DOMAIN s
        /\ s[1] = "engine" /\ s[2] = "context" /\ s[3] = "labelers" /\ s[4] = "labels"
        /\ s[5] = "bundle" /\ s[6] = "raw" /\ s[7] = "json"
    BY DEF StoreFields, Formats
  <2> HIDE DEF s
  <2> QED BY <1>2, <2>1, <2>2 DEF Pending, Formats
<1>3. CASE op = "schema"
  <2> DEFINE s == <<"engine", "context", "schema", "bundle">>
  <2>1. Assignments(op) = s
    BY <1>3 DEF Assignments
  <2>2. /\ s \in Seq(StoreFields \cup Formats) /\ \A i \in 1 .. 4 : i \in DOMAIN s
        /\ s[1] = "engine" /\ s[2] = "context" /\ s[3] = "schema" /\ s[4] = "bundle"
    BY DEF StoreFields, Formats
  <2> HIDE DEF s
  <2> QED BY <1>3, <2>1, <2>2 DEF Pending
<1>4. CASE op = "bundle"
  <2> DEFINE s == <<"raw", "json", "engine", "policies", "labels", "schema", "labelers",
                    "context", "bundle">>
  <2>1. Assignments(op) = s
    BY <1>4 DEF Assignments
  <2>2. /\ s \in Seq(StoreFields \cup Formats) /\ \A i \in 1 .. 9 : i \in DOMAIN s
        /\ s[1] = "raw" /\ s[2] = "json" /\ s[3] = "engine" /\ s[4] = "policies"
        /\ s[5] = "labels" /\ s[6] = "schema" /\ s[7] = "labelers" /\ s[8] = "context"
        /\ s[9] = "bundle"
    BY DEF StoreFields, Formats
  <2> HIDE DEF s
  <2> QED BY <1>4, <2>1, <2>2 DEF Pending, Formats
<1> QED BY <1>1, <1>2, <1>3, <1>4 DEF Updates, Components

(* An update sets out from a settled store.                                *)
LEMMA UpdateSetsOut ==
  ASSUME LockInv, Settled, NEW op \in Updates, NEW d \in Documents
  PROVE  LET goal == Updated(memory, op, d) IN
         /\ goal \in Store /\ goal.engine.policies = goal.policies
         /\ \A field \in StoreFields : Pending(Assignments(op), field) \/ memory[field] = goal[field]
         /\ \A f \in Formats : Pending(Assignments(op), f)
                              \/ caches[f] \in {None, goal.engine.policies}
<1> DEFINE goal == Updated(memory, op, d)
<1>1. memory \in Store /\ d \in Contents
  BY ThreadFacts, LockAssumption DEF LockInv, TypeInv, Contents
<1>2. /\ goal \in Store /\ goal.engine.policies = goal.policies
      /\ op \notin {"policies", "bundle"} => goal.policies = memory.policies
      /\ op \notin {"labels", "bundle"} => goal.labels = memory.labels /\ goal.labelers = memory.labelers
      /\ op \notin {"schema", "bundle"} => goal.schema = memory.schema
  BY <1>1 DEF Updated, Store, Engines, Statuses, Contents
<1> HIDE DEF goal
<1>3. \A field \in StoreFields : Pending(Assignments(op), field) \/ memory[field] = goal[field]
  BY <1>2, AssignmentsCover DEF StoreFields
<1>4. ASSUME NEW f \in Formats
      PROVE  Pending(Assignments(op), f) \/ caches[f] \in {None, goal.engine.policies}
  <2>1. CASE op # "schema"
    BY <2>1, AssignmentsCover
  <2>2. CASE op = "schema"
    BY <1>2, <2>2 DEF Settled
  <2> QED BY <2>1, <2>2
<1> QED BY <1>2, <1>3, <1>4 DEF goal

LEMMA CheckingInductive ==
  ASSUME LockInv, NEW t \in Threads, RejectUpdate(t) \/ AcceptUpdate(t)
  PROVE  LockInv'
<1>1. /\ thread[t] \in ThreadState /\ ThreadInv(thread[t]) /\ thread[t].stage = "checking"
      /\ UNCHANGED <<memory, caches, published, updates>> /\ updates \in 0 .. MaxUpdates
      /\ HoldersInv
  BY ThreadFacts DEF RejectUpdate, AcceptUpdate, At, LockInv
<1>2. lock.writer = t /\ lock.readers = {} /\ ~lock.poisoned /\ Settled
  BY <1>1, WriterFacts DEF Writing
<1>3. CASE RejectUpdate(t)
  <2> DEFINE n == [thread[t] EXCEPT !.stage = "answered", !.outcome = "rejected",
                                    !.todo = << >>, !.goal = None]
  <2>1. Ends(t, "rejected") /\ lock' = [lock EXCEPT !.writer = None]
    BY <1>3 DEF RejectUpdate
  <2>2. /\ thread' = [thread EXCEPT ![t] = n] /\ n \in ThreadState /\ n.stage = "answered"
        /\ ThreadInv(n)
    BY <1>1, <2>1, EndsKeeps DEF Outcomes
  <2> HIDE DEF n
  <2>3. /\ lock'.readers = {} /\ lock'.writer = None /\ lock'.poisoned = FALSE
        /\ lock' \in [readers : SUBSET Threads, writer : Threads \cup {None}, poisoned : BOOLEAN]
    BY <1>1, <1>2, <2>1 DEF HoldersInv
  <2>4. HoldersInv'
    BY <1>2, <2>2, <2>3, LockAssumption, HoldersStep DEF Reading, Writing
  <2> QED BY <1>1, <1>2, <2>2, <2>4, QuietStep
<1>4. CASE AcceptUpdate(t)
  <2>1. PICK d \in Documents :
          Becomes(t, [thread[t] EXCEPT !.stage = "writing", !.todo = Assignments(thread[t].op),
                                       !.goal = Updated(memory, thread[t].op, d)])
    BY <1>4 DEF AcceptUpdate
  <2> DEFINE todo == Assignments(thread[t].op)
             goal == Updated(memory, thread[t].op, d)
             n == [thread[t] EXCEPT !.stage = "writing", !.todo = todo, !.goal = goal]
  <2>2. thread[t].op \in Updates
    BY <1>1 DEF ThreadInv
  <2>3. todo \in Seq(StoreFields \cup Formats)
    BY <2>2, AssignmentsCover
  <2>4. /\ goal \in Store /\ goal.engine.policies = goal.policies
        /\ \A field \in StoreFields : Pending(todo, field) \/ memory[field] = goal[field]
        /\ \A f \in Formats : Pending(todo, f) \/ caches[f] \in {None, goal.engine.policies}
    BY <1>2, <2>2, UpdateSetsOut
  <2>5. thread' = [thread EXCEPT ![t] = n] /\ UNCHANGED lock
    BY <1>4, <2>1 DEF AcceptUpdate, Becomes
  <2> HIDE DEF todo, goal
  <2>6. n \in ThreadState
    BY <1>1, <2>3, <2>4 DEF ThreadState, Stages
  <2>7. /\ n.stage = "writing" /\ n.op = thread[t].op /\ n.since = thread[t].since
        /\ n.todo = todo /\ n.goal = goal /\ n.reported = thread[t].reported
        /\ n.listing = thread[t].listing /\ n.outcome = thread[t].outcome
    BY <1>1 DEF ThreadState
  <2> HIDE DEF n
  <2>8. OnItsWay(n)
    BY <2>4, <2>7 DEF OnItsWay
  <2>9. ThreadInv(n)
    BY <1>1, <2>2, <2>4, <2>7, <2>8, LockAssumption DEF ThreadInv
  <2>10. HoldersInv'
    BY <1>1, <2>5, <2>6, <2>7, SameHolders DEF Reading, Writing
  <2> QED BY <1>1, <2>5, <2>6, <2>9, <2>10, QuietStep
<1> QED BY <1>3, <1>4

LEMMA PendingTail ==
  ASSUME NEW S, NEW todo \in Seq(S), todo # << >>
  PROVE  /\ Tail(todo) \in Seq(S) /\ Head(todo) \in S
         /\ \A field : Pending(todo, field) => field = Head(todo) \/ Pending(Tail(todo), field)
<1>1. Tail(todo) \in Seq(S) /\ Head(todo) \in S
  OBVIOUS
<1>2. ASSUME NEW field, Pending(todo, field), field # Head(todo)
      PROVE  Pending(Tail(todo), field)
  <2>1. PICK i \in DOMAIN todo : todo[i] = field
    BY <1>2 DEF Pending
  <2>2. i \in 1 .. Len(todo) /\ i # 1
    BY <1>2, <2>1
  <2>3. i - 1 \in DOMAIN Tail(todo) /\ Tail(todo)[i - 1] = todo[i]
    BY <2>2
  <2> QED BY <2>1, <2>3 DEF Pending
<1> QED BY <1>1, <1>2

LEMMA AssignInductive ==
  ASSUME LockInv, NEW t \in Threads, Assign(t)
  PROVE  LockInv'
<1> DEFINE todo == thread[t].todo
           goal == thread[t].goal
           n == [thread[t] EXCEPT !.todo = Tail(todo)]
<1>1. /\ thread[t] \in ThreadState /\ ThreadInv(thread[t]) /\ thread[t].stage = "writing"
      /\ UNCHANGED <<lock, published, updates>> /\ updates \in 0 .. MaxUpdates
      /\ memory \in Store /\ caches \in [Formats -> Contents \cup {None}]
      /\ todo # << >> /\ thread' = [thread EXCEPT ![t] = n]
  BY ThreadFacts DEF Assign, At, Becomes, LockInv, TypeInv
<1>2. /\ todo \in Seq(StoreFields \cup Formats)
      /\ Tail(todo) \in Seq(StoreFields \cup Formats) /\ Head(todo) \in StoreFields \cup Formats
      /\ \A field : Pending(todo, field) => field = Head(todo) \/ Pending(Tail(todo), field)
  <2>1. todo \in Seq(StoreFields \cup Formats)
    BY <1>1 DEF ThreadState
  <2> QED BY <1>1, <2>1, PendingTail
<1>3. OnItsWay(thread[t])
  BY <1>1 DEF ThreadInv
<1>4. /\ goal \in Store /\ goal.engine.policies = goal.policies
      /\ goal.engine.policies \in Contents
  BY <1>3 DEF OnItsWay, Store, Engines
<1>5. /\ memory' \in Store /\ caches' \in [Formats -> Contents \cup {None}]
      /\ \A field \in StoreFields : Pending(Tail(todo), field) \/ memory'[field] = goal[field]
      /\ \A f \in Formats : Pending(Tail(todo), f) \/ caches'[f] \in {None, goal.engine.policies}
  <2>1. CASE Head(todo) \in Formats
    <3>1. caches' = [caches EXCEPT ![Head(todo)] = None] /\ memory' = memory
      BY <2>1 DEF Assign
    <3>2. Head(todo) \notin StoreFields
      BY <2>1 DEF Formats, StoreFields
    <3>3. caches' \in [Formats -> Contents \cup {None}]
      BY <1>1, <3>1
    <3> QED BY <1>1, <1>2, <1>3, <2>1, <3>1, <3>2, <3>3 DEF OnItsWay
  <2>2. CASE Head(todo) \notin Formats
    <3>1. /\ memory' = [memory EXCEPT ![Head(todo)] = goal[Head(todo)]] /\ caches' = caches
          /\ Head(todo) \in StoreFields
      BY <1>2, <2>2 DEF Assign
    <3>2. memory' \in Store
      BY <1>1, <1>4, <3>1 DEF Store, StoreFields
    <3>3. \A field \in StoreFields :
            memory'[field] = IF field = Head(todo) THEN goal[field] ELSE memory[field]
      BY <1>1, <3>1 DEF Store, StoreFields
    <3> QED BY <1>1, <1>2, <1>3, <2>2, <3>1, <3>2, <3>3 DEF OnItsWay
  <2> QED BY <2>1, <2>2
<1>6. n \in ThreadState
  BY <1>1, <1>2 DEF ThreadState
<1>7. /\ n.stage = "writing" /\ n.op = thread[t].op /\ n.since = thread[t].since
      /\ n.todo = Tail(todo) /\ n.goal = goal /\ n.reported = thread[t].reported
      /\ n.listing = thread[t].listing /\ n.outcome = thread[t].outcome
  BY <1>1 DEF ThreadState
<1>8. thread' \in [Threads -> ThreadState]
      /\ \A u \in Threads : thread'[u] = IF u = t THEN n ELSE thread[u]
  BY <1>1, <1>6 DEF LockInv, TypeInv
<1> HIDE DEF n
<1>9. HoldersInv'
  BY <1>1, <1>6, <1>7, SameHolders DEF Reading, Writing
<1>10. TypeInv'
  BY <1>1, <1>5, <1>8 DEF LockInv, TypeInv
<1>11. ASSUME NEW u \in Threads PROVE ThreadInv(thread[u])'
  <2>1. CASE u = t
    <3>1. OnItsWay(thread[u])'
      BY <1>4, <1>5, <1>7, <1>8, <2>1 DEF OnItsWay
    <3>2. n.reported = None /\ n.listing = None /\ n.goal # None /\ n.outcome = None
      BY <1>1, <1>7 DEF ThreadInv
    <3> QED BY <1>1, <1>7, <1>8, <2>1, <3>1, <3>2 DEF ThreadInv
  <2>2. CASE u # t
    <3>1. thread[u].stage \notin Reading \cup Writing
      BY <1>1, <2>2, WriterFacts DEF Writing
    <3>2. thread'[u] = thread[u] /\ ThreadInv(thread[u])
      BY <1>8, <2>2 DEF LockInv
    <3> QED BY <1>1, <3>1, <3>2 DEF ThreadInv, WholeAnswer, CurrentListing, Reading, Writing
  <2> QED BY <2>1, <2>2
<1>12. \E u \in Threads : thread'[u].stage = "writing"
  BY <1>7, <1>8
<1> QED BY <1>9, <1>10, <1>11, <1>12 DEF LockInv

(* An update without further assignments has reached its goal.             *)
LEMMA EndUpdateInductive ==
  ASSUME LockInv, NEW t \in Threads, EndUpdate(t)
  PROVE  LockInv'
<1> DEFINE n == [thread[t] EXCEPT !.stage = "answered", !.outcome = "done", !.goal = None,
                                  !.runtime = Runtime(memory), !.reported = Reported(memory)]
<1>1. /\ thread[t] \in ThreadState /\ ThreadInv(thread[t]) /\ thread[t].stage = "writing"
      /\ UNCHANGED <<memory, caches, updates>> /\ updates \in 0 .. MaxUpdates
      /\ memory \in Store /\ published \in Seq(Store) /\ Len(published) \in Nat
      /\ thread[t].todo = << >> /\ thread' = [thread EXCEPT ![t] = n]
      /\ published' = Append(published, memory) /\ lock' = [lock EXCEPT !.writer = None]
      /\ HoldersInv
  BY ThreadFacts DEF EndUpdate, At, Becomes, LockInv, TypeInv
<1>2. /\ lock.writer = t /\ lock.readers = {} /\ ~lock.poisoned
      /\ \A u \in Threads : u # t => thread[u].stage \notin Reading \cup Writing
  BY <1>1, WriterFacts DEF Writing
<1>3. /\ published' \in Seq(Store) /\ Len(published') = Len(published) + 1
      /\ published'[Len(published) + 1] = memory
      /\ \A i \in 1 .. Len(published) : published'[i] = published[i]
  BY <1>1
<1>4. /\ memory.engine.policies = memory.policies
      /\ \A f \in Formats : caches[f] \in {None, memory.engine.policies}
  <2>1. OnItsWay(thread[t])
    BY <1>1 DEF ThreadInv
  <2>2. \A field : ~Pending(<< >>, field)
    BY DEF Pending
  <2>3. \A field \in StoreFields : memory[field] = thread[t].goal[field]
    BY <1>1, <2>1, <2>2 DEF OnItsWay
  <2>4. memory.engine = thread[t].goal.engine /\ memory.policies = thread[t].goal.policies
    BY <2>3 DEF StoreFields
  <2> QED BY <1>1, <2>1, <2>2, <2>4 DEF OnItsWay
<1>5. Settled'
  BY <1>1, <1>3, <1>4 DEF Settled
<1>6. n \in ThreadState
  BY <1>1, ThreadFacts DEF ThreadState, Stages, Outcomes
<1>7. /\ n.stage = "answered" /\ n.op = thread[t].op /\ n.since = thread[t].since
      /\ n.todo = << >> /\ n.goal = None /\ n.listing = thread[t].listing /\ n.outcome = "done"
      /\ n.runtime = Runtime(memory) /\ n.reported = Reported(memory)
  BY <1>1 DEF ThreadState
<1>8. /\ thread' \in [Threads -> ThreadState]
      /\ \A u \in Threads : thread'[u] = IF u = t THEN n ELSE thread[u]
  BY <1>1, <1>6 DEF LockInv, TypeInv
<1> HIDE DEF n
<1>9. HoldersInv'
  <2>1. /\ lock'.readers = {} /\ lock'.writer = None /\ lock'.poisoned = FALSE
        /\ lock' \in [readers : SUBSET Threads, writer : Threads \cup {None}, poisoned : BOOLEAN]
    BY <1>1, <1>2 DEF HoldersInv
  <2> QED BY <1>1, <1>2, <1>6, <1>7, <2>1, LockAssumption, HoldersStep DEF Reading, Writing
<1>10. TypeInv'
  BY <1>1, <1>3, <1>8 DEF LockInv, TypeInv
<1>11. ASSUME NEW u \in Threads PROVE ThreadInv(thread[u])'
  <2>1. CASE u = t
    <3>1. n.since \in Nat /\ n.since <= Len(published) /\ n.listing = None
      BY <1>1, <1>7 DEF ThreadInv, ThreadState
    <3>2. Len(published) + 1 \in n.since .. Len(published')
      BY <1>1, <1>3, <3>1
    <3>3. WholeAnswer(thread[u])'
      BY <1>1, <1>3, <1>7, <1>8, <2>1, <3>2 DEF WholeAnswer
    <3>4. n.since <= Len(published')
      BY <1>1, <1>3, <3>1
    <3> QED BY <1>1, <1>7, <1>8, <2>1, <3>1, <3>3, <3>4, LockAssumption DEF ThreadInv, Outcomes
  <2>2. CASE u # t
    <3>1. /\ thread'[u] = thread[u] /\ ThreadInv(thread[u]) /\ thread[u] \in ThreadState
          /\ thread[u].stage \notin Reading \cup Writing
      BY <1>2, <1>8, <2>2, ThreadFacts
    <3>2. /\ thread[u].since \in Nat /\ thread[u].since <= Len(published')
          /\ thread[u].stage = "idle" \/ thread[u].since >= 1
      BY <1>1, <1>3, <3>1 DEF ThreadInv, ThreadState
    <3>3. ASSUME thread[u].since >= 1, NEW i \in thread[u].since .. Len(published)
          PROVE  i \in thread[u].since .. Len(published') /\ published'[i] = published[i]
      BY <1>1, <1>3, <3>2, <3>3
    <3>4. thread[u].since >= 1 /\ WholeAnswer(thread[u]) => WholeAnswer(thread[u])'
      BY <3>1, <3>3 DEF WholeAnswer
    <3>5. thread[u].since >= 1 /\ CurrentListing(thread[u]) => CurrentListing(thread[u])'
      BY <3>1, <3>3 DEF CurrentListing
    <3> QED BY <1>1, <3>1, <3>2, <3>4, <3>5 DEF ThreadInv, Reading, Writing
  <2> QED BY <2>1, <2>2
<1> QED BY <1>5, <1>9, <1>10, <1>11 DEF LockInv

LEMMA PanicInductive ==
  ASSUME LockInv, NEW t \in Threads, Panic(t)
  PROVE  LockInv'
<1> DEFINE n == [thread[t] EXCEPT !.stage = "answered", !.outcome = "panicked",
                                  !.todo = << >>, !.goal = None]
<1>1. /\ thread[t].stage \in {"reading", "listing", "checking", "writing"} /\ Ends(t, "panicked")
      /\ UNCHANGED <<memory, caches, published, updates>> /\ updates \in 0 .. MaxUpdates
      /\ lock' = [ readers |-> lock.readers \ {t},
                   writer |-> IF lock.writer = t THEN None ELSE lock.writer,
                   poisoned |-> lock.poisoned \/ lock.writer = t ]
      /\ HoldersInv
  BY ThreadFacts DEF Panic, LockInv
<1>2. thread' = [thread EXCEPT ![t] = n] /\ n \in ThreadState /\ n.stage = "answered" /\ ThreadInv(n)
  BY <1>1, EndsKeeps DEF Outcomes
<1> HIDE DEF n
<1>3. /\ lock' \in [readers : SUBSET Threads, writer : Threads \cup {None}, poisoned : BOOLEAN]
      /\ lock'.readers = lock.readers \ {t}
      /\ lock'.writer = IF lock.writer = t THEN None ELSE lock.writer
      /\ lock.poisoned => lock'.poisoned
      /\ lock'.poisoned => lock.poisoned \/ lock.writer = t
      /\ lock.writer = t => lock'.poisoned
  BY <1>1 DEF HoldersInv
<1>4. HoldersInv'
  <2>1. t \notin lock'.readers /\ lock'.writer # t /\ n.stage \notin Reading \cup Writing
    BY <1>2, <1>3, LockAssumption DEF Reading, Writing
  <2>2. \A u \in Threads : u # t => /\ u \in lock'.readers <=> u \in lock.readers
                                   /\ lock'.writer = u <=> lock.writer = u
    BY <1>3, LockAssumption
  <2>3. lock'.writer # None => lock'.readers = {}
    BY <1>1, <1>3 DEF HoldersInv
  <2>4. thread[t].stage \in Reading \cup Writing
    BY <1>1 DEF Reading, Writing
  <2>5. lock'.poisoned => lock'.writer = None /\ lock'.readers = {}
    BY <1>1, <1>3, <2>4, LockAssumption DEF HoldersInv
  <2> QED BY <1>2, <1>3, <2>1, <2>2, <2>3, <2>5, HoldersStep
<1>5. thread[t].stage = "writing" => lock'.poisoned
  BY <1>1, <1>3 DEF HoldersInv, Writing
<1> QED BY <1>1, <1>2, <1>3, <1>4, <1>5, QuietStep

LEMMA ProbedInv ==
  ASSUME LockInv, NEW r \in ThreadState, r.stage = "answered", r.since = Len(published),
         r.goal = None, r.todo = << >>, r.reported = None, r.listing = None, r.outcome # None
  PROVE  ThreadInv(r)
<1>1. Len(published) \in Nat /\ Len(published) >= 1
  BY DEF LockInv, TypeInv
<1> QED BY <1>1 DEF ThreadInv

LEMMA ProbeReadinessInductive ==
  ASSUME LockInv, NEW t \in Threads, ProbeReadiness(t)
  PROVE  LockInv'
<1>1. PICK outcome \in {"ready", "not ready"} :
        thread' = [thread EXCEPT ![t] = [Idle EXCEPT !.stage = "answered", !.since = Len(published),
                                                     !.outcome = outcome]]
  BY DEF ProbeReadiness, Becomes
<1>2. /\ thread[t].stage = "idle" /\ UNCHANGED <<memory, caches, lock, published, updates>>
      /\ updates \in 0 .. MaxUpdates
  BY ThreadFacts DEF ProbeReadiness, At
<1> DEFINE n == [Idle EXCEPT !.stage = "answered", !.since = Len(published), !.outcome = outcome]
<1>3. n \in ThreadState
  <2>1. Idle \in ThreadState /\ outcome \in Outcomes /\ "answered" \in Stages
    BY IdleType DEF Stages, Outcomes
  <2>2. Len(published) \in Nat
    BY ThreadFacts
  <2> QED BY <2>1, <2>2 DEF ThreadState
<1>4. /\ n.stage = "answered" /\ n.since = Len(published) /\ n.goal = None /\ n.todo = << >>
      /\ n.reported = None /\ n.listing = None /\ n.outcome # None
  <2>1. outcome # None
    BY LockAssumption DEF Outcomes
  <2> QED BY <2>1 DEF Idle
<1> HIDE DEF n
<1>5. ThreadInv(n)
  BY <1>3, <1>4, ProbedInv
<1>6. thread' = [thread EXCEPT ![t] = n]
  BY <1>1 DEF n
<1>7. HoldersInv'
  BY <1>2, <1>3, <1>4, <1>6, SameHolders DEF Reading, Writing
<1> QED BY <1>2, <1>3, <1>5, <1>6, <1>7, QuietStep

LEMMA FinishInductive ==
  ASSUME LockInv, NEW t \in Threads, Finish(t)
  PROVE  LockInv'
<1>1. /\ thread[t].stage = "answered" /\ UNCHANGED <<memory, caches, lock, published, updates>>
      /\ updates \in 0 .. MaxUpdates /\ thread' = [thread EXCEPT ![t] = Idle]
  BY ThreadFacts DEF Finish, At, Becomes
<1>2. Idle \in ThreadState /\ Idle.stage = "idle"
  BY DEF Idle, ThreadState, Stages
<1>3. ThreadInv(Idle)
  BY IdleInv, ThreadFacts
<1>4. HoldersInv'
  BY <1>1, <1>2, SameHolders DEF Reading, Writing
<1> QED BY <1>1, <1>2, <1>3, <1>4, QuietStep

LEMMA LockInductive == LockInv /\ [LockNext]_lockVars => LockInv'
<1> SUFFICES ASSUME LockInv, [LockNext]_lockVars PROVE LockInv'
  OBVIOUS
<1>1. ASSUME NEW t \in Threads, Ask(t) \/ Proceed(t) \/ Panic(t) \/ ProbeReadiness(t)
      PROVE  LockInv'
  <2>1. CASE Ask(t)
    BY <2>1, AskInductive
  <2>2. CASE Panic(t)
    BY <2>2, PanicInductive
  <2>3. CASE ProbeReadiness(t)
    BY <2>3, ProbeReadinessInductive
  <2>4. CASE Refuse(t) \/ AcquireRead(t) \/ CheckUpload(t) \/ PrepareUpload(t) \/ AcquireWrite(t)
    BY <2>4, WaitingInductive
  <2>5. CASE ReadRuntime(t) \/ ReadMetadata(t) \/ LookUpHit(t) \/ LookUpMiss(t) \/ ListPolicies(t)
    BY <2>5, ReadingInductive
  <2>6. CASE PutListing(t)
    BY <2>6, PutListingInductive
  <2>7. CASE RejectUpdate(t) \/ AcceptUpdate(t)
    BY <2>7, CheckingInductive
  <2>8. CASE Assign(t)
    BY <2>8, AssignInductive
  <2>9. CASE EndUpdate(t)
    BY <2>9, EndUpdateInductive
  <2>10. CASE Finish(t)
    BY <2>10, FinishInductive
  <2> QED BY <1>1, <2>1, <2>2, <2>3, <2>4, <2>5, <2>6, <2>7, <2>8, <2>9, <2>10 DEF Proceed
<1>2. CASE UNCHANGED lockVars
  <2>1. UNCHANGED <<memory, caches, lock, thread, published, updates>>
    BY <1>2 DEF lockVars
  <2>2. TypeInv' /\ HoldersInv' /\ (Settled => Settled')
    BY <2>1 DEF LockInv, TypeInv, HoldersInv, Settled
  <2>3. \A t \in Threads : ThreadInv(thread[t])'
    BY <2>1 DEF LockInv, ThreadInv, OnItsWay, WholeAnswer, CurrentListing
  <2> QED BY <2>1, <2>2, <2>3 DEF LockInv
<1> QED BY <1>1, <1>2 DEF LockNext

-----------------------------------------------------------------------------
(* The theorems.                                                           *)

(* The inductive invariant holds in every state: SharedPolicyStore is      *)
(* settled whenever no update has it.                                      *)
THEOREM LockInvariance == LockSpec => []LockInv
BY LockInitially, LockInductive, PTL DEF LockSpec

(* Whatever the handlers do, the RwLock is held by readers or by one       *)
(* writer, and by exactly the threads that are at work in the store.       *)
THEOREM LockTypeCorrectness == LockSpec => []LockTypeOK
<1>1. LockInv => LockTypeOK
  <2> SUFFICES ASSUME LockInv PROVE LockTypeOK
    OBVIOUS
  <2>1. TypeInv /\ HoldersInv /\ \A t \in Threads : ThreadInv(thread[t])
    BY DEF LockInv
  <2>2. lock.poisoned \in BOOLEAN /\ lock.readers \subseteq Threads
    BY <2>1 DEF HoldersInv
  <2>3. lock.readers = Holders({"reading", "readingRest", "listing", "caching"})
    BY <2>1, <2>2 DEF HoldersInv, Holders, Reading
  <2>4. IF lock.writer = None THEN Holders({"checking", "writing"}) = {}
        ELSE Holders({"checking", "writing"}) = {lock.writer} /\ lock.readers = {}
    BY <2>1, LockAssumption DEF HoldersInv, Holders, Writing
  <2>5. \A t \in Threads : /\ At(t, "writing") <=> thread[t].goal # None
                           /\ thread[t].todo # << >> => At(t, "writing")
                           /\ thread[t].outcome # None <=> At(t, "answered")
    BY <2>1 DEF ThreadInv, At
  <2> QED BY <2>1, <2>2, <2>3, <2>4, <2>5 DEF LockTypeOK, TypeInv
<1> QED BY <1>1, LockInvariance, PTL

(* authorize, version, get_status and the uploads answer from one state    *)
(* of the store, no older than the request.                                *)
THEOREM WholeAnswers == LockSpec => []AnswersAreWhole
<1>1. LockInv => AnswersAreWhole
  BY DEF LockInv, ThreadInv, WholeAnswer, AnswersAreWhole
<1> QED BY <1>1, LockInvariance, PTL

(* The two sections of the cache mutex in list_policies do not let a       *)
(* listing outlive the policies it was made from.                          *)
THEOREM FreshListings == LockSpec => []ListingsAreCurrent
<1>1. LockInv => ListingsAreCurrent
  <2> SUFFICES ASSUME LockInv PROVE ListingsAreCurrent
    OBVIOUS
  <2>1. ASSUME lock.writer = None, ~lock.poisoned
        PROVE  \A f \in Formats : caches[f] \in {None, memory.engine.policies}
    <3>1. \A t \in Threads : thread[t].stage # "writing"
      BY <2>1, LockAssumption DEF LockInv, HoldersInv, Writing
    <3> QED BY <2>1, <3>1 DEF LockInv, Settled
  <2>2. ASSUME NEW t \in Threads, At(t, "answered"), thread[t].listing # None
        PROVE  \E i \in thread[t].since .. Len(published) :
                 thread[t].listing = published[i].engine.policies
    BY <2>2 DEF LockInv, ThreadInv, CurrentListing, At
  <2> QED BY <2>1, <2>2 DEF ListingsAreCurrent
<1> QED BY <1>1, LockInvariance, PTL

(* Once a write guard was dropped by a panic, lock_poisoned is all that    *)
(* a handler answers and readyz never finds the store ready.               *)
THEOREM PoisonClosure == LockSpec => PoisonedStoreIsClosed
<1>1. ASSUME LockInv, LockNext, lock.poisoned
      PROVE  /\ UNCHANGED <<memory, caches>>
             /\ \A t \in Threads : At(t, "answered")' /\ ~At(t, "answered")
                  => thread'[t].outcome \notin {"done", "ready"}
  <2>1. PICK u \in Threads : Ask(u) \/ Proceed(u) \/ Panic(u) \/ ProbeReadiness(u)
    BY <1>1 DEF LockNext
  <2>2. thread[u].stage \notin Reading \cup Writing
    BY <1>1, LockAssumption DEF LockInv, HoldersInv
  <2>3. \/ Ask(u) \/ Refuse(u) \/ PrepareUpload(u) \/ Finish(u) \/ ProbeReadiness(u)
    BY <1>1, <2>1, <2>2 DEF Proceed, Panic, AcquireRead, CheckUpload, ReadRuntime, ReadMetadata,
       LookUpHit, LookUpMiss, ListPolicies, PutListing, AcquireWrite, RejectUpdate, AcceptUpdate,
       Assign, EndUpdate, At, Reading, Writing
  <2>4. UNCHANGED <<memory, caches>>
    BY <2>3 DEF Ask, Refuse, PrepareUpload, Finish, ProbeReadiness
  <2>5. thread'[u].stage = "answered" => thread'[u].outcome \notin {"done", "ready"}
    <3>1. thread \in [Threads -> ThreadState] /\ thread[u] \in ThreadState
      BY <1>1, ThreadFacts DEF LockInv, TypeInv
    <3>2. \A n : Becomes(u, n) => thread'[u] = n
      BY <3>1 DEF Becomes
    <3>3. Idle.stage = "idle"
      BY DEF Idle
    <3>4. CASE Ask(u)
      <4>1. \A stage, op, since :
              [Idle EXCEPT !.stage = stage, !.op = op, !.since = since].stage = stage
        BY DEF Idle
      <4>2. PICK op \in Reads \cup Updates, stage \in {"wantsRead", "wantsWrite"} :
              Becomes(u, [Idle EXCEPT !.stage = stage, !.op = op, !.since = Len(published)])
        BY <3>4 DEF Ask
      <4>3. thread'[u].stage = stage
        BY <3>1, <4>1, <4>2 DEF Becomes
      <4> QED BY <4>3
    <3>5. CASE Refuse(u) \/ PrepareUpload(u)
      <4>1. \/ Goes(u, "wantsWrite")
            \/ \E outcome \in {"refused", "rejected"} : Ends(u, outcome)
        BY <3>5 DEF Refuse, PrepareUpload
      <4>2. CASE Goes(u, "wantsWrite")
        BY <3>1, <3>2, <4>2 DEF Goes, ThreadState
      <4>3. ASSUME NEW outcome \in {"refused", "rejected"}, Ends(u, outcome)
            PROVE  thread'[u].outcome = outcome
        BY <3>1, <3>2, <4>3 DEF Ends, ThreadState
      <4> QED BY <4>1, <4>2, <4>3
    <3>6. CASE Finish(u)
      BY <3>2, <3>3, <3>6 DEF Finish
    <3>7. CASE ProbeReadiness(u)
      <4>1. Becomes(u, [Idle EXCEPT !.stage = "answered", !.since = Len(published),
                                    !.outcome = "not ready"])
        BY <1>1, <3>7 DEF ProbeReadiness
      <4>2. [Idle EXCEPT !.stage = "answered", !.since = Len(published),
                         !.outcome = "not ready"].outcome = "not ready"
        BY DEF Idle
      <4>3. thread'[u].outcome = "not ready"
        BY <3>1, <4>1, <4>2 DEF Becomes
      <4> QED BY <4>3
    <3> QED BY <2>3, <3>4, <3>5, <3>6, <3>7
  <2>6. ASSUME NEW t \in Threads, thread'[t].stage = "answered", thread[t].stage # "answered"
        PROVE  thread'[t].outcome \notin {"done", "ready"}
    <3>1. CASE t = u
      BY <2>5, <2>6, <3>1
    <3>2. CASE t # u
      <4>1. \E n : thread' = [thread EXCEPT ![u] = n]
        BY <2>3 DEF Ask, Refuse, PrepareUpload, Finish, ProbeReadiness, Goes, Ends, Becomes
      <4>2. thread'[t] = thread[t]
        BY <1>1, <3>2, <4>1 DEF LockInv, TypeInv
      <4> QED BY <2>6, <4>2
    <3> QED BY <3>1, <3>2
  <2> QED BY <2>4, <2>6 DEF At
<1>2. LockInv /\ [LockNext]_lockVars =>
        [lock.poisoned =>
           /\ UNCHANGED <<memory, caches>>
           /\ \A t \in Threads : At(t, "answered")' /\ ~At(t, "answered")
                => thread'[t].outcome \notin {"done", "ready"}]_lockVars
  BY <1>1
<1> QED BY <1>2, LockInvariance, PTL DEF LockSpec, PoisonedStoreIsClosed

-----------------------------------------------------------------------------
(* The lock makes every method one step.  A read is over when its answer   *)
(* is complete, since it holds the lock until then; an update when its     *)
(* last assignment is made, since nobody looks before.                     *)

(* What else is known of a request: the method that its stage belongs to,  *)
(* and that an update works towards a successor of the settled store.      *)
MethodInv(r) ==
  /\ r.stage = "idle" => r.op = None
  /\ r.stage \in {"wantsRead", "reading"} => r.op \in Reads \cup Uploads
  /\ r.stage = "readingRest" => r.op = "snapshot"
  /\ r.runtime # None => r.stage \in {"readingRest", "answered"}
  /\ r.stage = "writing" => r.goal \in Successors(Settlement, r.op)

SerialInv == LockInv /\ \A t \in Threads : MethodInv(thread[t])

InRequest(r) == r.stage \notin {"idle", "answered"}

LEMMA SerialFacts ==
  ASSUME SerialInv, NEW t \in Threads
  PROVE  /\ thread[t] \in ThreadState /\ ThreadInv(thread[t]) /\ MethodInv(thread[t])
         /\ thread \in [Threads -> ThreadState]
BY ThreadFacts DEF SerialInv, LockInv, TypeInv

(* What a thread shows of its next record.                                 *)
LEMMA MappedThread ==
  ASSUME SerialInv, NEW t \in Threads, NEW n, thread' = [thread EXCEPT ![t] = n]
  PROVE  /\ Progress' = [Progress EXCEPT ![t] =
               IF n.stage \in {"idle", "answered"} THEN n.stage ELSE "asked"]
         /\ Requested' = [Requested EXCEPT ![t] = n.op]
         /\ Answered' = [Answered EXCEPT ![t] = IF n.stage = "answered" THEN AnswerOf(n) ELSE None]
         /\ Progress[t] = IF thread[t].stage \in {"idle", "answered"} THEN thread[t].stage ELSE "asked"
         /\ Requested[t] = thread[t].op
<1>1. \A u \in Threads : thread'[u] = IF u = t THEN n ELSE thread[u]
  BY SerialFacts
<1>2. Progress' = [Progress EXCEPT ![t] = IF n.stage \in {"idle", "answered"} THEN n.stage ELSE "asked"]
  BY <1>1 DEF Progress
<1>3. Requested' = [Requested EXCEPT ![t] = n.op]
  <2>1. \A u \in Threads : thread'[u].op = IF u = t THEN n.op ELSE thread[u].op
    BY <1>1
  <2> QED BY <2>1 DEF Requested
<1>4. Answered' = [Answered EXCEPT ![t] = IF n.stage = "answered" THEN AnswerOf(n) ELSE None]
  BY <1>1 DEF Answered, At, AnswerOf
<1> QED BY <1>2, <1>3, <1>4 DEF Progress, Requested

(* The step of one thread keeps what is known of the others.               *)
LEMMA OthersKeep ==
  ASSUME SerialInv, LockInv', NEW t \in Threads, NEW n, thread' = [thread EXCEPT ![t] = n],
         UNCHANGED published, MethodInv(n)
  PROVE  SerialInv'
<1>1. ASSUME NEW u \in Threads PROVE MethodInv(thread[u])'
  <2>1. MethodInv(thread'[u])
    <3>1. thread'[u] = IF u = t THEN n ELSE thread[u]
      BY SerialFacts
    <3> QED BY <3>1, SerialFacts
  <2> QED BY <2>1 DEF MethodInv, Settlement, Successors
<1> QED BY <1>1 DEF SerialInv

(* A step within a request is invisible.                                   *)
LEMMA InvisibleStep ==
  ASSUME SerialInv, LockInv', NEW t \in Threads, NEW n, thread' = [thread EXCEPT ![t] = n],
         UNCHANGED published, lock'.poisoned = lock.poisoned,
         InRequest(thread[t]), InRequest(n), n.op = thread[t].op, MethodInv(n)
  PROVE  SerialInv' /\ UNCHANGED Serial!serialVars
<1>1. SerialInv'
  BY OthersKeep
<1>2. /\ Progress' = [Progress EXCEPT ![t] = "asked"] /\ Progress[t] = "asked"
      /\ Requested' = [Requested EXCEPT ![t] = thread[t].op] /\ Requested[t] = thread[t].op
      /\ Answered' = [Answered EXCEPT ![t] = None]
  <2>1. n.stage \notin {"idle", "answered"} /\ thread[t].stage \notin {"idle", "answered"}
    BY DEF InRequest
  <2>2. /\ Progress' = [Progress EXCEPT ![t] =
               IF n.stage \in {"idle", "answered"} THEN n.stage ELSE "asked"]
        /\ Requested' = [Requested EXCEPT ![t] = n.op]
        /\ Answered' = [Answered EXCEPT ![t] = IF n.stage = "answered" THEN AnswerOf(n) ELSE None]
        /\ Progress[t] = IF thread[t].stage \in {"idle", "answered"} THEN thread[t].stage ELSE "asked"
        /\ Requested[t] = thread[t].op
    BY MappedThread
  <2> QED BY <2>1, <2>2
<1>3. Answered[t] = None
  BY DEF Answered, At, InRequest
<1>4. Progress' = Progress
  BY <1>2 DEF Progress
<1>5. Requested' = Requested
  BY <1>2 DEF Requested
<1>6. Answered' = Answered
  BY <1>2, <1>3 DEF Answered
<1> QED BY <1>1, <1>4, <1>5, <1>6 DEF Serial!serialVars, Settlement

(* A step that ends a request with an answer.                              *)
LEMMA AnsweringStep ==
  ASSUME SerialInv, NEW t \in Threads, NEW n, thread' = [thread EXCEPT ![t] = n],
         n.stage = "answered", n.op = thread[t].op
  PROVE  /\ Serial!Answers(t, AnswerOf(n))
         /\ Requested[t] = thread[t].op
         /\ Progress[t] = IF thread[t].stage \in {"idle", "answered"} THEN thread[t].stage ELSE "asked"
<1>1. /\ Progress' = [Progress EXCEPT ![t] =
             IF n.stage \in {"idle", "answered"} THEN n.stage ELSE "asked"]
      /\ Requested' = [Requested EXCEPT ![t] = n.op]
      /\ Answered' = [Answered EXCEPT ![t] = IF n.stage = "answered" THEN AnswerOf(n) ELSE None]
      /\ Progress[t] = IF thread[t].stage \in {"idle", "answered"} THEN thread[t].stage ELSE "asked"
      /\ Requested[t] = thread[t].op
  BY MappedThread
<1>2. Requested' = Requested
  <2>1. n.op = Requested[t]
    BY <1>1
  <2>2. [Requested EXCEPT ![t] = Requested[t]] = Requested
    BY DEF Requested
  <2> QED BY ONLY <1>1, <2>1, <2>2
<1>3. /\ Progress' = [Progress EXCEPT ![t] = "answered"]
      /\ Answered' = [Answered EXCEPT ![t] = AnswerOf(n)]
  BY <1>1
<1>4. Serial!Answers(t, AnswerOf(n))
  BY ONLY <1>2, <1>3 DEF Serial!Answers
<1> QED BY <1>1, <1>4

LEMMA AnsweredKeep ==
  ASSUME NEW r, r.stage = "answered"
  PROVE  MethodInv(r)
BY DEF MethodInv

(* Ends leaves nothing of an unfinished answer behind.                     *)
LEMMA FailureStep ==
  ASSUME SerialInv, LockInv', NEW t \in Threads, NEW outcome \in Outcomes, Ends(t, outcome),
         UNCHANGED published,
         thread[t].stage \notin {"idle", "answered", "readingRest", "caching"}
  PROVE  /\ SerialInv'
         /\ Serial!Answers(t, Failure(outcome))
         /\ Progress[t] = "asked" /\ Requested[t] = thread[t].op /\ UNCHANGED Settlement
<1> DEFINE n == [thread[t] EXCEPT !.stage = "answered", !.outcome = outcome,
                                  !.todo = << >>, !.goal = None]
<1>1. /\ thread[t] \in ThreadState /\ ThreadInv(thread[t]) /\ MethodInv(thread[t])
      /\ thread' = [thread EXCEPT ![t] = n]
  BY SerialFacts DEF Ends, Becomes
<1>2. /\ n.stage = "answered" /\ n.op = thread[t].op /\ n.outcome = outcome
      /\ n.runtime = thread[t].runtime /\ n.reported = thread[t].reported
      /\ n.listing = thread[t].listing
  BY <1>1 DEF ThreadState
<1>3. n.runtime = None /\ n.reported = None /\ n.listing = None
  BY <1>1, <1>2 DEF ThreadInv, MethodInv
<1> HIDE DEF n
<1>4. AnswerOf(n) = Failure(outcome)
  BY <1>2, <1>3 DEF AnswerOf, Failure
<1> QED BY <1>1, <1>2, <1>4, AnsweredKeep, OthersKeep, AnsweringStep DEF Settlement

(* Steps that only change the stage are invisible.                         *)
LEMMA GoesInvisible ==
  ASSUME SerialInv, LockInv', NEW t \in Threads, NEW stage \in Stages, Goes(t, stage),
         stage \notin {"idle", "answered", "readingRest", "writing"},
         thread[t].stage \notin {"idle", "answered", "readingRest"},
         stage \in {"wantsRead", "reading"} => thread[t].op \in Reads \cup Uploads,
         UNCHANGED published, lock'.poisoned = lock.poisoned
  PROVE  SerialInv' /\ UNCHANGED Serial!serialVars
<1> DEFINE n == [thread[t] EXCEPT !.stage = stage]
<1>1. /\ thread' = [thread EXCEPT ![t] = n] /\ n.stage = stage
      /\ n.op = thread[t].op /\ n.runtime = thread[t].runtime
  BY GoesFacts DEF SerialInv
<1> HIDE DEF n
<1>2. MethodInv(n) /\ InRequest(n) /\ InRequest(thread[t])
  BY <1>1, SerialFacts DEF MethodInv, InRequest
<1> QED BY <1>1, <1>2, InvisibleStep

(* Nobody but a panicking writer poisons the lock.                         *)
LEMMA PoisonKept ==
  ASSUME SerialInv, NEW t \in Threads,
         \/ UNCHANGED lock \/ Released(t)
         \/ lock' = [lock EXCEPT !.readers = @ \cup {t}]
         \/ lock' = [lock EXCEPT !.writer = t] \/ lock' = [lock EXCEPT !.writer = None]
  PROVE  lock'.poisoned = lock.poisoned
BY DEF SerialInv, LockInv, HoldersInv, Released

LEMMA WithinRequest ==
  ASSUME SerialInv, LockInv', NEW t \in Threads,
         \/ AcquireRead(t) \/ CheckUpload(t) \/ ReadRuntime(t) \/ LookUpMiss(t) \/ ListPolicies(t)
         \/ AcquireWrite(t) \/ AcceptUpdate(t) \/ Assign(t)
  PROVE  SerialInv' /\ UNCHANGED Serial!serialVars
<1>1. /\ thread[t] \in ThreadState /\ ThreadInv(thread[t]) /\ MethodInv(thread[t])
      /\ UNCHANGED published /\ LockInv
  BY SerialFacts DEF SerialInv, AcquireRead, CheckUpload, ReadRuntime, LookUpMiss, ListPolicies,
     AcquireWrite, AcceptUpdate, Assign
<1>2. lock'.poisoned = lock.poisoned
  BY PoisonKept DEF AcquireRead, CheckUpload, ReadRuntime, LookUpMiss, ListPolicies, AcquireWrite,
     AcceptUpdate, Assign
<1>3. CASE AcquireRead(t) \/ CheckUpload(t) \/ LookUpMiss(t) \/ AcquireWrite(t)
  <2>1. CASE AcquireRead(t)
    BY <1>1, <1>2, <2>1, GoesInvisible DEF AcquireRead, At, MethodInv, Stages
  <2>2. CASE CheckUpload(t)
    BY <1>1, <1>2, <2>2, GoesInvisible DEF CheckUpload, At, Stages
  <2>3. CASE LookUpMiss(t)
    BY <1>1, <1>2, <2>3, GoesInvisible DEF LookUpMiss, At, Stages
  <2>4. CASE AcquireWrite(t)
    BY <1>1, <1>2, <2>4, GoesInvisible DEF AcquireWrite, At, Stages
  <2> QED BY <1>3, <2>1, <2>2, <2>3, <2>4
<1>4. CASE ReadRuntime(t)
  <2> DEFINE n == [thread[t] EXCEPT !.stage = "readingRest", !.runtime = Runtime(memory)]
  <2>1. /\ thread[t].stage = "reading" /\ thread[t].op = "snapshot"
        /\ thread' = [thread EXCEPT ![t] = n]
    BY <1>4 DEF ReadRuntime, At, Becomes
  <2>2. n.stage = "readingRest" /\ n.op = thread[t].op
    BY <1>1 DEF ThreadState
  <2> HIDE DEF n
  <2>3. MethodInv(n) /\ InRequest(n) /\ InRequest(thread[t])
    BY <2>1, <2>2 DEF MethodInv, InRequest
  <2> QED BY <1>1, <1>2, <2>1, <2>2, <2>3, InvisibleStep
<1>5. CASE ListPolicies(t)
  <2> DEFINE n == [thread[t] EXCEPT !.stage = "caching", !.listing = memory.engine.policies]
  <2>1. thread[t].stage = "listing" /\ thread' = [thread EXCEPT ![t] = n]
    BY <1>5 DEF ListPolicies, At, Becomes
  <2>2. n.stage = "caching" /\ n.op = thread[t].op /\ n.runtime = thread[t].runtime
    BY <1>1 DEF ThreadState
  <2> HIDE DEF n
  <2>3. MethodInv(n) /\ InRequest(n) /\ InRequest(thread[t])
    BY <1>1, <2>1, <2>2 DEF MethodInv, InRequest
  <2> QED BY <1>1, <1>2, <2>1, <2>2, <2>3, InvisibleStep
<1>6. CASE AcceptUpdate(t)
  <2>1. PICK d \in Documents :
          Becomes(t, [thread[t] EXCEPT !.stage = "writing", !.todo = Assignments(thread[t].op),
                                       !.goal = Updated(memory, thread[t].op, d)])
    BY <1>6 DEF AcceptUpdate
  <2> DEFINE goal == Updated(memory, thread[t].op, d)
             todo == Assignments(thread[t].op)
             n == [thread[t] EXCEPT !.stage = "writing", !.todo = todo, !.goal = goal]
  <2>2. thread[t].stage = "checking" /\ thread' = [thread EXCEPT ![t] = n]
    BY <1>6, <2>1 DEF AcceptUpdate, At, Becomes
  <2>3. memory = Settlement
    BY <1>1, <2>2, WriterFacts DEF Settled, Settlement, Writing
  <2>4. goal \in Successors(Settlement, thread[t].op)
    BY <2>3 DEF Successors
  <2> HIDE DEF goal, todo
  <2>5. n.stage = "writing" /\ n.op = thread[t].op /\ n.runtime = thread[t].runtime /\ n.goal = goal
    BY <1>1 DEF ThreadState
  <2> HIDE DEF n
  <2>6. MethodInv(n) /\ InRequest(n) /\ InRequest(thread[t])
    BY <1>1, <2>2, <2>4, <2>5 DEF MethodInv, InRequest
  <2> QED BY <1>1, <1>2, <2>2, <2>5, <2>6, InvisibleStep
<1>7. CASE Assign(t)
  <2> DEFINE n == [thread[t] EXCEPT !.todo = Tail(thread[t].todo)]
  <2>1. thread[t].stage = "writing" /\ thread' = [thread EXCEPT ![t] = n]
    BY <1>7 DEF Assign, At, Becomes
  <2>2. /\ n.stage = thread[t].stage /\ n.op = thread[t].op /\ n.runtime = thread[t].runtime
        /\ n.goal = thread[t].goal
    BY <1>1 DEF ThreadState
  <2> HIDE DEF n
  <2>3. MethodInv(n) /\ InRequest(n) /\ InRequest(thread[t])
    BY <1>1, <2>1, <2>2 DEF MethodInv, InRequest
  <2> QED BY <1>1, <1>2, <2>1, <2>2, <2>3, InvisibleStep
<1> QED BY <1>3, <1>4, <1>5, <1>6, <1>7

(* Requests that end without an effect.                                    *)
LEMMA WithoutEffect ==
  ASSUME SerialInv, LockInv', NEW t \in Threads,
         Refuse(t) \/ PrepareUpload(t) \/ RejectUpdate(t) \/ Panic(t)
  PROVE  /\ SerialInv'
         /\ \/ Serial!Refuse(t) \/ Serial!Reject(t) \/ Serial!Panic(t)
            \/ UNCHANGED Serial!serialVars
<1>1. /\ thread[t] \in ThreadState /\ ThreadInv(thread[t]) /\ MethodInv(thread[t]) /\ LockInv
  BY SerialFacts DEF SerialInv
<1>2. CASE Refuse(t)
  <2>1. /\ thread[t].stage \in {"wantsRead", "wantsWrite"} /\ Ends(t, "refused")
        /\ UNCHANGED <<published, lock>> /\ lock.poisoned
    BY <1>2 DEF Refuse, At
  <2>2. /\ SerialInv' /\ Serial!Answers(t, Failure("refused"))
        /\ Progress[t] = "asked" /\ UNCHANGED Settlement
    BY <2>1, FailureStep DEF Outcomes
  <2> QED BY <2>1, <2>2 DEF Serial!Refuse
<1>3. CASE PrepareUpload(t)
  <2>1. /\ thread[t].stage = "preparing" /\ UNCHANGED <<published, lock>>
        /\ thread[t].op \in Updates
    BY <1>1, <1>3 DEF PrepareUpload, At, ThreadInv
  <2>2. CASE Goes(t, "wantsWrite")
    BY <2>1, <2>2, GoesInvisible DEF Stages
  <2>3. CASE Ends(t, "rejected")
    <3>1. /\ SerialInv' /\ Serial!Answers(t, Failure("rejected"))
          /\ Progress[t] = "asked" /\ Requested[t] = thread[t].op /\ UNCHANGED Settlement
      BY <2>1, <2>3, FailureStep DEF Outcomes
    <3> QED BY <2>1, <3>1 DEF Serial!Reject
  <2> QED BY <1>3, <2>2, <2>3 DEF PrepareUpload
<1>4. CASE RejectUpdate(t)
  <2>1. /\ thread[t].stage = "checking" /\ UNCHANGED published /\ Ends(t, "rejected")
        /\ thread[t].op \in Updates
    BY <1>1, <1>4 DEF RejectUpdate, At, ThreadInv
  <2>2. lock'.poisoned = lock.poisoned
    BY <1>4, PoisonKept DEF RejectUpdate
  <2>3. /\ SerialInv' /\ Serial!Answers(t, Failure("rejected"))
        /\ Progress[t] = "asked" /\ Requested[t] = thread[t].op /\ UNCHANGED Settlement
    BY <2>1, FailureStep DEF Outcomes
  <2> QED BY <2>1, <2>2, <2>3 DEF Serial!Reject
<1>5. CASE Panic(t)
  <2>1. /\ thread[t].stage \in {"reading", "listing", "checking", "writing"}
        /\ UNCHANGED published /\ Ends(t, "panicked")
        /\ lock'.poisoned = (lock.poisoned \/ lock.writer = t)
    BY <1>5 DEF Panic
  <2>2. /\ SerialInv' /\ Serial!Answers(t, Failure("panicked"))
        /\ Progress[t] = "asked" /\ Requested[t] = thread[t].op /\ UNCHANGED Settlement
    BY <2>1, FailureStep DEF Outcomes
  <2>3. CASE lock.writer = t
    <3>1. thread[t].op \in Updates
      BY <1>1, <2>3 DEF LockInv, HoldersInv, Writing, ThreadInv
    <3>2. lock'.poisoned = TRUE
      BY <2>1, <2>3
    <3> QED BY <2>2, <3>1, <3>2 DEF Serial!Panic
  <2>4. CASE lock.writer # t
    <3>1. lock'.poisoned = lock.poisoned
      BY <1>1, <2>1, <2>4 DEF LockInv, HoldersInv
    <3> QED BY <2>2, <3>1 DEF Serial!Panic
  <2> QED BY <2>3, <2>4
<1> QED BY <1>2, <1>3, <1>4, <1>5

LEMMA AnswerFacts ==
  ASSUME NEW op, NEW s
  PROVE  /\ op \in Formats => Answer(op, s) =
              [outcome |-> "done", runtime |-> None, reported |-> None, listing |-> s.engine.policies]
         /\ op \notin Formats => Answer(op, s) =
              [outcome |-> "done", runtime |-> Runtime(s), reported |-> Reported(s), listing |-> None]
BY DEF Answer, Failure

(* A read answers from the store as it is settled when it is over.         *)
LEMMA ReadIsSerial ==
  ASSUME SerialInv, LockInv', NEW t \in Threads, NEW n, thread' = [thread EXCEPT ![t] = n],
         n.stage = "answered", n.op = thread[t].op, thread[t].op \in Reads,
         AnswerOf(n) = Answer(thread[t].op, Settlement),
         thread[t].stage \in Reading, UNCHANGED published, Released(t)
  PROVE  SerialInv' /\ Serial!Read(t)
<1>1. SerialInv'
  BY AnsweredKeep, OthersKeep
<1>2. lock'.poisoned = lock.poisoned /\ ~lock.poisoned
  BY PoisonKept, ReadersFindSettled DEF SerialInv
<1>3. Serial!Answers(t, AnswerOf(n)) /\ Requested[t] = thread[t].op /\ Progress[t] = "asked"
  BY AnsweringStep DEF Reading
<1>4. Settlement' = Settlement
  BY DEF Settlement
<1> QED BY <1>1, <1>2, <1>3, <1>4 DEF Serial!Read

LEMMA ReadsAreSerial ==
  ASSUME SerialInv, LockInv', NEW t \in Threads, ReadMetadata(t) \/ LookUpHit(t) \/ PutListing(t)
  PROVE  SerialInv' /\ Serial!Read(t)
<1>1. /\ thread[t] \in ThreadState /\ ThreadInv(thread[t]) /\ MethodInv(thread[t])
      /\ UNCHANGED published /\ LockInv /\ thread[t].stage \in Reading /\ Released(t)
  BY SerialFacts DEF SerialInv, ReadMetadata, LookUpHit, PutListing, At, Reading
<1>2. memory = Settlement /\ \A f \in Formats : caches[f] \in {None, memory.engine.policies}
  BY <1>1, ReadersFindSettled DEF Settled, Settlement
<1>3. CASE ReadMetadata(t)
  <2> DEFINE n == [thread[t] EXCEPT !.stage = "answered", !.outcome = "done",
                                    !.reported = Reported(memory)]
  <2>1. thread[t].stage = "readingRest" /\ thread' = [thread EXCEPT ![t] = n]
    BY <1>3 DEF ReadMetadata, At, Becomes
  <2>2. /\ n.stage = "answered" /\ n.op = thread[t].op /\ n.outcome = "done"
        /\ n.runtime = thread[t].runtime /\ n.reported = Reported(memory)
        /\ n.listing = thread[t].listing
    BY <1>1 DEF ThreadState
  <2> HIDE DEF n
  <2>3. thread[t].op = "snapshot" /\ n.runtime = Runtime(Settlement) /\ n.listing = None
    BY <1>1, <1>2, <2>1, <2>2 DEF ThreadInv, MethodInv
  <2>4. thread[t].op \in Reads /\ thread[t].op \notin Formats
    BY <2>3 DEF Reads, Formats
  <2>5. AnswerOf(n) = Answer(thread[t].op, Settlement)
    BY <1>2, <2>2, <2>3, <2>4, AnswerFacts DEF AnswerOf
  <2> QED BY <1>1, <2>1, <2>2, <2>4, <2>5, ReadIsSerial
<1>4. CASE LookUpHit(t)
  <2> DEFINE n == [thread[t] EXCEPT !.stage = "answered", !.outcome = "done",
                                    !.listing = caches[thread[t].op]]
  <2>1. /\ thread[t].stage = "reading" /\ thread[t].op \in Formats /\ caches[thread[t].op] # None
        /\ thread' = [thread EXCEPT ![t] = n]
    BY <1>4 DEF LookUpHit, At, Becomes
  <2>2. /\ n.stage = "answered" /\ n.op = thread[t].op /\ n.outcome = "done"
        /\ n.runtime = thread[t].runtime /\ n.reported = thread[t].reported
        /\ n.listing = caches[thread[t].op]
    BY <1>1 DEF ThreadState
  <2> HIDE DEF n
  <2>3. n.runtime = None /\ n.reported = None /\ n.listing = Settlement.engine.policies
    BY <1>1, <1>2, <2>1, <2>2 DEF ThreadInv, MethodInv
  <2>4. AnswerOf(n) = Answer(thread[t].op, Settlement)
    BY <2>1, <2>2, <2>3, AnswerFacts DEF AnswerOf
  <2>5. thread[t].op \in Reads
    BY <2>1 DEF Reads
  <2> QED BY <1>1, <2>1, <2>2, <2>4, <2>5, ReadIsSerial
<1>5. CASE PutListing(t)
  <2> DEFINE n == [thread[t] EXCEPT !.stage = "answered", !.outcome = "done",
                                    !.todo = << >>, !.goal = None]
  <2>1. thread[t].stage = "caching" /\ thread' = [thread EXCEPT ![t] = n]
    BY <1>5 DEF PutListing, At, Ends, Becomes
  <2>2. /\ n.stage = "answered" /\ n.op = thread[t].op /\ n.outcome = "done"
        /\ n.runtime = thread[t].runtime /\ n.reported = thread[t].reported
        /\ n.listing = thread[t].listing
    BY <1>1 DEF ThreadState
  <2> HIDE DEF n
  <2>3. /\ n.runtime = None /\ n.reported = None /\ n.listing = Settlement.engine.policies
        /\ thread[t].op \in Formats
    BY <1>1, <1>2, <2>1, <2>2 DEF ThreadInv, MethodInv
  <2>4. AnswerOf(n) = Answer(thread[t].op, Settlement)
    BY <2>2, <2>3, AnswerFacts DEF AnswerOf
  <2>5. thread[t].op \in Reads
    BY <2>3 DEF Reads
  <2> QED BY <1>1, <2>1, <2>2, <2>4, <2>5, ReadIsSerial
<1> QED BY <1>3, <1>4, <1>5

(* An update takes effect when its last assignment is made.                *)
LEMMA UpdatesAreSerial ==
  ASSUME SerialInv, LockInv', NEW t \in Threads, EndUpdate(t)
  PROVE  SerialInv' /\ Serial!Update(t)
<1> DEFINE n == [thread[t] EXCEPT !.stage = "answered", !.outcome = "done", !.goal = None,
                                  !.runtime = Runtime(memory), !.reported = Reported(memory)]
<1>1. /\ thread[t] \in ThreadState /\ ThreadInv(thread[t]) /\ MethodInv(thread[t]) /\ LockInv
      /\ thread[t].stage = "writing" /\ thread[t].todo = << >>
      /\ thread' = [thread EXCEPT ![t] = n] /\ thread[t].op \in Updates
      /\ published' = Append(published, memory) /\ memory \in Store /\ published \in Seq(Store)
  BY SerialFacts DEF SerialInv, EndUpdate, At, Becomes, ThreadInv, LockInv, TypeInv
<1>2. memory = thread[t].goal
  <2>1. OnItsWay(thread[t]) /\ \A field : ~Pending(<< >>, field)
    BY <1>1 DEF ThreadInv, Pending
  <2>2. thread[t].goal \in Store /\ \A field \in StoreFields : memory[field] = thread[t].goal[field]
    BY <1>1, <2>1 DEF OnItsWay
  <2>3. memory \in [engine : Engines, context : Statuses, policies : Contents, labels : Contents,
                    schema : Contents, labelers : Contents, bundle : Documents \cup {None}]
    BY <1>1 DEF Store
  <2>4. thread[t].goal \in
          [engine : Engines, context : Statuses, policies : Contents, labels : Contents,
           schema : Contents, labelers : Contents, bundle : Documents \cup {None}]
    BY <2>2 DEF Store
  <2>5. /\ memory.engine = thread[t].goal.engine /\ memory.context = thread[t].goal.context
        /\ memory.policies = thread[t].goal.policies /\ memory.labels = thread[t].goal.labels
        /\ memory.schema = thread[t].goal.schema /\ memory.labelers = thread[t].goal.labelers
        /\ memory.bundle = thread[t].goal.bundle
    BY <2>2 DEF StoreFields
  <2> HIDE DEF n
  <2> QED BY ONLY <2>3, <2>4, <2>5
<1>3. Settlement' = memory /\ memory \in Successors(Settlement, thread[t].op)
  BY <1>1, <1>2 DEF Settlement, MethodInv
<1>4. /\ n.stage = "answered" /\ n.op = thread[t].op /\ n.outcome = "done"
      /\ n.runtime = Runtime(memory) /\ n.reported = Reported(memory)
      /\ n.listing = thread[t].listing
  BY <1>1 DEF ThreadState
<1> HIDE DEF n
<1>5. thread[t].op \notin Formats
  BY <1>1 DEF Updates, Components, Formats
<1>6. AnswerOf(n) = Answer(thread[t].op, Settlement')
  <2>1. n.listing = None
    BY <1>1, <1>4 DEF ThreadInv
  <2> QED BY <1>3, <1>4, <1>5, <2>1, AnswerFacts DEF AnswerOf
<1>7. /\ lock'.poisoned = lock.poisoned /\ ~lock.poisoned
      /\ \A u \in Threads : u # t => thread[u].stage \notin Reading \cup Writing
  BY <1>1, PoisonKept, WriterFacts DEF EndUpdate, Writing
<1>8. SerialInv'
  <2>1. ASSUME NEW u \in Threads PROVE MethodInv(thread[u])'
    <3>1. CASE u = t
      <4>1. thread'[u].stage = "answered"
        BY <1>1, <1>4, <3>1, SerialFacts
      <4> QED BY <4>1 DEF MethodInv
    <3>2. CASE u # t
      <4>1. thread'[u] = thread[u] /\ thread[u].stage # "writing" /\ MethodInv(thread[u])
        BY <1>1, <1>7, <3>2, SerialFacts DEF Writing
      <4> QED BY <4>1 DEF MethodInv
    <3> QED BY <3>1, <3>2
  <2> QED BY <2>1 DEF SerialInv
<1>9. Serial!Answers(t, AnswerOf(n)) /\ Requested[t] = thread[t].op /\ Progress[t] = "asked"
  BY <1>1, <1>4, AnsweringStep
<1> QED BY <1>1, <1>3, <1>6, <1>7, <1>8, <1>9 DEF Serial!Update

(* The beginning and the end of a request, and the probe of readyz.        *)
LEMMA AskIsSerial ==
  ASSUME SerialInv, LockInv', NEW t \in Threads, Ask(t)
  PROVE  SerialInv' /\ Serial!Ask(t)
<1>1. PICK op \in Reads \cup Updates, stage \in {"wantsRead", "wantsWrite"} :
        /\ stage = "wantsRead" => op \in Reads \cup Uploads
        /\ Becomes(t, [Idle EXCEPT !.stage = stage, !.op = op, !.since = Len(published)])
  BY DEF Ask, Updates
<1> DEFINE n == [Idle EXCEPT !.stage = stage, !.op = op, !.since = Len(published)]
<1>2. thread' = [thread EXCEPT ![t] = n] /\ n.stage = stage /\ n.op = op /\ n.runtime = None
  BY <1>1 DEF Becomes, Idle
<1> HIDE DEF n
<1>3. thread[t].stage = "idle" /\ UNCHANGED <<lock, published>>
  BY DEF Ask, At
<1>4. MethodInv(n)
  BY <1>1, <1>2 DEF MethodInv
<1>5. SerialInv'
  BY <1>2, <1>3, <1>4, OthersKeep
<1>6. /\ Progress' = [Progress EXCEPT ![t] = IF n.stage \in {"idle", "answered"} THEN n.stage ELSE "asked"]
      /\ Requested' = [Requested EXCEPT ![t] = n.op]
      /\ Answered' = [Answered EXCEPT ![t] = IF n.stage = "answered" THEN AnswerOf(n) ELSE None]
      /\ Progress[t] = IF thread[t].stage \in {"idle", "answered"} THEN thread[t].stage ELSE "asked"
  BY <1>2, MappedThread
<1>7. /\ Progress' = [Progress EXCEPT ![t] = "asked"] /\ Progress[t] = "idle"
      /\ Requested' = [Requested EXCEPT ![t] = op] /\ Answered' = [Answered EXCEPT ![t] = None]
  BY <1>2, <1>3, <1>6
<1>8. Answered' = Answered
  <2>1. Answered[t] = None
    BY <1>3 DEF Answered, At
  <2> QED BY <1>7, <2>1 DEF Answered
<1> QED BY <1>1, <1>3, <1>5, <1>7, <1>8 DEF Serial!Ask, Settlement

LEMMA ProbeIsSerial ==
  ASSUME SerialInv, LockInv', NEW t \in Threads, ProbeReadiness(t)
  PROVE  SerialInv' /\ Serial!Probe(t)
<1>1. PICK outcome \in {"ready", "not ready"} :
        /\ outcome = "ready" => ~lock.poisoned
        /\ Becomes(t, [Idle EXCEPT !.stage = "answered", !.since = Len(published), !.outcome = outcome])
  <2>1. CASE lock.writer = None /\ ~WriterWaits /\ ~lock.poisoned
    BY <2>1 DEF ProbeReadiness
  <2>2. CASE ~(lock.writer = None /\ ~WriterWaits /\ ~lock.poisoned)
    BY <2>2 DEF ProbeReadiness
  <2> QED BY <2>1, <2>2
<1> DEFINE n == [Idle EXCEPT !.stage = "answered", !.since = Len(published), !.outcome = outcome]
<1>2. /\ thread' = [thread EXCEPT ![t] = n] /\ n.stage = "answered" /\ n.op = None
      /\ n.outcome = outcome /\ n.runtime = None /\ n.reported = None /\ n.listing = None
  BY <1>1 DEF Becomes, Idle
<1> HIDE DEF n
<1>3. /\ thread[t].stage = "idle" /\ UNCHANGED <<lock, published>> /\ thread[t].op = None
  BY SerialFacts DEF ProbeReadiness, At, MethodInv
<1>4. SerialInv'
  BY <1>2, <1>3, AnsweredKeep, OthersKeep
<1>5. Serial!Answers(t, AnswerOf(n)) /\ Progress[t] = "idle"
  BY <1>2, <1>3, AnsweringStep
<1>6. AnswerOf(n) = Failure(outcome)
  BY <1>2 DEF AnswerOf, Failure
<1> QED BY <1>1, <1>3, <1>4, <1>5, <1>6 DEF Serial!Probe, Settlement

LEMMA FinishIsSerial ==
  ASSUME SerialInv, LockInv', NEW t \in Threads, Finish(t)
  PROVE  SerialInv' /\ Serial!Finish(t)
<1>1. /\ thread[t].stage = "answered" /\ UNCHANGED <<lock, published>>
      /\ thread' = [thread EXCEPT ![t] = Idle]
  BY DEF Finish, At, Becomes
<1>2. Idle.stage = "idle" /\ Idle.op = None /\ Idle.runtime = None
  BY DEF Idle
<1>3. MethodInv(Idle)
  BY <1>2 DEF MethodInv
<1>4. SerialInv'
  BY <1>1, <1>3, OthersKeep
<1>5. /\ Progress' = [Progress EXCEPT ![t] =
           IF Idle.stage \in {"idle", "answered"} THEN Idle.stage ELSE "asked"]
      /\ Requested' = [Requested EXCEPT ![t] = Idle.op]
      /\ Answered' = [Answered EXCEPT ![t] = IF Idle.stage = "answered" THEN AnswerOf(Idle) ELSE None]
      /\ Progress[t] = IF thread[t].stage \in {"idle", "answered"} THEN thread[t].stage ELSE "asked"
  BY <1>1, MappedThread
<1>6. /\ Progress' = [Progress EXCEPT ![t] = "idle"] /\ Progress[t] = "answered"
      /\ Requested' = [Requested EXCEPT ![t] = None] /\ Answered' = [Answered EXCEPT ![t] = None]
  BY <1>1, <1>2, <1>5
<1> QED BY <1>1, <1>4, <1>6 DEF Serial!Finish, Settlement

LEMMA LockInitImplements == LockInit => SerialInv /\ Serial!SerialInit
<1> SUFFICES ASSUME LockInit PROVE SerialInv /\ Serial!SerialInit
  OBVIOUS
<1>1. Idle.stage = "idle" /\ Idle.op = None /\ Idle.runtime = None
  BY DEF Idle
<1>2. SerialInv
  BY <1>1, LockInitially DEF LockInit, SerialInv, MethodInv
<1>3. Settlement = NewStore /\ lock.poisoned = FALSE
  BY DEF LockInit, Settlement
<1>4. /\ Progress = [t \in Threads |-> "idle"] /\ Requested = [t \in Threads |-> None]
      /\ Answered = [t \in Threads |-> None]
  BY <1>1 DEF LockInit, Progress, Requested, Answered, At
<1> QED BY <1>2, <1>3, <1>4 DEF Serial!SerialInit

LEMMA LockStepImplements ==
  SerialInv /\ [LockNext]_lockVars => SerialInv' /\ [Serial!SerialNext]_(Serial!serialVars)
<1> SUFFICES ASSUME SerialInv, [LockNext]_lockVars
             PROVE  SerialInv' /\ (Serial!SerialNext \/ UNCHANGED Serial!serialVars)
  OBVIOUS
<1>1. LockInv'
  BY LockInductive DEF SerialInv
<1>2. ASSUME NEW t \in Threads, Ask(t) \/ Proceed(t) \/ Panic(t) \/ ProbeReadiness(t)
      PROVE  /\ SerialInv'
             /\ \/ Serial!Ask(t) \/ Serial!Read(t) \/ Serial!Update(t) \/ Serial!Reject(t)
                \/ Serial!Refuse(t) \/ Serial!Panic(t) \/ Serial!Probe(t) \/ Serial!Finish(t)
                \/ UNCHANGED Serial!serialVars
  <2>1. CASE Ask(t)
    BY <1>1, <2>1, AskIsSerial
  <2>2. CASE ProbeReadiness(t)
    BY <1>1, <2>2, ProbeIsSerial
  <2>3. CASE Finish(t)
    BY <1>1, <2>3, FinishIsSerial
  <2>4. CASE EndUpdate(t)
    BY <1>1, <2>4, UpdatesAreSerial
  <2>5. CASE ReadMetadata(t) \/ LookUpHit(t) \/ PutListing(t)
    BY <1>1, <2>5, ReadsAreSerial
  <2>6. CASE Refuse(t) \/ PrepareUpload(t) \/ RejectUpdate(t) \/ Panic(t)
    BY <1>1, <2>6, WithoutEffect
  <2>7. CASE \/ AcquireRead(t) \/ CheckUpload(t) \/ ReadRuntime(t) \/ LookUpMiss(t)
             \/ ListPolicies(t) \/ AcquireWrite(t) \/ AcceptUpdate(t) \/ Assign(t)
    BY <1>1, <2>7, WithinRequest
  <2> QED BY <1>2, <2>1, <2>2, <2>3, <2>4, <2>5, <2>6, <2>7 DEF Proceed
<1>3. CASE UNCHANGED lockVars
  <2>1. UNCHANGED <<lock, thread, published>>
    BY <1>3 DEF lockVars
  <2>2. UNCHANGED Serial!serialVars
    BY <2>1 DEF Serial!serialVars, Settlement, Progress, Requested, Answered, At
  <2>3. SerialInv'
    BY <1>1, <2>1 DEF SerialInv, MethodInv, Settlement
  <2> QED BY <2>2, <2>3
<1> QED BY <1>2, <1>3 DEF LockNext, Serial!SerialNext

(* SharedPolicyStore is linearizable: whatever its threads do between the  *)
(* assignments of an update, between the sections of a listing and when    *)
(* one of them panics, each sees a store whose methods are single steps.   *)
(* So PolicyStore may model each method as one step.                       *)
THEOREM LockImplementsSerialStore == LockSpec => ImplementsSerialStore
<1>1. LockSpec => []SerialInv
  BY LockInitImplements, LockStepImplements, PTL DEF LockSpec
<1> QED BY <1>1, LockInitImplements, LockStepImplements, PTL
        DEF LockSpec, ImplementsSerialStore, Serial!SerialSpec

=============================================================================
