---------------------------- MODULE SerialStore ----------------------------
(***************************************************************************)
(* What a policy store promises its handlers and polling tasks: each       *)
(* method of SharedPolicyStore is one step between its request and its     *)
(* answer.  An update that panics is not made, and closes the store.       *)
(***************************************************************************)
CONSTANTS
  Threads,
  Reads, Updates,      \* the methods
  NewStore,
  Successors(_, _),    \* what an update of a kind can make of a store
  Answer(_, _),        \* what a method answers from a store
  Failure(_),          \* the answer of a method that had no effect
  None

VARIABLES
  store,
  closed,     \* the store is lost, and only a restart makes a new one
  stage,      \* per thread: idle, asked or answered
  request,    \* its method
  answer

serialVars == <<store, closed, stage, request, answer>>

Answers(t, a) ==
  /\ stage' = [stage EXCEPT ![t] = "answered"]
  /\ answer' = [answer EXCEPT ![t] = a]
  /\ UNCHANGED request

Ask(t) ==
  /\ stage[t] = "idle"
  /\ \E op \in Reads \cup Updates : request' = [request EXCEPT ![t] = op]
  /\ stage' = [stage EXCEPT ![t] = "asked"]
  /\ UNCHANGED <<store, closed, answer>>

Read(t) ==
  /\ stage[t] = "asked" /\ request[t] \in Reads /\ ~closed
  /\ Answers(t, Answer(request[t], store))
  /\ UNCHANGED <<store, closed>>

Update(t) ==
  /\ stage[t] = "asked" /\ request[t] \in Updates /\ ~closed
  /\ store' \in Successors(store, request[t])
  /\ Answers(t, Answer(request[t], store'))
  /\ UNCHANGED closed

Reject(t) ==
  /\ stage[t] = "asked" /\ request[t] \in Updates
  /\ Answers(t, Failure("rejected"))
  /\ UNCHANGED <<store, closed>>

Refuse(t) ==
  /\ stage[t] = "asked" /\ closed
  /\ Answers(t, Failure("refused"))
  /\ UNCHANGED <<store, closed>>

Panic(t) ==
  /\ stage[t] = "asked"
  /\ \/ UNCHANGED closed
     \/ closed' = TRUE /\ request[t] \in Updates
  /\ Answers(t, Failure("panicked"))
  /\ UNCHANGED store

(* A probe asks nothing of the store; it only is never ready once closed.  *)
Probe(t) ==
  /\ stage[t] = "idle"
  /\ \/ ~closed /\ Answers(t, Failure("ready"))
     \/ Answers(t, Failure("not ready"))
  /\ UNCHANGED <<store, closed>>

Finish(t) ==
  /\ stage[t] = "answered"
  /\ stage' = [stage EXCEPT ![t] = "idle"]
  /\ request' = [request EXCEPT ![t] = None]
  /\ answer' = [answer EXCEPT ![t] = None]
  /\ UNCHANGED <<store, closed>>

SerialInit ==
  /\ store = NewStore /\ closed = FALSE
  /\ stage = [t \in Threads |-> "idle"]
  /\ request = [t \in Threads |-> None]
  /\ answer = [t \in Threads |-> None]

SerialNext ==
  \E t \in Threads :
    Ask(t) \/ Read(t) \/ Update(t) \/ Reject(t) \/ Refuse(t) \/ Panic(t) \/ Probe(t) \/ Finish(t)

SerialSpec == SerialInit /\ [][SerialNext]_serialVars
=============================================================================
