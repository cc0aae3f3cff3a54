-------------------------- MODULE AuthorizeProofs --------------------------
(***************************************************************************)
(* Proofs about Authorize, for any number of clients, any batches and any  *)
(* parallelism: the handler implements the atomic one, in strict mode no   *)
(* check with a context is decided without a schema, and a context is      *)
(* refused exactly beyond the limits, however its values are nested.       *)
(***************************************************************************)
EXTENDS ContextLimits, PolicyStoreProofs, WellFoundedInduction

(* The results so far are those of the snapshot, at their own indices.     *)
ResultsOfSnapshot(c) ==
  results[c] = [i \in DOMAIN results[c] |-> EvalOne(snapshot[c], request[c][i])]

(* What a snapshot says of the schema was true of its engine.              *)
SnapshotHasSchema(c) ==
  /\ snapshot[c].strict = Strict
  /\ snapshot[c].strict => (snapshot[c].schema_loaded <=> snapshot[c].engine.schema # Empty)

AuthInv ==
  /\ StoreInv
  /\ AuthTypeOK
  /\ \A c \in Clients :
       /\ step[c] \in {"evaluating", "answered"} => ResultsOfSnapshot(c) /\ SnapshotHasSchema(c)
       /\ step[c] = "answered" => response[c] = Answer(snapshot[c], request[c])

(* What the store offers while it is strict and has a schema.              *)
LEMMA ViewHasSchema ==
  ASSUME StoreInv
  PROVE  /\ View.strict = Strict
         /\ View.strict => (View.schema_loaded <=> View.engine.schema # Empty)
  BY DEF StoreInv, View, StrictStatesHaveCompatibleSchema, EngineMatchesMetadata, SchemaStatus

(* A complete set of results is the answer of the snapshot.                *)
LEMMA CompleteResults ==
  ASSUME NEW c \in Clients, AuthTypeOK, step[c] = "evaluating",
         Remaining(c) = {}, ResultsOfSnapshot(c)
  PROVE  Response(results[c], Version(snapshot[c].engine)) = Answer(snapshot[c], request[c])
<1>1. DOMAIN results[c] = DOMAIN request[c]
  BY DEF Remaining, AuthTypeOK
<1>2. results[c] = [i \in DOMAIN request[c] |-> EvalOne(snapshot[c], request[c][i])]
  BY <1>1 DEF ResultsOfSnapshot
<1>3. QED
  BY <1>2 DEF Answer

(* The invariant holds initially.                                          *)
LEMMA AuthInitInv == AuthInit => AuthInv
<1> SUFFICES ASSUME AuthInit PROVE AuthInv
  OBVIOUS
<1>1. StoreInv
  BY InitInv DEF AuthInit
<1>2. AuthTypeOK /\ \A c \in Clients : step[c] = "idle"
  BY DEF AuthInit, AuthTypeOK
<1>3. QED
  BY <1>1, <1>2 DEF AuthInv

(* A step of the store disturbs no request.                                *)
LEMMA StoreStepKeepsRequests ==
  ASSUME AuthInv, [Next]_vars, UNCHANGED clientVars
  PROVE  AuthInv'
<1>1. StoreInv'
  BY NextKeepsInv DEF AuthInv
<1>2. AuthTypeOK'
  BY DEF AuthInv, AuthTypeOK, clientVars
<1>3. Strict' = Strict
  BY DEF vars, startupVars, Strict, Next, ConfigureRemoteSource, StartServing, UploadPolicies, UploadSchema,
     UploadBundle, LoadPolicies, LoadLabels, LoadSchema, LoadBundle, ListPoliciesHit, ListPoliciesMiss,
     unchangedByUpdates
<1>4. \A c \in Clients : ResultsOfSnapshot(c)' = ResultsOfSnapshot(c)
                      /\ SnapshotHasSchema(c)' = SnapshotHasSchema(c)
  BY <1>3 DEF clientVars, ResultsOfSnapshot, SnapshotHasSchema
<1>5. QED
  BY <1>1, <1>2, <1>4 DEF AuthInv, clientVars

(* Each step of the handler keeps the invariant.                           *)
LEMMA HandlerKeepsInv ==
  ASSUME AuthInv, NEW c \in Clients,
         \/ Accept(c) \/ TakeSnapshot(c) \/ Respond(c) \/ Finish(c)
         \/ \E i \in 1 .. MaxBatchSize : Evaluate(c, i)
  PROVE  AuthInv'
<1> DEFINE Others(k) == /\ step'[k] = step[k] /\ request'[k] = request[k] /\ snapshot'[k] = snapshot[k]
                        /\ results'[k] = results[k] /\ response'[k] = response[k]
           Own(k) == /\ step[k] \in {"evaluating", "answered"} => ResultsOfSnapshot(k) /\ SnapshotHasSchema(k)
                     /\ step[k] = "answered" => response[k] = Answer(snapshot[k], request[k])
<1>1. UNCHANGED vars /\ Strict' = Strict
  BY DEF Accept, TakeSnapshot, Respond, Finish, Evaluate, vars, startupVars, Strict
<1>2. StoreInv'
  BY <1>1, NextKeepsInv DEF AuthInv
<1>3. AuthTypeOK /\ \A k \in Clients : Own(k)
  BY DEF AuthInv
<1>4. \A k \in Clients \ {c} : Others(k)
  BY <1>3 DEF AuthTypeOK, Accept, TakeSnapshot, Respond, Finish, Evaluate
<1>5. \A k \in Clients \ {c} : Own(k)'
  BY <1>1, <1>3, <1>4 DEF ResultsOfSnapshot, SnapshotHasSchema
<1>6. CASE Accept(c)
  <2>1. AuthTypeOK'
    BY <1>3, <1>6, ParallelAssumption DEF Accept, AuthTypeOK, AcceptedBatches
  <2>2. step'[c] = "accepted"
    BY <1>3, <1>6 DEF Accept, AuthTypeOK
  <2>3. QED
    BY <1>2, <1>5, <2>1, <2>2 DEF AuthInv
<1>7. CASE TakeSnapshot(c)
  <2>1. /\ step' = [step EXCEPT ![c] = "evaluating"] /\ snapshot' = [snapshot EXCEPT ![c] = View]
        /\ results[c] = << >> /\ request[c] \in AcceptedBatches /\ step[c] = "accepted"
        /\ UNCHANGED <<request, results, response>>
    BY <1>3, <1>7 DEF TakeSnapshot, AuthTypeOK
  <2>2. step'[c] = "evaluating" /\ snapshot'[c] = View
    BY <1>3, <2>1 DEF AuthTypeOK
  <2>3. AuthTypeOK'
    BY <1>3, <2>1 DEF AuthTypeOK
  <2>4. ResultsOfSnapshot(c)'
    BY <2>1 DEF ResultsOfSnapshot
  <2>5. SnapshotHasSchema(c)'
    BY <1>1, <2>2, ViewHasSchema DEF SnapshotHasSchema, AuthInv
  <2>6. QED
    BY <1>2, <1>5, <2>2, <2>3, <2>4, <2>5 DEF AuthInv
<1>8. CASE Respond(c)
  <2>1. /\ step[c] = "evaluating" /\ step' = [step EXCEPT ![c] = "answered"]
        /\ response' = [response EXCEPT ![c] = Response(results[c], Version(snapshot[c].engine))]
        /\ UNCHANGED <<request, snapshot, results>>
    BY <1>8 DEF Respond
  <2>2. AuthTypeOK'
    BY <1>3, <2>1 DEF AuthTypeOK
  <2>3. response'[c] = Answer(snapshot[c], request[c])
    <3>1. Response(results[c], Version(snapshot[c].engine)) = Answer(snapshot[c], request[c])
      BY <1>3, <1>8, <2>1, CompleteResults DEF Respond
    <3>2. QED
      BY <1>3, <2>1, <3>1 DEF AuthTypeOK
  <2>4. ResultsOfSnapshot(c)' /\ SnapshotHasSchema(c)'
    BY <1>1, <1>3, <2>1 DEF ResultsOfSnapshot, SnapshotHasSchema
  <2>5. QED
    BY <1>2, <1>5, <2>1, <2>2, <2>3, <2>4 DEF AuthInv
<1>9. CASE Finish(c)
  <2>1. AuthTypeOK' /\ step'[c] = "idle"
    BY <1>3, <1>9 DEF Finish, AuthTypeOK
  <2>2. QED
    BY <1>2, <1>5, <2>1 DEF AuthInv
<1>10. ASSUME NEW i \in 1 .. MaxBatchSize, Evaluate(c, i)
       PROVE  AuthInv'
  <2>1. /\ step[c] = "evaluating" /\ i \in DOMAIN request[c]
        /\ UNCHANGED <<step, request, snapshot, response>>
        /\ results' = [results EXCEPT ![c] = [j \in DOMAIN results[c] \cup {i} |->
                         IF j = i THEN EvalOne(snapshot[c], request[c][i]) ELSE results[c][j]]]
    BY <1>3, <1>10 DEF Evaluate, Remaining, AuthTypeOK
  <2>2. results'[c] = [j \in DOMAIN results[c] \cup {i} |->
                         IF j = i THEN EvalOne(snapshot[c], request[c][i]) ELSE results[c][j]]
    BY <1>3, <2>1 DEF AuthTypeOK
  <2>3. AuthTypeOK'
    BY <1>3, <1>4, <2>1, <2>2 DEF AuthTypeOK
  <2>4. ResultsOfSnapshot(c)'
    <3>1. \A j \in DOMAIN results[c] : results[c][j] = EvalOne(snapshot[c], request[c][j])
      BY <1>3, <2>1 DEF ResultsOfSnapshot
    <3>2. results'[c] = [j \in DOMAIN results'[c] |-> EvalOne(snapshot[c], request[c][j])]
      BY <2>2, <3>1
    <3>3. QED
      BY <2>1, <3>2 DEF ResultsOfSnapshot
  <2>5. SnapshotHasSchema(c)'
    BY <1>1, <1>3, <2>1 DEF SnapshotHasSchema
  <2>6. QED
    BY <1>2, <1>5, <2>1, <2>3, <2>4, <2>5 DEF AuthInv
<1>11. QED
  BY <1>6, <1>7, <1>8, <1>9, <1>10

(* Every reachable state satisfies the invariant.                          *)
THEOREM AuthInvariance == AuthSpec => []AuthInv
<1>1. AuthInv /\ [AuthNext]_authVars => AuthInv'
  <2> SUFFICES ASSUME AuthInv, [AuthNext]_authVars PROVE AuthInv'
    OBVIOUS
  <2>1. CASE Next /\ UNCHANGED clientVars
    BY <2>1, StoreStepKeepsRequests
  <2>2. CASE UNCHANGED authVars
    BY <2>2, StoreStepKeepsRequests DEF authVars
  <2>3. QED
    BY <2>1, <2>2, HandlerKeepsInv DEF AuthNext
<1>2. QED
  BY <1>1, AuthInitInv, PTL DEF AuthSpec

(* The requests stay within the stages of the handler.                     *)
THEOREM AuthTypeCorrectness == AuthSpec => []AuthTypeOK
<1>1. AuthInv => AuthTypeOK
  BY DEF AuthInv
<1>2. QED
  BY <1>1, AuthInvariance, PTL

(* In strict mode no check with a context is decided without a schema: the *)
(* flag that validate_request_context consults was read together with the  *)
(* engine, and the store never has one without the other.                  *)
THEOREM StrictContextSafety == AuthSpec => []StrictContextsMeetSchema
<1>1. AuthInv => StrictContextsMeetSchema
  <2> SUFFICES ASSUME AuthInv, Strict, NEW c \in Clients, NEW i \in DOMAIN results[c],
                      Context[request[c][i]] # NoContext, results[c][i].outcome = "success"
               PROVE  results[c][i].decision.schema # Empty
    BY DEF StrictContextsMeetSchema
  <2>1. step[c] \in {"evaluating", "answered"}
    BY DEF AuthInv, AuthTypeOK
  <2>2. results[c][i] = EvalOne(snapshot[c], request[c][i])
    BY <2>1 DEF AuthInv, ResultsOfSnapshot
  <2>3. ContextAllowed(request[c][i], snapshot[c].strict, snapshot[c].schema_loaded)
    BY <2>2 DEF EvalOne, Failed
  <2>4. snapshot[c].engine.schema # Empty
    BY <2>1, <2>3 DEF AuthInv, SnapshotHasSchema, ContextAllowed
  <2>5. QED
    BY <2>2, <2>4 DEF EvalOne, Decision, Failed
<1>2. QED
  BY <1>1, AuthInvariance, PTL

-----------------------------------------------------------------------------
(* The handler implements the atomic one.                                  *)
LEMMA AuthInitImplements == AuthInit => Atomic!AuthorizeInit
  BY DEF AuthInit, Atomic!AuthorizeInit, DecidedAnswers, Stage, StageOf

(* What a step of one client does to the mapped variables.                 *)
LEMMA MappedStep ==
  ASSUME AuthTypeOK, NEW c \in Clients, NEW s \in {"idle", "accepted", "evaluating", "answered"},
         step' = [step EXCEPT ![c] = s],
         \A k \in Clients \ {c} : snapshot'[k] = snapshot[k] /\ request'[k] = request[k]
  PROVE  /\ Stage' = [Stage EXCEPT ![c] = StageOf[s]]
         /\ DecidedAnswers' = [DecidedAnswers EXCEPT ![c] =
              IF s \in {"evaluating", "answered"} THEN Answer(snapshot'[c], request'[c]) ELSE None]
<1>1. \A k \in Clients : step'[k] = IF k = c THEN s ELSE step[k]
  BY DEF AuthTypeOK
<1>2. Stage' = [Stage EXCEPT ![c] = StageOf[s]]
  <2>1. StageOf' = StageOf
    BY DEF StageOf
  <2>2. /\ Stage' = [k \in Clients |-> Stage'[k]] /\ DOMAIN Stage = Clients
        /\ \A k \in Clients : Stage'[k] = StageOf[step'[k]] /\ Stage[k] = StageOf[step[k]]
    BY <2>1 DEF Stage
  <2>3. \A k \in Clients : Stage'[k] = IF k = c THEN StageOf[s] ELSE Stage[k]
    BY <1>1, <2>2
  <2>4. QED
    BY <2>2, <2>3
<1>3. \A k \in Clients \ {c} : DecidedAnswers'[k] = DecidedAnswers[k]
  BY <1>1 DEF DecidedAnswers
<1>4. DecidedAnswers'[c] = IF s \in {"evaluating", "answered"} THEN Answer(snapshot'[c], request'[c]) ELSE None
  BY <1>1 DEF DecidedAnswers
<1>5. /\ DecidedAnswers' = [k \in Clients |-> DecidedAnswers'[k]]
      /\ DOMAIN DecidedAnswers = Clients
  BY DEF DecidedAnswers
<1>6. DecidedAnswers' = [DecidedAnswers EXCEPT ![c] =
              IF s \in {"evaluating", "answered"} THEN Answer(snapshot'[c], request'[c]) ELSE None]
  BY <1>3, <1>4, <1>5
<1>7. QED
  BY <1>2, <1>6

(* Every step is one of the atomic handler or invisible to it.             *)
LEMMA AuthStepImplements == AuthInv /\ [AuthNext]_authVars => [Atomic!AuthorizeNext]_(Atomic!authorizeVars)
<1> SUFFICES ASSUME AuthInv, [AuthNext]_authVars
             PROVE  Atomic!AuthorizeNext \/ UNCHANGED Atomic!authorizeVars
  OBVIOUS
<1>1. AuthTypeOK
  BY DEF AuthInv
<1>2. CASE UNCHANGED clientVars
  BY <1>2 DEF clientVars, Stage, DecidedAnswers, Atomic!AuthorizeNext, Atomic!Change
<1>3. ASSUME UNCHANGED vars
      PROVE  View' = View
  BY <1>3 DEF vars, partVars, startupVars, View, Strict
<1>4. ASSUME NEW c \in Clients, Accept(c)
      PROVE  Atomic!Ask(c)
  <2>1. /\ Stage' = [Stage EXCEPT ![c] = "asked"]
        /\ DecidedAnswers' = [DecidedAnswers EXCEPT ![c] = None]
    BY <1>1, <1>4, MappedStep DEF Accept, AuthTypeOK, StageOf
  <2>2. Stage[c] = "idle" /\ DecidedAnswers[c] = None /\ DecidedAnswers' = DecidedAnswers
    BY <1>4, <2>1 DEF Accept, Stage, StageOf, DecidedAnswers
  <2>3. QED
    BY <1>3, <1>4, <2>1, <2>2 DEF Accept, Atomic!Ask
<1>5. ASSUME NEW c \in Clients, TakeSnapshot(c)
      PROVE  Atomic!Decide(c)
  <2>1. snapshot'[c] = View /\ UNCHANGED <<vars, request, response>>
    BY <1>1, <1>5 DEF TakeSnapshot, AuthTypeOK
  <2>2. /\ Stage' = [Stage EXCEPT ![c] = "decided"]
        /\ DecidedAnswers' = [DecidedAnswers EXCEPT ![c] = Answer(View, request[c])]
    BY <1>1, <1>5, <2>1, MappedStep DEF TakeSnapshot, AuthTypeOK, StageOf
  <2>3. Stage[c] = "asked"
    BY <1>5 DEF TakeSnapshot, Stage, StageOf
  <2>4. QED
    BY <1>3, <2>1, <2>2, <2>3 DEF Atomic!Decide
<1>6. ASSUME NEW c \in Clients, Respond(c)
      PROVE  Atomic!Reply(c)
  <2>1. step[c] = "evaluating" /\ UNCHANGED <<vars, request, snapshot>>
    BY <1>6 DEF Respond
  <2>2. Stage[c] = "decided" /\ DecidedAnswers[c] = Answer(snapshot[c], request[c])
    BY <2>1 DEF Stage, StageOf, DecidedAnswers
  <2>3. /\ Stage' = [Stage EXCEPT ![c] = "replied"]
        /\ DecidedAnswers' = [DecidedAnswers EXCEPT ![c] = Answer(snapshot[c], request[c])]
    BY <1>1, <1>6, <2>1, MappedStep DEF Respond, StageOf
  <2>4. DecidedAnswers' = DecidedAnswers
    BY <2>2, <2>3 DEF DecidedAnswers
  <2>5. response' = [response EXCEPT ![c] = DecidedAnswers[c]]
    BY <1>1, <1>6, <2>1, <2>2, CompleteResults DEF Respond, AuthInv
  <2>6. QED
    BY <1>3, <2>1, <2>2, <2>3, <2>4, <2>5 DEF Atomic!Reply
<1>7. ASSUME NEW c \in Clients, Finish(c)
      PROVE  Atomic!Done(c)
  <2>1. /\ Stage' = [Stage EXCEPT ![c] = "idle"]
        /\ DecidedAnswers' = [DecidedAnswers EXCEPT ![c] = None]
    BY <1>1, <1>7, MappedStep DEF Finish, AuthTypeOK, StageOf
  <2>2. Stage[c] = "replied"
    BY <1>7 DEF Finish, Stage, StageOf
  <2>3. QED
    BY <1>3, <1>7, <2>1, <2>2 DEF Finish, Atomic!Done
<1>8. ASSUME NEW c \in Clients, NEW i \in 1 .. MaxBatchSize, Evaluate(c, i)
      PROVE  UNCHANGED Atomic!authorizeVars
  BY <1>3, <1>8 DEF Evaluate, Stage, DecidedAnswers, Atomic!authorizeVars
<1>9. QED
  BY <1>2, <1>4, <1>5, <1>6, <1>7, <1>8 DEF AuthNext, authVars, Atomic!AuthorizeNext

(* "All requests in a batch are guaranteed to be evaluated against the     *)
(* same policy version": every response of authorize is the answer of the  *)
(* store as it was at one moment of the request.                           *)
THEOREM AuthorizeIsAtomic == AuthSpec => ImplementsAtomicAuthorize
<1>1. QED
  BY AuthInvariance, AuthInitImplements, AuthStepImplements, PTL
  DEF AuthSpec, ImplementsAtomicAuthorize, Atomic!AuthorizeSpec

(* Requests never disturb the store: its theorems hold next to them.       *)
THEOREM AuthorizeKeepsStore == AuthSpec => Spec
<1>1. AuthInit => Init
  BY DEF AuthInit
<1>2. [AuthNext]_authVars => [Next]_vars
  BY DEF AuthNext, authVars, Accept, TakeSnapshot, Respond, Finish, Evaluate
<1>3. QED
  BY <1>1, <1>2, PTL DEF AuthSpec, Spec

-----------------------------------------------------------------------------
(* The limits.                                                            *)
(* Induction: a set of natural numbers has a least element.                *)
LEMMA LeastNumber ==
  ASSUME NEW T, T \subseteq Nat, T # {}
  PROVE  \E n \in T : \A m \in T : n <= m
<1> DEFINE R == {p \in Nat \X Nat : p[1] < p[2]}
<1>1. IsWellFoundedOn(R, Nat)
  BY NatLessThanWellFounded DEF OpToRel
<1> HIDE DEF R
<1>2. PICK n \in T : \A m \in T : <<m, n>> \notin R
  BY <1>1, WFMin
<1>3. ASSUME NEW m \in T PROVE n <= m
  <2>1. m \in Nat /\ n \in Nat /\ <<m, n>> \in Nat \X Nat
    OBVIOUS
  <2>2. m < n => <<m, n>> \in R
    BY <2>1 DEF R
  <2> QED BY <1>2, <2>1, <2>2
<1> QED BY <1>3

(* The maximum that Rust's max().unwrap_or(0) takes over a list.           *)
LEMMA MaxOfList ==
  ASSUME NEW n \in Nat, NEW h \in [1 .. n -> Nat]
  PROVE  LET S == {h[i] : i \in 1 .. n} \cup {0}
         IN  Max(S) \in S /\ \A x \in S : x <= Max(S)
<1> DEFINE S(k) == {h[i] : i \in 1 .. k} \cup {0}
           Bounded(k) == \E b \in S(k) : \A i \in 1 .. k : h[i] <= b
           T == {k \in 0 .. n : ~Bounded(k)}
<1>1. Bounded(0)
  OBVIOUS
<1>2. ASSUME NEW k \in 1 .. n, Bounded(k - 1) PROVE Bounded(k)
  <2>1. PICK b \in S(k - 1) : \A i \in 1 .. k - 1 : h[i] <= b
    BY <1>2
  <2>2. h[k] \in Nat /\ b \in Nat /\ h[k] \in S(k) /\ b \in S(k)
    OBVIOUS
  <2>3. \A i \in 1 .. k : i \in 1 .. k - 1 \/ i = k
    OBVIOUS
  <2>4. CASE h[k] <= b
    <3>1. \A i \in 1 .. k : h[i] <= b
      BY <2>1, <2>3, <2>4
    <3> QED BY <2>2, <3>1
  <2>5. CASE b < h[k]
    <3>1. \A i \in 1 .. k : h[i] <= h[k]
      BY <2>1, <2>2, <2>3, <2>5
    <3> QED BY <2>2, <3>1
  <2> QED BY <2>2, <2>4, <2>5
<1>3. Bounded(n)
  <2> HIDE DEF Bounded
  <2> SUFFICES ASSUME ~Bounded(n) PROVE FALSE
    OBVIOUS
  <2>1. T \subseteq Nat /\ n \in T
    OBVIOUS
  <2>2. PICK k \in T : \A m \in T : k <= m
    <3> HIDE DEF T
    <3> QED BY <2>1, LeastNumber
  <2>3. k \in 1 .. n /\ k - 1 \in 0 .. n /\ k - 1 \notin T
    BY <1>1, <2>2
  <2> QED BY <1>2, <2>2, <2>3
<1>4. PICK b \in S(n) : \A x \in S(n) : b >= x
  <2>1. PICK b \in S(n) : \A i \in 1 .. n : h[i] <= b
    BY <1>3
  <2>2. b \in Nat
    OBVIOUS
  <2>3. ASSUME NEW x \in S(n) PROVE b >= x
    BY <2>1, <2>2
  <2> QED BY <2>3
<1>5. S(n) \subseteq Nat
  OBVIOUS
<1>6. Max(S(n)) \in S(n) /\ \A x \in S(n) : Max(S(n)) >= x
  <2> HIDE DEF S
  <2> QED BY <1>4 DEF Max
<1>7. \A x \in S(n) : x <= Max(S(n))
  <2> HIDE DEF S
  <2> QED BY <1>5, <1>6
<1> QED BY <1>6, <1>7

-----------------------------------------------------------------------------
(* Chains of n values, each a member of the one before.                    *)
IsChain(chain, n) ==
  chain \in [1 .. n -> Values] /\ \A i \in 1 .. n - 1 : chain[i + 1] \in Members(chain[i])

HasChain(v, n) == \E chain : IsChain(chain, n) /\ chain[1] = v

LEMMA MemberFacts ==
  ASSUME NEW v \in Values
  PROVE  /\ Members(v) \subseteq Values
         /\ v.members \in Seq(Values)
         /\ Members(v) = {v.members[i] : i \in 1 .. Len(v.members)}
         /\ ~IsSet(v) => Members(v) = {}
BY ContextAssumption DEF Members, IsSet

LEMMA ShortestChain ==
  ASSUME NEW v \in Values
  PROVE  HasChain(v, 1)
<1>1. IsChain([i \in 1 .. 1 |-> v], 1)
  BY DEF IsChain
<1> QED BY <1>1 DEF HasChain

LEMMA LongerChain ==
  ASSUME NEW v \in Values, NEW n \in Nat \ {0}
  PROVE  HasChain(v, n + 1) <=> \E m \in Members(v) : HasChain(m, n)
<1>1. ASSUME HasChain(v, n + 1)
      PROVE  \E m \in Members(v) : HasChain(m, n)
  <2>1. PICK chain : IsChain(chain, n + 1) /\ chain[1] = v
    BY <1>1 DEF HasChain
  <2>2. IsChain([i \in 1 .. n |-> chain[i + 1]], n)
    BY <2>1 DEF IsChain
  <2>3. chain[2] \in Members(v)
    BY <2>1 DEF IsChain
  <2> QED BY <2>2, <2>3 DEF HasChain
<1>2. ASSUME NEW m \in Members(v), HasChain(m, n)
      PROVE  HasChain(v, n + 1)
  <2>1. PICK chain : IsChain(chain, n) /\ chain[1] = m
    BY <1>2 DEF HasChain
  <2> DEFINE longer == [i \in 1 .. n + 1 |-> IF i = 1 THEN v ELSE chain[i - 1]]
  <2>2. longer \in [1 .. n + 1 -> Values]
    BY <2>1 DEF IsChain
  <2>3. ASSUME NEW i \in 1 .. n PROVE longer[i + 1] \in Members(longer[i])
    BY <2>1 DEF IsChain
  <2>4. longer[1] = v
    OBVIOUS
  <2>5. IsChain(longer, n + 1)
    <3> HIDE DEF longer
    <3> QED BY <2>2, <2>3 DEF IsChain
  <2> QED BY <2>4, <2>5 DEF HasChain
<1> QED BY <1>1, <1>2

LEMMA ShorterChain ==
  ASSUME NEW v \in Values, NEW n \in Nat, NEW k \in 1 .. n, HasChain(v, n)
  PROVE  HasChain(v, k)
<1>1. PICK chain : IsChain(chain, n) /\ chain[1] = v
  BY DEF HasChain
<1>2. IsChain([i \in 1 .. k |-> chain[i]], k)
  BY <1>1 DEF IsChain
<1> QED BY <1>1, <1>2 DEF HasChain

(* The length of the longest chain.                                        *)
IsHeight(v, n) == n \in Nat \ {0} /\ HasChain(v, n) /\ ~HasChain(v, n + 1)
Height(v) == CHOOSE n : IsHeight(v, n)

MaxHeight(members) == Max({Height(m) : m \in members} \cup {0})

LEMMA HeightIsUnique ==
  ASSUME NEW v \in Values, NEW n, IsHeight(v, n)
  PROVE  /\ Height(v) = n
         /\ \A k \in Nat \ {0} : HasChain(v, k) <=> k <= n
<1>1. ASSUME NEW k, IsHeight(v, k) PROVE k = n
  <2>1. n \in Nat \ {0} /\ k \in Nat \ {0}
    BY <1>1 DEF IsHeight
  <2>2. ~(k < n)
    BY <1>1, <2>1, ShorterChain DEF IsHeight
  <2>3. ~(n < k)
    BY <1>1, <2>1, ShorterChain DEF IsHeight
  <2> QED BY <2>1, <2>2, <2>3
<1>2. IsHeight(v, Height(v))
  BY DEF Height
<1>3. n \in Nat \ {0} /\ HasChain(v, n) /\ ~HasChain(v, n + 1)
  BY DEF IsHeight
<1>4. ASSUME NEW k \in Nat \ {0} PROVE HasChain(v, k) <=> k <= n
  <2>1. CASE k <= n
    BY <1>3, <2>1, ShorterChain
  <2>2. CASE n + 1 <= k
    BY <1>3, <2>2, ShorterChain
  <2> QED BY <1>3, <2>1, <2>2
<1> QED BY <1>1, <1>2, <1>4

(* The maximum over the values of a list.                                  *)
LEMMA MaxHeightFacts ==
  ASSUME NEW s \in Seq(Values), \A i \in 1 .. Len(s) : IsHeight(s[i], Height(s[i]))
  PROVE  LET H == MaxHeight({s[i] : i \in 1 .. Len(s)})
         IN  /\ H \in Nat
             /\ \A i \in 1 .. Len(s) : Height(s[i]) <= H
             /\ H = 0 \/ \E i \in 1 .. Len(s) : Height(s[i]) = H
<1> DEFINE h == [i \in 1 .. Len(s) |-> Height(s[i])]
           S == {h[i] : i \in 1 .. Len(s)} \cup {0}
<1>1. h \in [1 .. Len(s) -> Nat]
  BY DEF IsHeight
<1>2. S = {Height(m) : m \in {s[i] : i \in 1 .. Len(s)}} \cup {0}
  OBVIOUS
<1>3. Max(S) \in S /\ \A x \in S : x <= Max(S)
  <2>1. Len(s) \in Nat
    OBVIOUS
  <2> HIDE DEF h
  <2> QED BY <1>1, <2>1, MaxOfList
<1>4. MaxHeight({s[i] : i \in 1 .. Len(s)}) = Max(S)
  BY <1>2 DEF MaxHeight
<1>5. S \subseteq Nat
  BY <1>1
<1> QED BY <1>3, <1>4, <1>5

LEMMA HeightStep ==
  ASSUME NEW v \in Values, \A m \in Members(v) : IsHeight(m, Height(m))
  PROVE  IsHeight(v, 1 + MaxHeight(Members(v)))
<1> DEFINE H == MaxHeight(Members(v))
<1>1. /\ H \in Nat
      /\ \A m \in Members(v) : Height(m) <= H
      /\ H = 0 \/ \E m \in Members(v) : Height(m) = H
  <2>1. \A i \in 1 .. Len(v.members) : IsHeight(v.members[i], Height(v.members[i]))
    BY MemberFacts
  <2>2. v.members \in Seq(Values) /\ Members(v) = {v.members[i] : i \in 1 .. Len(v.members)}
    BY MemberFacts
  <2> DEFINE K == MaxHeight({v.members[i] : i \in 1 .. Len(v.members)})
  <2>3. /\ K \in Nat
        /\ \A i \in 1 .. Len(v.members) : Height(v.members[i]) <= K
        /\ K = 0 \/ \E i \in 1 .. Len(v.members) : Height(v.members[i]) = K
    BY <2>1, <2>2, MaxHeightFacts
  <2>4. H = K
    BY <2>2
  <2> HIDE DEF H, K
  <2>5. \A m \in Members(v) : Height(m) <= H
    <3> SUFFICES ASSUME NEW m \in Members(v) PROVE Height(m) <= H
      OBVIOUS
    <3>1. PICK i \in 1 .. Len(v.members) : m = v.members[i]
      BY <2>2
    <3> QED BY <2>3, <2>4, <3>1
  <2>6. ASSUME H # 0 PROVE \E m \in Members(v) : Height(m) = H
    <3>1. PICK i \in 1 .. Len(v.members) : Height(v.members[i]) = K
      BY <2>3, <2>4, <2>6
    <3>2. v.members[i] \in Members(v)
      BY <2>2
    <3> QED BY <2>4, <3>1, <3>2
  <2> QED BY <2>3, <2>4, <2>5, <2>6
<1> HIDE DEF H
<1>2. HasChain(v, H + 1)
  <2>1. CASE H = 0
    BY <2>1, ShortestChain
  <2>2. CASE H # 0
    <3>1. PICK m \in Members(v) : Height(m) = H
      BY <1>1, <2>2
    <3>2. HasChain(m, H)
      BY <3>1 DEF IsHeight
    <3> QED BY <1>1, <2>2, <3>2, LongerChain
  <2> QED BY <2>1, <2>2
<1>3. ~HasChain(v, H + 2)
  <2>1. \A m \in Members(v) : ~HasChain(m, H + 1)
    BY <1>1, MemberFacts, HeightIsUnique DEF IsHeight
  <2>2. HasChain(v, (H + 1) + 1) <=> \E m \in Members(v) : HasChain(m, H + 1)
    BY <1>1, LongerChain
  <2>3. (H + 1) + 1 = H + 2
    BY <1>1
  <2> QED BY <2>1, <2>2, <2>3
<1>4. 1 + H = H + 1 /\ (1 + H) + 1 = H + 2 /\ 1 + H \in Nat \ {0}
  BY <1>1
<1>5. IsHeight(v, 1 + H)
  BY <1>2, <1>3, <1>4 DEF IsHeight
<1> QED BY <1>5 DEF H

LEMMA HeightExists == \A v \in Values : IsHeight(v, Height(v))
<1> DEFINE S == {v \in Values : ~IsHeight(v, Height(v))}
<1> SUFFICES ASSUME S # {} PROVE FALSE
  OBVIOUS
<1>1. PICK v \in S : Members(v) \cap S = {}
  BY ValuesAreTrees
<1>2. \A m \in Members(v) : IsHeight(m, Height(m))
  BY <1>1, MemberFacts
<1>3. IsHeight(v, 1 + MaxHeight(Members(v)))
  BY <1>1, <1>2, HeightStep
<1>4. IsHeight(v, Height(v))
  BY <1>1, <1>3, HeightIsUnique
<1> QED BY <1>1, <1>4

LEMMA HeightEquation ==
  ASSUME NEW v \in Values
  PROVE  Height(v) = IF IsSet(v) THEN 1 + MaxHeight(Members(v)) ELSE 1
<1>1. Members(v) \subseteq Values
  BY MemberFacts
<1>2. Height(v) = 1 + MaxHeight(Members(v))
  BY <1>1, HeightExists, HeightStep, HeightIsUnique
<1>3. ASSUME ~IsSet(v) PROVE 1 + MaxHeight(Members(v)) = 1
  <2>1. Members(v) = {}
    BY <1>3, MemberFacts
  <2>2. {Height(m) : m \in Members(v)} \cup {0} = {0}
    BY <2>1
  <2>3. Max({0}) = 0
    BY DEF Max
  <2> QED BY <2>2, <2>3 DEF MaxHeight
<1> QED BY <1>2, <1>3

(* The recursion of context_value_depth is well defined.                   *)
LEMMA DepthEquation ==
  ContextValueDepth =
    [v \in Values |-> IF IsSet(v) THEN 1 + Max({ContextValueDepth[m] : m \in Members(v)} \cup {0})
                      ELSE 1]
<1> DEFINE f == [v \in Values |-> Height(v)]
<1>1. f = [v \in Values |-> IF IsSet(v) THEN 1 + Max({f[m] : m \in Members(v)} \cup {0}) ELSE 1]
  <2>1. ASSUME NEW v \in Values
        PROVE  {f[m] : m \in Members(v)} = {Height(m) : m \in Members(v)}
    BY MemberFacts
  <2> QED BY <2>1, HeightEquation DEF MaxHeight
<1> HIDE DEF f
<1> QED BY <1>1 DEF ContextValueDepth

(* context_value_depth is the length of the longest chain of members.      *)
LEMMA DepthIsHeight == \A v \in Values : ContextValueDepth[v] = Height(v)
<1> DEFINE S == {v \in Values : ContextValueDepth[v] # Height(v)}
<1> SUFFICES ASSUME S # {} PROVE FALSE
  OBVIOUS
<1>1. PICK v \in S : Members(v) \cap S = {}
  BY ValuesAreTrees
<1>2. \A m \in Members(v) : ContextValueDepth[m] = Height(m)
  BY <1>1, MemberFacts
<1>3. {ContextValueDepth[m] : m \in Members(v)} = {Height(m) : m \in Members(v)}
  BY <1>2
<1>4. ContextValueDepth[v] = IF IsSet(v) THEN 1 + MaxHeight(Members(v)) ELSE 1
  BY <1>1, <1>3, DepthEquation DEF MaxHeight
<1> QED BY <1>1, <1>4, HeightEquation

(* The depth of a context is beyond n exactly if its values nest deeper.   *)
THEOREM DepthIsNesting ==
  ASSUME NEW context \in Seq(Values), NEW n \in Nat
  PROVE  Depth(context) \in Nat /\ (Depth(context) > n <=> NestsDeeperThan(context, n))
<1> DEFINE C == {context[i] : i \in 1 .. Len(context)}
<1>1. Depth(context) = MaxHeight(C)
  <2>1. {ContextValueDepth[context[i]] : i \in DOMAIN context} = {Height(m) : m \in C}
    BY DepthIsHeight
  <2> QED BY <2>1 DEF Depth, MaxHeight
<1>2. /\ MaxHeight(C) \in Nat
      /\ \A i \in 1 .. Len(context) : Height(context[i]) <= MaxHeight(C)
      /\ MaxHeight(C) = 0 \/ \E i \in 1 .. Len(context) : Height(context[i]) = MaxHeight(C)
  <2>1. \A i \in 1 .. Len(context) : IsHeight(context[i], Height(context[i]))
    BY HeightExists
  <2> HIDE DEF C
  <2>2. LET H == MaxHeight({context[i] : i \in 1 .. Len(context)})
        IN  /\ H \in Nat
            /\ \A i \in 1 .. Len(context) : Height(context[i]) <= H
            /\ H = 0 \/ \E i \in 1 .. Len(context) : Height(context[i]) = H
    BY <2>1, MaxHeightFacts
  <2> QED BY <2>2 DEF C
<1>3. MaxHeight(C) > n <=> \E v \in C : Height(v) > n
  <2>1. \A v \in C : Height(v) \in Nat
    BY HeightExists DEF IsHeight
  <2> HIDE DEF C
  <2>2. (\A v \in C : Height(v) <= MaxHeight(C)) /\ (MaxHeight(C) = 0 \/ \E v \in C : Height(v) = MaxHeight(C))
    BY <1>2 DEF C
  <2> QED BY <1>2, <2>1, <2>2
<1>4. ASSUME NEW v \in C PROVE Height(v) > n <=> HasChain(v, n + 1)
  <2>1. IsHeight(v, Height(v)) /\ Height(v) \in Nat /\ n + 1 \in Nat \ {0}
    BY HeightExists DEF IsHeight
  <2>2. HasChain(v, n + 1) <=> n + 1 <= Height(v)
    BY <2>1, HeightIsUnique
  <2> QED BY <2>1, <2>2
<1>5. (\E v \in C : HasChain(v, n + 1)) <=> NestsDeeperThan(context, n)
  <2>1. Members([members |-> context]) = C
    BY DEF Members
  <2>2. (n + 1) - 1 = n
    OBVIOUS
  <2> QED BY <2>1, <2>2 DEF HasChain, IsChain, NestsDeeperThan
<1> QED BY <1>1, <1>2, <1>3, <1>4, <1>5

(* What the handler compares with the limits.                              *)
LEMMA AcceptableChecks ==
  ASSUME NEW check \in Checks
  PROVE  check \in Acceptable <=> (Context[check] # NoContext => WithinLimits(Context[check]))
<1>1. Context[check] = Measures(Contexts[check])
  BY MeasuredContexts
<1>2. CASE Contexts[check] = NoContext
  BY <1>1, <1>2 DEF Acceptable, Measures
<1>3. CASE Contexts[check] # NoContext
  <2> DEFINE context == Contexts[check]
             m == Context[check]
  <2>1. context \in Seq(Values)
    BY <1>3, ContextAssumption
  <2>2. m = [keys |-> Len(context), bytes |-> ContextBytes(context), depth |-> Depth(context)]
    BY <1>1, <1>3 DEF Measures
  <2>3. m \in [keys : Nat, bytes : Nat, depth : Nat] /\ m # NoContext
    BY <1>3, MeasuredContexts, ChecksAssumption
  <2>4. Len(context) \in Nat /\ ContextBytes(context) \in Nat
    BY <2>2, <2>3
  <2>5. m.depth <= MaxContextDepth <=> ~NestsDeeperThan(context, MaxContextDepth)
    BY <2>1, <2>2, LimitsAssumption, DepthIsNesting
  <2>6. m.keys <= MaxContextKeys <=> Len(context) \in 0 .. MaxContextKeys
    BY <2>2, <2>4, LimitsAssumption
  <2>7. m.bytes <= MaxContextBytes <=> ContextBytes(context) \in 0 .. MaxContextBytes
    BY <2>2, <2>4, LimitsAssumption
  <2> QED BY <1>3, <2>3, <2>5, <2>6, <2>7 DEF Acceptable, WithinLimits
<1> QED BY <1>2, <1>3

(* validate_request_context and eval_one refuse nothing at a limit and     *)
(* decide nothing past it, for contexts of any size and nesting, and the   *)
(* schema they ask for is that of the engine which decides.                *)
THEOREM ExactLimits == AuthSpec => []LimitsAreExact
<1>1. AuthInv => LimitsAreExact
  <2> SUFFICES ASSUME AuthInv, NEW c \in Clients, NEW i \in DOMAIN results[c]
               PROVE  LET check == request[c][i]
                          engineSchema == snapshot[c].engine.schema
                      IN  results[c][i].outcome = "success" <=>
                            /\ <<check, engineSchema>> \notin Nonconforming
                            /\ check \in Acceptable
                            /\ Strict /\ Contexts[check] # NoContext => engineSchema # Empty
    BY DEF LimitsAreExact
  <2> DEFINE check == request[c][i]
  <2>1. step[c] \in {"evaluating", "answered"} /\ i \in DOMAIN request[c] /\ request[c] \in AcceptedBatches
    BY DEF AuthInv, AuthTypeOK
  <2>2. check \in Checks
    BY <2>1, ChecksAssumption DEF AcceptedBatches
  <2>3. results[c][i] = EvalOne(snapshot[c], check)
    BY <2>1 DEF AuthInv, ResultsOfSnapshot
  <2>4. /\ snapshot[c].strict = Strict
        /\ Strict => (snapshot[c].schema_loaded <=> snapshot[c].engine.schema # Empty)
    BY <2>1 DEF AuthInv, SnapshotHasSchema
  <2>5. results[c][i].outcome = "success" <=>
          /\ ContextAllowed(check, snapshot[c].strict, snapshot[c].schema_loaded)
          /\ <<check, snapshot[c].engine.schema>> \notin Nonconforming
    BY <2>3 DEF EvalOne, Failed
  <2>6. Contexts[check] # NoContext <=> Context[check] # NoContext
    BY <2>2, MeasuredContexts
  <2>7. ContextAllowed(check, snapshot[c].strict, snapshot[c].schema_loaded) <=>
          /\ check \in Acceptable
          /\ Strict /\ Contexts[check] # NoContext => snapshot[c].engine.schema # Empty
    BY <2>2, <2>4, <2>6, AcceptableChecks DEF ContextAllowed
  <2> QED BY <2>5, <2>7
<1>2. QED
  BY <1>1, AuthInvariance, PTL

=============================================================================
