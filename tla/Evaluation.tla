----------------------------- MODULE Evaluation -----------------------------
(***************************************************************************)
(* What one batch of authorization checks is answered (eval_one,           *)
(* validate_request_context and the responses of src/src/handlers.rs) from *)
(* one view of the store.  A check is opaque; its context is known by its  *)
(* measures, and Cedar's verdict by the parts of the engine it depends on. *)
(***************************************************************************)
EXTENDS Integers, Sequences, FiniteSets

CONSTANTS
  Checks,            \* authorization checks
  Batches,           \* the batches that clients send
  Context,           \* per check: [keys, bytes, depth] of its context, or NoContext
  NoContext,
  Nonconforming,     \* pairs <<check, schema>>: evaluation fails against the schema
  NoDecision,
  MaxBatchSize, MaxContextKeys, MaxContextBytes, MaxContextDepth

ASSUME LimitsAssumption ==
  /\ MaxBatchSize \in Nat /\ MaxContextKeys \in Nat
  /\ MaxContextBytes \in Nat /\ MaxContextDepth \in Nat

ASSUME ChecksAssumption ==
  /\ Batches \subseteq Seq(Checks)
  /\ Context \in [Checks -> [keys : Nat, bytes : Nat, depth : Nat] \cup {NoContext}]
  /\ NoContext \notin [keys : Nat, bytes : Nat, depth : Nat]

WithinLimits(m) ==
  m.keys <= MaxContextKeys /\ m.bytes <= MaxContextBytes /\ m.depth <= MaxContextDepth

(* A longer batch is refused before anything else happens.                 *)
AcceptedBatches == {b \in Batches : Len(b) <= MaxBatchSize}

(* validate_request_context: its error messages all fail the one check.    *)
ContextAllowed(check, strict, schema_loaded) ==
  Context[check] # NoContext =>
    WithinLimits(Context[check]) /\ (strict => schema_loaded)

(* The decision of an engine depends on its policies, schema and labels.   *)
Decision(engine, check) ==
  [dsl |-> engine.dsl, schema |-> engine.schema, labelers |-> engine.labelers, check |-> check]

Failed == [outcome |-> "failed", decision |-> NoDecision]

EvalOne(view, check) ==
  IF /\ ContextAllowed(check, view.strict, view.schema_loaded)
     /\ <<check, view.engine.schema>> \notin Nonconforming
  THEN [outcome |-> "success", decision |-> Decision(view.engine, check)]
  ELSE Failed

(* PolicyVersion: the digests of policies and labels; the engine behind    *)
(* them is told apart by loaded_at and generation.                         *)
Version(engine) == [hash |-> engine.dsl, label_set |-> engine.label_set]

Successes(results) == {i \in DOMAIN results : results[i].outcome = "success"}

Response(results, version) ==
  [ results    |-> results,
    version    |-> version,
    successful |-> Cardinality(Successes(results)),
    failed     |-> Cardinality(DOMAIN results) - Cardinality(Successes(results)) ]

(* The answer to a whole batch from one view.                              *)
Answer(view, batch) ==
  Response([i \in DOMAIN batch |-> EvalOne(view, batch[i])], Version(view.engine))

=============================================================================
