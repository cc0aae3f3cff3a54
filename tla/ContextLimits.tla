--------------------------- MODULE ContextLimits ---------------------------
(***************************************************************************)
(* The measures of the context of an authorization check                   *)
(* (validate_request_context in src/src/handlers.rs): its keys, bytes and  *)
(* nesting depth, computed from its values.  Evaluation takes the measures *)
(* of a check as given by Context; here they are those of Contexts.        *)
(***************************************************************************)
EXTENDS Authorize, SequencesExt

CONSTANTS
  Values,       \* attribute values: [kind, members], the members of sets among them
  Contexts,     \* per check: the values of its context's keys, or NoContext
  KeyBytes, ScalarBytes, SetBytes    \* JSON around a value: key, scalar, empty set

IsSet(v) == v.kind = "set"
Members(v) == {v.members[i] : i \in DOMAIN v.members}

ASSUME ContextAssumption ==
  /\ \A v \in Values : /\ v.kind \in {"scalar", "set"} /\ v.members \in Seq(Values)
                       /\ v.kind = "scalar" => v.members = << >>
  /\ {KeyBytes, ScalarBytes, SetBytes} \subseteq Nat
  /\ \A check \in Checks : Contexts[check] \in Seq(Values) \cup {NoContext}
  /\ NoContext \notin Seq(Values)

(* An AttrValue owns its members: going from member to member comes to an  *)
(* end.                                                                    *)
ASSUME ValuesAreTrees ==
  \A S \in SUBSET Values : S # {} => \E v \in S : Members(v) \cap S = {}

(* context_value_depth                                                     *)
ContextValueDepth[v \in Values] ==
  IF IsSet(v) THEN 1 + Max({ContextValueDepth[m] : m \in Members(v)} \cup {0}) ELSE 1

(* Fault: a set of flat values is as flat as its values.                   *)
DepthOfInnerSets(context) ==
  Max({ContextValueDepth[m] : m \in UNION {Members(context[i]) : i \in DOMAIN context}} \cup {0})

Depth(context) == Max({ContextValueDepth[context[i]] : i \in DOMAIN context} \cup {0})

Commas(s) == IF s = << >> THEN 0 ELSE Len(s) - 1

(* serde_json of a value: the members of a set in brackets, with commas.   *)
ValueBytes[v \in Values] ==
  IF IsSet(v)
  THEN SetBytes + Commas(v.members) + FoldSeq(LAMBDA m, n : ValueBytes[m] + n, 0, v.members)
  ELSE ScalarBytes

(* serde_json of the object: braces, keys with their colons, commas.       *)
ContextBytes(context) ==
  2 + Commas(context) + FoldSeq(LAMBDA v, n : KeyBytes + ValueBytes[v] + n, 0, context)

Measures(context) ==
  IF context = NoContext THEN NoContext
  ELSE [keys |-> Len(context), bytes |-> ContextBytes(context), depth |-> Depth(context)]

(* validate_request_context judges the measures of the check's context,    *)
(* and only a missing context has none.                                    *)
ASSUME MeasuredContexts == \A check \in Checks :
  /\ Context[check] = Measures(Contexts[check])
  /\ Context[check] = NoContext <=> Contexts[check] = NoContext

-----------------------------------------------------------------------------
(* Properties.                                                             *)

(* What nesting depth means, without the recursion of the code: a chain of *)
(* values, each a member of the one before.                                *)
NestsDeeperThan(context, n) ==
  \E chain \in [1 .. n + 1 -> Values] :
    /\ chain[1] \in Members([members |-> context])
    /\ \A i \in 1 .. n : chain[i + 1] \in Members(chain[i])

(* The checks whose context is within the limits, and those without one.   *)
Acceptable == {check \in Checks :
  LET context == Contexts[check]
  IN context # NoContext =>
       /\ Len(context) \in 0 .. MaxContextKeys
       /\ ContextBytes(context) \in 0 .. MaxContextBytes
       /\ ~NestsDeeperThan(context, MaxContextDepth)}

(* A check is evaluated exactly when it has no context, or one that has no *)
(* more keys and bytes and no longer chain of nested values than the       *)
(* limits say, and a schema where strict mode asks for one: nothing at a   *)
(* limit is refused, nothing past it is decided, and the schema is that of *)
(* the engine which decides.  validate_request_context and eval_one,       *)
(* handlers.rs:434-531.                                                    *)
LimitsAreExact ==
  \A c \in Clients : \A i \in DOMAIN results[c] :
    LET check == request[c][i]
        engineSchema == snapshot[c].engine.schema
    IN results[c][i].outcome = "success" <=>
         /\ <<check, engineSchema>> \notin Nonconforming
         /\ check \in Acceptable
         /\ Strict /\ Contexts[check] # NoContext => engineSchema # Empty
=============================================================================
