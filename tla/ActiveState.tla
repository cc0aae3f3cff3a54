---------------------------- MODULE ActiveState ----------------------------
(***************************************************************************)
(* What the policy store promises its readers, without saying how: there   *)
(* is one active state of three documents, it is replaced in one step,     *)
(* part by part or as a whole bundle, and what requests are evaluated      *)
(* against is always computed from that state ("the complete active        *)
(* state", docs/api.md; "applied atomically", docs/security.md).           *)
(***************************************************************************)
CONSTANTS
  Empty, Compiles, ValidLabels, RuleFree, ValidSchemas, PolicyFits, LabelsFit,
  Bundles, NoBundle, NoLabelers

VARIABLES
  mode,         \* "permissive" or "strict"
  active,       \* the documents that are reported
  runtime,      \* what decides requests
  provenance    \* the bundle that the whole state came from, if any

stateVars == <<mode, active, runtime, provenance>>

State == [ policies : Compiles,
           labels   : ValidLabels \cup {Empty},
           schema   : ValidSchemas \cup {Empty} ]

Fits(a) == <<a.policies, a.schema>> \in PolicyFits

Admissible(a) ==
  /\ a.labels # Empty /\ a.schema # Empty => <<a.labels, a.schema>> \in LabelsFit
  /\ mode = "strict" => Fits(a) \/ (a.schema = Empty /\ a.policies = Empty)

Runtime(a) ==
  [ dsl    |-> a.policies,
    schema |-> IF Fits(a) THEN a.schema ELSE Empty,
    labels |-> IF a.labels \in ValidLabels \ RuleFree THEN a.labels ELSE NoLabelers ]

Replace(a, origin) ==
  /\ a \in State /\ Admissible(a)
  /\ active' = a
  /\ runtime' = Runtime(a)
  /\ provenance' = origin
  /\ UNCHANGED mode

ReplacePart ==
  \/ \E p \in Compiles : Replace([active EXCEPT !.policies = p], NoBundle)
  \/ \E l \in ValidLabels : Replace([active EXCEPT !.labels = l], NoBundle)
  \/ \E s \in ValidSchemas : Replace([active EXCEPT !.schema = s], NoBundle)

ReplaceAll == \E b \in Bundles : Replace(b, b)

StateInit ==
  /\ mode \in {"permissive", "strict"}
  /\ active = [policies |-> Empty, labels |-> Empty, schema |-> Empty]
  /\ runtime = Runtime(active)
  /\ provenance = NoBundle

StateNext == ReplacePart \/ ReplaceAll

StateSpec == StateInit /\ [][StateNext]_stateVars
=============================================================================
