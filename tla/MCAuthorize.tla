---------------------------- MODULE MCAuthorize ----------------------------
(* Checks for Authorize: k1 has a context at every limit, k2 has none and  *)
(* fails against s2, k3, k4 and k5 exceed one limit each: by a key, by a   *)
(* byte and by one level of nesting.  The batch of three is too long.      *)
(* Only uploads change the store.                                          *)
EXTENDS ContextLimits

CONSTANTS empty, p1, l1, s1, s2, k1, k2, k3, k4, k5

MCPolicyTexts == {empty, p1}
MCPolicyFits == {<<empty, s1>>, <<empty, s2>>, <<p1, s1>>}
MCLabelsFit == {<<l1, s1>>}
MCBundles == { [policies |-> p1, labels |-> l1, schema |-> s1],
               [policies |-> p1, labels |-> l1, schema |-> empty] }

Scalar == [kind |-> "scalar", members |-> << >>]
SetOf(members) == [kind |-> "set", members |-> members]
EmptySet == SetOf(<< >>)
Flat == SetOf(<<Scalar>>)
Pair == SetOf(<<Scalar, Scalar>>)
Nested == SetOf(<<Flat, EmptySet>>)

MCValues == {Scalar, EmptySet, Flat, Pair, Nested}

(* Two keys around values of 5 and 2 bytes make the 16 bytes of the limit. *)
MCContexts == [k \in {k1, k2, k3, k4, k5} |->
  CASE k = k1 -> <<Pair, EmptySet>>
    [] k = k2 -> NoContext
    [] k = k3 -> <<Scalar, Scalar, Scalar>>
    [] k = k4 -> <<Pair, Flat>>
    [] k = k5 -> <<Nested>>]

(* A definition of its own, which TLC evaluates once.                      *)
Measured == [k \in {k1, k2, k3, k4, k5} |-> Measures(MCContexts[k])]
MCContext == Measured

MCNonconforming == {<<k2, s2>>}
MCBatches == {<<k1, k2>>, <<k3, k4>>, <<k5>>, <<k1, k1, k1>>}
=============================================================================
