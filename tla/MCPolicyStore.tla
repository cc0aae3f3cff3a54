--------------------------- MODULE MCPolicyStore ---------------------------
(* Small documents for PolicyStore: p1 fits s1, p2 fits s2, pBad   *)
(* does not parse; l1 fits s1 only and lNone has no rules.   *)
EXTENDS PolicyStore

CONSTANTS empty, p1, p2, pBad, l1, lNone, s1, s2, k1, k2, k3, url

MCPolicyTexts == {empty, p1, p2, pBad}
MCCompiles == {empty, p1, p2}
MCLabelTexts == {l1, lNone}
MCSchemaTexts == {s1, s2}
MCPolicyFits == {<<empty, s1>>, <<empty, s2>>, <<p1, s1>>, <<p2, s2>>}
MCLabelsFit == {<<l1, s1>>, <<lNone, s1>>, <<lNone, s2>>}
MCBundles == { [policies |-> p1, labels |-> l1, schema |-> s1],
               [policies |-> p2, labels |-> lNone, schema |-> empty] }
=============================================================================
