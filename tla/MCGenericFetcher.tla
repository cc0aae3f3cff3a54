-------------------------- MODULE MCGenericFetcher --------------------------
(* Documents for GenericFetcher: p1 fits s1, p2 fits s2, pBad does not     *)
(* parse; l1 fits s1 only.  Nobody lists policies.                         *)
EXTENDS GenericFetcher

CONSTANTS empty, p1, p2, pBad, l1, s1, s2, url

MCPolicyTexts == {empty, p1, p2, pBad}
MCCompiles == {empty, p1, p2}
MCPolicyFits == {<<empty, s1>>, <<empty, s2>>, <<p1, s1>>, <<p2, s2>>}
MCLabelsFit == {<<l1, s1>>}
MCBundles == {[policies |-> p1, labels |-> l1, schema |-> s1]}
=============================================================================
