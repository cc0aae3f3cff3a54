-------------------------- MODULE MCBundleFetcher --------------------------
(* Archives for BundleFetcher: bFull with a schema, under two validators;  *)
(* bPlain without one, so that the strict mode rejects it; and one that no *)
(* mode accepts.                                                           *)
EXTENDS BundleFetcher

CONSTANTS empty, p1, p2, l1, lNone, s1, url, bad, t1, t2, t3, t4

MCPolicyTexts == {empty, p1, p2}
MCLabelTexts == {l1, lNone}
MCPolicyFits == {<<empty, s1>>, <<p1, s1>>}
MCLabelsFit == {<<l1, s1>>}
bFull == [policies |-> p1, labels |-> l1, schema |-> s1]
bPlain == [policies |-> p2, labels |-> lNone, schema |-> empty]
MCBundles == {bFull, bPlain}
MCTags == {t1, t2, t3, t4}
MCArchiveOf == [t \in MCTags |-> CASE t \in {t1, t2} -> bFull [] t = t3 -> bPlain [] t = t4 -> bad]
=============================================================================
