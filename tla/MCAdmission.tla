---------------------------- MODULE MCAdmission ----------------------------
(* Settings and headers for Admission: n1 covers the client a, n2 covers   *)
(* the proxies p and q; b is covered by neither.                           *)
EXTENDS Admission

CONSTANTS a, b, p, q, n1, n2, t1, t2

MCCovers == [n \in {n1, n2} |-> IF n = n1 THEN {a} ELSE {p, q}]

MCAllowlists == {Unset, <<Blank>>, <<Star>>, <<n1>>, <<n1, Star>>, <<Blank, Blank>>}
MCProxies == {Unset, <<n2>>, <<n2, Malformed>>}
MCTokens == {Unset, <<Blank>>, <<t1>>, <<t1, Blank>>}
MCSettings == [allowlist : MCAllowlists, proxies : MCProxies, tokens : MCTokens]

MCClaims == { << >>, << <<a>> >>, << <<b, p>> >>, << <<a>>, <<b>> >>, << <<Malformed, a>> >> }
MCAuthorizations == { << >>, <<t1>>, <<t2>>, <<Malformed>>, <<t1, t2>> }
=============================================================================
