---------------------------- MODULE BearerToken ----------------------------
(***************************************************************************)
(* valid_bearer_token (src/src/config.rs): one pass over the bytes of a    *)
(* token, used at startup for every configured token and by the            *)
(* middleware for every token that is presented.  Admission takes its      *)
(* verdict as given.  A byte is a letter (one of the characters of a       *)
(* token), the padding character or any other.                             *)
(***************************************************************************)
EXTENDS Naturals, Sequences

Bytes == {"letter", "padding", "other"}

VARIABLES
  token,
  next,              \* the byte to look at
  body_bytes,
  padding_started,
  verdict

bearerVars == <<token, next, body_bytes, padding_started, verdict>>

-----------------------------------------------------------------------------

ScanInit ==
  /\ token \in Seq(Bytes)
  /\ next = 1 /\ body_bytes = 0 /\ padding_started = FALSE
  /\ verdict = "open"

Looking == verdict = "open" /\ next \in DOMAIN token

SeePadding ==
  /\ Looking /\ token[next] = "padding"
  /\ padding_started' = TRUE /\ next' = next + 1
  /\ UNCHANGED <<token, body_bytes, verdict>>

SeeLetter ==
  /\ Looking /\ token[next] = "letter" /\ ~padding_started
  /\ body_bytes' = body_bytes + 1 /\ next' = next + 1
  /\ UNCHANGED <<token, padding_started, verdict>>

RefuseByte ==
  /\ Looking /\ token[next] # "padding" /\ (padding_started \/ token[next] # "letter")
  /\ verdict' = "invalid"
  /\ UNCHANGED <<token, next, body_bytes, padding_started>>

Decide ==
  /\ verdict = "open" /\ next \notin DOMAIN token
  /\ verdict' = IF body_bytes > 0 THEN "valid" ELSE "invalid"
  /\ UNCHANGED <<token, next, body_bytes, padding_started>>

ScanNext == SeePadding \/ SeeLetter \/ RefuseByte \/ Decide

BearerSpec == ScanInit /\ [][ScanNext]_bearerVars

-----------------------------------------------------------------------------
(* Properties.                                                             *)

(* The grammar 1*( letter ) *"=" of a b64token.                            *)
IsB64Token(t) ==
  \E n \in 1 .. Len(t) :
    /\ \A i \in 1 .. n : t[i] = "letter"
    /\ \A i \in n + 1 .. Len(t) : t[i] = "padding"

(* "Access tokens use the Bearer b64token character set" (docs/config.md): *)
(* the pass accepts exactly the words of that grammar, so that a token is  *)
(* never configured that no client could present, and padding alone, in    *)
(* front or inside is refused.                                             *)
VerdictIsGrammar ==
  /\ verdict = "valid" => IsB64Token(token)
  /\ verdict = "invalid" => ~IsB64Token(token)
=============================================================================
