-------------------------- MODULE MCUploadRequests -------------------------
(* One policy document with one of two schemas that it needs, in each form *)
(* of a body, and bodies that do not arrive.                               *)
EXTENDS UploadRequests, TLC

CONSTANTS p1, s1, s2

MCFits ==
  { [policies |-> p, schema |-> Empty] : p \in {p1, Empty, Blank} }
  \cup { [policies |-> p, schema |-> s] : p \in {Empty, Blank}, s \in {s1, s2} }
  \cup { [policies |-> p1, schema |-> s1] }

Body(type, form, text) == [type |-> type, form |-> form, text |-> text, arrives |-> "whole"]

MCBodies ==
  { Body("json", "wrapper", text) : text \in {p1, s1, Blank, Empty} }
  \cup { Body("json", "document", text) : text \in {s2, Junk} }
  \cup { Body("text", "document", text) : text \in {p1, s2, Blank} }
  \cup { Body("text", "wrapper", s1), Body("text", "neither", Junk), Body("json", "neither", Junk) }
  \cup { [Body("json", "wrapper", p1) EXCEPT !.arrives = how] : how \in {"oversized", "broken"} }

ClientSymmetry == Permutations(Clients)
=============================================================================
