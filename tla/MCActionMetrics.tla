-------------------------- MODULE MCActionMetrics --------------------------
EXTENDS ActionMetrics, TLC

CONSTANTS t1, t2, view, viewEscaped, edit

MCThreads == {t1, t2}
MCActions == {view, viewEscaped, edit}

(* Two spellings of one action                                             *)
MCLabelOf == view :> "view" @@ viewEscaped :> "view" @@ edit :> "edit"

Symmetry == Permutations(MCThreads)
=============================================================================
