---------------------------- MODULE MC_Projection ---------------------------
(* Two plain expressions and one aggregate, up to three items and two     *)
(* ORDER BY keys: enough for a repeated item, a key that is projected,    *)
(* one that is hidden, a repeated key with either direction, and a        *)
(* grouped key that is also sorted on.                                    *)
EXTENDS Projection, TLC

CONSTANTS x, y, cnt

MC_Exprs == {x, y}
MC_Aggs == {cnt}
MC_Symmetry == Permutations(MC_Exprs)
=============================================================================
