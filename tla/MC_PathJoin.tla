---------------------------- MODULE MC_PathJoin ----------------------------
(* Two vertices, two edges and one non-default label: enough for parallel  *)
(* edges, self loops and a labelled vertex left out of the join tree.      *)
EXTENDS PathJoin

MC_Vtx == {"v1", "v2"}
MC_Edg == {"e1", "e2"}
MC_VLabels == {"L"}
=============================================================================
