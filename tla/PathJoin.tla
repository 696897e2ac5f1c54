------------------------------ MODULE PathJoin ------------------------------
(***************************************************************************)
(* The join/filter predicate that MATCH compiles for one path              *)
(* (cypher_clause.c: transform_match_path, transform_match_entities,       *)
(* make_path_join_quals and the helpers they call).                        *)
(*                                                                         *)
(* A path is an alternating sequence vertex, edge, vertex, ...  Each       *)
(* element becomes a transform_entity; a vertex is in the join tree only   *)
(* when INCLUDE_NODE_IN_JOIN_TREE holds, edges always are.  Joins are      *)
(* driven by edges over the five-element window                           *)
(*   [prev_edge]-(prev_node)-[edge]-(next_node)-[next_edge]                *)
(* and a path of two or more edges gets the edge-uniqueness qual.          *)
(*                                                                         *)
(* The quals are kept as data (atoms over column references) so that they *)
(* can be evaluated on a small property graph and compared with what the   *)
(* pattern means: a row of the scanned relations satisfies the predicate   *)
(* iff the pattern has a match that agrees with the row.                   *)
(***************************************************************************)
EXTENDS Naturals, Sequences, FiniteSets

CONSTANTS
    Vtx,           \* vertex ids of the graph
    Edg,           \* edge ids of the graph
    VLabels,       \* vertex labels other than the default one
    DefaultLabel,  \* AG_DEFAULT_LABEL_VERTEX, parent of every vertex label
    Directions,    \* the edge directions patterns may use
    MaxEdges       \* longest path, in edges

NoFilter == "nofilter"          \* a NULL label filter

ASSUME PathJoinAssumption ==
    /\ Vtx # {} /\ Edg # {}
    /\ DefaultLabel \notin VLabels
    /\ NoFilter \notin VLabels \cup {DefaultLabel}
    /\ Directions \subseteq {"left", "right", "none"} /\ Directions # {}
    /\ MaxEdges \in Nat \ {0}

Dirs == {"left", "right", "none"}  \* CYPHER_REL_DIR_LEFT/RIGHT/NONE
Labels == VLabels \cup {DefaultLabel}

(***************************************************************************)
(* Parsed pattern elements.  A vertex carries its label and whether it has *)
(* a variable name (a property map has the same effect on the join tree:   *)
(* both satisfy INCLUDE_NODE_IN_JOIN_TREE).                                *)
(***************************************************************************)
VertexIn == [kind : {"vertex"}, named : BOOLEAN, label : Labels]
EdgeIn   == [kind : {"edge"}, dir : Directions]

PathsOfLen(n) ==
    {p \in [1..(2 * n + 1) -> VertexIn \cup EdgeIn] :
        \A i \in 1..(2 * n + 1) : (p[i] \in VertexIn) <=> (i % 2 = 1)}
Patterns == UNION {PathsOfLen(n) : n \in 0..MaxEdges}

(***************************************************************************)
(* The small property graphs the predicate is evaluated on.                *)
(***************************************************************************)
Graphs == [src : [Edg -> Vtx], dst : [Edg -> Vtx], vlabel : [Vtx -> Labels]]

VARIABLES
    path,      \* the cypher_path being compiled
    pathVar,   \* path->var_name # NULL
    graph,     \* the graph the compiled predicate is evaluated on
    entities,  \* the transform_entity list of the path
    k,         \* the edge make_path_join_quals is at (edge k is element 2k)
    quals,     \* the qual list built so far
    phase      \* "entities", "join", "dup" or "done"

vars == <<path, pathVar, graph, entities, k, quals, phase>>

NumEdges == (Len(path) - 1) \div 2

(***************************************************************************)
(* Column references and qual atoms.  An "in" atom is AEXPR_OP "=" when    *)
(* its right side has one term and AEXPR_IN when it has two; an "or" atom  *)
(* is the OR_EXPR of two AND_EXPR lists built for an undirected edge.      *)
(***************************************************************************)
Term(pos, col) == [pos |-> pos, col |-> col]
InAtom(t, ts) == [op |-> "in", lhs |-> t, rhs |-> ts]
LabelAtom(t, l) == [op |-> "label", lhs |-> t, rhs |-> l]

\* INCLUDE_NODE_IN_JOIN_TREE(path, node)
IncludeNodeInJoinTree(node) == pathVar \/ node.named

\* transform_match_entities: one transform_entity per element
MakeEntity(elem) ==
    IF elem.kind = "vertex"
    THEN [type |-> "vertex", inTree |-> IncludeNodeInJoinTree(elem),
          label |-> elem.label, dir |-> "none"]
    ELSE [type |-> "edge", inTree |-> TRUE, label |-> DefaultLabel,
          dir |-> elem.dir]

\* make_edge_quals: the endpoint(s) of edge e that face an entity on `side`
MakeEdgeQuals(e, side) ==
    LET leftDir  == IF side = "left" THEN "start" ELSE "end"
        rightDir == IF side = "left" THEN "end" ELSE "start"
    IN  CASE entities[e].dir = "left"  -> {Term(e, leftDir)}
          [] entities[e].dir = "right" -> {Term(e, rightDir)}
          [] entities[e].dir = "none"  -> {Term(e, leftDir), Term(e, rightDir)}

\* join_to_entity
JoinToEntity(e, qual, side) ==
    IF entities[e].type = "vertex"
    THEN InAtom(qual, {Term(e, "id")})
    ELSE InAtom(qual, MakeEdgeQuals(e, side))

\* make_directed_edge_join_conditions
MakeDirectedEdgeJoinConditions(prevEnt, nextEnt, prevQual, nextQual, prevFilter, nextFilter) ==
    (IF entities[prevEnt].inTree
     THEN <<JoinToEntity(prevEnt, prevQual, "left")>> ELSE <<>>)
    \o (IF entities[nextEnt].inTree
        THEN <<JoinToEntity(nextEnt, nextQual, "right")>> ELSE <<>>)
    \o (IF prevFilter \notin {NoFilter, DefaultLabel}
        THEN <<LabelAtom(prevQual, prevFilter)>> ELSE <<>>)
    \o (IF nextFilter \notin {NoFilter, DefaultLabel}
        THEN <<LabelAtom(nextQual, nextFilter)>> ELSE <<>>)

(* Fault-injection variant: a LEFT edge joins like a RIGHT one.           *)
MakeJoinConditionForEdgeLeftAsRight(p) ==
    LET prevNode == p - 1
        nextNode == p + 1
        prevEdge == IF p > 2 THEN p - 2 ELSE 0
        nextEdge == IF p + 2 <= Len(entities) THEN p + 2 ELSE 0
        prevFilter == IF ~entities[prevNode].inTree
                      THEN entities[prevNode].label ELSE NoFilter
        nextFilter == IF ~entities[nextNode].inTree /\ nextEdge = 0
                      THEN entities[nextNode].label ELSE NoFilter
        prevEnt == IF ~entities[prevNode].inTree /\ prevEdge # 0
                   THEN prevEdge ELSE prevNode
    IN  MakeDirectedEdgeJoinConditions(prevEnt, nextNode, Term(p, "start"),
                                       Term(p, "end"), prevFilter, nextFilter)

(* Fault-injection variant: the previous slot is always the previous      *)
(* vertex, even when that vertex is left out of the join tree.            *)
MakeJoinConditionForEdgeNoPrevEdge(p) ==
    LET prevNode == p - 1
        nextNode == p + 1
        nextEdge == IF p + 2 <= Len(entities) THEN p + 2 ELSE 0
        prevFilter == IF ~entities[prevNode].inTree
                      THEN entities[prevNode].label ELSE NoFilter
        nextFilter == IF ~entities[nextNode].inTree /\ nextEdge = 0
                      THEN entities[nextNode].label ELSE NoFilter
        start == Term(p, "start")
        end   == Term(p, "end")
    IN  IF entities[p].dir = "left"
        THEN MakeDirectedEdgeJoinConditions(prevNode, nextNode, end, start,
                                            prevFilter, nextFilter)
        ELSE MakeDirectedEdgeJoinConditions(prevNode, nextNode, start, end,
                                            prevFilter, nextFilter)

(***************************************************************************)
(* make_join_condition_for_edge for the edge at element p; prevEdge and    *)
(* nextEdge are 0 for a NULL window slot.                                  *)
(***************************************************************************)
MakeJoinConditionForEdge(p) ==
    LET prevNode == p - 1
        nextNode == p + 1
        prevEdge == IF p > 2 THEN p - 2 ELSE 0
        nextEdge == IF p + 2 <= Len(entities) THEN p + 2 ELSE 0
        prevFilter == IF ~entities[prevNode].inTree
                      THEN entities[prevNode].label ELSE NoFilter
        nextFilter == IF ~entities[nextNode].inTree /\ nextEdge = 0
                      THEN entities[nextNode].label ELSE NoFilter
        prevEnt == IF ~entities[prevNode].inTree /\ prevEdge # 0
                   THEN prevEdge ELSE prevNode
        nextEnt == IF ~entities[nextNode].inTree /\ nextEdge # 0
                   THEN nextEdge ELSE nextNode
        start == Term(p, "start")
        end   == Term(p, "end")
    IN  CASE entities[p].dir = "right" ->
               MakeDirectedEdgeJoinConditions(prevEnt, nextNode, start, end,
                                              prevFilter, nextFilter)
          [] entities[p].dir = "left" ->
               MakeDirectedEdgeJoinConditions(prevEnt, nextNode, end, start,
                                              prevFilter, nextFilter)
          [] entities[p].dir = "none" ->
               << [op |-> "or",
                   lhs |-> MakeDirectedEdgeJoinConditions(prevEnt, nextEnt,
                               start, end, prevFilter, nextFilter),
                   rhs |-> MakeDirectedEdgeJoinConditions(prevEnt, nextEnt,
                               end, start, prevFilter, nextFilter)] >>

\* Fault-injection variant: the edge loop runs one slot past the path.
PreventDuplicateEdgesOffByOne ==
    [op |-> "uniq", lhs |-> {Term(2 * i, "id") : i \in 1..(NumEdges + 1)},
     rhs |-> {}]

\* prevent_duplicate_edges: _ag_enforce_edge_uniqueness over every edge id
PreventDuplicateEdges ==
    [op |-> "uniq", lhs |-> {Term(2 * i, "id") : i \in 1..NumEdges},
     rhs |-> {}]

-----------------------------------------------------------------------------
Init ==
    /\ path \in Patterns
    /\ pathVar \in BOOLEAN
    /\ graph \in Graphs
    /\ entities = <<>>
    /\ k = 1
    /\ quals = <<>>
    /\ phase = "entities"

\* One iteration of the loop of transform_match_entities.
TransformEntity ==
    /\ phase = "entities"
    /\ entities' = Append(entities, MakeEntity(path[Len(entities) + 1]))
    /\ phase' = IF Len(entities) + 1 = Len(path) THEN "join" ELSE "entities"
    /\ UNCHANGED <<path, pathVar, graph, k, quals>>

\* One iteration of the loop of make_path_join_quals.
JoinEdge ==
    /\ phase = "join"
    /\ k <= NumEdges
    /\ quals' = quals \o MakeJoinConditionForEdge(2 * k)
    /\ k' = k + 1
    /\ phase' = IF k = NumEdges THEN "dup" ELSE "join"
    /\ UNCHANGED <<path, pathVar, graph, entities>>

\* A path without edges has no join quals (list_length(entities) < 3).
NoJoin ==
    /\ phase = "join"
    /\ NumEdges = 0
    /\ phase' = "dup"
    /\ UNCHANGED <<path, pathVar, graph, entities, k, quals>>

\* The tail of transform_match_path: the duplicate-edge qual.
DuplicateEdgeQual ==
    /\ phase = "dup"
    /\ quals' = IF Len(entities) > 3 THEN Append(quals, PreventDuplicateEdges)
                ELSE quals
    /\ phase' = "done"
    /\ UNCHANGED <<path, pathVar, graph, entities, k>>

Next == TransformEntity \/ JoinEdge \/ NoJoin \/ DuplicateEdgeQual

Spec == Init /\ [][Next]_vars

-----------------------------------------------------------------------------
(***************************************************************************)
(* Meaning of the compiled predicate.  A row binds every entity that is in *)
(* the join tree: a vertex to a vertex of its label's table (the default   *)
(* table holds every vertex), an edge to an edge.                          *)
(***************************************************************************)
TreePositions == {i \in 1..Len(entities) : entities[i].inTree}

Rows ==
    {r \in [TreePositions -> Vtx \cup Edg] :
        \A i \in TreePositions :
            IF entities[i].type = "vertex"
            THEN /\ r[i] \in Vtx
                 /\ entities[i].label # DefaultLabel =>
                        graph.vlabel[r[i]] = entities[i].label
            ELSE r[i] \in Edg}

Val(t, r) ==
    CASE entities[t.pos].type = "vertex" -> r[t.pos]
      [] t.col = "id"    -> r[t.pos]
      [] t.col = "start" -> graph.src[r[t.pos]]
      [] t.col = "end"   -> graph.dst[r[t.pos]]

BasicHolds(a, r) ==
    CASE a.op = "in"    -> \E t \in a.rhs : Val(a.lhs, r) = Val(t, r)
      [] a.op = "label" -> graph.vlabel[Val(a.lhs, r)] = a.rhs
      [] a.op = "uniq"  -> \A t1, t2 \in a.lhs :
                               t1 # t2 => Val(t1, r) # Val(t2, r)

AtomHolds(a, r) ==
    IF a.op = "or"
    THEN \/ \A i \in 1..Len(a.lhs) : BasicHolds(a.lhs[i], r)
         \/ \A i \in 1..Len(a.rhs) : BasicHolds(a.rhs[i], r)
    ELSE BasicHolds(a, r)

Accepts(r) == \A i \in 1..Len(quals) : AtomHolds(quals[i], r)

(***************************************************************************)
(* Reference semantics: the row extends to an assignment of every vertex   *)
(* of the pattern such that labels hold, every edge joins its neighbours   *)
(* in its direction (either way when undirected) and no edge is used       *)
(* twice in the path.                                                      *)
(***************************************************************************)
Connects(e, x, y, d) ==
    \/ d \in {"right", "none"} /\ graph.src[e] = x /\ graph.dst[e] = y
    \/ d \in {"left", "none"}  /\ graph.src[e] = y /\ graph.dst[e] = x

VertexPositions == {i \in 1..Len(entities) : i % 2 = 1}
EdgePositions == {i \in 1..Len(entities) : i % 2 = 0}

IsMatch(r, w) ==
        /\ \A i \in VertexPositions \cap TreePositions : w[i] = r[i]
        /\ \A i \in VertexPositions :
               entities[i].label # DefaultLabel =>
                   graph.vlabel[w[i]] = entities[i].label
        /\ \A i \in EdgePositions :
               Connects(r[i], w[i - 1], w[i + 1], entities[i].dir)
        /\ \A i, j \in EdgePositions : i # j => r[i] # r[j]

MatchesOf(r) == {w \in [VertexPositions -> Vtx] : IsMatch(r, w)}

PatternMatches(r) == MatchesOf(r) # {}

-----------------------------------------------------------------------------
Positions == 1..(2 * MaxEdges + 1)
TermType == [pos : Positions, col : {"id", "start", "end"}]
BasicAtomType ==
    [op : {"in"}, lhs : TermType, rhs : SUBSET TermType]
    \cup [op : {"label"}, lhs : TermType, rhs : Labels]
    \cup [op : {"uniq"}, lhs : SUBSET TermType, rhs : {{}}]
AtomType ==
    BasicAtomType
    \cup [op : {"or"}, lhs : Seq(BasicAtomType), rhs : Seq(BasicAtomType)]

TypeOK ==
    /\ path \in Patterns
    /\ pathVar \in BOOLEAN
    /\ graph \in Graphs
    /\ entities \in Seq([type : {"vertex", "edge"}, inTree : BOOLEAN,
                         label : Labels, dir : Dirs])
    /\ Len(entities) <= Len(path)
    /\ k \in 1..(MaxEdges + 1)
    /\ quals \in Seq(AtomType)
    /\ phase \in {"entities", "join", "dup", "done"}

(***************************************************************************)
(* Completeness: no result is lost.  Every row that is a real match of the *)
(* pattern satisfies the compiled WHERE predicate; in particular an        *)
(* undirected edge is tried in both orientations and a label filter moved  *)
(* to a neighbouring edge does not reject a correctly labelled vertex      *)
(* (make_join_condition_for_edge, make_directed_edge_join_conditions).    *)
(***************************************************************************)
Complete == phase = "done" => \A r \in Rows : PatternMatches(r) => Accepts(r)

(***************************************************************************)
(* Soundness: no spurious result.  Every row the compiled predicate        *)
(* accepts is a real match: the identity of a vertex left out of the join *)
(* tree is still enforced once between the two edges around it, its label *)
(* is checked, and no edge is used twice (prevent_duplicate_edges).        *)
(***************************************************************************)
Sound == phase = "done" => \A r \in Rows : Accepts(r) => PatternMatches(r)

(***************************************************************************)
(* Soundness for paths with at least one edge, where every vertex left     *)
(* out of the join tree has an adjoining edge that must encode it.         *)
(***************************************************************************)
EdgePathSound ==
    phase = "done" /\ NumEdges > 0 =>
        \A r \in Rows : Accepts(r) => PatternMatches(r)

(***************************************************************************)
(* One row per match: for a path with an edge, an accepted row determines *)
(* the vertices left out of the join tree, so the relation has as many     *)
(* rows as the pattern has matches, which is what a count over MATCH sees.*)
(***************************************************************************)
EdgePathRowPerMatch ==
    phase = "done" /\ NumEdges > 0 =>
        \A r \in Rows : Accepts(r) => Cardinality(MatchesOf(r)) <= 1

=============================================================================
