--------------------------- MODULE PathJoinProofs ---------------------------
(***************************************************************************)
(* Proofs about the join predicate MATCH compiles for a path, for every    *)
(* graph, every label set and every path length: the qual list is well     *)
(* typed, and it accepts every row that is a real match of the pattern     *)
(* (make_path_join_quals loses no result).                                 *)
(***************************************************************************)
EXTENDS PathJoin, SequenceTheorems, TLAPS

-----------------------------------------------------------------------------
(***************************************************************************)
(* The transform_entity list of a finished path: it alternates vertex,     *)
(* edge, ..., vertex, and every edge is in the join tree.                  *)
(***************************************************************************)
EntityT == [type : {"vertex", "edge"}, inTree : BOOLEAN, label : Labels, dir : Dirs]

Shape ==
    /\ graph \in Graphs
    /\ entities \in Seq(EntityT)
    /\ Len(entities) % 2 = 1
    /\ \A i \in 1 .. Len(entities) :
          /\ (entities[i].type = "vertex") <=> (i % 2 = 1)
          /\ entities[i].type = "edge" => entities[i].inTree

(* The entity list is built from the path, element by element. *)
EntitiesOfPath == \A i \in 1 .. Len(entities) : entities[i] = MakeEntity(path[i])

(* A row of the scanned relations together with a match that agrees with *)
(* it.                                                                     *)
MatchCtx(r, w) ==
    /\ r \in Rows
    /\ w \in [VertexPositions -> Vtx]
    /\ IsMatch(r, w)

(***************************************************************************)
(* The window of make_join_condition_for_edge for the edge at element p,  *)
(* named (the LET of MakeJoinConditionForEdge).                            *)
(***************************************************************************)
JPrevEdge(p) == IF p > 2 THEN p - 2 ELSE 0
JNextEdge(p) == IF p + 2 <= Len(entities) THEN p + 2 ELSE 0
JPrevFilter(p) == IF ~entities[p - 1].inTree THEN entities[p - 1].label ELSE NoFilter
JNextFilter(p) ==
    IF ~entities[p + 1].inTree /\ JNextEdge(p) = 0
    THEN entities[p + 1].label ELSE NoFilter
JPrevEnt(p) ==
    IF ~entities[p - 1].inTree /\ JPrevEdge(p) # 0 THEN JPrevEdge(p) ELSE p - 1
JNextEnt(p) ==
    IF ~entities[p + 1].inTree /\ JNextEdge(p) # 0 THEN JNextEdge(p) ELSE p + 1
Directed(p, ne, qs, qe) ==
    MakeDirectedEdgeJoinConditions(JPrevEnt(p), ne, qs, qe, JPrevFilter(p),
                                   JNextFilter(p))

(* Every atom of a list is a plain (not OR) atom that holds on the row. *)
AllBasic(s, r) == \A i \in 1 .. Len(s) : s[i].op # "or" /\ BasicHolds(s[i], r)

-----------------------------------------------------------------------------
(***************************************************************************)
(* The columns a qual reads, on a row that binds the entities: an edge's   *)
(* start and end are its endpoints, a vertex in the join tree is its       *)
(* match.                                                                   *)
(***************************************************************************)
LEMMA EntityAt ==
    ASSUME Shape, NEW i \in 1 .. Len(entities)
    PROVE  entities[i] \in EntityT
BY ElementOfSeq DEF Shape

LEMMA ValFacts ==
    ASSUME Shape, NEW r, NEW w, MatchCtx(r, w)
    PROVE  /\ \A p \in EdgePositions :
                 /\ r[p] \in Edg
                 /\ Val(Term(p, "start"), r) = graph.src[r[p]]
                 /\ Val(Term(p, "end"), r) = graph.dst[r[p]]
                 /\ Val(Term(p, "id"), r) = r[p]
           /\ \A v \in VertexPositions :
                 entities[v].inTree => Val(Term(v, "id"), r) = w[v]
<1>1. ASSUME NEW p \in EdgePositions
      PROVE  /\ r[p] \in Edg
             /\ Val(Term(p, "start"), r) = graph.src[r[p]]
             /\ Val(Term(p, "end"), r) = graph.dst[r[p]]
             /\ Val(Term(p, "id"), r) = r[p]
  <2>1. entities[p].type = "edge" /\ p \in TreePositions
    BY EntityAt DEF Shape, EdgePositions, TreePositions, EntityT
  <2>2. r[p] \in Edg
    BY <2>1 DEF MatchCtx, Rows
  <2>. QED
    BY <2>1, <2>2 DEF Val, Term
<1>2. ASSUME NEW v \in VertexPositions, entities[v].inTree
      PROVE  Val(Term(v, "id"), r) = w[v]
  <2>1. entities[v].type = "vertex" /\ v \in TreePositions
    BY <1>2 DEF Shape, VertexPositions, TreePositions
  <2>2. w[v] = r[v]
    BY <2>1 DEF MatchCtx, IsMatch
  <2>. QED
    BY <2>1, <2>2 DEF Val, Term
<1>. QED
  BY <1>1, <1>2

(***************************************************************************)
(* The neighbours of an edge position are vertex positions of the path.   *)
(***************************************************************************)
LEMMA EdgeNeighbours ==
    ASSUME Shape, NEW p \in EdgePositions
    PROVE  /\ p - 1 \in VertexPositions /\ p + 1 \in VertexPositions
           /\ p \in Nat /\ p >= 2 /\ p + 1 <= Len(entities)
<1>1. p \in 1 .. Len(entities) /\ p % 2 = 0 /\ Len(entities) % 2 = 1
  BY DEF EdgePositions, Shape
<1>2. p + 1 <= Len(entities)
  BY <1>1
<1>. QED
  BY <1>1, <1>2 DEF VertexPositions

(***************************************************************************)
(* An edge of a match joins the matched vertices around it.               *)
(***************************************************************************)
LEMMA EdgeConnects ==
    ASSUME Shape, NEW r, NEW w, MatchCtx(r, w), NEW p \in EdgePositions
    PROVE  /\ entities[p].dir \in Dirs
           /\ entities[p].dir \in {"right", "none"} =>
                 \/ graph.src[r[p]] = w[p - 1] /\ graph.dst[r[p]] = w[p + 1]
                 \/ entities[p].dir = "none" /\ graph.src[r[p]] = w[p + 1]
                    /\ graph.dst[r[p]] = w[p - 1]
           /\ entities[p].dir = "left" =>
                 graph.src[r[p]] = w[p + 1] /\ graph.dst[r[p]] = w[p - 1]
<1>1. entities[p] \in EntityT
  BY EntityAt DEF EdgePositions
<1>2. Connects(r[p], w[p - 1], w[p + 1], entities[p].dir)
  BY DEF MatchCtx, IsMatch
<1>. QED
  BY <1>1, <1>2 DEF Connects, EntityT, Dirs

(***************************************************************************)
(* The entity an edge joins on its left (the previous vertex, or the edge  *)
(* before it when that vertex is not in the join tree) is joined to the    *)
(* column that holds the previous vertex of the match.                     *)
(***************************************************************************)
LEMMA PrevJoinHolds ==
    ASSUME Shape, NEW r, NEW w, MatchCtx(r, w), NEW p \in EdgePositions,
           NEW qs, Val(qs, r) = w[p - 1], entities[JPrevEnt(p)].inTree
    PROVE  BasicHolds(JoinToEntity(JPrevEnt(p), qs, "left"), r)
<1>1. p - 1 \in VertexPositions /\ p \in Nat /\ p >= 2
  BY EdgeNeighbours
<1>2. CASE ~entities[p - 1].inTree /\ p > 2
  <2>1. JPrevEnt(p) = p - 2
    BY <1>2 DEF JPrevEnt, JPrevEdge
  <2>2. p - 2 \in EdgePositions /\ p - 1 = (p - 2) + 1 /\ entities[p - 2].type = "edge"
    <3>1. p - 2 \in EdgePositions
      BY <1>1, <1>2 DEF EdgePositions
    <3>2. entities[p - 2] \in EntityT
      BY <3>1, EntityAt DEF EdgePositions
    <3>. QED
      BY <3>1, <3>2, <1>1 DEF Shape, EntityT, EdgePositions
  <2>3. JoinToEntity(p - 2, qs, "left") = InAtom(qs, MakeEdgeQuals(p - 2, "left"))
    BY <2>2 DEF JoinToEntity
  <2>4. \E t \in MakeEdgeQuals(p - 2, "left") : Val(t, r) = w[p - 1]
    <3>1. /\ Val(Term(p - 2, "start"), r) = graph.src[r[p - 2]]
          /\ Val(Term(p - 2, "end"), r) = graph.dst[r[p - 2]]
      BY <2>2, ValFacts
    <3>. QED
      BY <2>2, <3>1, EdgeConnects DEF MakeEdgeQuals, Dirs
  <2>5. BasicHolds(InAtom(qs, MakeEdgeQuals(p - 2, "left")), r)
    BY <2>4 DEF BasicHolds, InAtom
  <2>. QED
    BY <2>1, <2>3, <2>5
<1>3. CASE ~(~entities[p - 1].inTree /\ p > 2)
  <2>1. JPrevEnt(p) = p - 1
    BY <1>3 DEF JPrevEnt, JPrevEdge
  <2>2. entities[p - 1].type = "vertex" /\ entities[p - 1].inTree
    BY <1>1, <2>1 DEF Shape, VertexPositions
  <2>3. Val(Term(p - 1, "id"), r) = w[p - 1]
    BY <1>1, <2>2, ValFacts
  <2>. QED
    BY <2>1, <2>2, <2>3 DEF JoinToEntity, BasicHolds, InAtom
<1>. QED
  BY <1>2, <1>3

(***************************************************************************)
(* The entity an edge joins on its right (the next vertex, or, for an      *)
(* undirected edge, the edge after it when that vertex is not in the join  *)
(* tree) is joined to the column that holds the next vertex of the match.  *)
(***************************************************************************)
LEMMA NextJoinHolds ==
    ASSUME Shape, NEW r, NEW w, MatchCtx(r, w), NEW p \in EdgePositions,
           NEW ne \in {p + 1, JNextEnt(p)},
           NEW qe, Val(qe, r) = w[p + 1], entities[ne].inTree
    PROVE  BasicHolds(JoinToEntity(ne, qe, "right"), r)
<1>1. p + 1 \in VertexPositions /\ p \in Nat /\ p >= 2
  BY EdgeNeighbours
<1>2. CASE ne # p + 1
  <2>1. ne = p + 2 /\ p + 2 <= Len(entities)
    BY <1>2 DEF JNextEnt, JNextEdge
  <2>2. ne \in EdgePositions /\ entities[ne].type = "edge"
    <3>1. ne \in EdgePositions
      BY <1>1, <2>1 DEF EdgePositions
    <3>2. entities[ne] \in EntityT
      BY <3>1, EntityAt DEF EdgePositions
    <3>. QED
      BY <3>1, <3>2, <1>1, <2>1 DEF Shape, EntityT, EdgePositions
  <2>3. JoinToEntity(ne, qe, "right") = InAtom(qe, MakeEdgeQuals(ne, "right"))
    BY <2>2 DEF JoinToEntity
  <2>4. \E t \in MakeEdgeQuals(ne, "right") : Val(t, r) = w[p + 1]
    <3>1. /\ Val(Term(ne, "start"), r) = graph.src[r[ne]]
          /\ Val(Term(ne, "end"), r) = graph.dst[r[ne]]
      BY <2>2, ValFacts
    <3>2. ne - 1 = p + 1
      BY <2>1, <1>1
    <3>. QED
      BY <2>2, <3>1, <3>2, EdgeConnects DEF MakeEdgeQuals, Dirs
  <2>5. BasicHolds(InAtom(qe, MakeEdgeQuals(ne, "right")), r)
    BY <2>4 DEF BasicHolds, InAtom
  <2>. QED
    BY <2>3, <2>5
<1>3. CASE ne = p + 1
  <2>1. entities[p + 1].type = "vertex" /\ entities[p + 1].inTree
    BY <1>1, <1>3 DEF Shape, VertexPositions
  <2>2. Val(Term(p + 1, "id"), r) = w[p + 1]
    BY <1>1, <2>1, ValFacts
  <2>. QED
    BY <1>3, <2>1, <2>2 DEF JoinToEntity, BasicHolds, InAtom
<1>. QED
  BY <1>2, <1>3

(***************************************************************************)
(* A label filter moved onto an edge's column checks the label of the      *)
(* vertex of the match that column holds.                                  *)
(***************************************************************************)
LEMMA FilterHolds ==
    ASSUME Shape, NEW r, NEW w, MatchCtx(r, w), NEW p \in EdgePositions,
           NEW qs, NEW qe, Val(qs, r) = w[p - 1], Val(qe, r) = w[p + 1]
    PROVE  /\ JPrevFilter(p) \notin {NoFilter, DefaultLabel} =>
                 BasicHolds(LabelAtom(qs, JPrevFilter(p)), r)
           /\ JNextFilter(p) \notin {NoFilter, DefaultLabel} =>
                 BasicHolds(LabelAtom(qe, JNextFilter(p)), r)
<1>1. p - 1 \in VertexPositions /\ p + 1 \in VertexPositions
  BY EdgeNeighbours
<1>2. \A v \in VertexPositions :
         entities[v].label # DefaultLabel => graph.vlabel[w[v]] = entities[v].label
  BY DEF MatchCtx, IsMatch
<1>3. JPrevFilter(p) \notin {NoFilter, DefaultLabel} =>
         graph.vlabel[w[p - 1]] = JPrevFilter(p)
  BY <1>1, <1>2 DEF JPrevFilter
<1>4. JNextFilter(p) \notin {NoFilter, DefaultLabel} =>
         graph.vlabel[w[p + 1]] = JNextFilter(p)
  BY <1>1, <1>2 DEF JNextFilter
<1>. QED
  BY <1>3, <1>4 DEF BasicHolds, LabelAtom

(***************************************************************************)
(* A list with at most one atom, and the concatenation of two lists, keep  *)
(* every atom holding.                                                     *)
(***************************************************************************)
LEMMA OptHolds ==
    ASSUME NEW S, NEW a \in S, NEW r, NEW c \in BOOLEAN,
           c => a.op # "or" /\ BasicHolds(a, r)
    PROVE  /\ (IF c THEN <<a>> ELSE <<>>) \in Seq(S)
           /\ AllBasic(IF c THEN <<a>> ELSE <<>>, r)
BY DEF AllBasic

LEMMA ConcatHolds ==
    ASSUME NEW S, NEW s \in Seq(S), NEW t \in Seq(S), NEW r,
           AllBasic(s, r), AllBasic(t, r)
    PROVE  s \o t \in Seq(S) /\ AllBasic(s \o t, r)
<1>1. /\ s \o t \in Seq(S)
      /\ Len(s \o t) = Len(s) + Len(t)
      /\ \A i \in 1 .. Len(s) + Len(t) :
            (s \o t)[i] = IF i <= Len(s) THEN s[i] ELSE t[i - Len(s)]
  BY ConcatProperties
<1>2. Len(s) \in Nat /\ Len(t) \in Nat
  BY LenProperties
<1>3. ASSUME NEW i \in 1 .. Len(s \o t)
      PROVE  (s \o t)[i].op # "or" /\ BasicHolds((s \o t)[i], r)
  <2>1. CASE i <= Len(s)
    BY <1>1, <1>2, <2>1 DEF AllBasic
  <2>2. CASE ~(i <= Len(s))
    <3>1. i - Len(s) \in 1 .. Len(t) /\ (s \o t)[i] = t[i - Len(s)]
      BY <1>1, <1>2, <2>2
    <3>. QED
      BY <3>1 DEF AllBasic
  <2>. QED
    BY <2>1, <2>2
<1>. QED
  BY <1>1, <1>3 DEF AllBasic

(***************************************************************************)
(* make_directed_edge_join_conditions, oriented so that qs holds the       *)
(* previous vertex of the match and qe the next one: every atom holds.     *)
(***************************************************************************)
LEMMA DirectedHolds ==
    ASSUME Shape, NEW r, NEW w, MatchCtx(r, w), NEW p \in EdgePositions,
           NEW ne \in {p + 1, JNextEnt(p)},
           NEW qs, NEW qe, Val(qs, r) = w[p - 1], Val(qe, r) = w[p + 1]
    PROVE  AllBasic(Directed(p, ne, qs, qe), r)
<1>. DEFINE A1 == JoinToEntity(JPrevEnt(p), qs, "left")
            A2 == JoinToEntity(ne, qe, "right")
            A3 == LabelAtom(qs, JPrevFilter(p))
            A4 == LabelAtom(qe, JNextFilter(p))
            S == {A1, A2, A3, A4}
            c1 == entities[JPrevEnt(p)].inTree
            c2 == entities[ne].inTree
            c3 == JPrevFilter(p) \notin {NoFilter, DefaultLabel}
            c4 == JNextFilter(p) \notin {NoFilter, DefaultLabel}
            O1 == IF c1 THEN <<A1>> ELSE <<>>
            O2 == IF c2 THEN <<A2>> ELSE <<>>
            O3 == IF c3 THEN <<A3>> ELSE <<>>
            O4 == IF c4 THEN <<A4>> ELSE <<>>
<1>1. Directed(p, ne, qs, qe) = ((O1 \o O2) \o O3) \o O4
  BY DEF Directed, MakeDirectedEdgeJoinConditions
<1>2. c1 \in BOOLEAN /\ c2 \in BOOLEAN
  <2>1. p \in Nat /\ p >= 2 /\ p + 1 <= Len(entities)
    BY EdgeNeighbours
  <2>2. JPrevEnt(p) \in 1 .. Len(entities) /\ ne \in 1 .. Len(entities)
    BY <2>1 DEF JPrevEnt, JPrevEdge, JNextEnt, JNextEdge
  <2>. QED
    BY <2>2, EntityAt DEF EntityT
<1>3. A1.op # "or" /\ A2.op # "or" /\ A3.op # "or" /\ A4.op # "or"
  BY DEF JoinToEntity, InAtom, LabelAtom
<1>4. O1 \in Seq(S) /\ AllBasic(O1, r)
  <2>1. c1 => BasicHolds(A1, r)
    BY PrevJoinHolds
  <2>. QED
    BY <1>2, <1>3, <2>1, OptHolds
<1>5. O2 \in Seq(S) /\ AllBasic(O2, r)
  <2>1. c2 => BasicHolds(A2, r)
    BY NextJoinHolds
  <2>. QED
    BY <1>2, <1>3, <2>1, OptHolds
<1>6. O3 \in Seq(S) /\ AllBasic(O3, r) /\ O4 \in Seq(S) /\ AllBasic(O4, r)
  <2>1. (c3 => BasicHolds(A3, r)) /\ (c4 => BasicHolds(A4, r))
    BY FilterHolds
  <2>. QED
    BY <1>3, <2>1, OptHolds
<1>7. (O1 \o O2) \in Seq(S) /\ AllBasic(O1 \o O2, r)
  BY <1>4, <1>5, ConcatHolds
<1>8. ((O1 \o O2) \o O3) \in Seq(S) /\ AllBasic((O1 \o O2) \o O3, r)
  BY <1>6, <1>7, ConcatHolds
<1>9. AllBasic(((O1 \o O2) \o O3) \o O4, r)
  BY <1>6, <1>8, ConcatHolds
<1>. QED
  BY <1>1, <1>9

(***************************************************************************)
(* make_join_condition_for_edge, by the direction of the edge.            *)
(***************************************************************************)
LEMMA JoinConditionUnfold ==
    ASSUME NEW p
    PROVE  /\ entities[p].dir = "right" =>
                 MakeJoinConditionForEdge(p) =
                     Directed(p, p + 1, Term(p, "start"), Term(p, "end"))
           /\ entities[p].dir = "left" =>
                 MakeJoinConditionForEdge(p) =
                     Directed(p, p + 1, Term(p, "end"), Term(p, "start"))
           /\ entities[p].dir = "none" =>
                 MakeJoinConditionForEdge(p) =
                     << [op |-> "or",
                         lhs |-> Directed(p, JNextEnt(p), Term(p, "start"), Term(p, "end")),
                         rhs |-> Directed(p, JNextEnt(p), Term(p, "end"), Term(p, "start"))] >>
BY DEF MakeJoinConditionForEdge, Directed, JPrevEnt, JNextEnt, JPrevEdge,
       JNextEdge, JPrevFilter, JNextFilter

(***************************************************************************)
(* The join conditions of one edge accept every row that is a match: a     *)
(* directed edge is read in its direction, an undirected one is tried in   *)
(* both, and one of the two orientations is the match's.                   *)
(***************************************************************************)
LEMMA EdgeCondHolds ==
    ASSUME Shape, NEW r, NEW w, MatchCtx(r, w), NEW p \in EdgePositions
    PROVE  \A i \in 1 .. Len(MakeJoinConditionForEdge(p)) :
              AtomHolds(MakeJoinConditionForEdge(p)[i], r)
<1>. DEFINE st == Term(p, "start")
            en == Term(p, "end")
<1>1. Val(st, r) = graph.src[r[p]] /\ Val(en, r) = graph.dst[r[p]]
  BY ValFacts
<1>2. entities[p].dir \in Dirs
  BY EdgeConnects
<1>3. CASE entities[p].dir = "right"
  <2>1. Val(st, r) = w[p - 1] /\ Val(en, r) = w[p + 1]
    BY <1>1, <1>3, EdgeConnects
  <2>2. AllBasic(Directed(p, p + 1, st, en), r)
    BY <2>1, DirectedHolds
  <2>. QED
    BY <1>3, <2>2, JoinConditionUnfold DEF AllBasic, AtomHolds
<1>4. CASE entities[p].dir = "left"
  <2>1. Val(en, r) = w[p - 1] /\ Val(st, r) = w[p + 1]
    BY <1>1, <1>4, EdgeConnects
  <2>2. AllBasic(Directed(p, p + 1, en, st), r)
    BY <2>1, DirectedHolds
  <2>. QED
    BY <1>4, <2>2, JoinConditionUnfold DEF AllBasic, AtomHolds
<1>5. CASE entities[p].dir = "none"
  <2>. DEFINE a == [op |-> "or",
                    lhs |-> Directed(p, JNextEnt(p), st, en),
                    rhs |-> Directed(p, JNextEnt(p), en, st)]
  <2>1. MakeJoinConditionForEdge(p) = <<a>>
    BY <1>5, JoinConditionUnfold
  <2>2. AllBasic(a.lhs, r) \/ AllBasic(a.rhs, r)
    <3>1. \/ Val(st, r) = w[p - 1] /\ Val(en, r) = w[p + 1]
          \/ Val(en, r) = w[p - 1] /\ Val(st, r) = w[p + 1]
      BY <1>1, <1>5, EdgeConnects
    <3>. QED
      BY <3>1, DirectedHolds
  <2>3. AtomHolds(a, r)
    BY <2>2 DEF AllBasic, AtomHolds
  <2>. QED
    BY <2>1, <2>3
<1>. QED
  BY <1>2, <1>3, <1>4, <1>5 DEF Dirs

(***************************************************************************)
(* A parsed path pattern is a sequence of odd length, at most the bound,   *)
(* with vertices exactly at the odd positions.                             *)
(***************************************************************************)
LEMMA PatternFacts ==
    ASSUME NEW pt \in Patterns
    PROVE  /\ pt \in Seq(VertexIn \cup EdgeIn)
           /\ Len(pt) % 2 = 1
           /\ Len(pt) <= 2 * MaxEdges + 1
           /\ \A i \in 1 .. Len(pt) : (pt[i] \in VertexIn) <=> (i % 2 = 1)
<1>1. PICK n \in 0 .. MaxEdges : pt \in PathsOfLen(n)
  BY DEF Patterns
<1>2. pt \in [1 .. (2 * n + 1) -> VertexIn \cup EdgeIn]
      /\ \A i \in 1 .. (2 * n + 1) : (pt[i] \in VertexIn) <=> (i % 2 = 1)
  BY <1>1 DEF PathsOfLen
<1>3. pt \in Seq(VertexIn \cup EdgeIn)
  <2>1. 2 * n + 1 \in Nat
    BY PathJoinAssumption
  <2>. QED
    BY <1>2, <2>1
<1>4. Len(pt) = 2 * n + 1
  <2>1. DOMAIN pt = 1 .. Len(pt) /\ Len(pt) \in Nat
    BY <1>3, LenProperties
  <2>2. 1 .. Len(pt) = 1 .. (2 * n + 1)
    BY <1>2, <2>1
  <2>3. 2 * n + 1 \in 1 .. Len(pt)
    BY <2>2, PathJoinAssumption
  <2>4. Len(pt) \in 1 .. Len(pt)
    BY <2>1, <2>3, PathJoinAssumption
  <2>5. Len(pt) \in 1 .. (2 * n + 1)
    BY <2>2, <2>4, Zenon
  <2>6. n \in Nat
    BY PathJoinAssumption
  <2>7. Len(pt) <= 2 * n + 1 /\ 2 * n + 1 <= Len(pt) /\ Len(pt) \in Nat
    BY <2>3, <2>5, <2>1, <2>6
  <2>. QED
    BY <2>7, <2>6
<1>5. Len(pt) % 2 = 1 /\ Len(pt) <= 2 * MaxEdges + 1
  <2>1. n \in Nat /\ n <= MaxEdges /\ MaxEdges \in Nat
    BY PathJoinAssumption
  <2>. QED
    BY <1>4, <2>1
<1>6. \A i \in 1 .. Len(pt) : (pt[i] \in VertexIn) <=> (i % 2 = 1)
  BY <1>2, <1>4, Zenon
<1>. QED
  BY <1>3, <1>5, <1>6

(***************************************************************************)
(* transform_match_entities: a vertex becomes a vertex entity, in the join *)
(* tree or not, an edge an edge entity that always is.                     *)
(***************************************************************************)
LEMMA MakeEntityFacts ==
    ASSUME pathVar \in BOOLEAN, NEW el \in VertexIn \cup EdgeIn
    PROVE  /\ MakeEntity(el) \in EntityT
           /\ (MakeEntity(el).type = "vertex") <=> (el \in VertexIn)
           /\ MakeEntity(el).type = "edge" => MakeEntity(el).inTree
<1>1. CASE el \in VertexIn
  BY <1>1 DEF MakeEntity, VertexIn, EntityT, IncludeNodeInJoinTree, Dirs, Labels
<1>2. CASE el \in EdgeIn
  <2>1. el.kind = "edge" /\ el.dir \in Dirs /\ el \notin VertexIn
    BY <1>2, PathJoinAssumption DEF EdgeIn, VertexIn, Dirs
  <2>. QED
    BY <2>1 DEF MakeEntity, EntityT, Labels
<1>. QED
  BY <1>1, <1>2

(***************************************************************************)
(* The entity list of a complete path has the shape the join conditions    *)
(* rely on, and its positions are in the bound of the qual terms.          *)
(***************************************************************************)
LEMMA ShapeOfPath ==
    ASSUME TypeOK, EntitiesOfPath, Len(entities) = Len(path)
    PROVE  Shape /\ Len(entities) <= 2 * MaxEdges + 1
<1>1. /\ path \in Seq(VertexIn \cup EdgeIn)
      /\ Len(path) % 2 = 1
      /\ Len(path) <= 2 * MaxEdges + 1
      /\ \A i \in 1 .. Len(path) : (path[i] \in VertexIn) <=> (i % 2 = 1)
  BY PatternFacts DEF TypeOK
<1>2. ASSUME NEW i \in 1 .. Len(entities)
      PROVE  /\ (entities[i].type = "vertex") <=> (i % 2 = 1)
             /\ entities[i].type = "edge" => entities[i].inTree
  <2>1. path[i] \in VertexIn \cup EdgeIn
    BY <1>1, ElementOfSeq
  <2>2. entities[i] = MakeEntity(path[i]) /\ pathVar \in BOOLEAN
    BY DEF EntitiesOfPath, TypeOK
  <2>3. /\ (MakeEntity(path[i]).type = "vertex") <=> (path[i] \in VertexIn)
        /\ MakeEntity(path[i]).type = "edge" => MakeEntity(path[i]).inTree
    BY <2>1, <2>2, MakeEntityFacts
  <2>. QED
    BY <1>1, <2>2, <2>3
<1>3. entities \in Seq(EntityT) /\ graph \in Graphs
  BY DEF TypeOK, EntityT
<1>. QED
  BY <1>1, <1>2, <1>3 DEF Shape

(***************************************************************************)
(* Typing of the join conditions: every term names a position of the path  *)
(* and every label filter is a label.                                      *)
(***************************************************************************)
LEMMA OptType ==
    ASSUME NEW S, NEW a, NEW c \in BOOLEAN, c => a \in S
    PROVE  (IF c THEN <<a>> ELSE <<>>) \in Seq(S)
OBVIOUS

LEMMA JoinToEntityType ==
    ASSUME Shape, Len(entities) <= 2 * MaxEdges + 1,
           NEW e \in 1 .. Len(entities), NEW q \in TermType, NEW side
    PROVE  JoinToEntity(e, q, side) \in BasicAtomType
<1>1. e \in Positions /\ entities[e] \in EntityT
  <2>1. Len(entities) \in Nat
    BY LenProperties DEF Shape
  <2>2. e \in Positions
    BY <2>1, PathJoinAssumption DEF Positions
  <2>. QED
    BY <2>2, EntityAt
<1>2. MakeEdgeQuals(e, side) \in SUBSET TermType
  BY <1>1 DEF MakeEdgeQuals, Term, TermType, EntityT, Dirs
<1>3. Term(e, "id") \in TermType
  BY <1>1 DEF Term, TermType
<1>. QED
  BY <1>2, <1>3 DEF JoinToEntity, InAtom, BasicAtomType

LEMMA DirectedType ==
    ASSUME Shape, Len(entities) <= 2 * MaxEdges + 1, NEW p \in EdgePositions,
           NEW ne \in {p + 1, JNextEnt(p)}, NEW qs \in TermType, NEW qe \in TermType
    PROVE  Directed(p, ne, qs, qe) \in Seq(BasicAtomType)
<1>. DEFINE A1 == JoinToEntity(JPrevEnt(p), qs, "left")
            A2 == JoinToEntity(ne, qe, "right")
            A3 == LabelAtom(qs, JPrevFilter(p))
            A4 == LabelAtom(qe, JNextFilter(p))
            c1 == entities[JPrevEnt(p)].inTree
            c2 == entities[ne].inTree
            c3 == JPrevFilter(p) \notin {NoFilter, DefaultLabel}
            c4 == JNextFilter(p) \notin {NoFilter, DefaultLabel}
            O1 == IF c1 THEN <<A1>> ELSE <<>>
            O2 == IF c2 THEN <<A2>> ELSE <<>>
            O3 == IF c3 THEN <<A3>> ELSE <<>>
            O4 == IF c4 THEN <<A4>> ELSE <<>>
            B == BasicAtomType
<1>1. Directed(p, ne, qs, qe) = ((O1 \o O2) \o O3) \o O4
  BY DEF Directed, MakeDirectedEdgeJoinConditions
<1>2. p \in Nat /\ p >= 2 /\ p + 1 <= Len(entities)
  BY EdgeNeighbours
<1>3. JPrevEnt(p) \in 1 .. Len(entities) /\ ne \in 1 .. Len(entities)
  BY <1>2 DEF JPrevEnt, JPrevEdge, JNextEnt, JNextEdge
<1>4. c1 \in BOOLEAN /\ c2 \in BOOLEAN
  BY <1>3, EntityAt DEF EntityT
<1>5. A1 \in B /\ A2 \in B
  BY <1>3, JoinToEntityType
<1>6. (c3 => A3 \in B) /\ (c4 => A4 \in B)
  <2>1. entities[p - 1] \in EntityT /\ entities[p + 1] \in EntityT
    BY <1>2, EntityAt
  <2>2. (c3 => JPrevFilter(p) \in Labels) /\ (c4 => JNextFilter(p) \in Labels)
    BY <2>1 DEF JPrevFilter, JNextFilter, EntityT
  <2>. QED
    BY <2>2 DEF LabelAtom, BasicAtomType
<1>7. O1 \in Seq(B) /\ O2 \in Seq(B) /\ O3 \in Seq(B) /\ O4 \in Seq(B)
  BY <1>4, <1>5, <1>6, OptType
<1>. QED
  BY <1>1, <1>7, ConcatProperties

LEMMA JoinConditionType ==
    ASSUME Shape, Len(entities) <= 2 * MaxEdges + 1, NEW p \in EdgePositions
    PROVE  MakeJoinConditionForEdge(p) \in Seq(AtomType)
<1>1. Term(p, "start") \in TermType /\ Term(p, "end") \in TermType
  <2>1. Len(entities) \in Nat
    BY LenProperties DEF Shape
  <2>. QED
    BY <2>1, PathJoinAssumption DEF EdgePositions, Positions, Term, TermType
<1>2. entities[p].dir \in Dirs
  BY EntityAt DEF EdgePositions, EntityT
<1>3. BasicAtomType \subseteq AtomType
  BY DEF AtomType
<1>4. Seq(BasicAtomType) \subseteq Seq(AtomType)
  BY <1>3, SeqMonotonic
<1>5. CASE entities[p].dir \in {"right", "left"}
  BY <1>1, <1>4, <1>5, DirectedType, JoinConditionUnfold
<1>6. CASE entities[p].dir = "none"
  <2>. DEFINE a == [op |-> "or",
                    lhs |-> Directed(p, JNextEnt(p), Term(p, "start"), Term(p, "end")),
                    rhs |-> Directed(p, JNextEnt(p), Term(p, "end"), Term(p, "start"))]
  <2>1. a \in AtomType
    BY <1>1, DirectedType DEF AtomType
  <2>2. MakeJoinConditionForEdge(p) = <<a>>
    BY <1>6, JoinConditionUnfold
  <2>. QED
    BY <2>1, <2>2
<1>. QED
  BY <1>2, <1>5, <1>6 DEF Dirs

(***************************************************************************)
(* The number of edges of the path, and the edge positions it names.       *)
(***************************************************************************)
LEMMA NumEdgesFacts ==
    ASSUME path \in Patterns
    PROVE  /\ NumEdges \in Nat
           /\ Len(path) = 2 * NumEdges + 1
           /\ NumEdges <= MaxEdges
<1>1. Len(path) \in Nat /\ Len(path) % 2 = 1 /\ Len(path) <= 2 * MaxEdges + 1
  BY PatternFacts, LenProperties
<1>. QED
  BY <1>1, PathJoinAssumption DEF NumEdges

LEMMA EdgeIndexFacts ==
    ASSUME Shape, path \in Patterns, Len(entities) = Len(path),
           NEW j \in 1 .. NumEdges
    PROVE  2 * j \in EdgePositions
<1>1. NumEdges \in Nat /\ Len(path) = 2 * NumEdges + 1
  BY NumEdgesFacts
<1>. QED
  BY <1>1 DEF EdgePositions

(***************************************************************************)
(* prevent_duplicate_edges: its terms are the edge ids of the path, and a  *)
(* match, which uses no edge twice, satisfies it.                          *)
(***************************************************************************)
LEMMA DuplicateQualType ==
    ASSUME path \in Patterns
    PROVE  PreventDuplicateEdges \in AtomType
<1>1. NumEdges \in Nat /\ NumEdges <= MaxEdges /\ MaxEdges \in Nat
  BY NumEdgesFacts, PathJoinAssumption
<1>2. \A i \in 1 .. NumEdges : Term(2 * i, "id") \in TermType
  BY <1>1 DEF Term, TermType, Positions
<1>. QED
  BY <1>2 DEF PreventDuplicateEdges, AtomType, BasicAtomType

LEMMA DuplicateQualHolds ==
    ASSUME Shape, path \in Patterns, Len(entities) = Len(path),
           NEW r, NEW w, MatchCtx(r, w)
    PROVE  AtomHolds(PreventDuplicateEdges, r)
<1>1. ASSUME NEW i \in 1 .. NumEdges, NEW j \in 1 .. NumEdges,
             Term(2 * i, "id") # Term(2 * j, "id")
      PROVE  Val(Term(2 * i, "id"), r) # Val(Term(2 * j, "id"), r)
  <2>1. 2 * i \in EdgePositions /\ 2 * j \in EdgePositions
    BY EdgeIndexFacts
  <2>2. 2 * i # 2 * j
    BY <1>1 DEF Term
  <2>3. r[2 * i] # r[2 * j]
    BY <2>1, <2>2 DEF MatchCtx, IsMatch
  <2>. QED
    BY <2>1, <2>3, ValFacts
<1>2. BasicHolds(PreventDuplicateEdges, r)
  BY <1>1 DEF BasicHolds, PreventDuplicateEdges
<1>. QED
  BY <1>2 DEF AtomHolds, PreventDuplicateEdges

-----------------------------------------------------------------------------
(***************************************************************************)
(* The inductive invariant.  The entity list is the path's, element by     *)
(* element; once it is complete every qual is one of the join conditions   *)
(* of an edge of the path or the duplicate-edge qual.                      *)
(***************************************************************************)
IsEdgeAtom(a) ==
    \E j \in 1 .. NumEdges :
        \E i \in 1 .. Len(MakeJoinConditionForEdge(2 * j)) :
            a = MakeJoinConditionForEdge(2 * j)[i]

QualsFromEdges ==
    \A i \in 1 .. Len(quals) : IsEdgeAtom(quals[i]) \/ quals[i] = PreventDuplicateEdges

Inv ==
    /\ TypeOK
    /\ EntitiesOfPath
    /\ phase = "entities" => Len(entities) < Len(path) /\ quals = <<>> /\ k = 1
    /\ phase # "entities" => Len(entities) = Len(path)
    /\ k <= NumEdges + 1
    /\ QualsFromEdges

LEMMA InvInit == Init => Inv
<1>. SUFFICES ASSUME Init PROVE Inv
  OBVIOUS
<1>1. Len(path) \in Nat /\ Len(path) % 2 = 1 /\ NumEdges \in Nat
  BY PatternFacts, LenProperties, NumEdgesFacts DEF Init
<1>2. MaxEdges \in Nat \ {0}
  BY PathJoinAssumption
<1>3. TypeOK
  BY <1>1, <1>2 DEF Init, TypeOK
<1>. QED
  BY <1>1, <1>3 DEF Init, Inv, EntitiesOfPath, QualsFromEdges

(***************************************************************************)
(* A step that leaves the path and the entity list alone leaves the join   *)
(* conditions of its edges alone.                                          *)
(***************************************************************************)
LEMMA JoinConditionUnchanged ==
    ASSUME entities' = entities
    PROVE  \A p : MakeJoinConditionForEdge(p)' = MakeJoinConditionForEdge(p)
BY DEF MakeJoinConditionForEdge, MakeDirectedEdgeJoinConditions,
       JoinToEntity, MakeEdgeQuals

LEMMA EdgeAtomUnchanged ==
    ASSUME path' = path, entities' = entities
    PROVE  /\ \A a : IsEdgeAtom(a)' <=> IsEdgeAtom(a)
           /\ PreventDuplicateEdges' = PreventDuplicateEdges
<1>1. \A p : MakeJoinConditionForEdge(p)' = MakeJoinConditionForEdge(p)
  BY JoinConditionUnchanged
<1>2. NumEdges' = NumEdges
  BY DEF NumEdges
<1>. QED
  BY <1>1, <1>2 DEF IsEdgeAtom, PreventDuplicateEdges

(***************************************************************************)
(* One iteration of transform_match_entities appends the entity of the     *)
(* next path element, and the qual list is still empty.                    *)
(***************************************************************************)
LEMMA TransformEntityStep ==
    ASSUME Inv, TransformEntity
    PROVE  Inv'
<1>. DEFINE L == Len(entities)
            el == path[L + 1]
<1>1. /\ path \in Seq(VertexIn \cup EdgeIn)
      /\ Len(path) \in Nat /\ Len(path) <= 2 * MaxEdges + 1
  BY PatternFacts, LenProperties DEF Inv, TypeOK
<1>2. phase = "entities" /\ L < Len(path) /\ quals = <<>> /\ k = 1
      /\ L \in Nat /\ entities \in Seq(EntityT)
  BY LenProperties DEF TransformEntity, Inv, TypeOK, EntityT
<1>3. el \in VertexIn \cup EdgeIn
  BY <1>1, <1>2, ElementOfSeq
<1>4. MakeEntity(el) \in EntityT
  BY <1>3, MakeEntityFacts DEF Inv, TypeOK
<1>5. /\ entities' = Append(entities, MakeEntity(el))
      /\ entities' \in Seq(EntityT)
      /\ Len(entities') = L + 1
      /\ \A i \in 1 .. L : entities'[i] = entities[i]
      /\ entities'[L + 1] = MakeEntity(el)
  BY <1>2, <1>4, AppendProperties DEF TransformEntity
<1>6. EntitiesOfPath'
  <2>1. ASSUME NEW i \in 1 .. L + 1 PROVE entities'[i] = MakeEntity(path[i])
    <3>1. CASE i = L + 1
      BY <1>5, <3>1
    <3>2. CASE i # L + 1
      BY <1>2, <1>5, <3>2 DEF Inv, EntitiesOfPath
    <3>. QED
      BY <3>1, <3>2
  <2>2. pathVar' = pathVar /\ path' = path
    BY DEF TransformEntity
  <2>3. \A x : MakeEntity(x)' = MakeEntity(x)
    BY <2>2 DEF MakeEntity, IncludeNodeInJoinTree
  <2>. QED
    BY <1>5, <2>1, <2>2, <2>3 DEF EntitiesOfPath
<1>7. /\ phase' = "entities" => Len(entities') < Len(path')
      /\ phase' # "entities" => Len(entities') = Len(path')
      /\ phase' \in {"entities", "join", "dup", "done"}
  BY <1>1, <1>2, <1>5 DEF TransformEntity
<1>8. TypeOK'
  BY <1>1, <1>2, <1>5, <1>7 DEF TransformEntity, Inv, TypeOK, EntityT
<1>9. k' <= NumEdges' + 1 /\ quals' = <<>> /\ k' = 1
  BY <1>2 DEF TransformEntity, Inv, NumEdges
<1>10. QualsFromEdges'
  BY <1>9 DEF QualsFromEdges
<1>. QED
  BY <1>6, <1>7, <1>8, <1>9, <1>10 DEF Inv

(* A step that leaves the path, the flag and the entity list alone keeps   *)
(* the entity list the path's.                                             *)
LEMMA EntitiesUnchanged ==
    ASSUME EntitiesOfPath, entities' = entities, path' = path, pathVar' = pathVar
    PROVE  EntitiesOfPath'
<1>1. \A x : MakeEntity(x)' = MakeEntity(x)
  BY DEF MakeEntity, IncludeNodeInJoinTree
<1>. QED
  BY <1>1 DEF EntitiesOfPath

(***************************************************************************)
(* One iteration of make_path_join_quals appends the join conditions of    *)
(* edge k, which is an edge of the path.                                   *)
(***************************************************************************)
LEMMA JoinEdgeStep ==
    ASSUME Inv, JoinEdge
    PROVE  Inv'
<1>. DEFINE c == MakeJoinConditionForEdge(2 * k)
<1>1. /\ phase = "join" /\ k \in 1 .. NumEdges
      /\ Len(entities) = Len(path) /\ TypeOK /\ EntitiesOfPath
      /\ NumEdges \in Nat /\ NumEdges <= MaxEdges
  BY NumEdgesFacts DEF JoinEdge, Inv, TypeOK
<1>2. Shape /\ Len(entities) <= 2 * MaxEdges + 1
  BY <1>1, ShapeOfPath
<1>3. 2 * k \in EdgePositions
  BY <1>1, <1>2, EdgeIndexFacts DEF TypeOK
<1>4. c \in Seq(AtomType)
  BY <1>2, <1>3, JoinConditionType
<1>5. /\ quals \in Seq(AtomType)
      /\ quals' = quals \o c
      /\ quals' \in Seq(AtomType)
      /\ Len(quals') = Len(quals) + Len(c)
      /\ \A i \in 1 .. Len(quals) + Len(c) :
            quals'[i] = IF i <= Len(quals) THEN quals[i] ELSE c[i - Len(quals)]
      /\ Len(quals) \in Nat /\ Len(c) \in Nat
  BY <1>1, <1>4, ConcatProperties, LenProperties DEF JoinEdge, TypeOK
<1>6. /\ path' = path /\ entities' = entities /\ pathVar' = pathVar
      /\ graph' = graph /\ k' = k + 1 /\ phase' \in {"join", "dup"}
  BY DEF JoinEdge
<1>7. TypeOK'
  BY <1>1, <1>5, <1>6, PathJoinAssumption DEF TypeOK
<1>8. EntitiesOfPath'
  BY <1>1, <1>6, EntitiesUnchanged
<1>9. QualsFromEdges'
  <2>1. \A a : IsEdgeAtom(a)' <=> IsEdgeAtom(a)
    BY <1>6, EdgeAtomUnchanged
  <2>2. PreventDuplicateEdges' = PreventDuplicateEdges
    BY <1>6, EdgeAtomUnchanged
  <2>3. ASSUME NEW i \in 1 .. Len(quals')
        PROVE  IsEdgeAtom(quals'[i]) \/ quals'[i] = PreventDuplicateEdges
    <3>1. CASE i <= Len(quals)
      BY <1>5, <3>1, <1>1 DEF Inv, QualsFromEdges
    <3>2. CASE ~(i <= Len(quals))
      <4>1. i - Len(quals) \in 1 .. Len(c) /\ quals'[i] = c[i - Len(quals)]
        BY <1>5, <3>2
      <4>. QED
        BY <4>1, <1>1 DEF IsEdgeAtom
    <3>. QED
      BY <3>1, <3>2
  <2>. QED
    BY <2>1, <2>2, <2>3 DEF QualsFromEdges
<1>10. NumEdges' = NumEdges /\ Len(entities') = Len(path') /\ k' <= NumEdges' + 1
  BY <1>1, <1>6 DEF NumEdges
<1>. QED
  BY <1>6, <1>7, <1>8, <1>9, <1>10 DEF Inv

(* A path without edges moves on with no join qual. *)
LEMMA NoJoinStep ==
    ASSUME Inv, NoJoin
    PROVE  Inv'
<1>1. /\ path' = path /\ entities' = entities /\ pathVar' = pathVar
      /\ graph' = graph /\ k' = k /\ quals' = quals /\ phase' = "dup"
      /\ phase = "join"
  BY DEF NoJoin
<1>2. EntitiesOfPath'
  BY <1>1, EntitiesUnchanged DEF Inv
<1>3. QualsFromEdges'
  BY <1>1, EdgeAtomUnchanged DEF Inv, QualsFromEdges
<1>. QED
  BY <1>1, <1>2, <1>3 DEF Inv, TypeOK, NumEdges

(***************************************************************************)
(* The tail of transform_match_path appends the duplicate-edge qual, or    *)
(* nothing for a path of one edge.                                         *)
(***************************************************************************)
LEMMA DuplicateEdgeQualStep ==
    ASSUME Inv, DuplicateEdgeQual
    PROVE  Inv'
<1>1. /\ path' = path /\ entities' = entities /\ pathVar' = pathVar
      /\ graph' = graph /\ k' = k /\ phase' = "done" /\ phase = "dup"
  BY DEF DuplicateEdgeQual
<1>2. PreventDuplicateEdges \in AtomType /\ quals \in Seq(AtomType)
  BY DuplicateQualType DEF Inv, TypeOK
<1>3. CASE Len(entities) > 3
  <2>1. /\ quals' = Append(quals, PreventDuplicateEdges)
        /\ quals' \in Seq(AtomType)
        /\ Len(quals') = Len(quals) + 1
        /\ \A i \in 1 .. Len(quals) : quals'[i] = quals[i]
        /\ quals'[Len(quals) + 1] = PreventDuplicateEdges
        /\ Len(quals) \in Nat
    BY <1>2, <1>3, AppendProperties, LenProperties DEF DuplicateEdgeQual
  <2>2. QualsFromEdges'
    <3>1. ASSUME NEW i \in 1 .. Len(quals')
          PROVE  IsEdgeAtom(quals'[i]) \/ quals'[i] = PreventDuplicateEdges
      <4>1. CASE i = Len(quals) + 1
        BY <2>1, <4>1
      <4>2. CASE i # Len(quals) + 1
        BY <2>1, <4>2 DEF Inv, QualsFromEdges
      <4>. QED
        BY <4>1, <4>2
    <3>. QED
      BY <1>1, <3>1, EdgeAtomUnchanged DEF QualsFromEdges
  <2>3. TypeOK'
    BY <1>1, <2>1 DEF Inv, TypeOK
  <2>. QED
    BY <1>1, <2>2, <2>3, EntitiesUnchanged DEF Inv, NumEdges
<1>4. CASE ~(Len(entities) > 3)
  <2>1. quals' = quals
    BY <1>4 DEF DuplicateEdgeQual
  <2>2. QualsFromEdges'
    BY <1>1, <2>1, EdgeAtomUnchanged DEF Inv, QualsFromEdges
  <2>. QED
    BY <1>1, <2>1, <2>2, EntitiesUnchanged DEF Inv, TypeOK, NumEdges
<1>. QED
  BY <1>3, <1>4

LEMMA InvStep == Inv /\ [Next]_vars => Inv'
<1>. SUFFICES ASSUME Inv, [Next]_vars PROVE Inv'
  OBVIOUS
<1>1. CASE TransformEntity
  BY <1>1, TransformEntityStep
<1>2. CASE JoinEdge
  BY <1>2, JoinEdgeStep
<1>3. CASE NoJoin
  BY <1>3, NoJoinStep
<1>4. CASE DuplicateEdgeQual
  BY <1>4, DuplicateEdgeQualStep
<1>5. CASE UNCHANGED vars
  <2>1. /\ path' = path /\ entities' = entities /\ pathVar' = pathVar
        /\ graph' = graph /\ k' = k /\ quals' = quals /\ phase' = phase
    BY <1>5 DEF vars
  <2>2. EntitiesOfPath' /\ QualsFromEdges'
    BY <2>1, EntitiesUnchanged, EdgeAtomUnchanged DEF Inv, QualsFromEdges
  <2>. QED
    BY <2>1, <2>2 DEF Inv, TypeOK, NumEdges
<1>. QED
  BY <1>1, <1>2, <1>3, <1>4, <1>5 DEF Next

-----------------------------------------------------------------------------
(***************************************************************************)
(* The qual list, the entity list and the loop index stay well typed, for  *)
(* every bound and every path (the qual terms name positions of the path). *)
(***************************************************************************)
THEOREM TypeCorrect == Spec => []TypeOK
<1>1. Inv => TypeOK
  BY DEF Inv
<1>. QED
  BY <1>1, InvInit, InvStep, PTL DEF Spec

(***************************************************************************)
(* Completeness of the compiled MATCH predicate: once transform_match_path *)
(* is done, every row of the scanned relations that agrees with a real     *)
(* match of the pattern passes every qual, whatever the graph, the labels, *)
(* the directions and the length of the path.                              *)
(***************************************************************************)
LEMMA InvComplete == Inv => Complete
<1>. SUFFICES ASSUME Inv, phase = "done", NEW r \in Rows, PatternMatches(r)
              PROVE  Accepts(r)
  BY DEF Complete
<1>1. PICK w \in [VertexPositions -> Vtx] : IsMatch(r, w)
  BY DEF PatternMatches, MatchesOf
<1>2. MatchCtx(r, w)
  BY <1>1 DEF MatchCtx
<1>3. Len(entities) = Len(path) /\ TypeOK /\ EntitiesOfPath
  BY DEF Inv
<1>4. Shape
  BY <1>3, ShapeOfPath
<1>5. ASSUME NEW i \in 1 .. Len(quals) PROVE AtomHolds(quals[i], r)
  <2>1. IsEdgeAtom(quals[i]) \/ quals[i] = PreventDuplicateEdges
    BY DEF Inv, QualsFromEdges
  <2>2. CASE IsEdgeAtom(quals[i])
    <3>1. PICK j \in 1 .. NumEdges :
              \E i2 \in 1 .. Len(MakeJoinConditionForEdge(2 * j)) :
                  quals[i] = MakeJoinConditionForEdge(2 * j)[i2]
      BY <2>2 DEF IsEdgeAtom
    <3>2. 2 * j \in EdgePositions
      BY <1>3, <1>4, EdgeIndexFacts DEF TypeOK
    <3>. QED
      BY <1>2, <1>4, <3>1, <3>2, EdgeCondHolds
  <2>3. CASE quals[i] = PreventDuplicateEdges
    BY <1>2, <1>3, <1>4, <2>3, DuplicateQualHolds DEF TypeOK
  <2>. QED
    BY <2>1, <2>2, <2>3
<1>. QED
  BY <1>5 DEF Accepts

THEOREM CompleteHolds == Spec => []Complete
<1>1. Inv => Complete
  BY InvComplete
<1>. QED
  BY <1>1, InvInit, InvStep, PTL DEF Spec

-----------------------------------------------------------------------------
(***************************************************************************)
(* For soundness the invariant also needs the converse: once the loop of   *)
(* make_path_join_quals is past an edge, every join condition of that edge *)
(* is in the qual list, and a finished path of two or more edges has the   *)
(* duplicate-edge qual.                                                    *)
(***************************************************************************)
EdgeAtomsOf(m, qs) ==
    \A j \in 1 .. m :
        \A i \in 1 .. Len(MakeJoinConditionForEdge(2 * j)) :
            \E q \in 1 .. Len(qs) : qs[q] = MakeJoinConditionForEdge(2 * j)[i]

SoundInv ==
    /\ Inv
    /\ phase = "join" => EdgeAtomsOf(k - 1, quals)
    /\ phase \in {"dup", "done"} => EdgeAtomsOf(NumEdges, quals)
    /\ phase = "done" /\ Len(entities) > 3 =>
          \E q \in 1 .. Len(quals) : quals[q] = PreventDuplicateEdges

(* A list that keeps every qual where it was keeps the join conditions     *)
(* already in the list.                                                    *)
LEMMA EdgeAtomsKept ==
    ASSUME NEW m, NEW qs, NEW qs2, EdgeAtomsOf(m, qs),
           Len(qs) \in Nat, Len(qs2) \in Nat, Len(qs) <= Len(qs2),
           \A q \in 1 .. Len(qs) : qs2[q] = qs[q]
    PROVE  EdgeAtomsOf(m, qs2)
<1>1. \A q \in 1 .. Len(qs) : q \in 1 .. Len(qs2)
  OBVIOUS
<1>. QED
  BY <1>1 DEF EdgeAtomsOf

LEMMA SoundInvInit == Init => SoundInv
BY InvInit DEF Init, SoundInv

LEMMA SoundInvStep == SoundInv /\ [Next]_vars => SoundInv'
<1>. SUFFICES ASSUME SoundInv, [Next]_vars PROVE SoundInv'
  OBVIOUS
<1>1. Inv'
  BY InvStep DEF SoundInv
<1>2. quals \in Seq(AtomType) /\ Len(quals) \in Nat
  BY LenProperties DEF SoundInv, Inv, TypeOK
<1>4. CASE TransformEntity
  <2>1. phase' \in {"entities", "join"} /\ k' = 1
    BY <1>4 DEF TransformEntity, SoundInv, Inv
  <2>2. phase' = "join" => EdgeAtomsOf(k - 1, quals)'
    BY <2>1 DEF EdgeAtomsOf
  <2>. QED
    BY <1>1, <2>1, <2>2 DEF SoundInv
<1>5. CASE JoinEdge
  <2>. DEFINE c == MakeJoinConditionForEdge(2 * k)
  <2>1. /\ phase = "join" /\ k \in 1 .. NumEdges /\ EdgeAtomsOf(k - 1, quals)
        /\ entities' = entities /\ k' = k + 1 /\ path' = path
        /\ phase' = IF k = NumEdges THEN "dup" ELSE "join"
        /\ NumEdges \in Nat
    BY <1>5, NumEdgesFacts DEF JoinEdge, SoundInv, Inv, TypeOK
  <2>2. c \in Seq(AtomType)
    <3>1. Len(entities) = Len(path) /\ TypeOK /\ EntitiesOfPath
      BY <2>1 DEF SoundInv, Inv
    <3>2. Shape /\ Len(entities) <= 2 * MaxEdges + 1
      BY <3>1, ShapeOfPath
    <3>3. 2 * k \in EdgePositions
      BY <2>1, <3>1, <3>2, EdgeIndexFacts DEF TypeOK
    <3>. QED
      BY <3>2, <3>3, JoinConditionType
  <2>3. /\ Len(quals') = Len(quals) + Len(c)
        /\ \A i \in 1 .. Len(quals) + Len(c) :
              quals'[i] = IF i <= Len(quals) THEN quals[i] ELSE c[i - Len(quals)]
        /\ Len(c) \in Nat
    <3>1. quals' = quals \o c
      BY <1>5 DEF JoinEdge
    <3>. QED
      BY <1>2, <2>2, <3>1, ConcatProperties, LenProperties
  <2>4. EdgeAtomsOf(k, quals')
    <3>1. EdgeAtomsOf(k - 1, quals')
      <4>1. /\ Len(quals') \in Nat /\ Len(quals) <= Len(quals')
            /\ \A q \in 1 .. Len(quals) : quals'[q] = quals[q]
        BY <1>2, <2>3
      <4>. QED
        BY <1>2, <2>1, <4>1, EdgeAtomsKept
    <3>2. \A i \in 1 .. Len(c) : \E q \in 1 .. Len(quals') : quals'[q] = c[i]
      <4>1. SUFFICES ASSUME NEW i \in 1 .. Len(c)
                     PROVE  \E q \in 1 .. Len(quals') : quals'[q] = c[i]
        OBVIOUS
      <4>2. Len(quals) + i \in 1 .. Len(quals') /\ quals'[Len(quals) + i] = c[i]
        BY <1>2, <2>3
      <4>. QED
        BY <4>2
    <3>3. ASSUME NEW j \in 1 .. k,
                 NEW i \in 1 .. Len(MakeJoinConditionForEdge(2 * j))
          PROVE  \E q \in 1 .. Len(quals') : quals'[q] = MakeJoinConditionForEdge(2 * j)[i]
      <4>1. CASE j = k
        BY <3>2, <4>1
      <4>2. CASE j # k
        <5>1. j \in 1 .. (k - 1)
          BY <2>1, <4>2
        <5>. QED
          BY <3>1, <5>1 DEF EdgeAtomsOf
      <4>. QED
        BY <4>1, <4>2
    <3>. QED
      BY <3>3 DEF EdgeAtomsOf
  <2>5. NumEdges' = NumEdges /\ k' - 1 = k
    BY <2>1 DEF NumEdges
  <2>6. EdgeAtomsOf(k - 1, quals)' /\ (k = NumEdges => EdgeAtomsOf(NumEdges, quals)')
    <3>1. \A p : MakeJoinConditionForEdge(p)' = MakeJoinConditionForEdge(p)
      BY <2>1, JoinConditionUnchanged
    <3>. QED
      BY <2>4, <2>5, <3>1 DEF EdgeAtomsOf
  <2>. QED
    BY <1>1, <2>1, <2>5, <2>6 DEF SoundInv
<1>6. CASE NoJoin
  <2>1. phase' = "dup" /\ NumEdges = 0 /\ path' = path
    BY <1>6 DEF NoJoin
  <2>2. NumEdges' = 0
    BY <2>1 DEF NumEdges
  <2>3. EdgeAtomsOf(NumEdges, quals)'
    BY <2>2 DEF EdgeAtomsOf
  <2>. QED
    BY <1>1, <2>1, <2>3 DEF SoundInv
<1>7. CASE DuplicateEdgeQual
  <2>1. /\ phase = "dup" /\ phase' = "done" /\ EdgeAtomsOf(NumEdges, quals)
        /\ entities' = entities /\ path' = path
    BY <1>7 DEF DuplicateEdgeQual, SoundInv
  <2>2. NumEdges' = NumEdges /\ NumEdges \in Nat
    BY <2>1, NumEdgesFacts DEF NumEdges, SoundInv, Inv, TypeOK
  <2>3. PreventDuplicateEdges' = PreventDuplicateEdges
    BY <2>1, EdgeAtomUnchanged
  <2>4. CASE Len(entities) > 3
    <3>0. quals' = Append(quals, PreventDuplicateEdges)
      BY <1>7, <2>4 DEF DuplicateEdgeQual
    <3>1. /\ Len(quals') = Len(quals) + 1
          /\ \A i \in 1 .. Len(quals) : quals'[i] = quals[i]
          /\ quals'[Len(quals) + 1] = PreventDuplicateEdges
      <4>1. PreventDuplicateEdges \in AtomType
        BY DuplicateQualType DEF SoundInv, Inv, TypeOK
      <4>. QED
        BY <1>2, <3>0, <4>1, AppendProperties
    <3>2. EdgeAtomsOf(NumEdges, quals')
      BY <1>2, <2>1, <3>1, EdgeAtomsKept
    <3>3. EdgeAtomsOf(NumEdges, quals)'
      BY <2>1, <2>2, <3>2, JoinConditionUnchanged DEF EdgeAtomsOf
    <3>4. \E q \in 1 .. Len(quals') : quals'[q] = PreventDuplicateEdges'
      BY <1>2, <2>3, <3>1
    <3>. QED
      BY <1>1, <2>1, <3>3, <3>4 DEF SoundInv
  <2>5. CASE ~(Len(entities) > 3)
    <3>1. quals' = quals
      BY <1>7, <2>5 DEF DuplicateEdgeQual
    <3>2. EdgeAtomsOf(NumEdges, quals)'
      BY <2>1, <2>2, <3>1, JoinConditionUnchanged DEF EdgeAtomsOf
    <3>. QED
      BY <1>1, <2>1, <2>5, <3>2 DEF SoundInv
  <2>. QED
    BY <2>4, <2>5
<1>8. CASE UNCHANGED vars
  <2>1. /\ path' = path /\ entities' = entities /\ quals' = quals
        /\ k' = k /\ phase' = phase
    BY <1>8 DEF vars
  <2>2. /\ EdgeAtomsOf(k - 1, quals) => EdgeAtomsOf(k - 1, quals)'
        /\ EdgeAtomsOf(NumEdges, quals) => EdgeAtomsOf(NumEdges, quals)'
    <3>1. NumEdges' = NumEdges
      BY <2>1 DEF NumEdges
    <3>. QED
      BY <2>1, <3>1, JoinConditionUnchanged DEF EdgeAtomsOf
  <2>3. PreventDuplicateEdges' = PreventDuplicateEdges
    BY <2>1, EdgeAtomUnchanged
  <2>. QED
    BY <1>1, <2>1, <2>2, <2>3 DEF SoundInv
<1>. QED
  BY <1>4, <1>5, <1>6, <1>7, <1>8 DEF Next

-----------------------------------------------------------------------------
(***************************************************************************)
(* Soundness for directed paths.  From a row the predicate accepts, the    *)
(* match is read off the row: a vertex in the join tree is its column, a   *)
(* vertex left out is the end of the edge before it that faces it (the     *)
(* first vertex: the start-side end of the first edge).                    *)
(***************************************************************************)
DirectedShape ==
    \A i \in 1 .. Len(entities) :
        entities[i].type = "edge" => entities[i].dir \in {"left", "right"}

(* The column of edge p that holds the vertex before it, and after it. *)
QS(p) == IF entities[p].dir = "right" THEN Term(p, "start") ELSE Term(p, "end")
QE(p) == IF entities[p].dir = "right" THEN Term(p, "end") ELSE Term(p, "start")

(* The vertex of the graph at that end of the edge the row binds. *)
Tl(p, r) == IF entities[p].dir = "right" THEN graph.src[r[p]] ELSE graph.dst[r[p]]
Hd(p, r) == IF entities[p].dir = "right" THEN graph.dst[r[p]] ELSE graph.src[r[p]]

Witness(r) ==
    [v \in VertexPositions |->
        IF entities[v].inTree THEN r[v]
        ELSE IF v > 1 THEN Hd(v - 1, r) ELSE Tl(2, r)]

(* Every qual of a list holds on the row. *)
AllHold(s, r) == \A i \in 1 .. Len(s) : AtomHolds(s[i], r)

LEMMA RowValFacts ==
    ASSUME Shape, NEW r \in Rows, NEW p \in EdgePositions
    PROVE  /\ r[p] \in Edg
           /\ graph.src[r[p]] \in Vtx /\ graph.dst[r[p]] \in Vtx
           /\ Val(Term(p, "start"), r) = graph.src[r[p]]
           /\ Val(Term(p, "end"), r) = graph.dst[r[p]]
           /\ Val(Term(p, "id"), r) = r[p]
<1>1. entities[p].type = "edge" /\ p \in TreePositions
  BY EntityAt DEF Shape, EdgePositions, TreePositions, EntityT
<1>2. r[p] \in Edg
  BY <1>1 DEF Rows
<1>3. graph.src[r[p]] \in Vtx /\ graph.dst[r[p]] \in Vtx
  BY <1>2 DEF Shape, Graphs
<1>. QED
  BY <1>1, <1>2, <1>3 DEF Val, Term

LEMMA OrientedVal ==
    ASSUME Shape, DirectedShape, NEW r \in Rows, NEW p \in EdgePositions
    PROVE  /\ Val(QS(p), r) = Tl(p, r) /\ Val(QE(p), r) = Hd(p, r)
           /\ Tl(p, r) \in Vtx /\ Hd(p, r) \in Vtx
           /\ entities[p].dir \in {"left", "right"}
<1>1. entities[p].dir \in {"left", "right"}
  BY EntityAt DEF DirectedShape, Shape, EdgePositions, EntityT
<1>. QED
  BY <1>1, RowValFacts DEF QS, QE, Tl, Hd

(* A list whose quals all hold: so do those of each part of it. *)
LEMMA ConcatSplit ==
    ASSUME NEW S, NEW s \in Seq(S), NEW t \in Seq(S), NEW r, AllHold(s \o t, r)
    PROVE  AllHold(s, r) /\ AllHold(t, r)
<1>1. /\ Len(s \o t) = Len(s) + Len(t)
      /\ \A i \in 1 .. Len(s) + Len(t) :
            (s \o t)[i] = IF i <= Len(s) THEN s[i] ELSE t[i - Len(s)]
      /\ Len(s) \in Nat /\ Len(t) \in Nat
  BY ConcatProperties, LenProperties
<1>2. AllHold(s, r)
  <2>1. ASSUME NEW i \in 1 .. Len(s) PROVE AtomHolds(s[i], r)
    <3>1. i \in 1 .. Len(s \o t) /\ (s \o t)[i] = s[i]
      BY <1>1
    <3>. QED
      BY <3>1 DEF AllHold
  <2>. QED
    BY <2>1 DEF AllHold
<1>3. AllHold(t, r)
  <2>1. ASSUME NEW i \in 1 .. Len(t) PROVE AtomHolds(t[i], r)
    <3>1. Len(s) + i \in 1 .. Len(s \o t) /\ (s \o t)[Len(s) + i] = t[i]
      BY <1>1
    <3>. QED
      BY <3>1 DEF AllHold
  <2>. QED
    BY <2>1 DEF AllHold
<1>. QED
  BY <1>2, <1>3

LEMMA OptSplit ==
    ASSUME NEW a, NEW c \in BOOLEAN, NEW r,
           AllHold(IF c THEN <<a>> ELSE <<>>, r), a.op # "or"
    PROVE  c => BasicHolds(a, r)
BY DEF AllHold, AtomHolds

(* Four lists joined, all of whose quals hold: so do those of each list. *)
LEMMA ConcatSplit4 ==
    ASSUME NEW S, NEW r, NEW s1 \in Seq(S), NEW s2 \in Seq(S),
           NEW s3 \in Seq(S), NEW s4 \in Seq(S),
           AllHold(((s1 \o s2) \o s3) \o s4, r)
    PROVE  AllHold(s1, r) /\ AllHold(s2, r) /\ AllHold(s3, r) /\ AllHold(s4, r)
<1>1. (s1 \o s2) \in Seq(S) /\ ((s1 \o s2) \o s3) \in Seq(S)
  BY ConcatProperties
<1>2. AllHold((s1 \o s2) \o s3, r) /\ AllHold(s4, r)
  BY <1>1, ConcatSplit
<1>3. AllHold(s1 \o s2, r) /\ AllHold(s3, r)
  BY <1>1, <1>2, ConcatSplit
<1>. QED
  BY <1>2, <1>3, ConcatSplit

(***************************************************************************)
(* The join conditions of a directed edge, when they all hold, give each   *)
(* of the atoms make_directed_edge_join_conditions may have added.         *)
(***************************************************************************)
LEMMA DirectedAtoms ==
    ASSUME Shape, DirectedShape, NEW r \in Rows, NEW p \in EdgePositions,
           AllHold(MakeJoinConditionForEdge(p), r)
    PROVE  /\ entities[JPrevEnt(p)].inTree =>
                 BasicHolds(JoinToEntity(JPrevEnt(p), QS(p), "left"), r)
           /\ entities[p + 1].inTree =>
                 BasicHolds(JoinToEntity(p + 1, QE(p), "right"), r)
           /\ JPrevFilter(p) \notin {NoFilter, DefaultLabel} =>
                 BasicHolds(LabelAtom(QS(p), JPrevFilter(p)), r)
           /\ JNextFilter(p) \notin {NoFilter, DefaultLabel} =>
                 BasicHolds(LabelAtom(QE(p), JNextFilter(p)), r)
<1>. DEFINE qs == QS(p)
            qe == QE(p)
            A1 == JoinToEntity(JPrevEnt(p), qs, "left")
            A2 == JoinToEntity(p + 1, qe, "right")
            A3 == LabelAtom(qs, JPrevFilter(p))
            A4 == LabelAtom(qe, JNextFilter(p))
            S == {A1, A2, A3, A4}
            c1 == entities[JPrevEnt(p)].inTree
            c2 == entities[p + 1].inTree
            c3 == JPrevFilter(p) \notin {NoFilter, DefaultLabel}
            c4 == JNextFilter(p) \notin {NoFilter, DefaultLabel}
            O1 == IF c1 THEN <<A1>> ELSE <<>>
            O2 == IF c2 THEN <<A2>> ELSE <<>>
            O3 == IF c3 THEN <<A3>> ELSE <<>>
            O4 == IF c4 THEN <<A4>> ELSE <<>>
<1>1. MakeJoinConditionForEdge(p) = ((O1 \o O2) \o O3) \o O4
  <2>1. entities[p].dir \in {"left", "right"}
    BY OrientedVal
  <2>2. MakeJoinConditionForEdge(p) = Directed(p, p + 1, qs, qe)
    BY <2>1, JoinConditionUnfold DEF QS, QE
  <2>. QED
    BY <2>2 DEF Directed, MakeDirectedEdgeJoinConditions
<1>2. c1 \in BOOLEAN /\ c2 \in BOOLEAN
  <2>1. p \in Nat /\ p >= 2 /\ p + 1 <= Len(entities)
    BY EdgeNeighbours
  <2>2. JPrevEnt(p) \in 1 .. Len(entities) /\ p + 1 \in 1 .. Len(entities)
    BY <2>1 DEF JPrevEnt, JPrevEdge
  <2>. QED
    BY <2>2, EntityAt DEF EntityT
<1>3. A1.op # "or" /\ A2.op # "or" /\ A3.op # "or" /\ A4.op # "or"
  BY DEF JoinToEntity, InAtom, LabelAtom
<1>4. O1 \in Seq(S) /\ O2 \in Seq(S) /\ O3 \in Seq(S) /\ O4 \in Seq(S)
  BY <1>2, OptType
<1>5. AllHold(O1, r) /\ AllHold(O2, r) /\ AllHold(O3, r) /\ AllHold(O4, r)
  <2>1. AllHold(((O1 \o O2) \o O3) \o O4, r)
    BY <1>1
  <2>. HIDE DEF O1, O2, O3, O4, S
  <2>. QED
    BY <1>4, <2>1, ConcatSplit4
<1>. QED
  BY <1>2, <1>3, <1>5, OptSplit

(* Every join condition of every edge holds on the row. *)
AcceptedEdges(r) ==
    \A p \in EdgePositions : AllHold(MakeJoinConditionForEdge(p), r)

(***************************************************************************)
(* The end of edge p that faces the vertex before it is that vertex of the *)
(* witness: its column when the vertex is in the join tree, else the end   *)
(* of the edge before, which the join to prev_edge equates it with.        *)
(***************************************************************************)
LEMMA PrevLink ==
    ASSUME Shape, DirectedShape, NEW r \in Rows, AcceptedEdges(r),
           NEW p \in EdgePositions
    PROVE  Tl(p, r) = Witness(r)[p - 1]
<1>1. p - 1 \in VertexPositions /\ p \in Nat /\ p >= 2
  BY EdgeNeighbours
<1>2. Val(QS(p), r) = Tl(p, r)
  BY OrientedVal
<1>3. AllHold(MakeJoinConditionForEdge(p), r)
  BY DEF AcceptedEdges
<1>4. entities[p - 1] \in EntityT /\ entities[p - 1].type = "vertex"
  BY <1>1, EntityAt DEF Shape, VertexPositions
<1>5. CASE entities[p - 1].inTree
  <2>1. JPrevEnt(p) = p - 1
    BY <1>5 DEF JPrevEnt
  <2>2. BasicHolds(InAtom(QS(p), {Term(p - 1, "id")}), r)
    BY <1>3, <1>4, <1>5, <2>1, DirectedAtoms DEF JoinToEntity
  <2>3. Val(QS(p), r) = Val(Term(p - 1, "id"), r)
    BY <2>2 DEF BasicHolds, InAtom
  <2>4. Val(Term(p - 1, "id"), r) = r[p - 1]
    BY <1>4 DEF Val, Term
  <2>. QED
    BY <1>1, <1>2, <1>5, <2>3, <2>4 DEF Witness
<1>6. CASE ~entities[p - 1].inTree /\ p > 2
  <2>1. p - 2 \in EdgePositions
    BY <1>1, <1>6 DEF EdgePositions, VertexPositions
  <2>2. JPrevEnt(p) = p - 2
    BY <1>6 DEF JPrevEnt, JPrevEdge
  <2>3. entities[p - 2] \in EntityT /\ entities[p - 2].type = "edge"
        /\ entities[p - 2].inTree /\ entities[p - 2].dir \in {"left", "right"}
    BY <2>1, EntityAt DEF Shape, EdgePositions, DirectedShape, EntityT
  <2>4. MakeEdgeQuals(p - 2, "left") = {QE(p - 2)}
    BY <2>3 DEF MakeEdgeQuals, QE
  <2>5. BasicHolds(InAtom(QS(p), {QE(p - 2)}), r)
    BY <1>3, <2>2, <2>3, <2>4, DirectedAtoms DEF JoinToEntity
  <2>6. Val(QS(p), r) = Hd(p - 2, r)
    BY <2>1, <2>5, OrientedVal DEF BasicHolds, InAtom
  <2>. QED
    BY <1>1, <1>2, <1>6, <2>6 DEF Witness
<1>7. CASE ~entities[p - 1].inTree /\ p = 2
  BY <1>1, <1>7 DEF Witness
<1>. QED
  BY <1>1, <1>5, <1>6, <1>7

(* The end of edge p that faces the vertex after it is that vertex of the *)
(* witness.                                                                *)
LEMMA NextLink ==
    ASSUME Shape, DirectedShape, NEW r \in Rows, AcceptedEdges(r),
           NEW p \in EdgePositions
    PROVE  Hd(p, r) = Witness(r)[p + 1]
<1>1. p + 1 \in VertexPositions /\ p \in Nat /\ p >= 2
  BY EdgeNeighbours
<1>2. Val(QE(p), r) = Hd(p, r)
  BY OrientedVal
<1>3. entities[p + 1] \in EntityT /\ entities[p + 1].type = "vertex"
  BY <1>1, EntityAt DEF Shape, VertexPositions
<1>4. CASE entities[p + 1].inTree
  <2>1. BasicHolds(InAtom(QE(p), {Term(p + 1, "id")}), r)
    BY <1>3, <1>4, DirectedAtoms DEF JoinToEntity, AcceptedEdges
  <2>2. Val(QE(p), r) = Val(Term(p + 1, "id"), r)
    BY <2>1 DEF BasicHolds, InAtom
  <2>3. Val(Term(p + 1, "id"), r) = r[p + 1]
    BY <1>3 DEF Val, Term
  <2>. QED
    BY <1>1, <1>2, <1>4, <2>2, <2>3 DEF Witness
<1>5. CASE ~entities[p + 1].inTree
  BY <1>1, <1>5 DEF Witness
<1>. QED
  BY <1>4, <1>5

(* The witness assigns a vertex of the graph to every vertex of the path. *)
LEMMA WitnessType ==
    ASSUME Shape, DirectedShape, NEW r \in Rows, Len(entities) >= 3
    PROVE  Witness(r) \in [VertexPositions -> Vtx]
<1>1. ASSUME NEW v \in VertexPositions PROVE Witness(r)[v] \in Vtx
  <2>1. entities[v] \in EntityT /\ entities[v].type = "vertex" /\ v \in Nat
    BY EntityAt DEF Shape, VertexPositions
  <2>2. CASE entities[v].inTree
    <3>1. v \in TreePositions
      BY <2>2 DEF TreePositions, VertexPositions
    <3>. QED
      BY <2>1, <2>2, <3>1 DEF Rows, Witness
  <2>3. CASE ~entities[v].inTree /\ v > 1
    <3>1. v - 1 \in EdgePositions
      BY <2>3 DEF VertexPositions, EdgePositions
    <3>. QED
      BY <2>3, <3>1, OrientedVal DEF Witness
  <2>4. CASE ~entities[v].inTree /\ v = 1
    <3>1. 2 \in EdgePositions
      BY DEF EdgePositions
    <3>. QED
      BY <2>4, <3>1, OrientedVal DEF Witness
  <2>. QED
    BY <2>1, <2>2, <2>3, <2>4 DEF VertexPositions
<1>. QED
  BY <1>1 DEF Witness

(***************************************************************************)
(* A labelled vertex left out of the join tree has its label checked on    *)
(* the end of the edge after it (prev_node filter), or, the last vertex,   *)
(* on the end of the edge before it (next_node filter).                    *)
(***************************************************************************)
LEMMA WitnessLabels ==
    ASSUME Shape, DirectedShape, NEW r \in Rows, AcceptedEdges(r),
           Len(entities) >= 3, NEW v \in VertexPositions,
           entities[v].label # DefaultLabel
    PROVE  graph.vlabel[Witness(r)[v]] = entities[v].label
<1>1. entities[v] \in EntityT /\ entities[v].type = "vertex" /\ v \in Nat
      /\ Len(entities) \in Nat
  BY EntityAt, LenProperties DEF Shape, VertexPositions
<1>2. entities[v].label \notin {NoFilter, DefaultLabel}
  BY <1>1, PathJoinAssumption DEF EntityT, Labels
<1>3. CASE entities[v].inTree
  <2>1. v \in TreePositions
    BY <1>3 DEF TreePositions, VertexPositions
  <2>. QED
    BY <1>1, <1>3, <2>1 DEF Rows, Witness
<1>4. CASE ~entities[v].inTree /\ v + 1 <= Len(entities)
  <2>. DEFINE p == v + 1
  <2>1. p \in EdgePositions /\ p - 1 = v
    BY <1>1, <1>4 DEF VertexPositions, EdgePositions
  <2>2. JPrevFilter(p) = entities[v].label
    BY <1>4, <2>1 DEF JPrevFilter
  <2>3. BasicHolds(LabelAtom(QS(p), entities[v].label), r)
    BY <1>2, <2>1, <2>2, DirectedAtoms DEF AcceptedEdges
  <2>4. graph.vlabel[Val(QS(p), r)] = entities[v].label
    BY <2>3 DEF BasicHolds, LabelAtom
  <2>. QED
    BY <2>1, <2>4, OrientedVal, PrevLink
<1>5. CASE ~entities[v].inTree /\ ~(v + 1 <= Len(entities))
  <2>. DEFINE p == v - 1
  <2>1. p \in EdgePositions /\ p + 1 = v /\ JNextEdge(p) = 0
    BY <1>1, <1>5 DEF VertexPositions, EdgePositions, JNextEdge
  <2>2. JNextFilter(p) = entities[v].label
    BY <1>5, <2>1 DEF JNextFilter
  <2>3. BasicHolds(LabelAtom(QE(p), entities[v].label), r)
    BY <1>2, <2>1, <2>2, DirectedAtoms DEF AcceptedEdges
  <2>4. graph.vlabel[Val(QE(p), r)] = entities[v].label
    BY <2>3 DEF BasicHolds, LabelAtom
  <2>. QED
    BY <2>1, <2>4, OrientedVal, NextLink
<1>. QED
  BY <1>3, <1>4, <1>5

(* No edge of the graph is bound to two edges of the path. *)
DistinctEdges(r) == \A i, j \in EdgePositions : i # j => r[i] # r[j]

(***************************************************************************)
(* A row on which every join condition holds and no edge repeats extends   *)
(* to a match: the witness.                                                *)
(***************************************************************************)
LEMMA WitnessMatch ==
    ASSUME Shape, DirectedShape, NEW r \in Rows, AcceptedEdges(r),
           DistinctEdges(r), Len(entities) >= 3
    PROVE  PatternMatches(r)
<1>. DEFINE w == Witness(r)
<1>1. w \in [VertexPositions -> Vtx]
  BY WitnessType
<1>2. \A i \in VertexPositions \cap TreePositions : w[i] = r[i]
  BY DEF Witness, TreePositions
<1>3. \A i \in VertexPositions :
         entities[i].label # DefaultLabel => graph.vlabel[w[i]] = entities[i].label
  BY WitnessLabels
<1>4. ASSUME NEW i \in EdgePositions
      PROVE  Connects(r[i], w[i - 1], w[i + 1], entities[i].dir)
  <2>1. Tl(i, r) = w[i - 1] /\ Hd(i, r) = w[i + 1]
    BY PrevLink, NextLink
  <2>2. entities[i].dir \in {"left", "right"}
    BY OrientedVal
  <2>. QED
    BY <2>1, <2>2 DEF Tl, Hd, Connects
<1>5. IsMatch(r, w)
  BY <1>2, <1>3, <1>4 DEF IsMatch, DistinctEdges
<1>. QED
  BY <1>1, <1>5 DEF PatternMatches, MatchesOf

(* Under directed-only patterns every edge entity is directed. *)
LEMMA DirectedEntities ==
    ASSUME TypeOK, EntitiesOfPath, Len(entities) = Len(path),
           Directions \subseteq {"left", "right"}
    PROVE  DirectedShape
<1>1. SUFFICES ASSUME NEW i \in 1 .. Len(entities), entities[i].type = "edge"
               PROVE  entities[i].dir \in {"left", "right"}
  BY DEF DirectedShape
<1>2. path \in Seq(VertexIn \cup EdgeIn)
  BY PatternFacts DEF TypeOK
<1>3. path[i] \in VertexIn \cup EdgeIn
  BY <1>2, ElementOfSeq
<1>4. entities[i] = MakeEntity(path[i]) /\ pathVar \in BOOLEAN
  BY DEF EntitiesOfPath, TypeOK
<1>5. path[i] \in EdgeIn
  BY <1>1, <1>3, <1>4, MakeEntityFacts
<1>6. path[i].kind = "edge" /\ path[i].dir \in Directions
  BY <1>5 DEF EdgeIn
<1>7. entities[i].dir = path[i].dir
  BY <1>4, <1>6 DEF MakeEntity
<1>. QED
  BY <1>6, <1>7

(***************************************************************************)
(* The strengthened invariant implies soundness for directed paths: every  *)
(* join condition of every edge is in the qual list, so an accepted row    *)
(* satisfies all of them, and a path of two or more edges has the          *)
(* duplicate-edge qual.                                                    *)
(***************************************************************************)
LEMMA SoundInvEdgePathSound ==
    ASSUME SoundInv, Directions \subseteq {"left", "right"}
    PROVE  EdgePathSound
<1>. SUFFICES ASSUME phase = "done", NumEdges > 0, NEW r \in Rows, Accepts(r)
              PROVE  PatternMatches(r)
  BY DEF EdgePathSound
<1>1. TypeOK /\ EntitiesOfPath /\ Len(entities) = Len(path)
  BY DEF SoundInv, Inv
<1>2. Shape
  BY <1>1, ShapeOfPath
<1>3. NumEdges \in Nat /\ Len(path) = 2 * NumEdges + 1
  BY <1>1, NumEdgesFacts DEF TypeOK
<1>4. DirectedShape
  BY <1>1, DirectedEntities
<1>5. Len(entities) >= 3
  BY <1>1, <1>3
<1>6. AcceptedEdges(r)
  <2>1. SUFFICES ASSUME NEW p \in EdgePositions,
                        NEW i \in 1 .. Len(MakeJoinConditionForEdge(p))
                 PROVE  AtomHolds(MakeJoinConditionForEdge(p)[i], r)
    BY DEF AcceptedEdges, AllHold
  <2>2. PICK j \in 1 .. NumEdges : p = 2 * j
    BY <1>1, <1>3 DEF EdgePositions
  <2>3. EdgeAtomsOf(NumEdges, quals)
    BY DEF SoundInv
  <2>4. PICK q \in 1 .. Len(quals) : quals[q] = MakeJoinConditionForEdge(p)[i]
    BY <2>2, <2>3 DEF EdgeAtomsOf
  <2>. QED
    BY <2>4 DEF Accepts
<1>7. DistinctEdges(r)
  <2>1. SUFFICES ASSUME NEW a \in EdgePositions, NEW b \in EdgePositions, a # b
                 PROVE  r[a] # r[b]
    BY DEF DistinctEdges
  <2>2. Len(entities) > 3
    BY <1>1, <1>3, <2>1 DEF EdgePositions
  <2>3. PICK q \in 1 .. Len(quals) : quals[q] = PreventDuplicateEdges
    BY <2>2 DEF SoundInv
  <2>4. BasicHolds(PreventDuplicateEdges, r)
    BY <2>3 DEF Accepts, AtomHolds, PreventDuplicateEdges
  <2>5. PICK i \in 1 .. NumEdges : a = 2 * i
    BY <1>1, <1>3 DEF EdgePositions
  <2>6. PICK j \in 1 .. NumEdges : b = 2 * j
    BY <1>1, <1>3 DEF EdgePositions
  <2>7. Term(a, "id") # Term(b, "id")
    BY <2>1 DEF Term
  <2>8. Val(Term(a, "id"), r) # Val(Term(b, "id"), r)
    BY <2>4, <2>5, <2>6, <2>7 DEF BasicHolds, PreventDuplicateEdges
  <2>. QED
    BY <1>2, <2>8, RowValFacts
<1>. QED
  BY <1>2, <1>4, <1>5, <1>6, <1>7, WitnessMatch

(***************************************************************************)
(* Soundness of the compiled MATCH predicate for directed paths: once      *)
(* transform_match_path has built the quals of a path with at least one    *)
(* edge, every row they accept extends to a match of the pattern, for      *)
(* every graph, every path up to MaxEdges edges and every label set.  With *)
(* undirected edges this fails (the pathjoin_undirected run).              *)
(***************************************************************************)
THEOREM DirectedSound ==
    ASSUME Directions \subseteq {"left", "right"}
    PROVE  Spec => []EdgePathSound
<1>1. SoundInv => EdgePathSound
  BY SoundInvEdgePathSound
<1>. QED
  BY <1>1, SoundInvInit, SoundInvStep, PTL DEF Spec

=============================================================================
