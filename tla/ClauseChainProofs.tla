------------------------- MODULE ClauseChainProofs -------------------------
(***************************************************************************)
(* Proofs about the clause-chain driver and the entity registry, for every *)
(* set of names and labels and every bound: the type invariant, the        *)
(* lexical scoping of the registry, and the soundness of the               *)
(* same-clause flag that transform_create_cypher_existing_node hands to    *)
(* the executor.                                                           *)
(***************************************************************************)
EXTENDS ClauseChain, WellFoundedInduction, FiniteSetTheorems, TLAPS

-----------------------------------------------------------------------------
(***************************************************************************)
(* The lexical scoping of the registry is inductive once every entity is  *)
(* known to come from the current or an earlier clause.                    *)
(***************************************************************************)
ClausesBounded == \A i \in DOMAIN registry : registry[i].clause <= n

ScopingInv == TypeOK /\ ClausesBounded /\ RegistryScoping

(***************************************************************************)
(* The strengthening behind the same-clause flag.  A pattern phase belongs *)
(* to a clause of its kind; and a vertex entity declared in the current    *)
(* CREATE clause was either created by it (a new_vertex of the plan under  *)
(* its name) or registered as an existing node, which find_variable only   *)
(* makes of a name some earlier entity already has.                        *)
(***************************************************************************)
PhaseKind ==
    /\ pc \in {"match", "mpath"} => ckind = "match"
    /\ pc \in {"create", "cpath"} => ckind = "create"

CreatedOrShadowed(i) ==
    \/ \E q \in DOMAIN plan : plan[q].op = "new_vertex" /\ plan[q].name = registry[i].name
    \/ \E j \in 1 .. (i - 1) : registry[j].name = registry[i].name

DeclaredVertexCreated ==
    \A i \in DOMAIN registry :
        /\ registry[i].declared
        /\ registry[i].type = "vertex"
        /\ registry[i].name # NoName
        /\ ckind = "create"
        => CreatedOrShadowed(i)

FlagInv == TypeOK /\ PhaseKind /\ DeclaredVertexCreated /\ SameClauseFlagSound

(***************************************************************************)
(* A non-empty set of naturals has a least element.  It is what makes the *)
(* "first column with this name" of get_target_entry_resno and the "first *)
(* entity with this name" of find_variable exist.                          *)
(***************************************************************************)
LEMMA LeastElement ==
    ASSUME NEW T \in SUBSET Nat, T # {}
    PROVE  \E i \in T : \A j \in T : i <= j
<1>1. IsWellFoundedOn(OpToRel(<, Nat), Nat)
  BY NatLessThanWellFounded
<1>2. PICK i \in T : \A j \in T : ~(<<j, i>> \in OpToRel(<, Nat))
  BY <1>1, WFMin
<1>3. \A j \in T : j < i => <<j, i>> \in OpToRel(<, Nat)
  BY DEF OpToRel
<1>4. \A j \in T : ~(j < i)
  BY <1>2, <1>3, Zenon
<1>. QED
  BY <1>4

(***************************************************************************)
(* get_target_entry_resno finds a column that is there: its result is an   *)
(* index of the target list holding the name.                              *)
(***************************************************************************)
LEMMA FirstColumn ==
    ASSUME NEW cs \in Seq(Column), NEW x, x \in ColumnNames(cs)
    PROVE  /\ GetTargetEntryResno(cs, x) \in DOMAIN cs
           /\ cs[GetTargetEntryResno(cs, x)].name = x
<1>. DEFINE T == {i \in 1 .. Len(cs) : cs[i].name = x}
<1>1. T \in SUBSET Nat /\ T # {}
  BY DEF ColumnNames
<1>2. PICK i \in T : \A j \in T : i <= j
  BY <1>1, LeastElement
<1>3. \E k \in DOMAIN cs : IsFirstCol(cs, k, x)
  <2>1. \A j \in 1 .. (i - 1) : cs[j].name # x
    BY <1>2
  <2>. QED
    BY <2>1 DEF IsFirstCol
<1>. QED
  BY <1>3 DEF GetTargetEntryResno, IsFirstCol

(***************************************************************************)
(* A name held by exactly one column of the previous clause is one of its *)
(* column names.                                                           *)
(***************************************************************************)
LEMMA CountedName ==
    ASSUME NEW cs \in Seq(Column), NEW x, CountIn(cs, x) = 1
    PROVE  x \in ColumnNames(cs)
<1>1. {i \in DOMAIN cs : cs[i].name = x} # {}
  BY FS_EmptySet DEF CountIn
<1>. QED
  BY <1>1 DEF ColumnNames


(***************************************************************************)
(* What MatchResolution tells about the name it resolved: a reuse of a     *)
(* column of the previous clause or of this clause names a column that is *)
(* there.                                                                  *)
(***************************************************************************)
LEMMA ResolutionFacts ==
    ASSUME NEW x, NEW output
    PROVE  /\ MatchResolution(x, output) = "prior" =>
                  x # NoName /\ PriorCount(x) = 1
           /\ MatchResolution(x, output) = "current" =>
                  x # NoName /\ x \in ColumnNames(cols)
BY DEF MatchResolution

(***************************************************************************)
(* The type invariant holds initially.                                     *)
(***************************************************************************)
LEMMA TypeInit == Init => TypeOK
BY ClauseChainAssumption DEF Init, TypeOK, ClauseKinds

(***************************************************************************)
(* One MATCH element keeps the types: the entity it registers, the column *)
(* it may add and the reuse it may record are well formed.                 *)
(***************************************************************************)
LEMMA MatchElementType ==
    ASSUME TypeOK,
           NEW x \in Names \cup {NoName}, NEW type \in {"vertex", "edge"},
           NEW lbl \in Labels \cup {DefaultLabel}, NEW props \in BOOLEAN,
           NEW output,
           MatchElement(x, type, lbl, props, output)
    PROVE  TypeOK'
<1>. DEFINE r == MatchResolution(x, output)
<1>1. CASE pc' = "error" /\ UNCHANGED <<cols, registry, plen, reuses>>
  BY <1>1 DEF MatchElement, TypeOK
<1>2. CASE /\ pc' = "mpath"
           /\ plen' = plen + 1
           /\ registry' = Append(registry, MakeTransformEntity(x, type))
           /\ cols' = IF r = "new" /\ x # NoName
                      THEN Append(cols, [name |-> x, kind |-> type])
                      ELSE cols
           /\ reuses' =
                IF r = "prior"
                THEN Append(reuses, MatchReuse(x, type, lbl, props, "prior",
                                               PriorColumn(x).kind))
                ELSE IF r = "current"
                THEN Append(reuses, MatchReuse(x, type, lbl, props, "current",
                                               cols[GetTargetEntryResno(cols, x)].kind))
                ELSE reuses
  <2>1. MakeTransformEntity(x, type) \in Entity
    BY DEF TypeOK, MakeTransformEntity, Entity
  <2>2. cols' \in Seq(Column)
    <3>1. r = "new" /\ x # NoName => [name |-> x, kind |-> type] \in Column
      BY DEF Column, ColKinds
    <3>. QED
      BY <1>2, <3>1 DEF TypeOK
  <2>3. r = "prior" => PriorColumn(x).kind \in ColKinds
    <3>. SUFFICES ASSUME r = "prior" PROVE PriorColumn(x).kind \in ColKinds
      OBVIOUS
    <3>1. x \in ColumnNames(prevCols)
      BY ResolutionFacts, CountedName DEF TypeOK, PriorCount
    <3>2. GetTargetEntryResno(prevCols, x) \in DOMAIN prevCols
      BY <3>1, FirstColumn DEF TypeOK
    <3>3. prevCols[GetTargetEntryResno(prevCols, x)] \in Column
      BY <3>2 DEF TypeOK
    <3>. QED
      BY <3>3 DEF PriorColumn, Column
  <2>4. r = "current" => cols[GetTargetEntryResno(cols, x)].kind \in ColKinds
    <3>. SUFFICES ASSUME r = "current"
                  PROVE  cols[GetTargetEntryResno(cols, x)].kind \in ColKinds
      OBVIOUS
    <3>1. GetTargetEntryResno(cols, x) \in DOMAIN cols
      BY ResolutionFacts, FirstColumn DEF TypeOK
    <3>2. cols[GetTargetEntryResno(cols, x)] \in Column
      BY <3>1 DEF TypeOK
    <3>. QED
      BY <3>2 DEF Column
  <2>5. reuses' \in Seq(Reuse)
    <3>1. r = "prior" =>
            MatchReuse(x, type, lbl, props, "prior", PriorColumn(x).kind) \in Reuse
      BY <2>3, ResolutionFacts DEF MatchReuse, Reuse
    <3>2. r = "current" =>
            MatchReuse(x, type, lbl, props, "current",
                       cols[GetTargetEntryResno(cols, x)].kind) \in Reuse
      BY <2>4, ResolutionFacts DEF MatchReuse, Reuse
    <3>. QED
      BY <1>2, <3>1, <3>2 DEF TypeOK
  <2>. QED
    BY <1>2, <2>1, <2>2, <2>5 DEF MatchElement, TypeOK
<1>. QED
  BY <1>1, <1>2 DEF MatchElement, Fail


(***************************************************************************)
(* get_target_entry_resno returns an integer and find_variable an entity  *)
(* of the registry or nothing.                                             *)
(***************************************************************************)
LEMMA ResnoType ==
    ASSUME NEW cs \in Seq(Column), NEW x
    PROVE  GetTargetEntryResno(cs, x) \in Int
BY DEF GetTargetEntryResno

LEMMA FindVariableType ==
    ASSUME TypeOK, NEW x
    PROVE  FindVariable(x) = NoEntity \/ FindVariable(x) \in Entity
<1>. DEFINE k == CHOOSE i \in 1 .. Len(registry) : IsFirst(i, x)
<1>1. CASE \E i \in 1 .. Len(registry) : IsFirst(i, x)
  <2>1. k \in 1 .. Len(registry)
    BY <1>1
  <2>2. registry[k] \in Entity
    BY <2>1 DEF TypeOK
  <2>. QED
    BY <1>1, <2>2 DEF FindVariable
<1>2. CASE ~\E i \in 1 .. Len(registry) : IsFirst(i, x)
  BY <1>2 DEF FindVariable
<1>. QED
  BY <1>1, <1>2

(***************************************************************************)
(* The placeholder column of a new CREATE element is a well-formed column. *)
(***************************************************************************)
LEMMA PlaceholderType ==
    ASSUME TypeOK, NEW x \in Names \cup {NoName}, NEW kind \in ColKinds
    PROVE  WithPlaceholder(x, kind) \in Seq(Column)
<1>1. CASE x = NoName
  BY <1>1 DEF WithPlaceholder, TypeOK
<1>2. CASE x # NoName
  <2>1. [name |-> x, kind |-> kind] \in Column
    BY <1>2 DEF Column
  <2>. QED
    BY <1>2, <2>1 DEF WithPlaceholder, TypeOK
<1>. QED
  BY <1>1, <1>2

(***************************************************************************)
(* One CREATE vertex keeps the types.                                      *)
(***************************************************************************)
LEMMA CreateVertexType ==
    ASSUME TypeOK,
           NEW x \in Names \cup {NoName}, NEW lbl \in Labels \cup {DefaultLabel},
           NEW props \in BOOLEAN,
           CreateVertex(x, lbl, props)
    PROVE  TypeOK'
<1>. DEFINE e == IF x = NoName THEN NoEntity ELSE FindVariable(x)
<1>1. e = NoEntity \/ e \in Entity
  BY FindVariableType
<1>2. MakeTransformEntity(x, "vertex") \in Entity
  BY DEF TypeOK, MakeTransformEntity, Entity
<1>3. CASE e # NoEntity /\ (e.type # "vertex" \/ props \/ lbl # DefaultLabel)
  BY <1>3 DEF CreateVertex, Fail, TypeOK
<1>4. CASE e # NoEntity /\ e.type = "vertex" /\ ~props /\ lbl = DefaultLabel
  <2>1. [op |-> "existing_vertex", name |-> x, label |-> DefaultLabel,
         pos |-> GetTargetEntryResno(cols, x), same |-> e.declared] \in PlanNode
    BY <1>1, <1>4, ResnoType DEF TypeOK, PlanNode, PlanOps, Entity
  <2>2. /\ plan' = Append(plan, [op |-> "existing_vertex", name |-> x,
                                 label |-> DefaultLabel,
                                 pos |-> GetTargetEntryResno(cols, x),
                                 same |-> e.declared])
        /\ UNCHANGED <<cols, catalog>>
        /\ pc' = "cpath"
        /\ plen' = plen + 1
        /\ registry' = Append(registry, MakeTransformEntity(x, "vertex"))
        /\ UNCHANGED <<n, ckind, prevCols, pathVar, npaths, reuses>>
    BY <1>4 DEF CreateVertex
  <2>. QED
    BY <1>2, <2>1, <2>2 DEF TypeOK
<1>5. CASE e = NoEntity
  <2>1. [op |-> "new_vertex", name |-> x, label |-> lbl,
         pos |-> NewPos(x), same |-> FALSE] \in PlanNode
    BY DEF NewPos, PlanNode, PlanOps, TypeOK
  <2>2. CreateLabelIfMissing(lbl, "vertex") \in [Labels -> {"vertex", "edge", "absent"}]
    BY DEF CreateLabelIfMissing, TypeOK
  <2>3. WithPlaceholder(x, "vertex") \in Seq(Column)
    BY PlaceholderType DEF ColKinds
  <2>4. /\ catalog' = CreateLabelIfMissing(lbl, "vertex")
        /\ plan' = Append(plan, [op |-> "new_vertex", name |-> x, label |-> lbl,
                                 pos |-> NewPos(x), same |-> FALSE])
        /\ cols' = WithPlaceholder(x, "vertex")
        /\ pc' = "cpath"
        /\ plen' = plen + 1
        /\ registry' = Append(registry, MakeTransformEntity(x, "vertex"))
        /\ UNCHANGED <<n, ckind, prevCols, pathVar, npaths, reuses>>
    BY <1>5 DEF CreateVertex
  <2>. QED
    BY <1>2, <2>1, <2>2, <2>3, <2>4 DEF TypeOK
<1>. QED
  BY <1>3, <1>4, <1>5

(***************************************************************************)
(* One CREATE edge keeps the types.                                        *)
(***************************************************************************)
LEMMA CreateEdgeType ==
    ASSUME TypeOK,
           NEW x \in Names \cup {NoName}, NEW lbl \in Labels \cup {DefaultLabel},
           NEW dir,
           CreateEdge(x, lbl, dir)
    PROVE  TypeOK'
<1>1. CASE CreateEdgeError(x, lbl, dir)
  BY <1>1 DEF CreateEdge, Fail, TypeOK
<1>2. CASE ~CreateEdgeError(x, lbl, dir)
  <2>1. [op |-> "new_edge", name |-> x, label |-> lbl,
         pos |-> NewPos(x), same |-> FALSE] \in PlanNode
    BY DEF NewPos, PlanNode, PlanOps, TypeOK
  <2>2. CreateLabelIfMissing(lbl, "edge") \in [Labels -> {"vertex", "edge", "absent"}]
    BY DEF CreateLabelIfMissing, TypeOK
  <2>3. WithPlaceholder(x, "edge") \in Seq(Column)
    BY PlaceholderType DEF ColKinds
  <2>4. MakeTransformEntity(x, "edge") \in Entity
    BY DEF TypeOK, MakeTransformEntity, Entity
  <2>5. /\ catalog' = CreateLabelIfMissing(lbl, "edge")
        /\ plan' = Append(plan, [op |-> "new_edge", name |-> x, label |-> lbl,
                                 pos |-> NewPos(x), same |-> FALSE])
        /\ cols' = WithPlaceholder(x, "edge")
        /\ pc' = "cpath"
        /\ plen' = plen + 1
        /\ registry' = Append(registry, MakeTransformEntity(x, "edge"))
        /\ UNCHANGED <<n, ckind, prevCols, pathVar, npaths, reuses>>
    BY <1>2 DEF CreateEdge
  <2>. QED
    BY <2>1, <2>2, <2>3, <2>4, <2>5 DEF TypeOK
<1>. QED
  BY <1>1, <1>2

(***************************************************************************)
(* advance_transform_entities_to_next_clause keeps a well-formed registry. *)
(***************************************************************************)
LEMMA AdvanceType ==
    ASSUME NEW reg \in Seq(Entity)
    PROVE  AdvanceTransformEntities(reg) \in Seq(Entity)
<1>1. \A i \in 1 .. Len(reg) :
        [name |-> reg[i].name, type |-> reg[i].type,
         declared |-> FALSE, clause |-> reg[i].clause] \in Entity
  <2>1. SUFFICES ASSUME NEW i \in 1 .. Len(reg)
                 PROVE  [name |-> reg[i].name, type |-> reg[i].type,
                         declared |-> FALSE, clause |-> reg[i].clause] \in Entity
    OBVIOUS
  <2>2. reg[i] \in Entity
    OBVIOUS
  <2>3. /\ reg[i].name \in Names \cup {NoName}
        /\ reg[i].type \in {"vertex", "edge"}
        /\ reg[i].clause \in Nat
    BY <2>2 DEF Entity
  <2>. QED
    BY <2>3 DEF Entity
<1>2. DOMAIN reg = 1 .. Len(reg)
  OBVIOUS
<1>. QED
  BY <1>1, <1>2 DEF AdvanceTransformEntities

(***************************************************************************)
(* The common start of a clause keeps the types of what it changes.        *)
(***************************************************************************)
LEMMA StartClauseType ==
    ASSUME TypeOK, NEW k \in ClauseKinds, StartClause(k)
    PROVE  /\ n' \in 0 .. MaxClauses
           /\ ckind' \in ClauseKinds
           /\ registry' \in Seq(Entity)
           /\ prevCols' \in Seq(Column)
<1>1. registry' \in Seq(Entity)
  BY AdvanceType DEF StartClause, TypeOK
<1>2. n' \in 0 .. MaxClauses
  BY ClauseChainAssumption DEF StartClause, TypeOK
<1>3. ckind' \in ClauseKinds
  BY DEF StartClause
<1>4. prevCols' \in Seq(Column)
  BY DEF StartClause, TypeOK
<1>. QED
  BY <1>1, <1>2, <1>3, <1>4

LEMMA BeginMatchType ==
    ASSUME TypeOK, BeginMatch
    PROVE  TypeOK'
<1>1. StartClause("match")
  BY DEF BeginMatch
<1>2. /\ n' \in 0 .. MaxClauses /\ ckind' \in ClauseKinds
      /\ registry' \in Seq(Entity) /\ prevCols' \in Seq(Column)
  BY <1>1, StartClauseType DEF ClauseKinds
<1>. QED
  BY <1>2 DEF BeginMatch, TypeOK

LEMMA BeginCreateType ==
    ASSUME TypeOK, BeginCreate
    PROVE  TypeOK'
<1>1. StartClause("create")
  BY DEF BeginCreate
<1>2. /\ n' \in 0 .. MaxClauses /\ ckind' \in ClauseKinds
      /\ registry' \in Seq(Entity) /\ prevCols' \in Seq(Column)
  BY <1>1, StartClauseType DEF ClauseKinds
<1>. QED
  BY <1>2 DEF BeginCreate, TypeOK

LEMMA PathBoundaryType ==
    ASSUME TypeOK
    PROVE  /\ \A pv \in Names \cup {NoName} : MatchBeginPath(pv) => TypeOK'
           /\ \A pv \in Names \cup {NoName} : CreateBeginPath(pv) => TypeOK'
           /\ EndMatch => TypeOK'
           /\ EndCreate => TypeOK'
BY DEF MatchBeginPath, CreateBeginPath, EndMatch, EndCreate, TypeOK

LEMMA MatchEndPathType ==
    ASSUME TypeOK, MatchEndPath
    PROVE  TypeOK'
<1>1. pathVar # NoName => [name |-> pathVar, kind |-> "path"] \in Column
  BY DEF TypeOK, Column, ColKinds
<1>2. \/ cols' = cols
      \/ pathVar # NoName /\ cols' = Append(cols, [name |-> pathVar, kind |-> "path"])
  BY DEF MatchEndPath
<1>3. cols' \in Seq(Column)
  <2>1. CASE cols' = cols
    BY <2>1 DEF TypeOK
  <2>2. CASE pathVar # NoName /\ cols' = Append(cols, [name |-> pathVar, kind |-> "path"])
    <3>1. [name |-> pathVar, kind |-> "path"] \in Column
      BY <1>1, <2>2
    <3>. QED
      BY <2>2, <3>1 DEF TypeOK
  <2>. QED
    BY <1>2, <2>1, <2>2
<1>. QED
  BY <1>3 DEF MatchEndPath, TypeOK, Fail

LEMMA CreateEndPathType ==
    ASSUME TypeOK, CreateEndPath
    PROVE  TypeOK'
<1>1. WithPlaceholder(pathVar, "path") \in Seq(Column)
  BY PlaceholderType DEF TypeOK, ColKinds
<1>2. cols' \in Seq(Column)
  BY <1>1 DEF CreateEndPath, TypeOK
<1>. QED
  BY <1>2 DEF CreateEndPath, TypeOK, Fail

LEMMA UpdateClauseType ==
    ASSUME TypeOK, NEW k \in {"set", "remove", "delete"}, NEW x \in Names,
           UpdateClause(k, x)
    PROVE  TypeOK'
<1>1. StartClause(k)
  BY DEF UpdateClause
<1>2. /\ n' \in 0 .. MaxClauses /\ ckind' \in ClauseKinds
      /\ registry' \in Seq(Entity) /\ prevCols' \in Seq(Column)
  BY <1>1, StartClauseType DEF ClauseKinds
<1>3. [op |-> k, name |-> x, label |-> DefaultLabel,
       pos |-> GetTargetEntryResno(cols, x), same |-> FALSE] \in PlanNode
  BY ResnoType DEF TypeOK, PlanNode, PlanOps
<1>4. \/ plan' = <<>>
      \/ plan' = <<[op |-> k, name |-> x, label |-> DefaultLabel,
                    pos |-> GetTargetEntryResno(cols, x), same |-> FALSE]>>
  BY DEF UpdateClause
<1>6. plan' \in Seq(PlanNode)
  <2>1. <<[op |-> k, name |-> x, label |-> DefaultLabel,
           pos |-> GetTargetEntryResno(cols, x), same |-> FALSE]>> \in Seq(PlanNode)
    BY <1>3
  <2>2. <<>> \in Seq(PlanNode)
    OBVIOUS
  <2>. QED
    BY <1>4, <2>1, <2>2, Zenon
<1>5. pc' \in {"between", "error"}
  BY DEF UpdateClause, Fail
<1>. QED
  BY <1>2, <1>5, <1>6 DEF UpdateClause, TypeOK



(***************************************************************************)
(* A WITH or RETURN keeps the types: every output column names a user     *)
(* variable, and a variable item takes the kind of the column its source  *)
(* resolves to (get_target_entry_resno finds it, as the item is checked   *)
(* to be one of the previous clause's names).                              *)
(***************************************************************************)
LEMMA ProjectionType ==
    ASSUME TypeOK, NEW k \in {"with", "return"}, NEW items \in ProjItems,
           Projection(k, items)
    PROVE  TypeOK'
<1>1. StartClause(k)
  BY DEF Projection
<1>2. /\ n' \in 0 .. MaxClauses /\ ckind' \in ClauseKinds
      /\ registry' \in Seq(Entity) /\ prevCols' \in Seq(Column)
  BY <1>1, StartClauseType DEF ClauseKinds
<1>3. PICK m \in 1 .. Cardinality(Names) :
        items \in [1 .. m -> Names \X (Names \cup {Lit})]
  BY DEF ProjItems
<1>. DEFINE newcols ==
        [i \in DOMAIN items |->
           [name |-> items[i][1],
            kind |-> IF items[i][2] = Lit THEN "value"
                     ELSE cols[GetTargetEntryResno(cols, items[i][2])].kind]]
<1>4. \/ cols' = cols
      \/ /\ \A i \in 1 .. m : items[i][2] # Lit => CountIn(cols, items[i][2]) = 1
         /\ cols' = newcols
  BY <1>3 DEF Projection
<1>5. ASSUME \A i \in 1 .. m : items[i][2] # Lit => CountIn(cols, items[i][2]) = 1
      PROVE  \A i \in 1 .. m : newcols[i] \in Column
  <2>1. SUFFICES ASSUME NEW i \in 1 .. m PROVE newcols[i] \in Column
    OBVIOUS
  <2>2. items[i][1] \in Names
    BY <1>3
  <2>3. CASE items[i][2] = Lit
    BY <1>3, <2>2, <2>3 DEF Column, ColKinds
  <2>4. CASE items[i][2] # Lit
    <3>1. items[i][2] \in ColumnNames(cols)
      BY <1>5, <2>4, CountedName DEF TypeOK
    <3>2. GetTargetEntryResno(cols, items[i][2]) \in DOMAIN cols
      BY <3>1, FirstColumn DEF TypeOK
    <3>3. cols[GetTargetEntryResno(cols, items[i][2])] \in Column
      BY <3>2 DEF TypeOK
    <3>4. cols[GetTargetEntryResno(cols, items[i][2])].kind \in ColKinds
      BY <3>3 DEF Column
    <3>. QED
      BY <1>3, <2>2, <2>4, <3>4 DEF Column
  <2>. QED
    BY <2>3, <2>4
<1>6. ASSUME \A i \in 1 .. m : items[i][2] # Lit => CountIn(cols, items[i][2]) = 1
      PROVE  newcols \in Seq(Column)
  <2>1. m \in Nat /\ DOMAIN items = 1 .. m
    BY <1>3
  <2>2. newcols \in [1 .. m -> Column]
    BY <1>5, <1>6, <2>1
  <2>. QED
    BY <2>1, <2>2
<1>8. cols' \in Seq(Column)
  BY <1>4, <1>6, Zenon DEF TypeOK
<1>9. plan' = <<>> /\ reuses' = <<>>
  BY DEF Projection
<1>10. pc' \in {"error", "done", "between"}
  BY DEF Projection, Fail
<1>. QED
  BY <1>2, <1>8, <1>9, <1>10 DEF Projection, TypeOK


(***************************************************************************)
(* Every step of the compiler, and a stutter, keeps the types.             *)
(***************************************************************************)
LEMMA TypeStep ==
    ASSUME TypeOK, [Next]_vars
    PROVE  TypeOK'
<1>1. CASE BeginMatch
  BY <1>1, BeginMatchType
<1>2. CASE \E pv \in Names \cup {NoName} : MatchBeginPath(pv)
  BY <1>2, PathBoundaryType
<1>3. CASE \E x \in Names \cup {NoName}, lbl \in Labels \cup {DefaultLabel},
             props \in BOOLEAN :
             MatchVertex(x, lbl, props) \/ MatchEdge(x, lbl, props)
  <2>1. PICK x \in Names \cup {NoName}, lbl \in Labels \cup {DefaultLabel},
             props \in BOOLEAN :
             MatchVertex(x, lbl, props) \/ MatchEdge(x, lbl, props)
    BY <1>3
  <2>2. CASE MatchVertex(x, lbl, props)
    BY <2>2, MatchElementType DEF MatchVertex
  <2>3. CASE MatchEdge(x, lbl, props)
    BY <2>3, MatchElementType DEF MatchEdge
  <2>. QED
    BY <2>1, <2>2, <2>3
<1>4. CASE MatchEndPath
  BY <1>4, MatchEndPathType
<1>5. CASE EndMatch
  BY <1>5, PathBoundaryType
<1>6. CASE BeginCreate
  BY <1>6, BeginCreateType
<1>7. CASE \E pv \in Names \cup {NoName} : CreateBeginPath(pv)
  BY <1>7, PathBoundaryType
<1>8. CASE \E x \in Names \cup {NoName}, lbl \in Labels \cup {DefaultLabel},
             props \in BOOLEAN : CreateVertex(x, lbl, props)
  BY <1>8, CreateVertexType
<1>9. CASE \E x \in Names \cup {NoName}, lbl \in Labels \cup {DefaultLabel},
             dir \in {"left", "right", "none"} : CreateEdge(x, lbl, dir)
  BY <1>9, CreateEdgeType
<1>10. CASE CreateEndPath
  BY <1>10, CreateEndPathType
<1>11. CASE EndCreate
  BY <1>11, PathBoundaryType
<1>12. CASE \E k \in {"set", "remove", "delete"}, x \in Names : UpdateClause(k, x)
  BY <1>12, UpdateClauseType
<1>13. CASE \E k \in {"with", "return"}, items \in ProjItems : Projection(k, items)
  BY <1>13, ProjectionType
<1>14. CASE UNCHANGED vars
  BY <1>14 DEF TypeOK, vars
<1>. QED
  BY <1>1, <1>2, <1>3, <1>4, <1>5, <1>6, <1>7, <1>8, <1>9, <1>10, <1>11,
     <1>12, <1>13, <1>14 DEF Next

(***************************************************************************)
(* Type correctness of the clause chain: whatever sequence of clauses and  *)
(* pattern elements is compiled, the registry, target lists, catalog and   *)
(* plans stay well formed.                                                 *)
(***************************************************************************)
THEOREM TypeCorrect == Spec => []TypeOK
<1>1. Init => TypeOK
  BY TypeInit
<1>2. TypeOK /\ [Next]_vars => TypeOK'
  BY TypeStep
<1>. QED
  BY <1>1, <1>2, PTL DEF Spec


-----------------------------------------------------------------------------
(***************************************************************************)
(* How each step touches the registry: the start of a clause advances it, *)
(* a pattern element appends one entity of the current clause, and every  *)
(* other step leaves it and the clause index alone.                        *)
(***************************************************************************)
RegistryAppended ==
    \E x \in Names \cup {NoName}, t \in {"vertex", "edge"} :
        registry' = Append(registry, MakeTransformEntity(x, t))

LEMMA StartedClause ==
    ASSUME [Next]_vars
    PROVE  \/ \E k \in ClauseKinds : StartClause(k)
           \/ n' = n /\ (registry' = registry \/ RegistryAppended)
<1>1. CASE BeginMatch \/ BeginCreate
  BY <1>1 DEF BeginMatch, BeginCreate, ClauseKinds
<1>2. CASE \E k \in {"set", "remove", "delete"}, x \in Names : UpdateClause(k, x)
  BY <1>2 DEF UpdateClause, ClauseKinds
<1>3. CASE \E k \in {"with", "return"}, items \in ProjItems : Projection(k, items)
  BY <1>3 DEF Projection, ClauseKinds
<1>4. CASE \E x \in Names \cup {NoName}, lbl \in Labels \cup {DefaultLabel},
             props \in BOOLEAN :
             MatchVertex(x, lbl, props) \/ MatchEdge(x, lbl, props)
  <2>1. PICK x \in Names \cup {NoName}, lbl \in Labels \cup {DefaultLabel},
             props \in BOOLEAN :
             MatchVertex(x, lbl, props) \/ MatchEdge(x, lbl, props)
    BY <1>4
  <2>2. PICK t \in {"vertex", "edge"}, out \in BOOLEAN :
          MatchElement(x, t, lbl, props, out)
    BY <2>1 DEF MatchVertex, MatchEdge
  <2>. QED
    BY <2>2 DEF MatchElement, RegistryAppended
<1>5. CASE \E x \in Names \cup {NoName}, lbl \in Labels \cup {DefaultLabel},
             props \in BOOLEAN : CreateVertex(x, lbl, props)
  BY <1>5 DEF CreateVertex, RegistryAppended
<1>6. CASE \E x \in Names \cup {NoName}, lbl \in Labels \cup {DefaultLabel},
             dir \in {"left", "right", "none"} : CreateEdge(x, lbl, dir)
  BY <1>6 DEF CreateEdge, RegistryAppended
<1>7. CASE \E pv \in Names \cup {NoName} : MatchBeginPath(pv) \/ CreateBeginPath(pv)
  BY <1>7 DEF MatchBeginPath, CreateBeginPath
<1>8. CASE MatchEndPath \/ EndMatch \/ CreateEndPath \/ EndCreate
  BY <1>8 DEF MatchEndPath, EndMatch, CreateEndPath, EndCreate
<1>9. CASE UNCHANGED vars
  BY <1>9 DEF vars
<1>. QED
  BY <1>1, <1>2, <1>3, <1>4, <1>5, <1>6, <1>7, <1>8, <1>9 DEF Next

(***************************************************************************)
(* Lexical scoping of the registry: in every reachable state an entity is *)
(* declared in the current clause exactly when the current clause         *)
(* registered it, as advance_transform_entities_to_next_clause in          *)
(* analyze_cypher_clause must ensure for find_variable's callers.          *)
(***************************************************************************)
LEMMA ScopingStep ==
    ASSUME ScopingInv, [Next]_vars
    PROVE  ScopingInv'
<1>1. TypeOK'
  BY TypeStep DEF ScopingInv
<1>2. CASE \E k \in ClauseKinds : StartClause(k)
  <2>1. PICK k \in ClauseKinds : StartClause(k)
    BY <1>2
  <2>2. n' = n + 1 /\ n \in Nat
    BY <2>1 DEF StartClause, ScopingInv, TypeOK
  <2>3. registry' = AdvanceTransformEntities(registry) /\ registry \in Seq(Entity)
    BY <2>1 DEF StartClause, ScopingInv, TypeOK
  <2>4. DOMAIN registry' = DOMAIN registry
    BY <2>3 DEF AdvanceTransformEntities
  <2>5. \A i \in DOMAIN registry :
          ~registry'[i].declared /\ registry'[i].clause = registry[i].clause
    BY <2>3 DEF AdvanceTransformEntities
  <2>6. \A i \in DOMAIN registry : registry[i].clause <= n /\ registry[i].clause \in Nat
    <3>1. \A i \in DOMAIN registry : registry[i] \in Entity
      BY <2>3
    <3>2. ClausesBounded
      BY DEF ScopingInv
    <3>. QED
      BY <3>1, <3>2 DEF ClausesBounded, Entity
  <2>7. ClausesBounded'
    BY <2>2, <2>4, <2>5, <2>6 DEF ClausesBounded
  <2>8. RegistryScoping'
    BY <2>2, <2>4, <2>5, <2>6 DEF RegistryScoping
  <2>. QED
    BY <1>1, <2>7, <2>8 DEF ScopingInv
<1>3. CASE ~\E k \in ClauseKinds : StartClause(k)
  <2>2. n' = n /\ (registry' = registry \/ RegistryAppended)
    BY <1>3, StartedClause
  <2>3. CASE registry' = registry
    BY <1>1, <2>2, <2>3 DEF ScopingInv, ClausesBounded, RegistryScoping
  <2>4. CASE RegistryAppended
    <3>1. PICK x \in Names \cup {NoName}, t \in {"vertex", "edge"} :
            registry' = Append(registry, MakeTransformEntity(x, t))
      BY <2>4 DEF RegistryAppended
    <3>2. registry \in Seq(Entity) /\ n \in Nat
      BY DEF ScopingInv, TypeOK
    <3>3. DOMAIN registry' = DOMAIN registry \cup {Len(registry) + 1}
      BY <3>1, <3>2
    <3>4. \A i \in DOMAIN registry : registry'[i] = registry[i]
      BY <3>1, <3>2
    <3>5. /\ registry'[Len(registry) + 1].declared
          /\ registry'[Len(registry) + 1].clause = n
      BY <3>1, <3>2 DEF MakeTransformEntity
    <3>6. ClausesBounded'
      BY <2>2, <3>2, <3>3, <3>4, <3>5 DEF ScopingInv, ClausesBounded
    <3>7. RegistryScoping'
      BY <2>2, <3>3, <3>4, <3>5 DEF ScopingInv, RegistryScoping
    <3>. QED
      BY <1>1, <3>6, <3>7 DEF ScopingInv
  <2>. QED
    BY <2>2, <2>3, <2>4
<1>. QED
  BY <1>2, <1>3

(***************************************************************************)
(* The registry is lexically scoped in every reachable state.              *)
(***************************************************************************)
THEOREM RegistryScopingHolds == Spec => []RegistryScoping
<1>1. Init => ScopingInv
  BY TypeInit DEF Init, ScopingInv, ClausesBounded, RegistryScoping
<1>2. ScopingInv /\ [Next]_vars => ScopingInv'
  BY ScopingStep
<1>3. ScopingInv => RegistryScoping
  BY DEF ScopingInv
<1>. QED
  BY <1>1, <1>2, <1>3, PTL DEF Spec


-----------------------------------------------------------------------------
(***************************************************************************)
(* A pattern phase belongs to a clause of its kind.                        *)
(***************************************************************************)
LEMMA PhaseKindStep ==
    ASSUME PhaseKind, [Next]_vars
    PROVE  PhaseKind'
<1>1. CASE \E k \in {"set", "remove", "delete"}, x \in Names : UpdateClause(k, x)
  BY <1>1 DEF UpdateClause, Fail, PhaseKind
<1>2. CASE \E k \in {"with", "return"}, items \in ProjItems : Projection(k, items)
  BY <1>2 DEF Projection, Fail, PhaseKind
<1>3. CASE \E x \in Names \cup {NoName}, lbl \in Labels \cup {DefaultLabel},
             props \in BOOLEAN :
             MatchVertex(x, lbl, props) \/ MatchEdge(x, lbl, props)
  <2>1. PICK x \in Names \cup {NoName}, lbl \in Labels \cup {DefaultLabel},
             props \in BOOLEAN :
             MatchVertex(x, lbl, props) \/ MatchEdge(x, lbl, props)
    BY <1>3
  <2>2. PICK t \in {"vertex", "edge"}, out \in BOOLEAN :
          MatchElement(x, t, lbl, props, out)
    BY <2>1 DEF MatchVertex, MatchEdge
  <2>. QED
    BY <2>2 DEF MatchElement, Fail, PhaseKind
<1>4. CASE \E x \in Names \cup {NoName}, lbl \in Labels \cup {DefaultLabel},
             props \in BOOLEAN : CreateVertex(x, lbl, props)
  BY <1>4 DEF CreateVertex, Fail, PhaseKind
<1>5. CASE \E x \in Names \cup {NoName}, lbl \in Labels \cup {DefaultLabel},
             dir \in {"left", "right", "none"} : CreateEdge(x, lbl, dir)
  BY <1>5 DEF CreateEdge, Fail, PhaseKind
<1>6. CASE BeginMatch \/ BeginCreate
  BY <1>6 DEF BeginMatch, BeginCreate, StartClause, PhaseKind
<1>7. CASE \E pv \in Names \cup {NoName} : MatchBeginPath(pv) \/ CreateBeginPath(pv)
  BY <1>7 DEF MatchBeginPath, CreateBeginPath, PhaseKind
<1>8. CASE MatchEndPath \/ EndMatch \/ CreateEndPath \/ EndCreate
  BY <1>8 DEF MatchEndPath, EndMatch, CreateEndPath, EndCreate, Fail, PhaseKind
<1>9. CASE UNCHANGED vars
  BY <1>9 DEF vars, PhaseKind
<1>. QED
  BY <1>1, <1>2, <1>3, <1>4, <1>5, <1>6, <1>7, <1>8, <1>9 DEF Next

(***************************************************************************)
(* The two halves of the flag invariant, one index at a time.              *)
(***************************************************************************)
FlagAt(i) ==
    plan[i].op = "existing_vertex" /\ plan[i].same =>
        \E j \in 1 .. (i - 1) : plan[j].op = "new_vertex" /\ plan[j].name = plan[i].name

DeclaredAt(i) ==
    /\ registry[i].declared
    /\ registry[i].type = "vertex"
    /\ registry[i].name # NoName
    /\ ckind = "create"
    => CreatedOrShadowed(i)

(***************************************************************************)
(* Appending to the plan keeps the flag sound at the old indices, and      *)
(* appending to the plan and the registry in the same clause keeps every   *)
(* old entity created or shadowed.                                         *)
(***************************************************************************)
LEMMA FlagAppend ==
    ASSUME plan \in Seq(PlanNode), NEW pn, plan' = Append(plan, pn),
           NEW i \in DOMAIN plan, FlagAt(i)
    PROVE  FlagAt(i)'
<1>1. \A j \in DOMAIN plan : plan'[j] = plan[j]
  OBVIOUS
<1>2. \A j \in 1 .. (i - 1) : j \in DOMAIN plan
  OBVIOUS
<1>. QED
  BY <1>1, <1>2 DEF FlagAt

LEMMA DeclaredAppend ==
    ASSUME plan \in Seq(PlanNode), NEW pn, plan' = Append(plan, pn),
           registry \in Seq(Entity), NEW ent, registry' = Append(registry, ent),
           ckind' = ckind,
           NEW i \in DOMAIN registry, DeclaredAt(i)
    PROVE  DeclaredAt(i)'
<1>1. \A j \in DOMAIN plan : plan'[j] = plan[j]
  OBVIOUS
<1>2. \A j \in DOMAIN registry : registry'[j] = registry[j]
  OBVIOUS
<1>3. \A j \in 1 .. (i - 1) : j \in DOMAIN registry
  OBVIOUS
<1>4. DOMAIN plan \subseteq DOMAIN plan'
  OBVIOUS
<1>5. CreatedOrShadowed(i) => CreatedOrShadowed(i)'
  BY <1>1, <1>2, <1>3, <1>4 DEF CreatedOrShadowed
<1>. QED
  BY <1>2, <1>5 DEF DeclaredAt


(***************************************************************************)
(* After a clause starts nothing is declared in it yet.                    *)
(***************************************************************************)
LEMMA FreshClause ==
    ASSUME NEW k, StartClause(k)
    PROVE  DeclaredVertexCreated'
<1>1. \A i \in DOMAIN registry' : ~registry'[i].declared
  BY DEF StartClause, AdvanceTransformEntities
<1>. QED
  BY <1>1 DEF DeclaredVertexCreated

(***************************************************************************)
(* Soundness of the same-clause flag: when transform_create_cypher_node   *)
(* finds its variable declared in the current clause, that CREATE made    *)
(* the vertex earlier in its plan, so the executor may skip checking that *)
(* it exists.  The step: find_variable returns the first entity with the  *)
(* name; one declared in this CREATE was either created by it, or         *)
(* registered as an existing node, which needs an older entity of that    *)
(* name, and then the found one is not the first.                          *)
(***************************************************************************)
LEMMA ExistingFlagSound ==
    ASSUME TypeOK, PhaseKind, DeclaredVertexCreated, pc = "cpath",
           NEW x \in Names, NEW k \in 1 .. Len(registry), IsFirst(k, x),
           registry[k].declared, registry[k].type = "vertex"
    PROVE  \E q \in DOMAIN plan : plan[q].op = "new_vertex" /\ plan[q].name = x
<1>1. ckind = "create"
  BY DEF PhaseKind
<1>2. registry[k].name = x /\ x # NoName
  BY ClauseChainAssumption DEF IsFirst
<1>3. CreatedOrShadowed(k)
  BY <1>1, <1>2 DEF DeclaredVertexCreated
<1>4. ~\E j \in 1 .. (k - 1) : registry[j].name = registry[k].name
  BY <1>2 DEF IsFirst
<1>. QED
  BY <1>2, <1>3, <1>4 DEF CreatedOrShadowed


(***************************************************************************)
(* A pattern element that appends to the plan and the registry keeps the  *)
(* flag invariant once its own plan node and entity satisfy it.            *)
(***************************************************************************)
LEMMA AppendStep ==
    ASSUME TypeOK, DeclaredVertexCreated, SameClauseFlagSound,
           NEW pn, plan' = Append(plan, pn),
           NEW ent, registry' = Append(registry, ent),
           ckind' = ckind,
           NEW pi, pi = Len(plan) + 1, FlagAt(pi)',
           NEW ri, ri = Len(registry) + 1, DeclaredAt(ri)'
    PROVE  DeclaredVertexCreated' /\ SameClauseFlagSound'
<1>1. plan \in Seq(PlanNode) /\ registry \in Seq(Entity)
  BY DEF TypeOK
<1>2. \A i \in DOMAIN plan : FlagAt(i)'
  <2>1. SUFFICES ASSUME NEW i \in DOMAIN plan PROVE FlagAt(i)'
    OBVIOUS
  <2>2. FlagAt(i)
    BY DEF SameClauseFlagSound, FlagAt
  <2>. QED
    BY <1>1, <2>2, FlagAppend
<1>3. \A i \in DOMAIN registry : DeclaredAt(i)'
  <2>1. SUFFICES ASSUME NEW i \in DOMAIN registry PROVE DeclaredAt(i)'
    OBVIOUS
  <2>2. DeclaredAt(i)
    BY DEF DeclaredVertexCreated, DeclaredAt
  <2>. QED
    BY <1>1, <2>2, DeclaredAppend
<1>4. DOMAIN plan' = DOMAIN plan \cup {pi}
  BY <1>1
<1>5. DOMAIN registry' = DOMAIN registry \cup {ri}
  BY <1>1
<1>6. \A i \in DOMAIN plan' : FlagAt(i)'
  BY <1>2, <1>4, Zenon
<1>7. \A i \in DOMAIN registry' : DeclaredAt(i)'
  BY <1>3, <1>5, Zenon
<1>. QED
  BY <1>6, <1>7 DEF SameClauseFlagSound, FlagAt, DeclaredVertexCreated, DeclaredAt


LEMMA CreateVertexFlag ==
    ASSUME TypeOK, PhaseKind, DeclaredVertexCreated, SameClauseFlagSound,
           NEW x \in Names \cup {NoName}, NEW lbl \in Labels \cup {DefaultLabel},
           NEW props \in BOOLEAN,
           CreateVertex(x, lbl, props)
    PROVE  DeclaredVertexCreated' /\ SameClauseFlagSound'
<1>. DEFINE e == IF x = NoName THEN NoEntity ELSE FindVariable(x)
<1>a. PICK pi : pi = Len(plan) + 1
  OBVIOUS
<1>b. PICK ri : ri = Len(registry) + 1
  OBVIOUS
<1>. USE <1>a, <1>b
<1>0. pc = "cpath" /\ ckind' = ckind
  BY DEF CreateVertex
<1>1. plan \in Seq(PlanNode) /\ registry \in Seq(Entity)
  BY DEF TypeOK
<1>2. CASE e # NoEntity /\ (e.type # "vertex" \/ props \/ lbl # DefaultLabel)
  <2>1. UNCHANGED <<registry, plan, ckind>>
    BY <1>2 DEF CreateVertex
  <2>. QED
    BY <2>1 DEF DeclaredVertexCreated, SameClauseFlagSound, CreatedOrShadowed
<1>3. CASE e # NoEntity /\ e.type = "vertex" /\ ~props /\ lbl = DefaultLabel
  <2>1. x # NoName
    BY <1>3
  <2>2. \E i \in 1 .. Len(registry) : IsFirst(i, x)
    BY <1>3, <2>1 DEF FindVariable
  <2>. DEFINE kk == CHOOSE i \in 1 .. Len(registry) : IsFirst(i, x)
  <2>3. kk \in 1 .. Len(registry) /\ IsFirst(kk, x) /\ e = registry[kk]
    BY <2>1, <2>2 DEF FindVariable
  <2>4. /\ plan' = Append(plan, [op |-> "existing_vertex", name |-> x,
                                 label |-> DefaultLabel,
                                 pos |-> GetTargetEntryResno(cols, x),
                                 same |-> e.declared])
        /\ registry' = Append(registry, MakeTransformEntity(x, "vertex"))
    BY <1>3 DEF CreateVertex
  <2>5. FlagAt(pi)'
    <3>1. CASE e.declared
      <4>1. PICK q \in DOMAIN plan : plan[q].op = "new_vertex" /\ plan[q].name = x
        BY <1>0, <1>3, <2>1, <2>3, <3>1, ExistingFlagSound
      <4>2. q \in 1 .. (pi - 1) /\ plan'[q] = plan[q]
        BY <1>1, <2>4
      <4>3. plan'[pi].name = x
        BY <1>1, <2>4
      <4>. QED
        BY <4>1, <4>2, <4>3 DEF FlagAt
    <3>2. CASE ~e.declared
      <4>1. ~plan'[pi].same
        BY <1>1, <2>4, <3>2
      <4>. QED
        BY <4>1 DEF FlagAt
    <3>. QED
      BY <3>1, <3>2
  <2>6. DeclaredAt(ri)'
    <3>1. registry'[ri].name = x /\ registry'[kk].name = x /\ kk \in 1 .. (ri - 1)
      BY <1>1, <2>3, <2>4 DEF MakeTransformEntity, IsFirst
    <3>. QED
      BY <3>1 DEF DeclaredAt, CreatedOrShadowed
  <2>. QED
    BY <1>0, <1>a, <1>b, <2>4, <2>5, <2>6, AppendStep
<1>4. CASE e = NoEntity
  <2>1. /\ plan' = Append(plan, [op |-> "new_vertex", name |-> x, label |-> lbl,
                                 pos |-> NewPos(x), same |-> FALSE])
        /\ registry' = Append(registry, MakeTransformEntity(x, "vertex"))
    BY <1>4 DEF CreateVertex
  <2>2. FlagAt(pi)'
    BY <1>1, <2>1 DEF FlagAt
  <2>3. DeclaredAt(ri)'
    <3>1. registry'[ri].name = x
      BY <1>1, <2>1 DEF MakeTransformEntity
    <3>2. plan'[pi].name = x /\ plan'[pi].op = "new_vertex"
      BY <1>1, <2>1
    <3>3. pi \in DOMAIN plan'
      BY <1>1, <2>1
    <3>. QED
      BY <3>1, <3>2, <3>3 DEF DeclaredAt, CreatedOrShadowed
  <2>. QED
    BY <1>0, <1>a, <1>b, <2>1, <2>2, <2>3, AppendStep
<1>. QED
  BY <1>2, <1>3, <1>4

LEMMA CreateEdgeFlag ==
    ASSUME TypeOK, DeclaredVertexCreated, SameClauseFlagSound,
           NEW x \in Names \cup {NoName}, NEW lbl \in Labels \cup {DefaultLabel},
           NEW dir, CreateEdge(x, lbl, dir)
    PROVE  DeclaredVertexCreated' /\ SameClauseFlagSound'
<1>a. PICK pi : pi = Len(plan) + 1
  OBVIOUS
<1>b. PICK ri : ri = Len(registry) + 1
  OBVIOUS
<1>. USE <1>a, <1>b
<1>1. plan \in Seq(PlanNode) /\ registry \in Seq(Entity) /\ ckind' = ckind
  BY DEF TypeOK, CreateEdge
<1>2. CASE CreateEdgeError(x, lbl, dir)
  <2>1. UNCHANGED <<registry, plan, ckind>>
    BY <1>2 DEF CreateEdge
  <2>. QED
    BY <2>1 DEF DeclaredVertexCreated, SameClauseFlagSound, CreatedOrShadowed
<1>3. CASE ~CreateEdgeError(x, lbl, dir)
  <2>1. /\ plan' = Append(plan, [op |-> "new_edge", name |-> x, label |-> lbl,
                                 pos |-> NewPos(x), same |-> FALSE])
        /\ registry' = Append(registry, MakeTransformEntity(x, "edge"))
    BY <1>3 DEF CreateEdge
  <2>2. FlagAt(pi)'
    BY <1>1, <2>1 DEF FlagAt
  <2>3. DeclaredAt(ri)'
    BY <1>1, <2>1 DEF DeclaredAt, MakeTransformEntity
  <2>. QED
    BY <1>1, <1>a, <1>b, <2>1, <2>2, <2>3, AppendStep
<1>. QED
  BY <1>2, <1>3


(***************************************************************************)
(* Every step keeps the flag invariant.                                    *)
(***************************************************************************)
LEMMA FlagStep ==
    ASSUME FlagInv, [Next]_vars
    PROVE  FlagInv'
<1>1. TypeOK' /\ PhaseKind'
  BY TypeStep, PhaseKindStep DEF FlagInv
<1>. SUFFICES DeclaredVertexCreated' /\ SameClauseFlagSound'
  BY <1>1 DEF FlagInv
<1>. USE DEF FlagInv
<1>2. CASE BeginMatch \/ BeginCreate
          \/ \E k \in {"with", "return"}, items \in ProjItems : Projection(k, items)
  <2>1. (\E k \in ClauseKinds : StartClause(k)) /\ plan' = <<>>
    BY <1>2 DEF BeginMatch, BeginCreate, Projection, ClauseKinds
  <2>. QED
    BY <2>1, FreshClause DEF SameClauseFlagSound
<1>3. CASE \E k \in {"set", "remove", "delete"}, x \in Names : UpdateClause(k, x)
  <2>1. PICK k \in {"set", "remove", "delete"}, x \in Names : UpdateClause(k, x)
    BY <1>3
  <2>2. \A i \in DOMAIN plan' : plan'[i].op # "existing_vertex"
    BY <2>1 DEF UpdateClause
  <2>. QED
    BY <2>1, <2>2, FreshClause DEF UpdateClause, SameClauseFlagSound
<1>4. CASE \E x \in Names \cup {NoName}, lbl \in Labels \cup {DefaultLabel},
             props \in BOOLEAN :
             MatchVertex(x, lbl, props) \/ MatchEdge(x, lbl, props)
  <2>1. PICK x \in Names \cup {NoName}, lbl \in Labels \cup {DefaultLabel},
             props \in BOOLEAN :
             MatchVertex(x, lbl, props) \/ MatchEdge(x, lbl, props)
    BY <1>4
  <2>2. PICK t \in {"vertex", "edge"}, out \in BOOLEAN :
          MatchElement(x, t, lbl, props, out)
    BY <2>1 DEF MatchVertex, MatchEdge
  <2>3. ckind' = "match" /\ plan' = plan
    BY <2>2 DEF MatchElement, PhaseKind
  <2>. QED
    BY <2>3 DEF DeclaredVertexCreated, SameClauseFlagSound
<1>5. CASE \E x \in Names \cup {NoName}, lbl \in Labels \cup {DefaultLabel},
             props \in BOOLEAN : CreateVertex(x, lbl, props)
  BY <1>5, CreateVertexFlag
<1>6. CASE \E x \in Names \cup {NoName}, lbl \in Labels \cup {DefaultLabel},
             dir \in {"left", "right", "none"} : CreateEdge(x, lbl, dir)
  BY <1>6, CreateEdgeFlag
<1>7. CASE \/ \E pv \in Names \cup {NoName} : MatchBeginPath(pv) \/ CreateBeginPath(pv)
           \/ MatchEndPath \/ EndMatch \/ CreateEndPath \/ EndCreate
           \/ UNCHANGED vars
  <2>1. UNCHANGED <<registry, plan, ckind>>
    BY <1>7 DEF MatchBeginPath, CreateBeginPath, MatchEndPath, EndMatch,
                CreateEndPath, EndCreate, vars
  <2>. QED
    BY <2>1 DEF DeclaredVertexCreated, SameClauseFlagSound, CreatedOrShadowed
<1>. QED
  BY <1>2, <1>3, <1>4, <1>5, <1>6, <1>7 DEF Next

(***************************************************************************)
(* The same-clause flag of an existing CREATE node is sound in every       *)
(* reachable state, for any names, labels and bounds.                      *)
(***************************************************************************)
THEOREM SameClauseFlagSoundHolds == Spec => []SameClauseFlagSound
<1>1. Init => FlagInv
  BY TypeInit DEF Init, FlagInv, PhaseKind, DeclaredVertexCreated, SameClauseFlagSound
<1>2. FlagInv /\ [Next]_vars => FlagInv'
  BY FlagStep
<1>3. FlagInv => SameClauseFlagSound
  BY DEF FlagInv
<1>. QED
  BY <1>1, <1>2, <1>3, PTL DEF Spec


=============================================================================
