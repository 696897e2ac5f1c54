---------------------------- MODULE ClauseChain ----------------------------
(***************************************************************************)
(* The clause-chain driver of cypher_clause.c and the state it threads     *)
(* through a query: the entity registry (cpstate->entities), the target    *)
(* list of the clause being compiled and the output of the previous clause *)
(* (the subquery aliased "_"), the label catalog, and the plans CREATE,    *)
(* SET, REMOVE and DELETE hand to the executor.                            *)
(*                                                                         *)
(* Every clause first compiles its predecessor as a subquery; when that    *)
(* returns, analyze_cypher_clause clears declared_in_current_clause on     *)
(* every entity and concatenates them onto the parent's list.  So the      *)
(* clauses are compiled in query order, and the registry is advanced at    *)
(* the start of each clause: that is how the clause actions below begin.   *)
(*                                                                         *)
(* Data is abstracted to what the properties tell apart: a column is a     *)
(* user variable name and the kind of value it holds; the internal columns *)
(* (default aliases of anonymous elements, _age_ plan columns, the SET     *)
(* value column) are never found by a user name and are left out, so a     *)
(* position is an index into the user-named columns.  Join quals are the   *)
(* subject of PathJoin; expressions, WHERE, ORDER BY and LIMIT are not     *)
(* modelled here.                                                          *)
(***************************************************************************)
EXTENDS Naturals, Integers, Sequences, FiniteSets

CONSTANTS
    Names,          \* user variable names
    Labels,         \* label names a pattern may carry
    NoName,         \* an anonymous element or an unnamed path
    DefaultLabel,   \* no label given (the default vertex or edge label)
    MaxClauses,     \* clauses in a query
    MaxPaths,       \* paths in one MATCH or CREATE pattern
    MaxPathLen      \* elements of one path (odd: ends in a vertex)

ASSUME ClauseChainAssumption ==
    /\ NoName \notin Names
    /\ DefaultLabel \notin Labels
    /\ MaxClauses \in Nat \ {0}
    /\ MaxPaths \in Nat \ {0}
    /\ MaxPathLen \in Nat \ {0}

VARIABLES
    pc,         \* where the compiler is: between clauses, in a pattern, or stopped
    n,          \* index of the clause being compiled
    ckind,      \* kind of that clause
    prevCols,   \* output columns of the previous clause (the "_" subquery)
    cols,       \* target list of the clause being compiled
    registry,   \* cpstate->entities, oldest first
    catalog,    \* label name -> "vertex", "edge" or "absent"
    pathVar,    \* variable of the path being compiled, or NoName
    plen,       \* elements of that path compiled so far
    npaths,     \* paths of the current pattern begun so far
    plan,       \* plan nodes / update items of the current clause
    reuses      \* MATCH elements resolved to an existing column, this clause

vars == <<pc, n, ckind, prevCols, cols, registry, catalog, pathVar, plen,
          npaths, plan, reuses>>

ClauseKinds == {"none", "match", "create", "with", "return", "set", "remove", "delete"}
ColKinds == {"vertex", "edge", "path", "value"}
Column == [name : Names, kind : ColKinds]
Entity == [name : Names \cup {NoName}, type : {"vertex", "edge"},
           declared : BOOLEAN, clause : Nat]
PlanOps == {"new_vertex", "new_edge", "existing_vertex", "set", "remove", "delete"}
PlanNode == [op : PlanOps, name : Names \cup {NoName},
             label : Labels \cup {DefaultLabel}, pos : Int, same : BOOLEAN]
Reuse == [type : {"vertex", "edge"}, name : Names, label : Labels \cup {DefaultLabel},
          props : BOOLEAN, src : {"prior", "current"}, colKind : ColKinds]
Lit == "literal"    \* a WITH/RETURN item that is an expression, not a variable

(* make_transform_entity: a new entity is declared in the current clause. *)
MakeTransformEntity(x, type) ==
    [name |-> x, type |-> type, declared |-> TRUE, clause |-> n]

(* Fault-injection variant: the registry is not advanced between clauses. *)
AdvanceTransformEntitiesSkipped(reg) == reg

(* advance_transform_entities_to_next_clause *)
AdvanceTransformEntities(reg) ==
    [i \in DOMAIN reg |-> [name |-> reg[i].name, type |-> reg[i].type,
                           declared |-> FALSE, clause |-> reg[i].clause]]

(* find_variable: the first entity, oldest first, with the name.           *)
IsFirst(i, x) ==
    /\ registry[i].name = x
    /\ \A j \in 1 .. (i - 1) : registry[j].name # x
NoEntity == [name |-> NoName, type |-> "none", declared |-> FALSE, clause |-> 0]

(* Fault-injection variant: find_variable returns the newest entity.      *)
FindVariableLast(x) ==
    IF \E i \in 1 .. Len(registry) : registry[i].name = x
    THEN registry[CHOOSE i \in 1 .. Len(registry) :
                    registry[i].name = x /\ \A j \in (i + 1) .. Len(registry) : registry[j].name # x]
    ELSE NoEntity

FindVariable(x) ==
    IF \E i \in 1 .. Len(registry) : IsFirst(i, x)
    THEN registry[CHOOSE i \in 1 .. Len(registry) : IsFirst(i, x)]
    ELSE NoEntity

(* get_target_entry_resno: the first column with the name, or -1.         *)
IsFirstCol(cs, i, x) ==
    /\ cs[i].name = x
    /\ \A j \in 1 .. (i - 1) : cs[j].name # x
GetTargetEntryResno(cs, x) ==
    IF \E i \in DOMAIN cs : IsFirstCol(cs, i, x)
    THEN CHOOSE i \in DOMAIN cs : IsFirstCol(cs, i, x)
    ELSE -1

ColumnNames(cs) == {cs[i].name : i \in DOMAIN cs}

(* colNameToVar / scanRTEForColumn over the "_" subquery: how many of the *)
(* previous clause's columns carry the name (two or more is ambiguous).   *)
CountIn(cs, x) == Cardinality({i \in DOMAIN cs : cs[i].name = x})
PriorCount(x) == CountIn(prevCols, x)
PriorColumn(x) == prevCols[GetTargetEntryResno(prevCols, x)]

-----------------------------------------------------------------------------
Init ==
    /\ pc = "between"
    /\ n = 0
    /\ ckind = "none"
    /\ prevCols = <<>>
    /\ cols = <<>>
    /\ registry = <<>>
    /\ catalog \in [Labels -> {"vertex", "edge", "absent"}]
    /\ pathVar = NoName
    /\ plen = 0
    /\ npaths = 0
    /\ plan = <<>>
    /\ reuses = <<>>

(* The start of every clause: transform_prev_cypher_clause has compiled   *)
(* the predecessor, analyze_cypher_clause advanced its entities, and      *)
(* expandRelAttrs copied its output columns into the new target list.     *)
StartClause(k) ==
    /\ pc = "between"
    /\ n < MaxClauses
    /\ n' = n + 1
    /\ ckind' = k
    /\ registry' = AdvanceTransformEntities(registry)
    /\ prevCols' = cols

Fail == pc' = "error"

(* The label checks of transform_cypher_node and transform_cypher_edge:   *)
(* a label must exist and be of the element's kind.                       *)
MatchLabelOK(lbl, type) == lbl \in {DefaultLabel} \cup {l \in Labels : catalog[l] = type}

(* How transform_cypher_node / transform_cypher_edge resolve an element:  *)
(* no expression at all for a vertex left out of the join tree; a column *)
(* of the previous clause (colNameToVar, an error if ambiguous); a column *)
(* of this clause's target list (findTarget); else a new range table      *)
(* entry and, for a named element, a new column.                          *)
MatchResolution(x, output) ==
    IF ~output THEN "skip"
    ELSE IF x = NoName THEN "new"
    ELSE IF PriorCount(x) > 1 THEN "ambiguous"
    ELSE IF PriorCount(x) = 1 THEN "prior"
    ELSE IF x \in ColumnNames(cols) THEN "current"
    ELSE "new"

(* The check made on a target-list hit: the entity find_variable returns  *)
(* must be of the same kind and the occurrence must add no label or       *)
(* properties.  A hit with no entity (find_variable returned NULL) passes.*)
MatchConflict(x, type, lbl, props) ==
    LET e == FindVariable(x)
    IN  e # NoEntity /\ (e.type # type \/ lbl # DefaultLabel \/ props)

MatchReuse(x, type, lbl, props, src, ck) ==
    [type |-> type, name |-> x, label |-> lbl, props |-> props, src |-> src, colKind |-> ck]

(* One iteration of transform_match_entities: transform the element, then *)
(* register it with make_transform_entity whatever it resolved to.        *)
MatchElement(x, type, lbl, props, output) ==
    LET r == MatchResolution(x, output)
    IN  /\ pc = "mpath"
        /\ \/ /\ \/ ~MatchLabelOK(lbl, type)
                 \/ r = "ambiguous"
                 \/ r = "current" /\ MatchConflict(x, type, lbl, props)
              /\ Fail
              /\ UNCHANGED <<cols, registry, plen, reuses>>
           \/ /\ MatchLabelOK(lbl, type)
              /\ r # "ambiguous"
              /\ r = "current" => ~MatchConflict(x, type, lbl, props)
              /\ pc' = "mpath"
              /\ plen' = plen + 1
              /\ registry' = Append(registry, MakeTransformEntity(x, type))
              /\ cols' = IF r = "new" /\ x # NoName
                         THEN Append(cols, [name |-> x, kind |-> type])
                         ELSE cols
              /\ reuses' =
                   IF r = "prior"
                   THEN Append(reuses, MatchReuse(x, type, lbl, props, "prior",
                                                  PriorColumn(x).kind))
                   ELSE IF r = "current"
                   THEN Append(reuses, MatchReuse(x, type, lbl, props, "current",
                                                  cols[GetTargetEntryResno(cols, x)].kind))
                   ELSE reuses
        /\ UNCHANGED <<n, ckind, prevCols, catalog, pathVar, npaths, plan>>

(* transform_match_pattern: a MATCH clause starts (its WHERE only filters *)
(* rows and is not modelled).                                             *)
BeginMatch ==
    /\ StartClause("match")
    /\ pc' = "match"
    /\ npaths' = 0
    /\ plan' = <<>>
    /\ reuses' = <<>>
    /\ UNCHANGED <<cols, catalog, pathVar, plen>>

(* transform_match_path: the next path of the pattern starts.             *)
MatchBeginPath(pv) ==
    /\ pc = "match"
    /\ npaths < MaxPaths
    /\ pc' = "mpath"
    /\ pathVar' = pv
    /\ plen' = 0
    /\ npaths' = npaths + 1
    /\ UNCHANGED <<n, ckind, prevCols, cols, registry, catalog, plan, reuses>>

(* transform_cypher_node, called with INCLUDE_NODE_IN_JOIN_TREE.          *)
MatchVertex(x, lbl, props) ==
    /\ plen % 2 = 0
    /\ plen < MaxPathLen
    /\ MatchElement(x, "vertex", lbl, props, pathVar # NoName \/ x # NoName \/ props)

(* transform_cypher_edge: an edge always gets an expression.              *)
MatchEdge(x, lbl, props) ==
    /\ plen % 2 = 1
    /\ plen < MaxPathLen
    /\ MatchElement(x, "edge", lbl, props, TRUE)

(* The end of transform_match_path: a named path needs an edge           *)
(* (transform_match_create_path_variable), and its column is appended     *)
(* under the path's name with no check on that name.                      *)
MatchEndPath ==
    /\ pc = "mpath"
    /\ plen % 2 = 1
    /\ \/ /\ pathVar # NoName
          /\ plen < 3
          /\ Fail
          /\ UNCHANGED cols
       \/ /\ pathVar = NoName \/ plen >= 3
          /\ pc' = "match"
          /\ cols' = IF pathVar # NoName
                     THEN Append(cols, [name |-> pathVar, kind |-> "path"])
                     ELSE cols
    /\ UNCHANGED <<n, ckind, prevCols, registry, catalog, pathVar, plen, npaths,
                   plan, reuses>>

EndMatch ==
    /\ pc = "match"
    /\ npaths >= 1
    /\ pc' = "between"
    /\ UNCHANGED <<n, ckind, prevCols, cols, registry, catalog, pathVar, plen,
                   npaths, plan, reuses>>

(* transform_cypher_create: a CREATE clause starts.                       *)
BeginCreate ==
    /\ StartClause("create")
    /\ pc' = "create"
    /\ npaths' = 0
    /\ plan' = <<>>
    /\ reuses' = <<>>
    /\ UNCHANGED <<cols, catalog, pathVar, plen>>

(* transform_cypher_create_path: the next path of the pattern starts.     *)
CreateBeginPath(pv) ==
    /\ pc = "create"
    /\ npaths < MaxPaths
    /\ pc' = "cpath"
    /\ pathVar' = pv
    /\ plen' = 0
    /\ npaths' = npaths + 1
    /\ UNCHANGED <<n, ckind, prevCols, cols, registry, catalog, plan, reuses>>

(* create_label when label_exists fails: the label is made with the kind  *)
(* of the element being created; an existing label is used whatever its   *)
(* kind.  The default labels always exist.                                *)
CreateLabelIfMissing(lbl, kind) ==
    IF lbl # DefaultLabel /\ catalog[lbl] = "absent"
    THEN [catalog EXCEPT ![lbl] = kind]
    ELSE catalog

(* The placeholder column of a named new element (placeholder_target_entry)*)
(* and the tuple position recorded for it; 0 for an anonymous one.        *)
NewPos(x) == IF x = NoName THEN 0 ELSE Len(cols) + 1
WithPlaceholder(x, kind) ==
    IF x = NoName THEN cols ELSE Append(cols, [name |-> x, kind |-> kind])

(* One vertex of transform_cypher_create_path: transform_create_cypher_node*)
(* looks the name up with find_variable; a found vertex becomes an        *)
(* existing node (transform_create_cypher_existing_node, its position     *)
(* taken with get_target_entry_resno and not checked), anything else a new*)
(* node (transform_create_cypher_new_node).  The element is registered    *)
(* either way.                                                            *)
CreateVertex(x, lbl, props) ==
    LET e == IF x = NoName THEN NoEntity ELSE FindVariable(x)
    IN  /\ pc = "cpath"
        /\ plen % 2 = 0
        /\ plen < MaxPathLen
        /\ \/ /\ e # NoEntity
              /\ e.type # "vertex" \/ props \/ lbl # DefaultLabel
              /\ Fail
              /\ UNCHANGED <<cols, registry, catalog, plan, plen>>
           \/ /\ e # NoEntity
              /\ e.type = "vertex" /\ ~props /\ lbl = DefaultLabel
              /\ plan' = Append(plan, [op |-> "existing_vertex", name |-> x,
                                      label |-> DefaultLabel,
                                      pos |-> GetTargetEntryResno(cols, x),
                                      same |-> e.declared])
              /\ UNCHANGED <<cols, catalog>>
              /\ pc' = "cpath"
              /\ plen' = plen + 1
              /\ registry' = Append(registry, MakeTransformEntity(x, "vertex"))
           \/ /\ e = NoEntity
              /\ catalog' = CreateLabelIfMissing(lbl, "vertex")
              /\ plan' = Append(plan, [op |-> "new_vertex", name |-> x, label |-> lbl,
                                      pos |-> NewPos(x), same |-> FALSE])
              /\ cols' = WithPlaceholder(x, "vertex")
              /\ pc' = "cpath"
              /\ plen' = plen + 1
              /\ registry' = Append(registry, MakeTransformEntity(x, "vertex"))
        /\ UNCHANGED <<n, ckind, prevCols, pathVar, npaths, reuses>>

(* transform_create_cypher_edge: a named edge may not be a column of the  *)
(* previous clause (variable_exists); an undirected or unlabelled edge is *)
(* rejected; the label is created if missing; the edge is always new.     *)
CreateEdgeError(x, lbl, dir) ==
    \/ x # NoName /\ PriorCount(x) > 0
    \/ dir = "none"
    \/ lbl = DefaultLabel

CreateEdge(x, lbl, dir) ==
    /\ pc = "cpath"
    /\ plen % 2 = 1
    /\ plen < MaxPathLen
    /\ \/ /\ CreateEdgeError(x, lbl, dir)
          /\ Fail
          /\ UNCHANGED <<cols, registry, catalog, plan, plen>>
       \/ /\ ~CreateEdgeError(x, lbl, dir)
          /\ catalog' = CreateLabelIfMissing(lbl, "edge")
          /\ plan' = Append(plan, [op |-> "new_edge", name |-> x, label |-> lbl,
                                  pos |-> NewPos(x), same |-> FALSE])
          /\ cols' = WithPlaceholder(x, "edge")
          /\ pc' = "cpath"
          /\ plen' = plen + 1
          /\ registry' = Append(registry, MakeTransformEntity(x, "edge"))
    /\ UNCHANGED <<n, ckind, prevCols, pathVar, npaths, reuses>>

(* The end of transform_cypher_create_path: a named path needs an edge and*)
(* gets a placeholder column under its name, with no check on the name.   *)
CreateEndPath ==
    /\ pc = "cpath"
    /\ plen % 2 = 1
    /\ \/ /\ pathVar # NoName
          /\ plen < 3
          /\ Fail
          /\ UNCHANGED cols
       \/ /\ pathVar = NoName \/ plen >= 3
          /\ pc' = "create"
          /\ cols' = WithPlaceholder(pathVar, "path")
    /\ UNCHANGED <<n, ckind, prevCols, registry, catalog, pathVar, plen, npaths,
                   plan, reuses>>

EndCreate ==
    /\ pc = "create"
    /\ npaths >= 1
    /\ pc' = "between"
    /\ UNCHANGED <<n, ckind, prevCols, cols, registry, catalog, pathVar, plen,
                   npaths, plan, reuses>>

(* transform_cypher_set (SET and REMOVE) and transform_cypher_delete, each *)
(* with the one item SET supports: rejected as the first clause, else the  *)
(* variable is resolved by get_target_entry_resno against the previous     *)
(* clause's columns, an error if absent.                                   *)
UpdateClause(k, x) ==
    /\ StartClause(k)
    /\ reuses' = <<>>
    /\ \/ /\ n = 0
          /\ Fail
          /\ plan' = <<>>
       \/ /\ n > 0
          /\ GetTargetEntryResno(cols, x) = -1
          /\ Fail
          /\ plan' = <<>>
       \/ /\ n > 0
          /\ GetTargetEntryResno(cols, x) # -1
          /\ pc' = "between"
          /\ plan' = <<[op |-> k, name |-> x, label |-> DefaultLabel,
                        pos |-> GetTargetEntryResno(cols, x), same |-> FALSE]>>
    /\ UNCHANGED <<cols, catalog, pathVar, plen, npaths>>

(* A RETURN or WITH item list: distinct output names, each a variable of  *)
(* the previous clause or an expression (Lit).                            *)
ProjItems ==
    {s \in UNION {[1 .. k -> Names \X (Names \cup {Lit})] : k \in 1 .. Cardinality(Names)} :
        \A i, j \in DOMAIN s : i # j => s[i][1] # s[j][1]}

(* transform_cypher_return, and transform_cypher_with which compiles a     *)
(* RETURN: the target list becomes the items, a variable keeping the kind  *)
(* of the column it names; a name the previous clause lacks is undefined  *)
(* and one it has twice is ambiguous, both errors.  RETURN ends the query. *)
Projection(k, items) ==
    /\ StartClause(k)
    /\ plan' = <<>>
    /\ reuses' = <<>>
    /\ \/ /\ \E i \in DOMAIN items :
                items[i][2] # Lit /\ CountIn(cols, items[i][2]) # 1
          /\ Fail
          /\ UNCHANGED cols
       \/ /\ \A i \in DOMAIN items :
                items[i][2] # Lit => CountIn(cols, items[i][2]) = 1
          /\ pc' = IF k = "return" THEN "done" ELSE "between"
          /\ cols' = [i \in DOMAIN items |->
                        [name |-> items[i][1],
                         kind |-> IF items[i][2] = Lit THEN "value"
                                  ELSE cols[GetTargetEntryResno(cols, items[i][2])].kind]]
    /\ UNCHANGED <<catalog, pathVar, plen, npaths>>

-----------------------------------------------------------------------------
Next ==
    \/ BeginMatch
    \/ \E pv \in Names \cup {NoName} : MatchBeginPath(pv)
    \/ \E x \in Names \cup {NoName}, lbl \in Labels \cup {DefaultLabel}, props \in BOOLEAN :
          MatchVertex(x, lbl, props) \/ MatchEdge(x, lbl, props)
    \/ MatchEndPath
    \/ EndMatch
    \/ BeginCreate
    \/ \E pv \in Names \cup {NoName} : CreateBeginPath(pv)
    \/ \E x \in Names \cup {NoName}, lbl \in Labels \cup {DefaultLabel}, props \in BOOLEAN :
          CreateVertex(x, lbl, props)
    \/ \E x \in Names \cup {NoName}, lbl \in Labels \cup {DefaultLabel},
          dir \in {"left", "right", "none"} :
          CreateEdge(x, lbl, dir)
    \/ CreateEndPath
    \/ EndCreate
    \/ \E k \in {"set", "remove", "delete"}, x \in Names : UpdateClause(k, x)
    \/ \E k \in {"with", "return"}, items \in ProjItems : Projection(k, items)

Spec == Init /\ [][Next]_vars

-----------------------------------------------------------------------------
TypeOK ==
    /\ pc \in {"between", "match", "mpath", "create", "cpath", "error", "done"}
    /\ n \in 0 .. MaxClauses
    /\ ckind \in ClauseKinds
    /\ prevCols \in Seq(Column)
    /\ cols \in Seq(Column)
    /\ registry \in Seq(Entity)
    /\ catalog \in [Labels -> {"vertex", "edge", "absent"}]
    /\ pathVar \in Names \cup {NoName}
    /\ plen \in Nat
    /\ npaths \in Nat
    /\ plan \in Seq(PlanNode)
    /\ reuses \in Seq(Reuse)

(* Lexical scoping of the registry: an entity is marked declared in the   *)
(* current clause exactly when it was registered by the clause being      *)
(* compiled; every entity of an earlier clause has been advanced.  This is*)
(* what advance_transform_entities_to_next_clause, run by                 *)
(* analyze_cypher_clause on every nested clause, has to achieve.          *)
RegistryScoping ==
    \A i \in DOMAIN registry : registry[i].declared <=> registry[i].clause = n

(* An existing node of a CREATE plan flagged                              *)
(* EXISTING_VARAIBLE_DECLARED_SAME_CLAUSE, for which the executor skips   *)
(* its checks that the vertex exists, really names a vertex this same     *)
(* CREATE clause creates earlier in its plan.                             *)
SameClauseFlagSound ==
    \A i \in DOMAIN plan :
        plan[i].op = "existing_vertex" /\ plan[i].same =>
            \E j \in 1 .. (i - 1) : plan[j].op = "new_vertex" /\ plan[j].name = plan[i].name

(* A CREATE that reuses a bound vertex finds it in the incoming columns:  *)
(* the tuple position transform_create_cypher_existing_node records points*)
(* at a vertex column of that name (the executor reads the id there).     *)
ExistingNodeResolved ==
    \A i \in DOMAIN plan :
        plan[i].op = "existing_vertex" =>
            /\ plan[i].pos \in DOMAIN cols
            /\ cols[plan[i].pos].name = plan[i].name
            /\ cols[plan[i].pos].kind = "vertex"

(* A MATCH element that resolves to a column already bound reuses a      *)
(* column of its own kind, and adds no label and no properties: a         *)
(* conflicting re-reference is a schema conflict (spec 4.2 step 2 and 8). *)
ReuseConflictRejected ==
    \A i \in DOMAIN reuses :
        /\ reuses[i].colKind = reuses[i].type
        /\ reuses[i].label = DefaultLabel
        /\ ~reuses[i].props

(* No variable is bound to two columns of one target list, so that later  *)
(* clauses, which resolve a name to its first column (SET, REMOVE, DELETE,*)
(* CREATE) or reject it as ambiguous (MATCH, WITH), see one binding.      *)
ColumnNamesUnique ==
    \A i, j \in DOMAIN cols : i # j => cols[i].name # cols[j].name

(* CREATE inserts a vertex only into a vertex label and an edge only into *)
(* an edge label, as MATCH insists when it reads them.                    *)
CreateLabelKindSound ==
    \A i \in DOMAIN plan :
        /\ plan[i].op = "new_vertex" /\ plan[i].label # DefaultLabel =>
              catalog[plan[i].label] = "vertex"
        /\ plan[i].op = "new_edge" /\ plan[i].label # DefaultLabel =>
              catalog[plan[i].label] = "edge"

=============================================================================
