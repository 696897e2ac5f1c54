# TLA+ models of the Cypher clause compiler (`cypher_clause.c`)

This directory holds TLA+ models of `src/src/backend/parser/cypher_clause.c`,
the part of Apache AGE that compiles a chain of Cypher clauses into one
PostgreSQL `Query`. It also holds the TLC configurations that check the models
on small instances, and TLAPS proofs, for all instances, of the main registry
invariants, of four invariants of the projection compiler, and of the
completeness and (for directed paths) the soundness of the join predicate
MATCH compiles.

## The system

The compiler walks the clause list from the last clause back. Each clause
first compiles its predecessor as a subquery aliased `_`
(`transform_cypher_clause_as_subquery`, `analyze_cypher_clause`) and then
adds its own columns and filters. In effect the clauses are compiled in query
order. Five parts interact through shared state:

| part | code | shared state it reads / writes |
|---|---|---|
| clause-chain driver | `transform_cypher_clause`, `analyze_cypher_clause`, `advance_transform_entities_to_next_clause` | the entity registry `cpstate->entities`; the `_` columns |
| pattern compiler (MATCH) | `transform_match_pattern`/`_path`/`_entities`, `transform_cypher_node`/`_edge`, `make_path_join_quals` and helpers | registry (`find_variable`), target list (`findTarget`), `_` columns (`colNameToVar`), label catalog |
| mutation-plan builder (CREATE) | `transform_cypher_create`, `transform_cypher_create_path`, `transform_create_cypher_node`/`_existing_node`/`_new_node`/`_edge` | registry, target list (`get_target_entry_resno`), `_` columns (`variable_exists`), catalog (`create_label`) |
| update/delete resolvers | `transform_cypher_set`, `transform_cypher_delete` | `_` columns |
| projection compiler | `transform_cypher_return`, `transform_cypher_with`, `transform_cypher_order_by`, `find_target_list_entry`, `transform_group_clause`, `transform_group_clause_expr`, `add_target_to_group_list`, `transform_cypher_limit` | `_` columns; its own target list, whose entries the sort and group clauses name by `ressortgroupref` |

The registry links the clauses. Every MATCH or CREATE element appends a
`transform_entity` that is marked `declared_in_current_clause`. When a clause
has been compiled, its parent clears the mark. A later CREATE asks
`find_variable` whether a name is already an entity, and passes the mark on to
the executor as `EXISTING_VARAIBLE_DECLARED_SAME_CLAUSE`. When that flag is set,
the executor skips its check that the vertex exists.

## Modules

| module | models | state | actions |
|---|---|---|---|
| `PathJoin` | the WHERE predicate MATCH compiles for one path | `path` (parsed elements), `pathVar`, `entities`, `k`, `quals`, `phase`, plus `graph`, a small property graph the predicate is evaluated on | `TransformEntity` (one iteration of `transform_match_entities`), `JoinEdge` (one iteration of `make_path_join_quals`), `NoJoin` (fewer than 3 entities), `DuplicateEdgeQual` (tail of `transform_match_path`) |
| `ClauseChain` | the clause chain, the registry, the target lists, the catalog and the plans of CREATE/SET/REMOVE/DELETE | `pc`, `n`, `ckind`, `prevCols` (the `_` columns), `cols` (target list), `registry`, `catalog`, `pathVar`, `plen`, `npaths`, `plan`, `reuses` | `BeginMatch`, `MatchBeginPath`, `MatchVertex`, `MatchEdge` (through `MatchElement`), `MatchEndPath`, `EndMatch`, `BeginCreate`, `CreateBeginPath`, `CreateVertex`, `CreateEdge`, `CreateEndPath`, `EndCreate`, `UpdateClause`, `Projection` |
| `Projection` | `transform_cypher_return`: the item list, ORDER BY, automatic GROUP BY, DISTINCT, SKIP/LIMIT | `items`, `orderBy`, `distinct`, `skip`, `limit`, `groupKeys`, `tlist` (target list), `sortList`, `groupList`, `seen` (`seen_local`), `k`, `phase` | `TransformItem` (one item of `transform_cypher_item_list`), `EndItems`, `OrderByItem` (one key of `transform_cypher_order_by`), `EndOrderBy`, `GroupItem` (one key of `transform_group_clause`), `EndGroup`, `DistinctClause`, `LimitClauses` |
| `ClauseChainProofs` | TLAPS proofs about `ClauseChain` | n/a | n/a |
| `ProjectionProofs` | TLAPS proofs about `Projection`: ref uniqueness, inherited order, stable refs | n/a | n/a |
| `ProjectionGroupingProofs` | TLAPS proof of `GroupingMatchesItems` (extends `ProjectionProofs`) | n/a | n/a |
| `ProjectionSortProofs` | TLAPS proof of `SortMatchesOrderBy` (extends `ProjectionGroupingProofs`) | n/a | n/a |
| `PathJoinProofs` | TLAPS proofs about `PathJoin` | n/a | n/a |
| `MC_PathJoin`, `MC_ClauseChain`, `MC_Projection` | constants for TLC | n/a | n/a |

`PathJoin` keeps the quals as data: atoms over column references
(`make_qual`), with `=`, `IN`, label filters (`filter_vertices_on_label_id`),
the OR of two AND lists for an undirected edge, and the edge-uniqueness call.
`Accepts(r)` evaluates them on a row `r` that binds every join-tree entity.
`PatternMatches(r)` is the reference meaning of the pattern. It is defined
independently of the code: some assignment of every vertex agrees with the
row, satisfies the labels and joins every edge in its direction, and no edge is
used twice. The five-element window
`[prev_edge]-(prev_node)-[edge]-(next_node)-[next_edge]` is computed from the
positions in `MakeJoinConditionForEdge`, exactly as `make_path_join_quals`
slides it.

`ClauseChain` abstracts a column to the user name it carries and the kind of
value it holds (vertex, edge, path, value). Internal columns (default aliases,
the `_age_` plan columns, the SET value column) are never found by a user name,
so they are left out, and a position is an index into the user-named columns.
Each clause action begins with `StartClause`. That is the end of
`analyze_cypher_clause` for the predecessor: the registry is advanced, and the
previous target list becomes `prevCols`. Each element action is the whole
handler, including the registration that `transform_match_entities` and
`transform_cypher_create_path` do after the element is transformed. Errors
(`ereport(ERROR)`) set `pc` to `"error"`, where the compilation stops.

In `Projection`, an expression is a model value. Two keys are the same
exactly when they are the same value, which is what the `equal()` of
`find_target_list_entry` decides. `Aggs` are the expressions with an
aggregate. A target entry is its expression, its `resjunk` flag and its
`ressortgroupref`. A sort or group clause is its ref, its direction and its
nulls order. The operators are reduced to ascending or descending.

Some PostgreSQL helpers the code calls are not in this repository. They are
modelled from their PostgreSQL behaviour and marked `spec_modelled` in the map:
- `assignSortGroupRef` returns the entry's ref, or one more than the largest
  ref of the list;
- `targetIsInSortList` says a clause with the entry's ref exists;
- `addTargetToSortList` sets nulls first exactly for DESC;
- `transformDistinctClause` rejects a sort on a hidden entry.

`transform_cypher_item_list` is in another file, so it is modelled from the
spec (4.5) and marked `spec_modelled`. It is a loop, `TransformItem`, that
appends one projected entry per item and collects each non-aggregate item as
a group key. `EndItems` then hands the keys back only when some item
aggregates (`HasAgg`). The loop is written step by step, not as a filter over
the items, so that the proofs can carry invariants over the prefix it has
processed.

The map in `PROJECT.json` gives the lines each definition translates.

## Runs

All runs have CHECK_DEADLOCK FALSE, because the compiler really does stop:
- a path ends in phase `done`;
- a chain ends after RETURN, on an error, or at the clause bound;
- a projection ends in `done` or `error`.

The compiler is a sequential function with no concurrency, retries or
persistence. Its loops run over finite lists, so it cannot fail to finish:
the model states no liveness property and assumes no fairness.

| run | expect | what it shows |
|---|---|---|
| `pathjoin_complete` | pass | `Complete`: every real match satisfies the compiled predicate, for paths of up to two edges in any direction, with or without labels, names and a path variable. |
| `pathjoin_directed` | pass | `EdgePathSound`: with directed edges, a row the predicate accepts is a real match; a vertex left out of the join tree is still pinned by its edges. |
| `pathjoin_undirected` | violation | `EdgePathSound` fails with undirected edges (finding below). |
| `pathjoin_rows` | violation | `EdgePathRowPerMatch` fails: one row can stand for two matches. |
| `pathjoin_lone_vertex` | violation | `Sound` fails for the one-vertex path `(:L)`. |
| `clausechain_scoping` | pass | `RegistryScoping` and `SameClauseFlagSound` over all two-clause chains. |
| `clausechain_reuse_prior` | violation | `ReuseConflictRejected`: `WITH 1 AS a MATCH (a)`. |
| `clausechain_existing` | violation | `ExistingNodeResolved`: `WITH 1 AS a CREATE (a)-[:L]->(a)`. |
| `clausechain_rebind` | violation | `ColumnNamesUnique`: `CREATE (a)-[a:L]->()`. |
| `clausechain_label_kind` | violation | `CreateLabelKindSound`: `CREATE (:L)` with `L` an edge label. |
| `projection_clauses` | pass | `SortGroupRefsUnique`, `GroupKeyInheritsOrder`, `GroupingMatchesItems`, `SortMatchesOrderBy`, over every RETURN of up to 3 items and 2 ORDER BY keys. |
| `projection_desc_nulls` | violation | `GroupKeyDescNullsLast`: `RETURN x, count(*) ORDER BY x DESC` groups on a nulls-first clause. |

Each violation is recorded as a finding in `PROJECT.json`. The main ones:

- **Undirected edges.** An undirected edge next to an anonymous vertex is
  joined to the next edge by an IN list over both endpoints, so the two edges
  may meet the hidden vertex at different endpoints. With `e1` and `e2` both
  `v1->v2`, `(:L)-[]-()-[]-(b)` accepts `(e1, e2, b=v1)`.
- **Reused names.** A name reused from the previous clause (`colNameToVar`)
  is not checked against the kind of the column it reuses.
- **Unchecked tuple position.** The tuple position of an existing CREATE node
  is the first column with the name, whatever its kind.
- **Inherited nulls order.** The spec's example says that for
  `RETURN n, count(*) ORDER BY n DESC` the group key inherits a descending,
  nulls-last comparison. The code copies the sort clause (line 883).
  `addTargetToSortList` gives a DESC key with no NULLS option nulls first, so
  the group key compares nulls first. Direction and nulls order still agree
  between the two clauses (`GroupKeyInheritsOrder` holds), so one sort does
  serve both. Only the spec's "nulls-last" is wrong.

Bounds:

- **PathJoin:** two vertices, two edges, one label besides the default, and
  paths of up to two edges. That is enough for parallel edges, self loops,
  hidden vertices between two edges and at both ends, and a labelled vertex of
  the wrong label.
- **ClauseChain:** names `{a, b}`, one label (which the initial catalog makes
  a vertex label, an edge label or absent), and paths of up to 3 elements.
  - The pass run uses two clauses and one path per pattern. Every action and
    every error branch fires, including CREATE after MATCH or WITH and a second
    occurrence of a name in the same CREATE path.
  - The violation runs use the smallest bounds that reach their trace.
  - The strengthened invariants below were also checked with one clause, two
    paths and five elements per path (35.6M states).
- **Projection:** two plain expressions, one aggregate, up to 3 items and 2
  ORDER BY keys, with symmetry over the plain expressions. Together these
  cover:
  - repeated items and repeated keys;
  - a key that is projected and one that is not (a hidden entry);
  - a key that is both sorted and grouped, and grouped keys that are not
    sorted;
  - DISTINCT over a hidden entry;
  - every SKIP/LIMIT outcome.

Every property of a pass run has a mutant in `PROJECT.json`, and TLC finds the
property violated when the mutant replaces the definition it names:

- an un-advanced registry (`AdvanceTransformEntitiesSkipped`);
- `find_variable` returning the last entity (`FindVariableLast`);
- a LEFT edge joined as a RIGHT one;
- the previous-edge slot dropped from the window;
- the duplicate-edge loop run one slot past the path;
- an entity registered undeclared (`MakeTransformEntityUndeclared`);
- a CREATE clause that waits for one path too many (`EndCreateOffByOne`);
- `assignSortGroupRef` not adding one (`AssignSortGroupRefNoIncrement`);
- `assignSortGroupRef` ignoring the ref an entry has
  (`AssignSortGroupRefAlwaysNew`): ORDER BY x, then GROUP BY x renumbers x;
- a group key that ignores its ORDER BY item (`GroupClauseForDefault`);
- the `seen_local` and group-list early returns dropped
  (`AlreadyGroupedNever`);
- `find_target_list_entry` always appending (`WithEntryAlwaysNew`).

## Proofs (`ClauseChainProofs`)

`tlapm` checks every obligation. The proofs hold for every set of names and
labels and every bound. They assume only `ClauseChainAssumption`: `NoName` and
`DefaultLabel` are outside `Names` and `Labels`, and the bounds are positive
naturals.

- **`TypeCorrect`**: `Spec => []TypeOK`. There is one lemma per action
  (`MatchElementType`, `CreateVertexType`, ...). The facts they need are:
  - `FindVariable` returns an entity or `NoEntity`;
  - `GetTargetEntryResno` finds a column of the name when one exists
    (`FirstColumn`, from `LeastElement`, a consequence of the well-foundedness
    of `<` on `Nat`);
  - advancing the registry keeps its type.
- **`RegistryScopingHolds`**: `Spec => []RegistryScoping`.
  - The inductive invariant is `ScopingInv`: `TypeOK`, plus every entity's
    clause is at most `n`, plus `RegistryScoping`.
  - The bound on the clause index is what makes advancing sound. After the
    step from `n` to `n+1`, no old entity can carry the new clause index.
- **`SameClauseFlagSoundHolds`**: `Spec => []SameClauseFlagSound`.
  - The inductive invariant is `FlagInv`: `TypeOK`, `PhaseKind` (a pattern
    phase belongs to a clause of its kind), `DeclaredVertexCreated`, and the
    property itself.
  - `DeclaredVertexCreated` says that a vertex entity declared in the current
    CREATE either has a `new_vertex` of its name in the plan, or has an older
    entity of the same name. This holds because an existing node is only
    registered when `find_variable` found such an older entity.
  - Key step (`ExistingFlagSound`): `find_variable` returns the *first*
    entity of the name, so the second alternative is impossible for it.
    Hence a declared hit was created by this CREATE, earlier in its plan.

Both invariants were checked with TLC as invariants of runs before they were
proved.

## Proofs (`ProjectionProofs`)

`tlapm` checks all obligations. They assume nothing beyond
`ProjectionAssumption`.

- **`SortGroupRefsUniqueHolds`**: `Spec => []SortGroupRefsUnique`.
  - The inductive invariant is `RefsInv`: a typed state, no two entries with
    the same positive ref (`Unique`), and every clause naming an entry
    (`ClauseRefsHeld`).
  - The key lemmas:
    - `MaxRefFacts`: the largest ref exists and bounds every ref. It is the
      least upper bound, and the bound itself comes from a least-prefix
      argument (`RefsBounded`).
    - `WithEntryFacts`: `find_target_list_entry` keeps every entry and
      returns one of its list.
    - `SetRefFacts`: the ref written is fresh or the entry's own.
  - `Keeps` carries "every positive ref stays on its entry" across each step.
- **`GroupKeyInheritsOrderHolds`**: `Spec => []GroupKeyInheritsOrder`.
  - The inductive invariant is `OrderInv`. It adds three facts to `RefsInv`:
    - `NoGroupWhileOrdering`: there is no group clause before GROUP BY
      starts;
    - `SortRefsDistinct`: no two sort clauses share a ref;
    - the property itself.
  - `FreshRef` shows that the ref a key gets when no sort clause names it
    is not the ref of any sort clause. So a default group clause meets no
    sort clause, and a copied one meets only the one it copies.
- The type invariant `RefsTypeOK` types the items and the group keys as
  sequences of expressions. `TransformItemStep` shows that the item loop
  keeps `RefsInv`.
Both properties are also checked by the `projection_clauses` run.

## Proofs (`ProjectionGroupingProofs`)

- **`GroupingMatchesItemsHolds`**: `Spec => []GroupingMatchesItems`. It
  assumes nothing beyond `ProjectionAssumption`.
- The inductive invariant is `GroupInv`. It adds five facts to `OrderInv`,
  one per stage of `transform_cypher_return`:
  - `ItemsLoop`: during the item loop, the first `k - 1` entries are the
    first `k - 1` items, unsorted and not hidden, and the keys are their
    non-aggregate items.
  - `ItemsProjected`: afterwards, item `i` stays at entry `i`, and the keys
    are what `transform_cypher_item_list` hands back (`HandedBack`).
  - `KeysGrouped`: from GROUP BY on, the first entry of each key before `k`
    has the ref of a group clause, and every group clause has the ref of
    such an entry.
  - `SeenGrouped`: `seen_local` holds only refs of group clauses.
  - `GroupRefsDistinct`: no two group clauses share a ref.
- The property alone is not inductive. It speaks only of the state after
  GROUP BY, so the invariant has to say what each earlier loop has built.
- The key lemmas:
  - `GroupKeyFound`: a group key finds its projected entry, so GROUP BY
    appends no entry.
  - `EntryForUnique`, `EntryForKept` and `EntryForSameColumns`:
    `find_target_list_entry` returns the first entry of a key, and that
    entry stays first across steps that keep the columns.
  - `EntryOfRef`: the entry a positive ref names is the one
    `get_sortgroupclause_tle` finds.

## Proofs (`ProjectionSortProofs`)

- **`SortMatchesOrderByHolds`**: `Spec => []SortMatchesOrderBy`. It assumes
  nothing beyond `ProjectionAssumption`.
- The inductive invariant is `SortInv`. It adds three facts to `GroupInv`:
  - `BeforeOrder`: nothing is sorted during the item loop.
  - `OrderLoop`: during ORDER BY, after the first `k - 1` keys:
    - `SortedUpTo(k - 1, ...)` holds: the property restricted to those keys,
      with the entry of a clause given by its index;
    - an entry has a ref exactly when it is the first entry of one of those
      keys;
    - every such ref is sorted on;
    - every such key has an entry.
  - `OrderDone`: after ORDER BY, `SortedUpTo` holds for all the keys.
- The ref part of `OrderLoop` is what the step needs. A repeated key finds an
  entry that is already sorted on, so `addTargetToSortList` adds nothing
  (`OrderRepeatSort`). A new key finds an entry with no ref: either a
  projected item or the hidden entry just appended. It gets the next clause
  (`OrderNewSort`).
- `Firsts`, `KeyExprs` and `Hidden` are the first occurrences, the
  expressions and the hidden expressions of the first `n` keys. `FirstsStep`
  says how each grows by one key. The cardinalities come from
  `FS_AddElement`. Finiteness of `Hidden` is carried in the invariant.
- GROUP BY appends no entry and keeps every positive ref (`SortedKept`).

Before they were proved, TLC checked `GroupInv` and `SortInv` as invariants
on all 333,468 reachable states of `Projection`. The constants were two plain
expressions, one aggregate, three items and two ORDER BY keys.

## Proofs (`PathJoinProofs`)

`tlapm` checks all obligations. They hold for every graph, vertex and edge
set, label set and path bound `MaxEdges`. They assume only
`PathJoinAssumption`. One part of it needs a word: `NoFilter`, the model of a
NULL label filter, is not a label name. In the code the filter is a `char *`
that is NULL or a label name, so the two cannot collide.

The entities of a finished path must have a shape: they alternate vertex and
edge, and every edge is in the join tree (`Shape`). The inductive invariant
`Inv` says:
- the state is typed;
- the entity list is the path's, element by element (`EntitiesOfPath`);
- the phases follow each other as the code's loops do;
- every qual is one of the join conditions of an edge of the path, or the
  duplicate-edge qual (`QualsFromEdges`).

`QualsFromEdges` is what makes completeness inductive. `Complete` alone says
nothing about the quals while they are being built.

- **`TypeCorrect`**: `Spec => []TypeOK`, from `Inv`.
- **`CompleteHolds`**: `Spec => []Complete`. Every row that extends to a match
  satisfies every qual.
  - `EdgeCondHolds`: given a match, each atom of
    `MakeJoinConditionForEdge(p)` holds. It is proved atom by atom.
    - The join to the previous entity holds (`PrevJoinHolds`). When the
      previous vertex is left out of the join tree, this atom joins to an
      endpoint of the previous edge.
    - The join to the next entity holds (`NextJoinHolds`).
    - A label filter moved onto the edge holds (`FilterHolds`).
    - For an undirected edge, the OR branch of the match's orientation holds.
  - `DuplicateQualHolds`: a match uses no edge twice.
- **`DirectedSound`**: `Spec => []EdgePathSound` when
  `Directions \subseteq {"left", "right"}`. That is the configuration of the
  `pathjoin_directed` run. With undirected edges the property is false (the
  `pathjoin_undirected` finding).
  - The inductive invariant is `SoundInv`. It adds the converse of
    `QualsFromEdges`: once the loop is past edge `k`, every join condition of
    that edge is in the qual list (`EdgeAtomsOf`). A finished path of two or
    more edges also has the duplicate-edge qual.
  - From an accepted row, the proof builds the match `Witness(r)`:
    - a vertex in the join tree is its column;
    - a vertex left out is the end of the edge before it that faces it;
    - the first vertex, when left out, is the start-side end of the first
      edge.
  - `PrevLink` and `NextLink` show that each edge's two ends are the witness
    vertices on either side. `DirectedAtoms` splits the edge's four optional
    atoms (`make_directed_edge_join_conditions`).
  - `WitnessLabels` handles a labelled vertex left out of the tree. Its label
    is checked either on the edge after it (the `prev_node` filter), or, for
    the last vertex, on the edge before it (the `next_node` filter).
  - Edge uniqueness comes from `prevent_duplicate_edges`, or is trivial for a
    single edge.

`TypeOK`, `Complete`, `EdgePathSound` and the inductive invariants `Inv` and
`SoundInv` were all checked by TLC on the
`MC_PathJoin` constants before they were proved.

## What stays with TLC

- `PathJoin`'s violated properties (`Sound`, `EdgePathRowPerMatch`, and
  `EdgePathSound` with undirected edges). They are counterexamples.
- Induction over data and `RECURSIVE` operators. No theorem needs them:
  the loops of the code are modelled as actions, and the invariants speak of
  the prefix processed so far.
- The violation properties. They are counterexamples, not theorems.
- Liveness and `ENABLED`, which TLAPS cannot reason about. The project
  states no liveness property: every loop of the compiler runs over a
  finite list, so finishing is not in question.

## Not modelled

- Expressions (WHERE, property maps, SET values): the spec places the
  expression compiler outside the core, and their code in this file builds
  expression trees. In ORDER BY, GROUP BY and SKIP/LIMIT an expression is a
  model value, or an argument that is absent, closed, or mentions a
  variable.
- `flatten_grouping_sets`: on the list of plain item expressions the
  automatic GROUP BY passes it, it is the identity. Its GroupingSet errors
  cannot be reached from this code.
- The WITH ... WHERE wrapper (`transform_cypher_clause_with_where`) and
  `parse_check_aggregates` (PostgreSQL).
- `transform_cypher_sub_pattern` (EXISTS).
- The serialisation of plans (`outNode`).
- The property-constraint quals.
- The multi-item SET error paths, and the REMOVE `variable.property` checks.
- The catalog: a label is a name with a kind or absent, and is never dropped.

## Divergence noted while modelling, not run

- **Reused path variable.** Within one MATCH, a path variable has a column
  but no entity. `find_variable` returns NULL for it (line 2287), so
  `MATCH a = (x)-[]->(y), (a)` reuses the path column as a vertex with no
  conflict error. The model shows this with `ReuseConflictRejected` and
  `MaxClauses = 1, MaxPaths = 2`. It is the same property the
  `clausechain_reuse_prior` run violates, so it has no run of its own.

- **Named CREATE path length.** The spec (4.3) rejects a named CREATE path
  with fewer than 2 edges. The code (`transform_cypher_create_path`, line
  2611) rejects only paths with fewer than 3 elements, i.e. no edge.
- **Named path length in the data model.** The spec's data model asks
  "length ≥5 (≥2 vertices + 1 edge)" of a named path, and the two halves of
  that sentence disagree. The code's MATCH and CREATE both accept 3 elements.

## Plan for later work

- Compose `PathJoin` with the reuse resolution of `ClauseChain`, so that a
  reused vertex joins through its prior column.
- Prove `ExistingNodeResolved` under the extra hypothesis that names are
  never rebound (the hypothesis the `clausechain_rebind` finding shows the
  code does not enforce).
