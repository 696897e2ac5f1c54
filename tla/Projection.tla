----------------------------- MODULE Projection -----------------------------
(***************************************************************************)
(* The projection compiler of cypher_clause.c: transform_cypher_return.   *)
(* transform_cypher_item_list projects each item into the target list and  *)
(* collects the non-aggregate ones as group keys.  transform_cypher_return *)
(* then resolves the ORDER BY keys against                                 *)
(* the target list (find_target_list_entry, appending a hidden resjunk     *)
(* entry for a key that is not projected), builds the sort clause, then    *)
(* the automatic GROUP BY from the non-aggregate items                     *)
(* (transform_group_clause), where a key that is also sorted on inherits   *)
(* the ORDER BY item's operators; then DISTINCT and SKIP/LIMIT.            *)
(*                                                                         *)
(* Sort and group clauses do not hold their target entry: they name it by  *)
(* tleSortGroupRef, a number assignSortGroupRef writes into the entry      *)
(* (ressortgroupref) the first time it is sorted or grouped on.            *)
(*                                                                         *)
(* An expression is a model value; find_target_list_entry compares         *)
(* transformed expressions with equal(), so two items are the same key     *)
(* exactly when they are the same value.  Aggs are expressions that        *)
(* contain an aggregate.  Aliases, types and collations are left out: the  *)
(* operators of a clause are recorded only as ascending or descending.     *)
(***************************************************************************)
EXTENDS Naturals, Sequences, FiniteSets

CONSTANTS
    Exprs,      \* expressions without an aggregate
    Aggs,       \* expressions with an aggregate
    MaxItems,   \* items of a RETURN
    MaxKeys     \* ORDER BY items

ASSUME ProjectionAssumption ==
    /\ Exprs \cap Aggs = {}
    /\ MaxItems \in Nat \ {0}
    /\ MaxKeys \in Nat

VARIABLES
    items,      \* the RETURN items, in order
    orderBy,    \* the ORDER BY items
    distinct,   \* RETURN DISTINCT
    skip,       \* the SKIP argument: none, a closed expression, or one with a variable
    limit,      \* the LIMIT argument, likewise
    groupKeys,  \* the group list transform_cypher_item_list hands back
    tlist,      \* query->targetList
    sortList,   \* query->sortClause
    groupList,  \* query->groupClause, as it is built
    seen,       \* seen_local of transform_group_clause
    k,          \* index of the ORDER BY or group item being compiled
    phase       \* the step of transform_cypher_return being run

vars == <<items, orderBy, distinct, skip, limit, groupKeys, tlist, sortList,
          groupList, seen, k, phase>>

Expr == Exprs \cup Aggs
SortBy == [expr : Expr, desc : BOOLEAN]
LimitArgs == {"none", "closed", "open"}
TargetEntry == [expr : Expr, junk : BOOLEAN, ref : Nat]
SortGroupClause == [ref : Nat, desc : BOOLEAN, nullsFirst : BOOLEAN]
SeqsUpTo(S, m) == UNION {[1 .. j -> S] : j \in 0 .. m}

(* transform_cypher_item_list (not in this file; spec 4.5): some item     *)
(* has an aggregate.                                                       *)
HasAgg(its) == \E i \in DOMAIN its : its[i] \in Aggs

(* find_target_list_entry: the first entry whose expression is equal to  *)
(* the key; when there is none, the key is appended as a resjunk entry.  *)
IsEntryFor(tl, i, e) ==
    /\ tl[i].expr = e
    /\ \A j \in 1 .. (i - 1) : tl[j].expr # e
HasEntry(tl, e) == \E i \in DOMAIN tl : tl[i].expr = e

(* Fault-injection variant: a key never matches an existing entry.        *)
WithEntryAlwaysNew(tl, e) ==
    Append(tl, [expr |-> e, junk |-> TRUE, ref |-> 0])

WithEntry(tl, e) ==
    IF HasEntry(tl, e) THEN tl ELSE Append(tl, [expr |-> e, junk |-> TRUE, ref |-> 0])

(* The position of the entry find_target_list_entry returns, in the list  *)
(* WithEntry gives back.                                                   *)
EntryIndex(tl, e) ==
    LET tl2 == WithEntry(tl, e)
    IN  CHOOSE i \in DOMAIN tl2 : IsEntryFor(tl2, i, e)

(* assignSortGroupRef: an entry keeps its ref; otherwise it gets one more *)
(* than the largest ref of the target list.                               *)
RefsOf(tl) == {tl[i].ref : i \in DOMAIN tl} \cup {0}
MaxRef(tl) == CHOOSE m \in RefsOf(tl) : \A r \in RefsOf(tl) : r <= m

(* Fault-injection variant: the new ref is the largest one, not one more. *)
AssignSortGroupRefNoIncrement(tl, i) ==
    IF tl[i].ref > 0 THEN tl[i].ref ELSE MaxRef(tl)

AssignSortGroupRef(tl, i) ==
    IF tl[i].ref > 0 THEN tl[i].ref ELSE MaxRef(tl) + 1

SetRef(tl, i, r) ==
    [tl EXCEPT ![i] = [expr |-> tl[i].expr, junk |-> tl[i].junk, ref |-> r]]

(* targetIsInSortList: the entry has a ref and a clause of the list names *)
(* it.  Ascending and descending operators are each other's commutators,  *)
(* so a clause for the same entry matches whatever its direction.         *)
InSortList(ref, list) == ref > 0 /\ \E j \in DOMAIN list : list[j].ref = ref
FirstClauseOf(ref, list) ==
    CHOOSE j \in DOMAIN list :
        list[j].ref = ref /\ \A j2 \in 1 .. (j - 1) : list[j2].ref # ref

-----------------------------------------------------------------------------
Init ==
    /\ items \in SeqsUpTo(Expr, MaxItems) \ {<<>>}
    /\ orderBy \in SeqsUpTo(SortBy, MaxKeys)
    /\ distinct \in BOOLEAN
    /\ skip \in LimitArgs
    /\ limit \in LimitArgs
    /\ groupKeys = <<>>
    /\ tlist = <<>>
    /\ sortList = <<>>
    /\ groupList = <<>>
    /\ seen = {}
    /\ k = 1
    /\ phase = "items"

(* One iteration of transform_cypher_item_list (spec 4.5 (a), (c)): the  *)
(* item becomes a projected target entry, and an item without an          *)
(* aggregate a group key.                                                 *)
TransformItem ==
    /\ phase = "items"
    /\ k <= Len(items)
    /\ tlist' = Append(tlist, [expr |-> items[k], junk |-> FALSE, ref |-> 0])
    /\ groupKeys' = IF items[k] \in Aggs THEN groupKeys
                    ELSE Append(groupKeys, items[k])
    /\ k' = k + 1
    /\ UNCHANGED <<items, orderBy, distinct, skip, limit, sortList, groupList,
                   seen, phase>>

(* The end of transform_cypher_item_list: the group keys are handed back  *)
(* only when some item aggregates; transform_cypher_return goes on to     *)
(* ORDER BY.                                                              *)
EndItems ==
    /\ phase = "items"
    /\ k > Len(items)
    /\ groupKeys' = IF HasAgg(items) THEN groupKeys ELSE <<>>
    /\ phase' = "order"
    /\ k' = 1
    /\ UNCHANGED <<items, orderBy, distinct, skip, limit, tlist, sortList,
                   groupList, seen>>

(* One iteration of transform_cypher_order_by: find_target_list_entry,    *)
(* then addTargetToSortList, which adds a clause (nulls first exactly     *)
(* when descending) unless the entry is already sorted on.                *)
OrderByItem ==
    LET key == orderBy[k]
        tl  == WithEntry(tlist, key.expr)
        i   == EntryIndex(tlist, key.expr)
        r   == AssignSortGroupRef(tl, i)
    IN  /\ phase = "order"
        /\ k <= Len(orderBy)
        /\ \/ /\ InSortList(tl[i].ref, sortList)
              /\ tlist' = tl
              /\ UNCHANGED sortList
           \/ /\ ~InSortList(tl[i].ref, sortList)
              /\ tlist' = SetRef(tl, i, r)
              /\ sortList' = Append(sortList, [ref |-> r, desc |-> key.desc,
                                               nullsFirst |-> key.desc])
        /\ k' = k + 1
        /\ UNCHANGED <<items, orderBy, distinct, skip, limit, groupKeys,
                       groupList, seen, phase>>

(* transform_cypher_return moves on from ORDER BY to the automatic        *)
(* GROUP BY, passing it the finished sort clause.                         *)
EndOrderBy ==
    /\ phase = "order"
    /\ k > Len(orderBy)
    /\ phase' = "group"
    /\ k' = 1
    /\ UNCHANGED <<items, orderBy, distinct, skip, limit, groupKeys, tlist,
                   sortList, groupList, seen>>

(* Fault-injection variant: a key is never recognised as grouped already.*)
AlreadyGroupedNever(ref) == FALSE

(* The early returns of transform_group_clause_expr: a key already seen   *)
(* at this level (seen_local), or already in the group list.              *)
AlreadyGrouped(ref) ==
    ref > 0 /\ (ref \in seen \/ InSortList(ref, groupList))

(* add_target_to_group_list: a clause with the type's default operators  *)
(* (ascending, nulls last) unless the entry is already grouped on.        *)
AddTargetToGroupList(tl, i) ==
    IF InSortList(tl[i].ref, groupList)
    THEN groupList
    ELSE Append(groupList, [ref |-> AssignSortGroupRef(tl, i), desc |-> FALSE,
                            nullsFirst |-> FALSE])

(* Fault-injection variant: the key never looks for an ORDER BY item.     *)
GroupClauseForDefault(tl, i) == AddTargetToGroupList(tl, i)

(* The rest of transform_group_clause_expr: a key that is sorted on gets  *)
(* a copy of its first sort clause (nulls_first kept, at top level);      *)
(* otherwise add_target_to_group_list.                                    *)
GroupClauseFor(tl, i) ==
    IF InSortList(tl[i].ref, sortList)
    THEN Append(groupList, sortList[FirstClauseOf(tl[i].ref, sortList)])
    ELSE AddTargetToGroupList(tl, i)

(* One iteration of transform_group_clause: transform_group_clause_expr   *)
(* on the next key, and seen_local takes the ref it returns.              *)
GroupItem ==
    LET tl == WithEntry(tlist, groupKeys[k])
        i  == EntryIndex(tlist, groupKeys[k])
    IN  /\ phase = "group"
        /\ k <= Len(groupKeys)
        /\ \/ /\ AlreadyGrouped(tl[i].ref)
              /\ tlist' = tl
              /\ seen' = seen \cup {tl[i].ref}
              /\ UNCHANGED groupList
           \/ /\ ~AlreadyGrouped(tl[i].ref)
              /\ groupList' = GroupClauseFor(tl, i)
              /\ tlist' = SetRef(tl, i, AssignSortGroupRef(tl, i))
              /\ seen' = seen \cup {AssignSortGroupRef(tl, i)}
        /\ k' = k + 1
        /\ UNCHANGED <<items, orderBy, distinct, skip, limit, groupKeys,
                       sortList, phase>>

EndGroup ==
    /\ phase = "group"
    /\ k > Len(groupKeys)
    /\ phase' = "distinct"
    /\ UNCHANGED <<items, orderBy, distinct, skip, limit, groupKeys, tlist,
                   sortList, groupList, seen, k>>

(* transformDistinctClause, called for RETURN DISTINCT: every ORDER BY    *)
(* expression must be in the select list (not a hidden entry).            *)
DistinctClause ==
    /\ phase = "distinct"
    /\ phase' = IF distinct /\ \E j \in DOMAIN sortList :
                                  \E i \in DOMAIN tlist :
                                      tlist[i].ref = sortList[j].ref /\ tlist[i].junk
                THEN "error" ELSE "limit"
    /\ UNCHANGED <<items, orderBy, distinct, skip, limit, groupKeys, tlist,
                   sortList, groupList, seen, k>>

(* transform_cypher_limit, for SKIP and then LIMIT: the argument may not  *)
(* contain a variable of the query.                                        *)
LimitClauses ==
    /\ phase = "limit"
    /\ phase' = IF "open" \in {skip, limit} THEN "error" ELSE "done"
    /\ UNCHANGED <<items, orderBy, distinct, skip, limit, groupKeys, tlist,
                   sortList, groupList, seen, k>>

Next ==
    \/ TransformItem
    \/ EndItems
    \/ OrderByItem
    \/ EndOrderBy
    \/ GroupItem
    \/ EndGroup
    \/ DistinctClause
    \/ LimitClauses

Spec == Init /\ [][Next]_vars

-----------------------------------------------------------------------------
TypeOK ==
    /\ items \in Seq(Expr)
    /\ orderBy \in Seq(SortBy)
    /\ distinct \in BOOLEAN
    /\ skip \in LimitArgs
    /\ limit \in LimitArgs
    /\ groupKeys \in Seq(Expr)
    /\ tlist \in Seq(TargetEntry)
    /\ sortList \in Seq(SortGroupClause)
    /\ groupList \in Seq(SortGroupClause)
    /\ seen \in SUBSET Nat
    /\ k \in Nat
    /\ phase \in {"items", "order", "group", "distinct", "limit", "done", "error"}

(* The entry a clause names: get_sortgroupclause_tle takes the first with *)
(* the ref.                                                                *)
EntryOf(ref) == tlist[CHOOSE i \in DOMAIN tlist : tlist[i].ref = ref]

(* Every sort and group clause names exactly one target entry: refs are   *)
(* positive, no two entries share one, and each clause's ref is an        *)
(* entry's.  The planner finds a clause's column by its ref alone, so a   *)
(* shared ref would sort or group on the wrong column.                    *)
SortGroupRefsUnique ==
    /\ \A i, j \in DOMAIN tlist :
          i # j /\ tlist[i].ref > 0 => tlist[i].ref # tlist[j].ref
    /\ \A j \in DOMAIN sortList :
          sortList[j].ref > 0 /\ \E i \in DOMAIN tlist : tlist[i].ref = sortList[j].ref
    /\ \A j \in DOMAIN groupList :
          groupList[j].ref > 0 /\ \E i \in DOMAIN tlist : tlist[i].ref = groupList[j].ref

(* A group key that is also an ORDER BY key is compared the way the ORDER *)
(* BY item says (direction and nulls), so that one sort serves both       *)
(* (spec 4.5; the operator copy in transform_group_clause_expr).          *)
GroupKeyInheritsOrder ==
    \A g \in DOMAIN groupList, s \in DOMAIN sortList :
        groupList[g].ref = sortList[s].ref =>
            /\ groupList[g].desc = sortList[s].desc
            /\ groupList[g].nullsFirst = sortList[s].nullsFirst

(* Once grouping is compiled, the rows are grouped by exactly the         *)
(* distinct non-aggregate items when the RETURN aggregates, and not at    *)
(* all otherwise: each such item is grouped on once, through a projected  *)
(* column, and nothing else is.                                           *)
GroupingMatchesItems ==
    phase \in {"distinct", "limit", "done"} =>
        LET keys == IF HasAgg(items)
                    THEN {items[i] : i \in DOMAIN items} \ Aggs ELSE {}
        IN  /\ {EntryOf(groupList[j].ref).expr : j \in DOMAIN groupList} = keys
            /\ \A j \in DOMAIN groupList : ~EntryOf(groupList[j].ref).junk
            /\ \A a, b \in DOMAIN groupList :
                  a # b => groupList[a].ref # groupList[b].ref

(* Once ORDER BY is compiled, the sort clause is the ORDER BY list with   *)
(* every repeat of an earlier key dropped (a later key on the same        *)
(* expression never breaks a tie), in order and with its direction; a     *)
(* hidden column was added once for each key that is not projected, and   *)
(* for no other.                                                          *)
SortMatchesOrderBy ==
    phase \notin {"items", "order"} =>
        LET firsts == {i \in DOMAIN orderBy :
                          \A j \in 1 .. (i - 1) : orderBy[j].expr # orderBy[i].expr}
            projected == {items[i] : i \in DOMAIN items}
            hidden == {orderBy[i].expr : i \in DOMAIN orderBy} \ projected
        IN  /\ Len(sortList) = Cardinality(firsts)
            /\ \A j \in DOMAIN sortList :
                  \E i \in firsts :
                     /\ Cardinality({i2 \in firsts : i2 <= i}) = j
                     /\ EntryOf(sortList[j].ref).expr = orderBy[i].expr
                     /\ sortList[j].desc = orderBy[i].desc
                     /\ sortList[j].nullsFirst = orderBy[i].desc
            /\ Len(tlist) = Len(items) + Cardinality(hidden)
            /\ \A i \in DOMAIN tlist :
                  i > Len(items) => tlist[i].junk /\ tlist[i].expr \in hidden
(* Spec (its example of an aggregating RETURN ordered by n DESC): a group *)
(* key that inherits a descending ORDER BY item compares descending with  *)
(* nulls last.  transform_group_clause_expr copies the sort clause, and   *)
(* the clause addTargetToSortList made for a DESC key has nulls first.    *)
GroupKeyDescNullsLast ==
    \A g \in DOMAIN groupList : groupList[g].desc => ~groupList[g].nullsFirst
=============================================================================
