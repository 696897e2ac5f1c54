---------------------- MODULE ProjectionGroupingProofs ----------------------
(***************************************************************************)
(* Proof that the automatic GROUP BY of transform_cypher_return groups by  *)
(* exactly the distinct non-aggregate items when the RETURN aggregates,    *)
(* through projected columns, each once.  The argument follows the three  *)
(* loops: transform_cypher_item_list builds one projected entry per item   *)
(* and collects the group keys; ORDER BY appends only hidden entries past  *)
(* the items and never changes an entry's expression; and each key of      *)
(* transform_group_clause leaves its first entry with a ref that some      *)
(* group clause has, while every group clause names the first entry of a  *)
(* key compiled so far.                                                    *)
(***************************************************************************)
EXTENDS ProjectionProofs

-----------------------------------------------------------------------------
ItemSet == {items[i] : i \in DOMAIN items}
GroupKeySet == {groupKeys[m] : m \in DOMAIN groupKeys}
GroupRefs == {groupList[j].ref : j \in DOMAIN groupList}

(* The keys transform_cypher_item_list hands back, once it has returned.  *)
HandedBack == IF HasAgg(items) THEN ItemSet \ Aggs ELSE {}

(* While the item list is transformed: one projected entry without a ref *)
(* per item so far, and the non-aggregate ones among them as group keys. *)
ItemsLoop ==
    phase = "items" =>
        /\ k \in 1 .. (Len(items) + 1)
        /\ Len(tlist) = k - 1
        /\ \A i \in 1 .. (k - 1) :
              tlist[i] = [expr |-> items[i], junk |-> FALSE, ref |-> 0]
        /\ GroupKeySet = {items[i] : i \in 1 .. (k - 1)} \ Aggs

(* Afterwards: the first entries are the items, projected, and the group *)
(* keys are the ones handed back.                                         *)
ItemsProjected ==
    phase # "items" =>
        /\ Len(items) <= Len(tlist)
        /\ \A i \in DOMAIN items : tlist[i].expr = items[i] /\ ~tlist[i].junk
        /\ GroupKeySet = HandedBack

(* transform_group_clause has compiled the keys before k: the entry of    *)
(* each has a ref some group clause has, and each group clause has the    *)
(* ref of the entry of one of them.                                       *)
KeysGrouped ==
    phase \notin {"items", "order"} =>
        /\ k \in 1 .. (Len(groupKeys) + 1)
        /\ phase # "group" => k = Len(groupKeys) + 1
        /\ \A m \in 1 .. (k - 1), i \in DOMAIN tlist :
              IsEntryFor(tlist, i, groupKeys[m]) => tlist[i].ref \in GroupRefs
        /\ \A j \in DOMAIN groupList :
              \E m \in 1 .. (k - 1), i \in DOMAIN tlist :
                  IsEntryFor(tlist, i, groupKeys[m]) /\ groupList[j].ref = tlist[i].ref

(* seen_local holds only refs the group list has, and no two group        *)
(* clauses share a ref.                                                   *)
SeenGrouped == seen \subseteq GroupRefs
GroupRefsDistinct ==
    \A a, b \in DOMAIN groupList : a # b => groupList[a].ref # groupList[b].ref

GroupInv ==
    /\ OrderInv
    /\ ItemsLoop
    /\ ItemsProjected
    /\ KeysGrouped
    /\ SeenGrouped
    /\ GroupRefsDistinct
-----------------------------------------------------------------------------
(***************************************************************************)
(* A target list keeps another's columns when it has every entry of it    *)
(* with the same expression and the same resjunk flag: what                *)
(* find_target_list_entry and assignSortGroupRef leave alone.              *)
(***************************************************************************)
ColumnsKept(tl, t2) ==
    /\ DOMAIN tl \subseteq DOMAIN t2
    /\ \A j \in DOMAIN tl : t2[j].expr = tl[j].expr /\ t2[j].junk = tl[j].junk

(* find_target_list_entry returns one entry for a key: the first.         *)
LEMMA EntryForUnique ==
    ASSUME NEW tl \in Seq(TargetEntry), NEW e, NEW i \in DOMAIN tl,
           NEW j \in DOMAIN tl, IsEntryFor(tl, i, e), IsEntryFor(tl, j, e)
    PROVE  i = j
<1>1. i \in Nat /\ j \in Nat
  OBVIOUS
<1>2. ~(i < j) /\ ~(j < i)
  BY <1>1 DEF IsEntryFor
<1>. QED
  BY <1>1, <1>2

(* An expression that is some entry's has a first entry, no later than    *)
(* any entry that has it.                                                 *)
LEMMA EntryForExists ==
    ASSUME NEW tl \in Seq(TargetEntry), NEW e, NEW p \in DOMAIN tl, tl[p].expr = e
    PROVE  \E i \in 1 .. p : IsEntryFor(tl, i, e)
<1>. DEFINE T == {j \in 1 .. p : tl[j].expr = e}
<1>1. DOMAIN tl = 1 .. Len(tl) /\ p \in Nat
  OBVIOUS
<1>2. T \in SUBSET Nat /\ T # {}
  BY <1>1
<1>3. PICK i \in T : \A j \in T : i <= j
  BY <1>2, LeastNat
<1>4. \A j \in 1 .. (i - 1) : tl[j].expr # e
  BY <1>1, <1>3
<1>. QED
  BY <1>1, <1>3, <1>4 DEF IsEntryFor

(* Two lists with the same columns up to an entry agree on whether it is  *)
(* the first entry for an expression.                                      *)
LEMMA EntryForSameColumns ==
    ASSUME NEW tl \in Seq(TargetEntry), NEW t2 \in Seq(TargetEntry),
           ColumnsKept(tl, t2), NEW e, NEW i \in DOMAIN tl
    PROVE  IsEntryFor(t2, i, e) <=> IsEntryFor(tl, i, e)
<1>1. \A j \in 1 .. i : j \in DOMAIN tl /\ t2[j].expr = tl[j].expr
  BY DEF ColumnsKept
<1>. QED
  BY <1>1 DEF IsEntryFor

(* A list that keeps the columns of another has the same first entry for  *)
(* an expression that had one.                                            *)
LEMMA EntryForKept ==
    ASSUME NEW tl \in Seq(TargetEntry), NEW t2 \in Seq(TargetEntry),
           ColumnsKept(tl, t2), NEW e, NEW p \in DOMAIN tl, tl[p].expr = e,
           NEW i \in DOMAIN t2
    PROVE  IsEntryFor(t2, i, e) <=> i \in DOMAIN tl /\ IsEntryFor(tl, i, e)
<1>1. DOMAIN tl = 1 .. Len(tl) /\ DOMAIN t2 = 1 .. Len(t2) /\ Len(tl) <= Len(t2)
  BY DEF ColumnsKept
<1>2. t2[p].expr = e
  BY DEF ColumnsKept
<1>3. ASSUME IsEntryFor(t2, i, e) PROVE i \in DOMAIN tl
  <2>1. ~(p < i)
    BY <1>1, <1>2, <1>3 DEF IsEntryFor
  <2>. QED
    BY <1>1, <2>1
<1>. QED
  BY <1>3, EntryForSameColumns

(* An item's first entry is a projected one, among the items.            *)
LEMMA ItemEntry ==
    ASSUME NEW tl \in Seq(TargetEntry), items \in Seq(Expr), Len(items) <= Len(tl),
           \A i \in DOMAIN items : tl[i].expr = items[i] /\ ~tl[i].junk,
           NEW e \in ItemSet
    PROVE  /\ \E i \in DOMAIN items : IsEntryFor(tl, i, e)
           /\ \A i \in DOMAIN tl : IsEntryFor(tl, i, e) => i \in DOMAIN items /\ ~tl[i].junk
<1>1. PICK p \in DOMAIN items : items[p] = e
  BY DEF ItemSet
<1>2. p \in DOMAIN tl /\ tl[p].expr = e
  BY <1>1
<1>3. PICK i \in 1 .. p : IsEntryFor(tl, i, e)
  BY <1>2, EntryForExists
<1>4. i \in DOMAIN items /\ i \in DOMAIN tl
  BY <1>1, <1>2, <1>3
<1>5. ASSUME NEW j \in DOMAIN tl, IsEntryFor(tl, j, e) PROVE j = i
  BY <1>3, <1>4, <1>5, EntryForUnique
<1>. QED
  BY <1>3, <1>4, <1>5

(* find_target_list_entry only appends.                                   *)
LEMMA WithEntryColumns ==
    ASSUME NEW tl \in Seq(TargetEntry), NEW e \in Expr
    PROVE  ColumnsKept(tl, WithEntry(tl, e))
BY WithEntryFacts DEF ColumnsKept

(* assignSortGroupRef changes a ref and nothing else.                      *)
LEMMA SetRefColumns ==
    ASSUME NEW tl \in Seq(TargetEntry), NEW i \in DOMAIN tl, NEW r
    PROVE  /\ DOMAIN SetRef(tl, i, r) = DOMAIN tl
           /\ ColumnsKept(tl, SetRef(tl, i, r))
BY DEF SetRef, ColumnsKept

-----------------------------------------------------------------------------
(***************************************************************************)
(* At the start nothing is transformed, compiled or seen.                 *)
(***************************************************************************)
LEMMA GroupInit == Init => GroupInv
<1>. SUFFICES ASSUME Init PROVE GroupInv
  OBVIOUS
<1>1. OrderInv
  BY OrderInit
<1>2. items \in Seq(Expr) /\ Len(items) \in Nat
  BY DEF Init, SeqsUpTo
<1>3. ItemsLoop
  BY <1>2 DEF Init, ItemsLoop, GroupKeySet
<1>. QED
  BY <1>1, <1>3 DEF Init, GroupInv, ItemsProjected, KeysGrouped, SeenGrouped,
                    GroupRefsDistinct, GroupRefs

(***************************************************************************)
(* An item of transform_cypher_item_list: its projected entry is appended *)
(* after the earlier items', and it is a group key unless it aggregates.  *)
(***************************************************************************)
LEMMA TransformItemGroup ==
    ASSUME GroupInv, TransformItem
    PROVE  GroupInv'
<1>. DEFINE new == [expr |-> items[k], junk |-> FALSE, ref |-> 0]
<1>1. OrderInv'
  BY OrderStep DEF GroupInv, TransformItem, Next
<1>2. /\ phase = "items" /\ phase' = "items"
      /\ k \in 1 .. Len(items) /\ items \in Seq(Expr) /\ items[k] \in Expr
      /\ groupKeys \in Seq(Expr) /\ tlist \in Seq(TargetEntry)
  BY ElementOfSeq DEF GroupInv, OrderInv, RefsInv, RefsTypeOK, TransformItem
<1>3. /\ tlist' = Append(tlist, new)
      /\ groupKeys' = IF items[k] \in Aggs THEN groupKeys ELSE Append(groupKeys, items[k])
      /\ k' = k + 1
      /\ UNCHANGED <<items, groupList, seen>>
  BY DEF TransformItem
<1>4. /\ Len(tlist) = k - 1
      /\ \A i \in 1 .. (k - 1) : tlist[i] = [expr |-> items[i], junk |-> FALSE, ref |-> 0]
      /\ GroupKeySet = {items[i] : i \in 1 .. (k - 1)} \ Aggs
  BY <1>2 DEF GroupInv, ItemsLoop
<1>5. /\ Len(tlist') = k
      /\ \A i \in 1 .. k : tlist'[i] = [expr |-> items[i], junk |-> FALSE, ref |-> 0]
  <2>1. new \in TargetEntry
    BY <1>2 DEF TargetEntry
  <2>2. /\ Len(tlist') = Len(tlist) + 1
        /\ tlist'[Len(tlist) + 1] = new
        /\ \A i \in 1 .. Len(tlist) : tlist'[i] = tlist[i]
    BY <1>2, <1>3, <2>1, AppendProperties
  <2>3. Len(tlist') = k
    BY <1>2, <1>4, <2>2
  <2>4. ASSUME NEW i \in 1 .. k
        PROVE  tlist'[i] = [expr |-> items[i], junk |-> FALSE, ref |-> 0]
    <3>1. CASE i = k
      BY <1>2, <1>4, <2>2, <3>1
    <3>2. CASE i # k
      <4>1. i \in 1 .. Len(tlist) /\ i \in 1 .. (k - 1)
        BY <1>2, <1>4, <3>2
      <4>2. tlist'[i] = tlist[i]
        BY <2>2, <4>1
      <4>3. tlist[i] = [expr |-> items[i], junk |-> FALSE, ref |-> 0]
        BY <1>4, <4>1
      <4>. QED
        BY <4>2, <4>3
    <3>. QED
      BY <3>1, <3>2
  <2>. QED
    BY <2>3, <2>4
<1>6. GroupKeySet' = {items[i] : i \in 1 .. k} \ Aggs
  <2>1. {items[i] : i \in 1 .. k} = {items[i] : i \in 1 .. (k - 1)} \cup {items[k]}
    BY <1>2
  <2>2. CASE items[k] \in Aggs
    <3>1. groupKeys' = groupKeys
      BY <1>3, <2>2
    <3>2. GroupKeySet' = GroupKeySet
      BY <3>1 DEF GroupKeySet
    <3>. QED
      BY <1>4, <2>1, <2>2, <3>2
  <2>3. CASE items[k] \notin Aggs
    <3>1. groupKeys' = Append(groupKeys, items[k])
      BY <1>3, <2>3
    <3>2. /\ DOMAIN groupKeys' = 1 .. (Len(groupKeys) + 1)
          /\ DOMAIN groupKeys = 1 .. Len(groupKeys)
          /\ \A m \in 1 .. Len(groupKeys) : groupKeys'[m] = groupKeys[m]
          /\ groupKeys'[Len(groupKeys) + 1] = items[k]
      BY <1>2, <3>1, AppendProperties
    <3>3. GroupKeySet' = GroupKeySet \cup {items[k]}
      BY <3>2 DEF GroupKeySet
    <3>. QED
      BY <1>4, <2>1, <2>3, <3>3
  <2>. QED
    BY <2>2, <2>3
<1>7. ItemsLoop'
  BY <1>2, <1>3, <1>5, <1>6 DEF ItemsLoop
<1>. QED
  BY <1>1, <1>2, <1>3, <1>7 DEF GroupInv, ItemsProjected, KeysGrouped, SeenGrouped,
                                GroupRefsDistinct, GroupRefs

(***************************************************************************)
(* The end of transform_cypher_item_list: every item has its projected    *)
(* entry, and the group keys are kept only when some item aggregates.     *)
(***************************************************************************)
LEMMA EndItemsGroup ==
    ASSUME GroupInv, EndItems
    PROVE  GroupInv'
<1>1. OrderInv'
  BY OrderStep DEF GroupInv, EndItems, Next
<1>2. /\ phase = "items" /\ phase' = "order"
      /\ k \in 1 .. (Len(items) + 1) /\ k > Len(items)
      /\ items \in Seq(Expr) /\ Len(tlist) = k - 1
      /\ \A i \in 1 .. (k - 1) : tlist[i] = [expr |-> items[i], junk |-> FALSE, ref |-> 0]
      /\ GroupKeySet = {items[i] : i \in 1 .. (k - 1)} \ Aggs
  BY DEF GroupInv, ItemsLoop, EndItems, OrderInv, RefsInv, RefsTypeOK
<1>3. /\ k - 1 = Len(items)
      /\ DOMAIN items = 1 .. (k - 1)
  BY <1>2
<1>4. /\ groupKeys' = IF HasAgg(items) THEN groupKeys ELSE <<>>
      /\ UNCHANGED <<items, tlist, groupList, seen>>
  BY DEF EndItems
<1>5. GroupKeySet = ItemSet \ Aggs
  BY <1>2, <1>3 DEF ItemSet
<1>6. GroupKeySet' = HandedBack
  <2>1. CASE HasAgg(items)
    <3>1. groupKeys' = groupKeys
      BY <1>4, <2>1
    <3>. QED
      BY <1>5, <2>1, <3>1 DEF GroupKeySet, HandedBack
  <2>2. CASE ~HasAgg(items)
    <3>1. groupKeys' = <<>>
      BY <1>4, <2>2
    <3>. QED
      BY <2>2, <3>1 DEF GroupKeySet, HandedBack
  <2>. QED
    BY <2>1, <2>2
<1>7. HandedBack' = HandedBack
  BY <1>4 DEF HandedBack, HasAgg, ItemSet
<1>8. ItemsProjected'
  <2>1. ASSUME NEW i \in DOMAIN items PROVE tlist[i].expr = items[i] /\ ~tlist[i].junk
    <3>1. i \in 1 .. (k - 1)
      BY <1>3
    <3>2. tlist[i] = [expr |-> items[i], junk |-> FALSE, ref |-> 0]
      BY <1>2, <3>1
    <3>. QED
      BY <3>2
  <2>2. Len(items) <= Len(tlist)
    BY <1>2, <1>3
  <2>. QED
    BY <1>2, <1>4, <1>6, <1>7, <2>1, <2>2 DEF ItemsProjected
<1>. QED
  BY <1>1, <1>2, <1>4, <1>8 DEF GroupInv, ItemsLoop, KeysGrouped, SeenGrouped,
                                GroupRefsDistinct, GroupRefs

(***************************************************************************)
(* A step that keeps the columns of the target list, the items and the    *)
(* group keys keeps the items projected.                                  *)
(***************************************************************************)
LEMMA ProjectedKept ==
    ASSUME ItemsProjected, phase # "items", phase' # "items",
           tlist \in Seq(TargetEntry), tlist' \in Seq(TargetEntry),
           ColumnsKept(tlist, tlist'), UNCHANGED <<items, groupKeys>>
    PROVE  ItemsProjected'
<1>1. Len(tlist) <= Len(tlist')
  BY DEF ColumnsKept
<1>2. \A i \in DOMAIN items : tlist'[i].expr = items[i] /\ ~tlist'[i].junk
  BY DEF ItemsProjected, ColumnsKept
<1>3. GroupKeySet' = GroupKeySet /\ HandedBack' = HandedBack
  BY DEF GroupKeySet, HandedBack, HasAgg, ItemSet
<1>. QED
  BY <1>1, <1>2, <1>3 DEF ItemsProjected

(***************************************************************************)
(* An ORDER BY key only appends a hidden entry and sets a ref.             *)
(***************************************************************************)
LEMMA OrderByItemGroup ==
    ASSUME GroupInv, OrderByItem
    PROVE  GroupInv'
<1>. DEFINE key == orderBy[k]
            tl  == WithEntry(tlist, key.expr)
            i   == EntryIndex(tlist, key.expr)
<1>1. OrderInv'
  BY OrderStep DEF GroupInv, OrderByItem, Next
<1>2. /\ phase = "order" /\ phase' = "order"
      /\ tlist \in Seq(TargetEntry) /\ tlist' \in Seq(TargetEntry)
      /\ UNCHANGED <<items, groupKeys, groupList, seen>>
  BY <1>1 DEF GroupInv, OrderInv, RefsInv, RefsTypeOK, OrderByItem
<1>3. key.expr \in Expr
  <2>1. k \in 1 .. Len(orderBy) /\ orderBy \in Seq(SortBy)
    BY DEF OrderByItem, GroupInv, OrderInv, RefsInv, RefsTypeOK
  <2>2. key \in SortBy
    BY <2>1, ElementOfSeq
  <2>. QED
    BY <2>2 DEF SortBy
<1>4. ColumnsKept(tlist, tlist')
  <2>1. tl \in Seq(TargetEntry) /\ i \in DOMAIN tl /\ ColumnsKept(tlist, tl)
    BY <1>2, <1>3, WithEntryFacts, WithEntryColumns
  <2>2. tlist' = tl \/ tlist' = SetRef(tl, i, AssignSortGroupRef(tl, i))
    BY DEF OrderByItem
  <2>3. ColumnsKept(tl, SetRef(tl, i, AssignSortGroupRef(tl, i)))
    BY <2>1, SetRefColumns
  <2>. QED
    BY <2>1, <2>2, <2>3 DEF ColumnsKept
<1>5. ItemsProjected'
  BY <1>2, <1>4, ProjectedKept DEF GroupInv
<1>. QED
  BY <1>1, <1>2, <1>5 DEF GroupInv, ItemsLoop, KeysGrouped, SeenGrouped,
                          GroupRefsDistinct, GroupRefs

(***************************************************************************)
(* From ORDER BY to GROUP BY: no key is compiled and the group list is     *)
(* empty.                                                                  *)
(***************************************************************************)
LEMMA EndOrderByGroup ==
    ASSUME GroupInv, EndOrderBy
    PROVE  GroupInv'
<1>1. OrderInv'
  BY OrderStep DEF GroupInv, EndOrderBy, Next
<1>2. /\ phase = "order" /\ phase' = "group" /\ k' = 1 /\ groupList = <<>>
      /\ groupKeys \in Seq(Expr) /\ tlist \in Seq(TargetEntry)
      /\ UNCHANGED <<items, groupKeys, tlist, groupList, seen>>
  BY DEF GroupInv, OrderInv, NoGroupWhileOrdering, RefsInv, RefsTypeOK, EndOrderBy
<1>3. ColumnsKept(tlist, tlist)
  BY DEF ColumnsKept
<1>4. ItemsProjected'
  BY <1>2, <1>3, ProjectedKept DEF GroupInv
<1>5. KeysGrouped'
  BY <1>2 DEF KeysGrouped
<1>. QED
  BY <1>1, <1>2, <1>4, <1>5 DEF GroupInv, ItemsLoop, SeenGrouped,
                                GroupRefsDistinct, GroupRefs

(***************************************************************************)
(* A group key is an item, so find_target_list_entry finds its projected  *)
(* entry and appends nothing.                                              *)
(***************************************************************************)
LEMMA GroupKeyFound ==
    ASSUME GroupInv, GroupItem
    PROVE  WithEntry(tlist, groupKeys[k]) = tlist
<1>. DEFINE e == groupKeys[k]
<1>1. /\ k \in 1 .. Len(groupKeys) /\ groupKeys \in Seq(Expr)
      /\ items \in Seq(Expr) /\ tlist \in Seq(TargetEntry)
  BY DEF GroupInv, OrderInv, RefsInv, RefsTypeOK, GroupItem
<1>2. /\ Len(items) <= Len(tlist)
      /\ \A j \in DOMAIN items : tlist[j].expr = items[j] /\ ~tlist[j].junk
      /\ GroupKeySet = HandedBack
  BY DEF GroupInv, ItemsProjected, GroupItem
<1>3. e \in ItemSet
  BY <1>1, <1>2 DEF GroupKeySet, HandedBack
<1>4. PICK p \in DOMAIN items : IsEntryFor(tlist, p, e)
  BY <1>1, <1>2, <1>3, ItemEntry
<1>5. p \in DOMAIN tlist /\ tlist[p].expr = e
  BY <1>1, <1>2, <1>4 DEF IsEntryFor
<1>. QED
  BY <1>5 DEF WithEntry, HasEntry

(***************************************************************************)
(* A key of transform_group_clause.  Its first entry is a projected item  *)
(* (the key is an item), so find_target_list_entry appends nothing.  A    *)
(* key already grouped on has a ref the group list has; otherwise the     *)
(* clause made for it (a copy of its sort clause, or a default one) has   *)
(* the ref assignSortGroupRef gives the entry, which no group clause had. *)
(***************************************************************************)
LEMMA GroupItemGroup ==
    ASSUME GroupInv, GroupItem
    PROVE  GroupInv'
<1>. DEFINE e    == groupKeys[k]
            i    == EntryIndex(tlist, e)
            ref0 == tlist[i].ref
            r    == AssignSortGroupRef(tlist, i)
<1>1. OrderInv'
  BY OrderStep DEF GroupInv, GroupItem, Next
<1>2. /\ phase = "group" /\ k \in 1 .. Len(groupKeys)
      /\ groupKeys \in Seq(Expr) /\ items \in Seq(Expr) /\ e \in Expr
      /\ tlist \in Seq(TargetEntry) /\ Unique(tlist)
      /\ groupList \in Seq(SortGroupClause) /\ sortList \in Seq(SortGroupClause)
      /\ ClauseRefsHeld(groupList, tlist)
  BY ElementOfSeq DEF GroupInv, OrderInv, RefsInv, RefsTypeOK, GroupItem
<1>3. /\ Len(items) <= Len(tlist)
      /\ \A j \in DOMAIN items : tlist[j].expr = items[j] /\ ~tlist[j].junk
      /\ GroupKeySet = HandedBack
  BY <1>2 DEF GroupInv, ItemsProjected
<1>4. /\ \A m \in 1 .. (k - 1), i2 \in DOMAIN tlist :
            IsEntryFor(tlist, i2, groupKeys[m]) => tlist[i2].ref \in GroupRefs
      /\ \A j \in DOMAIN groupList :
            \E m \in 1 .. (k - 1), i2 \in DOMAIN tlist :
                IsEntryFor(tlist, i2, groupKeys[m]) /\ groupList[j].ref = tlist[i2].ref
  BY <1>2 DEF GroupInv, KeysGrouped
<1>6. WithEntry(tlist, e) = tlist
  BY GroupKeyFound
<1>7. /\ i \in DOMAIN tlist /\ IsEntryFor(tlist, i, e)
      /\ \A i2 \in DOMAIN tlist : IsEntryFor(tlist, i2, e) => i2 = i
  <2>1. i \in DOMAIN tlist /\ IsEntryFor(tlist, i, e)
    BY <1>2, <1>6, WithEntryFacts
  <2>. QED
    BY <1>2, <2>1, EntryForUnique
<1>8. /\ k' = k + 1 /\ phase' = "group"
      /\ UNCHANGED <<items, groupKeys, sortList>>
      /\ \/ /\ AlreadyGrouped(ref0)
            /\ tlist' = tlist /\ groupList' = groupList /\ seen' = seen \cup {ref0}
         \/ /\ ~AlreadyGrouped(ref0)
            /\ groupList' = GroupClauseFor(tlist, i)
            /\ tlist' = SetRef(tlist, i, r) /\ seen' = seen \cup {r}
  BY <1>6 DEF GroupItem
<1>9. \A g \in GroupRefs : g > 0
  BY <1>2 DEF ClauseRefsHeld, GroupRefs
<1>10. CASE AlreadyGrouped(ref0)
  <2>1. ref0 \in GroupRefs
    BY <1>10 DEF AlreadyGrouped, InSortList, GroupRefs, GroupInv, SeenGrouped
  <2>2. tlist' = tlist /\ groupList' = groupList /\ seen' = seen \cup {ref0}
    BY <1>8, <1>10
  <2>3. GroupRefs' = GroupRefs
    BY <2>2 DEF GroupRefs
  <2>4. ColumnsKept(tlist, tlist')
    BY <2>2 DEF ColumnsKept
  <2>5. ItemsProjected'
    BY <1>2, <1>8, <2>2, <2>4, ProjectedKept DEF GroupInv
  <2>6. ASSUME NEW m \in 1 .. (k' - 1), NEW i2 \in DOMAIN tlist',
               IsEntryFor(tlist', i2, groupKeys'[m])
        PROVE  tlist'[i2].ref \in GroupRefs'
    <3>1. CASE m = k
      BY <1>7, <1>8, <2>1, <2>2, <2>3, <2>6, <3>1
    <3>2. CASE m # k
      BY <1>2, <1>4, <1>8, <2>2, <2>3, <2>6, <3>2
    <3>. QED
      BY <3>1, <3>2
  <2>7. ASSUME NEW j \in DOMAIN groupList'
        PROVE  \E m \in 1 .. (k' - 1), i2 \in DOMAIN tlist' :
                   IsEntryFor(tlist', i2, groupKeys'[m]) /\ groupList'[j].ref = tlist'[i2].ref
    <3>1. PICK m \in 1 .. (k - 1), i2 \in DOMAIN tlist :
              IsEntryFor(tlist, i2, groupKeys[m]) /\ groupList[j].ref = tlist[i2].ref
      BY <1>4, <2>2
    <3>2. m \in 1 .. (k' - 1) /\ groupKeys'[m] = groupKeys[m]
      BY <1>2, <1>8, <3>1
    <3>3. i2 \in DOMAIN tlist' /\ tlist' = tlist /\ groupList' = groupList
      BY <2>2, <3>1
    <3>. QED
      BY <3>1, <3>2, <3>3
  <2>8. KeysGrouped'
    <3>1. k' \in 1 .. (Len(groupKeys') + 1) /\ phase' = "group"
      BY <1>2, <1>8
    <3>. QED
      BY <3>1, <2>6, <2>7 DEF KeysGrouped
  <2>. QED
    BY <1>1, <1>8, <2>1, <2>2, <2>3, <2>5, <2>8
       DEF GroupInv, ItemsLoop, SeenGrouped, GroupRefsDistinct
<1>11. CASE ~AlreadyGrouped(ref0)
  <2>1. groupList' = GroupClauseFor(tlist, i) /\ tlist' = SetRef(tlist, i, r)
        /\ seen' = seen \cup {r}
    BY <1>8, <1>11
  <2>2. /\ r \in Nat \ {0}
        /\ tlist' \in Seq(TargetEntry)
        /\ DOMAIN tlist' = DOMAIN tlist
        /\ tlist'[i].ref = r
        /\ \A j \in DOMAIN tlist : tlist[j].ref > 0 => tlist'[j].ref = tlist[j].ref
    BY <1>2, <1>7, <2>1, SetRefFacts
  <2>3. ColumnsKept(tlist, tlist')
    BY <1>2, <1>7, <2>1, SetRefColumns
  <2>4. ~InSortList(ref0, groupList)
    BY <1>11 DEF AlreadyGrouped, InSortList
  <2>5. \A j \in DOMAIN groupList : groupList[j].ref # r
    BY <1>2, <1>7, <2>4, FreshRef
  <2>6. PICK c \in SortGroupClause : groupList' = Append(groupList, c) /\ c.ref = r
    <3>1. CASE InSortList(ref0, sortList)
      <4>1. FirstClauseOf(ref0, sortList) \in DOMAIN sortList
            /\ sortList[FirstClauseOf(ref0, sortList)].ref = ref0
        BY <1>2, <3>1, FirstClauseFacts
      <4>2. sortList[FirstClauseOf(ref0, sortList)] \in SortGroupClause
        BY <1>2, <4>1, ElementOfSeq
      <4>3. r = ref0
        BY <3>1 DEF InSortList, AssignSortGroupRef
      <4>4. groupList' = Append(groupList, sortList[FirstClauseOf(ref0, sortList)])
        BY <2>1, <3>1 DEF GroupClauseFor
      <4>. QED
        BY <4>1, <4>2, <4>3, <4>4
    <3>2. CASE ~InSortList(ref0, sortList)
      <4>1. groupList' = Append(groupList, [ref |-> r, desc |-> FALSE, nullsFirst |-> FALSE])
        BY <2>1, <2>4, <3>2 DEF GroupClauseFor, AddTargetToGroupList
      <4>2. [ref |-> r, desc |-> FALSE, nullsFirst |-> FALSE] \in SortGroupClause
        BY <2>2 DEF SortGroupClause
      <4>. QED
        BY <4>1, <4>2
    <3>. QED
      BY <3>1, <3>2
  <2>7. /\ DOMAIN groupList' = 1 .. (Len(groupList) + 1)
        /\ DOMAIN groupList = 1 .. Len(groupList)
        /\ \A j \in DOMAIN groupList : groupList'[j] = groupList[j]
        /\ groupList'[Len(groupList) + 1] = c
  BY <1>2, <2>6, AppendProperties
  <2>8. GroupRefs' = GroupRefs \cup {r}
    BY <2>6, <2>7 DEF GroupRefs
  <2>9. SeenGrouped' /\ GroupRefsDistinct'
    BY <2>1, <2>5, <2>6, <2>7, <2>8 DEF GroupInv, SeenGrouped, GroupRefsDistinct
  <2>10. ItemsProjected'
    BY <1>2, <1>8, <2>2, <2>3, ProjectedKept DEF GroupInv
  <2>11. ASSUME NEW i2 \in DOMAIN tlist, NEW x
         PROVE  IsEntryFor(tlist', i2, x) <=> IsEntryFor(tlist, i2, x)
    BY <1>2, <2>2, <2>3, EntryForSameColumns
  <2>12. ASSUME NEW m \in 1 .. (k' - 1), NEW i2 \in DOMAIN tlist',
                IsEntryFor(tlist', i2, groupKeys'[m])
         PROVE  tlist'[i2].ref \in GroupRefs'
    <3>1. i2 \in DOMAIN tlist /\ IsEntryFor(tlist, i2, groupKeys[m])
      BY <1>8, <2>2, <2>11, <2>12
    <3>2. CASE m = k
      BY <1>7, <2>2, <2>8, <3>1, <3>2
    <3>3. CASE m # k
      <4>1. m \in 1 .. (k - 1)
        BY <1>2, <1>8, <3>3
      <4>2. tlist[i2].ref \in GroupRefs
        BY <1>4, <3>1, <4>1
      <4>. QED
        BY <1>9, <2>2, <2>8, <3>1, <4>2
    <3>. QED
      BY <3>2, <3>3
  <2>13. ASSUME NEW j \in DOMAIN groupList'
         PROVE  \E m \in 1 .. (k' - 1), i2 \in DOMAIN tlist' :
                    IsEntryFor(tlist', i2, groupKeys'[m]) /\ groupList'[j].ref = tlist'[i2].ref
    <3>1. CASE j \in DOMAIN groupList
      <4>1. PICK m \in 1 .. (k - 1), i2 \in DOMAIN tlist :
                IsEntryFor(tlist, i2, groupKeys[m]) /\ groupList[j].ref = tlist[i2].ref
        BY <1>4, <3>1
      <4>2. tlist[i2].ref > 0
        BY <1>9, <3>1, <4>1 DEF GroupRefs
      <4>3. IsEntryFor(tlist', i2, groupKeys[m]) /\ groupList'[j].ref = tlist'[i2].ref
        BY <2>2, <2>7, <2>11, <3>1, <4>1, <4>2
      <4>. QED
        BY <1>2, <1>8, <2>2, <4>1, <4>3
    <3>2. CASE j \notin DOMAIN groupList
      <4>1. groupList'[j].ref = r /\ tlist'[i].ref = r
        BY <2>2, <2>6, <2>7, <3>2
      <4>2. IsEntryFor(tlist', i, groupKeys[k])
        BY <1>7, <2>11
      <4>3. k \in 1 .. (k' - 1) /\ i \in DOMAIN tlist' /\ groupKeys'[k] = groupKeys[k]
        BY <1>2, <1>7, <1>8, <2>2
      <4>. QED
        BY <4>1, <4>2, <4>3
    <3>. QED
      BY <3>1, <3>2
  <2>14. KeysGrouped'
    <3>1. /\ phase' = "group"
          /\ k' \in 1 .. (Len(groupKeys') + 1)
      BY <1>2, <1>8
    <3>. QED
      BY <3>1, <2>12, <2>13 DEF KeysGrouped
  <2>. QED
    BY <1>1, <1>8, <2>9, <2>10, <2>14 DEF GroupInv, ItemsLoop
<1>. QED
  BY <1>10, <1>11

(***************************************************************************)
(* The end of GROUP BY, DISTINCT and SKIP/LIMIT change only the phase,     *)
(* and only after every key is compiled.                                   *)
(***************************************************************************)
LEMMA RestGroup ==
    ASSUME GroupInv, EndGroup \/ DistinctClause \/ LimitClauses \/ UNCHANGED vars
    PROVE  GroupInv'
<1>1. OrderInv'
  BY OrderStep DEF GroupInv, Next
<1>2. UNCHANGED <<items, orderBy, groupKeys, tlist, sortList, groupList, seen, k>>
  BY DEF EndGroup, DistinctClause, LimitClauses, vars
<1>3. \/ phase' = phase
      \/ phase = "group" /\ k > Len(groupKeys) /\ phase' = "distinct"
      \/ phase \in {"distinct", "limit"} /\ phase' \in {"limit", "done", "error"}
  BY DEF EndGroup, DistinctClause, LimitClauses, vars
<1>4. ItemsLoop' /\ ItemsProjected'
  <2>1. CASE phase' = "items"
    <3>1. phase = "items"
      BY <1>3, <2>1
    <3>2. ItemsLoop'
      BY <1>2, <2>1, <3>1 DEF GroupInv, ItemsLoop, GroupKeySet
    <3>. QED
      BY <2>1, <3>2 DEF ItemsProjected
  <2>2. CASE phase' # "items"
    <3>1. phase # "items"
      BY <1>3, <2>2
    <3>2. tlist \in Seq(TargetEntry) /\ ColumnsKept(tlist, tlist)
      BY DEF GroupInv, OrderInv, RefsInv, RefsTypeOK, ColumnsKept
    <3>3. ItemsProjected'
      BY <1>2, <2>2, <3>1, <3>2, ProjectedKept DEF GroupInv
    <3>. QED
      BY <2>2, <3>3 DEF ItemsLoop
  <2>. QED
    BY <2>1, <2>2
<1>5. KeysGrouped'
  BY <1>2, <1>3 DEF GroupInv, KeysGrouped, GroupRefs
<1>. QED
  BY <1>1, <1>2, <1>4, <1>5 DEF GroupInv, SeenGrouped, GroupRefsDistinct, GroupRefs

(***************************************************************************)
(* Every step of transform_cypher_return keeps the invariant.             *)
(***************************************************************************)
LEMMA GroupStep ==
    ASSUME GroupInv, [Next]_vars
    PROVE  GroupInv'
<1>1. CASE TransformItem
  BY <1>1, TransformItemGroup
<1>2. CASE EndItems
  BY <1>2, EndItemsGroup
<1>3. CASE OrderByItem
  BY <1>3, OrderByItemGroup
<1>4. CASE EndOrderBy
  BY <1>4, EndOrderByGroup
<1>5. CASE GroupItem
  BY <1>5, GroupItemGroup
<1>6. CASE EndGroup \/ DistinctClause \/ LimitClauses \/ UNCHANGED vars
  BY <1>6, RestGroup
<1>. QED
  BY <1>1, <1>2, <1>3, <1>4, <1>5, <1>6 DEF Next

(***************************************************************************)
(* get_sortgroupclause_tle finds the entry that has a positive ref, since *)
(* no other entry has it.                                                 *)
(***************************************************************************)
LEMMA EntryOfRef ==
    ASSUME tlist \in Seq(TargetEntry), Unique(tlist), NEW i \in DOMAIN tlist,
           tlist[i].ref > 0
    PROVE  EntryOf(tlist[i].ref) = tlist[i]
<1>. DEFINE c == CHOOSE i2 \in DOMAIN tlist : tlist[i2].ref = tlist[i].ref
<1>1. c \in DOMAIN tlist /\ tlist[c].ref = tlist[i].ref
  OBVIOUS
<1>2. c = i
  BY <1>1 DEF Unique
<1>. QED
  BY <1>2 DEF EntryOf

(***************************************************************************)
(* Once every key is compiled, the group clauses name the first entries of *)
(* the group keys, which are projected items, each through one clause.    *)
(***************************************************************************)
LEMMA GroupInvGrouping ==
    ASSUME GroupInv
    PROVE  GroupingMatchesItems
<1>. SUFFICES ASSUME phase \in {"distinct", "limit", "done"}
              PROVE  /\ {EntryOf(groupList[j].ref).expr : j \in DOMAIN groupList} = HandedBack
                     /\ \A j \in DOMAIN groupList : ~EntryOf(groupList[j].ref).junk
                     /\ GroupRefsDistinct
  BY DEF GroupingMatchesItems, HandedBack, ItemSet, GroupRefsDistinct
<1>1. /\ tlist \in Seq(TargetEntry) /\ Unique(tlist) /\ items \in Seq(Expr)
      /\ groupKeys \in Seq(Expr) /\ ClauseRefsHeld(groupList, tlist)
  BY DEF GroupInv, OrderInv, RefsInv, RefsTypeOK
<1>2. /\ Len(items) <= Len(tlist)
      /\ \A j \in DOMAIN items : tlist[j].expr = items[j] /\ ~tlist[j].junk
      /\ GroupKeySet = HandedBack
  BY DEF GroupInv, ItemsProjected
<1>3. /\ k - 1 = Len(groupKeys) /\ 1 .. (k - 1) = DOMAIN groupKeys
      /\ \A m \in 1 .. (k - 1), i \in DOMAIN tlist :
            IsEntryFor(tlist, i, groupKeys[m]) => tlist[i].ref \in GroupRefs
      /\ \A j \in DOMAIN groupList :
            \E m \in 1 .. (k - 1), i \in DOMAIN tlist :
                IsEntryFor(tlist, i, groupKeys[m]) /\ groupList[j].ref = tlist[i].ref
  BY <1>1 DEF GroupInv, KeysGrouped
<1>4. ASSUME NEW e \in GroupKeySet
      PROVE  /\ \E i \in DOMAIN tlist : IsEntryFor(tlist, i, e)
             /\ \A i \in DOMAIN tlist : IsEntryFor(tlist, i, e) => ~tlist[i].junk
  <2>1. e \in ItemSet
    BY <1>2 DEF HandedBack
  <2>. QED
    BY <1>1, <1>2, <2>1, ItemEntry
<1>5. ASSUME NEW j \in DOMAIN groupList
      PROVE  /\ EntryOf(groupList[j].ref).expr \in GroupKeySet
             /\ ~EntryOf(groupList[j].ref).junk
  <2>1. PICK m \in 1 .. (k - 1), i \in DOMAIN tlist :
            IsEntryFor(tlist, i, groupKeys[m]) /\ groupList[j].ref = tlist[i].ref
    BY <1>3
  <2>2. tlist[i].ref > 0
    BY <1>1, <2>1 DEF ClauseRefsHeld
  <2>3. EntryOf(groupList[j].ref) = tlist[i]
    BY <1>1, <2>1, <2>2, EntryOfRef
  <2>4. tlist[i].expr = groupKeys[m] /\ groupKeys[m] \in GroupKeySet
    BY <1>3, <2>1 DEF IsEntryFor, GroupKeySet
  <2>. QED
    BY <1>4, <2>1, <2>3, <2>4
<1>6. ASSUME NEW e \in GroupKeySet
      PROVE  \E j \in DOMAIN groupList : EntryOf(groupList[j].ref).expr = e
  <2>1. PICK m \in DOMAIN groupKeys : groupKeys[m] = e
    BY DEF GroupKeySet
  <2>2. PICK i \in DOMAIN tlist : IsEntryFor(tlist, i, e)
    BY <1>4
  <2>3. tlist[i].ref \in GroupRefs
    BY <1>3, <2>1, <2>2
  <2>4. PICK j \in DOMAIN groupList : groupList[j].ref = tlist[i].ref
    BY <2>3 DEF GroupRefs
  <2>5. tlist[i].ref > 0
    BY <1>1, <2>4 DEF ClauseRefsHeld
  <2>6. EntryOf(groupList[j].ref) = tlist[i]
    BY <1>1, <2>4, <2>5, EntryOfRef
  <2>. QED
    BY <2>2, <2>6 DEF IsEntryFor
<1>. QED
  BY <1>2, <1>5, <1>6 DEF GroupInv

(***************************************************************************)
(* Once transform_cypher_return has compiled its grouping, the rows are   *)
(* grouped by exactly the distinct non-aggregate items when the RETURN    *)
(* aggregates and not at all otherwise, each through a projected column   *)
(* and by one clause: transform_cypher_item_list's keys, find_target_     *)
(* list_entry's first entries and the early returns of transform_group_   *)
(* clause_expr agree.  For every set of expressions and every bound.      *)
(***************************************************************************)
THEOREM GroupingMatchesItemsHolds == Spec => []GroupingMatchesItems
<1>1. Init => GroupInv
  BY GroupInit
<1>2. GroupInv /\ [Next]_vars => GroupInv'
  BY GroupStep
<1>3. GroupInv => GroupingMatchesItems
  BY GroupInvGrouping
<1>. QED
  BY <1>1, <1>2, <1>3, PTL DEF Spec
=============================================================================
