------------------------ MODULE ProjectionSortProofs ------------------------
(***************************************************************************)
(* Proof that the sort clause transform_cypher_return builds is the ORDER *)
(* BY list with every repeat of an earlier key dropped, in order and with  *)
(* its direction, and that a hidden entry is added once for each key that  *)
(* is not projected.  The argument follows the ORDER BY loop: after the    *)
(* first n keys, the entries with a ref are exactly the first entries of  *)
(* those keys, each sorted on; so a repeated key finds its entry sorted on *)
(* already and changes nothing, and a new key finds an entry with no ref  *)
(* (or a new hidden one) and gets the next sort clause.  GROUP BY then    *)
(* appends no entry and keeps every ref it finds.                         *)
(***************************************************************************)
EXTENDS ProjectionGroupingProofs, FiniteSetTheorems

-----------------------------------------------------------------------------
(* The first occurrences among the first n keys of an ORDER BY list ob,   *)
(* their expressions, and those of them that are not among the items its. *)
Firsts(ob, n) == {i \in 1 .. n : \A j \in 1 .. (i - 1) : ob[j].expr # ob[i].expr}
KeyExprs(ob, n) == {ob[i].expr : i \in 1 .. n}
Hidden(ob, its, n) == KeyExprs(ob, n) \ {its[i] : i \in DOMAIN its}

(* The sort clause sl and the target list tl once the first n keys are    *)
(* compiled: SortMatchesOrderBy, with the entry a clause names given by    *)
(* its index.                                                              *)
SortedUpTo(n, tl, sl, its, ob) ==
    /\ IsFiniteSet(Hidden(ob, its, n))
    /\ Len(sl) = Cardinality(Firsts(ob, n))
    /\ \A j \in DOMAIN sl :
          \E i \in Firsts(ob, n), e \in DOMAIN tl :
              /\ Cardinality({i2 \in Firsts(ob, n) : i2 <= i}) = j
              /\ tl[e].ref = sl[j].ref
              /\ tl[e].expr = ob[i].expr
              /\ sl[j].desc = ob[i].desc
              /\ sl[j].nullsFirst = ob[i].desc
    /\ Len(tl) = Len(its) + Cardinality(Hidden(ob, its, n))
    /\ \A i \in DOMAIN tl :
          i > Len(its) => tl[i].junk /\ tl[i].expr \in Hidden(ob, its, n)

(* Nothing is sorted on before ORDER BY.                                   *)
BeforeOrder == phase = "items" => sortList = <<>>

(* During ORDER BY: an entry has a ref exactly when it is the first entry *)
(* of a key compiled so far, every such ref is sorted on, and every key   *)
(* compiled so far has an entry.                                           *)
OrderLoop ==
    phase = "order" =>
        /\ k \in 1 .. (Len(orderBy) + 1)
        /\ SortedUpTo(k - 1, tlist, sortList, items, orderBy)
        /\ \A i \in DOMAIN tlist :
              tlist[i].ref > 0 <=> \E p \in 1 .. (k - 1) : IsEntryFor(tlist, i, orderBy[p].expr)
        /\ \A i \in DOMAIN tlist : tlist[i].ref > 0 => InSortList(tlist[i].ref, sortList)
        /\ \A p \in 1 .. (k - 1) : HasEntry(tlist, orderBy[p].expr)

(* After ORDER BY the sort clause and the hidden entries stay as built.   *)
OrderDone ==
    phase \notin {"items", "order"} =>
        SortedUpTo(Len(orderBy), tlist, sortList, items, orderBy)

SortInv ==
    /\ GroupInv
    /\ BeforeOrder
    /\ OrderLoop
    /\ OrderDone
-----------------------------------------------------------------------------
(***************************************************************************)
(* The first occurrences among n keys are finitely many.                  *)
(***************************************************************************)
LEMMA FirstsFinite ==
    ASSUME NEW ob, NEW n \in Nat
    PROVE  IsFiniteSet(Firsts(ob, n)) /\ Cardinality(Firsts(ob, n)) \in Nat
<1>1. IsFiniteSet(1 .. n)
  BY FS_Interval
<1>2. Firsts(ob, n) \in SUBSET (1 .. n)
  BY DEF Firsts
<1>3. IsFiniteSet(Firsts(ob, n))
  BY <1>1, <1>2, FS_Subset
<1>. QED
  BY <1>3, FS_CardinalityType

(***************************************************************************)
(* One more key: it is a first occurrence exactly when its expression is  *)
(* not among the earlier keys', and no earlier key changes its status.     *)
(***************************************************************************)
LEMMA FirstsStep ==
    ASSUME NEW ob \in Seq(SortBy), NEW n \in 1 .. Len(ob)
    PROVE  /\ KeyExprs(ob, n) = KeyExprs(ob, n - 1) \cup {ob[n].expr}
           /\ n \in Firsts(ob, n) <=> ob[n].expr \notin KeyExprs(ob, n - 1)
           /\ Firsts(ob, n) = IF n \in Firsts(ob, n) THEN Firsts(ob, n - 1) \cup {n}
                                                    ELSE Firsts(ob, n - 1)
           /\ n \notin Firsts(ob, n - 1)
           /\ \A i \in 1 .. (n - 1) :
                 {i2 \in Firsts(ob, n) : i2 <= i} = {i2 \in Firsts(ob, n - 1) : i2 <= i}
<1>1. KeyExprs(ob, n) = KeyExprs(ob, n - 1) \cup {ob[n].expr}
  BY DEF KeyExprs
<1>2. n \in Firsts(ob, n) <=> ob[n].expr \notin KeyExprs(ob, n - 1)
  BY DEF Firsts, KeyExprs
<1>3. \A i \in 1 .. (n - 1) : i \in Firsts(ob, n) <=> i \in Firsts(ob, n - 1)
  BY DEF Firsts
<1>4. Firsts(ob, n) \subseteq 1 .. n /\ Firsts(ob, n - 1) \subseteq 1 .. (n - 1)
  BY DEF Firsts
<1>5. n \in Nat /\ n \notin Firsts(ob, n - 1)
  BY <1>4
<1>6. Firsts(ob, n) = IF n \in Firsts(ob, n) THEN Firsts(ob, n - 1) \cup {n}
                                             ELSE Firsts(ob, n - 1)
  <2>1. CASE n \in Firsts(ob, n)
    BY <1>3, <1>4, <2>1
  <2>2. CASE n \notin Firsts(ob, n)
    <3>1. ASSUME NEW x PROVE x \in Firsts(ob, n) <=> x \in Firsts(ob, n - 1)
      <4>1. CASE x \in 1 .. (n - 1)
        BY <1>3, <4>1
      <4>2. CASE x \notin 1 .. (n - 1)
        BY <1>4, <1>5, <2>2, <4>2
      <4>. QED
        BY <4>1, <4>2
    <3>2. Firsts(ob, n) = Firsts(ob, n - 1)
      BY <3>1
    <3>. QED
      BY <2>2, <3>2
  <2>. QED
    BY <2>1, <2>2
<1>7. \A i \in 1 .. (n - 1) :
         {i2 \in Firsts(ob, n) : i2 <= i} = {i2 \in Firsts(ob, n - 1) : i2 <= i}
  BY <1>3, <1>4
<1>. QED
  BY <1>1, <1>2, <1>5, <1>6, <1>7

(***************************************************************************)
(* At the start nothing is sorted on.                                     *)
(***************************************************************************)
LEMMA SortInit == Init => SortInv
<1>. SUFFICES ASSUME Init PROVE SortInv
  OBVIOUS
<1>. QED
  BY GroupInit DEF Init, SortInv, BeforeOrder, OrderLoop, OrderDone

(***************************************************************************)
(* transform_cypher_item_list sorts on nothing.                           *)
(***************************************************************************)
LEMMA TransformItemSort ==
    ASSUME SortInv, TransformItem
    PROVE  SortInv'
<1>1. GroupInv'
  BY TransformItemGroup DEF SortInv
<1>. QED
  BY <1>1 DEF SortInv, BeforeOrder, OrderLoop, OrderDone, TransformItem

(***************************************************************************)
(* ORDER BY starts with the projected items only, none with a ref.        *)
(***************************************************************************)
LEMMA EndItemsSort ==
    ASSUME SortInv, EndItems
    PROVE  SortInv'
<1>1. GroupInv'
  BY EndItemsGroup DEF SortInv
<1>2. /\ phase = "items" /\ phase' = "order" /\ k' = 1
      /\ UNCHANGED <<items, orderBy, tlist, sortList>>
      /\ sortList = <<>> /\ orderBy \in Seq(SortBy) /\ items \in Seq(Expr)
  BY DEF EndItems, SortInv, BeforeOrder, GroupInv, OrderInv, RefsInv, RefsTypeOK
<1>3. /\ k = Len(items) + 1 /\ Len(tlist) = Len(items)
      /\ \A i \in DOMAIN tlist : tlist[i].ref = 0
  <2>1. /\ k \in 1 .. (Len(items) + 1) /\ k > Len(items) /\ Len(tlist) = k - 1
        /\ \A i \in 1 .. (k - 1) :
              tlist[i] = [expr |-> items[i], junk |-> FALSE, ref |-> 0]
        /\ tlist \in Seq(TargetEntry)
    BY <1>2 DEF SortInv, GroupInv, ItemsLoop, EndItems, OrderInv, RefsInv, RefsTypeOK
  <2>2. k = Len(items) + 1 /\ Len(tlist) = Len(items)
    BY <1>2, <2>1
  <2>3. ASSUME NEW i \in DOMAIN tlist PROVE tlist[i].ref = 0
    <3>1. i \in 1 .. (k - 1)
      BY <2>1, <2>2
    <3>2. tlist[i] = [expr |-> items[i], junk |-> FALSE, ref |-> 0]
      BY <2>1, <3>1
    <3>. QED
      BY <3>2
  <2>. QED
    BY <2>2, <2>3
<1>4. Hidden(orderBy, items, 0) = {} /\ Firsts(orderBy, 0) = {}
  BY DEF Hidden, KeyExprs, Firsts
<1>5. SortedUpTo(0, tlist, sortList, items, orderBy)
  <2>1. tlist \in Seq(TargetEntry) /\ DOMAIN tlist = 1 .. Len(items)
    BY <1>3 DEF SortInv, GroupInv, OrderInv, RefsInv, RefsTypeOK
  <2>2. IsFiniteSet({}) /\ Cardinality({}) = 0
    BY FS_EmptySet
  <2>3. IsFiniteSet(Hidden(orderBy, items, 0))
        /\ Cardinality(Hidden(orderBy, items, 0)) = 0
        /\ Cardinality(Firsts(orderBy, 0)) = 0
    BY <1>4, <2>2
  <2>4. Len(sortList) = 0 /\ DOMAIN sortList = {}
    BY <1>2
  <2>5. \A i \in DOMAIN tlist : ~(i > Len(items))
    BY <1>2, <2>1
  <2>. QED
    BY <1>3, <2>3, <2>4, <2>5 DEF SortedUpTo
<1>6. OrderLoop'
  <2>1. k' \in 1 .. (Len(orderBy') + 1) /\ k' - 1 = 0
    BY <1>2
  <2>. QED
    BY <1>2, <1>3, <1>5, <2>1 DEF OrderLoop
<1>. QED
  BY <1>1, <1>2, <1>6 DEF SortInv, BeforeOrder, OrderDone

(***************************************************************************)
(* The end of ORDER BY: every key is compiled.                            *)
(***************************************************************************)
LEMMA EndOrderBySort ==
    ASSUME SortInv, EndOrderBy
    PROVE  SortInv'
<1>1. GroupInv'
  BY EndOrderByGroup DEF SortInv
<1>2. /\ phase = "order" /\ phase' = "group"
      /\ UNCHANGED <<items, orderBy, tlist, sortList>>
      /\ k - 1 = Len(orderBy)
      /\ SortedUpTo(k - 1, tlist, sortList, items, orderBy)
  BY DEF EndOrderBy, SortInv, OrderLoop
<1>. QED
  BY <1>1, <1>2 DEF SortInv, BeforeOrder, OrderLoop, OrderDone

(***************************************************************************)
(* The end of GROUP BY, DISTINCT and SKIP/LIMIT touch neither list.       *)
(***************************************************************************)
LEMMA RestSort ==
    ASSUME SortInv, EndGroup \/ DistinctClause \/ LimitClauses \/ UNCHANGED vars
    PROVE  SortInv'
<1>1. GroupInv'
  BY RestGroup DEF SortInv
<1>2. UNCHANGED <<items, orderBy, tlist, sortList, k>>
  BY DEF EndGroup, DistinctClause, LimitClauses, vars
<1>3. \/ phase' = phase
      \/ phase \notin {"items", "order"} /\ phase' \notin {"items", "order"}
  BY DEF EndGroup, DistinctClause, LimitClauses, vars
<1>. QED
  BY <1>1, <1>2, <1>3 DEF SortInv, BeforeOrder, OrderLoop, OrderDone

(***************************************************************************)
(* A target list with the same columns, no more entries, and every        *)
(* positive ref kept has the sort clause and the hidden entries it had.   *)
(***************************************************************************)
LEMMA SortedKept ==
    ASSUME NEW n \in Nat, NEW tl \in Seq(TargetEntry), NEW t2 \in Seq(TargetEntry),
           NEW sl \in Seq(SortGroupClause), NEW its, NEW ob,
           SortedUpTo(n, tl, sl, its, ob), ColumnsKept(tl, t2), Len(t2) = Len(tl),
           \A e \in DOMAIN tl : tl[e].ref > 0 => t2[e].ref = tl[e].ref,
           \A j \in DOMAIN sl : sl[j].ref > 0
    PROVE  SortedUpTo(n, t2, sl, its, ob)
<1>1. DOMAIN t2 = DOMAIN tl
  OBVIOUS
<1>2. ASSUME NEW j \in DOMAIN sl
      PROVE  \E i \in Firsts(ob, n), e \in DOMAIN t2 :
                 /\ Cardinality({i2 \in Firsts(ob, n) : i2 <= i}) = j
                 /\ t2[e].ref = sl[j].ref
                 /\ t2[e].expr = ob[i].expr
                 /\ sl[j].desc = ob[i].desc
                 /\ sl[j].nullsFirst = ob[i].desc
  <2>1. PICK i \in Firsts(ob, n), e \in DOMAIN tl :
            /\ Cardinality({i2 \in Firsts(ob, n) : i2 <= i}) = j
            /\ tl[e].ref = sl[j].ref
            /\ tl[e].expr = ob[i].expr
            /\ sl[j].desc = ob[i].desc
            /\ sl[j].nullsFirst = ob[i].desc
    BY DEF SortedUpTo
  <2>2. t2[e].ref = tl[e].ref /\ t2[e].expr = tl[e].expr
    BY <2>1 DEF ColumnsKept
  <2>. QED
    BY <1>1, <2>1, <2>2
<1>3. \A i \in DOMAIN t2 :
         i > Len(its) => t2[i].junk /\ t2[i].expr \in Hidden(ob, its, n)
  BY <1>1 DEF SortedUpTo, ColumnsKept
<1>. QED
  BY <1>2, <1>3 DEF SortedUpTo

(***************************************************************************)
(* A group key finds its projected entry and at most sets its ref.        *)
(***************************************************************************)
LEMMA GroupItemSort ==
    ASSUME SortInv, GroupItem
    PROVE  SortInv'
<1>. DEFINE e == groupKeys[k]
            i == EntryIndex(tlist, e)
<1>1. GroupInv'
  BY GroupItemGroup DEF SortInv
<1>2. /\ phase = "group" /\ phase' = "group"
      /\ UNCHANGED <<items, orderBy, sortList>>
      /\ tlist \in Seq(TargetEntry) /\ Unique(tlist) /\ orderBy \in Seq(SortBy)
      /\ sortList \in Seq(SortGroupClause) /\ ClauseRefsHeld(sortList, tlist)
      /\ k \in 1 .. Len(groupKeys) /\ groupKeys \in Seq(Expr)
      /\ SortedUpTo(Len(orderBy), tlist, sortList, items, orderBy)
  BY DEF GroupItem, SortInv, OrderDone, GroupInv, OrderInv, RefsInv, RefsTypeOK
<1>3. e \in Expr
  BY <1>2, ElementOfSeq
<1>4. WithEntry(tlist, e) = tlist /\ i \in DOMAIN tlist
  BY <1>2, <1>3, GroupKeyFound, WithEntryFacts DEF SortInv
<1>5. tlist' = tlist \/ tlist' = SetRef(tlist, i, AssignSortGroupRef(tlist, i))
  BY <1>4 DEF GroupItem
<1>6. /\ tlist' \in Seq(TargetEntry) /\ ColumnsKept(tlist, tlist')
      /\ Len(tlist') = Len(tlist)
      /\ \A x \in DOMAIN tlist : tlist[x].ref > 0 => tlist'[x].ref = tlist[x].ref
  <2>1. CASE tlist' = tlist
    BY <1>2, <2>1 DEF ColumnsKept
  <2>2. CASE tlist' = SetRef(tlist, i, AssignSortGroupRef(tlist, i))
    <3>1. /\ SetRef(tlist, i, AssignSortGroupRef(tlist, i)) \in Seq(TargetEntry)
          /\ DOMAIN SetRef(tlist, i, AssignSortGroupRef(tlist, i)) = DOMAIN tlist
          /\ \A x \in DOMAIN tlist :
                tlist[x].ref > 0 => SetRef(tlist, i, AssignSortGroupRef(tlist, i))[x].ref = tlist[x].ref
      BY <1>2, <1>4, SetRefFacts
    <3>2. ColumnsKept(tlist, SetRef(tlist, i, AssignSortGroupRef(tlist, i)))
      BY <1>2, <1>4, SetRefColumns
    <3>3. Len(SetRef(tlist, i, AssignSortGroupRef(tlist, i))) = Len(tlist)
      BY <1>2, <3>1
    <3>. QED
      BY <2>2, <3>1, <3>2, <3>3
  <2>. QED
    BY <1>5, <2>1, <2>2
<1>7. \A j \in DOMAIN sortList : sortList[j].ref > 0
  BY <1>2 DEF ClauseRefsHeld
<1>8. Len(orderBy) \in Nat
  BY <1>2
<1>9. SortedUpTo(Len(orderBy), tlist', sortList, items, orderBy)
  BY <1>2, <1>6, <1>7, <1>8, SortedKept
<1>. QED
  BY <1>1, <1>2, <1>9 DEF SortInv, BeforeOrder, OrderLoop, OrderDone

(***************************************************************************)
(* An ORDER BY key whose expression an earlier key had: its first entry   *)
(* has a ref and is sorted on, so addTargetToSortList adds nothing.        *)
(***************************************************************************)
LEMMA OrderRepeatSort ==
    ASSUME SortInv, OrderByItem, orderBy[k].expr \in KeyExprs(orderBy, k - 1)
    PROVE  SortInv'
<1>. DEFINE x == orderBy[k].expr
            i == EntryIndex(tlist, x)
<1>1. GroupInv'
  BY OrderByItemGroup DEF SortInv
<1>2. /\ phase = "order" /\ phase' = "order" /\ k' = k + 1
      /\ k \in 1 .. Len(orderBy) /\ orderBy \in Seq(SortBy)
      /\ tlist \in Seq(TargetEntry) /\ UNCHANGED <<items, orderBy>>
  BY DEF OrderByItem, SortInv, GroupInv, OrderInv, RefsInv, RefsTypeOK
<1>3. /\ SortedUpTo(k - 1, tlist, sortList, items, orderBy)
      /\ \A j \in DOMAIN tlist :
            tlist[j].ref > 0 <=> \E p \in 1 .. (k - 1) : IsEntryFor(tlist, j, orderBy[p].expr)
      /\ \A j \in DOMAIN tlist : tlist[j].ref > 0 => InSortList(tlist[j].ref, sortList)
      /\ \A p \in 1 .. (k - 1) : HasEntry(tlist, orderBy[p].expr)
  BY <1>2 DEF SortInv, OrderLoop
<1>4. x \in Expr
  <2>1. orderBy[k] \in SortBy
    BY <1>2, ElementOfSeq
  <2>. QED
    BY <2>1 DEF SortBy
<1>5. PICK p \in 1 .. (k - 1) : orderBy[p].expr = x
  BY DEF KeyExprs
<1>6. HasEntry(tlist, x) /\ WithEntry(tlist, x) = tlist
  BY <1>3, <1>5 DEF WithEntry
<1>7. i \in DOMAIN tlist /\ IsEntryFor(tlist, i, x)
  BY <1>2, <1>4, <1>6, WithEntryFacts
<1>8. tlist[i].ref > 0 /\ InSortList(tlist[i].ref, sortList)
  BY <1>3, <1>5, <1>7
<1>9. tlist' = tlist /\ sortList' = sortList
  BY <1>6, <1>8 DEF OrderByItem
<1>10. Firsts(orderBy, k) = Firsts(orderBy, k - 1)
       /\ Hidden(orderBy, items, k) = Hidden(orderBy, items, k - 1)
  <2>1. /\ KeyExprs(orderBy, k) = KeyExprs(orderBy, k - 1) \cup {x}
        /\ k \notin Firsts(orderBy, k)
        /\ Firsts(orderBy, k) = Firsts(orderBy, k - 1)
    BY <1>2, FirstsStep
  <2>. QED
    BY <2>1 DEF Hidden
<1>11. SortedUpTo(k, tlist, sortList, items, orderBy)
  BY <1>3, <1>10 DEF SortedUpTo
<1>12. ASSUME NEW j \in DOMAIN tlist
       PROVE  tlist[j].ref > 0 <=> \E q \in 1 .. k : IsEntryFor(tlist, j, orderBy[q].expr)
  <2>1. ASSUME IsEntryFor(tlist, j, x) PROVE tlist[j].ref > 0
    BY <1>2, <1>7, <1>8, <2>1, EntryForUnique
  <2>. QED
    BY <1>2, <1>3, <2>1
<1>13. \A q \in 1 .. k : HasEntry(tlist, orderBy[q].expr)
  BY <1>2, <1>3, <1>6
<1>14. OrderLoop'
  BY <1>2, <1>3, <1>9, <1>11, <1>12, <1>13 DEF OrderLoop
<1>. QED
  BY <1>1, <1>2, <1>14 DEF SortInv, BeforeOrder, OrderDone

(***************************************************************************)
(* An ORDER BY key with a new expression: its first entry (a projected    *)
(* item, or a hidden entry findTargetlistEntry appends) has no ref yet,   *)
(* so addTargetToSortList gives it one and the next sort clause.           *)
(***************************************************************************)
LEMMA OrderNewSort ==
    ASSUME SortInv, OrderByItem, orderBy[k].expr \notin KeyExprs(orderBy, k - 1)
    PROVE  SortInv'
<1>. DEFINE x  == orderBy[k].expr
            d  == orderBy[k].desc
            tl == WithEntry(tlist, x)
            i  == EntryIndex(tlist, x)
            r  == AssignSortGroupRef(tl, i)
            F0 == Firsts(orderBy, k - 1)
            F1 == Firsts(orderBy, k)
            H0 == Hidden(orderBy, items, k - 1)
            H1 == Hidden(orderBy, items, k)
<1>1. GroupInv'
  BY OrderByItemGroup DEF SortInv
<1>2. /\ phase = "order" /\ phase' = "order" /\ k' = k + 1
      /\ k \in 1 .. Len(orderBy) /\ orderBy \in Seq(SortBy) /\ items \in Seq(Expr)
      /\ tlist \in Seq(TargetEntry) /\ Unique(tlist)
      /\ sortList \in Seq(SortGroupClause) /\ ClauseRefsHeld(sortList, tlist)
      /\ UNCHANGED <<items, orderBy>>
  BY DEF OrderByItem, SortInv, GroupInv, OrderInv, RefsInv, RefsTypeOK
<1>3. /\ SortedUpTo(k - 1, tlist, sortList, items, orderBy)
      /\ \A j \in DOMAIN tlist :
            tlist[j].ref > 0 <=> \E p \in 1 .. (k - 1) : IsEntryFor(tlist, j, orderBy[p].expr)
      /\ \A j \in DOMAIN tlist : tlist[j].ref > 0 => InSortList(tlist[j].ref, sortList)
      /\ \A p \in 1 .. (k - 1) : HasEntry(tlist, orderBy[p].expr)
  BY <1>2 DEF SortInv, OrderLoop
<1>4. Len(items) <= Len(tlist) /\ \A j \in DOMAIN items : tlist[j].expr = items[j]
  BY <1>2 DEF SortInv, GroupInv, ItemsProjected
<1>5. x \in Expr /\ d \in BOOLEAN
  <2>1. orderBy[k] \in SortBy
    BY <1>2, ElementOfSeq
  <2>. QED
    BY <2>1 DEF SortBy
<1>6. /\ KeyExprs(orderBy, k) = KeyExprs(orderBy, k - 1) \cup {x}
      /\ k \in F1 /\ k \notin F0 /\ F1 = F0 \cup {k}
      /\ \A i0 \in 1 .. (k - 1) : {i2 \in F1 : i2 <= i0} = {i2 \in F0 : i2 <= i0}
  <2>1. /\ KeyExprs(orderBy, k) = KeyExprs(orderBy, k - 1) \cup {x}
        /\ k \in F1 <=> x \notin KeyExprs(orderBy, k - 1)
        /\ F1 = IF k \in F1 THEN F0 \cup {k} ELSE F0
        /\ k \notin F0
        /\ \A i0 \in 1 .. (k - 1) : {i2 \in F1 : i2 <= i0} = {i2 \in F0 : i2 <= i0}
    BY <1>2, FirstsStep
  <2>2. k \in F1
    BY <2>1
  <2>. QED
    BY <2>1, <2>2
<1>7. /\ Cardinality(F0) \in Nat
      /\ Cardinality(F1) = Cardinality(F0) + 1
      /\ F0 \subseteq 1 .. (k - 1)
      /\ {i2 \in F1 : i2 <= k} = F1
  <2>1. IsFiniteSet(F0) /\ Cardinality(F0) \in Nat
    BY <1>2, FirstsFinite
  <2>2. Cardinality(F0 \cup {k}) = Cardinality(F0) + 1
    BY <1>6, <2>1, FS_AddElement
  <2>3. F0 \subseteq 1 .. (k - 1) /\ F1 \subseteq 1 .. k
    BY DEF Firsts
  <2>. QED
    BY <1>6, <2>1, <2>2, <2>3
<1>8. /\ tl \in Seq(TargetEntry) /\ Unique(tl) /\ ColumnsKept(tlist, tl)
      /\ \A j \in DOMAIN tlist : tl[j] = tlist[j]
      /\ \A j \in DOMAIN tl \ DOMAIN tlist : tl[j].ref = 0
      /\ i \in DOMAIN tl /\ IsEntryFor(tl, i, x)
  BY <1>2, <1>5, WithEntryFacts, WithEntryKeeps, WithEntryColumns
<1>9. tl[i].ref = 0
  <2>1. CASE i \in DOMAIN tlist
    <3>1. IsEntryFor(tlist, i, x)
      BY <1>2, <1>8, <2>1, EntryForSameColumns
    <3>2. ~(tlist[i].ref > 0)
      <4>1. SUFFICES ASSUME tlist[i].ref > 0 PROVE FALSE
        OBVIOUS
      <4>2. PICK p \in 1 .. (k - 1) : IsEntryFor(tlist, i, orderBy[p].expr)
        BY <1>3, <2>1, <4>1
      <4>3. orderBy[p].expr = x
        BY <3>1, <4>2 DEF IsEntryFor
      <4>. QED
        BY <4>3 DEF KeyExprs
    <3>3. tlist[i].ref \in Nat
      BY <1>2, <2>1, EntryType
    <3>. QED
      BY <1>8, <2>1, <3>2, <3>3
  <2>2. CASE i \notin DOMAIN tlist
    BY <1>8, <2>2
  <2>. QED
    BY <2>1, <2>2
<1>10. tlist' = SetRef(tl, i, r)
       /\ sortList' = Append(sortList, [ref |-> r, desc |-> d, nullsFirst |-> d])
  BY <1>9 DEF OrderByItem, InSortList
<1>11. /\ r \in Nat \ {0}
       /\ tlist' \in Seq(TargetEntry) /\ DOMAIN tlist' = DOMAIN tl
       /\ tlist'[i].ref = r
       /\ \A j \in DOMAIN tl : j # i => tlist'[j] = tl[j]
       /\ ColumnsKept(tl, tlist') /\ Unique(tlist')
  <2>1. /\ r \in Nat \ {0}
        /\ SetRef(tl, i, r) \in Seq(TargetEntry)
        /\ DOMAIN SetRef(tl, i, r) = DOMAIN tl
        /\ SetRef(tl, i, r)[i].ref = r
        /\ Unique(SetRef(tl, i, r))
    BY <1>8, SetRefFacts
  <2>2. ColumnsKept(tl, SetRef(tl, i, r))
    BY <1>8, SetRefColumns
  <2>3. \A j \in DOMAIN tl : j # i => SetRef(tl, i, r)[j] = tl[j]
    BY DEF SetRef
  <2>. QED
    BY <1>10, <2>1, <2>2, <2>3
<1>12. ColumnsKept(tlist, tlist')
  BY <1>8, <1>11 DEF ColumnsKept
<1>13. /\ Len(sortList') = Len(sortList) + 1
       /\ DOMAIN sortList' = DOMAIN sortList \cup {Len(sortList) + 1}
       /\ \A j \in DOMAIN sortList : sortList'[j] = sortList[j]
       /\ sortList'[Len(sortList) + 1] = [ref |-> r, desc |-> d, nullsFirst |-> d]
  <2>1. [ref |-> r, desc |-> d, nullsFirst |-> d] \in SortGroupClause
    BY <1>5, <1>11 DEF SortGroupClause
  <2>2. /\ Append(sortList, [ref |-> r, desc |-> d, nullsFirst |-> d]) \in Seq(SortGroupClause)
        /\ Len(Append(sortList, [ref |-> r, desc |-> d, nullsFirst |-> d])) = Len(sortList) + 1
        /\ \A j \in 1 .. Len(sortList) :
              Append(sortList, [ref |-> r, desc |-> d, nullsFirst |-> d])[j] = sortList[j]
        /\ Append(sortList, [ref |-> r, desc |-> d, nullsFirst |-> d])[Len(sortList) + 1]
              = [ref |-> r, desc |-> d, nullsFirst |-> d]
    BY <1>2, <2>1, AppendProperties
  <2>. QED
    BY <1>2, <1>10, <2>2
<1>14. /\ IsFiniteSet(H1)
       /\ Len(tl) = Len(items) + Cardinality(H1)
       /\ \A j \in DOMAIN tl \ DOMAIN tlist : tl[j].junk /\ tl[j].expr \in H1
       /\ H0 \subseteq H1
  <2>1. IsFiniteSet(H0) /\ Len(tlist) = Len(items) + Cardinality(H0) /\ Cardinality(H0) \in Nat
    BY <1>3, FS_CardinalityType DEF SortedUpTo
  <2>2. H1 = H0 \cup ({x} \ ItemSet)
    BY <1>6 DEF Hidden, ItemSet
  <2>3. CASE x \in ItemSet
    <3>1. HasEntry(tlist, x)
      BY <1>4, <2>3 DEF ItemSet, HasEntry
    <3>2. tl = tlist
      BY <3>1 DEF WithEntry
    <3>3. H1 = H0
      BY <2>2, <2>3
    <3>. QED
      BY <2>1, <3>2, <3>3
  <2>4. CASE x \notin ItemSet
    <3>1. ~HasEntry(tlist, x)
      <4>. SUFFICES ASSUME NEW j \in DOMAIN tlist, tlist[j].expr = x PROVE FALSE
        BY DEF HasEntry
      <4>1. CASE j \in DOMAIN items
        BY <1>4, <2>4, <4>1 DEF ItemSet
      <4>2. CASE j \notin DOMAIN items
        <5>1. j > Len(items)
          BY <1>2, <4>2
        <5>2. tlist[j].expr \in H0
          BY <1>3, <5>1 DEF SortedUpTo
        <5>. QED
          BY <5>2 DEF Hidden
      <4>. QED
        BY <4>1, <4>2
    <3>2. tl = Append(tlist, [expr |-> x, junk |-> TRUE, ref |-> 0])
      BY <3>1 DEF WithEntry
    <3>3. H1 = H0 \cup {x} /\ x \notin H0
      BY <2>2, <2>4 DEF Hidden
    <3>4. IsFiniteSet(H1) /\ Cardinality(H1) = Cardinality(H0) + 1
      BY <2>1, <3>3, FS_AddElement
    <3>5. /\ Len(tl) = Len(tlist) + 1
          /\ tl[Len(tlist) + 1] = [expr |-> x, junk |-> TRUE, ref |-> 0]
      <4>1. [expr |-> x, junk |-> TRUE, ref |-> 0] \in TargetEntry
        BY <1>5 DEF TargetEntry
      <4>. QED
        BY <1>2, <3>2, <4>1, AppendProperties
    <3>6. DOMAIN tl \ DOMAIN tlist = {Len(tlist) + 1}
      BY <1>2, <1>8, <3>5
    <3>. QED
      BY <2>1, <3>3, <3>4, <3>5, <3>6
  <2>. QED
    BY <2>2, <2>3, <2>4
<1>15. ASSUME NEW j \in DOMAIN sortList'
       PROVE  \E i0 \in F1, e \in DOMAIN tlist' :
                  /\ Cardinality({i2 \in F1 : i2 <= i0}) = j
                  /\ tlist'[e].ref = sortList'[j].ref
                  /\ tlist'[e].expr = orderBy[i0].expr
                  /\ sortList'[j].desc = orderBy[i0].desc
                  /\ sortList'[j].nullsFirst = orderBy[i0].desc
  <2>1. CASE j \in DOMAIN sortList
    <3>1. PICK i0 \in F0, e \in DOMAIN tlist :
              /\ Cardinality({i2 \in F0 : i2 <= i0}) = j
              /\ tlist[e].ref = sortList[j].ref
              /\ tlist[e].expr = orderBy[i0].expr
              /\ sortList[j].desc = orderBy[i0].desc
              /\ sortList[j].nullsFirst = orderBy[i0].desc
      BY <1>3, <2>1 DEF SortedUpTo
    <3>2. i0 \in F1 /\ {i2 \in F1 : i2 <= i0} = {i2 \in F0 : i2 <= i0}
      BY <1>6, <1>7, <3>1
    <3>3. tlist[e].ref > 0
      BY <1>2, <2>1, <3>1 DEF ClauseRefsHeld
    <3>4. e # i
      BY <1>8, <1>9, <3>3
    <3>5. e \in DOMAIN tlist' /\ tlist'[e] = tlist[e]
      BY <1>8, <1>11, <3>4 DEF ColumnsKept
    <3>. QED
      BY <1>13, <2>1, <3>1, <3>2, <3>5
  <2>2. CASE j = Len(sortList) + 1
    <3>1. Cardinality({i2 \in F1 : i2 <= k}) = j
      BY <1>3, <1>7, <2>2 DEF SortedUpTo
    <3>2. /\ tlist'[i].ref = sortList'[j].ref
          /\ tlist'[i].expr = orderBy[k].expr
          /\ sortList'[j].desc = orderBy[k].desc
          /\ sortList'[j].nullsFirst = orderBy[k].desc
      BY <1>8, <1>11, <1>13, <2>2 DEF IsEntryFor, ColumnsKept
    <3>. QED
      BY <1>6, <1>8, <1>11, <3>1, <3>2
  <2>. QED
    BY <1>13, <2>1, <2>2
<1>16. SortedUpTo(k, tlist', sortList', items, orderBy)
  <2>1. Len(sortList') = Cardinality(F1)
    BY <1>3, <1>7, <1>13 DEF SortedUpTo
  <2>2. Len(tlist') = Len(items) + Cardinality(H1)
    BY <1>11, <1>14
  <2>3. ASSUME NEW j \in DOMAIN tlist', j > Len(items)
        PROVE  tlist'[j].junk /\ tlist'[j].expr \in H1
    <3>1. CASE j \in DOMAIN tlist
      <4>1. tlist[j].junk /\ tlist[j].expr \in H0
        BY <1>3, <2>3, <3>1 DEF SortedUpTo
      <4>. QED
        BY <1>12, <1>14, <3>1, <4>1 DEF ColumnsKept
    <3>2. CASE j \notin DOMAIN tlist
      BY <1>11, <1>14, <2>3, <3>2 DEF ColumnsKept
    <3>. QED
      BY <3>1, <3>2
  <2>. QED
    BY <1>14, <1>15, <2>1, <2>2, <2>3 DEF SortedUpTo
<1>17. ASSUME NEW j \in DOMAIN tlist'
       PROVE  tlist'[j].ref > 0 <=> \E p \in 1 .. k : IsEntryFor(tlist', j, orderBy[p].expr)
  <2>1. IsEntryFor(tlist', i, x)
    BY <1>8, <1>11, EntryForSameColumns
  <2>2. CASE j = i
    <3>1. k \in 1 .. k /\ tlist'[j].ref > 0
      BY <1>2, <1>11, <2>2
    <3>. QED
      BY <2>1, <2>2, <3>1
  <2>3. CASE j # i
    <3>1. tlist'[j].ref = tl[j].ref
      BY <1>11, <2>3
    <3>2. ASSUME tlist'[j].ref > 0
          PROVE  \E p \in 1 .. k : IsEntryFor(tlist', j, orderBy[p].expr)
      <4>1. j \in DOMAIN tlist /\ tlist[j].ref > 0
        BY <1>8, <1>11, <3>1, <3>2
      <4>2. PICK p \in 1 .. (k - 1) : IsEntryFor(tlist, j, orderBy[p].expr)
        BY <1>3, <4>1
      <4>3. IsEntryFor(tlist', j, orderBy[p].expr)
        BY <1>2, <1>11, <1>12, <4>1, <4>2, EntryForSameColumns
      <4>. QED
        BY <1>2, <4>3
    <3>3. ASSUME NEW p \in 1 .. k, IsEntryFor(tlist', j, orderBy[p].expr)
          PROVE  tlist'[j].ref > 0
      <4>1. p \in 1 .. (k - 1)
        <5>1. SUFFICES ASSUME p = k PROVE FALSE
          BY <1>2
        <5>2. i \in DOMAIN tlist' /\ IsEntryFor(tlist', j, x)
          BY <1>8, <1>11, <3>3, <5>1
        <5>3. j = i
          BY <1>11, <2>1, <5>2, EntryForUnique
        <5>. QED
          BY <2>3, <5>3
      <4>2. PICK q \in DOMAIN tlist : tlist[q].expr = orderBy[p].expr
        BY <1>3, <4>1 DEF HasEntry
      <4>3. j \in DOMAIN tlist /\ IsEntryFor(tlist, j, orderBy[p].expr)
        BY <1>2, <1>11, <1>12, <3>3, <4>2, EntryForKept
      <4>4. tlist[j].ref > 0
        BY <1>3, <4>1, <4>3
      <4>. QED
        BY <1>8, <3>1, <4>3, <4>4
    <3>. QED
      BY <3>2, <3>3
  <2>. QED
    BY <2>2, <2>3
<1>18. ASSUME NEW j \in DOMAIN tlist', tlist'[j].ref > 0
       PROVE  InSortList(tlist'[j].ref, sortList')
  <2>1. CASE j = i
    BY <1>11, <1>13, <2>1 DEF InSortList
  <2>2. CASE j # i
    <3>1. j \in DOMAIN tlist /\ tlist'[j].ref = tlist[j].ref
      BY <1>8, <1>11, <1>18, <2>2
    <3>2. InSortList(tlist[j].ref, sortList)
      BY <1>3, <1>18, <3>1
    <3>. QED
      BY <1>13, <3>1, <3>2 DEF InSortList
  <2>. QED
    BY <2>1, <2>2
<1>19. \A p \in 1 .. k : HasEntry(tlist', orderBy[p].expr)
  <2>1. HasEntry(tlist', x)
    BY <1>8, <1>11 DEF IsEntryFor, ColumnsKept, HasEntry
  <2>2. ASSUME NEW p \in 1 .. (k - 1) PROVE HasEntry(tlist', orderBy[p].expr)
    BY <1>3, <1>12 DEF HasEntry, ColumnsKept
  <2>. QED
    BY <1>2, <2>1, <2>2
<1>20. OrderLoop'
  <2>1. k' \in 1 .. (Len(orderBy') + 1) /\ k' - 1 = k /\ phase' = "order"
    BY <1>2
  <2>2. SortedUpTo(k' - 1, tlist', sortList', items', orderBy')
    BY <1>2, <1>16, <2>1
  <2>3. \A j \in DOMAIN tlist' :
           tlist'[j].ref > 0 <=> \E p \in 1 .. (k' - 1) : IsEntryFor(tlist', j, orderBy'[p].expr)
    BY <1>2, <1>17, <2>1
  <2>4. \A j \in DOMAIN tlist' : tlist'[j].ref > 0 => InSortList(tlist'[j].ref, sortList')
    BY <1>18
  <2>5. \A p \in 1 .. (k' - 1) : HasEntry(tlist', orderBy'[p].expr)
    BY <1>2, <1>19, <2>1
  <2>. QED
    BY <2>1, <2>2, <2>3, <2>4, <2>5 DEF OrderLoop
<1>. QED
  BY <1>1, <1>2, <1>20 DEF SortInv, BeforeOrder, OrderDone

(***************************************************************************)
(* Every step of transform_cypher_return keeps the sort invariant.         *)
(***************************************************************************)
LEMMA SortStep ==
    ASSUME SortInv, [Next]_vars
    PROVE  SortInv'
<1>1. CASE TransformItem
  BY <1>1, TransformItemSort
<1>2. CASE EndItems
  BY <1>2, EndItemsSort
<1>3. CASE OrderByItem
  <2>1. CASE orderBy[k].expr \in KeyExprs(orderBy, k - 1)
    BY <1>3, <2>1, OrderRepeatSort
  <2>2. CASE orderBy[k].expr \notin KeyExprs(orderBy, k - 1)
    BY <1>3, <2>2, OrderNewSort
  <2>. QED
    BY <2>1, <2>2
<1>4. CASE EndOrderBy
  BY <1>4, EndOrderBySort
<1>5. CASE GroupItem
  BY <1>5, GroupItemSort
<1>6. CASE EndGroup \/ DistinctClause \/ LimitClauses \/ UNCHANGED vars
  BY <1>6, RestSort
<1>. QED
  BY <1>1, <1>2, <1>3, <1>4, <1>5, <1>6 DEF Next

(***************************************************************************)
(* Once ORDER BY is compiled, SortedUpTo for every key is                  *)
(* SortMatchesOrderBy: the entry a clause's ref names is the one           *)
(* get_sortgroupclause_tle finds by that ref.                              *)
(***************************************************************************)
LEMMA SortInvSorted ==
    ASSUME SortInv
    PROVE  SortMatchesOrderBy
<1>. DEFINE n  == Len(orderBy)
            F  == Firsts(orderBy, n)
            H  == Hidden(orderBy, items, n)
<1>1. SUFFICES ASSUME phase \notin {"items", "order"}
               PROVE  /\ Len(sortList) = Cardinality(F)
                      /\ \A j \in DOMAIN sortList :
                            \E i \in F :
                               /\ Cardinality({i2 \in F : i2 <= i}) = j
                               /\ EntryOf(sortList[j].ref).expr = orderBy[i].expr
                               /\ sortList[j].desc = orderBy[i].desc
                               /\ sortList[j].nullsFirst = orderBy[i].desc
                      /\ Len(tlist) = Len(items) + Cardinality(H)
                      /\ \A i \in DOMAIN tlist :
                            i > Len(items) => tlist[i].junk /\ tlist[i].expr \in H
  <2>1. orderBy \in Seq(SortBy)
    BY DEF SortInv, GroupInv, OrderInv, RefsInv, RefsTypeOK
  <2>2. /\ {i \in DOMAIN orderBy : \A j \in 1 .. (i - 1) : orderBy[j].expr # orderBy[i].expr} = F
        /\ {orderBy[i].expr : i \in DOMAIN orderBy} \ {items[i] : i \in DOMAIN items} = H
    BY <2>1 DEF Firsts, Hidden, KeyExprs
  <2>. QED
    BY <2>2 DEF SortMatchesOrderBy
<1>2. /\ SortedUpTo(n, tlist, sortList, items, orderBy)
      /\ tlist \in Seq(TargetEntry) /\ Unique(tlist)
      /\ ClauseRefsHeld(sortList, tlist)
  BY <1>1 DEF SortInv, OrderDone, GroupInv, OrderInv, RefsInv, RefsTypeOK
<1>3. ASSUME NEW j \in DOMAIN sortList
      PROVE  \E i \in F :
                /\ Cardinality({i2 \in F : i2 <= i}) = j
                /\ EntryOf(sortList[j].ref).expr = orderBy[i].expr
                /\ sortList[j].desc = orderBy[i].desc
                /\ sortList[j].nullsFirst = orderBy[i].desc
  <2>1. PICK i \in F, e \in DOMAIN tlist :
            /\ Cardinality({i2 \in F : i2 <= i}) = j
            /\ tlist[e].ref = sortList[j].ref
            /\ tlist[e].expr = orderBy[i].expr
            /\ sortList[j].desc = orderBy[i].desc
            /\ sortList[j].nullsFirst = orderBy[i].desc
    BY <1>2 DEF SortedUpTo
  <2>2. tlist[e].ref > 0
    BY <1>2, <2>1 DEF ClauseRefsHeld
  <2>3. EntryOf(tlist[e].ref) = tlist[e]
    BY <1>2, <2>2, EntryOfRef
  <2>. QED
    BY <2>1, <2>3
<1>. QED
  BY <1>2, <1>3 DEF SortedUpTo

(***************************************************************************)
(* SortMatchesOrderBy holds in every reachable state: the sort clause      *)
(* transform_cypher_return builds is the ORDER BY list with each repeated *)
(* expression dropped, in order and with its direction, and one hidden    *)
(* entry is appended for each ORDER BY expression that is not projected,  *)
(* for every set of expressions and every bound.                           *)
(***************************************************************************)
THEOREM SortMatchesOrderByHolds == Spec => []SortMatchesOrderBy
<1>1. Init => SortInv
  BY SortInit
<1>2. SortInv /\ [Next]_vars => SortInv'
  BY SortStep
<1>3. SortInv => SortMatchesOrderBy
  BY SortInvSorted
<1>. QED
  BY <1>1, <1>2, <1>3, PTL DEF Spec
=============================================================================
