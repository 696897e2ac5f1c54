-------------------------- MODULE ProjectionProofs --------------------------
(***************************************************************************)
(* Proofs about the projection compiler, for every set of expressions and *)
(* every bound: the sort group refs that assignSortGroupRef hands out name *)
(* one target entry each, through ORDER BY and the automatic GROUP BY.     *)
(***************************************************************************)
EXTENDS Projection, WellFoundedInduction, SequenceTheorems, TLAPS

-----------------------------------------------------------------------------
(***************************************************************************)
(* The part of the state the refs depend on, typed.                       *)
(***************************************************************************)
RefsTypeOK ==
    /\ items \in Seq(Expr)
    /\ groupKeys \in Seq(Expr)
    /\ orderBy \in Seq(SortBy)
    /\ tlist \in Seq(TargetEntry)
    /\ sortList \in Seq(SortGroupClause)
    /\ groupList \in Seq(SortGroupClause)
    /\ k \in Nat \ {0}

(* No two entries share a positive ref. *)
Unique(tl) ==
    \A i, j \in DOMAIN tl : i # j /\ tl[i].ref > 0 => tl[i].ref # tl[j].ref

(* Every clause of the list names an entry by a positive ref. *)
ClauseRefsHeld(list, tl) ==
    \A j \in DOMAIN list :
        list[j].ref > 0 /\ \E i \in DOMAIN tl : tl[i].ref = list[j].ref

RefsInv ==
    /\ RefsTypeOK
    /\ Unique(tlist)
    /\ ClauseRefsHeld(sortList, tlist)
    /\ ClauseRefsHeld(groupList, tlist)

-----------------------------------------------------------------------------
(***************************************************************************)
(* A non-empty set of naturals has a least element: the first entry of    *)
(* find_target_list_entry and the first sort clause of                    *)
(* transform_group_clause_expr exist.                                     *)
(***************************************************************************)
LEMMA LeastNat ==
    ASSUME NEW T \in SUBSET Nat, T # {}
    PROVE  \E i \in T : \A j \in T : i <= j
<1>1. IsWellFoundedOn(OpToRel(<, Nat), Nat)
  BY NatLessThanWellFounded
<1>2. PICK i \in T : \A j \in T : ~(<<j, i>> \in OpToRel(<, Nat))
  BY <1>1, WFMin
<1>3. \A j \in T : j < i => <<j, i>> \in OpToRel(<, Nat)
  BY DEF OpToRel
<1>4. \A j \in T : ~(j < i)
  BY <1>2, <1>3, Zenon
<1>. QED
  BY <1>4

(***************************************************************************)
(* The refs of a target list are bounded.  By the least prefix that has   *)
(* no bound: it is not the empty one, and a bound of the prefix one       *)
(* shorter bounds it too.                                                 *)
(***************************************************************************)
PrefixBounded(tl, m) == \E b \in Nat : \A j \in 1 .. m : tl[j].ref <= b

LEMMA RefsBounded ==
    ASSUME NEW tl \in Seq(TargetEntry)
    PROVE  \E b \in Nat : \A j \in DOMAIN tl : tl[j].ref <= b
<1>. DEFINE C == {m \in 0 .. Len(tl) : ~PrefixBounded(tl, m)}
<1>1. Len(tl) \in Nat /\ DOMAIN tl = 1 .. Len(tl)
  OBVIOUS
<1>2. SUFFICES PrefixBounded(tl, Len(tl))
  BY <1>1 DEF PrefixBounded
<1>3. SUFFICES ASSUME ~PrefixBounded(tl, Len(tl)) PROVE FALSE
  OBVIOUS
<1>4. PICK m \in C : \A c \in C : m <= c
  <2>1. C \in SUBSET Nat
    BY <1>1 DEF C
  <2>2. Len(tl) \in C
    BY <1>1, <1>3 DEF C
  <2>. QED
    BY <2>1, <2>2, LeastNat
<1>5. m # 0
  <2>1. PrefixBounded(tl, 0)
    <3>1. \A j \in 1 .. 0 : tl[j].ref <= 0
      OBVIOUS
    <3>. QED
      BY <3>1 DEF PrefixBounded
  <2>. QED
    BY <1>4, <2>1 DEF C
<1>6. m - 1 \notin C /\ m - 1 \in 0 .. Len(tl)
  <2>1. m \in 0 .. Len(tl)
    BY <1>4 DEF C
  <2>2. m - 1 \in 0 .. Len(tl)
    BY <1>1, <2>1, <1>5
  <2>3. m - 1 \notin C
    BY <1>4, <2>2
  <2>. QED
    BY <2>2, <2>3
<1>7. PICK b \in Nat : \A j \in 1 .. (m - 1) : tl[j].ref <= b
  BY <1>6 DEF C, PrefixBounded
<1>8. tl[m].ref \in Nat
  <2>1. m \in 1 .. Len(tl)
    BY <1>1, <1>4, <1>5 DEF C
  <2>2. tl[m] \in TargetEntry
    BY <2>1, ElementOfSeq
  <2>. QED
    BY <2>2 DEF TargetEntry
<1>9. PrefixBounded(tl, m)
  <2>. DEFINE b2 == IF b >= tl[m].ref THEN b ELSE tl[m].ref
  <2>1. b2 \in Nat
    BY <1>7, <1>8
  <2>2. ASSUME NEW j \in 1 .. m PROVE tl[j].ref <= b2
    <3>1. CASE j = m
      BY <3>1, <1>7, <1>8
    <3>2. CASE j # m
      <4>1. j \in 1 .. (m - 1)
        BY <3>2
      <4>2. tl[j] \in TargetEntry
        BY <4>1, <1>1, ElementOfSeq
      <4>3. tl[j].ref \in Nat /\ tl[j].ref <= b
        BY <4>1, <4>2, <1>7 DEF TargetEntry
      <4>. QED
        BY <4>3, <1>7, <1>8
    <3>. QED
      BY <3>1, <3>2
  <2>. QED
    BY <2>1, <2>2 DEF PrefixBounded
<1>. QED
  BY <1>4, <1>9 DEF C
(***************************************************************************)
(* What assignSortGroupRef relies on: the largest ref of a target list is  *)
(* a natural at least every entry's ref.  It is the least upper bound of   *)
(* the refs, which is one of them or 0.                                    *)
(***************************************************************************)
LEMMA MaxRefFacts ==
    ASSUME NEW tl \in Seq(TargetEntry)
    PROVE  /\ MaxRef(tl) \in Nat
           /\ \A j \in DOMAIN tl : tl[j].ref <= MaxRef(tl)
<1>1. RefsOf(tl) \in SUBSET Nat
  <2>1. ASSUME NEW j \in DOMAIN tl PROVE tl[j].ref \in Nat
    <3>1. j \in 1 .. Len(tl)
      OBVIOUS
    <3>2. tl[j] \in TargetEntry
      BY <3>1, ElementOfSeq
    <3>. QED
      BY <3>2 DEF TargetEntry
  <2>. QED
    BY <2>1 DEF RefsOf
<1>. DEFINE U == {b \in Nat : \A r \in RefsOf(tl) : r <= b}
<1>2. U # {}
  <2>1. PICK b \in Nat : \A j \in DOMAIN tl : tl[j].ref <= b
    BY RefsBounded
  <2>2. \A r \in RefsOf(tl) : r <= b
    BY <2>1 DEF RefsOf
  <2>3. b \in U
    BY <2>2
  <2>. QED
    BY <2>3
<1>3. PICK m \in U : \A c \in U : m <= c
  BY <1>2, LeastNat
<1>4. m \in RefsOf(tl)
  <2>1. CASE m = 0
    BY <2>1 DEF RefsOf
  <2>2. CASE m # 0
    <3>1. m - 1 \in Nat /\ m - 1 \notin U
      BY <1>3, <2>2
    <3>2. PICK r \in RefsOf(tl) : ~(r <= m - 1)
      BY <3>1
    <3>3. r = m
      BY <1>1, <1>3, <3>2
    <3>. QED
      BY <3>2, <3>3
  <2>. QED
    BY <2>1, <2>2
<1>5. \E x \in RefsOf(tl) : \A r \in RefsOf(tl) : r <= x
  BY <1>3, <1>4
<1>6. MaxRef(tl) \in RefsOf(tl) /\ \A r \in RefsOf(tl) : r <= MaxRef(tl)
  BY <1>5 DEF MaxRef
<1>. QED
  BY <1>1, <1>6 DEF RefsOf
(***************************************************************************)
(* An entry of a typed target list is a typed entry.                      *)
(***************************************************************************)
LEMMA EntryType ==
    ASSUME NEW tl \in Seq(TargetEntry), NEW j \in DOMAIN tl
    PROVE  tl[j] \in TargetEntry /\ tl[j].ref \in Nat
<1>1. j \in 1 .. Len(tl)
  OBVIOUS
<1>2. tl[j] \in TargetEntry
  BY <1>1, ElementOfSeq
<1>. QED
  BY <1>2 DEF TargetEntry

(***************************************************************************)
(* find_target_list_entry keeps every entry where it was, appends at most *)
(* one entry (a hidden one, with no ref yet), and returns the first entry *)
(* for the key of the list it gives back.                                  *)
(***************************************************************************)
LEMMA WithEntryFacts ==
    ASSUME NEW tl \in Seq(TargetEntry), NEW e \in Expr
    PROVE  /\ WithEntry(tl, e) \in Seq(TargetEntry)
           /\ DOMAIN tl \subseteq DOMAIN WithEntry(tl, e)
           /\ \A j \in DOMAIN tl : WithEntry(tl, e)[j] = tl[j]
           /\ \A j \in DOMAIN WithEntry(tl, e) \ DOMAIN tl : WithEntry(tl, e)[j].ref = 0
           /\ EntryIndex(tl, e) \in DOMAIN WithEntry(tl, e)
           /\ IsEntryFor(WithEntry(tl, e), EntryIndex(tl, e), e)
<1>. DEFINE t2 == WithEntry(tl, e)
            new == [expr |-> e, junk |-> TRUE, ref |-> 0]
<1>1. new \in TargetEntry
  BY DEF TargetEntry
<1>2. /\ t2 \in Seq(TargetEntry)
      /\ DOMAIN tl \subseteq DOMAIN t2
      /\ \A j \in DOMAIN tl : t2[j] = tl[j]
      /\ \A j \in DOMAIN t2 \ DOMAIN tl : t2[j].ref = 0
      /\ \E j \in DOMAIN t2 : t2[j].expr = e
  <2>1. CASE HasEntry(tl, e)
    <3>1. t2 = tl
      BY <2>1 DEF WithEntry
    <3>. QED
      BY <2>1, <3>1 DEF HasEntry
  <2>2. CASE ~HasEntry(tl, e)
    <3>1. t2 = Append(tl, new)
      BY <2>2 DEF WithEntry
    <3>. QED
      BY <1>1, <3>1, AppendProperties
  <2>. QED
    BY <2>1, <2>2
<1>3. PICK i \in {j \in DOMAIN t2 : t2[j].expr = e} :
          \A j2 \in {j \in DOMAIN t2 : t2[j].expr = e} : i <= j2
  <2>. DEFINE T == {j \in DOMAIN t2 : t2[j].expr = e}
  <2>1. T \in SUBSET Nat /\ T # {}
    <3>1. DOMAIN t2 = 1 .. Len(t2)
      BY <1>2
    <3>. QED
      BY <1>2, <3>1
  <2>. QED
    BY <2>1, LeastNat
<1>4. IsEntryFor(t2, i, e)
  <2>1. DOMAIN t2 = 1 .. Len(t2) /\ Len(t2) \in Nat
    BY <1>2
  <2>. QED
    BY <1>3, <2>1 DEF IsEntryFor
<1>5. EntryIndex(tl, e) \in DOMAIN t2 /\ IsEntryFor(t2, EntryIndex(tl, e), e)
  BY <1>3, <1>4 DEF EntryIndex
<1>. QED
  BY <1>2, <1>5

(***************************************************************************)
(* assignSortGroupRef and the ref it writes into the entry: the ref is     *)
(* positive, every other positive ref of the list stays where it was, and  *)
(* no two entries share a ref afterwards.                                 *)
(***************************************************************************)
LEMMA SetRefFacts ==
    ASSUME NEW tl \in Seq(TargetEntry), Unique(tl), NEW i \in DOMAIN tl
    PROVE  /\ AssignSortGroupRef(tl, i) \in Nat \ {0}
           /\ SetRef(tl, i, AssignSortGroupRef(tl, i)) \in Seq(TargetEntry)
           /\ DOMAIN SetRef(tl, i, AssignSortGroupRef(tl, i)) = DOMAIN tl
           /\ SetRef(tl, i, AssignSortGroupRef(tl, i))[i].ref = AssignSortGroupRef(tl, i)
           /\ \A j \in DOMAIN tl :
                 tl[j].ref > 0 => SetRef(tl, i, AssignSortGroupRef(tl, i))[j].ref = tl[j].ref
           /\ Unique(SetRef(tl, i, AssignSortGroupRef(tl, i)))
<1>. DEFINE r == AssignSortGroupRef(tl, i)
            t3 == SetRef(tl, i, r)
<1>1. tl[i] \in TargetEntry /\ tl[i].ref \in Nat
  BY EntryType
<1>2. MaxRef(tl) \in Nat /\ \A j \in DOMAIN tl : tl[j].ref <= MaxRef(tl)
  BY MaxRefFacts
<1>3. \/ tl[i].ref > 0 /\ r = tl[i].ref
      \/ tl[i].ref = 0 /\ r = MaxRef(tl) + 1
  BY <1>1 DEF AssignSortGroupRef
<1>4. r \in Nat \ {0}
  BY <1>1, <1>2, <1>3
<1>5. t3 = [tl EXCEPT ![i] = [expr |-> tl[i].expr, junk |-> tl[i].junk, ref |-> r]]
  BY DEF SetRef
<1>6. [expr |-> tl[i].expr, junk |-> tl[i].junk, ref |-> r] \in TargetEntry
  BY <1>1, <1>4 DEF TargetEntry
<1>7. /\ t3 \in Seq(TargetEntry)
      /\ DOMAIN t3 = DOMAIN tl
      /\ t3[i].ref = r
      /\ \A j \in DOMAIN tl : j # i => t3[j] = tl[j]
  <2>1. DOMAIN tl = 1 .. Len(tl) /\ Len(tl) \in Nat
    OBVIOUS
  <2>2. t3 \in [1 .. Len(tl) -> TargetEntry]
    BY <1>5, <1>6, <2>1, ElementOfSeq
  <2>. QED
    BY <1>5, <2>1, <2>2
<1>8. ASSUME NEW j \in DOMAIN tl, tl[j].ref > 0 PROVE t3[j].ref = tl[j].ref
  BY <1>3, <1>7, <1>8
<1>9. Unique(t3)
  <2>. SUFFICES ASSUME NEW a \in DOMAIN t3, NEW b \in DOMAIN t3, a # b, t3[a].ref > 0
                PROVE  t3[a].ref # t3[b].ref
    BY DEF Unique
  <2>1. tl[a].ref \in Nat /\ tl[b].ref \in Nat
    BY <1>7, EntryType
  <2>2. CASE a = i
    BY <2>1, <2>2, <1>2, <1>3, <1>7 DEF Unique
  <2>3. CASE b = i
    BY <2>1, <2>3, <1>2, <1>3, <1>7 DEF Unique
  <2>4. CASE a # i /\ b # i
    BY <2>4, <1>7 DEF Unique
  <2>. QED
    BY <2>2, <2>3, <2>4
<1>. QED
  BY <1>4, <1>7, <1>8, <1>9

(***************************************************************************)
(* The first sort clause with the entry's ref, which                       *)
(* transform_group_clause_expr copies, exists when one does.               *)
(***************************************************************************)
LEMMA FirstClauseFacts ==
    ASSUME NEW list \in Seq(SortGroupClause), NEW ref, InSortList(ref, list)
    PROVE  /\ FirstClauseOf(ref, list) \in DOMAIN list
           /\ list[FirstClauseOf(ref, list)].ref = ref
<1>1. DOMAIN list = 1 .. Len(list) /\ Len(list) \in Nat
  OBVIOUS
<1>2. PICK j \in {j1 \in DOMAIN list : list[j1].ref = ref} :
          \A j2 \in {j1 \in DOMAIN list : list[j1].ref = ref} : j <= j2
  <2>. DEFINE T == {j1 \in DOMAIN list : list[j1].ref = ref}
  <2>1. T \in SUBSET Nat /\ T # {}
    BY <1>1 DEF InSortList
  <2>. QED
    BY <2>1, LeastNat
<1>3. \E j1 \in DOMAIN list :
          list[j1].ref = ref /\ \A j2 \in 1 .. (j1 - 1) : list[j2].ref # ref
  BY <1>1, <1>2
<1>. QED
  BY <1>3 DEF FirstClauseOf
-----------------------------------------------------------------------------
(***************************************************************************)
(* A target list is kept by another when each of its entries is still     *)
(* there and each positive ref still sits on the same entry: what holds   *)
(* across find_target_list_entry and assignSortGroupRef.  A clause that    *)
(* named an entry of the first names one of the second.                   *)
(***************************************************************************)
Keeps(tl, t2) ==
    /\ DOMAIN tl \subseteq DOMAIN t2
    /\ \A j \in DOMAIN tl : tl[j].ref > 0 => t2[j].ref = tl[j].ref

LEMMA HeldKept ==
    ASSUME NEW list, NEW tl, NEW t2, ClauseRefsHeld(list, tl), Keeps(tl, t2)
    PROVE  ClauseRefsHeld(list, t2)
BY DEF ClauseRefsHeld, Keeps

LEMMA WithEntryKeeps ==
    ASSUME NEW tl \in Seq(TargetEntry), Unique(tl), NEW e \in Expr
    PROVE  /\ Unique(WithEntry(tl, e))
           /\ Keeps(tl, WithEntry(tl, e))
<1>. DEFINE t2 == WithEntry(tl, e)
<1>1. /\ t2 \in Seq(TargetEntry)
      /\ DOMAIN tl \subseteq DOMAIN t2
      /\ \A j \in DOMAIN tl : t2[j] = tl[j]
      /\ \A j \in DOMAIN t2 \ DOMAIN tl : t2[j].ref = 0
  BY WithEntryFacts
<1>2. Unique(t2)
  <2>. SUFFICES ASSUME NEW a \in DOMAIN t2, NEW b \in DOMAIN t2, a # b, t2[a].ref > 0
                PROVE  t2[a].ref # t2[b].ref
    BY DEF Unique
  <2>1. a \in DOMAIN tl
    BY <1>1
  <2>2. t2[a].ref = tl[a].ref /\ tl[a].ref \in Nat
    BY <1>1, <2>1, EntryType
  <2>3. CASE b \in DOMAIN tl
    BY <1>1, <2>1, <2>2, <2>3 DEF Unique
  <2>4. CASE b \notin DOMAIN tl
    BY <1>1, <2>2, <2>4
  <2>. QED
    BY <2>3, <2>4
<1>. QED
  BY <1>1, <1>2 DEF Keeps

(***************************************************************************)
(* The initial state: no entry has a ref and no clause exists yet.        *)
(***************************************************************************)
LEMMA RefsInit == Init => RefsInv
<1>. SUFFICES ASSUME Init PROVE RefsInv
  OBVIOUS
<1>1. items \in Seq(Expr) /\ orderBy \in Seq(SortBy)
  BY DEF Init, SeqsUpTo
<1>. QED
  BY <1>1 DEF Init, RefsInv, RefsTypeOK, Unique, ClauseRefsHeld

(***************************************************************************)
(* An item of transform_cypher_item_list: a projected entry with no ref   *)
(* is appended, so no clause loses its entry and no ref is shared.         *)
(***************************************************************************)
LEMMA TransformItemStep ==
    ASSUME RefsInv, TransformItem
    PROVE  RefsInv'
<1>. DEFINE new == [expr |-> items[k], junk |-> FALSE, ref |-> 0]
<1>1. k \in 1 .. Len(items) /\ items[k] \in Expr
  BY ElementOfSeq DEF RefsInv, RefsTypeOK, TransformItem
<1>2. /\ tlist' = Append(tlist, new)
      /\ groupKeys' = groupKeys \/ groupKeys' = Append(groupKeys, items[k])
      /\ k' = k + 1
      /\ UNCHANGED <<items, orderBy, sortList, groupList>>
  BY DEF TransformItem
<1>3. new \in TargetEntry /\ tlist \in Seq(TargetEntry)
  BY <1>1 DEF TargetEntry, RefsInv, RefsTypeOK
<1>4. RefsTypeOK'
  <2>1. groupKeys' \in Seq(Expr)
    <3>1. groupKeys \in Seq(Expr)
      BY DEF RefsInv, RefsTypeOK
    <3>2. Append(groupKeys, items[k]) \in Seq(Expr)
      BY <1>1, <3>1, AppendProperties
    <3>. QED
      BY <1>2, <3>1, <3>2
  <2>. QED
    BY <1>1, <1>2, <1>3, <2>1 DEF RefsInv, RefsTypeOK
<1>5. Keeps(tlist, tlist')
  BY <1>2, <1>3 DEF Keeps
<1>6. Unique(tlist')
  <2>. SUFFICES ASSUME NEW a \in DOMAIN tlist', NEW b \in DOMAIN tlist', a # b,
                      tlist'[a].ref > 0
                PROVE  tlist'[a].ref # tlist'[b].ref
    BY DEF Unique
  <2>1. a \in DOMAIN tlist /\ tlist'[a] = tlist[a] /\ tlist[a].ref \in Nat
    BY <1>2, <1>3, EntryType
  <2>2. CASE b \in DOMAIN tlist
    BY <1>2, <1>3, <2>1, <2>2 DEF RefsInv, Unique
  <2>3. CASE b \notin DOMAIN tlist
    BY <1>2, <1>3, <2>1, <2>3
  <2>. QED
    BY <2>2, <2>3
<1>. QED
  BY <1>2, <1>4, <1>5, <1>6, HeldKept DEF RefsInv

(***************************************************************************)
(* One ORDER BY key: the key's entry is found or appended, and either it  *)
(* is sorted on already or it gets its ref and a new sort clause names it.*)
(***************************************************************************)
LEMMA OrderByItemStep ==
    ASSUME RefsInv, OrderByItem
    PROVE  RefsInv'
<1>. DEFINE key == orderBy[k]
            tl  == WithEntry(tlist, key.expr)
            i   == EntryIndex(tlist, key.expr)
            r   == AssignSortGroupRef(tl, i)
<1>1. k \in 1 .. Len(orderBy) /\ key \in SortBy
  BY ElementOfSeq DEF RefsInv, RefsTypeOK, OrderByItem
<1>2. key.expr \in Expr
  BY <1>1 DEF SortBy
<1>3. /\ tl \in Seq(TargetEntry)
      /\ i \in DOMAIN tl
      /\ Unique(tl)
      /\ Keeps(tlist, tl)
  BY <1>2, WithEntryFacts, WithEntryKeeps DEF RefsInv, RefsTypeOK
<1>4. ClauseRefsHeld(sortList, tl) /\ ClauseRefsHeld(groupList, tl)
  BY <1>3, HeldKept DEF RefsInv
<1>5. /\ orderBy' = orderBy /\ groupList' = groupList /\ k' = k + 1
      /\ groupKeys' = groupKeys /\ items' = items
      /\ \/ /\ InSortList(tl[i].ref, sortList)
            /\ tlist' = tl
            /\ sortList' = sortList
         \/ /\ ~InSortList(tl[i].ref, sortList)
            /\ tlist' = SetRef(tl, i, r)
            /\ sortList' = Append(sortList, [ref |-> r, desc |-> key.desc,
                                             nullsFirst |-> key.desc])
  BY DEF OrderByItem
<1>6. k' \in Nat \ {0}
  BY <1>1, <1>5 DEF TargetEntry
<1>7. CASE InSortList(tl[i].ref, sortList)
  BY <1>3, <1>4, <1>5, <1>6, <1>7 DEF RefsInv, RefsTypeOK
<1>8. CASE ~InSortList(tl[i].ref, sortList)
  <2>1. /\ r \in Nat \ {0}
        /\ SetRef(tl, i, r) \in Seq(TargetEntry)
        /\ SetRef(tl, i, r)[i].ref = r
        /\ Unique(SetRef(tl, i, r))
        /\ Keeps(tl, SetRef(tl, i, r))
    BY <1>3, SetRefFacts DEF Keeps
  <2>2. [ref |-> r, desc |-> key.desc, nullsFirst |-> key.desc] \in SortGroupClause
    BY <1>1, <2>1 DEF SortBy, SortGroupClause
  <2>3. sortList' \in Seq(SortGroupClause)
    <3>1. sortList \in Seq(SortGroupClause)
      BY DEF RefsInv, RefsTypeOK
    <3>. QED
      BY <1>5, <1>8, <2>2, <3>1, AppendProperties
  <2>4. ClauseRefsHeld(groupList', tlist')
    BY <1>4, <1>5, <1>8, <2>1, HeldKept
  <2>5. ClauseRefsHeld(sortList, tlist')
    BY <1>4, <1>5, <1>8, <2>1, HeldKept
  <2>6. ClauseRefsHeld(sortList', tlist')
    <3>1. sortList' = Append(sortList, [ref |-> r, desc |-> key.desc,
                                        nullsFirst |-> key.desc])
      BY <1>5, <1>8
    <3>2. i \in DOMAIN tlist' /\ tlist'[i].ref = r
      BY <1>3, <1>5, <1>8, <2>1, SetRefFacts
    <3>3. sortList \in Seq(SortGroupClause)
      BY DEF RefsInv, RefsTypeOK
    <3>. QED
      BY <2>1, <2>5, <3>1, <3>2, <3>3 DEF ClauseRefsHeld
  <2>. QED
    BY <1>5, <1>6, <1>8, <2>1, <2>3, <2>4, <2>6 DEF RefsInv, RefsTypeOK
<1>. QED
  BY <1>7, <1>8
(***************************************************************************)
(* One group key: its entry is found or appended; unless it is grouped    *)
(* already, the group clause added for it (a copy of its sort clause or   *)
(* a default one) carries the ref the entry ends up with.                  *)
(***************************************************************************)
LEMMA GroupItemStep ==
    ASSUME RefsInv, GroupItem
    PROVE  RefsInv'
<1>. DEFINE e  == groupKeys[k]
            tl == WithEntry(tlist, e)
            i  == EntryIndex(tlist, e)
            r  == AssignSortGroupRef(tl, i)
<1>1. k \in Nat \ {0} /\ e \in Expr
  <2>1. k \in 1 .. Len(groupKeys) /\ groupKeys \in Seq(Expr)
    BY DEF RefsInv, RefsTypeOK, GroupItem
  <2>. QED
    BY <2>1, ElementOfSeq
<1>2. /\ tl \in Seq(TargetEntry)
      /\ i \in DOMAIN tl
      /\ Unique(tl)
      /\ Keeps(tlist, tl)
  BY <1>1, WithEntryFacts, WithEntryKeeps DEF RefsInv, RefsTypeOK
<1>3. ClauseRefsHeld(sortList, tl) /\ ClauseRefsHeld(groupList, tl)
  BY <1>2, HeldKept DEF RefsInv
<1>4. /\ orderBy' = orderBy /\ sortList' = sortList /\ k' = k + 1
      /\ groupKeys' = groupKeys /\ items' = items
      /\ \/ /\ AlreadyGrouped(tl[i].ref)
            /\ tlist' = tl
            /\ groupList' = groupList
         \/ /\ ~AlreadyGrouped(tl[i].ref)
            /\ groupList' = GroupClauseFor(tl, i)
            /\ tlist' = SetRef(tl, i, r)
  BY DEF GroupItem
<1>5. k' \in Nat \ {0}
  BY <1>1, <1>4 DEF TargetEntry
<1>6. RefsTypeOK' <=> groupList' \in Seq(SortGroupClause) /\ tlist' \in Seq(TargetEntry)
  BY <1>4, <1>5 DEF RefsInv, RefsTypeOK
<1>7. CASE AlreadyGrouped(tl[i].ref)
  BY <1>2, <1>3, <1>4, <1>6, <1>7 DEF RefsInv, RefsTypeOK
<1>8. CASE ~AlreadyGrouped(tl[i].ref)
  <2>1. /\ r \in Nat \ {0}
        /\ SetRef(tl, i, r) \in Seq(TargetEntry)
        /\ SetRef(tl, i, r)[i].ref = r
        /\ i \in DOMAIN SetRef(tl, i, r)
        /\ Unique(SetRef(tl, i, r))
        /\ Keeps(tl, SetRef(tl, i, r))
    BY <1>2, SetRefFacts DEF Keeps
  <2>2. tlist' = SetRef(tl, i, r)
    BY <1>4, <1>8
  <2>3. ClauseRefsHeld(sortList', tlist') /\ ClauseRefsHeld(groupList, tlist')
    BY <1>3, <1>4, <2>1, <2>2, HeldKept
  <2>4. groupList \in Seq(SortGroupClause) /\ sortList \in Seq(SortGroupClause)
    BY DEF RefsInv, RefsTypeOK
  (*************************************************************************)
  (* The group list gains at most one clause, and its ref is r.            *)
  (*************************************************************************)
  <2>5. \/ groupList' = groupList
        \/ \E c \in SortGroupClause : c.ref = r /\ groupList' = Append(groupList, c)
    <3>1. CASE InSortList(tl[i].ref, sortList)
      <4>. DEFINE f == FirstClauseOf(tl[i].ref, sortList)
      <4>1. f \in DOMAIN sortList /\ sortList[f].ref = tl[i].ref
        BY <2>4, <3>1, FirstClauseFacts
      <4>2. sortList[f] \in SortGroupClause
        BY <2>4, <4>1, ElementOfSeq
      <4>3. tl[i].ref > 0 /\ r = tl[i].ref
        BY <3>1 DEF InSortList, AssignSortGroupRef
      <4>4. groupList' = Append(groupList, sortList[f])
        BY <1>4, <1>8, <3>1 DEF GroupClauseFor
      <4>. QED
        BY <4>1, <4>2, <4>3, <4>4
    <3>2. CASE ~InSortList(tl[i].ref, sortList)
      <4>1. groupList' = AddTargetToGroupList(tl, i)
        BY <1>4, <1>8, <3>2 DEF GroupClauseFor
      <4>2. [ref |-> r, desc |-> FALSE, nullsFirst |-> FALSE] \in SortGroupClause
        BY <2>1 DEF SortGroupClause
      <4>. QED
        BY <4>1, <4>2 DEF AddTargetToGroupList
    <3>. QED
      BY <3>1, <3>2
  <2>6. groupList' \in Seq(SortGroupClause) /\ ClauseRefsHeld(groupList', tlist')
    <3>1. CASE groupList' = groupList
      BY <2>3, <2>4, <3>1
    <3>2. CASE groupList' # groupList
      <4>1. PICK c \in SortGroupClause : c.ref = r /\ groupList' = Append(groupList, c)
        BY <2>5, <3>2
      <4>2. groupList' \in Seq(SortGroupClause)
        BY <2>4, <4>1, AppendProperties
      <4>3. i \in DOMAIN tlist' /\ tlist'[i].ref = r
        BY <2>1, <2>2
      <4>. QED
        BY <2>1, <2>3, <2>4, <4>1, <4>2, <4>3 DEF ClauseRefsHeld
    <3>. QED
      BY <3>1, <3>2
  <2>. QED
    BY <1>6, <2>1, <2>2, <2>3, <2>6 DEF RefsInv
<1>. QED
  BY <1>7, <1>8
(***************************************************************************)
(* Every step keeps the invariant: the two that compile a key are the     *)
(* lemmas above, and the others leave the target list and clauses alone.  *)
(***************************************************************************)
LEMMA RefsStep ==
    ASSUME RefsInv, [Next]_vars
    PROVE  RefsInv'
<1>1. CASE TransformItem
  BY <1>1, TransformItemStep
<1>2. CASE EndItems
  <2>1. /\ k' = 1 /\ (groupKeys' = groupKeys \/ groupKeys' = <<>>)
        /\ UNCHANGED <<items, orderBy, tlist, sortList, groupList>>
    BY <1>2 DEF EndItems
  <2>2. groupKeys' \in Seq(Expr)
    <3>1. groupKeys \in Seq(Expr) /\ <<>> \in Seq(Expr)
      BY EmptySeq DEF RefsInv, RefsTypeOK
    <3>. QED
      BY <2>1, <3>1
  <2>. QED
    BY <2>1, <2>2 DEF RefsInv, RefsTypeOK, Unique, ClauseRefsHeld
<1>3. CASE OrderByItem
  BY <1>3, OrderByItemStep
<1>4. CASE GroupItem
  BY <1>4, GroupItemStep
<1>5. CASE EndOrderBy
  <2>1. k' = 1 /\ UNCHANGED <<items, orderBy, tlist, sortList, groupList, groupKeys>>
    BY <1>5 DEF EndOrderBy
  <2>. QED
    BY <2>1 DEF RefsInv, RefsTypeOK, Unique, ClauseRefsHeld
<1>6. CASE EndGroup \/ DistinctClause \/ LimitClauses \/ UNCHANGED vars
  <2>1. UNCHANGED <<items, orderBy, tlist, sortList, groupList, k, groupKeys>>
    BY <1>6 DEF EndGroup, DistinctClause, LimitClauses, vars
  <2>. QED
    BY <2>1 DEF RefsInv, RefsTypeOK, Unique, ClauseRefsHeld
<1>. QED
  BY <1>1, <1>2, <1>3, <1>4, <1>5, <1>6 DEF Next

(***************************************************************************)
(* The sort and group clauses transform_cypher_return builds each name one *)
(* target entry by a ref no other entry has: assignSortGroupRef hands out  *)
(* fresh refs, find_target_list_entry and the group clause reuse them, and *)
(* nothing rewrites a ref once given.  For every set of expressions and    *)
(* every bound.                                                            *)
(***************************************************************************)
THEOREM SortGroupRefsUniqueHolds == Spec => []SortGroupRefsUnique
<1>1. Init => RefsInv
  BY RefsInit
<1>2. RefsInv /\ [Next]_vars => RefsInv'
  BY RefsStep
<1>3. RefsInv => SortGroupRefsUnique
  BY DEF RefsInv, Unique, ClauseRefsHeld, SortGroupRefsUnique
<1>. QED
  BY <1>1, <1>2, <1>3, PTL DEF Spec
-----------------------------------------------------------------------------
(***************************************************************************)
(* The strengthening behind GroupKeyInheritsOrder.  While ORDER BY is     *)
(* compiled there is no group clause yet; no two sort clauses share a     *)
(* ref (addTargetToSortList skips an entry already sorted on); and the    *)
(* refs invariant, which makes a fresh ref differ from every clause's.    *)
(***************************************************************************)
NoGroupWhileOrdering == phase \in {"items", "order"} => groupList = <<>>

SortRefsDistinct ==
    \A a, b \in DOMAIN sortList : a # b => sortList[a].ref # sortList[b].ref

OrderInv ==
    /\ RefsInv
    /\ NoGroupWhileOrdering
    /\ SortRefsDistinct
    /\ GroupKeyInheritsOrder

(***************************************************************************)
(* A ref assignSortGroupRef gives an entry that no clause of the list     *)
(* names is the ref of no clause of the list: either the entry's own ref, *)
(* or one past every ref of the target list.                              *)
(***************************************************************************)
LEMMA FreshRef ==
    ASSUME NEW tl \in Seq(TargetEntry), NEW i \in DOMAIN tl, NEW list,
           ClauseRefsHeld(list, tl), ~InSortList(tl[i].ref, list)
    PROVE  \A j \in DOMAIN list : list[j].ref # AssignSortGroupRef(tl, i)
<1>. SUFFICES ASSUME NEW j \in DOMAIN list PROVE list[j].ref # AssignSortGroupRef(tl, i)
  OBVIOUS
<1>1. tl[i].ref \in Nat
  BY EntryType
<1>2. CASE tl[i].ref > 0
  BY <1>2 DEF InSortList, AssignSortGroupRef
<1>3. CASE tl[i].ref = 0
  <2>1. PICK x \in DOMAIN tl : tl[x].ref = list[j].ref
    BY DEF ClauseRefsHeld
  <2>2. MaxRef(tl) \in Nat /\ tl[x].ref <= MaxRef(tl) /\ tl[x].ref \in Nat
    BY MaxRefFacts, EntryType
  <2>3. AssignSortGroupRef(tl, i) = MaxRef(tl) + 1
    BY <1>3 DEF AssignSortGroupRef
  <2>. QED
    BY <2>1, <2>2, <2>3
<1>. QED
  BY <1>1, <1>2, <1>3

LEMMA OrderInit == Init => OrderInv
<1>. SUFFICES ASSUME Init PROVE OrderInv
  OBVIOUS
<1>. QED
  BY RefsInit DEF Init, OrderInv, NoGroupWhileOrdering, SortRefsDistinct,
                 GroupKeyInheritsOrder
(***************************************************************************)
(* An ORDER BY key adds a sort clause only for an entry not sorted on     *)
(* yet, so with a ref no sort clause has; the group list is still empty.  *)
(***************************************************************************)
LEMMA OrderByItemOrder ==
    ASSUME OrderInv, OrderByItem
    PROVE  /\ NoGroupWhileOrdering'
           /\ SortRefsDistinct'
           /\ GroupKeyInheritsOrder'
<1>. DEFINE key == orderBy[k]
            tl  == WithEntry(tlist, key.expr)
            i   == EntryIndex(tlist, key.expr)
            r   == AssignSortGroupRef(tl, i)
<1>1. k \in 1 .. Len(orderBy) /\ key \in SortBy
  BY ElementOfSeq DEF OrderInv, RefsInv, RefsTypeOK, OrderByItem
<1>2. /\ tl \in Seq(TargetEntry)
      /\ i \in DOMAIN tl
      /\ ClauseRefsHeld(sortList, tl)
  <2>1. key.expr \in Expr
    BY <1>1 DEF SortBy
  <2>2. Keeps(tlist, tl)
    BY <2>1, WithEntryKeeps DEF OrderInv, RefsInv, RefsTypeOK
  <2>. QED
    BY <2>1, <2>2, WithEntryFacts, HeldKept DEF OrderInv, RefsInv, RefsTypeOK
<1>3. /\ phase = "order" /\ phase' = phase /\ groupList' = groupList
      /\ \/ /\ InSortList(tl[i].ref, sortList)
            /\ sortList' = sortList
         \/ /\ ~InSortList(tl[i].ref, sortList)
            /\ sortList' = Append(sortList, [ref |-> r, desc |-> key.desc,
                                             nullsFirst |-> key.desc])
  BY DEF OrderByItem
<1>4. groupList' = <<>>
  BY <1>3 DEF OrderInv, NoGroupWhileOrdering
<1>5. SortRefsDistinct'
  <2>1. CASE InSortList(tl[i].ref, sortList)
    BY <1>3, <2>1 DEF OrderInv, SortRefsDistinct
  <2>2. CASE ~InSortList(tl[i].ref, sortList)
    <3>1. \A j \in DOMAIN sortList : sortList[j].ref # r
      BY <1>2, <2>2, FreshRef
    <3>2. sortList \in Seq(SortGroupClause)
      BY DEF OrderInv, RefsInv, RefsTypeOK
    <3>. QED
      BY <1>3, <2>2, <3>1, <3>2 DEF OrderInv, SortRefsDistinct
  <2>. QED
    BY <2>1, <2>2
<1>. QED
  BY <1>3, <1>4, <1>5 DEF NoGroupWhileOrdering, GroupKeyInheritsOrder

(***************************************************************************)
(* A group key either copies the one sort clause with its ref, or gets a  *)
(* default clause with a ref no sort clause has.                          *)
(***************************************************************************)
LEMMA GroupItemOrder ==
    ASSUME OrderInv, GroupItem
    PROVE  /\ NoGroupWhileOrdering'
           /\ SortRefsDistinct'
           /\ GroupKeyInheritsOrder'
<1>. DEFINE e  == groupKeys[k]
            tl == WithEntry(tlist, e)
            i  == EntryIndex(tlist, e)
            r  == AssignSortGroupRef(tl, i)
<1>1. /\ tl \in Seq(TargetEntry)
      /\ i \in DOMAIN tl
      /\ ClauseRefsHeld(sortList, tl)
  <2>1. k \in Nat \ {0} /\ e \in Expr
    <3>1. k \in 1 .. Len(groupKeys) /\ groupKeys \in Seq(Expr)
      BY DEF OrderInv, RefsInv, RefsTypeOK, GroupItem
    <3>. QED
      BY <3>1, ElementOfSeq
  <2>2. Keeps(tlist, tl)
    BY <2>1, WithEntryKeeps DEF OrderInv, RefsInv, RefsTypeOK
  <2>. QED
    BY <2>1, <2>2, WithEntryFacts, HeldKept DEF OrderInv, RefsInv, RefsTypeOK
<1>2. /\ phase' = "group" /\ sortList' = sortList
      /\ \/ groupList' = groupList
         \/ /\ ~AlreadyGrouped(tl[i].ref)
            /\ groupList' = GroupClauseFor(tl, i)
  BY DEF GroupItem
<1>3. sortList \in Seq(SortGroupClause) /\ groupList \in Seq(SortGroupClause)
  BY DEF OrderInv, RefsInv, RefsTypeOK
<1>4. SUFFICES GroupKeyInheritsOrder'
  BY <1>2 DEF OrderInv, NoGroupWhileOrdering, SortRefsDistinct
<1>5. CASE groupList' = groupList
  BY <1>2, <1>5 DEF OrderInv, GroupKeyInheritsOrder
<1>6. CASE groupList' # groupList
  <2>1. groupList' = GroupClauseFor(tl, i)
    BY <1>2, <1>6
  <2>2. SUFFICES ASSUME NEW s \in DOMAIN sortList,
                        groupList'[Len(groupList) + 1].ref = sortList[s].ref,
                        groupList' = Append(groupList, groupList'[Len(groupList) + 1])
                 PROVE  /\ groupList'[Len(groupList) + 1].desc = sortList[s].desc
                        /\ groupList'[Len(groupList) + 1].nullsFirst = sortList[s].nullsFirst
    <3>1. groupList' = Append(groupList, groupList'[Len(groupList) + 1])
      <4>1. CASE InSortList(tl[i].ref, sortList)
        BY <2>1, <4>1, <1>3 DEF GroupClauseFor
      <4>2. CASE ~InSortList(tl[i].ref, sortList)
        BY <1>6, <2>1, <4>2, <1>3 DEF GroupClauseFor, AddTargetToGroupList
      <4>. QED
        BY <4>1, <4>2
    <3>. QED
      BY <1>2, <1>3, <3>1 DEF OrderInv, GroupKeyInheritsOrder
  <2>3. CASE InSortList(tl[i].ref, sortList)
    <3>. DEFINE f == FirstClauseOf(tl[i].ref, sortList)
    <3>1. f \in DOMAIN sortList /\ sortList[f].ref = tl[i].ref
      BY <1>3, <2>3, FirstClauseFacts
    <3>2. groupList'[Len(groupList) + 1] = sortList[f]
      BY <1>3, <2>1, <2>3 DEF GroupClauseFor
    <3>3. s = f
      BY <2>2, <3>1, <3>2 DEF OrderInv, SortRefsDistinct
    <3>. QED
      BY <3>2, <3>3
  <2>4. CASE ~InSortList(tl[i].ref, sortList)
    <3>1. \A j \in DOMAIN sortList : sortList[j].ref # r
      BY <1>1, <2>4, FreshRef
    <3>2. groupList'[Len(groupList) + 1].ref = r
      BY <1>3, <1>6, <2>1, <2>4 DEF GroupClauseFor, AddTargetToGroupList
    <3>. QED
      BY <2>2, <3>1, <3>2
  <2>. QED
    BY <2>3, <2>4
<1>. QED
  BY <1>5, <1>6
LEMMA OrderStep ==
    ASSUME OrderInv, [Next]_vars
    PROVE  OrderInv'
<1>1. RefsInv'
  BY RefsStep DEF OrderInv
<1>2. CASE OrderByItem
  BY <1>1, <1>2, OrderByItemOrder DEF OrderInv
<1>3. CASE GroupItem
  BY <1>1, <1>3, GroupItemOrder DEF OrderInv
<1>4. CASE TransformItem \/ EndItems \/ EndOrderBy \/ EndGroup \/ DistinctClause
          \/ LimitClauses \/ UNCHANGED vars
  <2>1. /\ sortList' = sortList /\ groupList' = groupList
        /\ (phase' \in {"items", "order"} => phase \in {"items", "order"})
    BY <1>4 DEF TransformItem, EndItems, EndOrderBy, EndGroup, DistinctClause,
                LimitClauses, vars
  <2>. QED
    BY <1>1, <2>1 DEF OrderInv, NoGroupWhileOrdering, SortRefsDistinct,
                      GroupKeyInheritsOrder
<1>. QED
  BY <1>2, <1>3, <1>4 DEF Next

(***************************************************************************)
(* A group key that is also sorted on is compared the way its ORDER BY    *)
(* item says, direction and nulls alike: transform_group_clause_expr      *)
(* copies the one sort clause with the entry's ref, and gives a key that  *)
(* is not sorted on a ref no sort clause has.  For every set of           *)
(* expressions and every bound.                                           *)
(***************************************************************************)
THEOREM GroupKeyInheritsOrderHolds == Spec => []GroupKeyInheritsOrder
<1>1. Init => OrderInv
  BY OrderInit
<1>2. OrderInv /\ [Next]_vars => OrderInv'
  BY OrderStep
<1>3. OrderInv => GroupKeyInheritsOrder
  BY DEF OrderInv
<1>. QED
  BY <1>1, <1>2, <1>3, PTL DEF Spec
=============================================================================
