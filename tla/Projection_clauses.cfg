CONSTANTS
    x = x
    y = y
    cnt = cnt
    Exprs <- MC_Exprs
    Aggs <- MC_Aggs
    MaxItems = 3
    MaxKeys = 2
SPECIFICATION Spec
INVARIANTS SortGroupRefsUnique GroupKeyInheritsOrder GroupingMatchesItems SortMatchesOrderBy
SYMMETRY MC_Symmetry
CHECK_DEADLOCK FALSE
