CONSTANTS
    x = x
    y = y
    cnt = cnt
    Exprs <- MC_Exprs
    Aggs <- MC_Aggs
    MaxItems = 2
    MaxKeys = 1
SPECIFICATION Spec
INVARIANT GroupKeyDescNullsLast
CHECK_DEADLOCK FALSE
