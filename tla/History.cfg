SPECIFICATION HistSpec
CONSTANTS
    Account = {a1, a2}
    Tx = {t1, t2}
    Lister = {l1, l2}
    MaxLists = 2
    MaxClicks = 5
    None = None
SYMMETRY Symmetry
INVARIANTS HistTypeOK OwnHistory NoUnsetEntry ErasedForGood ShownIsStored
CHECK_DEADLOCK FALSE
