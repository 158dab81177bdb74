SPECIFICATION Spec
CONSTANTS
    Readers = {r1, r2, r3}
    LOCK_TTL = 3
    LOCK_WAIT = 1
    CACHE_TTL = 6
    NOT_FOUND_TTL = 5
    MaxHold = 4
    NULL = NULL
SYMMETRY Symmetry
INVARIANTS
    IInv
    LoadersAreApart
    AbsenceIsForgotten
