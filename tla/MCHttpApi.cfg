SPECIFICATION Spec
CONSTANTS
    Requests = {r1, r2}
    HasStore = TRUE
    Day = 2
    LastDay = 1
    None = None
INVARIANTS TypeOK EveryRequestIsCounted AnswersAreEarned WholeDays
SYMMETRY Symmetry
CHECK_DEADLOCK FALSE
