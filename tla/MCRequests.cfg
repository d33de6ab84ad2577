SPECIFICATION Spec
CONSTANT
    Inputs <- MCInputs
INVARIANTS
    TypeOK
    LoopSurvives
    HandlerGetsItsOwn
    AnsweredAsAsked
CHECK_DEADLOCK FALSE
