SPECIFICATION ProcessesSpec
CONSTANTS
    Runner = {r1, r2}
    Async = FALSE
    Patient = FALSE
INVARIANT GroupSound
PROPERTIES  Returns ServicesRun 
CHECK_DEADLOCK FALSE
