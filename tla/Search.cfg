SPECIFICATION SearchSpec
CONSTANTS
    Timer = {t1, t2, t3}
    NoTimer = noTimer
    Worker = {g1, g2}
    Prompt = FALSE
INVARIANTS DebouncerSound  QueryTrue
PROPERTY IndexedAgain
CHECK_DEADLOCK FALSE
