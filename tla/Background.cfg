SPECIFICATION BackgroundSpec
CONSTANTS
    Provider = {p1, p2}
    Instance = {m1, m2}
    Foreign = {m2}
    None = None
    Watch = {p1, p2}
    MaxNest = 2
    MaxChange = 1
    MaxStop = 1
    Overlap = TRUE
    m1 = m1
    m2 = m2
    s1 = s1
    s2 = s2
INVARIANT MountSound
PROPERTIES Fenced ScansTrue CatchesUp
