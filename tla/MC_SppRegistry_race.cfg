CONSTANTS
    Threads = {t1, t2}
    MaxCalls = 4
SPECIFICATION Spec
INVARIANT NoCrossTalk
