CONSTANTS
    Callers = {c1}
    MaxRestarts = 2
    NULL = NULL
    RET_NO_ERROR = 0
    RET_BAD_PARAM = 2
    RET_BAD_STATUS = 3
    DEAD_OBJECT = 32
    JsCallbacks = {f1}
    MaxEvents = 1
SPECIFICATION Spec
INVARIANT NoNullProxyCall
