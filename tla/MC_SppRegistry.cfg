CONSTANTS
    Threads = {t1}
    MaxCalls = 6
SPECIFICATION Spec
INVARIANT TypeOK
INVARIANT IdsAddressOwnSocket
PROPERTY ImplementsHandles
