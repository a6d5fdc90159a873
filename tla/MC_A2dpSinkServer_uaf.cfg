CONSTANTS
    IpcThreads = {t1, t2}
    RemoteObservers = {o1, o2}
    NULL = NULL
SPECIFICATION Spec
INVARIANT NoCallbackIntoDestroyedServer
