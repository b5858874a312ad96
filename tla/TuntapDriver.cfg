\* Two threads and one sender; nothing is plumbed and no address is given.
CONSTANTS
    Threads = {t1, t2}
    Senders = {s1}
    QUEUE_SIZE = 1
    MAX_ATTACHED_PROTOS = 1
    Demuxes = {}
    Families = {}
    MaxBurst = 2
SPECIFICATION Spec
INVARIANTS TypeOK WaitersTold TornDown DeletedUnused
PROPERTIES CloseReturns
\* An extension that is unloaded, or failed to load, stays so.
CHECK_DEADLOCK FALSE
