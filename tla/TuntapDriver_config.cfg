\* One thread, no sender; a table of protocols that IP fills, and addresses of two
\* families.
CONSTANTS
    Threads = {t1}
    Senders = {}
    QUEUE_SIZE = 1
    MAX_ATTACHED_PROTOS = 2
    Demuxes <- DemuxesDef
    Families = {"inet", "inet6"}
    MaxBurst = 1
SPECIFICATION Spec
INVARIANTS TornDown OneTaker
\* An extension that is unloaded, or failed to load, stays so.
CHECK_DEADLOCK FALSE
