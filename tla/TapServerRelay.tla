--------------------------- MODULE TapServerRelay ---------------------------
(***************************************************************************)
(* TapServer implements Relay.  The history variable log records every     *)
(* frame that enters a dispatch loop: one the reader took from the device, *)
(* or, without a device, one the writer took from a client.                *)
(***************************************************************************)
EXTENDS TapServer

VARIABLE log

InitH == Init /\ log = <<>>

LogStep ==
    log' = CASE rpc = "wait" /\ rpc' = "lock" -> Append(log, rbuf')
             [] wpc = "body" /\ wpc' = "fsize" -> Append(log, wbuf')
             [] OTHER -> log

SpecH == InitH /\ [][Next /\ LogStep]_<<vars, log>>

\* The payloads a client was sent, every second chunk, as positions in the log.
Position(f) == CHOOSE k \in 1 .. Len(log) : log[k] = f
Positions(c) == [k \in 1 .. Len(out[c]) \div 2 |-> Position(out[c][2 * k].frame)]

R == INSTANCE Relay WITH
        Clients <- Conns, Device <- Dev, Lens <- PeerLens \cup DevLens,
        members <- Entries,
        got <- [c \in Conns |-> Positions(c)], up <- devout

\* The server relays: its clients get the frames of one log in its order, each
\* at most once and only while they are in the table, and the device gets
\* every client's frames in order, whatever the threads, the table's
\* compaction and the failing peers do.
ImplementsRelay == R!RelaySpec
=============================================================================
