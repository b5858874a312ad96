------------------------------ MODULE PacketPort ------------------------------
(***************************************************************************)
(* What the TAP device of the Windows driver promises the program that     *)
(* reads it: the packets it accepts are handed to the read requests that   *)
(* wait, oldest packet to oldest request, each packet at most once and     *)
(* each request at most one packet.  A packet may be refused when it       *)
(* arrives or discarded later, oldest first; a request may give up.        *)
(***************************************************************************)
EXTENDS Subsequences

CONSTANTS Packets, Requests

VARIABLES queue,    \* packets accepted and not handed out
          line,     \* requests waiting, in the order they came
          fate,     \* what became of each packet
          given     \* the packet each request was handed; a partial function

portVars == <<queue, line, fate, given>>

PortInit ==
  /\ queue = <<>> /\ line = <<>>
  /\ fate = [p \in Packets |-> "new"]
  /\ given \in [{} -> Packets]

Accept(p) ==
  /\ fate[p] = "new"
  /\ queue' = Append(queue, p)
  /\ fate' = [fate EXCEPT ![p] = "queued"]
  /\ UNCHANGED <<line, given>>

Refuse(p) ==
  /\ fate[p] = "new"
  /\ fate' = [fate EXCEPT ![p] = "refused"]
  /\ UNCHANGED <<queue, line, given>>

HandOut(r) ==
  /\ queue # <<>>
  /\ r \notin DOMAIN given
  /\ given' = [s \in DOMAIN given \cup {r} |-> IF s = r THEN Head(queue) ELSE given[s]]
  /\ fate' = [fate EXCEPT ![Head(queue)] = "taken"]
  /\ queue' = Tail(queue)

Join(r) ==
  /\ \A i \in 1 .. Len(line) : line[i] # r
  /\ r \notin DOMAIN given
  /\ line' = Append(line, r)
  /\ UNCHANGED <<queue, fate, given>>

Serve == line # <<>> /\ HandOut(Head(line)) /\ line' = Tail(line)

\* A request that finds nobody before it need not wait.
ServeNow(r) == line = <<>> /\ HandOut(r) /\ UNCHANGED line

Leave(r) ==
  /\ \E i \in 1 .. Len(line) : line[i] = r
  /\ line' = Keep(line, Requests \ {r})
  /\ UNCHANGED <<queue, fate, given>>

Discard ==
  /\ queue # <<>>
  /\ fate' = [fate EXCEPT ![Head(queue)] = "discarded"]
  /\ queue' = Tail(queue)
  /\ UNCHANGED <<line, given>>

PortNext ==
  \/ \E p \in Packets : Accept(p) \/ Refuse(p)
  \/ \E r \in Requests : Join(r) \/ ServeNow(r) \/ Leave(r)
  \/ Serve \/ Discard

PortSpec == PortInit /\ [][PortNext]_portVars
=============================================================================
