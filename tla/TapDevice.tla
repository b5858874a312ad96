------------------------------ MODULE TapDevice ------------------------------
(***************************************************************************)
(* What tapcfg.h promises a caller that reads frames from a TAP interface: *)
(* while the interface is started the frames it receives are handed out    *)
(* whole, in order, each once and none missing.  Frames are numbered as    *)
(* they arrive at any interface of the host.                               *)
(***************************************************************************)
EXTENDS Integers, Sequences

VARIABLES open,     \* the interface is started
          count,    \* the number of frames that arrived so far
          pending,  \* the frames not handed out yet
          taken     \* the frames handed out

deviceVars == <<open, count, pending, taken>>

DeviceInit == open = FALSE /\ count = 0 /\ pending = <<>> /\ taken = <<>>

\* A frame that was fetched from the interface but not handed out survives
\* until the handle is destroyed.
Open == ~open /\ open' = TRUE /\ UNCHANGED <<count, pending, taken>>

Close ==
    /\ open /\ open' = FALSE
    /\ \/ pending' = <<>>
       \/ pending # <<>> /\ pending' = <<Head(pending)>>
    /\ UNCHANGED <<count, taken>>

Forget ==
    /\ ~open /\ pending' = <<>>
    /\ UNCHANGED <<open, count, taken>>

Arrive ==
    /\ open /\ count' = count + 1 /\ pending' = Append(pending, count')
    /\ UNCHANGED <<open, taken>>

\* A frame for another interface, or for none.
Miss == count' = count + 1 /\ UNCHANGED <<open, pending, taken>>

HandOut ==
    /\ open /\ pending # <<>>
    /\ taken' = Append(taken, Head(pending)) /\ pending' = Tail(pending)
    /\ UNCHANGED <<open, count>>

DeviceNext == Open \/ Close \/ Forget \/ Arrive \/ Miss \/ HandOut

DeviceSpec == DeviceInit /\ [][DeviceNext]_deviceVars

\* Frames are handed out in the order of their arrival and never twice.
InOrder == \A k, l \in 1 .. Len(taken) : k < l => taken[k] < taken[l]
=============================================================================
