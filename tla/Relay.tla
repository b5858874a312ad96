-------------------------------- MODULE Relay --------------------------------
(***************************************************************************)
(* What a tapserver promises its clients, without threads, locks, sockets  *)
(* or tables.  Frames to be relayed enter one log; each member is given    *)
(* some of them, in the order of the log and each at most once, and only   *)
(* while it is a member.  Frames for the TAP device come from members and  *)
(* every source's frames keep their order, none missing in between.        *)
(***************************************************************************)
EXTENDS Integers, Sequences, FiniteSets

CONSTANTS Clients,  \* those that may join
          Device,   \* the TAP device as a source of frames
          Lens      \* the sizes of frames

Sources == Clients \cup {Device}
Frames == [src : Sources, n : Nat, len : Lens]

VARIABLES members,  \* the clients being served
          log,      \* the frames taken for relaying, in order
          got,      \* for each client, the positions in log it was given
          up        \* the frames written to the device

relayVars == <<members, log, got, up>>

RelayTypeOK ==
    /\ members \subseteq Clients
    /\ log \in Seq(Frames) /\ up \in Seq(Frames)
    /\ got \in [Clients -> Seq(Nat)]

RelayInit ==
    /\ members = {} /\ log = <<>> /\ up = <<>>
    /\ got = [c \in Clients |-> <<>>]

FramesOf(s, seq) == Cardinality({k \in 1 .. Len(seq) : seq[k].src = s})

\* The next frame of a source.
NextFrame(s, len, seq) == [src |-> s, n |-> FramesOf(s, seq) + 1, len |-> len]

Join(c) ==
    /\ c \notin members /\ got[c] = <<>>
    /\ members' = members \cup {c}
    /\ UNCHANGED <<log, got, up>>

Leave(c) ==
    /\ c \in members
    /\ members' = members \ {c}
    /\ UNCHANGED <<log, got, up>>

Take(s, len) ==
    /\ s \in members \cup {Device}
    /\ log' = Append(log, NextFrame(s, len, log))
    /\ UNCHANGED <<members, got, up>>

\* Only the latest frame is ever given out.
Deliver(c) ==
    /\ c \in members /\ log # <<>>
    /\ got[c] = <<>> \/ got[c][Len(got[c])] < Len(log)
    /\ got' = [got EXCEPT ![c] = Append(@, Len(log))]
    /\ UNCHANGED <<members, log, up>>

Write(c, len) ==
    /\ c \in members
    /\ up' = Append(up, NextFrame(c, len, up))
    /\ UNCHANGED <<members, log, got>>

RelayNext ==
    \/ \E c \in Clients : Join(c) \/ Leave(c) \/ Deliver(c)
    \/ \E s \in Sources, len \in Lens : Take(s, len)
    \/ \E c \in Clients, len \in Lens : Write(c, len)

RelaySpec == RelayInit /\ [][RelayNext]_relayVars

\* A client is given positions of the log in strictly increasing order.
InLogOrder ==
    \A c \in Clients :
        /\ \A k \in 1 .. Len(got[c]) : got[c][k] \in 1 .. Len(log)
        /\ \A k, l \in 1 .. Len(got[c]) : k < l => got[c][k] < got[c][l]

\* Any two clients see the frames they have in common in the same order.
TotalOrder ==
    \A c, d \in Clients :
        \A i, j \in 1 .. Len(got[c]), k, l \in 1 .. Len(got[d]) :
            got[c][i] = got[d][k] /\ got[c][j] = got[d][l] => (i < j <=> k < l)
=============================================================================
