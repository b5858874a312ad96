-------------------------- MODULE WinTapDriverProofs --------------------------
(***************************************************************************)
(* The packet path and the life of the Windows driver, for any number of   *)
(* packets, reads and programs and queues of any capacity.                 *)
(***************************************************************************)
EXTENDS WinTapDriver, TapQueueProofs

PktElems == Elems(PacketCap, pktq)
IrpElems == Elems(IrpCap, irpq)

\* A transmit, or a flush, took the IRP off its queue and is about to complete it.
Paired(r) == \E p \in Packets : tx[p] = "complete" /\ pair[p][1] = r
Popped(r) == \E f \in Flushers : popped[f] = r
InHand(r) == Paired(r) \/ Popped(r)

\* The queues are queues; IRPs are queued by reads that pended, packets by
\* transmits that are past their push.
QueuesInv ==
  /\ QueueOK(Packets, PacketCap, pktq) /\ QueueOK(Irps, IrpCap, irpq)
  /\ \A r \in IrpElems : rd[r] = "pended"
  /\ \A p \in PktElems : tx[p] \notin {"new", "push"}

\* What a transmit took is its own.
PairInv ==
  /\ \A p \in Packets : pair[p] # <<>> <=> tx[p] = "complete"
  /\ \A p \in Packets : tx[p] = "complete" =>
       rd[pair[p][1]] = "pended" /\ pair[p][1] \notin IrpElems
  /\ \A p, o \in Packets : tx[p] = "complete" /\ tx[o] = "complete" /\ pair[p][1] = pair[o][1]
                             => p = o

\* What a flush popped is its own.
PopInv ==
  /\ \A f \in Flushers : popped[f] # None =>
       /\ rd[popped[f]] = "pended"
       /\ popped[f] \notin IrpElems /\ ~Paired(popped[f])
  /\ \A f, g \in Flushers : popped[f] # None /\ popped[f] = popped[g] => f = g

\* Where an IRP is and how it was completed agree, but for a blind cancel.
StatusInv ==
  \A r \in Irps :
    /\ rd[r] \in {"new", "pop", "pend"} => status[r] = None
    /\ rd[r] = "pended" => r \in IrpElems \/ InHand(r) \/ status[r] # None
    /\ status[r] # None /\ r \notin blind => r \notin IrpElems /\ ~InHand(r)
    /\ r \in blind => rd[r] = "pended" /\ status[r] # None

\* Only a pended IRP is cancelled.
CancelInv ==
  \A r \in Irps :
    /\ r \in armed => r \in IrpElems \/ InHand(r)
    /\ cx[r] # "no" => rd[r] = "pended"
    /\ cx[r] = "done" => status[r] # None \/ InHand(r)

\* The halt cleared m_TapOpens.
Cleared == life \in {"flag", "sleep1", "flush", "drain", "sleep2", "free", "remove",
                     "halted", "unloaded", "bugcheck"}

\* The mutex, m_TapOpens and the handles agree, m_TapOpens until the halt clears it.
MutexInv ==
  \A h \in Handles : hd[h] \in {"test", "retest", "set", "flush", "drain"} <=> mutex = h

OpensInv == ~Cleared => (opens = 1 <=> \E h \in Handles : hd[h] \in {"open", "close"})

\* The halt catches a create between its tests only when it clears m_TapOpens:
\* later ones find m_TapIsRunning cleared.
SlipInv ==
  /\ slipped # {} => Cleared
  /\ life \in {"opens", "flag", "sleep1"} => ~tapRunning
  /\ life \in {"flag", "sleep1"} => \A h \in Handles : hd[h] = "retest" => h \in slipped
  /\ \A r \in Irps : of[r] \in Handles => hd[of[r]] \in {"open", "close", "flush", "drain", "closed"}

\* No packet of a closed device is on its way but those the close saw.
LateInv ==
  ~halt /\ (\A h \in Handles : ~Owner(h)) =>
    PktElems \cup {p \in Packets : tx[p] = "push"} \subseteq late

\* The life of the adapter.
LifeInv ==
  /\ life \in {"start", "loaded", "configure", "tapname", "linkname", "device", "queues",
               "add", "failed"} => ~listed /\ ~halt
  /\ life \in {"up", "halt", "opens", "flag"} => listed /\ ~halt
  /\ life \in {"sleep1", "flush", "drain", "sleep2", "free", "remove", "bugcheck"} => listed /\ halt
  /\ life \in {"halted", "unloaded"} => ~listed
  /\ life = "halted" => halt
  /\ life = "up" /\ power = 0 => ifRunning
  /\ life \in {"halt", "opens", "flag"} => ~ifRunning
  /\ ~listed /\ ~halt => \A h \in Handles : hd[h] = "none"

\* What each part of the life may hold.
HeldInv ==
  /\ life = "start" => held = {}
  /\ life \notin {"start", "unloaded"} => "list" \in held
  /\ life \in {"loaded", "failed", "remove"} => held \subseteq {"list", "adapter"}
  /\ life = "configure" => held \subseteq {"list", "adapter", "mclock", "shutdown"}
  /\ life = "halted" => held = {"list"}
  /\ life = "unloaded" => held \subseteq {"adapter"}
  /\ life \notin {"failed", "remove", "halted", "unloaded", "bugcheck"} =>
       frees["tap"] = 0 /\ frees["adapter"] = 0

\* Calls may be in progress.
Busy == life \in {"up", "halt", "opens", "flag", "sleep1"}

\* After the first sleep of the halt no call is in progress, after each part of the
\* flush its queue is empty, after the second sleep no cancel is in progress.
QuietInv ==
  /\ ~Busy =>
       /\ \A p \in Packets : tx[p] \notin {"push", "match", "complete"}
       /\ \A r \in Irps : rd[r] \notin {"pop", "pend"}
       /\ \A h \in Handles :
            hd[h] \notin {"create", "test", "retest", "set", "close", "flush", "drain"}
  /\ ~Busy /\ life # "flush" => irpq.size = 0
  /\ ~Busy /\ life \notin {"flush", "drain"} => pktq.size = 0
  /\ ~Busy /\ life \notin {"flush", "drain", "sleep2"} => \A r \in Irps : cx[r] # "called"

\* Only a flush has an IRP that was popped.
FlushersInv ==
  /\ \A h \in Handles : popped[h] # None => hd[h] = "flush"
  /\ popped[None] # None => life = "flush"

PathInv == QueuesInv /\ PairInv /\ PopInv /\ StatusInv /\ CancelInv /\ CompletedOnce
AdapterInv == LifeInv /\ HeldInv /\ QuietInv
HandleInv == MutexInv /\ OpensInv /\ SlipInv /\ OneOwner /\ LateInv

\* The inductive invariant: what the packet path, the adapter's life and the
\* handles know of each other.
IInv == TypeOK /\ PathInv /\ AdapterInv /\ FlushersInv /\ HandleInv /\ IdlePairsAreLate

-----------------------------------------------------------------------------

LEMMA Caps == PacketCap \in Nat \ {0} /\ IrpCap \in Nat \ {0} /\ MaxPower \in Nat
              /\ None \notin Packets /\ None \notin Irps /\ None \notin Handles
              /\ None \notin {"answered", "cancelled", "failed"}
BY DriverAssumption

LEMMA QueueFacts ==
    ASSUME QueuesInv
    PROVE  /\ PktElems \subseteq Packets /\ IrpElems \subseteq Irps
           /\ (\E x : x \in PktElems) <=> (pktq.size > 0)
           /\ (\E x : x \in IrpElems) <=> (irpq.size > 0)
           /\ pktq.size \in 0 .. PacketCap /\ irpq.size \in 0 .. IrpCap
<1>1. QueueOK(Packets, PacketCap, pktq) /\ QueueOK(Irps, IrpCap, irpq)
  BY DEF QueuesInv
<1>2. /\ PktElems \subseteq Packets
      /\ (\E x : x \in PktElems) <=> (pktq.size > 0)
      /\ pktq.size \in 0 .. PacketCap
  BY <1>1, Caps, ElemsOfQueue DEF PktElems
<1>3. /\ IrpElems \subseteq Irps
      /\ (\E x : x \in IrpElems) <=> (irpq.size > 0)
      /\ irpq.size \in 0 .. IrpCap
  BY <1>1, Caps, ElemsOfQueue DEF IrpElems
<1> QED
  BY <1>2, <1>3

\* The part of TypeOK the packet path rests on.
LEMMA PathTypes ==
    ASSUME TypeOK
    PROVE  /\ tx \in [Packets -> {"new", "push", "match", "complete", "done"}]
           /\ pair \in [Packets -> (Irps \X Packets) \cup {<<>>}]
           /\ rd \in [Irps -> {"new", "pop", "pend", "pended", "done"}]
           /\ armed \subseteq Irps
           /\ cx \in [Irps -> {"no", "called", "done"}]
           /\ status \in [Irps -> {None, "answered", "cancelled", "failed"}]
           /\ popped \in [Flushers -> Irps \cup {None}]
BY DEF TypeOK

LEMMA PathFrame ==
    ASSUME PathInv, UNCHANGED <<queueVars, tx, pair, rd, popped, irpVars>>
    PROVE  PathInv'
BY DEF PathInv, queueVars, irpVars, QueuesInv, PairInv, PopInv, StatusInv, CancelInv,
       CompletedOnce, PktElems, IrpElems, InHand, Paired, Popped

\* Where neither the transmits nor the flushes move, every IRP stays in their hands.
LEMMA HandsFrame ==
    ASSUME UNCHANGED <<tx, pair, popped>>
    PROVE  \A x : (Paired(x)' <=> Paired(x)) /\ (InHand(x)' <=> InHand(x))
BY DEF InHand, Paired, Popped

\* What a flush holds stays out of the queue and of the transmits' hands.
LEMMA PopFrame ==
    ASSUME PopInv, UNCHANGED <<popped, rd>>, IrpElems' \subseteq IrpElems,
           \A x : Paired(x)' => Paired(x)
    PROVE  PopInv'
BY DEF PopInv

LEMMA TransmitCheckPath ==
    ASSUME TypeOK, PathInv, NEW p \in Packets, TransmitCheck(p)
    PROVE  PathInv'
<1>1. /\ tx[p] = "new" /\ UNCHANGED <<pktq, irpq, pair, rd, popped, armed, cx, status, again, blind>>
      /\ \A o \in Packets : tx'[o] = IF o = p THEN tx'[p] ELSE tx[o]
      /\ tx'[p] \in {"done", "push"}
  BY PathTypes DEF TransmitCheck, openVars, queueVars, readVars, irpVars
<1>2. PktElems' = PktElems /\ IrpElems' = IrpElems
  BY <1>1 DEF PktElems, IrpElems
<1>3. p \notin PktElems
  BY <1>1 DEF PathInv, QueuesInv
<1>4. \A r : (Paired(r)' <=> Paired(r)) /\ (InHand(r)' <=> InHand(r))
  BY <1>1 DEF InHand, Paired, Popped
<1>5. QueuesInv' /\ PairInv'
  BY <1>1, <1>2, <1>3, QueueFacts DEF PathInv, QueuesInv, PairInv
<1>6. StatusInv' /\ CancelInv' /\ CompletedOnce'
  BY <1>1, <1>2, <1>4 DEF PathInv, StatusInv, CancelInv, CompletedOnce
<1>7. PopInv'
  BY <1>1, <1>2, <1>4, PopFrame DEF PathInv
<1> QED
  BY <1>5, <1>6, <1>7 DEF PathInv

LEMMA TransmitPushPath ==
    ASSUME TypeOK, PathInv, NEW p \in Packets, TransmitPush(p)
    PROVE  PathInv'
<1>1. /\ tx[p] = "push" /\ UNCHANGED <<irpq, pair, rd, popped, armed, cx, status, again, blind>>
      /\ \A o \in Packets : tx'[o] = IF o = p THEN tx'[p] ELSE tx[o]
      /\ tx'[p] \in {"done", "match"}
  BY PathTypes DEF TransmitPush, openVars, queueVars, readVars, irpVars
<1>2. p \notin PktElems
  BY <1>1 DEF PathInv, QueuesInv
<1>3. /\ QueueOK(Packets, PacketCap, pktq')
      /\ PktElems' \subseteq PktElems \cup {p} /\ IrpElems' = IrpElems
  <2>1. CASE IsUp /\ ~QueueFull(PacketCap, pktq)
    <3>1. pktq' = QueuePush(PacketCap, pktq, p)
      BY <2>1 DEF TransmitPush
    <3>2. QueueOK(Packets, PacketCap, pktq)
      BY DEF PathInv, QueuesInv
    <3>3. p \notin Elems(PacketCap, pktq)
      BY <1>2 DEF PktElems
    <3>5. ~QueueFull(PacketCap, pktq)
      BY <2>1
    <3>4. /\ QueueOK(Packets, PacketCap, pktq')
          /\ Elems(PacketCap, pktq') = Elems(PacketCap, pktq) \cup {p}
      BY <3>1, <3>2, <3>3, <3>5, Caps, PushElems
    <3> QED
      BY <1>1, <3>4 DEF PktElems, IrpElems
  <2>2. CASE ~(IsUp /\ ~QueueFull(PacketCap, pktq))
    BY <1>1, <2>2 DEF TransmitPush, PktElems, IrpElems, PathInv, QueuesInv
  <2> QED
    BY <2>1, <2>2
<1>4. QueuesInv'
  BY <1>1, <1>3, QueueFacts DEF QueuesInv, PathInv
<1>5. \A r : (Paired(r)' <=> Paired(r)) /\ (InHand(r)' <=> InHand(r))
  BY <1>1 DEF InHand, Paired, Popped
<1>6. PairInv'
  BY <1>1, <1>3 DEF PairInv, PathInv
<1>7. StatusInv' /\ CancelInv' /\ CompletedOnce'
  BY <1>1, <1>3, <1>5 DEF PathInv, StatusInv, CancelInv, CompletedOnce
<1>8. PopInv'
  BY <1>1, <1>3, <1>5, PopFrame DEF PathInv
<1> QED
  BY <1>4, <1>6, <1>7, <1>8 DEF PathInv

\* What taking the oldest IRP or packet off its queue does.
LEMMA PopIrp ==
    ASSUME QueuesInv, irpq.size > 0, irpq' = QueuePop(IrpCap, irpq)
    PROVE  /\ QueueOK(Irps, IrpCap, irpq') /\ Oldest(irpq) \in IrpElems
           /\ Oldest(irpq) \in Irps
           /\ IrpElems' = IrpElems \ {Oldest(irpq)}
           /\ irpq'.size = irpq.size - 1
<1>1. QueueOK(Irps, IrpCap, irpq)
  BY DEF QueuesInv
<1>2. /\ QueueOK(Irps, IrpCap, irpq')
      /\ Oldest(irpq) \in Elems(IrpCap, irpq)
      /\ Elems(IrpCap, irpq') = Elems(IrpCap, irpq) \ {Oldest(irpq)}
      /\ irpq'.size = irpq.size - 1
  BY <1>1, Caps, PopElems
<1> QED
  BY <1>2, QueueFacts DEF IrpElems

LEMMA PopPacket ==
    ASSUME QueuesInv, pktq.size > 0, pktq' = QueuePop(PacketCap, pktq)
    PROVE  /\ QueueOK(Packets, PacketCap, pktq') /\ Oldest(pktq) \in PktElems
           /\ Oldest(pktq) \in Packets
           /\ PktElems' = PktElems \ {Oldest(pktq)}
           /\ pktq'.size = pktq.size - 1
<1>1. QueueOK(Packets, PacketCap, pktq)
  BY DEF QueuesInv
<1>2. /\ QueueOK(Packets, PacketCap, pktq')
      /\ Oldest(pktq) \in Elems(PacketCap, pktq)
      /\ Elems(PacketCap, pktq') = Elems(PacketCap, pktq) \ {Oldest(pktq)}
      /\ pktq'.size = pktq.size - 1
  BY <1>1, Caps, PopElems
<1> QED
  BY <1>2, QueueFacts DEF PktElems

\* Completing an IRP.
LEMMA Completing ==
    ASSUME TypeOK, NEW r \in Irps, NEW how \in {"answered", "cancelled", "failed"},
           IoComplete(r, how)
    PROVE  /\ armed' = armed \ {r} /\ blind' = blind
           /\ status' \in [Irps -> {None, "answered", "cancelled", "failed"}]
           /\ status'[r] # None
           /\ \A x \in Irps : x # r => status'[x] = status[x]
           /\ again' \subseteq again \cup {r}
           /\ status[r] = None => again' = again
<1>1. /\ armed' = armed \ {r} /\ blind' = blind
      /\ status' = [status EXCEPT ![r] = IF @ = None THEN how ELSE @]
      /\ again' = IF status[r] = None THEN again ELSE again \cup {r}
  BY DEF IoComplete
<1> QED
  BY <1>1, PathTypes, Caps

LEMMA TransmitMatchPath ==
    ASSUME TypeOK, PathInv, NEW p \in Packets, TransmitMatch(p)
    PROVE  PathInv'
<1>1. /\ tx[p] = "match" /\ UNCHANGED <<rd, popped, armed, cx, status, again, blind>>
      /\ \A o \in Packets : o # p => tx'[o] = tx[o] /\ pair'[o] = pair[o]
  BY PathTypes DEF TransmitMatch, openVars, readVars, irpVars
<1>2. CASE IsUp /\ pktq.size > 0 /\ irpq.size > 0
  <2> DEFINE r == Oldest(irpq)
  <2>1. /\ pair' = [pair EXCEPT ![p] = <<r, Oldest(pktq)>>]
        /\ irpq' = QueuePop(IrpCap, irpq) /\ pktq' = QueuePop(PacketCap, pktq)
        /\ tx'[p] = "complete"
    BY <1>2, PathTypes DEF TransmitMatch
  <2>2. /\ QueueOK(Irps, IrpCap, irpq') /\ QueueOK(Packets, PacketCap, pktq')
        /\ r \in IrpElems /\ IrpElems' = IrpElems \ {r} /\ PktElems' \subseteq PktElems
        /\ r \in Irps
    BY <1>2, <2>1, PopIrp, PopPacket DEF PathInv
  <2>3. pair'[p][1] = r /\ pair'[p] # <<>>
    BY <2>1, PathTypes
  <2> HIDE DEF r
  <2>4. \A x : Paired(x)' <=> Paired(x) \/ x = r
    BY <1>1, <2>1, <2>3 DEF Paired
  <2>9. \A x : InHand(x)' <=> InHand(x) \/ x = r
    BY <1>1, <2>4 DEF InHand, Popped
  <2>5. ~Paired(r) /\ rd[r] = "pended" /\ \A f \in Flushers : popped[f] # r
    BY <2>2, Caps DEF PathInv, PairInv, PopInv, Paired, QueuesInv
  <2>6. QueuesInv'
    BY <1>1, <2>1, <2>2, QueueFacts DEF PathInv, QueuesInv
  <2>7. PairInv'
    BY <1>1, <2>1, <2>2, <2>3, <2>5 DEF PathInv, PairInv, Paired
  <2>8. StatusInv' /\ CancelInv' /\ CompletedOnce'
    BY <1>1, <2>2, <2>9, <2>5 DEF PathInv, StatusInv, CancelInv, CompletedOnce
  <2>10. PopInv'
    BY <1>1, <2>2, <2>4, <2>5 DEF PathInv, PopInv
  <2> QED
    BY <2>6, <2>7, <2>8, <2>10 DEF PathInv
<1>3. CASE ~(IsUp /\ pktq.size > 0 /\ irpq.size > 0)
  <2>1. UNCHANGED <<pair, irpq, pktq>> /\ tx'[p] = "done"
    BY <1>3, PathTypes DEF TransmitMatch, queueVars
  <2>2. PktElems' = PktElems /\ IrpElems' = IrpElems
    BY <2>1 DEF PktElems, IrpElems
  <2>3. \A x : (Paired(x)' <=> Paired(x)) /\ (InHand(x)' <=> InHand(x))
    BY <1>1, <2>1 DEF InHand, Paired, Popped
  <2>4. QueuesInv' /\ PairInv'
    BY <1>1, <2>1, <2>2, QueueFacts DEF PathInv, QueuesInv, PairInv
  <2>5. StatusInv' /\ CancelInv' /\ CompletedOnce'
    BY <1>1, <2>2, <2>3 DEF PathInv, StatusInv, CancelInv, CompletedOnce
  <2>6. PopInv'
    BY <1>1, <2>2, <2>3, PopFrame DEF PathInv
  <2> QED
    BY <2>4, <2>5, <2>6 DEF PathInv
<1> QED
  BY <1>2, <1>3

LEMMA TransmitCompletePath ==
    ASSUME TypeOK, PathInv, NEW p \in Packets, TransmitComplete(p)
    PROVE  PathInv'
<1> DEFINE r == pair[p][1]
<1>1. /\ tx[p] = "complete" /\ UNCHANGED <<pktq, irpq, rd, cx, popped>>
      /\ tx' = [tx EXCEPT ![p] = "match"] /\ pair' = [pair EXCEPT ![p] = <<>>]
      /\ IoComplete(r, "answered")
  BY DEF TransmitComplete, CompleteIRP, openVars, queueVars, readVars
<1>2. pair[p] \in Irps \X Packets
  BY <1>1, PathTypes DEF PathInv, PairInv
<1>3. r \in Irps /\ Paired(r) /\ r \notin IrpElems /\ rd[r] = "pended"
  BY <1>1, <1>2 DEF Paired, PathInv, PairInv
<1> HIDE DEF r
<1>4. /\ armed' = armed \ {r} /\ blind' = blind
      /\ status'[r] # None /\ \A x \in Irps : x # r => status'[x] = status[x]
      /\ again' \subseteq again \cup {r}
      /\ status[r] = None => again' = again
  BY <1>1, <1>3, Completing
<1>5. PktElems' = PktElems /\ IrpElems' = IrpElems
  BY <1>1 DEF PktElems, IrpElems
<1>6. /\ tx'[p] = "match" /\ pair'[p] = <<>>
      /\ \A o \in Packets : o # p => tx'[o] = tx[o] /\ pair'[o] = pair[o]
  BY <1>1, PathTypes
<1>7. \A x : Paired(x)' <=> Paired(x) /\ x # r
  BY <1>1, <1>6 DEF Paired, PathInv, PairInv, r
<1>13. ~Popped(r)
  BY <1>3, Caps DEF PathInv, PopInv, Popped
<1>14. \A x : InHand(x)' <=> InHand(x) /\ x # r
  BY <1>1, <1>7, <1>13 DEF InHand, Popped
<1>8. QueuesInv'
  BY <1>1, <1>5, <1>6, QueueFacts DEF PathInv, QueuesInv
<1>9. PairInv'
  BY <1>1, <1>5, <1>6 DEF PathInv, PairInv
<1>15. PopInv'
  BY <1>1, <1>5, <1>7, PopFrame DEF PathInv
<1>16. InHand(r)
  BY <1>3 DEF InHand
<1>10. StatusInv'
  BY <1>1, <1>3, <1>4, <1>5, <1>14, <1>16 DEF PathInv, StatusInv
<1>11. CancelInv'
  BY <1>1, <1>3, <1>4, <1>5, <1>14 DEF PathInv, CancelInv
<1>12. CompletedOnce'
  BY <1>3, <1>4, <1>16 DEF PathInv, CompletedOnce, StatusInv
<1> QED
  BY <1>8, <1>9, <1>10, <1>11, <1>12, <1>15 DEF PathInv

\* A read that has not pended is on no queue, with no transmit, and not complete.
LEMMA ReadOnItsWay ==
    ASSUME PathInv, NEW r \in Irps, rd[r] \in {"new", "pop", "pend"}
    PROVE  /\ r \notin IrpElems /\ ~Paired(r) /\ ~InHand(r) /\ r \notin armed /\ r \notin blind
           /\ status[r] = None /\ cx[r] = "no" /\ \A f \in Flushers : popped[f] # r
<1>1. rd[r] # "pended"
  OBVIOUS
<1>2. r \notin IrpElems /\ ~Paired(r)
  BY <1>1 DEF PathInv, QueuesInv, PairInv, Paired
<1>3. \A f \in Flushers : popped[f] # r
  BY <1>1, Caps DEF PathInv, PopInv
<1>4. ~InHand(r)
  BY <1>2, <1>3 DEF InHand, Popped
<1> QED
  BY <1>1, <1>2, <1>3, <1>4 DEF PathInv, StatusInv, CancelInv

\* A read that has not pended ends, completed, or goes on.
LEMMA ReadGoesOn ==
    ASSUME TypeOK, PathInv, NEW r \in Irps, rd[r] \in {"new", "pop", "pend"},
           UNCHANGED <<irpq, tx, pair, cx, popped>>,
           QueueOK(Packets, PacketCap, pktq'), PktElems' \subseteq PktElems,
           \/ /\ rd' = [rd EXCEPT ![r] = "done"]
              /\ \E how \in {"failed", "answered"} : IoComplete(r, how)
           \/ /\ \E pc \in {"pop", "pend"} : rd' = [rd EXCEPT ![r] = pc]
              /\ UNCHANGED <<armed, status, again, blind>>
    PROVE  PathInv'
<1>1. /\ r \notin IrpElems /\ ~Paired(r) /\ ~InHand(r) /\ r \notin armed /\ r \notin blind
      /\ status[r] = None /\ cx[r] = "no" /\ \A f \in Flushers : popped[f] # r
  BY ReadOnItsWay
<1>2. /\ armed' = armed /\ blind' = blind /\ again' = again
      /\ \A x \in Irps : x # r => status'[x] = status[x]
      /\ rd'[r] \in {"pop", "pend"} => status'[r] = None
  <2>1. CASE /\ rd' = [rd EXCEPT ![r] = "done"]
             /\ \E how \in {"failed", "answered"} : IoComplete(r, how)
    <3>1. rd'[r] = "done"
      BY <2>1, PathTypes
    <3>2. PICK how \in {"failed", "answered"} : IoComplete(r, how)
      BY <2>1
    <3>3. /\ armed' = armed \ {r} /\ blind' = blind /\ again' = again
          /\ \A x \in Irps : x # r => status'[x] = status[x]
      BY <1>1, <3>2, Completing
    <3> QED
      BY <1>1, <3>1, <3>3
  <2>2. CASE UNCHANGED <<armed, status, again, blind>>
    BY <1>1, <2>2
  <2> QED
    BY <2>1, <2>2
<1>3. /\ rd'[r] \in {"done", "pop", "pend"}
      /\ \A x \in Irps : x # r => rd'[x] = rd[x]
  BY PathTypes
<1>4. /\ IrpElems' = IrpElems
      /\ \A x : (Paired(x)' <=> Paired(x)) /\ (InHand(x)' <=> InHand(x))
  BY HandsFrame DEF IrpElems
<1>5. QueuesInv'
  BY <1>1, <1>3, <1>4, QueueFacts DEF PathInv, QueuesInv
<1>6. PairInv'
  <2>1. \A p \in Packets : tx[p] = "complete" => pair[p][1] # r
    BY <1>1 DEF Paired
  <2>2. \A p \in Packets : tx[p] = "complete" => pair[p][1] \in Irps
    BY PathTypes DEF PathInv, PairInv
  <2> QED
    BY <1>3, <1>4, <2>1, <2>2 DEF PathInv, PairInv
<1>8. PopInv'
  <2>1. \A f \in Flushers : popped[f] # None => popped[f] \in Irps /\ popped[f] # r
    BY <1>1, PathTypes
  <2> QED
    BY <1>3, <1>4, <2>1 DEF PathInv, PopInv
<1>7. StatusInv' /\ CancelInv' /\ CompletedOnce'
  BY <1>1, <1>2, <1>3, <1>4 DEF PathInv, StatusInv, CancelInv, CompletedOnce
<1> QED
  BY <1>5, <1>6, <1>7, <1>8 DEF PathInv

LEMMA ReadCallPath ==
    ASSUME TypeOK, PathInv, NEW h \in Handles, NEW r \in Irps, ReadCall(h, r)
    PROVE  PathInv'
<1>1. /\ rd[r] = "new" /\ UNCHANGED <<pktq, irpq, tx, pair, cx, popped>>
      /\ \/ rd' = [rd EXCEPT ![r] = "done"] /\ IoComplete(r, "failed")
         \/ rd' = [rd EXCEPT ![r] = "pop"] /\ UNCHANGED <<armed, status, again, blind>>
  BY DEF ReadCall, openVars, queueVars, sendVars
<1>2. PktElems' = PktElems /\ QueueOK(Packets, PacketCap, pktq')
  BY <1>1 DEF PktElems, PathInv, QueuesInv
<1> QED
  BY <1>1, <1>2, ReadGoesOn

LEMMA ReadPopPath ==
    ASSUME TypeOK, PathInv, NEW r \in Irps, ReadPop(r)
    PROVE  PathInv'
<1>1. /\ rd[r] = "pop" /\ UNCHANGED <<irpq, tx, pair, cx, popped>>
      /\ \/ rd' = [rd EXCEPT ![r] = "done"] /\ IoComplete(r, "answered")
         \/ rd' = [rd EXCEPT ![r] = "pend"] /\ UNCHANGED <<armed, status, again, blind>>
      /\ \/ pktq.size > 0 /\ pktq' = QueuePop(PacketCap, pktq)
         \/ pktq' = pktq
  BY DEF ReadPop, CompleteIRP, openVars, sendVars
<1>2. PktElems' \subseteq PktElems /\ QueueOK(Packets, PacketCap, pktq')
  BY <1>1, PopPacket DEF PktElems, PathInv, QueuesInv
<1> QED
  BY <1>1, <1>2, ReadGoesOn

LEMMA ReadPendPath ==
    ASSUME TypeOK, PathInv, NEW r \in Irps, ReadPend(r)
    PROVE  PathInv'
<1>1. rd[r] = "pend" /\ UNCHANGED <<pktq, tx, pair, cx, popped>>
  BY DEF ReadPend, openVars, sendVars
<1>2. PktElems' = PktElems /\ QueueOK(Packets, PacketCap, pktq')
  BY <1>1 DEF PktElems, PathInv, QueuesInv
<1>3. CASE IsUp /\ ~QueueFull(IrpCap, irpq)
  <2>1. /\ irpq' = QueuePush(IrpCap, irpq, r) /\ armed' = armed \cup {r}
        /\ rd' = [rd EXCEPT ![r] = "pended"] /\ UNCHANGED <<status, again, blind>>
        /\ ~QueueFull(IrpCap, irpq)
    BY <1>3 DEF ReadPend
  <2>2. /\ r \notin IrpElems /\ ~Paired(r) /\ ~InHand(r) /\ r \notin armed /\ r \notin blind
        /\ status[r] = None /\ cx[r] = "no" /\ \A f \in Flushers : popped[f] # r
    BY <1>1, ReadOnItsWay
  <2>3. /\ QueueOK(Irps, IrpCap, irpq')
        /\ IrpElems' = IrpElems \cup {r}
    <3>1. QueueOK(Irps, IrpCap, irpq) /\ r \notin Elems(IrpCap, irpq)
      BY <2>2 DEF PathInv, QueuesInv, IrpElems
    <3> QED
      BY <2>1, <3>1, Caps, PushElems DEF IrpElems
  <2>4. \A x : (Paired(x)' <=> Paired(x)) /\ (InHand(x)' <=> InHand(x))
    BY <1>1, HandsFrame
  <2>5. rd'[r] = "pended" /\ \A x \in Irps : x # r => rd'[x] = rd[x]
    BY <2>1, PathTypes
  <2>6. QueuesInv'
    BY <1>1, <1>2, <2>3, <2>5, QueueFacts DEF PathInv, QueuesInv
  <2>7. PairInv'
    <3>1. \A p \in Packets : tx[p] = "complete" => pair[p][1] # r
      BY <2>2 DEF Paired
    <3>2. \A p \in Packets : tx[p] = "complete" => pair[p][1] \in Irps
      BY PathTypes DEF PathInv, PairInv
    <3> QED
      BY <1>1, <2>3, <2>5, <3>1, <3>2 DEF PathInv, PairInv
  <2>9. PopInv'
    <3>1. \A f \in Flushers : popped[f] # None => popped[f] \in Irps /\ popped[f] # r
      BY <2>2, PathTypes
    <3> QED
      BY <1>1, <2>3, <2>4, <2>5, <3>1 DEF PathInv, PopInv
  <2>8. StatusInv' /\ CancelInv' /\ CompletedOnce'
    BY <1>1, <2>1, <2>2, <2>3, <2>4, <2>5 DEF PathInv, StatusInv, CancelInv, CompletedOnce
  <2> QED
    BY <2>6, <2>7, <2>8, <2>9 DEF PathInv
<1>4. CASE ~(IsUp /\ ~QueueFull(IrpCap, irpq))
  <2>1. rd' = [rd EXCEPT ![r] = "done"] /\ IoComplete(r, "failed") /\ irpq' = irpq
    BY <1>4 DEF ReadPend
  <2> QED
    BY <1>1, <1>2, <2>1, ReadGoesOn
<1> QED
  BY <1>3, <1>4

LEMMA FlushPopPath ==
    ASSUME TypeOK, PathInv, NEW f \in Flushers, FlushPop(f)
    PROVE  PathInv'
<1> DEFINE r == Oldest(irpq)
<1>1. /\ popped[f] = None /\ irpq.size > 0 /\ irpq' = QueuePop(IrpCap, irpq)
      /\ popped' = [popped EXCEPT ![f] = r]
      /\ UNCHANGED <<pktq, tx, pair, rd, armed, cx, status, again, blind>>
  BY DEF FlushPop, sendVars, readVars, irpVars
<1>2. /\ QueueOK(Irps, IrpCap, irpq') /\ r \in IrpElems /\ r \in Irps
      /\ IrpElems' = IrpElems \ {r}
  BY <1>1, PopIrp DEF PathInv
<1> HIDE DEF r
<1>3. popped'[f] = r /\ \A g \in Flushers : g # f => popped'[g] = popped[g]
  BY <1>1, PathTypes
<1>4. PktElems' = PktElems /\ \A x : Paired(x)' <=> Paired(x)
  BY <1>1 DEF PktElems, Paired
<1>5. rd[r] = "pended" /\ ~Paired(r) /\ \A g \in Flushers : popped[g] # r
  BY <1>2, Caps DEF PathInv, QueuesInv, PairInv, PopInv, Paired
<1>6. \A x \in Irps : InHand(x)' <=> InHand(x) \/ x = r
  BY <1>1, <1>3, <1>4, Caps DEF InHand, Popped
<1>7. QueuesInv' /\ PairInv'
  BY <1>1, <1>2, <1>4 DEF PathInv, QueuesInv, PairInv
<1>8. PopInv'
  BY <1>1, <1>2, <1>3, <1>4, <1>5 DEF PathInv, PopInv
<1>9. StatusInv' /\ CancelInv' /\ CompletedOnce'
  BY <1>1, <1>2, <1>5, <1>6 DEF PathInv, StatusInv, CancelInv, CompletedOnce
<1> QED
  BY <1>7, <1>8, <1>9 DEF PathInv

LEMMA FlushCancelPath ==
    ASSUME TypeOK, PathInv, NEW f \in Flushers, FlushCancel(f)
    PROVE  PathInv'
<1> DEFINE r == popped[f]
<1>1. /\ popped[f] # None /\ popped' = [popped EXCEPT ![f] = None]
      /\ IoComplete(r, "cancelled") /\ UNCHANGED <<pktq, irpq, tx, pair, rd, cx>>
  BY DEF FlushCancel, queueVars, sendVars, readVars
<1>2. /\ r \in Irps /\ rd[r] = "pended" /\ r \notin IrpElems /\ ~Paired(r)
      /\ \A g \in Flushers : g # f => popped[g] # r
  BY <1>1, PathTypes DEF PathInv, PopInv
<1>11. r = popped[f] /\ r # None
  BY <1>1
<1> HIDE DEF r
<1>3. /\ armed' = armed \ {r} /\ blind' = blind
      /\ status'[r] # None /\ \A x \in Irps : x # r => status'[x] = status[x]
      /\ again' \subseteq again \cup {r}
      /\ status[r] = None => again' = again
  BY <1>1, <1>2, Completing
<1>4. popped'[f] = None /\ \A g \in Flushers : g # f => popped'[g] = popped[g]
  BY <1>1, PathTypes
<1>5. /\ PktElems' = PktElems /\ IrpElems' = IrpElems
      /\ \A x : Paired(x)' <=> Paired(x)
  BY <1>1 DEF PktElems, IrpElems, Paired
<1>6. InHand(r) /\ \A x \in Irps : InHand(x)' <=> InHand(x) /\ x # r
  BY <1>2, <1>4, <1>5, <1>11, Caps DEF InHand, Popped
<1>7. QueuesInv' /\ PairInv'
  BY <1>1, <1>5 DEF PathInv, QueuesInv, PairInv
<1>8. PopInv'
  BY <1>1, <1>4, <1>5 DEF PathInv, PopInv
<1>9. StatusInv' /\ CancelInv'
  BY <1>1, <1>2, <1>3, <1>5, <1>6 DEF PathInv, StatusInv, CancelInv
<1>10. CompletedOnce'
  BY <1>2, <1>3, <1>6 DEF PathInv, StatusInv, CompletedOnce
<1> QED
  BY <1>7, <1>8, <1>9, <1>10 DEF PathInv

LEMMA FlushPacketPath ==
    ASSUME TypeOK, PathInv, FlushPacket
    PROVE  PathInv'
<1>1. /\ pktq.size > 0 /\ pktq' = QueuePop(PacketCap, pktq)
      /\ UNCHANGED <<irpq, tx, pair, rd, popped, armed, cx, status, again, blind>>
  BY DEF FlushPacket, openVars, sendVars, readVars, irpVars
<1>2. QueueOK(Packets, PacketCap, pktq') /\ PktElems' \subseteq PktElems
  BY <1>1, PopPacket DEF PathInv
<1>3. IrpElems' = IrpElems /\ \A x : (Paired(x)' <=> Paired(x)) /\ (InHand(x)' <=> InHand(x))
  BY <1>1, HandsFrame DEF IrpElems
<1>4. QueuesInv' /\ PairInv'
  BY <1>1, <1>2, <1>3 DEF PathInv, QueuesInv, PairInv
<1>6. PopInv'
  BY <1>1, <1>3, PopFrame DEF PathInv
<1>5. StatusInv' /\ CancelInv' /\ CompletedOnce'
  BY <1>1, <1>2, <1>3 DEF PathInv, StatusInv, CancelInv, CompletedOnce
<1> QED
  BY <1>4, <1>5, <1>6 DEF PathInv

LEMMA IoCancelIrpPath ==
    ASSUME TypeOK, PathInv, NEW r \in Irps, IoCancelIrp(r)
    PROVE  PathInv'
<1>1. /\ r \in armed /\ armed' = armed \ {r} /\ cx' = [cx EXCEPT ![r] = "called"]
      /\ UNCHANGED <<pktq, irpq, tx, pair, rd, popped, status, again, blind>>
  BY DEF IoCancelIrp, openVars, queueVars, sendVars, readVars
<1>2. /\ cx'[r] = "called"
      /\ \A x \in Irps : x # r => cx'[x] = cx[x]
  BY <1>1, PathTypes
<1>3. /\ PktElems' = PktElems /\ IrpElems' = IrpElems
      /\ \A x : (Paired(x)' <=> Paired(x)) /\ (InHand(x)' <=> InHand(x))
  BY <1>1, HandsFrame DEF PktElems, IrpElems
<1>4. rd[r] = "pended"
  <2>1. r \in IrpElems \/ Paired(r) \/ Popped(r)
    BY <1>1 DEF PathInv, CancelInv, InHand
  <2>2. Popped(r) => rd[r] = "pended"
    BY Caps DEF PathInv, PopInv, Popped
  <2> QED
    BY <2>1, <2>2 DEF PathInv, QueuesInv, PairInv, Paired
<1>5. QueuesInv' /\ PairInv'
  BY <1>1, <1>3 DEF PathInv, QueuesInv, PairInv
<1>7. PopInv'
  BY <1>1, <1>3, PopFrame DEF PathInv
<1>6. StatusInv' /\ CancelInv' /\ CompletedOnce'
  BY <1>1, <1>2, <1>3, <1>4 DEF PathInv, StatusInv, CancelInv, CompletedOnce
<1> QED
  BY <1>5, <1>6, <1>7 DEF PathInv

LEMMA CancelIRPCallbackPath ==
    ASSUME TypeOK, PathInv, NEW r \in Irps, CancelIRPCallback(r)
    PROVE  PathInv'
<1>1. /\ cx[r] = "called" /\ cx'[r] = "done"
      /\ \A x \in Irps : x # r => cx'[x] = cx[x]
      /\ UNCHANGED <<pktq, tx, pair, rd, popped>>
      /\ CancelQueued(r) \/ CancelBlindly(r)
  BY PathTypes DEF CancelIRPCallback, openVars, sendVars, readVars
<1>2. PktElems' = PktElems /\ \A x : (Paired(x)' <=> Paired(x)) /\ (InHand(x)' <=> InHand(x))
  BY <1>1, HandsFrame DEF PktElems
<1>3. rd[r] = "pended"
  BY <1>1 DEF PathInv, CancelInv
<1>4. CASE CancelQueued(r)
  <2>1. irpq' = QueueExtract(IrpCap, irpq, r)
    BY <1>4 DEF CancelQueued
  <2>2. QueueOK(Irps, IrpCap, irpq)
    BY DEF PathInv, QueuesInv
  <2>3. /\ QueueOK(Irps, IrpCap, irpq')
        /\ IrpElems' = IrpElems \ {r}
        /\ (irpq' # irpq) <=> (r \in IrpElems)
    <3>1. /\ QueueOK(Irps, IrpCap, irpq')
          /\ Elems(IrpCap, irpq') = Elems(IrpCap, irpq) \ {r}
          /\ (irpq' # irpq) <=> (r \in Elems(IrpCap, irpq))
      BY <2>1, <2>2, Caps, ExtractElems
    <3> QED
      BY <3>1 DEF IrpElems
  <2>4. QueuesInv' /\ PairInv'
    BY <1>1, <1>2, <2>3 DEF PathInv, QueuesInv, PairInv
  <2>7. PopInv'
    BY <1>1, <1>2, <2>3, PopFrame DEF PathInv
  <2>5. CASE r \in IrpElems
    <3>1. IoComplete(r, "cancelled")
      BY <1>4, <2>3, <2>5 DEF CancelQueued
    <3>2. /\ armed' = armed \ {r} /\ blind' = blind
          /\ status'[r] # None /\ \A x \in Irps : x # r => status'[x] = status[x]
          /\ again' \subseteq again \cup {r}
          /\ status[r] = None => again' = again
      BY <3>1, Completing
    <3>3. ~InHand(r)
      BY <2>5, Caps DEF PathInv, PairInv, PopInv, InHand, Paired, Popped
    <3>4. StatusInv' /\ CancelInv' /\ CompletedOnce'
      BY <1>1, <1>2, <1>3, <2>3, <2>5, <3>2, <3>3
      DEF PathInv, StatusInv, CancelInv, CompletedOnce
    <3> QED
      BY <2>4, <2>7, <3>4 DEF PathInv
  <2>6. CASE r \notin IrpElems
    <3>1. UNCHANGED <<armed, status, again, blind>> /\ IrpElems' = IrpElems
      BY <1>4, <2>3, <2>6 DEF CancelQueued
    <3>2. StatusInv' /\ CancelInv' /\ CompletedOnce'
      BY <1>1, <1>2, <1>3, <2>6, <3>1 DEF PathInv, StatusInv, CancelInv, CompletedOnce
    <3> QED
      BY <2>4, <2>7, <3>2 DEF PathInv
  <2> QED
    BY <2>5, <2>6
<1>5. CASE CancelBlindly(r)
  <2>1. /\ irpq' = irpq /\ blind' = blind \cup {r} /\ armed' = armed \ {r}
        /\ status'[r] # None /\ \A x \in Irps : x # r => status'[x] = status[x]
        /\ again' \subseteq again \cup {r}
    BY <1>5, PathTypes, Caps DEF CancelBlindly
  <2>2. IrpElems' = IrpElems
    BY <2>1 DEF IrpElems
  <2>3. QueuesInv' /\ PairInv'
    BY <1>1, <1>2, <2>1, <2>2 DEF PathInv, QueuesInv, PairInv
  <2>5. PopInv'
    BY <1>1, <1>2, <2>2, PopFrame DEF PathInv
  <2>4. StatusInv' /\ CancelInv' /\ CompletedOnce'
    BY <1>1, <1>2, <1>3, <2>1, <2>2 DEF PathInv, StatusInv, CancelInv, CompletedOnce
  <2> QED
    BY <2>3, <2>4, <2>5 DEF PathInv
<1> QED
  BY <1>1, <1>4, <1>5

-----------------------------------------------------------------------------
(* The life of the adapter.                                                *)

\* What the actions of the adapter leave alone.
LEMMA ElsewhereFrame ==
    ASSUME Elsewhere
    PROVE  UNCHANGED <<opens, media, mutex, hd, popped, slipped, pktq, irpq, tx, pair, late, rd,
                       of, lateRead, armed, cx, status, again, blind, fate, given>>
BY DEF Elsewhere, openVars, queueVars, sendVars, readVars, irpVars, portGhosts

\* What the adapter does but flush its queues.
LEMMA AdapterOnly ==
    ASSUME Adapter, ~FlushIrp(None), ~FlushPacket
    PROVE  UNCHANGED <<mutex, hd, popped, pktq, irpq, tx, pair, late, rd, of, lateRead, armed, cx,
                       status, again, blind, fate, given>>
<1>1. CASE AdapterConfigure
  BY <1>1 DEF AdapterConfigure, queueVars, sendVars, readVars, irpVars, portGhosts
<1>2. CASE ClearTapOpens
  BY <1>2 DEF ClearTapOpens, queueVars, sendVars, readVars, irpVars, portGhosts
<1>3. CASE ~AdapterConfigure /\ ~ClearTapOpens
  <2>1. Elsewhere
    BY <1>3
    DEF Adapter, DriverEntry, AdapterCreate, CreateTapName, CreateLinkName, RegisterDevice,
        TapDeviceStep, TapDeviceQueues, AdapterAdd, SetPower, AdapterHalt, DestroyTapDevice,
        ClearTapIsRunning, SetHalt, Sleep, Proceed, HaltFlush, HaltFree, AdapterRemove,
        TapDriverUnload, Caught
  <2> QED
    BY <2>1, ElsewhereFrame
<1> QED
  BY <1>1, <1>2, <1>3

\* What a create or a close does but flush the queues.
LEMMA HandleOnly ==
    ASSUME NEW h \in Handles, Handle(h), ~FlushIrp(h), ~FlushPacket
    PROVE  UNCHANGED <<popped, slipped, pktq, irpq, tx, pair, rd, of, lateRead, armed, cx, status,
                       again, blind, fate, given>>
BY DEF Handle, CreateCall, CreateAcquire, CreateTestRunning, CreateTestOpens, Tested, CreateSet,
       MediaIoctl, CloseCall, CloseAcquire, CloseFlush, CloseEnd, queueVars, sendVars, readVars,
       irpVars, portGhosts

LEMMA FlushPath ==
    ASSUME TypeOK, PathInv, NEW f \in Flushers, FlushIrp(f) \/ FlushPacket
    PROVE  PathInv'
BY FlushPopPath, FlushCancelPath, FlushPacketPath DEF FlushIrp

LEMMA PathStep ==
    ASSUME TypeOK, PathInv, [Next]_vars
    PROVE  PathInv'
<1>1. CASE Adapter
  <2>1. CASE FlushIrp(None) \/ FlushPacket
    BY <2>1, FlushPath DEF Flushers
  <2>2. CASE ~(FlushIrp(None) \/ FlushPacket)
    BY <1>1, <2>2, AdapterOnly, PathFrame DEF queueVars, irpVars
  <2> QED
    BY <2>1, <2>2
<1>2. ASSUME NEW p \in Packets, AdapterTransmit(p)
      PROVE  PathInv'
  BY <1>2, TransmitCheckPath, TransmitPushPath, TransmitMatchPath, TransmitCompletePath
  DEF AdapterTransmit
<1>3. ASSUME NEW r \in Irps, Read(r) \/ Cancel(r)
      PROVE  PathInv'
  BY <1>3, ReadCallPath, ReadPopPath, ReadPendPath, IoCancelIrpPath, CancelIRPCallbackPath
  DEF Read, Cancel
<1>4. ASSUME NEW h \in Handles, Handle(h)
      PROVE  PathInv'
  <2>1. CASE FlushIrp(h) \/ FlushPacket
    BY <2>1, FlushPath DEF Flushers
  <2>2. CASE ~(FlushIrp(h) \/ FlushPacket)
    BY <1>4, <2>2, HandleOnly, PathFrame DEF queueVars, irpVars
  <2> QED
    BY <2>1, <2>2
<1>5. CASE UNCHANGED vars
  BY <1>5, PathFrame DEF vars, openVars, queueVars, sendVars, readVars, irpVars
<1>6. CASE Stopped
  BY <1>5, <1>6 DEF Stopped
<1> QED
  BY <1>1, <1>2, <1>3, <1>4, <1>5, <1>6 DEF Next

\* Handles that do not move and a life that stands still keep what is known of
\* the life; the calls in progress may only end.
LEMMA AdapterFrame ==
    ASSUME AdapterInv, UNCHANGED <<life, held, frees, listed, halt, power, ifRunning>>,
           ~listed /\ ~halt => hd' = hd,
           ~Busy =>
             /\ \A p \in Packets : tx'[p] = tx[p] \/ tx'[p] \in {"new", "done"}
             /\ \A r \in Irps : rd'[r] = rd[r] \/ rd'[r] \in {"done", "pended"}
             /\ \A h \in Handles : hd'[h] = hd[h] \/ hd'[h] \in {"none", "open", "closed"},
           ~Busy /\ life # "flush" => irpq'.size = 0,
           ~Busy /\ life \notin {"flush", "drain"} => pktq'.size = 0,
           ~Busy /\ life \notin {"flush", "drain", "sleep2"} =>
             \A r \in Irps : cx'[r] = cx[r] \/ cx'[r] = "done"
    PROVE  AdapterInv'
<1>1. LifeInv' /\ HeldInv'
  BY DEF AdapterInv, LifeInv, HeldInv
<1>2. QuietInv'
  BY DEF AdapterInv, QuietInv, Busy
<1> QED
  BY <1>1, <1>2 DEF AdapterInv

LEMMA AdapterOwnStep ==
    ASSUME TypeOK, PathInv, AdapterInv, Adapter
    PROVE  AdapterInv'
<1>1. CASE DriverEntry
  <2>1. LifeInv'
    BY <1>1, ElsewhereFrame
    DEF DriverEntry, InitInstanceList, AdapterInv, LifeInv, QuietInv, Busy
  <2>2. HeldInv'
    BY <1>1 DEF TypeOK, Resources, DeviceParts, AdapterParts, DriverEntry, InitInstanceList, AdapterInv, HeldInv
  <2>3. QuietInv'
    BY <1>1, ElsewhereFrame DEF DriverEntry, InitInstanceList, AdapterInv, QuietInv, Busy
  <2> QED
    BY <2>1, <2>2, <2>3 DEF AdapterInv
<1>2. CASE AdapterCreate
  <2>1. LifeInv'
    BY <1>2, ElsewhereFrame
    DEF AdapterCreate, AdapterInv, LifeInv, QuietInv, Busy
  <2>2. HeldInv'
    BY <1>2 DEF TypeOK, Resources, DeviceParts, AdapterParts, AdapterCreate, AdapterInv, HeldInv
  <2>3. QuietInv'
    BY <1>2, ElsewhereFrame DEF AdapterCreate, AdapterInv, QuietInv, Busy
  <2> QED
    BY <2>1, <2>2, <2>3 DEF AdapterInv
<1>3. CASE AdapterConfigure
  <2>1. LifeInv'
    BY <1>3, ElsewhereFrame
    DEF AdapterConfigure, AdapterFreeResources, queueVars, sendVars, readVars, irpVars, AdapterInv, LifeInv, QuietInv, Busy
  <2>2. HeldInv'
    BY <1>3 DEF TypeOK, Resources, DeviceParts, AdapterParts, AdapterConfigure, AdapterFreeResources, queueVars, sendVars, readVars, irpVars, AdapterInv, HeldInv
  <2>3. QuietInv'
    BY <1>3, ElsewhereFrame DEF AdapterConfigure, AdapterFreeResources, queueVars, sendVars, readVars, irpVars, AdapterInv, QuietInv, Busy
  <2> QED
    BY <2>1, <2>2, <2>3 DEF AdapterInv
<1>4. CASE CreateTapName
  <2>1. LifeInv'
    BY <1>4, ElsewhereFrame
    DEF CreateTapName, TapDeviceStep, FreeResources, AdapterInv, LifeInv, QuietInv, Busy
  <2>2. HeldInv'
    BY <1>4 DEF TypeOK, Resources, DeviceParts, AdapterParts, CreateTapName, TapDeviceStep, FreeResources, AdapterInv, HeldInv
  <2>3. QuietInv'
    BY <1>4, ElsewhereFrame DEF CreateTapName, TapDeviceStep, FreeResources, AdapterInv, QuietInv, Busy
  <2> QED
    BY <2>1, <2>2, <2>3 DEF AdapterInv
<1>5. CASE CreateLinkName
  <2>1. LifeInv'
    BY <1>5, ElsewhereFrame
    DEF CreateLinkName, TapDeviceStep, FreeResources, AdapterInv, LifeInv, QuietInv, Busy
  <2>2. HeldInv'
    BY <1>5 DEF TypeOK, Resources, DeviceParts, AdapterParts, CreateLinkName, TapDeviceStep, FreeResources, AdapterInv, HeldInv
  <2>3. QuietInv'
    BY <1>5, ElsewhereFrame DEF CreateLinkName, TapDeviceStep, FreeResources, AdapterInv, QuietInv, Busy
  <2> QED
    BY <2>1, <2>2, <2>3 DEF AdapterInv
<1>6. CASE RegisterDevice
  <2>1. LifeInv'
    BY <1>6, ElsewhereFrame
    DEF RegisterDevice, TapDeviceStep, FreeResources, AdapterInv, LifeInv, QuietInv, Busy
  <2>2. HeldInv'
    BY <1>6 DEF TypeOK, Resources, DeviceParts, AdapterParts, RegisterDevice, TapDeviceStep, FreeResources, AdapterInv, HeldInv
  <2>3. QuietInv'
    BY <1>6, ElsewhereFrame DEF RegisterDevice, TapDeviceStep, FreeResources, AdapterInv, QuietInv, Busy
  <2> QED
    BY <2>1, <2>2, <2>3 DEF AdapterInv
<1>7. CASE TapDeviceQueues
  <2>1. LifeInv'
    BY <1>7, ElsewhereFrame
    DEF TapDeviceQueues, FreeResources, AdapterInv, LifeInv, QuietInv, Busy
  <2>2. HeldInv'
    BY <1>7 DEF TypeOK, Resources, DeviceParts, AdapterParts, TapDeviceQueues, FreeResources, AdapterInv, HeldInv
  <2>3. QuietInv'
    BY <1>7, ElsewhereFrame DEF TapDeviceQueues, FreeResources, AdapterInv, QuietInv, Busy
  <2> QED
    BY <2>1, <2>2, <2>3 DEF AdapterInv
<1>8. CASE AdapterAdd
  <2>1. LifeInv'
    BY <1>8, ElsewhereFrame
    DEF AdapterAdd, AddAdapterToInstanceList, FreeResources, AdapterInv, LifeInv, QuietInv, Busy
  <2>2. HeldInv'
    BY <1>8 DEF TypeOK, Resources, DeviceParts, AdapterParts, AdapterAdd, AddAdapterToInstanceList, FreeResources, AdapterInv, HeldInv
  <2>3. QuietInv'
    BY <1>8, ElsewhereFrame DEF AdapterAdd, AddAdapterToInstanceList, FreeResources, AdapterInv, QuietInv, Busy
  <2> QED
    BY <2>1, <2>2, <2>3 DEF AdapterInv
<1>9. CASE SetPower
  <2>1. LifeInv'
    BY <1>9, ElsewhereFrame
    DEF TypeOK, SetPower, AdapterInv, LifeInv, QuietInv, Busy
  <2>2. HeldInv'
    BY <1>9 DEF TypeOK, Resources, DeviceParts, AdapterParts, SetPower, AdapterInv, HeldInv
  <2>3. QuietInv'
    BY <1>9, ElsewhereFrame DEF SetPower, AdapterInv, QuietInv, Busy
  <2> QED
    BY <2>1, <2>2, <2>3 DEF AdapterInv
<1>10. CASE AdapterHalt
  <2>1. LifeInv'
    BY <1>10, ElsewhereFrame
    DEF AdapterHalt, AdapterInv, LifeInv, QuietInv, Busy
  <2>2. HeldInv'
    BY <1>10 DEF TypeOK, Resources, DeviceParts, AdapterParts, AdapterHalt, AdapterInv, HeldInv
  <2>3. QuietInv'
    BY <1>10, ElsewhereFrame DEF AdapterHalt, AdapterInv, QuietInv, Busy
  <2> QED
    BY <2>1, <2>2, <2>3 DEF AdapterInv
<1>11. CASE ClearTapIsRunning
  <2>1. LifeInv'
    BY <1>11, ElsewhereFrame
    DEF ClearTapIsRunning, AdapterInv, LifeInv, QuietInv, Busy
  <2>2. HeldInv'
    BY <1>11 DEF TypeOK, Resources, DeviceParts, AdapterParts, ClearTapIsRunning, AdapterInv, HeldInv
  <2>3. QuietInv'
    BY <1>11, ElsewhereFrame DEF ClearTapIsRunning, AdapterInv, QuietInv, Busy
  <2> QED
    BY <2>1, <2>2, <2>3 DEF AdapterInv
<1>12. CASE ClearTapOpens
  <2>1. LifeInv'
    BY <1>12, ElsewhereFrame
    DEF ClearTapOpens, queueVars, sendVars, readVars, irpVars, AdapterInv, LifeInv, QuietInv, Busy
  <2>2. HeldInv'
    BY <1>12 DEF TypeOK, Resources, DeviceParts, AdapterParts, ClearTapOpens, queueVars, sendVars, readVars, irpVars, AdapterInv, HeldInv
  <2>3. QuietInv'
    BY <1>12, ElsewhereFrame DEF ClearTapOpens, queueVars, sendVars, readVars, irpVars, AdapterInv, QuietInv, Busy
  <2> QED
    BY <2>1, <2>2, <2>3 DEF AdapterInv
<1>13. CASE SetHalt
  <2>1. LifeInv'
    BY <1>13, ElsewhereFrame
    DEF SetHalt, AdapterInv, LifeInv, QuietInv, Busy
  <2>2. HeldInv'
    BY <1>13 DEF TypeOK, Resources, DeviceParts, AdapterParts, SetHalt, AdapterInv, HeldInv
  <2>3. QuietInv'
    BY <1>13, ElsewhereFrame DEF SetHalt, AdapterInv, QuietInv, Busy
  <2> QED
    BY <2>1, <2>2, <2>3 DEF AdapterInv
<1>14. CASE Sleep("sleep1", "flush")
  <2>1. LifeInv'
    BY <1>14, ElsewhereFrame
    DEF Sleep, Proceed, InProgress, AdapterInv, LifeInv, QuietInv, Busy
  <2>2. HeldInv'
    BY <1>14 DEF TypeOK, Resources, DeviceParts, AdapterParts, Sleep, Proceed, InProgress, AdapterInv, HeldInv
  <2>3. QuietInv'
    BY <1>14, ElsewhereFrame DEF Sleep, Proceed, InProgress, AdapterInv, QuietInv, Busy
  <2> QED
    BY <2>1, <2>2, <2>3 DEF AdapterInv
<1>15. CASE life = "flush" /\ FlushIrp(None)
  <2>1. LifeInv'
    BY <1>15, ElsewhereFrame
    DEF FlushIrp, FlushPop, FlushCancel, adapterVars, queueVars, sendVars, readVars, AdapterInv, LifeInv, QuietInv, Busy
  <2>2. HeldInv'
    BY <1>15 DEF TypeOK, Resources, DeviceParts, AdapterParts, FlushIrp, FlushPop, FlushCancel, adapterVars, queueVars, sendVars, readVars, AdapterInv, HeldInv
  <2>3. QuietInv'
    BY <1>15, ElsewhereFrame DEF FlushIrp, FlushPop, FlushCancel, adapterVars, queueVars, sendVars, readVars, AdapterInv, QuietInv, Busy
  <2> QED
    BY <2>1, <2>2, <2>3 DEF AdapterInv
<1>16. CASE IrpsFlushed(None) /\ Proceed("flush", "drain")
  <2>1. LifeInv'
    BY <1>16, ElsewhereFrame
    DEF IrpsFlushed, Proceed, AdapterInv, LifeInv, QuietInv, Busy
  <2>2. HeldInv'
    BY <1>16 DEF TypeOK, Resources, DeviceParts, AdapterParts, IrpsFlushed, Proceed, AdapterInv, HeldInv
  <2>3. QuietInv'
    BY <1>16, ElsewhereFrame DEF IrpsFlushed, Proceed, AdapterInv, QuietInv, Busy
  <2> QED
    BY <2>1, <2>2, <2>3 DEF AdapterInv
<1>17. CASE life = "drain" /\ FlushPacket
  <2>1. LifeInv'
    BY <1>17, ElsewhereFrame
    DEF FlushPacket, adapterVars, openVars, queueVars, sendVars, readVars, irpVars, AdapterInv, LifeInv, QuietInv, Busy
  <2>2. HeldInv'
    BY <1>17 DEF TypeOK, Resources, DeviceParts, AdapterParts, FlushPacket, adapterVars, openVars, queueVars, sendVars, readVars, irpVars, AdapterInv, HeldInv
  <2>3. QuietInv'
    BY <1>17, ElsewhereFrame DEF FlushPacket, adapterVars, openVars, queueVars, sendVars, readVars, irpVars, AdapterInv, QuietInv, Busy
  <2> QED
    BY <2>1, <2>2, <2>3 DEF AdapterInv
<1>18. CASE PacketsFlushed /\ Proceed("drain", "sleep2")
  <2>1. LifeInv'
    BY <1>18, ElsewhereFrame
    DEF PacketsFlushed, Proceed, AdapterInv, LifeInv, QuietInv, Busy
  <2>2. HeldInv'
    BY <1>18 DEF TypeOK, Resources, DeviceParts, AdapterParts, PacketsFlushed, Proceed, AdapterInv, HeldInv
  <2>3. QuietInv'
    BY <1>18, ElsewhereFrame DEF PacketsFlushed, Proceed, AdapterInv, QuietInv, Busy
  <2> QED
    BY <2>1, <2>2, <2>3 DEF AdapterInv
<1>19. CASE Sleep("sleep2", "free")
  <2>1. LifeInv'
    BY <1>19, ElsewhereFrame
    DEF Sleep, Proceed, InProgress, AdapterInv, LifeInv, QuietInv, Busy
  <2>2. HeldInv'
    BY <1>19 DEF TypeOK, Resources, DeviceParts, AdapterParts, Sleep, Proceed, InProgress, AdapterInv, HeldInv
  <2>3. QuietInv'
    BY <1>19, ElsewhereFrame DEF Sleep, Proceed, InProgress, AdapterInv, QuietInv, Busy
  <2> QED
    BY <2>1, <2>2, <2>3 DEF AdapterInv
<1>20. CASE HaltFree
  <2>1. LifeInv'
    BY <1>20, ElsewhereFrame
    DEF HaltFree, FreeResources, AdapterInv, LifeInv, QuietInv, Busy
  <2>2. HeldInv'
    BY <1>20 DEF TypeOK, Resources, DeviceParts, AdapterParts, HaltFree, FreeResources, AdapterInv, HeldInv
  <2>3. QuietInv'
    BY <1>20, ElsewhereFrame DEF HaltFree, FreeResources, AdapterInv, QuietInv, Busy
  <2> QED
    BY <2>1, <2>2, <2>3 DEF AdapterInv
<1>21. CASE AdapterRemove
  <2>1. LifeInv'
    BY <1>21, ElsewhereFrame
    DEF AdapterRemove, RemoveAdapterFromInstanceList, AdapterInv, LifeInv, QuietInv, Busy
  <2>2. HeldInv'
    BY <1>21 DEF AdapterRemove, RemoveAdapterFromInstanceList, AdapterInv, HeldInv
  <2>3. QuietInv'
    BY <1>21, ElsewhereFrame DEF AdapterRemove, RemoveAdapterFromInstanceList, AdapterInv, QuietInv, Busy
  <2> QED
    BY <2>1, <2>2, <2>3 DEF AdapterInv
<1>22. CASE TapDriverUnload
  <2>1. LifeInv'
    BY <1>22, ElsewhereFrame
    DEF TapDriverUnload, FreeInstanceList, AdapterInv, LifeInv, QuietInv, Busy
  <2>2. HeldInv'
    BY <1>22 DEF TypeOK, Resources, DeviceParts, AdapterParts, TapDriverUnload, FreeInstanceList, AdapterInv, HeldInv
  <2>3. QuietInv'
    BY <1>22, ElsewhereFrame DEF TapDriverUnload, FreeInstanceList, AdapterInv, QuietInv, Busy
  <2> QED
    BY <2>1, <2>2, <2>3 DEF AdapterInv
<1>23. CASE Caught
  <2>1. LifeInv'
    BY <1>23, ElsewhereFrame
    DEF Caught, AdapterInv, LifeInv, QuietInv, Busy
  <2>2. HeldInv'
    BY <1>23 DEF TypeOK, Resources, DeviceParts, AdapterParts, Caught, AdapterInv, HeldInv
  <2>3. QuietInv'
    BY <1>23, ElsewhereFrame DEF Caught, AdapterInv, QuietInv, Busy
  <2> QED
    BY <2>1, <2>2, <2>3 DEF AdapterInv
<1> QED
  BY <1>1, <1>2, <1>3, <1>4, <1>5, <1>6, <1>7, <1>8, <1>9, <1>10, <1>11, <1>12,
     <1>13, <1>14, <1>15, <1>16, <1>17, <1>18, <1>19, <1>20, <1>21, <1>22, <1>23
  DEF Adapter, DestroyTapDevice, HaltFlush

-----------------------------------------------------------------------------
\* A call that is admitted finds the adapter up.
LEMMA AdmittedIsUp ==
    ASSUME TypeOK, AdapterInv, Admitted
    PROVE  life \in {"up", "halt", "opens", "flag"} /\ listed /\ ~halt /\ (ifRunning => life = "up")
<1>1. listed /\ ~halt /\ life \in Life
  BY DEF TypeOK, Admitted, LookupAdapterInInstanceList
<1> QED
  BY <1>1 DEF AdapterInv, LifeInv, Life

\* What popping and pushing may do to the packets.
LEMMA PacketsLeave ==
    ASSUME QueuesInv,
           pktq' = pktq \/ (pktq.size > 0 /\ pktq' = QueuePop(PacketCap, pktq))
    PROVE  PktElems' \subseteq PktElems /\ pktq'.size \in 0 .. pktq.size
<1>1. CASE pktq' = pktq
  BY <1>1, QueueFacts DEF PktElems
<1>2. CASE pktq.size > 0 /\ pktq' = QueuePop(PacketCap, pktq)
  BY <1>2, PopPacket, QueueFacts
<1> QED
  BY <1>1, <1>2

LEMMA IrpsLeave ==
    ASSUME QueuesInv,
           \/ irpq' = irpq
           \/ irpq.size > 0 /\ irpq' = QueuePop(IrpCap, irpq)
           \/ \E r \in Irps : irpq' = QueueExtract(IrpCap, irpq, r)
    PROVE  IrpElems' \subseteq IrpElems /\ irpq'.size \in 0 .. irpq.size
<1>1. CASE irpq' = irpq
  BY <1>1, QueueFacts DEF IrpElems
<1>2. CASE irpq.size > 0 /\ irpq' = QueuePop(IrpCap, irpq)
  BY <1>2, PopIrp, QueueFacts
<1>3. CASE \E r \in Irps : irpq' = QueueExtract(IrpCap, irpq, r)
  <2>1. PICK r \in Irps : irpq' = QueueExtract(IrpCap, irpq, r)
    BY <1>3
  <2>2. QueueOK(Irps, IrpCap, irpq)
    BY DEF QueuesInv
  <2>3. /\ QueueOK(Irps, IrpCap, irpq') /\ irpq'.size <= irpq.size
        /\ Elems(IrpCap, irpq') \subseteq Elems(IrpCap, irpq)
    BY <2>1, <2>2, Caps, ExtractElems
  <2>4. irpq'.size \in 0 .. IrpCap
    BY <2>3, Caps, ElemsOfQueue
  <2> QED
    BY <2>3, <2>4, QueueFacts DEF IrpElems
<1> QED
  BY <1>1, <1>2, <1>3

LEMMA AdapterTransmitLife ==
    ASSUME TypeOK, PathInv, AdapterInv, NEW p \in Packets, AdapterTransmit(p)
    PROVE  AdapterInv'
<1>1. UNCHANGED <<life, held, frees, listed, halt, power, ifRunning, hd, rd, cx>>
  BY DEF AdapterTransmit, TransmitCheck, TransmitPush, TransmitMatch, TransmitComplete,
         adapterVars, openVars, readVars, irpVars
<1>2. Busy
  <2>1. life = "up" \/ tx[p] \in {"push", "match", "complete"}
    BY DEF AdapterTransmit, TransmitCheck, TransmitPush, TransmitMatch, TransmitComplete
  <2> QED
    BY <2>1 DEF AdapterInv, QuietInv, Busy
<1> QED
  BY <1>1, <1>2, AdapterFrame

LEMMA ReadLife ==
    ASSUME TypeOK, PathInv, AdapterInv, NEW r \in Irps, Read(r)
    PROVE  AdapterInv'
<1>1. UNCHANGED <<life, held, frees, listed, halt, power, ifRunning, hd, tx, cx>>
  BY DEF Read, ReadCall, ReadPop, ReadPend, adapterVars, openVars, sendVars
<1>2. CASE Busy
  BY <1>1, <1>2, AdapterFrame
<1>3. CASE ~Busy
  <2>1. rd' = [rd EXCEPT ![r] = "done"] /\ UNCHANGED <<pktq, irpq>>
    <3>1. ~ReadPop(r) /\ ~ReadPend(r)
      BY <1>3 DEF AdapterInv, QuietInv, ReadPop, ReadPend
    <3>2. ~Admitted
      BY <1>3, AdmittedIsUp DEF Busy
    <3> QED
      BY <3>1, <3>2 DEF Read, ReadCall, queueVars
  <2>2. \A x \in Irps : rd'[x] = rd[x] \/ rd'[x] \in {"done", "pended"}
    BY <2>1, PathTypes
  <2> QED
    BY <1>1, <1>3, <2>1, <2>2, AdapterFrame DEF AdapterInv, QuietInv
<1> QED
  BY <1>2, <1>3

LEMMA CancelLife ==
    ASSUME TypeOK, PathInv, AdapterInv, FlushersInv, NEW r \in Irps, Cancel(r)
    PROVE  AdapterInv'
<1>1. UNCHANGED <<life, held, frees, listed, halt, power, ifRunning, hd, tx, rd, pktq>>
  BY DEF Cancel, IoCancelIrp, CancelIRPCallback, adapterVars, openVars, queueVars, sendVars,
         readVars
<1>2. ASSUME ~Busy, life # "flush"
      PROVE  irpq'.size = 0
  <2>1. irpq.size = 0
    BY <1>2 DEF AdapterInv, QuietInv
  <2>2. irpq' = irpq \/ irpq' = QueueExtract(IrpCap, irpq, r)
    BY DEF Cancel, IoCancelIrp, CancelIRPCallback, CancelQueued, CancelBlindly, queueVars
  <2>3. irpq'.size \in 0 .. irpq.size
    BY <2>2, IrpsLeave DEF PathInv
  <2> QED
    BY <2>1, <2>3
<1>4. ~Busy /\ life \notin {"flush", "drain"} => pktq'.size = 0
  BY <1>1 DEF AdapterInv, QuietInv
<1>3. ASSUME ~Busy, life \notin {"flush", "drain", "sleep2"}
      PROVE  \A x \in Irps : cx'[x] = cx[x] \/ cx'[x] = "done"
  <2>1. CASE IoCancelIrp(r)
    <3>1. r \in IrpElems \/ Paired(r) \/ Popped(r)
      BY <2>1 DEF IoCancelIrp, PathInv, CancelInv, InHand
    <3>2. irpq.size = 0 /\ \A p \in Packets : tx[p] # "complete"
      BY <1>3 DEF AdapterInv, QuietInv
    <3>3. r \notin IrpElems
      BY <3>2, QueueFacts DEF PathInv
    <3>4. \A f \in Flushers : popped[f] = None
      BY <1>3 DEF AdapterInv, QuietInv, FlushersInv, Flushers
    <3>5. ~Popped(r)
      BY <3>4, Caps DEF Popped
    <3> QED
      BY <3>1, <3>2, <3>3, <3>5 DEF Paired
  <2>2. CASE CancelIRPCallback(r)
    BY <2>2, PathTypes DEF CancelIRPCallback
  <2> QED
    BY <2>1, <2>2 DEF Cancel
<1> QED
  BY <1>1, <1>2, <1>3, <1>4, AdapterFrame

LEMMA HandleLife ==
    ASSUME TypeOK, PathInv, AdapterInv, NEW h \in Handles, Handle(h)
    PROVE  AdapterInv'
<1>1. UNCHANGED <<life, held, frees, listed, halt, power, ifRunning, tx, rd, cx>>
  BY DEF Handle, CreateCall, CreateAcquire, CreateTestRunning, CreateTestOpens, Tested, CreateSet,
         MediaIoctl, CloseCall, CloseAcquire, CloseFlush, CloseEnd, FlushIrp, FlushPop,
         FlushCancel, FlushPacket, adapterVars, queueVars, sendVars, readVars, irpVars
<1>2. hd \in [Handles -> {"none", "create", "test", "retest", "set", "open", "close", "flush",
                          "drain", "closed"}]
  BY DEF TypeOK
<1>3. ASSUME ~listed /\ ~halt
      PROVE  hd' = hd
  <2>1. hd[h] = "none" /\ ~Admitted
    BY <1>3 DEF AdapterInv, LifeInv, Admitted, LookupAdapterInInstanceList
  <2> QED
    BY <2>1 DEF Handle, CreateCall, CreateAcquire, CreateTestRunning, CreateTestOpens, CreateSet,
                MediaIoctl, CloseCall, CloseAcquire, CloseFlush, CloseEnd
<1>4. ASSUME ~Busy
      PROVE  /\ \A g \in Handles : hd'[g] = hd[g] \/ hd'[g] \in {"none", "open", "closed"}
             /\ UNCHANGED <<pktq, irpq>>
  <2>1. ~Admitted
    BY <1>4, AdmittedIsUp DEF Busy
  <2>3. hd[h] \notin {"create", "test", "retest", "set", "close", "flush", "drain"}
    BY <1>4 DEF AdapterInv, QuietInv
  <2>2. CloseCall(h) /\ ~Admitted
    BY <2>1, <2>3 DEF Handle, CreateCall, CreateAcquire, CreateTestRunning, CreateTestOpens,
                CreateSet, MediaIoctl, CloseAcquire, CloseFlush, CloseEnd
  <2> QED
    BY <1>2, <2>2 DEF CloseCall, queueVars
<1>5. ~Busy /\ life # "flush" => irpq'.size = 0
  BY <1>4 DEF AdapterInv, QuietInv
<1>6. ~Busy /\ life \notin {"flush", "drain"} => pktq'.size = 0
  BY <1>4 DEF AdapterInv, QuietInv
<1> QED
  BY <1>1, <1>3, <1>4, <1>5, <1>6, AdapterFrame

LEMMA AdapterStep ==
    ASSUME TypeOK, PathInv, AdapterInv, FlushersInv, [Next]_vars
    PROVE  AdapterInv'
<1>1. CASE UNCHANGED vars
  BY <1>1 DEF vars, adapterVars, openVars, queueVars, sendVars, readVars, irpVars, AdapterInv,
              LifeInv, HeldInv, QuietInv, Busy
<1> QED
  BY <1>1, AdapterOwnStep, AdapterTransmitLife, ReadLife, CancelLife, HandleLife
  DEF Next, Stopped

\* A flush of a close or of the halt completes what it popped before it ends.
LEMMA FlushersStep ==
    ASSUME TypeOK, AdapterInv, FlushersInv, [Next]_vars
    PROVE  FlushersInv'
<1>1. CASE Adapter
  <2>1. CASE FlushPacket
    BY <2>1 DEF FlushPacket, openVars, adapterVars, FlushersInv
  <2>2. CASE life = "flush" /\ FlushIrp(None)
    <3>1. UNCHANGED <<hd, life>> /\ \A h \in Handles : popped'[h] = popped[h]
      BY <2>2, PathTypes, Caps DEF FlushIrp, FlushPop, FlushCancel, adapterVars, Flushers
    <3> QED
      BY <2>2, <3>1 DEF FlushersInv
  <2>3. CASE ~FlushPacket /\ ~(life = "flush" /\ FlushIrp(None))
    <3>1. popped' = popped /\ hd' = hd
      BY <1>1, <2>3, ElsewhereFrame
      DEF Adapter, DriverEntry, AdapterCreate, AdapterConfigure, CreateTapName, CreateLinkName,
          RegisterDevice, TapDeviceStep, TapDeviceQueues, AdapterAdd, SetPower, AdapterHalt,
          DestroyTapDevice, ClearTapIsRunning, ClearTapOpens, SetHalt, Sleep, Proceed, HaltFlush,
          HaltFree, AdapterRemove, TapDriverUnload, Caught
    <3>2. life = "flush" => popped[None] = None
      BY <1>1, <2>3
      DEF Adapter, DriverEntry, AdapterCreate, AdapterConfigure, CreateTapName, CreateLinkName,
          RegisterDevice, TapDeviceStep, TapDeviceQueues, AdapterAdd, SetPower, AdapterHalt,
          DestroyTapDevice, ClearTapIsRunning, ClearTapOpens, SetHalt, Sleep, Proceed, HaltFlush,
          IrpsFlushed, HaltFree, AdapterRemove, TapDriverUnload, Caught
    <3> QED
      BY <3>1, <3>2 DEF FlushersInv
  <2> QED
    BY <2>1, <2>2, <2>3
<1>2. ASSUME NEW h \in Handles, Handle(h)
      PROVE  FlushersInv'
  <2>0. life' = life
    BY <1>2 DEF Handle, CreateCall, CreateAcquire, CreateTestRunning, CreateTestOpens, Tested,
                CreateSet, MediaIoctl, CloseCall, CloseAcquire, CloseFlush, CloseEnd, FlushIrp,
                FlushPop, FlushCancel, FlushPacket, adapterVars
  <2>1. CASE hd[h] = "flush" /\ FlushIrp(h)
    <3>1. hd' = hd /\ \A g \in Flushers : g # h => popped'[g] = popped[g]
      BY <2>1, PathTypes DEF FlushIrp, FlushPop, FlushCancel
    <3> QED
      BY <2>0, <2>1, <3>1, Caps DEF FlushersInv, Flushers
  <2>2. CASE ~(hd[h] = "flush" /\ FlushIrp(h))
    <3>1. popped' = popped
      BY <1>2, <2>2
      DEF Handle, CreateCall, CreateAcquire, CreateTestRunning, CreateTestOpens, Tested,
          CreateSet, MediaIoctl, CloseCall, CloseAcquire, CloseFlush, CloseEnd, FlushPacket,
          openVars
    <3>4. hd \in [Handles -> {"none", "create", "test", "retest", "set", "open", "close",
                              "flush", "drain", "closed"}]
      BY DEF TypeOK
    <3>2. \A g \in Handles : g # h => hd'[g] = hd[g]
      BY <1>2, <2>2, <3>4
      DEF Handle, CreateCall, CreateAcquire, CreateTestRunning, CreateTestOpens, Tested,
          CreateSet, MediaIoctl, CloseCall, CloseAcquire, CloseFlush, CloseEnd, FlushPacket,
          openVars
    <3>3. hd[h] = "flush" => hd'[h] = "flush" \/ popped[h] = None
      BY <1>2, <2>2
      DEF Handle, CreateCall, CreateAcquire, CreateTestRunning, CreateTestOpens, Tested,
          CreateSet, MediaIoctl, CloseCall, CloseAcquire, CloseFlush, CloseEnd, FlushPacket,
          IrpsFlushed, openVars
    <3> QED
      BY <2>0, <3>1, <3>2, <3>3 DEF FlushersInv
  <2> QED
    BY <2>1, <2>2
<1>3. CASE UNCHANGED <<popped, hd, life>>
  BY <1>3 DEF FlushersInv
<1>4. ASSUME NEW p \in Packets, AdapterTransmit(p)
      PROVE  FlushersInv'
  BY <1>3, <1>4 DEF AdapterTransmit, TransmitCheck, TransmitPush, TransmitMatch,
                    TransmitComplete, openVars, adapterVars
<1>5. ASSUME NEW r \in Irps, Read(r) \/ Cancel(r)
      PROVE  FlushersInv'
  BY <1>3, <1>5 DEF Read, ReadCall, ReadPop, ReadPend, Cancel, IoCancelIrp, CancelIRPCallback,
                    openVars, adapterVars
<1>6. CASE UNCHANGED vars
  BY <1>3, <1>6 DEF vars, openVars, adapterVars
<1> QED
  BY <1>1, <1>2, <1>4, <1>5, <1>6 DEF Next, Stopped

-----------------------------------------------------------------------------
LEMMA HandleFrame ==
    ASSUME HandleInv, UNCHANGED <<life, hd, mutex, opens, slipped, of, late, halt, tapRunning>>,
           \A r \in Irps : status[r] # None => status'[r] = status[r],
           ~halt => /\ PktElems' \subseteq PktElems
                    /\ \A p \in Packets : tx'[p] = "push" => tx[p] = "push"
    PROVE  HandleInv'
<1>1. MutexInv' /\ OpensInv' /\ SlipInv'
  BY DEF HandleInv, MutexInv, OpensInv, SlipInv, Cleared
<1>2. OneOwner'
  BY Caps DEF HandleInv, OneOwner, Owner
<1>3. LateInv'
  BY DEF HandleInv, LateInv, Owner
<1> QED
  BY <1>1, <1>2, <1>3 DEF HandleInv

\* An IRP that is completed stays as it was completed.
LEMMA StatusKept ==
    ASSUME TypeOK, [Next]_vars
    PROVE  \A r \in Irps : status[r] # None => status'[r] = status[r]
<1>1. status \in [Irps -> {None, "answered", "cancelled", "failed"}]
  BY PathTypes
<1>2. ASSUME NEW r, NEW how, IoComplete(r, how)
      PROVE  \A x \in Irps : status[x] # None => status'[x] = status[x]
  BY <1>1, <1>2 DEF IoComplete
<1>3. CASE status' = status
  BY <1>3
<1>4. CASE Adapter
  BY <1>2, <1>3, <1>4, AdapterOnly DEF FlushIrp, FlushPop, FlushCancel, FlushPacket, irpVars
<1>5. ASSUME NEW h \in Handles, Handle(h)
      PROVE  \A x \in Irps : status[x] # None => status'[x] = status[x]
  BY <1>2, <1>3, <1>5, HandleOnly DEF FlushIrp, FlushPop, FlushCancel, FlushPacket, irpVars
<1>6. ASSUME NEW p \in Packets, AdapterTransmit(p)
      PROVE  \A x \in Irps : status[x] # None => status'[x] = status[x]
  BY <1>2, <1>3, <1>6 DEF AdapterTransmit, TransmitCheck, TransmitPush, TransmitMatch,
                          TransmitComplete, CompleteIRP, irpVars
<1>7. ASSUME NEW r \in Irps, Read(r)
      PROVE  \A x \in Irps : status[x] # None => status'[x] = status[x]
  BY <1>2, <1>3, <1>7 DEF Read, ReadCall, ReadPop, ReadPend, CompleteIRP
<1>8. ASSUME NEW r \in Irps, Cancel(r)
      PROVE  \A x \in Irps : status[x] # None => status'[x] = status[x]
  <2>1. CASE CancelBlindly(r)
    BY <1>1, <2>1 DEF CancelBlindly
  <2> QED
    BY <1>2, <1>3, <1>8, <2>1 DEF Cancel, IoCancelIrp, CancelIRPCallback, CancelQueued
<1>9. CASE UNCHANGED vars
  BY <1>3, <1>9 DEF vars, irpVars
<1> QED
  BY <1>4, <1>5, <1>6, <1>7, <1>8, <1>9 DEF Next, Stopped

\* A halted adapter has cleared m_TapOpens.

LEMMA HaltedIsCleared ==
    ASSUME TypeOK, AdapterInv, halt
    PROVE  Cleared
<1>1. life \in Life
  BY DEF TypeOK
<1> QED
  BY <1>1 DEF AdapterInv, LifeInv, Cleared, Life

\* The steps of a create.

LEMMA CreateOwner ==
    ASSUME TypeOK, AdapterInv, HandleInv, NEW h \in Handles,
           UNCHANGED <<life, slipped, of, late, halt, tapRunning, tx, pktq, status>>,
           CreateCall(h) \/ CreateAcquire(h) \/ CreateTestRunning(h) \/ CreateTestOpens(h)
             \/ CreateSet(h)
    PROVE  HandleInv'
<1>1. hd \in [Handles -> {"none", "create", "test", "retest", "set", "open", "close", "flush",
                          "drain", "closed"}]
      /\ mutex \in Handles \cup {None} /\ opens \in {0, 1}
  BY DEF TypeOK
<1>2. PktElems' = PktElems
  BY DEF PktElems
<1>3. \A g \in Handles : g # h => hd'[g] = hd[g]
  BY <1>1 DEF CreateCall, CreateAcquire, CreateTestRunning, CreateTestOpens, Tested, CreateSet
<1>4. \A g \in Handles : g # h => (Owner(g)' <=> Owner(g))
  BY <1>3 DEF Owner
<1>5. CASE CreateCall(h)
  <2>1. hd[h] = "none" /\ hd'[h] = "create" /\ UNCHANGED <<mutex, opens>>
    BY <1>1, <1>5 DEF CreateCall
  <2>2. ~Owner(h) /\ ~Owner(h)'
    BY <2>1 DEF Owner
  <2>3. MutexInv'
    BY <1>3, <2>1 DEF HandleInv, MutexInv
  <2>4. OpensInv'
    BY <1>3, <2>1 DEF HandleInv, OpensInv, Cleared
  <2>5. SlipInv'
    BY <1>3, <2>1 DEF HandleInv, SlipInv, Cleared
  <2>6. OneOwner' /\ LateInv'
    BY <1>2, <1>4, <2>2 DEF HandleInv, OneOwner, LateInv
  <2> QED
    BY <2>3, <2>4, <2>5, <2>6 DEF HandleInv
<1>6. CASE CreateAcquire(h)
  <2>1. /\ hd[h] = "create" /\ hd'[h] = "test" /\ mutex = None /\ mutex' = h
        /\ opens' = opens
    BY <1>1, <1>6 DEF CreateAcquire, Acquire
  <2>2. ~Owner(h) /\ ~Owner(h)'
    BY <2>1 DEF Owner
  <2>3. MutexInv'
    BY <1>3, <2>1, Caps DEF HandleInv, MutexInv
  <2>4. OpensInv'
    BY <1>3, <2>1 DEF HandleInv, OpensInv, Cleared
  <2>5. SlipInv'
    BY <1>3, <2>1 DEF HandleInv, SlipInv, Cleared
  <2>6. OneOwner' /\ LateInv'
    BY <1>2, <1>4, <2>2 DEF HandleInv, OneOwner, LateInv
  <2> QED
    BY <2>3, <2>4, <2>5, <2>6 DEF HandleInv
<1>7. CASE CreateTestRunning(h)
  <2>1. /\ hd[h] = "test" /\ opens' = opens
        /\ \/ tapRunning /\ hd'[h] = "retest" /\ mutex' = mutex
           \/ hd'[h] = "none" /\ mutex' = None
    BY <1>1, <1>7 DEF CreateTestRunning, Tested, Release
  <2>2. ~Owner(h) /\ ~Owner(h)'
    BY <2>1 DEF Owner
  <2>3. MutexInv'
    BY <1>3, <2>1, Caps DEF HandleInv, MutexInv
  <2>4. OpensInv'
    BY <1>3, <2>1 DEF HandleInv, OpensInv, Cleared
  <2>5. SlipInv'
    BY <1>3, <2>1 DEF HandleInv, SlipInv, Cleared
  <2>6. OneOwner' /\ LateInv'
    BY <1>2, <1>4, <2>2 DEF HandleInv, OneOwner, LateInv
  <2> QED
    BY <2>3, <2>4, <2>5, <2>6 DEF HandleInv
<1>8. CASE CreateTestOpens(h)
  <2>1. /\ hd[h] = "retest" /\ opens' = opens
        /\ \/ opens = 0 /\ hd'[h] = "set" /\ mutex' = mutex
           \/ hd'[h] = "none" /\ mutex' = None
    BY <1>1, <1>8 DEF CreateTestOpens, Tested, Release
  <2>3. MutexInv'
    BY <1>3, <2>1, Caps DEF HandleInv, MutexInv
  <2>4. OpensInv'
    BY <1>3, <2>1 DEF HandleInv, OpensInv, Cleared
  <2>5. SlipInv'
    BY <1>3, <2>1 DEF HandleInv, SlipInv, Cleared
  <2>6. hd'[h] = "set" /\ h \notin slipped => \A g \in Handles : g # h => ~Owner(g)
    <3> SUFFICES ASSUME hd'[h] = "set", h \notin slipped, NEW g \in Handles, g # h, Owner(g)
                 PROVE  FALSE
      OBVIOUS
    <3>1. hd[g] \in {"open", "close"}
      BY <2>1 DEF HandleInv, MutexInv, Owner
    <3>2. life \notin {"flag", "sleep1"} /\ Busy
      BY <2>1 DEF HandleInv, SlipInv, AdapterInv, QuietInv
    <3>3. ~Cleared
      BY <3>2 DEF Busy, Cleared
    <3> QED
      BY <2>1, <3>1, <3>3 DEF HandleInv, OpensInv
  <2>7. OneOwner'
    BY <1>4, <2>1, <2>6 DEF HandleInv, OneOwner, Owner
  <2>8. LateInv'
    BY <1>2, <1>3, <2>1 DEF HandleInv, LateInv, Owner
  <2> QED
    BY <2>3, <2>4, <2>5, <2>7, <2>8 DEF HandleInv
<1>9. CASE CreateSet(h)
  <2>1. hd[h] = "set" /\ hd'[h] = "open" /\ opens' = 1 /\ mutex' = None
    BY <1>1, <1>9 DEF CreateSet, Release
  <2>2. Owner(h) /\ Owner(h)'
    BY <2>1 DEF Owner
  <2>3. MutexInv'
    BY <1>3, <2>1, Caps DEF HandleInv, MutexInv
  <2>4. OpensInv'
    BY <1>3, <2>1 DEF HandleInv, OpensInv, Cleared
  <2>5. SlipInv'
    BY <1>3, <2>1 DEF HandleInv, SlipInv, Cleared
  <2>6. OneOwner' /\ LateInv'
    BY <1>2, <1>4, <2>2 DEF HandleInv, OneOwner, LateInv
  <2> QED
    BY <2>3, <2>4, <2>5, <2>6 DEF HandleInv
<1> QED
  BY <1>5, <1>6, <1>7, <1>8, <1>9

\* The steps of a close.

LEMMA CloseOwner ==
    ASSUME TypeOK, PathInv, AdapterInv, HandleInv, NEW h \in Handles,
           UNCHANGED <<life, slipped, of, halt, tapRunning, tx, pktq, status>>,
           \/ CloseCall(h) \/ CloseAcquire(h)
           \/ hd[h] = "flush" /\ hd' = [hd EXCEPT ![h] = "drain"] /\ UNCHANGED <<mutex, opens, late>>
           \/ CloseEnd(h)
    PROVE  HandleInv'
<1>1. hd \in [Handles -> {"none", "create", "test", "retest", "set", "open", "close", "flush",
                          "drain", "closed"}]
      /\ mutex \in Handles \cup {None} /\ opens \in {0, 1}
  BY DEF TypeOK
<1>2. PktElems' = PktElems
  BY DEF PktElems
<1>3. \A g \in Handles : g # h => hd'[g] = hd[g]
  BY <1>1 DEF CloseCall, CloseAcquire, CloseEnd
<1>4. \A g \in Handles : g # h => (Owner(g)' <=> Owner(g))
  BY <1>3 DEF Owner
<1>5. Owner(h)
  BY DEF CloseCall, CloseAcquire, CloseEnd, Owner
<1>6. OneOwner'
  BY <1>4, <1>5 DEF HandleInv, OneOwner
<1>7. SlipInv'
  <2>1. hd[h] \in {"open", "close", "flush", "drain"}
    BY DEF CloseCall, CloseAcquire, CloseEnd
  <2>2. hd'[h] \in {"close", "flush", "drain", "closed"}
    BY <1>1 DEF CloseCall, CloseAcquire, CloseEnd
  <2> QED
    BY <1>3, <2>1, <2>2 DEF HandleInv, SlipInv, Cleared
<1>8. CASE CloseCall(h)
  <2>1. /\ hd[h] = "open" /\ late' = late /\ UNCHANGED <<mutex, opens>>
        /\ hd'[h] = "close" \/ (hd'[h] = "closed" /\ ~Admitted)
    BY <1>1, <1>8 DEF CloseCall, sendVars
  <2>2. ~Admitted => halt
    BY <2>1 DEF AdapterInv, LifeInv, Admitted, LookupAdapterInInstanceList
  <2>3. MutexInv'
    BY <1>3, <2>1 DEF HandleInv, MutexInv
  <2>4. OpensInv'
    BY <1>3, <2>1, <2>2, HaltedIsCleared DEF HandleInv, OpensInv, Cleared
  <2>5. LateInv'
    BY <1>2, <1>3, <2>1, <2>2 DEF HandleInv, LateInv, Owner
  <2> QED
    BY <1>6, <1>7, <2>3, <2>4, <2>5 DEF HandleInv
<1>9. CASE CloseAcquire(h)
  <2>1. /\ hd[h] = "close" /\ hd'[h] = "flush" /\ late' = late
        /\ mutex = None /\ mutex' = h /\ opens' = 0
    BY <1>1, <1>9 DEF CloseAcquire, Acquire, sendVars
  <2>2. MutexInv'
    BY <1>3, <2>1, Caps DEF HandleInv, MutexInv
  <2>3. OpensInv'
    <3>1. ~Cleared => \A g \in Handles : hd[g] \in {"open", "close"} => g = h
      BY <1>5 DEF HandleInv, OneOwner, SlipInv, Owner
    <3>2. Cleared' <=> Cleared
      BY DEF Cleared
    <3> QED
      BY <1>3, <2>1, <3>1, <3>2 DEF OpensInv
  <2>4. LateInv'
    BY <2>1 DEF LateInv, Owner
  <2> QED
    BY <1>6, <1>7, <2>2, <2>3, <2>4 DEF HandleInv
<1>10. CASE hd[h] = "flush" /\ hd' = [hd EXCEPT ![h] = "drain"] /\ UNCHANGED <<mutex, opens, late>>
  <2>1. hd[h] = "flush" /\ hd'[h] = "drain" /\ UNCHANGED <<mutex, opens, late>>
    BY <1>1, <1>10
  <2>2. MutexInv'
    BY <1>3, <2>1 DEF HandleInv, MutexInv
  <2>3. OpensInv'
    BY <1>3, <2>1 DEF HandleInv, OpensInv, Cleared
  <2>4. LateInv'
    BY <2>1 DEF LateInv, Owner
  <2> QED
    BY <1>6, <1>7, <2>2, <2>3, <2>4 DEF HandleInv
<1>11. CASE CloseEnd(h)
  <2>1. /\ hd[h] = "drain" /\ hd'[h] = "closed" /\ mutex' = None /\ opens' = opens
        /\ late' = late \cup {p \in Packets : tx[p] = "push"} /\ pktq.size = 0
    BY <1>1, <1>11 DEF CloseEnd, Release, PacketsFlushed
  <2>2. PktElems = {}
    <3>1. ~(pktq.size > 0)
      BY <2>1
    <3> QED
      BY <3>1, QueueFacts DEF PathInv
  <2>3. MutexInv'
    BY <1>3, <2>1, Caps DEF HandleInv, MutexInv
  <2>4. OpensInv'
    BY <1>3, <2>1 DEF HandleInv, OpensInv, Cleared
  <2>5. LateInv'
    BY <1>2, <2>1, <2>2 DEF LateInv
  <2> QED
    BY <1>6, <1>7, <2>3, <2>4, <2>5 DEF HandleInv
<1> QED
  BY <1>8, <1>9, <1>10, <1>11

LEMMA HandleOwnStep ==
    ASSUME TypeOK, PathInv, AdapterInv, HandleInv, NEW h \in Handles, Handle(h),
           \A r \in Irps : status[r] # None => status'[r] = status[r]
    PROVE  HandleInv'
<1>1. UNCHANGED <<life, slipped, of, halt, tapRunning, tx>>
  BY DEF Handle, CreateCall, CreateAcquire, CreateTestRunning, CreateTestOpens, Tested, CreateSet,
         MediaIoctl, CloseCall, CloseAcquire, CloseFlush, CloseEnd, FlushIrp, FlushPop,
         FlushCancel, FlushPacket, adapterVars, openVars, sendVars, readVars
<1>2. CASE FlushIrp(h) \/ FlushPacket
  <2>1. UNCHANGED <<hd, mutex, opens, late>>
    BY <1>2 DEF FlushIrp, FlushPop, FlushCancel, FlushPacket, openVars, sendVars
  <2>2. pktq' = pktq \/ (pktq.size > 0 /\ pktq' = QueuePop(PacketCap, pktq))
    BY <1>2 DEF FlushIrp, FlushPop, FlushCancel, FlushPacket, queueVars
  <2>3. PktElems' \subseteq PktElems
    BY <2>2, PacketsLeave DEF PathInv
  <2> QED
    BY <1>1, <2>1, <2>3, HandleFrame
<1>3. CASE ~(FlushIrp(h) \/ FlushPacket)
  <2>1. UNCHANGED <<pktq, status>>
    BY <1>3, HandleOnly
  <2>2. CASE MediaIoctl(h)
    <3>1. UNCHANGED <<hd, mutex, opens, late>>
      BY <2>2 DEF MediaIoctl, sendVars
    <3> QED
      BY <1>1, <2>1, <3>1, HandleFrame DEF PktElems
  <2>3. CASE CreateCall(h) \/ CreateAcquire(h) \/ CreateTestRunning(h) \/ CreateTestOpens(h)
             \/ CreateSet(h)
    <3>1. late' = late
      BY <2>3 DEF CreateCall, CreateAcquire, CreateTestRunning, CreateTestOpens, Tested, CreateSet,
                  sendVars
    <3> QED
      BY <1>1, <2>1, <2>3, <3>1, CreateOwner
  <2>4. CASE CloseCall(h) \/ CloseAcquire(h) \/ CloseEnd(h)
    BY <1>1, <2>1, <2>4, CloseOwner
  <2>5. CASE CloseFlush(h)
    <3>1. /\ hd[h] = "flush" /\ hd' = [hd EXCEPT ![h] = "drain"]
          /\ UNCHANGED <<mutex, opens, late>>
      BY <1>3, <2>5 DEF CloseFlush, sendVars
    <3> QED
      BY <1>1, <2>1, <3>1, CloseOwner
  <2> QED
    BY <2>2, <2>3, <2>4, <2>5 DEF Handle
<1> QED
  BY <1>2, <1>3

-----------------------------------------------------------------------------
LEMMA HandleStep ==
    ASSUME TypeOK, PathInv, AdapterInv, HandleInv, [Next]_vars
    PROVE  HandleInv'
<1>0. \A r \in Irps : status[r] # None => status'[r] = status[r]
  BY StatusKept
<1>1. CASE Adapter
  <2>1. CASE TapDeviceQueues
    <3>1. \A h \in Handles : hd[h] = "none"
      BY <2>1 DEF TapDeviceQueues, AdapterInv, LifeInv
    <3>2. UNCHANGED <<hd, mutex, opens, slipped, of, late, halt, pktq, tx>>
      BY <2>1, ElsewhereFrame DEF TapDeviceQueues
    <3>3. /\ ~Cleared /\ ~Cleared' /\ life' \notin {"opens", "flag", "sleep1"}
          /\ UNCHANGED <<status>>
      BY <2>1, ElsewhereFrame DEF TapDeviceQueues, Cleared
    <3>4. MutexInv' /\ OpensInv' /\ SlipInv'
      BY <3>1, <3>2, <3>3 DEF HandleInv, MutexInv, OpensInv, SlipInv
    <3>5. OneOwner' /\ LateInv'
      BY <3>2, <3>3 DEF HandleInv, OneOwner, LateInv, Owner, PktElems
    <3> QED
      BY <3>4, <3>5 DEF HandleInv
  <2>2. CASE ClearTapIsRunning
    <3>1. /\ UNCHANGED <<hd, mutex, opens, slipped, of, late, halt, pktq, tx, status>>
          /\ ~tapRunning' /\ life' = "opens" /\ ~Cleared /\ ~Cleared'
      BY <2>2, ElsewhereFrame DEF ClearTapIsRunning, Cleared
    <3>4. MutexInv' /\ OpensInv' /\ SlipInv'
      BY <3>1 DEF HandleInv, MutexInv, OpensInv, SlipInv
    <3>5. OneOwner' /\ LateInv'
      BY <3>1 DEF HandleInv, OneOwner, LateInv, Owner, PktElems
    <3> QED
      BY <3>4, <3>5 DEF HandleInv
  <2>3. CASE ClearTapOpens
    <3>1. /\ UNCHANGED <<hd, mutex, of, late, halt, tapRunning, pktq, tx, status>>
          /\ life = "opens" /\ life' = "flag" /\ ~Cleared /\ Cleared'
          /\ slipped' = {h \in Handles : hd[h] = "retest"}
      BY <2>3 DEF ClearTapOpens, Cleared, queueVars, sendVars, readVars, irpVars
    <3>2. slipped = {} /\ ~tapRunning
      BY <3>1 DEF HandleInv, SlipInv
    <3>3. \A r \in Irps : of[r] \notin slipped'
      BY <3>1 DEF HandleInv, SlipInv
    <3>4. MutexInv' /\ OpensInv' /\ SlipInv'
      BY <3>1, <3>2 DEF HandleInv, MutexInv, OpensInv, SlipInv
    <3>5. OneOwner'
      BY <3>1, <3>2, <3>3 DEF HandleInv, OneOwner, Owner
    <3>6. LateInv'
      BY <3>1 DEF HandleInv, LateInv, Owner, PktElems
    <3> QED
      BY <3>4, <3>5, <3>6 DEF HandleInv
  <2>4. CASE SetHalt
    <3>1. /\ UNCHANGED <<hd, mutex, opens, slipped, of, late, tapRunning, status>>
          /\ life = "flag" /\ life' = "sleep1" /\ Cleared /\ Cleared' /\ halt'
      BY <2>4, ElsewhereFrame DEF SetHalt, Cleared
    <3>4. MutexInv' /\ OpensInv' /\ SlipInv' /\ OneOwner' /\ LateInv'
      BY <3>1 DEF HandleInv, MutexInv, OpensInv, SlipInv, OneOwner, LateInv, Owner
    <3> QED
      BY <3>4 DEF HandleInv
  <2>5. CASE FlushIrp(None) \/ FlushPacket
    <3>1. UNCHANGED <<life, hd, mutex, opens, slipped, of, late, halt, tapRunning, tx>>
      BY <2>5 DEF FlushIrp, FlushPop, FlushCancel, FlushPacket, openVars, sendVars, readVars,
                  adapterVars
    <3>2. pktq' = pktq \/ (pktq.size > 0 /\ pktq' = QueuePop(PacketCap, pktq))
      BY <2>5 DEF FlushIrp, FlushPop, FlushCancel, FlushPacket, queueVars
    <3> QED
      BY <1>0, <3>1, <3>2, PacketsLeave, HandleFrame DEF PathInv
  <2>6. CASE /\ ~TapDeviceQueues /\ ~ClearTapIsRunning /\ ~ClearTapOpens /\ ~SetHalt
             /\ ~FlushIrp(None) /\ ~FlushPacket
    <3>1. UNCHANGED <<hd, mutex, of, late, pktq, tx, status>>
      BY <1>1, <2>6, AdapterOnly
    <3>2. /\ UNCHANGED <<opens, slipped, halt, tapRunning>>
          /\ life' \notin {"opens", "flag", "sleep1"} /\ (Cleared => Cleared')
      BY <1>1, <2>6, ElsewhereFrame
      DEF Adapter, DriverEntry, AdapterCreate, AdapterConfigure, CreateTapName,
          CreateLinkName, RegisterDevice, TapDeviceStep, AdapterAdd, SetPower, AdapterHalt,
          DestroyTapDevice, HaltFlush, Sleep, Proceed, HaltFree, AdapterRemove,
          TapDriverUnload, Caught, Cleared
    <3>3. MutexInv' /\ OpensInv' /\ SlipInv'
      BY <3>1, <3>2 DEF HandleInv, MutexInv, OpensInv, SlipInv
    <3>4. OneOwner' /\ LateInv'
      BY <3>1, <3>2 DEF HandleInv, OneOwner, LateInv, Owner, PktElems
    <3> QED
      BY <3>3, <3>4 DEF HandleInv
  <2> QED
    BY <2>1, <2>2, <2>3, <2>4, <2>5, <2>6
<1>2. ASSUME NEW p \in Packets, AdapterTransmit(p)
      PROVE  HandleInv'
  <2>1. UNCHANGED <<hd, mutex, opens, slipped, of, late, halt, tapRunning, life>>
    BY <1>2 DEF AdapterTransmit, TransmitCheck, TransmitPush, TransmitMatch,
                TransmitComplete, openVars, adapterVars, readVars
  <2>2. CASE TransmitCheck(p)
    <3>1. UNCHANGED pktq /\ PktElems' = PktElems
      BY <2>2 DEF TransmitCheck, queueVars, PktElems
    <3>2. tx' = [tx EXCEPT ![p] = "done"] \/ (tx' = [tx EXCEPT ![p] = "push"] /\ opens # 0)
      BY <2>2 DEF TransmitCheck
    <3>3. ~Cleared
      BY <2>2 DEF TransmitCheck, Cleared
    <3>4. CASE tx' = [tx EXCEPT ![p] = "done"]
      <4>1. \A o \in Packets : tx'[o] = "push" => tx[o] = "push"
        BY <3>4, PathTypes
      <4> QED
        BY <1>0, <2>1, <3>1, <4>1, HandleFrame
    <3>5. CASE opens # 0
      <4>1. opens = 1
        BY <3>5 DEF TypeOK
      <4>2. \E h \in Handles : Owner(h)
        BY <3>3, <4>1 DEF HandleInv, OpensInv, Owner
      <4>3. LateInv'
        BY <2>1, <4>2 DEF LateInv, Owner
      <4>4. MutexInv' /\ OpensInv' /\ SlipInv'
        BY <2>1 DEF HandleInv, MutexInv, OpensInv, SlipInv, Cleared
      <4>5. OneOwner'
        BY <1>0, <2>1, Caps DEF HandleInv, OneOwner, Owner
      <4> QED
        BY <4>3, <4>4, <4>5 DEF HandleInv
    <3> QED
      BY <3>2, <3>4, <3>5
  <2>3. CASE TransmitPush(p)
    <3>1. /\ tx[p] = "push"
          /\ \A o \in Packets : tx'[o] = "push" => tx[o] = "push"
      BY <2>3, PathTypes DEF TransmitPush
    <3>2. PktElems' \subseteq PktElems \cup {p}
      <4>1. CASE IsUp /\ ~QueueFull(PacketCap, pktq)
        <5>1. /\ QueueOK(Packets, PacketCap, pktq) /\ p \notin Elems(PacketCap, pktq)
              /\ ~QueueFull(PacketCap, pktq)
          BY <3>1, <4>1 DEF PathInv, QueuesInv, PktElems
        <5>2. Elems(PacketCap, QueuePush(PacketCap, pktq, p)) = Elems(PacketCap, pktq) \cup {p}
          BY <5>1, Caps, PushElems
        <5> QED
          BY <2>3, <4>1, <5>2 DEF TransmitPush, PktElems
      <4>2. CASE ~(IsUp /\ ~QueueFull(PacketCap, pktq))
        BY <2>3, <4>2 DEF TransmitPush, PktElems
      <4> QED
        BY <4>1, <4>2
    <3>3. LateInv'
      BY <2>1, <3>1, <3>2 DEF HandleInv, LateInv, Owner
    <3>4. MutexInv' /\ OpensInv' /\ SlipInv'
      BY <2>1 DEF HandleInv, MutexInv, OpensInv, SlipInv, Cleared
    <3>5. OneOwner'
      BY <1>0, <2>1, Caps DEF HandleInv, OneOwner, Owner
    <3> QED
      BY <3>3, <3>4, <3>5 DEF HandleInv
  <2>4. CASE TransmitMatch(p) \/ TransmitComplete(p)
    <3>1. pktq' = pktq \/ (pktq.size > 0 /\ pktq' = QueuePop(PacketCap, pktq))
      BY <2>4 DEF TransmitMatch, TransmitComplete, queueVars
    <3>2. \A o \in Packets : tx'[o] = "push" => tx[o] = "push"
      BY <2>4, PathTypes DEF TransmitMatch, TransmitComplete
    <3> QED
      BY <1>0, <2>1, <3>1, <3>2, PacketsLeave, HandleFrame DEF PathInv
  <2> QED
    BY <1>2, <2>2, <2>3, <2>4 DEF AdapterTransmit
<1>3. ASSUME NEW r \in Irps, NEW h \in Handles, ReadCall(h, r)
      PROVE  HandleInv'
  <2>1. /\ UNCHANGED <<life, hd, mutex, opens, slipped, late, halt, tapRunning, tx, pktq>>
        /\ of' = [of EXCEPT ![r] = h] /\ hd[h] = "open" /\ rd[r] = "new"
        /\ IoComplete(r, "failed") \/ (Admitted /\ ifRunning)
    BY <1>3 DEF ReadCall, adapterVars, openVars, sendVars, queueVars
  <2>2. of'[r] = h /\ \A x \in Irps : x # r => of'[x] = of[x]
    BY <2>1 DEF TypeOK
  <2>3. MutexInv' /\ OpensInv' /\ LateInv'
    BY <2>1 DEF HandleInv, MutexInv, OpensInv, Cleared, LateInv, Owner, PktElems
  <2>4. SlipInv'
    BY <2>1, <2>2 DEF HandleInv, SlipInv, Cleared
  <2>5. h \in slipped => status'[r] = "failed"
    <3>1. status[r] = None
      BY <2>1 DEF PathInv, StatusInv
    <3>2. CASE IoComplete(r, "failed")
      BY <3>1, <3>2, PathTypes DEF IoComplete
    <3>3. CASE Admitted /\ ifRunning
      BY <3>3, AdmittedIsUp DEF HandleInv, SlipInv, Cleared
    <3> QED
      BY <2>1, <3>2, <3>3
  <2>6. OneOwner'
    BY <1>0, <2>1, <2>2, <2>5, Caps DEF HandleInv, OneOwner, Owner
  <2> QED
    BY <2>3, <2>4, <2>6 DEF HandleInv
<1>6. ASSUME NEW r \in Irps, ReadPop(r) \/ ReadPend(r) \/ Cancel(r)
      PROVE  HandleInv'
  <2>1. UNCHANGED <<life, hd, mutex, opens, slipped, of, late, halt, tapRunning, tx>>
    BY <1>6 DEF ReadPop, ReadPend, Cancel, IoCancelIrp, CancelIRPCallback,
                openVars, adapterVars, sendVars, readVars
  <2>2. pktq' = pktq \/ (pktq.size > 0 /\ pktq' = QueuePop(PacketCap, pktq))
    BY <1>6 DEF ReadPop, ReadPend, Cancel, IoCancelIrp, CancelIRPCallback, queueVars
  <2> QED
    BY <1>0, <2>1, <2>2, PacketsLeave, HandleFrame DEF PathInv
<1>4. ASSUME NEW h \in Handles, Handle(h)
      PROVE  HandleInv'
  BY <1>0, <1>4, HandleOwnStep
<1>5. CASE UNCHANGED vars
  BY <1>0, <1>5, HandleFrame
  DEF vars, adapterVars, openVars, queueVars, sendVars, readVars, PktElems
<1> QED
  BY <1>1, <1>2, <1>3, <1>4, <1>5, <1>6 DEF Next, Stopped, Read

-----------------------------------------------------------------------------
\* While no interface comes up and no queue grows, packets and reads that wait on
\* each other stay in a transmit's hands.
LEMMA IdleFrame ==
    ASSUME IdlePairsAreLate, power' = power, IsUp' => IsUp,
           pktq.size > 0 \/ ~(pktq'.size > 0), irpq.size > 0 \/ ~(irpq'.size > 0),
           \A p \in Packets : tx[p] \in {"match", "complete"} => tx'[p] \in {"match", "complete"},
           lateRead \subseteq lateRead'
    PROVE  IdlePairsAreLate'
BY DEF IdlePairsAreLate

LEMMA FlushOnly ==
    ASSUME NEW f \in Flushers, FlushIrp(f) \/ FlushPacket
    PROVE  /\ UNCHANGED <<adapterVars, opens, media, mutex, hd, slipped, sendVars, readVars, cx,
                          blind, given>>
           /\ pktq' = pktq \/ (pktq.size > 0 /\ pktq' = QueuePop(PacketCap, pktq))
           /\ irpq' = irpq \/ (irpq.size > 0 /\ irpq' = QueuePop(IrpCap, irpq))
<1>1. CASE FlushPop(f)
  BY <1>1 DEF FlushPop, irpVars, portGhosts
<1>2. CASE FlushCancel(f)
  BY <1>2 DEF FlushCancel, IoComplete, queueVars, portGhosts
<1>3. CASE FlushPacket
  BY <1>3 DEF FlushPacket, openVars, irpVars
<1> QED
  BY <1>1, <1>2, <1>3 DEF FlushIrp

LEMMA IdleStep ==
    ASSUME TypeOK, PathInv, AdapterInv, IdlePairsAreLate, [Next]_vars
    PROVE  IdlePairsAreLate'
<1>0. pktq.size \in Nat /\ irpq.size \in Nat
  BY QueueFacts, Caps DEF PathInv
<1>6. ASSUME NEW f \in Flushers, FlushIrp(f) \/ FlushPacket
      PROVE  IdlePairsAreLate'
  <2>1. UNCHANGED <<power, ifRunning, tapRunning, tx, lateRead>>
    BY <1>6, FlushOnly DEF adapterVars, sendVars, readVars
  <2>2. /\ pktq.size > 0 \/ ~(pktq'.size > 0)
        /\ irpq.size > 0 \/ ~(irpq'.size > 0)
    BY <1>6, FlushOnly
  <2> QED
    BY <2>1, <2>2, IdleFrame DEF IsUp
<1>1. CASE Adapter
  <2>1. CASE TapDeviceQueues \/ AdapterAdd
    <3>1. pktq.size = 0 /\ pktq' = pktq
      BY <2>1, ElsewhereFrame DEF TapDeviceQueues, AdapterAdd, AdapterInv, QuietInv, Busy
    <3> QED
      BY <3>1 DEF IdlePairsAreLate
  <2>2. CASE SetPower
    <3>1. UNCHANGED <<pktq, irpq, tx, lateRead, tapRunning>>
      BY <2>2, ElsewhereFrame DEF SetPower
    <3>2. power' = power \/ power' # 0
      BY <2>2 DEF SetPower, TypeOK
    <3>3. power = 0 => ifRunning
      BY <2>2 DEF SetPower, AdapterInv, LifeInv
    <3> QED
      BY <3>1, <3>2, <3>3 DEF IdlePairsAreLate, IsUp
  <2>3. CASE FlushIrp(None) \/ FlushPacket
    BY <1>6, <2>3 DEF Flushers
  <2>4. CASE /\ ~TapDeviceQueues /\ ~AdapterAdd /\ ~SetPower
             /\ ~FlushIrp(None) /\ ~FlushPacket
    <3>1. UNCHANGED <<pktq, irpq, tx, lateRead>>
      BY <1>1, <2>4, AdapterOnly
    <3>2. power' = power /\ (IsUp' => IsUp)
      BY <1>1, <2>4
      DEF Adapter, DriverEntry, AdapterCreate, AdapterConfigure, CreateTapName,
          CreateLinkName, RegisterDevice, TapDeviceStep, AdapterHalt, DestroyTapDevice,
          ClearTapIsRunning, ClearTapOpens, SetHalt, Sleep, Proceed, HaltFlush, HaltFree,
          AdapterRemove, TapDriverUnload, Caught, IsUp
    <3> QED
      BY <3>1, <3>2 DEF IdlePairsAreLate
  <2> QED
    BY <2>1, <2>2, <2>3, <2>4
<1>2. ASSUME NEW p \in Packets, AdapterTransmit(p)
      PROVE  IdlePairsAreLate'
  <2>1. UNCHANGED <<power, ifRunning, tapRunning, lateRead>>
    BY <1>2 DEF AdapterTransmit, TransmitCheck, TransmitPush, TransmitMatch,
                TransmitComplete, readVars, adapterVars
  <2>2. CASE TransmitCheck(p)
    <3>1. /\ UNCHANGED <<pktq, irpq>>
          /\ \A o \in Packets : tx[o] \in {"match", "complete"} => tx'[o] \in {"match", "complete"}
      BY <2>2, PathTypes DEF TransmitCheck, queueVars
    <3> QED
      BY <2>1, <3>1, IdleFrame DEF IsUp
  <2>3. CASE tx'[p] \in {"match", "complete"}
    BY <2>3 DEF IdlePairsAreLate
  <2>4. CASE TransmitPush(p) /\ tx'[p] \notin {"match", "complete"}
    <3>1. ~(IsUp /\ ~QueueFull(PacketCap, pktq))
      BY <2>4, PathTypes DEF TransmitPush
    <3>2. UNCHANGED <<pktq, irpq>> /\ tx' = [tx EXCEPT ![p] = "done"] /\ tx[p] = "push"
      BY <2>4, <3>1 DEF TransmitPush
    <3>3. \A o \in Packets : tx[o] \in {"match", "complete"} => tx'[o] \in {"match", "complete"}
      BY <3>2, PathTypes
    <3> QED
      BY <2>1, <3>2, <3>3, IdleFrame DEF IsUp
  <2>5. CASE TransmitMatch(p) /\ tx'[p] \notin {"match", "complete"}
    <3>1. ~(IsUp /\ pktq.size > 0 /\ irpq.size > 0)
      BY <2>5, PathTypes DEF TransmitMatch
    <3>2. UNCHANGED <<pktq, irpq>>
      BY <2>5, <3>1 DEF TransmitMatch, queueVars
    <3> QED
      BY <2>1, <3>1, <3>2 DEF IdlePairsAreLate, IsUp
  <2>6. CASE TransmitComplete(p)
    <3>1. tx'[p] = "match"
      BY <2>6, PathTypes DEF TransmitComplete
    <3> QED
      BY <2>3, <3>1
  <2> QED
    BY <1>2, <2>2, <2>3, <2>4, <2>5, <2>6 DEF AdapterTransmit
<1>3. ASSUME NEW r \in Irps, Read(r) \/ Cancel(r)
      PROVE  IdlePairsAreLate'
  <2>1. UNCHANGED <<power, ifRunning, tapRunning, tx>>
    BY <1>3 DEF Read, ReadCall, ReadPop, ReadPend, Cancel, IoCancelIrp, CancelIRPCallback,
                sendVars, adapterVars
  <2>2. CASE ReadPend(r)
    <3>1. pktq' = pktq
      BY <2>2 DEF ReadPend
    <3>2. CASE IsUp /\ ~QueueFull(IrpCap, irpq)
      <4>1. lateRead' = IF pktq.size > 0 THEN lateRead \cup {r} ELSE lateRead
        BY <2>2, <3>2 DEF ReadPend
      <4> QED
        BY <3>1, <4>1 DEF IdlePairsAreLate
    <3>3. CASE ~(IsUp /\ ~QueueFull(IrpCap, irpq))
      <4>1. UNCHANGED <<irpq, lateRead>>
        BY <2>2, <3>3 DEF ReadPend
      <4> QED
        BY <2>1, <3>1, <4>1, IdleFrame DEF IsUp
    <3> QED
      BY <3>2, <3>3
  <2>3. CASE ~ReadPend(r)
    <3>1. UNCHANGED lateRead
      BY <1>3, <2>3 DEF Read, ReadCall, ReadPop, Cancel, IoCancelIrp, CancelIRPCallback, readVars
    <3>2. pktq' = pktq \/ (pktq.size > 0 /\ pktq' = QueuePop(PacketCap, pktq))
      BY <1>3, <2>3 DEF Read, ReadCall, ReadPop, Cancel, IoCancelIrp, CancelIRPCallback,
                        queueVars
    <3>3. irpq' = irpq \/ irpq' = QueueExtract(IrpCap, irpq, r)
      BY <1>3, <2>3 DEF Read, ReadCall, ReadPop, Cancel, IoCancelIrp, CancelIRPCallback,
                        CancelQueued, CancelBlindly, queueVars
    <3>4. pktq'.size \in 0 .. pktq.size /\ irpq'.size \in 0 .. irpq.size
      BY <3>2, <3>3, PacketsLeave, IrpsLeave DEF PathInv
    <3>5. /\ pktq.size > 0 \/ ~(pktq'.size > 0)
          /\ irpq.size > 0 \/ ~(irpq'.size > 0)
      BY <1>0, <3>4
    <3> QED
      BY <2>1, <3>1, <3>5, IdleFrame DEF IsUp
  <2> QED
    BY <2>2, <2>3
<1>4. ASSUME NEW h \in Handles, Handle(h)
      PROVE  IdlePairsAreLate'
  <2>1. CASE FlushIrp(h) \/ FlushPacket
    BY <1>6, <2>1 DEF Flushers
  <2>2. CASE ~FlushIrp(h) /\ ~FlushPacket
    <3>1. UNCHANGED <<pktq, irpq, tx, lateRead>>
      BY <1>4, <2>2, HandleOnly
    <3>2. UNCHANGED <<power, ifRunning, tapRunning>>
      BY <1>4, <2>2
      DEF Handle, CreateCall, CreateAcquire, CreateTestRunning, CreateTestOpens, Tested,
          CreateSet, MediaIoctl, CloseCall, CloseAcquire, CloseFlush, CloseEnd, adapterVars
    <3> QED
      BY <3>1, <3>2 DEF IdlePairsAreLate, IsUp
  <2> QED
    BY <2>1, <2>2
<1>5. CASE UNCHANGED vars
  BY <1>5 DEF vars, adapterVars, queueVars, sendVars, readVars, IsUp, IdlePairsAreLate
<1> QED
  BY <1>1, <1>2, <1>3, <1>4, <1>5 DEF Next, Stopped

-----------------------------------------------------------------------------
\* TypeOK when only the adapter moves.
LEMMA OthersTyped ==
    ASSUME TypeOK, pktq' \in Queues(Packets, PacketCap), irpq' \in Queues(Irps, IrpCap),
           UNCHANGED <<mutex, hd, popped, tx, pair, late, rd, of, lateRead, cx, again, blind, given>>,
           armed' \subseteq Irps,
           status' \in [Irps -> {None, "answered", "cancelled", "failed"}],
           fate' \in [Packets -> {"new", "refused", "queued", "taken", "discarded"}],
           life' \in Life, held' \subseteq Resources,
           frees' \in [{"tap", "adapter"} -> 0 .. 1],
           listed' \in BOOLEAN, ifRunning' \in BOOLEAN, tapRunning' \in BOOLEAN,
           halt' \in BOOLEAN, always' \in BOOLEAN, media' \in BOOLEAN,
           opens' \in {0, 1}, slipped' \subseteq Handles, power' \in 0 .. MaxPower
    PROVE  TypeOK'
BY DEF TypeOK

\* The resources of the adapter and the two free functions.
LEMMA FreedOnce ==
    ASSUME TypeOK, HeldInv, life \notin {"failed", "remove", "halted", "unloaded", "bugcheck"},
           FreeResources \/ AdapterFreeResources
    PROVE  held' \subseteq Resources /\ frees' \in [{"tap", "adapter"} -> 0 .. 1]
<1>1. /\ frees \in [{"tap", "adapter"} -> 0 .. 1] /\ held \subseteq Resources
      /\ frees["tap"] = 0 /\ frees["adapter"] = 0
  BY DEF TypeOK, HeldInv
<1>2. held' \subseteq Resources
  BY <1>1 DEF FreeResources, AdapterFreeResources
<1>3. frees' \in [{"tap", "adapter"} -> 0 .. 1]
  BY <1>1 DEF FreeResources, AdapterFreeResources
<1> QED
  BY <1>2, <1>3

\* What a flush moves.
LEMMA FlushTypes ==
    ASSUME TypeOK, PathInv, pktq' \in Queues(Packets, PacketCap),
           irpq' \in Queues(Irps, IrpCap), NEW f \in Flushers, FlushIrp(f) \/ FlushPacket
    PROVE  TypeOK'
<1>1. UNCHANGED <<adapterVars, opens, media, mutex, hd, slipped, sendVars, readVars, cx, blind, given>>
  BY FlushOnly
<1>2. /\ popped' \in [Flushers -> Irps \cup {None}]
      /\ armed' \subseteq Irps /\ again' \subseteq Irps
      /\ status' \in [Irps -> {None, "answered", "cancelled", "failed"}]
      /\ fate' \in [Packets -> {"new", "refused", "queued", "taken", "discarded"}]
  <2>1. CASE FlushPop(f)
    <3>1. Oldest(irpq) \in Irps
      BY <2>1, PopIrp DEF FlushPop, PathInv
    <3> QED
      BY <2>1, <3>1 DEF FlushPop, irpVars, portGhosts, TypeOK
  <2>2. CASE FlushCancel(f)
    <3>1. popped[f] \in Irps
      BY <2>2, PathTypes DEF FlushCancel
    <3> QED
      BY <2>2, <3>1 DEF FlushCancel, IoComplete, portGhosts, TypeOK
  <2>3. CASE FlushPacket
    BY <2>3 DEF FlushPacket, openVars, irpVars, TypeOK
  <2> QED
    BY <2>1, <2>2, <2>3 DEF FlushIrp
<1> QED
  BY <1>1, <1>2 DEF TypeOK, adapterVars, sendVars, readVars

LEMMA AdapterTypes ==
    ASSUME TypeOK, PathInv, AdapterInv, pktq' \in Queues(Packets, PacketCap),
           irpq' \in Queues(Irps, IrpCap), Adapter
    PROVE  TypeOK'
<1>1. /\ life \in Life /\ held \subseteq Resources
      /\ frees \in [{"tap", "adapter"} -> 0 .. 1]
      /\ listed \in BOOLEAN /\ ifRunning \in BOOLEAN /\ tapRunning \in BOOLEAN
      /\ halt \in BOOLEAN /\ always \in BOOLEAN /\ media \in BOOLEAN
      /\ opens \in {0, 1} /\ power \in 0 .. MaxPower
      /\ slipped \subseteq Handles /\ armed \subseteq Irps
      /\ status \in [Irps -> {None, "answered", "cancelled", "failed"}]
      /\ fate \in [Packets -> {"new", "refused", "queued", "taken", "discarded"}]
  BY DEF TypeOK
<1>2. CASE FlushIrp(None) \/ FlushPacket
  BY <1>2, FlushTypes DEF Flushers
<1>3. CASE ~FlushIrp(None) /\ ~FlushPacket
  <2>1. UNCHANGED <<mutex, hd, popped, tx, pair, late, rd, of, lateRead, armed, cx, status, again,
                    blind, fate, given>>
    BY <1>3, AdapterOnly
  <2>2. life' \in Life
    BY <1>3
    DEF Adapter, DriverEntry, AdapterCreate, AdapterConfigure, CreateTapName,
        CreateLinkName, RegisterDevice, TapDeviceStep, TapDeviceQueues, AdapterAdd, SetPower,
        AdapterHalt, DestroyTapDevice, ClearTapIsRunning, ClearTapOpens, SetHalt,
        Sleep, Proceed, HaltFlush, HaltFree, AdapterRemove,
        TapDriverUnload, Caught, Life, TypeOK
  <2>3. held' \subseteq Resources /\ frees' \in [{"tap", "adapter"} -> 0 .. 1]
    <3>1. CASE FreeResources \/ AdapterFreeResources
      <4>1. life \notin {"failed", "remove", "halted", "unloaded", "bugcheck"}
        BY <1>1, <1>3, <3>1
        DEF Adapter, DriverEntry, AdapterCreate, AdapterConfigure, CreateTapName,
            CreateLinkName, RegisterDevice, TapDeviceStep, TapDeviceQueues, AdapterAdd, SetPower,
            AdapterHalt, DestroyTapDevice, ClearTapIsRunning, ClearTapOpens, SetHalt,
            Sleep, Proceed, HaltFlush, HaltFree, AdapterRemove,
            TapDriverUnload, Caught, FreeResources, AdapterFreeResources
      <4> QED
        BY <3>1, <4>1, FreedOnce DEF AdapterInv
    <3>2. CASE ~FreeResources /\ ~AdapterFreeResources
      <4>1. frees' = frees
        BY <1>3, <3>2
        DEF Adapter, DriverEntry, AdapterCreate, AdapterConfigure, CreateTapName,
            CreateLinkName, RegisterDevice, TapDeviceStep, TapDeviceQueues, AdapterAdd, SetPower,
            AdapterHalt, DestroyTapDevice, ClearTapIsRunning, ClearTapOpens, SetHalt,
            Sleep, Proceed, HaltFlush, HaltFree, AdapterRemove,
            TapDriverUnload, Caught
      <4>2. held' \subseteq held \cup Resources
        BY <1>3, <3>2
        DEF Adapter, DriverEntry, AdapterCreate, AdapterConfigure, CreateTapName,
            CreateLinkName, RegisterDevice, TapDeviceStep, TapDeviceQueues, AdapterAdd, SetPower,
            AdapterHalt, DestroyTapDevice, ClearTapIsRunning, ClearTapOpens, SetHalt,
            Sleep, Proceed, HaltFlush, HaltFree, AdapterRemove,
            TapDriverUnload, Caught, InitInstanceList, FreeInstanceList,
            RemoveAdapterFromInstanceList, Resources, DeviceParts, AdapterParts
      <4> QED
        BY <1>1, <4>1, <4>2
    <3> QED
      BY <3>1, <3>2
  <2>4. /\ listed' \in BOOLEAN /\ ifRunning' \in BOOLEAN /\ tapRunning' \in BOOLEAN
        /\ halt' \in BOOLEAN /\ opens' \in {0, 1} /\ slipped' \subseteq Handles
    BY <1>1, <1>3
    DEF Adapter, DriverEntry, AdapterCreate, AdapterConfigure, CreateTapName,
        CreateLinkName, RegisterDevice, TapDeviceStep, TapDeviceQueues, AdapterAdd, SetPower,
        AdapterHalt, DestroyTapDevice, ClearTapIsRunning, ClearTapOpens, SetHalt,
        Sleep, Proceed, HaltFlush, HaltFree, AdapterRemove,
        TapDriverUnload, Caught, AddAdapterToInstanceList, RemoveAdapterFromInstanceList,
        Elsewhere, openVars
  <2>6. power' \in 0 .. MaxPower
    <3>1. power' = power \/ (power < MaxPower /\ power' = power + 1)
      BY <1>3
      DEF Adapter, DriverEntry, AdapterCreate, AdapterConfigure, CreateTapName,
          CreateLinkName, RegisterDevice, TapDeviceStep, TapDeviceQueues, AdapterAdd, SetPower,
          AdapterHalt, DestroyTapDevice, ClearTapIsRunning, ClearTapOpens, SetHalt,
          Sleep, Proceed, HaltFlush, HaltFree, AdapterRemove,
          TapDriverUnload, Caught, Elsewhere
    <3> QED
      BY <1>1, <3>1, Caps
  <2>5. always' \in BOOLEAN /\ media' \in BOOLEAN
    BY <1>1, <1>3, DriverAssumption
    DEF Adapter, DriverEntry, AdapterCreate, AdapterConfigure, CreateTapName,
        CreateLinkName, RegisterDevice, TapDeviceStep, TapDeviceQueues, AdapterAdd, SetPower,
        AdapterHalt, DestroyTapDevice, ClearTapIsRunning, ClearTapOpens, SetHalt,
        Sleep, Proceed, HaltFlush, HaltFree, AdapterRemove,
        TapDriverUnload, Caught, Elsewhere, openVars
  <2> QED
    BY <1>1, <2>1, <2>2, <2>3, <2>4, <2>5, <2>6, OthersTyped
<1> QED
  BY <1>2, <1>3

LEMMA AdapterTransmitTypes ==
    ASSUME TypeOK, PathInv, pktq' \in Queues(Packets, PacketCap),
           irpq' \in Queues(Irps, IrpCap), NEW p \in Packets, AdapterTransmit(p)
    PROVE  TypeOK'
<1>1. UNCHANGED <<adapterVars, openVars, late, readVars, cx, blind>>
  BY DEF AdapterTransmit, TransmitCheck, TransmitPush, TransmitMatch, TransmitComplete,
         irpVars, CompleteIRP, IoComplete
<1>2. tx' \in [Packets -> {"new", "push", "match", "complete", "done"}]
  BY DEF AdapterTransmit, TransmitCheck, TransmitPush, TransmitMatch, TransmitComplete, TypeOK
<1>3. /\ pair' \in [Packets -> (Irps \X Packets) \cup {<<>>}]
      /\ armed' \subseteq Irps /\ again' \subseteq Irps
      /\ status' \in [Irps -> {None, "answered", "cancelled", "failed"}]
      /\ fate' \in [Packets -> {"new", "refused", "queued", "taken", "discarded"}]
      /\ given' \in [Irps -> Packets \cup {None}]
  <2>1. CASE TransmitCheck(p)
    BY <2>1 DEF TransmitCheck, TypeOK, irpVars
  <2>2. CASE TransmitPush(p)
    BY <2>2 DEF TransmitPush, TypeOK, irpVars
  <2>3. CASE TransmitMatch(p)
    <3>1. CASE IsUp /\ pktq.size > 0 /\ irpq.size > 0
      <4>1. Oldest(irpq) \in Irps /\ Oldest(pktq) \in Packets
        BY <2>3, <3>1, PopIrp, PopPacket DEF TransmitMatch, PathInv
      <4> QED
        BY <2>3, <3>1, <4>1 DEF TransmitMatch, HandPacket, TypeOK, irpVars
    <3>2. CASE ~(IsUp /\ pktq.size > 0 /\ irpq.size > 0)
      BY <2>3, <3>2 DEF TransmitMatch, TypeOK, irpVars, portGhosts
    <3> QED
      BY <3>1, <3>2
  <2>4. CASE TransmitComplete(p)
    <3>1. pair[p] \in Irps \X Packets
      BY <2>4, PathTypes DEF TransmitComplete, PathInv, PairInv
    <3> QED
      BY <2>4, <3>1 DEF TransmitComplete, CompleteIRP, IoComplete, TypeOK, portGhosts
  <2> QED
    BY <2>1, <2>2, <2>3, <2>4 DEF AdapterTransmit
<1> QED
  BY <1>1, <1>2, <1>3 DEF TypeOK, adapterVars, openVars, readVars

LEMMA ReadTypes ==
    ASSUME TypeOK, PathInv, pktq' \in Queues(Packets, PacketCap),
           irpq' \in Queues(Irps, IrpCap), NEW r \in Irps, Read(r)
    PROVE  TypeOK'
<1>1. UNCHANGED <<adapterVars, openVars, sendVars, cx, blind>>
  BY DEF Read, ReadCall, ReadPop, ReadPend, CompleteIRP, IoComplete
<1>2. /\ rd' \in [Irps -> {"new", "pop", "pend", "pended", "done"}]
      /\ of' \in [Irps -> Handles \cup {None}] /\ lateRead' \subseteq Irps
      /\ armed' \subseteq Irps /\ again' \subseteq Irps
      /\ status' \in [Irps -> {None, "answered", "cancelled", "failed"}]
  BY DEF Read, ReadCall, ReadPop, ReadPend, CompleteIRP, IoComplete, TypeOK
<1>3. /\ fate' \in [Packets -> {"new", "refused", "queued", "taken", "discarded"}]
      /\ given' \in [Irps -> Packets \cup {None}]
  <2>1. CASE ReadPop(r) /\ IsUp /\ pktq.size > 0 /\ irpq.size = 0
    <3>1. Oldest(pktq) \in Packets
      BY <2>1, PopPacket DEF ReadPop, PathInv
    <3> QED
      BY <2>1, <3>1 DEF ReadPop, HandPacket, TypeOK
  <2>2. CASE ~(ReadPop(r) /\ IsUp /\ pktq.size > 0 /\ irpq.size = 0)
    BY <2>2 DEF Read, ReadCall, ReadPop, ReadPend, TypeOK, portGhosts
  <2> QED
    BY <2>1, <2>2
<1> QED
  BY <1>1, <1>2, <1>3 DEF TypeOK, adapterVars, openVars, sendVars

LEMMA CancelTypes ==
    ASSUME TypeOK, pktq' \in Queues(Packets, PacketCap), irpq' \in Queues(Irps, IrpCap),
           NEW r \in Irps, Cancel(r)
    PROVE  TypeOK'
<1>1. UNCHANGED <<adapterVars, openVars, sendVars, readVars, portGhosts>>
  BY DEF Cancel, IoCancelIrp, CancelIRPCallback
<1>2. /\ armed' \subseteq Irps /\ again' \subseteq Irps /\ blind' \subseteq Irps
      /\ cx' \in [Irps -> {"no", "called", "done"}]
      /\ status' \in [Irps -> {None, "answered", "cancelled", "failed"}]
  BY DEF Cancel, IoCancelIrp, CancelIRPCallback, CancelQueued, CancelBlindly, IoComplete, TypeOK
<1> QED
  BY <1>1, <1>2 DEF TypeOK, adapterVars, openVars, sendVars, readVars, portGhosts

LEMMA HandleTypes ==
    ASSUME TypeOK, PathInv, pktq' \in Queues(Packets, PacketCap),
           irpq' \in Queues(Irps, IrpCap), NEW h \in Handles, Handle(h)
    PROVE  TypeOK'
<1>1. CASE FlushIrp(h) \/ FlushPacket
  BY <1>1, FlushTypes DEF Flushers
<1>2. CASE ~FlushIrp(h) /\ ~FlushPacket
  <2>1. UNCHANGED <<popped, slipped, tx, pair, rd, of, lateRead, irpVars, portGhosts>>
    BY <1>2, HandleOnly DEF irpVars, portGhosts
  <2>2. UNCHANGED adapterVars
    BY <1>2
    DEF Handle, CreateCall, CreateAcquire, CreateTestRunning, CreateTestOpens, Tested,
        CreateSet, MediaIoctl, CloseCall, CloseAcquire, CloseFlush, CloseEnd
  <2>3. hd' \in [Handles -> {"none", "create", "test", "retest", "set", "open", "close",
                            "flush", "drain", "closed"}]
    <3>1. hd \in [Handles -> {"none", "create", "test", "retest", "set", "open", "close",
                             "flush", "drain", "closed"}]
      BY DEF TypeOK
    <3> QED
      BY <1>2, <3>1
      DEF Handle, CreateCall, CreateAcquire, CreateTestRunning, CreateTestOpens, Tested,
          CreateSet, MediaIoctl, CloseCall, CloseAcquire, CloseFlush, CloseEnd
  <2>4. opens' \in {0, 1} /\ mutex' \in Handles \cup {None}
    <3>1. opens \in {0, 1} /\ mutex \in Handles \cup {None}
      BY DEF TypeOK
    <3> QED
      BY <1>2, <3>1
      DEF Handle, CreateCall, CreateAcquire, CreateTestRunning, CreateTestOpens, Tested, Acquire,
          Release, CreateSet, MediaIoctl, CloseCall, CloseAcquire, CloseFlush, CloseEnd
  <2>5. media' \in BOOLEAN /\ late' \subseteq Packets
    <3>1. media \in BOOLEAN /\ late \subseteq Packets
      BY DEF TypeOK
    <3> QED
      BY <1>2, <3>1
      DEF Handle, CreateCall, CreateAcquire, CreateTestRunning, CreateTestOpens, Tested,
          CreateSet, MediaIoctl, SetMediaStatus, CloseCall, CloseAcquire, CloseFlush, CloseEnd,
          sendVars
  <2> QED
    BY <2>1, <2>2, <2>3, <2>4, <2>5 DEF TypeOK, adapterVars, irpVars, portGhosts
<1> QED
  BY <1>1, <1>2

LEMMA TypesStep ==
    ASSUME TypeOK, PathInv, AdapterInv, PathInv', [Next]_vars
    PROVE  TypeOK'
<1>1. pktq' \in Queues(Packets, PacketCap) /\ irpq' \in Queues(Irps, IrpCap)
  BY DEF PathInv, QueuesInv, QueueOK
<1>2. CASE UNCHANGED vars
  BY <1>2 DEF vars, adapterVars, openVars, queueVars, sendVars, readVars, irpVars, portGhosts,
              TypeOK
<1> QED
  BY <1>1, <1>2, AdapterTypes, AdapterTransmitTypes, ReadTypes, CancelTypes, HandleTypes
  DEF Next, Stopped

-----------------------------------------------------------------------------
\* No step of any call at any point of the life of the adapter breaks it.
THEOREM DriverInductive == Spec => []IInv
<1>1. Init => IInv
  <2> SUFFICES ASSUME Init PROVE IInv
    OBVIOUS
  <2>1. /\ QueueOK(Packets, PacketCap, pktq) /\ QueueOK(Irps, IrpCap, irpq)
        /\ PktElems = {} /\ IrpElems = {} /\ pktq.size = 0 /\ irpq.size = 0
    BY Caps, EmptyQueue DEF Init, PktElems, IrpElems, QueueInit
  <2>2. TypeOK
    <3>1. pktq \in Queues(Packets, PacketCap) /\ irpq \in Queues(Irps, IrpCap)
      BY <2>1 DEF QueueOK
    <3>2. life \in Life /\ held \subseteq Resources /\ power \in 0 .. MaxPower
      BY Caps DEF Init, Life
    <3>3. frees \in [{"tap", "adapter"} -> 0 .. 1]
      BY DEF Init
    <3>4. {listed, ifRunning, tapRunning, halt, always, media} \subseteq BOOLEAN
      BY DEF Init
    <3> QED
      BY <3>1, <3>2, <3>3, <3>4 DEF Init, TypeOK
  <2>3. PathInv
    <3>1. QueuesInv /\ PairInv /\ PopInv
      BY <2>1 DEF Init, QueuesInv, PairInv, PopInv
    <3>2. StatusInv /\ CancelInv /\ CompletedOnce
      BY <2>1 DEF Init, StatusInv, CancelInv, CompletedOnce
    <3> QED
      BY <3>1, <3>2 DEF PathInv
  <2>4. AdapterInv /\ FlushersInv
    BY <2>1 DEF Init, AdapterInv, LifeInv, HeldInv, QuietInv, Busy, FlushersInv, Flushers
  <2>5. HandleInv
    <3>1. MutexInv /\ OpensInv
      BY Caps DEF Init, MutexInv, OpensInv
    <3>2. SlipInv
      BY Caps DEF Init, SlipInv, Cleared
    <3>3. OneOwner /\ LateInv
      BY <2>1, Caps DEF Init, OneOwner, Owner, LateInv
    <3> QED
      BY <3>1, <3>2, <3>3 DEF HandleInv
  <2>6. IdlePairsAreLate
    BY <2>1 DEF IdlePairsAreLate
  <2> QED
    BY <2>2, <2>3, <2>4, <2>5, <2>6 DEF IInv
<1>2. IInv /\ [Next]_vars => IInv'
  BY PathStep, AdapterStep, FlushersStep, HandleStep, IdleStep, TypesStep DEF IInv
<1> QED
  BY <1>1, <1>2, PTL DEF Spec

\* TypeOK (WinTapDriver): with it no resource is freed twice.
THEOREM DriverTypeCorrect == Spec => []TypeOK
<1>1. IInv => TypeOK
  BY DEF IInv
<1> QED
  BY <1>1, DriverInductive, PTL

\* No IRP is completed twice, but one that a cancel completed blindly.
THEOREM IrpsCompletedOnce == Spec => []CompletedOnce
<1>1. IInv => CompletedOnce
  BY DEF IInv, PathInv
<1> QED
  BY <1>1, DriverInductive, PTL

\* A cancel ends with the IRP completed, or in the hands of the transmit or of the
\* flush that popped it.
THEOREM CancelTakesEffect == Spec => []CancelCompletes
<1>1. IInv => CancelCompletes
  BY DEF IInv, PathInv, CancelInv, PairInv, InHand, Paired, Popped, CancelCompletes
<1> QED
  BY <1>1, DriverInductive, PTL

\* One handle has the device open, but for one that the halt let slip through and
\* whose reads all fail.
THEOREM OneProgram == Spec => []OneOwner
<1>1. IInv => OneOwner
  BY DEF IInv, HandleInv
<1> QED
  BY <1>1, DriverInductive, PTL

\* What is queued in a closed device was on its way when it was closed.
THEOREM StaleWereLate == Spec => []StaleOnlyIfLate
<1>1. IInv => StaleOnlyIfLate
  <2> SUFFICES ASSUME IInv, ~halt, \A h \in Handles : ~Owner(h), NEW i \in 1 .. pktq.size
               PROVE  Contents(PacketCap, pktq)[i] \in late
    BY DEF StaleOnlyIfLate
  <2>1. PktElems \subseteq late
    BY DEF IInv, HandleInv, LateInv
  <2> QED
    BY <2>1 DEF PktElems, Elems
<1> QED
  BY <1>1, DriverInductive, PTL

\* Packets and reads wait beside each other only after a late read.
THEOREM PairsWereLate == Spec => []IdlePairsAreLate
<1>1. IInv => IdlePairsAreLate
  BY DEF IInv
<1> QED
  BY <1>1, DriverInductive, PTL

\* The halt frees nothing that a call still uses.
THEOREM FreedWhenIdle == Spec => []FreedMeansIdle
<1>1. IInv => FreedMeansIdle
  <2> SUFFICES ASSUME IInv, frees["tap"] > 0
               PROVE  /\ ~InProgress /\ pktq.size = 0 /\ irpq.size = 0
                      /\ \A r \in Irps : rd[r] = "pended" => status[r] # None
    BY DEF FreedMeansIdle
  <2>1. life \in {"failed", "remove", "halted", "unloaded", "bugcheck"}
    BY DEF IInv, AdapterInv, HeldInv
  <2>2. ~InProgress /\ pktq.size = 0 /\ irpq.size = 0
    BY <2>1 DEF IInv, AdapterInv, QuietInv, Busy, InProgress
  <2>3. \A f \in Flushers : popped[f] = None
    BY <2>1, <2>2 DEF IInv, FlushersInv, Flushers, InProgress
  <2>4. IrpElems = {} /\ \A r \in Irps : ~InHand(r)
    <3>1. ~(irpq.size > 0)
      BY <2>2
    <3> QED
      BY <2>2, <2>3, <3>1, Caps, QueueFacts DEF IInv, PathInv, InProgress, InHand, Paired, Popped
  <2> QED
    BY <2>2, <2>4 DEF IInv, PathInv, StatusInv
<1> QED
  BY <1>1, DriverInductive, PTL

\* Every way the adapter may fail or end frees what was allocated.
THEOREM AllFreed == Spec => []NothingLeaks
<1>1. IInv => NothingLeaks
  BY DEF IInv, AdapterInv, HeldInv, NothingLeaks
<1> QED
  BY <1>1, DriverInductive, PTL

-----------------------------------------------------------------------------
\* What the abstract port knows of the packets and reads: a packet that was not
\* pushed has no fate, and the request a packet was given is completed or about to be.
GivenInv ==
  /\ \A p \in Packets : tx[p] \in {"new", "push"} => fate[p] = "new"
  /\ \A r \in Irps : given[r] # None => Paired(r) \/ status[r] # None

LineOf == Contents(IrpCap, irpq)
QueueOf == Contents(PacketCap, pktq)
Open == {r \in Irps : status[r] = None}
GivenOf == [r \in {s \in Irps : given[s] # None} |-> given[r]]

LEMMA PortFacts ==
    ASSUME PathInv
    PROVE  /\ LineOf \in Seq(Irps) /\ QueueOf \in Seq(Packets)
           /\ Len(LineOf) = irpq.size /\ Len(QueueOf) = pktq.size
           /\ \A x : x \in IrpElems <=> \E i \in 1 .. Len(LineOf) : LineOf[i] = x
           /\ Waiting = Keep(LineOf, Open) /\ Waiting \in Seq(Irps)
<1>1. QueueOK(Packets, PacketCap, pktq) /\ QueueOK(Irps, IrpCap, irpq)
  BY DEF PathInv, QueuesInv
<1>2. QueueOf \in Seq(Packets) /\ Len(QueueOf) = pktq.size
  BY <1>1, Caps, ContentsOfQueue DEF QueueOf
<1>3. /\ LineOf \in Seq(Irps) /\ Len(LineOf) = irpq.size
      /\ \A x : x \in IrpElems <=> \E i \in 1 .. Len(LineOf) : LineOf[i] = x
  BY <1>1, Caps, ContentsOfQueue DEF LineOf, IrpElems
<1>4. Waiting = Keep(LineOf, Open)
  BY DEF Waiting, LineOf, Open
<1>5. Keep(LineOf, Open) \in Seq(Irps)
  BY <1>3, KeepSeq
<1> QED
  BY <1>2, <1>3, <1>4, <1>5

\* The instance has the operators of Subsequences as its own.
LEMMA PortKeep ==
    ASSUME NEW s, NEW T
    PROVE  Port!Keep(s, T) = Keep(s, T)
BY DEF Port!Keep, Port!Kept, Keep, Kept

\* Completing a request takes it out of the line, if it was in it.
LEMMA LineLeft ==
    ASSUME PathInv, NEW r \in Irps, Waiting' = Keep(LineOf, Open \ {r}),
           UNCHANGED <<pktq, fate, given>>
    PROVE  [Port!PortNext]_(Port!portVars)
<1>1. UNCHANGED <<QueueOf, fate, GivenOf>>
  BY DEF QueueOf, GivenOf
<1>2. /\ LineOf \in Seq(Irps)
      /\ Waiting = Keep(LineOf, Open) /\ Waiting \in Seq(Irps)
  BY PortFacts
<1>3. Keep(Waiting, Irps \ {r}) = Keep(LineOf, Open \cap (Irps \ {r}))
  BY <1>2, KeepKeep
<1>4. Open \cap (Irps \ {r}) = Open \ {r}
  BY DEF Open
<1>5. Waiting' = Keep(Waiting, Irps \ {r})
  BY <1>3, <1>4
<1>6. CASE \E i \in 1 .. Len(Waiting) : Waiting[i] = r
  <2>1. Port!Leave(r)
    BY <1>1, <1>5, <1>6, PortKeep DEF Port!Leave, QueueOf, GivenOf
  <2> QED
    BY <2>1 DEF Port!PortNext
<1>7. CASE ~\E i \in 1 .. Len(Waiting) : Waiting[i] = r
  <2>1. \A i \in 1 .. Len(Waiting) : Waiting[i] \in Irps \ {r} <=> Waiting[i] \in Irps
    BY <1>7
  <2>2. Keep(Waiting, Irps \ {r}) = Keep(Waiting, Irps)
    BY <1>2, <2>1, KeepAgree
  <2>3. Keep(Waiting, Irps) = Keep(LineOf, Open \cap Irps) /\ Open \cap Irps = Open
    BY <1>2, KeepKeep DEF Open
  <2>4. Waiting' = Waiting
    BY <1>2, <1>5, <2>2, <2>3
  <2> QED
    BY <1>1, <2>4 DEF Port!portVars, QueueOf, GivenOf
<1> QED
  BY <1>6, <1>7

\* The same, said of the requests that are complete.
LEMMA Completed ==
    ASSUME TypeOK, PathInv, NEW r \in Irps, status'[r] # None,
           \A x \in Irps : x # r => status'[x] = status[x],
           \/ irpq' = irpq
           \/ \E k \in 1 .. Len(LineOf) : LineOf[k] = r /\ LineOf' = OmitAt(LineOf, k),
           UNCHANGED <<pktq, fate, given>>
    PROVE  [Port!PortNext]_(Port!portVars)
<1>1. Open' = Open \ {r}
  BY DEF Open
<1>2. LineOf \in Seq(Irps) /\ Waiting' = Keep(LineOf', Open')
  BY PortFacts DEF Waiting, LineOf, Open
<1>3. Waiting' = Keep(LineOf, Open \ {r})
  <2>1. CASE irpq' = irpq
    BY <1>1, <1>2, <2>1 DEF LineOf
  <2>2. CASE \E k \in 1 .. Len(LineOf) : LineOf[k] = r /\ LineOf' = OmitAt(LineOf, k)
    <3>1. PICK k \in 1 .. Len(LineOf) : LineOf[k] = r /\ LineOf' = OmitAt(LineOf, k)
      BY <2>2
    <3>2. LineOf[k] \notin Open \ {r}
      BY <3>1
    <3> QED
      BY <1>1, <1>2, <3>1, <3>2, KeepOmit
  <2> QED
    BY <2>1, <2>2
<1> QED
  BY <1>3, LineLeft

LEMMA PortQuiet ==
    ASSUME UNCHANGED <<queueVars, status, portGhosts>>
    PROVE  UNCHANGED Port!portVars
BY DEF queueVars, portGhosts, Port!portVars, Waiting

\* What taking the oldest packet or request does to the sequences.
LEMMA PacketTaken ==
    ASSUME PathInv, pktq.size > 0, pktq' = QueuePop(PacketCap, pktq)
    PROVE  /\ QueueOf # <<>> /\ Oldest(pktq) = Head(QueueOf) /\ QueueOf' = Tail(QueueOf)
           /\ Oldest(pktq) \in Packets
<1>1. QueueOK(Packets, PacketCap, pktq) /\ pktq \in Queues(Packets, PacketCap) /\ pktq.size # 0
  BY DEF PathInv, QueuesInv, QueueOK
<1>2. /\ Oldest(pktq) = Head(QueueOf)
      /\ QueueOf' = Tail(QueueOf)
  BY <1>1, Caps, QueuePopTakesHead DEF QueueOf
<1>3. QueueOf \in Seq(Packets) /\ Len(QueueOf) = pktq.size
  BY PortFacts
<1> QED
  BY <1>1, <1>2, <1>3

LEMMA RequestTaken ==
    ASSUME PathInv, irpq.size > 0, irpq' = QueuePop(IrpCap, irpq)
    PROVE  /\ LineOf # <<>> /\ Oldest(irpq) = Head(LineOf) /\ LineOf' = Tail(LineOf)
           /\ Oldest(irpq) \in Irps /\ Oldest(irpq) \in IrpElems
           /\ LineOf[1] = Oldest(irpq) /\ 1 \in 1 .. Len(LineOf) /\ LineOf' = OmitAt(LineOf, 1)
<1>1. QueueOK(Irps, IrpCap, irpq) /\ irpq \in Queues(Irps, IrpCap) /\ irpq.size # 0
  BY DEF PathInv, QueuesInv, QueueOK
<1>2. /\ Oldest(irpq) = Head(LineOf)
      /\ LineOf' = Tail(LineOf)
  BY <1>1, Caps, QueuePopTakesHead DEF LineOf
<1>3. LineOf \in Seq(Irps) /\ Len(LineOf) = irpq.size /\ irpq.size \in Nat
  BY PortFacts
<1>4. LineOf # <<>> /\ Head(LineOf) = LineOf[1] /\ 1 \in 1 .. Len(LineOf)
  BY <1>1, <1>3
<1>5. Oldest(irpq) \in Irps /\ Oldest(irpq) \in IrpElems
  BY PopIrp DEF PathInv
<1>6. Tail(LineOf) = OmitAt(LineOf, 1)
  <2> HIDE DEF LineOf
  <2>0. /\ Tail(LineOf) \in Seq(Irps) /\ Len(Tail(LineOf)) = Len(LineOf) - 1
        /\ \A i \in 1 .. Len(Tail(LineOf)) : Tail(LineOf)[i] = LineOf[i + 1]
    BY <1>3, <1>4, HeadTailProperties
  <2> DEFINE t == Tail(LineOf)
  <2>3. t = [i \in 1 .. Len(t) |-> t[i]]
    <3>1. t \in Seq(Irps)
      BY <2>0
    <3> HIDE DEF t
    <3> QED
      BY <3>1
  <2>1. Tail(LineOf) = [i \in 1 .. Len(LineOf) - 1 |-> LineOf[i + 1]]
    BY <2>0, <2>3
  <2>2. \A i \in 1 .. Len(LineOf) - 1 : ~(i < 1)
    OBVIOUS
  <2> QED
    BY <2>1, <2>2 DEF OmitAt
<1> QED
  BY <1>2, <1>4, <1>5, <1>6

LEMMA GivenTypes ==
    ASSUME TypeOK
    PROVE  /\ fate \in [Packets -> {"new", "refused", "queued", "taken", "discarded"}]
           /\ given \in [Irps -> Packets \cup {None}]
BY DEF TypeOK

LEMMA TransmitCheckPort ==
    ASSUME TypeOK, GivenInv, NEW p \in Packets, TransmitCheck(p)
    PROVE  [Port!PortNext]_(Port!portVars)
<1>1. tx[p] = "new" /\ UNCHANGED <<pktq, irpq, status, given>>
  BY DEF TransmitCheck, queueVars, irpVars
<1>2. fate[p] = "new"
  BY <1>1 DEF GivenInv
<1>3. CASE fate' = [fate EXCEPT ![p] = "refused"]
  <2>1. Port!Refuse(p)
    BY <1>1, <1>2, <1>3 DEF Port!Refuse, Waiting
  <2> QED
    BY <2>1 DEF Port!PortNext
<1>4. CASE UNCHANGED fate
  BY <1>1, <1>4, PortQuiet DEF queueVars, portGhosts
<1> QED
  BY <1>3, <1>4 DEF TransmitCheck

LEMMA TransmitPushPort ==
    ASSUME TypeOK, PathInv, GivenInv, NEW p \in Packets, TransmitPush(p)
    PROVE  [Port!PortNext]_(Port!portVars)
<1>1. tx[p] = "push" /\ UNCHANGED <<irpq, status, given>>
  BY DEF TransmitPush, irpVars
<1>2. fate[p] = "new"
  BY <1>1 DEF GivenInv
<1>3. Waiting' = Waiting
  BY <1>1 DEF Waiting
<1>4. CASE IsUp /\ ~QueueFull(PacketCap, pktq)
  <2>1. pktq' = QueuePush(PacketCap, pktq, p) /\ fate' = [fate EXCEPT ![p] = "queued"]
    BY <1>4 DEF TransmitPush
  <2>2. pktq \in Queues(Packets, PacketCap) /\ ~QueueFull(PacketCap, pktq)
    BY <1>4 DEF PathInv, QueuesInv, QueueOK
  <2>3. Contents(PacketCap, pktq') = Append(Contents(PacketCap, pktq), p)
    BY <2>1, <2>2, Caps, QueuePushAppends
  <2>4. Port!Accept(p)
    BY <1>1, <1>2, <1>3, <2>1, <2>3 DEF Port!Accept
  <2> QED
    BY <2>4 DEF Port!PortNext
<1>5. CASE ~(IsUp /\ ~QueueFull(PacketCap, pktq))
  <2>1. pktq' = pktq /\ fate' = [fate EXCEPT ![p] = "refused"]
    BY <1>5 DEF TransmitPush
  <2>2. Port!Refuse(p)
    BY <1>1, <1>2, <1>3, <2>1 DEF Port!Refuse
  <2> QED
    BY <2>2 DEF Port!PortNext
<1> QED
  BY <1>4, <1>5

\* The packet r takes: what HandPacket does, to the abstract port.
LEMMA Handed ==
    ASSUME TypeOK, PathInv, NEW r \in Irps, HandPacket(r), given[r] = None,
           pktq.size > 0, pktq' = QueuePop(PacketCap, pktq)
    PROVE  /\ status[r] = None => Port!HandOut(r)
           /\ status[r] # None => /\ QueueOf # <<>> /\ QueueOf' = Tail(QueueOf)
                                  /\ fate' = [fate EXCEPT ![Head(QueueOf)] = "discarded"]
                                  /\ GivenOf' = GivenOf
<1>1. /\ QueueOf # <<>> /\ Oldest(pktq) = Head(QueueOf) /\ QueueOf' = Tail(QueueOf)
      /\ Oldest(pktq) \in Packets
  BY PacketTaken
<1>2. CASE status[r] = None
  <2>1. /\ given' = [given EXCEPT ![r] = Oldest(pktq)]
        /\ fate' = [fate EXCEPT ![Oldest(pktq)] = "taken"]
    BY <1>2 DEF HandPacket
  <2>2. /\ given'[r] = Oldest(pktq) /\ given'[r] # None
        /\ \A s \in Irps : s # r => given'[s] = given[s]
    BY <1>1, <2>1, GivenTypes, Caps
  <2>3. DOMAIN GivenOf = {s \in Irps : given[s] # None} /\ r \notin DOMAIN GivenOf
    BY DEF GivenOf
  <2>4. {s \in Irps : given'[s] # None} = {s \in Irps : given[s] # None} \cup {r}
    BY <2>2
  <2>5. GivenOf' = [s \in {x \in Irps : given[x] # None} \cup {r} |-> given'[s]]
    BY <2>4 DEF GivenOf
  <2>6. \A s \in {x \in Irps : given[x] # None} \cup {r} :
           given'[s] = IF s = r THEN Head(QueueOf) ELSE GivenOf[s]
    BY <1>1, <2>2 DEF GivenOf
  <2>7. GivenOf' = [s \in DOMAIN GivenOf \cup {r} |->
                      IF s = r THEN Head(QueueOf) ELSE GivenOf[s]]
    <3> HIDE DEF GivenOf
    <3> QED
      BY <2>3, <2>5, <2>6
  <2>8. Port!HandOut(r)
    BY <1>1, <2>1, <2>3, <2>7 DEF Port!HandOut, QueueOf, GivenOf
  <2> QED
    BY <1>2, <2>8
<1>3. CASE status[r] # None
  BY <1>1, <1>3 DEF HandPacket, GivenOf
<1> QED
  BY <1>2, <1>3

LEMMA TransmitMatchPort ==
    ASSUME TypeOK, PathInv, GivenInv, NEW p \in Packets, TransmitMatch(p)
    PROVE  [Port!PortNext]_(Port!portVars)
<1>1. status' = status
  BY DEF TransmitMatch, irpVars
<1>2. CASE IsUp /\ pktq.size > 0 /\ irpq.size > 0
  <2>1. /\ HandPacket(Oldest(irpq)) /\ irpq.size > 0 /\ pktq.size > 0
        /\ irpq' = QueuePop(IrpCap, irpq) /\ pktq' = QueuePop(PacketCap, pktq)
    BY <1>2 DEF TransmitMatch
  <2>2. /\ LineOf # <<>> /\ Oldest(irpq) = Head(LineOf) /\ LineOf' = Tail(LineOf)
        /\ Oldest(irpq) \in Irps /\ Oldest(irpq) \in IrpElems
    BY <2>1, RequestTaken
  <2>3. PICK r \in Irps : HandPacket(r) /\ r = Head(LineOf) /\ r \in IrpElems
    BY <2>1, <2>2
  <2>8. ~Paired(r)
    BY <2>3 DEF PathInv, PairInv, Paired
  <2>4. LineOf \in Seq(Irps) /\ Waiting = Keep(LineOf, Open) /\ Waiting' = Keep(LineOf', Open)
    BY <1>1, PortFacts DEF Waiting, LineOf, Open
  <2>5. /\ r \notin Open => Waiting = Waiting'
        /\ r \in Open => Waiting # <<>> /\ Head(Waiting) = r /\ Waiting' = Tail(Waiting)
    BY <2>2, <2>3, <2>4, KeepHead
  <2>6. CASE status[r] = None
    <3>1. given[r] = None
      BY <2>6, <2>8 DEF GivenInv
    <3>2. Port!HandOut(r)
      BY <2>1, <2>3, <2>6, <3>1, Handed
    <3>3. Waiting # <<>> /\ Head(Waiting) = r /\ Waiting' = Tail(Waiting)
      BY <2>5, <2>6 DEF Open
    <3>4. Port!Serve
      BY <3>2, <3>3 DEF Port!Serve, Port!HandOut
    <3> QED
      BY <3>4 DEF Port!PortNext
  <2>7. CASE status[r] # None
    <3>1. QueueOf # <<>> /\ QueueOf' = Tail(QueueOf) /\ Oldest(pktq) = Head(QueueOf)
      BY <2>1, PacketTaken
    <3>2. fate' = [fate EXCEPT ![Head(QueueOf)] = "discarded"] /\ given' = given
      BY <2>3, <2>7, <3>1 DEF HandPacket
    <3>3. Waiting' = Waiting
      BY <2>5, <2>7 DEF Open
    <3>4. Port!Discard
      BY <3>1, <3>2, <3>3 DEF Port!Discard, QueueOf
    <3> QED
      BY <3>4 DEF Port!PortNext
  <2> QED
    BY <2>6, <2>7
<1>3. CASE ~(IsUp /\ pktq.size > 0 /\ irpq.size > 0)
  BY <1>1, <1>3, PortQuiet DEF TransmitMatch, queueVars, portGhosts
<1> QED
  BY <1>2, <1>3

LEMMA TransmitCompletePort ==
    ASSUME TypeOK, PathInv, NEW p \in Packets, TransmitComplete(p)
    PROVE  [Port!PortNext]_(Port!portVars)
<1>1. /\ tx[p] = "complete" /\ UNCHANGED <<pktq, irpq, fate, given>>
      /\ IoComplete(pair[p][1], "answered")
  BY DEF TransmitComplete, CompleteIRP, queueVars, portGhosts
<1>2. pair[p] \in Irps \X Packets
  BY <1>1, PathTypes DEF PathInv, PairInv
<1>3. PICK r \in Irps : IoComplete(r, "answered")
  BY <1>1, <1>2
<1>4. status'[r] # None /\ \A x \in Irps : x # r => status'[x] = status[x]
  BY <1>3, Completing
<1> QED
  BY <1>1, <1>4, Completed

LEMMA ReadCallPort ==
    ASSUME TypeOK, PathInv, NEW h \in Handles, NEW r \in Irps, ReadCall(h, r)
    PROVE  [Port!PortNext]_(Port!portVars)
<1>1. UNCHANGED <<pktq, irpq, fate, given>>
  BY DEF ReadCall, queueVars, portGhosts
<1>2. CASE IoComplete(r, "failed")
  <2>1. status'[r] # None /\ \A x \in Irps : x # r => status'[x] = status[x]
    BY <1>2, Completing
  <2> QED
    BY <1>1, <2>1, Completed
<1>3. CASE status' = status
  BY <1>1, <1>3, PortQuiet DEF queueVars, portGhosts
<1> QED
  BY <1>2, <1>3 DEF ReadCall

LEMMA ReadPopPort ==
    ASSUME TypeOK, PathInv, GivenInv, NEW r \in Irps, ReadPop(r)
    PROVE  [Port!PortNext]_(Port!portVars)
<1>1. rd[r] = "pop" /\ irpq' = irpq
  BY DEF ReadPop
<1>2. status[r] = None /\ ~Paired(r) /\ given[r] = None
  BY <1>1, ReadOnItsWay DEF GivenInv
<1>3. CASE IsUp /\ pktq.size > 0 /\ irpq.size = 0
  <2>1. HandPacket(r) /\ pktq' = QueuePop(PacketCap, pktq) /\ pktq.size > 0 /\ irpq.size = 0
    BY <1>3 DEF ReadPop
  <2>2. Port!HandOut(r)
    BY <1>2, <2>1, Handed
  <2>3. LineOf = <<>> /\ LineOf' = <<>>
    <3>1. LineOf \in Seq(Irps) /\ Len(LineOf) = 0
      BY <2>1, PortFacts
    <3>2. LineOf = <<>>
      BY <3>1
    <3> QED
      BY <1>1, <3>2 DEF LineOf
  <2>4. Waiting = <<>> /\ Waiting' = <<>>
    BY <2>3, KeepEmpty DEF Waiting, LineOf
  <2>5. Port!ServeNow(r)
    BY <2>2, <2>4 DEF Port!ServeNow
  <2> QED
    BY <2>5 DEF Port!PortNext
<1>4. CASE ~(IsUp /\ pktq.size > 0 /\ irpq.size = 0)
  BY <1>1, <1>4, PortQuiet DEF ReadPop, queueVars, portGhosts
<1> QED
  BY <1>3, <1>4

LEMMA ReadPendPort ==
    ASSUME TypeOK, PathInv, GivenInv, NEW r \in Irps, ReadPend(r)
    PROVE  [Port!PortNext]_(Port!portVars)
<1>1. rd[r] = "pend" /\ UNCHANGED <<pktq, fate, given>>
  BY DEF ReadPend, portGhosts
<1>2. status[r] = None /\ ~Paired(r) /\ given[r] = None /\ r \notin IrpElems
  BY <1>1, ReadOnItsWay DEF GivenInv
<1>3. CASE IsUp /\ ~QueueFull(IrpCap, irpq)
  <2>1. irpq' = QueuePush(IrpCap, irpq, r) /\ status' = status
    BY <1>3 DEF ReadPend
  <2>2. irpq \in Queues(Irps, IrpCap) /\ ~QueueFull(IrpCap, irpq)
    BY <1>3 DEF PathInv, QueuesInv, QueueOK
  <2>3. LineOf' = Append(LineOf, r)
    BY <2>1, <2>2, Caps, QueuePushAppends DEF LineOf
  <2>4. /\ LineOf \in Seq(Irps) /\ Waiting = Keep(LineOf, Open) /\ Waiting' = Keep(LineOf', Open)
        /\ \A i \in 1 .. Len(LineOf) : LineOf[i] # r
    BY <1>2, <2>1, PortFacts DEF Waiting, LineOf, Open
  <2>5. r \in Open
    BY <1>2 DEF Open
  <2>6. Waiting' = Append(Waiting, r)
    BY <2>3, <2>4, <2>5, KeepAppend
  <2>7. \A i \in 1 .. Len(Waiting) : \E j \in 1 .. Len(LineOf) : LineOf[j] = Waiting[i]
    BY <2>4, KeepSeq
  <2>8. \A i \in 1 .. Len(Waiting) : Waiting[i] # r
    BY <2>4, <2>7
  <2>9. Port!Join(r)
    BY <1>1, <1>2, <2>6, <2>8 DEF Port!Join
  <2> QED
    BY <2>9 DEF Port!PortNext
<1>4. CASE ~(IsUp /\ ~QueueFull(IrpCap, irpq))
  <2>1. IoComplete(r, "failed") /\ irpq' = irpq
    BY <1>4 DEF ReadPend
  <2>2. status'[r] # None /\ \A x \in Irps : x # r => status'[x] = status[x]
    BY <2>1, Completing
  <2> QED
    BY <1>1, <2>1, <2>2, Completed
<1> QED
  BY <1>3, <1>4

LEMMA LineElems ==
    ASSUME NEW q, QueueOK(Irps, IrpCap, q)
    PROVE  \A x : x \in Elems(IrpCap, q) <=>
                  \E i \in 1 .. Len(Contents(IrpCap, q)) : Contents(IrpCap, q)[i] = x
<1>1. IrpCap \in Nat \ {0}
  BY Caps
<1> DEFINE c == Contents(IrpCap, q)
<1>2. /\ c \in Seq(Irps) /\ Len(c) = q.size
      /\ \A x : x \in Elems(IrpCap, q) <=> \E i \in 1 .. Len(c) : c[i] = x
  BY <1>1, ContentsOfQueue
<1> QED
  BY <1>2

\* The request a flush pops leaves the line.
LEMMA FlushPopPort ==
    ASSUME TypeOK, PathInv, NEW f \in Flushers, FlushPop(f)
    PROVE  [Port!PortNext]_(Port!portVars)
<1>1. irpq.size > 0 /\ irpq' = QueuePop(IrpCap, irpq) /\ UNCHANGED <<pktq, status, fate, given>>
  BY DEF FlushPop, irpVars, portGhosts
<1>2. PICK r \in Irps : r = Oldest(irpq)
  BY <1>1, RequestTaken
<1>3. 1 \in 1 .. Len(LineOf) /\ LineOf[1] = r /\ LineOf' = OmitAt(LineOf, 1)
  BY <1>1, <1>2, RequestTaken
<1>4. LineOf \in Seq(Irps) /\ Waiting' = Keep(LineOf', Open)
  BY <1>1, PortFacts DEF Waiting, LineOf, Open
<1>5. r \notin IrpElems'
  BY <1>1, <1>2, PopIrp DEF PathInv
<1>6. \A i \in 1 .. Len(LineOf') : LineOf'[i] # r
  <2>1. QueueOK(Irps, IrpCap, irpq')
    BY <1>1, PopIrp DEF PathInv
  <2>2. \A x : x \in IrpElems' <=> \E i \in 1 .. Len(LineOf') : LineOf'[i] = x
    <3>1. PICK q : q = irpq'
      OBVIOUS
    <3>2. \A x : x \in Elems(IrpCap, q) <=>
                  \E i \in 1 .. Len(Contents(IrpCap, q)) : Contents(IrpCap, q)[i] = x
      BY <2>1, <3>1, LineElems
    <3>3. IrpElems' = Elems(IrpCap, q) /\ LineOf' = Contents(IrpCap, q)
      BY <3>1 DEF LineOf, IrpElems
    <3> QED
      BY <3>2, <3>3
  <2> QED
    BY <1>5, <2>2
<1>7. /\ OmitAt(LineOf, 1) \in Seq(Irps)
      /\ Keep(OmitAt(LineOf, 1), Open \ {r}) = Keep(LineOf, Open \ {r})
  BY <1>3, <1>4, KeepOmit
<1>8. LineOf' \in Seq(Irps) /\ Keep(LineOf', Open \ {r}) = Keep(LineOf, Open \ {r})
  BY <1>3, <1>7
<1>9. Keep(LineOf', Open) = Keep(LineOf', Open \ {r})
  <2> DEFINE t == LineOf'
  <2>1. t \in Seq(Irps) /\ \A i \in 1 .. Len(t) : t[i] # r
    BY <1>6, <1>8
  <2> HIDE DEF t
  <2>2. \A i \in 1 .. Len(t) : t[i] \in Open <=> t[i] \in Open \ {r}
    BY <2>1
  <2>3. Keep(t, Open) = Keep(t, Open \ {r})
    BY <2>1, <2>2, KeepAgree
  <2> QED
    BY <2>3 DEF t
<1> QED
  BY <1>1, <1>4, <1>8, <1>9, LineLeft

LEMMA FlushCancelPort ==
    ASSUME TypeOK, PathInv, NEW f \in Flushers, FlushCancel(f)
    PROVE  [Port!PortNext]_(Port!portVars)
<1>1. /\ UNCHANGED <<irpq, pktq, fate, given>>
      /\ popped[f] # None /\ IoComplete(popped[f], "cancelled")
  BY DEF FlushCancel, queueVars, portGhosts
<1>2. PICK r \in Irps : IoComplete(r, "cancelled")
  BY <1>1, PathTypes
<1>3. status'[r] # None /\ \A x \in Irps : x # r => status'[x] = status[x]
  BY <1>2, Completing
<1> QED
  BY <1>1, <1>3, Completed

LEMMA FlushPacketPort ==
    ASSUME PathInv, FlushPacket
    PROVE  [Port!PortNext]_(Port!portVars)
<1>1. /\ pktq.size > 0 /\ pktq' = QueuePop(PacketCap, pktq)
      /\ fate' = [fate EXCEPT ![Oldest(pktq)] = "discarded"]
      /\ UNCHANGED <<irpq, status, given>>
  BY DEF FlushPacket, irpVars
<1>2. QueueOf # <<>> /\ Oldest(pktq) = Head(QueueOf) /\ QueueOf' = Tail(QueueOf)
  BY <1>1, PacketTaken
<1>3. Port!Discard
  BY <1>1, <1>2 DEF Port!Discard, QueueOf, Waiting
<1> QED
  BY <1>3 DEF Port!PortNext

LEMMA CancelPort ==
    ASSUME TypeOK, PathInv, NEW r \in Irps, Cancel(r)
    PROVE  [Port!PortNext]_(Port!portVars)
<1>1. CASE IoCancelIrp(r)
  BY <1>1, PortQuiet DEF IoCancelIrp, queueVars, portGhosts
<1>2. CASE CancelIRPCallback(r) /\ CancelQueued(r)
  <2>1. irpq' = QueueExtract(IrpCap, irpq, r) /\ UNCHANGED <<pktq, fate, given>>
    BY <1>2 DEF CancelIRPCallback, CancelQueued, portGhosts
  <2>2. QueueOK(Irps, IrpCap, irpq)
    BY DEF PathInv, QueuesInv
  <2>3. (irpq' # irpq) <=> (r \in Elems(IrpCap, irpq))
    BY <2>1, <2>2, Caps, ExtractElems
  <2>4. CASE r \in Elems(IrpCap, irpq)
    <3>1. \E k \in 1 .. Len(LineOf) : LineOf[k] = r /\ LineOf' = OmitAt(LineOf, k)
      BY <2>1, <2>2, <2>4, Caps, ExtractContents DEF LineOf
    <3>2. IoComplete(r, "cancelled")
      BY <1>2, <2>3, <2>4 DEF CancelQueued
    <3>3. status'[r] # None /\ \A x \in Irps : x # r => status'[x] = status[x]
      BY <3>2, Completing
    <3> QED
      BY <2>1, <3>1, <3>3, Completed
  <2>5. CASE r \notin Elems(IrpCap, irpq)
    BY <1>2, <2>1, <2>3, <2>5, PortQuiet DEF CancelQueued, queueVars, portGhosts
  <2> QED
    BY <2>4, <2>5
<1>3. CASE CancelIRPCallback(r) /\ CancelBlindly(r)
  <2>1. UNCHANGED <<irpq, pktq, fate, given>>
    BY <1>3 DEF CancelIRPCallback, CancelBlindly, portGhosts
  <2>2. status'[r] # None /\ \A x \in Irps : x # r => status'[x] = status[x]
    BY <1>3, PathTypes, Caps DEF CancelBlindly
  <2> QED
    BY <2>1, <2>2, Completed
<1> QED
  BY <1>1, <1>2, <1>3 DEF Cancel, CancelIRPCallback

\* The packet that is handed to r, or lost with it, was pushed.
LEMMA HandedGiven ==
    ASSUME TypeOK, PathInv, GivenInv, NEW r \in Irps, HandPacket(r),
           pktq.size > 0, pktq' = QueuePop(PacketCap, pktq)
    PROVE  /\ \A p \in Packets : tx[p] \in {"new", "push"} => fate'[p] = "new"
           /\ \A x \in Irps : x # r => given'[x] = given[x]
<1>1. Oldest(pktq) \in Packets /\ tx[Oldest(pktq)] \notin {"new", "push"}
  BY PopPacket DEF PathInv, QueuesInv
<1>2. \A x \in Irps : x # r => given'[x] = given[x]
  BY GivenTypes DEF HandPacket
<1>3. \E how : fate' = [fate EXCEPT ![Oldest(pktq)] = how]
  BY DEF HandPacket
<1> QED
  BY <1>1, <1>2, <1>3, GivenTypes DEF GivenInv

LEMMA GivenTransmit ==
    ASSUME TypeOK, PathInv, GivenInv, NEW p \in Packets, AdapterTransmit(p)
    PROVE  GivenInv'
<1>1. CASE TransmitCheck(p)
  <2>1. /\ UNCHANGED <<pair, status, given>> /\ tx[p] = "new"
        /\ \A o \in Packets : o # p => tx'[o] = tx[o] /\ fate'[o] = fate[o]
        /\ tx'[p] = "done" \/ (tx'[p] = "push" /\ fate' = fate)
    BY <1>1, PathTypes, GivenTypes DEF TransmitCheck, irpVars
  <2>2. \A x : Paired(x)' <=> Paired(x)
    BY <2>1 DEF Paired
  <2> QED
    BY <2>1, <2>2 DEF GivenInv
<1>2. CASE TransmitPush(p)
  <2>1. /\ UNCHANGED <<pair, status, given>> /\ tx[p] = "push"
        /\ \A o \in Packets : o # p => tx'[o] = tx[o] /\ fate'[o] = fate[o]
        /\ tx'[p] \in {"match", "done"}
    BY <1>2, PathTypes, GivenTypes DEF TransmitPush, irpVars
  <2>2. \A x : Paired(x)' <=> Paired(x)
    BY <2>1 DEF Paired
  <2> QED
    BY <2>1, <2>2 DEF GivenInv
<1>3. CASE TransmitMatch(p)
  <2>1. /\ tx[p] = "match" /\ status' = status
        /\ \A o \in Packets : o # p => tx'[o] = tx[o] /\ pair'[o] = pair[o]
    BY <1>3, PathTypes DEF TransmitMatch, irpVars
  <2>2. \A x : Paired(x) => Paired(x)'
    BY <2>1 DEF Paired
  <2>3. CASE IsUp /\ pktq.size > 0 /\ irpq.size > 0
    <3>1. /\ HandPacket(Oldest(irpq)) /\ tx'[p] = "complete" /\ pair'[p][1] = Oldest(irpq)
          /\ irpq.size > 0 /\ irpq' = QueuePop(IrpCap, irpq)
          /\ pktq.size > 0 /\ pktq' = QueuePop(PacketCap, pktq)
      BY <1>3, <2>3, PathTypes DEF TransmitMatch
    <3>2. PICK r \in Irps : HandPacket(r) /\ r = Oldest(irpq)
      BY <3>1, RequestTaken
    <3>3. /\ \A o \in Packets : tx[o] \in {"new", "push"} => fate'[o] = "new"
          /\ \A x \in Irps : x # r => given'[x] = given[x]
      BY <3>1, <3>2, HandedGiven
    <3>4. Paired(r)'
      BY <3>1, <3>2 DEF Paired
    <3> QED
      BY <2>1, <2>2, <3>1, <3>3, <3>4 DEF GivenInv
  <2>4. CASE ~(IsUp /\ pktq.size > 0 /\ irpq.size > 0)
    <3>1. tx'[p] = "done" /\ UNCHANGED <<fate, given>>
      BY <1>3, <2>4, PathTypes DEF TransmitMatch, portGhosts
    <3> QED
      BY <2>1, <2>2, <3>1 DEF GivenInv
  <2> QED
    BY <2>3, <2>4
<1>4. CASE TransmitComplete(p)
  <2>1. /\ tx[p] = "complete" /\ UNCHANGED <<fate, given>>
        /\ \A o \in Packets : o # p => tx'[o] = tx[o] /\ pair'[o] = pair[o]
        /\ tx'[p] = "match" /\ IoComplete(pair[p][1], "answered")
    BY <1>4, PathTypes DEF TransmitComplete, CompleteIRP, portGhosts
  <2>2. pair[p] \in Irps \X Packets
    BY <2>1, PathTypes DEF PathInv, PairInv
  <2>3. PICK r \in Irps : IoComplete(r, "answered") /\ r = pair[p][1]
    BY <2>1, <2>2
  <2>4. status'[r] # None /\ \A x \in Irps : x # r => status'[x] = status[x]
    BY <2>3, Completing
  <2>5. \A x : Paired(x) /\ x # r => Paired(x)'
    BY <2>1, <2>3 DEF Paired
  <2> QED
    BY <2>1, <2>4, <2>5 DEF GivenInv
<1> QED
  BY <1>1, <1>2, <1>3, <1>4 DEF AdapterTransmit

\* Where the transmits stand still and IRPs are only completed nothing is lost.
LEMMA GivenKept ==
    ASSUME TypeOK, GivenInv, UNCHANGED <<tx, pair>>,
           \A p \in Packets : tx[p] \in {"new", "push"} => fate'[p] = fate[p],
           \A r \in Irps : \/ status'[r] = status[r] /\ given'[r] = given[r]
                           \/ status'[r] # None
    PROVE  GivenInv'
<1>1. \A x : Paired(x)' <=> Paired(x)
  BY DEF Paired
<1> QED
  BY <1>1 DEF GivenInv

LEMMA GivenRead ==
    ASSUME TypeOK, PathInv, GivenInv, NEW r \in Irps, Read(r)
    PROVE  GivenInv'
<1>1. UNCHANGED <<tx, pair>>
  BY DEF Read, ReadCall, ReadPop, ReadPend, sendVars
<1>2. CASE \E h \in Handles : ReadCall(h, r)
  <2>1. UNCHANGED <<fate, given>> /\ (IoComplete(r, "failed") \/ status' = status)
    BY <1>2 DEF ReadCall, portGhosts
  <2> QED
    BY <1>1, <2>1, Completing, GivenKept
<1>3. CASE ReadPop(r)
  <2>1. CASE IsUp /\ pktq.size > 0 /\ irpq.size = 0
    <3>1. /\ HandPacket(r) /\ pktq' = QueuePop(PacketCap, pktq) /\ pktq.size > 0
          /\ IoComplete(r, "answered")
      BY <1>3, <2>1 DEF ReadPop, CompleteIRP
    <3>2. /\ \A p \in Packets : tx[p] \in {"new", "push"} => fate'[p] = "new"
          /\ \A x \in Irps : x # r => given'[x] = given[x]
      BY <3>1, HandedGiven
    <3>3. status'[r] # None /\ \A x \in Irps : x # r => status'[x] = status[x]
      BY <3>1, Completing
    <3>4. \A p \in Packets : tx[p] \in {"new", "push"} => fate'[p] = fate[p]
      BY <3>2 DEF GivenInv
    <3> QED
      BY <1>1, <3>2, <3>3, <3>4, GivenKept
  <2>2. CASE ~(IsUp /\ pktq.size > 0 /\ irpq.size = 0)
    <3>1. UNCHANGED <<fate, given, status>>
      BY <1>3, <2>2 DEF ReadPop, portGhosts
    <3> QED
      BY <1>1, <3>1, GivenKept
  <2> QED
    BY <2>1, <2>2
<1>4. CASE ReadPend(r)
  <2>1. UNCHANGED <<fate, given>> /\ (IoComplete(r, "failed") \/ status' = status)
    BY <1>4 DEF ReadPend, portGhosts
  <2> QED
    BY <1>1, <2>1, Completing, GivenKept
<1> QED
  BY <1>2, <1>3, <1>4 DEF Read

LEMMA GivenFlush ==
    ASSUME TypeOK, PathInv, GivenInv, NEW f \in Flushers, FlushIrp(f) \/ FlushPacket
    PROVE  GivenInv'
<1>0. UNCHANGED <<tx, pair, given>>
  BY FlushOnly DEF sendVars
<1>1. CASE FlushPop(f)
  BY <1>0, <1>1, GivenKept DEF FlushPop, irpVars, portGhosts
<1>2. CASE FlushCancel(f)
  <2>1. fate' = fate /\ popped[f] # None /\ IoComplete(popped[f], "cancelled")
    BY <1>2 DEF FlushCancel, portGhosts
  <2>2. PICK r \in Irps : IoComplete(r, "cancelled")
    BY <2>1, PathTypes
  <2>3. status'[r] # None /\ \A x \in Irps : x # r => status'[x] = status[x]
    BY <2>2, Completing
  <2> QED
    BY <1>0, <2>1, <2>3, GivenKept
<1>3. CASE FlushPacket
  <2>1. /\ status' = status /\ pktq.size > 0 /\ pktq' = QueuePop(PacketCap, pktq)
        /\ fate' = [fate EXCEPT ![Oldest(pktq)] = "discarded"]
    BY <1>3 DEF FlushPacket, irpVars
  <2>2. Oldest(pktq) \in Packets /\ tx[Oldest(pktq)] \notin {"new", "push"}
    BY <2>1, PopPacket DEF PathInv, QueuesInv
  <2>3. \A p \in Packets : tx[p] \in {"new", "push"} => fate'[p] = fate[p]
    BY <2>1, <2>2, GivenTypes
  <2> QED
    BY <1>0, <2>1, <2>3, GivenKept
<1> QED
  BY <1>1, <1>2, <1>3 DEF FlushIrp

LEMMA GivenCancel ==
    ASSUME TypeOK, PathInv, GivenInv, NEW r \in Irps, Cancel(r)
    PROVE  GivenInv'
<1>1. UNCHANGED <<tx, pair, fate, given>>
  BY DEF Cancel, IoCancelIrp, CancelIRPCallback, sendVars, portGhosts
<1>2. status' = status \/ IoComplete(r, "cancelled") \/ CancelBlindly(r)
  BY DEF Cancel, IoCancelIrp, CancelIRPCallback, CancelQueued
<1>3. CASE CancelBlindly(r)
  <2>1. status'[r] # None /\ \A x \in Irps : x # r => status'[x] = status[x]
    BY <1>3, PathTypes, Caps DEF CancelBlindly
  <2> QED
    BY <1>1, <2>1, GivenKept
<1> QED
  BY <1>1, <1>2, <1>3, Completing, GivenKept

LEMMA GivenStep ==
    ASSUME TypeOK, PathInv, GivenInv, [Next]_vars
    PROVE  GivenInv'
<1>1. CASE UNCHANGED <<pktq, irpq, tx, pair, status, fate, given>>
  BY <1>1, GivenKept
<1>2. CASE Adapter
  BY <1>1, <1>2, AdapterOnly, GivenFlush DEF Flushers
<1>3. ASSUME NEW h \in Handles, Handle(h)
      PROVE  GivenInv'
  BY <1>1, <1>3, HandleOnly, GivenFlush DEF Flushers
<1>4. CASE UNCHANGED vars
  BY <1>1, <1>4 DEF vars, queueVars, sendVars, irpVars, portGhosts
<1> QED
  BY <1>2, <1>3, <1>4, GivenTransmit, GivenRead, GivenCancel DEF Next, Stopped

LEMMA PortStep ==
    ASSUME TypeOK, PathInv, GivenInv, [Next]_vars
    PROVE  [Port!PortNext]_(Port!portVars)
<1>1. CASE UNCHANGED <<pktq, irpq, tx, pair, status, fate, given>>
  BY <1>1, PortQuiet DEF queueVars, portGhosts
<1>7. ASSUME NEW f \in Flushers, FlushIrp(f) \/ FlushPacket
      PROVE  [Port!PortNext]_(Port!portVars)
  BY <1>7, FlushPopPort, FlushCancelPort, FlushPacketPort DEF FlushIrp
<1>2. CASE Adapter
  BY <1>1, <1>2, <1>7, AdapterOnly DEF Flushers
<1>3. ASSUME NEW h \in Handles, Handle(h)
      PROVE  [Port!PortNext]_(Port!portVars)
  BY <1>1, <1>3, <1>7, HandleOnly DEF Flushers
<1>4. CASE UNCHANGED vars
  BY <1>1, <1>4 DEF vars, queueVars, sendVars, irpVars, portGhosts
<1>5. ASSUME NEW p \in Packets, AdapterTransmit(p)
      PROVE  [Port!PortNext]_(Port!portVars)
  BY <1>5, TransmitCheckPort, TransmitPushPort, TransmitMatchPort, TransmitCompletePort
  DEF AdapterTransmit
<1>6. ASSUME NEW r \in Irps, Read(r)
      PROVE  [Port!PortNext]_(Port!portVars)
  BY <1>6, ReadCallPort, ReadPopPort, ReadPendPort DEF Read
<1> QED
  BY <1>2, <1>3, <1>4, <1>5, <1>6, CancelPort DEF Next, Stopped

\* ImplementsPort (WinTapDriver): whatever calls interleave, packets and reads
\* meet oldest to oldest, none twice, as PacketPort promises.
THEOREM PortImplemented == Spec => ImplementsPort
<1>1. Init => Port!PortInit /\ GivenInv
  <2> SUFFICES ASSUME Init PROVE Port!PortInit /\ GivenInv
    OBVIOUS
  <2>1. /\ Contents(PacketCap, pktq) = <<>> /\ Contents(IrpCap, irpq) = <<>>
    BY Caps, QueueInitEmpty DEF Init
  <2>2. Waiting = <<>>
    BY <2>1, KeepEmpty DEF Waiting
  <2>3. \A r \in Irps : given[r] = None
    BY DEF Init
  <2>4. [r \in {s \in Irps : given[s] # None} |-> given[r]] \in [{} -> Packets]
    <3>1. {s \in Irps : given[s] # None} = {}
      BY <2>3
    <3> QED
      BY <3>1
  <2>5. fate = [p \in Packets |-> "new"]
    BY DEF Init
  <2>6. Port!PortInit
    BY <2>1, <2>2, <2>4, <2>5 DEF Port!PortInit
  <2> QED
    BY <2>3, <2>5, <2>6 DEF GivenInv
<1>2. IInv /\ GivenInv /\ [Next]_vars => GivenInv' /\ [Port!PortNext]_(Port!portVars)
  BY GivenStep, PortStep DEF IInv
<1> QED
  BY <1>1, <1>2, DriverInductive, PTL DEF Spec, ImplementsPort, Port!PortSpec
=============================================================================
