-------------------------- MODULE TuntapDriverProofs --------------------------
(***************************************************************************)
(* Proofs about TuntapDriver: its type invariant, what a close leaves of   *)
(* an opening, and that who waits in the device is told.                   *)
(***************************************************************************)
EXTENDS TuntapDriver, FiniteSetTheorems, TLAPS

(* The shape of the state: TypeOK without the gate. *)
FlagShape ==
  /\ strict \in BOOLEAN /\ kext \in {"new", "failed", "loaded", "stopping", "unloaded"}
  /\ lock \in Threads \cup {None} /\ open \in BOOLEAN /\ block_io \in BOOLEAN
  /\ net \in {None, "attached", "detaching"} /\ up \in BOOLEAN
  /\ interface_detached \in BOOLEAN /\ rsel \in BOOLEAN
  /\ unannounced \in BOOLEAN
ThreadShape ==
  /\ pc \in [Threads -> {"user", "gate"} \cup Behind] /\ op \in [Threads -> Ops \cup {None}]
  /\ missed \subseteq Threads
QueueShape ==
  send_queue \in Seq({"fresh", "late"}) /\ Len(send_queue) <= QUEUE_SIZE
Output == [pc : {"idle", "send", "announce"}, left : 0 .. MaxBurst,
           kind : {"fresh", "late"}, queued : BOOLEAN]
TxShape == tx \in [Senders -> Output]
Table == [Slots -> Entries \cup {Free}]
ConfShape ==
  /\ attached_protos \in Table /\ turn \in 0 .. MAX_ATTACHED_PROTOS
  /\ addresses \subseteq Families \cup {"inet"} /\ in_ioctl \in BOOLEAN
  /\ fixing \in {"no", "socket", "ioctl"}
  /\ spared \subseteq Protos \cup Families \cup {"inet"}
Shape == FlagShape /\ ThreadShape /\ QueueShape /\ TxShape /\ ConfShape

(* An if_output that has packets to queue has one at least, and one that is not
   at work has queued none. *)
TxInv ==
  \A s \in Senders : /\ tx[s].pc = "send" => tx[s].left # 0
                     /\ tx[s].pc = "idle" => ~tx[s].queued

(* The gate counts the threads behind it, and both its counts agree. *)
ThreadsBehind == {t \in Threads : pc[t] \in Behind}
GateInv ==
  /\ population = Cardinality(ThreadsBehind) /\ ticket_number = population
  /\ old_number \in 0 .. Cardinality(Threads)

(* An open device has an attached interface and nobody keeps its lock; a closed
   one has an interface while a thread closes it, which is detaching only at the
   last step. After a failure to detach it nobody sets interface_detached. *)
LockInv ==
  /\ open => net = "attached" /\ lock = None
  /\ lock = None /\ ~open => net = None
  /\ lock # None => /\ pc[lock] \in Closing
                    /\ net = "attached" \/ (net = "detaching" /\ pc[lock] = "detach")
                    /\ net = "attached" /\ pc[lock] = "detach" => ~interface_detached
  /\ \A t \in Threads : pc[t] \in Closing => lock = t

(* Packets of before a close are late, and a strict kernel waits for outputs. *)
TornInv ==
  /\ \A s \in Senders : tx[s].pc # "idle" /\ tx[s].kind = "fresh" => open
  /\ strict /\ Sending => net = "attached" \/ (net = "detaching" /\ ~interface_detached)

(* What the close has taken away so far: the protocols of the slots it has looked
   at, and the addresses once it is past the loop, but for those that are spared. *)
Shutting == lock # None /\ pc[lock] = "shut"
Deleting == lock # None /\ pc[lock] \in {"shut", "delete"}
ConfInv ==
  ~open => /\ \A i \in Slots : Used(i) /\ (Shutting => i < turn) =>
                                attached_protos[i].proto \in spared
           /\ ~Deleting /\ "inet" \in addresses => "inet" \in spared

(* WaitersTold, with the threads on their way to sleep. *)
Told == unannounced \/ \E s \in Senders : tx[s].queued
ToldInv ==
  /\ \A t \in Threads \ missed :
        pc[t] \in {"presleep", "asleep"} =>
           (send_queue # <<>> => Told) /\ (~open => lock # None)
  /\ rsel /\ send_queue # <<>> => Told

-----------------------------------------------------------------------------
LEMMA Apart == None \notin Threads
BY TuntapAssumption DEF None

LEMMA IdleOutput == Idle \in Output /\ ~Idle.queued /\ Idle.pc = "idle"
BY TuntapAssumption DEF Idle, Output

LEMMA ShapeInit == ASSUME Init PROVE Shape /\ TxInv
<1>1. FlagShape
  BY DEF Init, FlagShape
<1>2. ThreadShape
  BY DEF Init, ThreadShape
<1>3. QueueShape
  BY TuntapAssumption DEF Init, QueueShape
<1>4. TxShape /\ TxInv
  BY IdleOutput DEF Init, TxShape, TxInv
<1>5. ConfShape
  <2>1. attached_protos \in Table /\ turn \in 0 .. MAX_ATTACHED_PROTOS
    BY TuntapAssumption DEF Init, Table
  <2> QED
    BY <2>1 DEF Init, ConfShape
<1> QED
  BY <1>1, <1>2, <1>3, <1>4, <1>5 DEF Shape

(* The flags. *)
LEMMA FlagsNext ==
    ASSUME FlagShape, [Next]_vars PROVE FlagShape'
<1> USE DEF mgrVars, ifVars, confVars, queueVars, threadVars
<1>1. CASE tap_module_start
  BY <1>1 DEF tap_module_start, initialize, FlagShape
<1>2. CASE tap_module_stop
  BY <1>2 DEF tap_module_stop, shutdown, FlagShape
<1>3. CASE GiveUp
  BY <1>3 DEF GiveUp, FlagShape
<1>4. CASE UNCHANGED vars
  BY <1>4 DEF vars, FlagShape
<1>5. ASSUME NEW t \in Threads, NEW o \in Ops, Call(t, o) PROVE FlagShape'
  BY <1>5 DEF Call, FlagShape
<1>6. ASSUME NEW t \in Threads, Enter(t) PROVE FlagShape'
  BY <1>6 DEF Enter, FlagShape
<1>7. ASSUME NEW t \in Threads, Exit(t) PROVE FlagShape'
  BY <1>7 DEF Exit, FlagShape
<1>8. ASSUME NEW t \in Threads, cdev_open(t) PROVE FlagShape'
  <2>1. CASE UNCHANGED <<open, net, up>>
    BY <1>8, <2>1 DEF cdev_open, FlagShape
  <2>2. CASE open' = TRUE /\ net' = "attached" /\ up' = FALSE
    BY <1>8, <2>2 DEF cdev_open, FlagShape
  <2> QED
    BY <1>8, <2>1, <2>2 DEF cdev_open, initialize_interface, register_interface
<1>9. ASSUME NEW t \in Threads, cdev_close(t) PROVE FlagShape'
  <2>1. open' \in BOOLEAN /\ lock' \in Threads \cup {None}
    BY <1>9 DEF cdev_close, FlagShape
  <2> QED
    BY <1>9, <2>1 DEF cdev_close, FlagShape
<1>10. ASSUME NEW t \in Threads,
             \/ shutdown_interface(t) \/ cleanup_interface(t)
             \/ delete_addresses(t) \/ unregister_interface(t)
      PROVE  FlagShape'
  <2>1. CASE shutdown_interface(t)
    BY <2>1 DEF shutdown_interface, FlagShape
  <2>2. CASE cleanup_interface(t)
    BY <2>2 DEF cleanup_interface, FlagShape
  <2>4. CASE delete_addresses(t)
    BY <2>4 DEF delete_addresses, FlagShape
  <2>3. CASE unregister_interface(t)
    <3>1. net' \in {None, "attached", "detaching"}
      BY <2>3 DEF unregister_interface, FlagShape
    <3> QED
      BY <2>3, <3>1 DEF unregister_interface, FlagShape
  <2> QED
    BY <1>10, <2>1, <2>2, <2>3, <2>4
<1>11. ASSUME NEW t \in Threads, close_finish(t) PROVE FlagShape'
  BY <1>11 DEF close_finish, NotifyWaiters, FlagShape
<1>12. ASSUME NEW t \in Threads, cdev_read(t) PROVE FlagShape'
  BY <1>12 DEF cdev_read, FlagShape
<1>13. ASSUME NEW t \in Threads, msleep(t) PROVE FlagShape'
  BY <1>13 DEF msleep, FlagShape
<1>14. ASSUME NEW t \in Threads, Signal(t) PROVE FlagShape'
  BY <1>14 DEF Signal, FlagShape
<1>15. ASSUME NEW t \in Threads, read_interrupted(t) PROVE FlagShape'
  BY <1>15 DEF read_interrupted, FlagShape
<1>16. ASSUME NEW t \in Threads, cdev_write(t) PROVE FlagShape'
  BY <1>16 DEF cdev_write, FlagShape
<1>17. ASSUME NEW t \in Threads, cdev_ioctl(t) PROVE FlagShape'
  BY <1>17 DEF cdev_ioctl, FlagShape
<1>18. ASSUME NEW t \in Threads, cdev_select(t) PROVE FlagShape'
  BY <1>18 DEF cdev_select, FlagShape
<1>19. ASSUME NEW s \in Senders, if_output(s) PROVE FlagShape'
  BY <1>19 DEF if_output, FlagShape
<1>20. ASSUME NEW s \in Senders, output_enqueue(s) PROVE FlagShape'
  BY <1>20 DEF output_enqueue, FlagShape
<1>21. ASSUME NEW s \in Senders, output_announce(s) PROVE FlagShape'
  BY <1>21 DEF output_announce, NotifyWaiters, FlagShape
<1>22. CASE if_detached
  BY <1>22 DEF if_detached, FlagShape
<1>23. CASE SetFlags
  BY <1>23 DEF SetFlags, FlagShape
<1>24. ASSUME NEW family \in Families, SetAddress(family) PROVE FlagShape'
  BY <1>24 DEF SetAddress, FlagShape
<1>25. CASE do_sock_ioctl \/ do_sock_ioctl_returns
  BY <1>25 DEF do_sock_ioctl, do_sock_ioctl_returns, FlagShape
<1>26. ASSUME NEW d \in Demuxes, if_add_proto(d) PROVE FlagShape'
  BY <1>26 DEF if_add_proto, FlagShape
<1>27. ASSUME NEW d \in Demuxes, if_del_proto(d) PROVE FlagShape'
  BY <1>27 DEF if_del_proto, FlagShape
<1> QED
  BY <1>1, <1>2, <1>3, <1>4, <1>5, <1>6, <1>7, <1>8, <1>9, <1>10, <1>11, <1>12, <1>13,
     <1>14, <1>15, <1>16, <1>17, <1>18, <1>19, <1>20, <1>21, <1>22, <1>23, <1>24, <1>25,
     <1>26, <1>27
  DEF Next, Thread, Stack

(* The threads. *)
LEMMA ThreadsNext ==
    ASSUME ThreadShape, [Next]_vars PROVE ThreadShape'
<1> USE DEF mgrVars, ifVars, confVars, queueVars, threadVars
<1>1. CASE tap_module_start
  BY <1>1 DEF tap_module_start, ThreadShape
<1>2. CASE tap_module_stop
  BY <1>2 DEF tap_module_stop, ThreadShape
<1>3. CASE GiveUp
  BY <1>3 DEF GiveUp, ThreadShape
<1>4. CASE UNCHANGED vars
  BY <1>4 DEF vars, ThreadShape
<1>5. ASSUME NEW t \in Threads, NEW o \in Ops, Call(t, o) PROVE ThreadShape'
  BY <1>5 DEF Call, ThreadShape
<1>6. ASSUME NEW t \in Threads, Enter(t) PROVE ThreadShape'
  BY <1>6 DEF Enter, Behind, Inside, ThreadShape
<1>7. ASSUME NEW t \in Threads, Exit(t) PROVE ThreadShape'
  BY <1>7 DEF Exit, ThreadShape
<1>8. ASSUME NEW t \in Threads, cdev_open(t) PROVE ThreadShape'
  BY <1>8 DEF cdev_open, Goto, Behind, Inside, ThreadShape
<1>9. ASSUME NEW t \in Threads, cdev_close(t) PROVE ThreadShape'
  BY <1>9 DEF cdev_close, Goto, Return, Behind, Inside, Closing, ThreadShape
<1>10. ASSUME NEW t \in Threads,
             \/ shutdown_interface(t) \/ cleanup_interface(t)
             \/ delete_addresses(t) \/ unregister_interface(t)
      PROVE  ThreadShape'
  BY <1>10 DEF shutdown_interface, cleanup_interface, delete_addresses,
     unregister_interface, Goto, Behind, Inside, Closing, ThreadShape
<1>11. ASSUME NEW t \in Threads, close_finish(t) PROVE ThreadShape'
  BY <1>11 DEF close_finish, NotifyWaiters, Awoken, Behind, Inside, ThreadShape
<1>12. ASSUME NEW t \in Threads, cdev_read(t) PROVE ThreadShape'
  BY <1>12 DEF cdev_read, Goto, Return, Behind, Inside, ThreadShape
<1>13. ASSUME NEW t \in Threads, msleep(t) PROVE ThreadShape'
  BY <1>13 DEF msleep, Goto, Behind, Inside, ThreadShape
<1>14. ASSUME NEW t \in Threads, Signal(t) PROVE ThreadShape'
  BY <1>14 DEF Signal, Goto, Behind, Inside, ThreadShape
<1>15. ASSUME NEW t \in Threads, read_interrupted(t) PROVE ThreadShape'
  BY <1>15 DEF read_interrupted, Return, Behind, Inside, ThreadShape
<1>16. ASSUME NEW t \in Threads, cdev_write(t) PROVE ThreadShape'
  BY <1>16 DEF cdev_write, Return, Behind, Inside, ThreadShape
<1>17. ASSUME NEW t \in Threads, cdev_ioctl(t) PROVE ThreadShape'
  BY <1>17 DEF cdev_ioctl, Return, Behind, Inside, ThreadShape
<1>18. ASSUME NEW t \in Threads, cdev_select(t) PROVE ThreadShape'
  BY <1>18 DEF cdev_select, Return, Behind, Inside, ThreadShape
<1>19. ASSUME NEW s \in Senders, if_output(s) PROVE ThreadShape'
  BY <1>19 DEF if_output, ThreadShape
<1>20. ASSUME NEW s \in Senders, output_enqueue(s) PROVE ThreadShape'
  BY <1>20 DEF output_enqueue, ThreadShape
<1>21. ASSUME NEW s \in Senders, output_announce(s) PROVE ThreadShape'
  BY <1>21 DEF output_announce, NotifyWaiters, Awoken, Behind, Inside, ThreadShape
<1>22. CASE if_detached
  BY <1>22 DEF if_detached, ThreadShape
<1>23. CASE SetFlags
  BY <1>23 DEF SetFlags, ThreadShape
<1>24. ASSUME NEW family \in Families, SetAddress(family) PROVE ThreadShape'
  BY <1>24 DEF SetAddress, ThreadShape
<1>25. CASE do_sock_ioctl \/ do_sock_ioctl_returns
  BY <1>25 DEF do_sock_ioctl, do_sock_ioctl_returns, ThreadShape
<1>26. ASSUME NEW d \in Demuxes, if_add_proto(d) PROVE ThreadShape'
  BY <1>26 DEF if_add_proto, ThreadShape
<1>27. ASSUME NEW d \in Demuxes, if_del_proto(d) PROVE ThreadShape'
  BY <1>27 DEF if_del_proto, ThreadShape
<1> QED
  BY <1>1, <1>2, <1>3, <1>4, <1>5, <1>6, <1>7, <1>8, <1>9, <1>10, <1>11, <1>12, <1>13,
     <1>14, <1>15, <1>16, <1>17, <1>18, <1>19, <1>20, <1>21, <1>22, <1>23, <1>24, <1>25,
     <1>26, <1>27
  DEF Next, Thread, Stack

-----------------------------------------------------------------------------
(* Which steps change what. *)

ConfSteps == \/ if_detached \/ SetFlags \/ do_sock_ioctl \/ do_sock_ioctl_returns
             \/ \E family \in Families : SetAddress(family)
             \/ \E d \in Demuxes : if_add_proto(d) \/ if_del_proto(d)

LEMMA ConfMoves ==
    ASSUME ConfSteps PROVE UNCHANGED <<mgrVars, open, net, lock, turn, queueVars, threadVars, block_io, tx>>
BY DEF ConfSteps, if_detached, SetFlags, SetAddress, do_sock_ioctl, do_sock_ioctl_returns,
       if_add_proto, if_del_proto, mgrVars, ifVars, queueVars, threadVars

ModuleSteps == tap_module_start \/ tap_module_stop \/ GiveUp

LEMMA ModuleMoves ==
    ASSUME ModuleSteps
    PROVE  /\ UNCHANGED <<strict, population, ticket_number, ifVars, confVars, queueVars,
                          threadVars, block_io, tx>>
BY DEF ModuleSteps, tap_module_start, tap_module_stop, GiveUp

GateSteps(t) == (\E o \in Ops : Call(t, o)) \/ Enter(t) \/ Exit(t)
LEMMA GateMoves ==
    ASSUME NEW t \in Threads, GateSteps(t)
    PROVE  /\ UNCHANGED <<strict, kext, old_number, ifVars, confVars, queueVars, missed,
                          block_io, tx>>
           /\ \E p \in {"user", "gate", "in", "out"} : pc' = [pc EXCEPT ![t] = p]
BY DEF GateSteps, Call, Enter, Exit, mgrVars

ReturnSteps(t) == cdev_write(t) \/ cdev_ioctl(t) \/ read_interrupted(t)
LEMMA ReturnMoves ==
    ASSUME NEW t \in Threads, ReturnSteps(t)
    PROVE  /\ UNCHANGED <<mgrVars, ifVars, confVars, queueVars, missed, tx>>
           /\ pc' = [pc EXCEPT ![t] = "out"] /\ pc[t] \in {"in", "signalled"}
BY DEF ReturnSteps, cdev_write, cdev_ioctl, read_interrupted, Return, Runs

CloseSteps(t) == \/ shutdown_interface(t) \/ cleanup_interface(t) \/ delete_addresses(t)
                 \/ unregister_interface(t)
LEMMA CloseMoves ==
    ASSUME ThreadShape, NEW t \in Threads, CloseSteps(t)
    PROVE  /\ UNCHANGED <<mgrVars, open, lock, queueVars, missed, block_io, tx>>
           /\ pc[t] \in Closing /\ \E p \in Closing : pc' = [pc EXCEPT ![t] = p]
<1>1. /\ UNCHANGED <<mgrVars, open, lock, queueVars, missed, block_io, tx>>
      /\ pc[t] \in Closing
  BY DEF CloseSteps, shutdown_interface, cleanup_interface, delete_addresses,
     unregister_interface, ifVars, threadVars, Closing
<1>2. CASE shutdown_interface(t)
  BY <1>2 DEF shutdown_interface, threadVars, ThreadShape, Closing
<1>3. CASE cleanup_interface(t)
  BY <1>3 DEF cleanup_interface, Goto, Closing
<1>4. CASE delete_addresses(t)
  BY <1>4 DEF delete_addresses, Goto, ifVars, Closing
<1>5. CASE unregister_interface(t)
  BY <1>5 DEF unregister_interface, Goto, Closing
<1> QED
  BY <1>1, <1>2, <1>3, <1>4, <1>5 DEF CloseSteps

LEMMA Steps ==
    ASSUME [Next]_vars
    PROVE  \/ ModuleSteps \/ ConfSteps \/ UNCHANGED vars
           \/ \E t \in Threads :
                 \/ GateSteps(t) \/ ReturnSteps(t)
                 \/ cdev_open(t) \/ cdev_close(t) \/ CloseSteps(t) \/ close_finish(t)
                 \/ cdev_read(t) \/ msleep(t) \/ Signal(t) \/ cdev_select(t)
           \/ \E s \in Senders : if_output(s) \/ output_enqueue(s) \/ output_announce(s)
BY DEF Next, Thread, Stack, ModuleSteps, ConfSteps, GateSteps, ReturnSteps, CloseSteps

-----------------------------------------------------------------------------
(* The queue and the senders. *)

LEMMA QueueNext ==
    ASSUME QueueShape, TxShape, ThreadShape, [Next]_vars PROVE QueueShape'
<1>1. CASE UNCHANGED send_queue
  BY <1>1 DEF QueueShape
<1>2. CASE send_queue # <<>> /\ dequeue
  <2>1. /\ Tail(send_queue) \in Seq({"fresh", "late"})
        /\ Len(Tail(send_queue)) = Len(send_queue) - 1 /\ Len(send_queue) \in Nat
    BY <1>2 DEF QueueShape
  <2>2. Len(send_queue) - 1 <= QUEUE_SIZE
    BY <2>1, TuntapAssumption DEF QueueShape
  <2> QED
    BY <1>2, <2>1, <2>2 DEF dequeue, QueueShape
<1>3. CASE clear
  BY <1>3, TuntapAssumption DEF clear, QueueShape
<1>4. ASSUME NEW s \in Senders, output_enqueue(s) PROVE QueueShape'
  <2>1. CASE Len(send_queue) = QUEUE_SIZE
    BY <1>1, <1>4, <2>1 DEF output_enqueue
  <2>2. CASE Len(send_queue) # QUEUE_SIZE
    <3>1. send_queue' = Append(send_queue, tx[s].kind) /\ tx[s].kind \in {"fresh", "late"}
      BY <1>4, <2>2 DEF output_enqueue, enqueue, TxShape, Output
    <3> QED
      BY <2>2, <3>1, TuntapAssumption DEF QueueShape
  <2> QED
    BY <2>1, <2>2
<1>5. ASSUME NEW s \in Senders, if_output(s) \/ output_announce(s) PROVE QueueShape'
  BY <1>1, <1>5 DEF if_output, output_announce, queueVars
<1>6. ASSUME NEW t \in Threads, cdev_read(t) PROVE QueueShape'
  BY <1>1, <1>2, <1>6 DEF cdev_read
<1>7. ASSUME NEW t \in Threads, close_finish(t) PROVE QueueShape'
  BY <1>3, <1>7 DEF close_finish
<1>8. ASSUME NEW t \in Threads,
             \/ cdev_open(t) \/ cdev_close(t) \/ msleep(t) \/ Signal(t) \/ cdev_select(t)
      PROVE  QueueShape'
  BY <1>1, <1>8 DEF cdev_open, cdev_close, msleep, Signal, cdev_select, queueVars
<1>9. ASSUME NEW t \in Threads, GateSteps(t) \/ ReturnSteps(t) \/ CloseSteps(t)
      PROVE  QueueShape'
  BY <1>1, <1>9, GateMoves, ReturnMoves, CloseMoves DEF queueVars
<1>10. CASE ModuleSteps \/ ConfSteps \/ UNCHANGED vars
  BY <1>1, <1>10, ModuleMoves, ConfMoves DEF queueVars, vars
<1> QED
  BY <1>4, <1>5, <1>6, <1>7, <1>8, <1>9, <1>10, Steps

Begun(o, n) == [o EXCEPT !.pc = "send", !.left = n]
Queued(o, n, p) == [o EXCEPT !.left = n, !.queued = TRUE, !.pc = p]

LEMMA OutputBegun ==
    ASSUME NEW o \in Output, NEW n \in 0 .. MaxBurst
    PROVE  Begun(o, n) \in Output /\ Begun(o, n).pc = "send" /\ Begun(o, n).left = n
BY DEF Begun, Output

LEMMA OutputQueued ==
    ASSUME NEW o \in Output, NEW n \in 0 .. MaxBurst, NEW p \in {"idle", "send", "announce"}
    PROVE  /\ Queued(o, n, p) \in Output
           /\ Queued(o, n, p).pc = p /\ Queued(o, n, p).left = n
BY DEF Queued, Output

LEMMA TxNext ==
    ASSUME TxShape, TxInv, ThreadShape, [Next]_vars PROVE TxShape' /\ TxInv'
<1>1. CASE UNCHANGED tx
  BY <1>1 DEF TxShape, TxInv
<1>2. ASSUME NEW s \in Senders, tx' = [tx EXCEPT ![s] = Idle] PROVE TxShape' /\ TxInv'
  BY <1>2, IdleOutput DEF TxShape, TxInv
<1>3. ASSUME NEW s \in Senders, if_output(s) PROVE TxShape' /\ TxInv'
  <2>1. PICK n \in 1 .. MaxBurst :
           tx' = [tx EXCEPT ![s] = [Idle EXCEPT !.pc = "send", !.left = n]]
    BY <1>3 DEF if_output
  <2>2. n \in 0 .. MaxBurst /\ n # 0
    BY TuntapAssumption
  <2>3. PICK r : r = Begun(Idle, n)
    OBVIOUS
  <2>4. r \in Output /\ r.pc = "send" /\ r.left # 0
    BY <2>2, <2>3, IdleOutput, OutputBegun
  <2>5. tx' = [tx EXCEPT ![s] = r]
    BY <2>1, <2>3 DEF Begun
  <2> QED
    BY <2>4, <2>5 DEF TxShape, TxInv
<1>4. ASSUME NEW s \in Senders, output_enqueue(s) PROVE TxShape' /\ TxInv'
  <2>1. CASE Len(send_queue) = QUEUE_SIZE
    BY <1>2, <1>4, <2>1 DEF output_enqueue
  <2>2. CASE Len(send_queue) # QUEUE_SIZE
    <3>1. tx[s] \in Output /\ tx[s].left # 0
      BY <1>4 DEF output_enqueue, TxShape, TxInv
    <3>2. tx[s].left \in 0 .. MaxBurst
      BY <3>1 DEF Output
    <3>3. PICK n, p : n = tx[s].left - 1 /\ p = IF tx[s].left = 1 THEN "announce" ELSE "send"
      OBVIOUS
    <3>4. /\ n \in 0 .. MaxBurst /\ p \in {"idle", "send", "announce"}
          /\ p # "idle" /\ (p = "send" => n # 0)
      BY <3>1, <3>2, <3>3, TuntapAssumption
    <3>5. PICK r : r = Queued(tx[s], n, p)
      OBVIOUS
    <3>6. r \in Output /\ r.pc = p /\ r.left = n
      BY <3>1, <3>4, <3>5, OutputQueued
    <3>7. tx' = [tx EXCEPT ![s] = r]
      BY <1>4, <2>2, <3>3, <3>5 DEF output_enqueue, Queued, TxShape
    <3> QED
      BY <3>4, <3>6, <3>7 DEF TxShape, TxInv
  <2> QED
    BY <2>1, <2>2
<1>5. ASSUME NEW s \in Senders, output_announce(s) PROVE TxShape' /\ TxInv'
  BY <1>2, <1>5 DEF output_announce
<1>6. ASSUME NEW t \in Threads, cdev_close(t) PROVE TxShape' /\ TxInv'
  <2>1. CASE open
    <3>1. \A s \in Senders : /\ [tx[s] EXCEPT !.kind = "late"] \in Output
                              /\ [tx[s] EXCEPT !.kind = "late"].pc = tx[s].pc
                              /\ [tx[s] EXCEPT !.kind = "late"].left = tx[s].left
                              /\ [tx[s] EXCEPT !.kind = "late"].queued = tx[s].queued
      BY DEF TxShape, Output
    <3>2. tx' = [s \in Senders |->
                   IF tx[s].pc = "idle" THEN tx[s] ELSE [tx[s] EXCEPT !.kind = "late"]]
      BY <1>6, <2>1 DEF cdev_close
    <3> QED
      BY <3>1, <3>2 DEF TxShape, TxInv
  <2> QED
    BY <1>1, <1>6, <2>1 DEF cdev_close
<1>7. ASSUME NEW t \in Threads,
             \/ cdev_open(t) \/ close_finish(t) \/ cdev_read(t) \/ msleep(t) \/ Signal(t)
             \/ cdev_select(t)
      PROVE  TxShape' /\ TxInv'
  BY <1>1, <1>7 DEF cdev_open, close_finish, cdev_read, msleep, Signal, cdev_select
<1>8. ASSUME NEW t \in Threads, GateSteps(t) \/ ReturnSteps(t) \/ CloseSteps(t)
      PROVE  TxShape' /\ TxInv'
  BY <1>1, <1>8, GateMoves, ReturnMoves, CloseMoves
<1>9. CASE ModuleSteps \/ ConfSteps \/ UNCHANGED vars
  BY <1>1, <1>9, ModuleMoves, ConfMoves DEF vars
<1> QED
  BY <1>3, <1>4, <1>5, <1>6, <1>7, <1>8, <1>9, Steps

-----------------------------------------------------------------------------
(* The table of protocols and the addresses. *)

LEMMA FreeSlot == ASSUME NEW d \in Demuxes, NEW t PROVE [proto |-> d.proto, type |-> t] # Free
BY TuntapAssumption DEF Free, None

LEMMA EntryProto == ASSUME NEW e \in Entries PROVE e.proto \in Protos
BY DEF Entries, Protos

\* What if_del_proto leaves.
LEMMA TableWithout ==
    ASSUME attached_protos \in Table, NEW p, attached_protos' = Without(p)
    PROVE  /\ attached_protos' \in Table
           /\ \A i \in Slots : Used(i)' => /\ attached_protos'[i] = attached_protos[i]
                                          /\ Used(i) /\ attached_protos[i].proto # p
<1>1. \A i \in Slots : attached_protos'[i] = IF attached_protos[i].proto = p THEN Free
                                             ELSE attached_protos[i]
  BY DEF Without
<1>2. attached_protos' \in Table
  BY DEF Without, Table
<1> QED
  BY <1>1, <1>2 DEF Used

LEMMA BijectionValues ==
    ASSUME NEW S, NEW T, NEW f \in Bijection(S, T)
    PROVE  f \in [S -> T] /\ \A a, b \in S : f[a] = f[b] => a = b
BY DEF Bijection, Injection, IsInjective

\* What if_add_proto adds.
LEMMA TableStored ==
    ASSUME attached_protos \in Table, NEW d \in Demuxes, Stored(d)
    PROVE  \E new \in SUBSET {i \in Slots : ~Used(i)} : \E f \in Bijection(new, Missing(d)) :
              /\ attached_protos' \in Table
              /\ \A i \in new : attached_protos'[i].proto = d.proto /\ attached_protos'[i].type = f[i]
              /\ \A i \in Slots \ new : attached_protos'[i] = attached_protos[i]
<1>1. PICK new \in SUBSET {i \in Slots : ~Used(i)} :
         \E f \in Bijection(new, Missing(d)) :
            attached_protos' = [i \in Slots |-> IF i \in new
                                                 THEN [proto |-> d.proto, type |-> f[i]]
                                                 ELSE attached_protos[i]]
  BY DEF Stored
<1>2. PICK f \in Bijection(new, Missing(d)) :
         attached_protos' = [i \in Slots |-> IF i \in new
                                              THEN [proto |-> d.proto, type |-> f[i]]
                                              ELSE attached_protos[i]]
  BY <1>1
<1>3. \A i \in new : f[i] \in d.types
  BY <1>2, BijectionValues DEF Missing
<1>4. \A i \in new : [proto |-> d.proto, type |-> f[i]] \in Entries
  BY <1>3 DEF Entries
<1>5. attached_protos' \in Table
  BY <1>2, <1>4 DEF Table
<1>6. ASSUME NEW i \in new
      PROVE  attached_protos'[i].proto = d.proto /\ attached_protos'[i].type = f[i]
  <2>1. i \in Slots
    OBVIOUS
  <2>2. attached_protos'[i] = [proto |-> d.proto, type |-> f[i]]
    BY <1>2, <2>1
  <2> QED
    BY <2>2
<1>7. \A i \in Slots \ new : attached_protos'[i] = attached_protos[i]
  BY <1>2
<1> QED
  BY <1>1, <1>2, <1>5, <1>6, <1>7

LEMMA SlotTurn ==
    ASSUME turn \in 0 .. MAX_ATTACHED_PROTOS, turn < MAX_ATTACHED_PROTOS
    PROVE  turn \in Slots /\ turn + 1 \in 0 .. MAX_ATTACHED_PROTOS
BY TuntapAssumption DEF Slots

LEMMA TableNext ==
    ASSUME ConfShape, ThreadShape, [Next]_vars PROVE ConfShape'
<1> USE DEF ConfShape
<1>1. CASE UNCHANGED <<confVars, turn>>
  BY <1>1 DEF confVars
<1>2. ASSUME NEW d \in Demuxes, if_add_proto(d) PROVE ConfShape'
  <2>1. UNCHANGED <<turn, addresses, in_ioctl, fixing>>
    BY <1>2 DEF if_add_proto, ifVars
  <2>2. CASE attached_protos' = Without(d.proto) /\ UNCHANGED spared
    BY <2>1, <2>2, TableWithout
  <2>3. CASE Stored(d) /\ Given(d.proto)
    <3>1. attached_protos' \in Table
      BY <2>3, TableStored
    <3>2. spared' \subseteq Protos \cup Families \cup {"inet"}
      BY <2>3 DEF Given, Protos
    <3> QED
      BY <2>1, <3>1, <3>2
  <2> QED
    BY <1>2, <2>2, <2>3 DEF if_add_proto
<1>3. ASSUME NEW d \in Demuxes, if_del_proto(d) PROVE ConfShape'
  BY <1>3, TableWithout DEF if_del_proto, ifVars
<1>4. ASSUME NEW family \in Families, SetAddress(family) PROVE ConfShape'
  BY <1>4 DEF SetAddress, Given, ifVars
<1>5. CASE do_sock_ioctl
  BY <1>5 DEF do_sock_ioctl, ifVars
<1>6. CASE do_sock_ioctl_returns
  BY <1>6 DEF do_sock_ioctl_returns, Given, ifVars
<1>7. ASSUME NEW t \in Threads, shutdown_interface(t) PROVE ConfShape'
  <2>1. UNCHANGED <<addresses, in_ioctl, fixing>> /\ turn' \in 0 .. MAX_ATTACHED_PROTOS /\ turn \in Slots
    BY <1>7, SlotTurn DEF shutdown_interface
  <2>2. CASE attached_protos' = Without(attached_protos[turn].proto) /\ UNCHANGED spared
    BY <2>1, <2>2, TableWithout
  <2>3. CASE /\ Used(turn) /\ spared' = spared \cup {attached_protos[turn].proto}
             /\ UNCHANGED attached_protos
    BY <2>1, <2>3, EntryProto DEF Table, Used
  <2>4. CASE UNCHANGED <<attached_protos, spared>>
    BY <2>1, <2>4
  <2> QED
    BY <1>7, <2>2, <2>3, <2>4 DEF shutdown_interface
<1>8. ASSUME NEW t \in Threads, cleanup_interface(t) PROVE ConfShape'
  BY <1>8 DEF cleanup_interface
<1>14. ASSUME NEW t \in Threads, delete_addresses(t) PROVE ConfShape'
  BY <1>14 DEF delete_addresses, ifVars
<1>9. ASSUME NEW t \in Threads, cdev_open(t) PROVE ConfShape'
  <2>1. spared' \in {spared, {}} /\ UNCHANGED <<attached_protos, turn, addresses, in_ioctl, fixing>>
    BY <1>9 DEF cdev_open
  <2> QED
    BY <2>1
<1>10. ASSUME NEW t \in Threads, cdev_close(t) PROVE ConfShape'
  <2>1. turn' \in {turn, 0} /\ UNCHANGED confVars
    BY <1>10 DEF cdev_close
  <2> QED
    BY <2>1, TuntapAssumption DEF confVars
<1>11. ASSUME NEW t \in Threads,
              \/ unregister_interface(t) \/ close_finish(t) \/ cdev_read(t) \/ msleep(t)
              \/ Signal(t) \/ cdev_select(t) \/ GateSteps(t) \/ ReturnSteps(t)
       PROVE  ConfShape'
  BY <1>1, <1>11, GateMoves, ReturnMoves
  DEF unregister_interface, close_finish, cdev_read, msleep, Signal, cdev_select, ifVars
<1>12. ASSUME NEW s \in Senders, if_output(s) \/ output_enqueue(s) \/ output_announce(s)
       PROVE  ConfShape'
  BY <1>1, <1>12 DEF if_output, output_enqueue, output_announce, ifVars
<1>13. CASE if_detached \/ SetFlags \/ ModuleSteps \/ UNCHANGED vars
  BY <1>1, <1>13, ModuleMoves DEF if_detached, SetFlags, ifVars, vars
<1> QED
  BY <1>2, <1>3, <1>4, <1>5, <1>6, <1>7, <1>8, <1>9, <1>10, <1>11, <1>12, <1>13, <1>14,
     Steps
  DEF ConfSteps, CloseSteps

-----------------------------------------------------------------------------
(* The gate. *)

LEMMA GateFinite ==
    /\ IsFiniteSet(ThreadsBehind) /\ Cardinality(ThreadsBehind) \in Nat
    /\ Cardinality(Threads) \in Nat
    /\ Cardinality(ThreadsBehind) <= Cardinality(Threads)
<1>1. ThreadsBehind \in SUBSET Threads
  BY DEF ThreadsBehind
<1> QED
  BY <1>1, FS_Subset, FS_CardinalityType, TuntapAssumption

LEMMA GateStays ==
    ASSUME GateInv, UNCHANGED <<population, ticket_number>>,
           old_number' \in {old_number, ticket_number},
           \A t \in Threads : pc'[t] \in Behind <=> pc[t] \in Behind
    PROVE  GateInv'
<1>1. ThreadsBehind' = ThreadsBehind
  BY DEF ThreadsBehind
<1>2. old_number' \in 0 .. Cardinality(Threads)
  BY GateFinite DEF GateInv
<1> QED
  BY <1>1, <1>2 DEF GateInv

LEMMA GateInit == ASSUME Init PROVE GateInv
<1>1. ThreadsBehind = {}
  BY DEF Init, ThreadsBehind, Behind, Inside, Closing
<1>2. Cardinality(ThreadsBehind) = 0
  BY <1>1, FS_EmptySet
<1> QED
  BY <1>2, GateFinite DEF Init, GateInv

LEMMA GateNext ==
    ASSUME ThreadShape, GateInv, [Next]_vars PROVE GateInv'
<1>1. CASE UNCHANGED <<population, ticket_number, old_number, pc>>
  BY <1>1, GateStays
<1>2. ASSUME NEW t \in Threads, Enter(t) PROVE GateInv'
  <2>1. t \notin ThreadsBehind /\ ThreadsBehind' = ThreadsBehind \cup {t}
    BY <1>2 DEF Enter, ThreadsBehind, ThreadShape, Behind, Inside, Closing
  <2>2. Cardinality(ThreadsBehind') = Cardinality(ThreadsBehind) + 1
    BY <2>1, GateFinite, FS_AddElement
  <2> QED
    BY <1>2, <2>2 DEF Enter, enter, GateInv
<1>3. ASSUME NEW t \in Threads, Exit(t) PROVE GateInv'
  <2>1. t \in ThreadsBehind /\ ThreadsBehind' = ThreadsBehind \ {t}
    BY <1>3 DEF Exit, ThreadsBehind, ThreadShape, Behind, Inside, Closing
  <2>2. Cardinality(ThreadsBehind') = Cardinality(ThreadsBehind) - 1
    BY <2>1, GateFinite, FS_RemoveElement
  <2> QED
    BY <1>3, <2>2 DEF Exit, exit, GateInv
<1>4. ASSUME NEW t \in Threads, NEW o \in Ops, Call(t, o) PROVE GateInv'
  <2>1. \A u \in Threads : pc'[u] \in Behind <=> pc[u] \in Behind
    BY <1>4 DEF Call, ThreadShape, Behind, Inside, Closing
  <2> QED
    BY <1>4, <2>1, GateStays DEF Call, mgrVars
<1>5. ASSUME NEW t \in Threads, pc[t] \in Behind, UNCHANGED <<population, ticket_number, old_number>>,
             NEW p \in Behind, pc' = [pc EXCEPT ![t] = p]
      PROVE  GateInv'
  <2>1. \A u \in Threads : pc'[u] \in Behind <=> pc[u] \in Behind
    BY <1>5 DEF ThreadShape
  <2> QED
    BY <1>5, <2>1, GateStays
<1>6. ASSUME NEW t \in Threads, ReturnSteps(t) PROVE GateInv'
  BY <1>5, <1>6, ReturnMoves DEF mgrVars, Behind, Inside
<1>7. ASSUME NEW t \in Threads,
             \/ cdev_open(t) \/ cdev_close(t) \/ CloseSteps(t) \/ cdev_read(t) \/ msleep(t)
             \/ Signal(t) \/ cdev_select(t)
      PROVE  GateInv'
  <2>1. CASE CloseSteps(t)
    BY <1>5, <2>1, CloseMoves DEF mgrVars, Behind, Inside
  <2>2. CASE \/ cdev_open(t) \/ cdev_close(t) \/ cdev_read(t) \/ msleep(t) \/ Signal(t)
             \/ cdev_select(t)
    BY <1>5, <2>2 DEF cdev_open, cdev_close, cdev_read, msleep, Signal, cdev_select, Goto,
       Return, Runs, mgrVars, Behind, Inside, Closing
  <2> QED
    BY <1>7, <2>1, <2>2
<1>8. ASSUME NEW t \in Threads, close_finish(t) PROVE GateInv'
  <2>1. \A u \in Threads : pc'[u] \in Behind <=> pc[u] \in Behind
    BY <1>8 DEF close_finish, Awoken, ThreadShape, Behind, Inside, Closing
  <2> QED
    BY <1>8, <2>1, GateStays DEF close_finish, mgrVars
<1>9. ASSUME NEW s \in Senders, output_announce(s) PROVE GateInv'
  <2>1. \A u \in Threads : pc'[u] \in Behind <=> pc[u] \in Behind
    BY <1>9 DEF output_announce, Awoken, ThreadShape, Behind, Inside
  <2> QED
    BY <1>9, <2>1, GateStays DEF output_announce, mgrVars
<1>10. ASSUME NEW s \in Senders, if_output(s) \/ output_enqueue(s) PROVE GateInv'
  BY <1>1, <1>10 DEF if_output, output_enqueue, mgrVars, threadVars
<1>11. CASE ModuleSteps
  BY <1>11, ModuleMoves, GateStays
  DEF ModuleSteps, tap_module_start, tap_module_stop, shutdown, GiveUp, threadVars
<1>12. CASE ConfSteps \/ UNCHANGED vars
  BY <1>1, <1>12, ConfMoves DEF mgrVars, threadVars, vars
<1> QED
  BY <1>2, <1>3, <1>4, <1>6, <1>7, <1>8, <1>9, <1>10, <1>11, <1>12, Steps DEF GateSteps

-----------------------------------------------------------------------------
(* The lock and the interface. *)

\* Threads that take no step of a close, while the interface and the lock stay.
LEMMA LockStays ==
    ASSUME LockInv, FlagShape, UNCHANGED <<open, net, interface_detached, lock>>,
           \A t \in Threads : pc[t] \in Closing => pc'[t] = pc[t],
           \A t \in Threads : pc'[t] \in Closing => pc'[t] = pc[t]
    PROVE  LockInv'
BY DEF LockInv, FlagShape

LEMMA LockInit == ASSUME Init PROVE LockInv
BY DEF Init, LockInv, Closing

LEMMA LockNext ==
    ASSUME Shape, LockInv, [Next]_vars PROVE LockInv'
<1> USE DEF ThreadShape, FlagShape, Shape
<1>1. CASE UNCHANGED <<open, net, interface_detached, lock, pc>>
  BY <1>1, LockStays
<1>2. ASSUME NEW t \in Threads, NEW p, pc' = [pc EXCEPT ![t] = p],
             pc[t] \notin Closing, p \notin Closing,
             UNCHANGED <<open, net, interface_detached, lock>>
      PROVE  LockInv'
  BY <1>2, LockStays
<1>3. ASSUME NEW t \in Threads, cdev_open(t) PROVE LockInv'
  <2>1. /\ pc' = [pc EXCEPT ![t] = "out"] /\ pc[t] = "in" /\ lock = None
        /\ UNCHANGED <<interface_detached, lock>>
    BY <1>3 DEF cdev_open, Runs, Goto
  <2>2. CASE UNCHANGED <<open, net>>
    BY <1>2, <2>1, <2>2 DEF Closing
  <2>3. CASE open' = TRUE /\ net' = "attached"
    BY <2>1, <2>3 DEF LockInv, Closing
  <2> QED
    BY <1>3, <2>2, <2>3 DEF cdev_open, initialize_interface, register_interface
<1>4. ASSUME NEW t \in Threads, cdev_close(t) PROVE LockInv'
  <2>1. CASE open
    <3>1. /\ lock = None /\ net = "attached" /\ net' = net
          /\ \A u \in Threads : pc[u] \notin Closing
      BY <1>4, <2>1, Apart DEF cdev_close, Runs, LockInv
    <3>2. pc' = [pc EXCEPT ![t] = "shut"] /\ lock' = t /\ open' = FALSE
      BY <1>4, <2>1 DEF cdev_close, Goto
    <3> QED
      BY <3>1, <3>2, Apart DEF LockInv, Closing
  <2>2. CASE ~open
    BY <1>2, <1>4, <2>2 DEF cdev_close, Runs, Return, Closing
  <2> QED
    BY <2>1, <2>2
<1>5. ASSUME NEW t \in Threads, CloseSteps(t) PROVE LockInv'
  <2>1. /\ pc[t] \in Closing /\ lock = t /\ ~open
        /\ \A u \in Threads : u # t => pc[u] \notin Closing
    BY <1>5, CloseMoves, Apart DEF LockInv
  <2>2. PICK p \in Closing : pc' = [pc EXCEPT ![t] = p]
    BY <1>5, CloseMoves
  <2>3. lock' = lock /\ open' = open
    BY <1>5, CloseMoves
  <2>4. /\ net' = "attached" \/ (net' = "detaching" /\ pc'[t] = "detach")
        /\ net' = "attached" /\ pc'[t] = "detach" => ~interface_detached'
    <3>1. CASE shutdown_interface(t)
      BY <2>1, <3>1, Apart DEF shutdown_interface, threadVars, LockInv
    <3>2. CASE cleanup_interface(t)
      BY <2>1, <3>2, Apart DEF cleanup_interface, Goto, LockInv
    <3>3. CASE delete_addresses(t)
      BY <2>1, <3>3, Apart DEF delete_addresses, Goto, ifVars, LockInv
    <3>4. CASE unregister_interface(t)
      BY <2>1, <3>4, Apart DEF unregister_interface, Goto, LockInv
    <3> QED
      BY <1>5, <3>1, <3>2, <3>3, <3>4 DEF CloseSteps
  <2> QED
    BY <2>1, <2>2, <2>3, <2>4, Apart DEF LockInv
<1>6. ASSUME NEW t \in Threads, close_finish(t) PROVE LockInv'
  <2>1. /\ pc[t] = "detach" /\ lock = t /\ ~open
        /\ \A u \in Threads : u # t => pc[u] \notin Closing
    BY <1>6, Apart DEF close_finish, LockInv, Closing
  <2>2. net' = None /\ lock' = None /\ open' = open
    BY <1>6 DEF close_finish
  <2>3. pc'[t] = "out"
    BY <1>6 DEF close_finish, Awoken
  <2>4. ASSUME NEW u \in Threads, u # t PROVE pc'[u] \in {"woken", pc[u]}
    BY <1>6, <2>4 DEF close_finish, Awoken
  <2>5. \A u \in Threads : pc'[u] \notin Closing
    BY <2>1, <2>3, <2>4 DEF Closing
  <2> QED
    BY <2>1, <2>2, <2>5 DEF LockInv
<1>7. ASSUME NEW t \in Threads,
             \/ cdev_read(t) \/ msleep(t) \/ Signal(t) \/ cdev_select(t) \/ ReturnSteps(t)
      PROVE  LockInv'
  <2>1. CASE ReturnSteps(t)
    BY <1>2, <2>1, ReturnMoves DEF ifVars, Closing
  <2>2. CASE cdev_read(t)
    BY <1>2, <2>2 DEF cdev_read, Runs, Goto, Return, ifVars, Closing
  <2>3. CASE msleep(t) \/ Signal(t) \/ cdev_select(t)
    BY <1>2, <2>3 DEF msleep, Signal, cdev_select, Runs, Goto, Return, ifVars, Closing
  <2> QED
    BY <1>7, <2>1, <2>2, <2>3
<1>8. ASSUME NEW t \in Threads, GateSteps(t) PROVE LockInv'
  <2>1. pc[t] \notin Closing
    BY <1>8 DEF GateSteps, Call, Enter, Exit, Closing
  <2> QED
    BY <1>2, <1>8, <2>1, GateMoves DEF ifVars, Closing
<1>9. ASSUME NEW s \in Senders, output_announce(s) PROVE LockInv'
  BY <1>9, LockStays DEF output_announce, Awoken, ifVars, Closing
<1>10. ASSUME NEW s \in Senders, if_output(s) \/ output_enqueue(s) PROVE LockInv'
  BY <1>1, <1>10 DEF if_output, output_enqueue, ifVars, threadVars
<1>11. CASE ModuleSteps
  BY <1>1, <1>11, ModuleMoves DEF ifVars, threadVars
<1>12. CASE ConfSteps
  <2>1. CASE if_detached
    BY <2>1 DEF if_detached, threadVars, LockInv
  <2>2. CASE ~if_detached
    BY <1>1, <1>12, <2>2 DEF ConfSteps, SetFlags, SetAddress, do_sock_ioctl,
       do_sock_ioctl_returns, if_add_proto, if_del_proto, ifVars, threadVars
  <2> QED
    BY <2>1, <2>2
<1>13. CASE UNCHANGED vars
  BY <1>1, <1>13 DEF vars, ifVars, threadVars
<1> QED
  BY <1>3, <1>4, <1>5, <1>6, <1>7, <1>8, <1>9, <1>10, <1>11, <1>12, <1>13, Steps

-----------------------------------------------------------------------------
(* What a close has torn down. *)

LEMMA TornInit == ASSUME Init PROVE TornInv
<1>1. \A s \in Senders : tx[s].pc = "idle"
  BY IdleOutput DEF Init
<1>2. net # "detaching" /\ lock = None
  BY DEF Init, None
<1> QED
  BY <1>1, <1>2 DEF TornInv, Sending

\* A step that starts no output, does not change the interface, and opens or
\* closes nothing.
LEMMA TornStays ==
    ASSUME TornInv, UNCHANGED <<strict, open, net, interface_detached>>,
           \A s \in Senders : tx'[s].pc # "idle" => tx[s].pc # "idle" /\ tx'[s].kind = tx[s].kind
    PROVE  TornInv'
BY DEF TornInv, Sending

LEMMA TornNext ==
    ASSUME Shape, TxInv, LockInv, TornInv, [Next]_vars PROVE TornInv'
<1>1. CASE UNCHANGED <<strict, open, net, interface_detached, tx>>
  BY <1>1, TornStays
<1>2. ASSUME NEW t \in Threads, cdev_open(t) PROVE TornInv'
  <2>1. CASE UNCHANGED <<open, net>>
    BY <1>1, <1>2, <2>1 DEF cdev_open, mgrVars
  <2>2. CASE open' = TRUE /\ net' = "attached"
    BY <1>2, <2>2, Apart DEF cdev_open, Runs, TornInv
  <2> QED
    BY <1>2, <2>1, <2>2 DEF cdev_open, initialize_interface, register_interface
<1>3. ASSUME NEW t \in Threads, cdev_close(t) PROVE TornInv'
  <2>1. CASE open
    <3>1. open' = FALSE /\ net' = net /\ net = "attached" /\ strict' = strict
      BY <1>3, <2>1 DEF cdev_close, LockInv, mgrVars
    <3>2. ASSUME NEW s \in Senders PROVE tx'[s].pc # "idle" => tx'[s].kind = "late"
      <4>1. tx'[s] = IF tx[s].pc = "idle" THEN tx[s] ELSE [tx[s] EXCEPT !.kind = "late"]
        BY <1>3, <2>1 DEF cdev_close
      <4>2. tx[s] \in Output
        BY DEF Shape, TxShape
      <4> QED
        BY <4>1, <4>2 DEF Output
    <3> QED
      BY <3>1, <3>2 DEF TornInv
  <2>2. CASE ~open
    BY <1>1, <1>3, <2>2 DEF cdev_close, mgrVars
  <2> QED
    BY <2>1, <2>2
<1>4. ASSUME NEW t \in Threads, CloseSteps(t) PROVE TornInv'
  <2>1. CASE shutdown_interface(t) \/ cleanup_interface(t) \/ delete_addresses(t)
    BY <1>1, <2>1 DEF shutdown_interface, cleanup_interface, delete_addresses, ifVars, mgrVars
  <2>2. CASE unregister_interface(t)
    <3>1. /\ UNCHANGED <<strict, open, tx>> /\ net = "attached"
          /\ net' \in {"detaching", net} /\ interface_detached' = FALSE
      BY <2>2, Apart DEF unregister_interface, LockInv, mgrVars, Closing
    <3> QED
      BY <3>1 DEF TornInv, Sending
  <2> QED
    BY <1>4, <2>1, <2>2 DEF CloseSteps
<1>5. ASSUME NEW t \in Threads, close_finish(t) PROVE TornInv'
  <2>1. /\ net = "detaching" /\ interface_detached /\ tx' = tx /\ strict' = strict
        /\ open' = open /\ lock' = None /\ net' = None
    BY <1>5, Apart DEF close_finish, LockInv, mgrVars, Closing
  <2>2. ~(strict /\ Sending)
    BY <2>1 DEF TornInv
  <2> QED
    BY <2>1, <2>2 DEF TornInv, Sending, None
<1>6. ASSUME NEW s \in Senders, if_output(s) PROVE TornInv'
  <2>1. /\ open /\ net = "attached"
        /\ UNCHANGED <<strict, open, net, interface_detached>>
    BY <1>6 DEF if_output, Usable, mgrVars, ifVars
  <2> QED
    BY <2>1 DEF TornInv, Sending
<1>7. ASSUME NEW s \in Senders, output_enqueue(s) PROVE TornInv'
  <2>1. ASSUME NEW u \in Senders
        PROVE  tx'[u].pc # "idle" => tx[u].pc # "idle" /\ tx'[u].kind = tx[u].kind
    <3>1. tx \in [Senders -> Output]
      BY DEF Shape, TxShape
    <3>2. CASE u # s
      BY <1>7, <3>1, <3>2 DEF output_enqueue
    <3>3. CASE u = s /\ Len(send_queue) = QUEUE_SIZE
      BY <1>7, <3>1, <3>3, IdleOutput DEF output_enqueue
    <3>4. CASE u = s /\ Len(send_queue) # QUEUE_SIZE
      <4>1. tx[s] \in Output /\ tx[s].pc = "send"
        BY <1>7, <3>1 DEF output_enqueue
      <4> QED
        BY <1>7, <3>1, <3>4, <4>1 DEF output_enqueue, Output
    <3> QED
      BY <3>2, <3>3, <3>4
  <2> QED
    BY <1>7, <2>1, TornStays DEF output_enqueue, mgrVars, ifVars, confVars
<1>8. ASSUME NEW s \in Senders, output_announce(s) PROVE TornInv'
  <2>1. ASSUME NEW u \in Senders
        PROVE  tx'[u].pc # "idle" => tx[u].pc # "idle" /\ tx'[u].kind = tx[u].kind
    BY <1>8, IdleOutput DEF output_announce, Shape, TxShape
  <2> QED
    BY <1>8, <2>1, TornStays DEF output_announce, mgrVars, ifVars, confVars
<1>9. CASE if_detached
  BY <1>9 DEF if_detached, mgrVars, TornInv, Sending
<1>10. CASE ConfSteps /\ ~if_detached
  BY <1>1, <1>10 DEF ConfSteps, SetFlags, SetAddress, do_sock_ioctl, do_sock_ioctl_returns,
     if_add_proto, if_del_proto, mgrVars, ifVars
<1>11. ASSUME NEW t \in Threads,
              \/ cdev_read(t) \/ msleep(t) \/ Signal(t) \/ cdev_select(t) \/ ReturnSteps(t)
              \/ GateSteps(t)
       PROVE  TornInv'
  <2>1. UNCHANGED <<strict, ifVars, tx>>
    BY <1>11, GateMoves, ReturnMoves DEF cdev_read, msleep, Signal, cdev_select, mgrVars
  <2> QED
    BY <1>1, <2>1 DEF ifVars
<1>12. CASE ModuleSteps \/ UNCHANGED vars
  BY <1>1, <1>12, ModuleMoves DEF mgrVars, ifVars, vars
<1> QED
  BY <1>2, <1>3, <1>4, <1>5, <1>6, <1>7, <1>8, <1>9, <1>10, <1>11, <1>12, Steps

-----------------------------------------------------------------------------
(* What a close takes away. *)

LEMMA ConfInit == ASSUME Init PROVE ConfInv /\ OneTaker
BY DEF Init, ConfInv, Shutting, Deleting, Used, OneTaker

\* Steps of threads that close nothing.
LEMMA ConfStays ==
    ASSUME ConfInv, LockInv, open' = open, lock' = lock, turn' = turn, UNCHANGED confVars,
           \A t \in Threads : pc[t] \in Closing => pc'[t] = pc[t], lock \in Threads \cup {None}
    PROVE  ConfInv'
<1>1. Shutting' = Shutting /\ Deleting' = Deleting
  BY DEF Shutting, Deleting, LockInv
<1> QED
  BY <1>1 DEF ConfInv, Used, confVars

\* Steps of the network stack: what is given to a closed interface is spared.
LEMMA ConfAdds ==
    ASSUME ConfInv, open' = open, lock' = lock, turn' = turn, pc' = pc,
           spared \subseteq spared',
           ~open => \A i \in Slots :
             Used(i)' => \/ attached_protos'[i].proto \in spared'
                         \/ Used(i) /\ attached_protos'[i] = attached_protos[i],
           ~open /\ "inet" \in addresses' => "inet" \in addresses \/ "inet" \in spared'
    PROVE  ConfInv'
<1>1. Shutting' = Shutting /\ Deleting' = Deleting
  BY DEF Shutting, Deleting
<1> QED
  BY <1>1 DEF ConfInv

LEMMA ConfNext ==
    ASSUME Shape, LockInv, ConfInv, [Next]_vars PROVE ConfInv'
<1>0. lock \in Threads \cup {None} /\ ThreadShape /\ ConfShape
  BY DEF Shape, FlagShape
<1>1. CASE UNCHANGED <<open, lock, turn, confVars, pc>>
  BY <1>0, <1>1, ConfStays
<1>2. ASSUME NEW t \in Threads, NEW p, pc' = [pc EXCEPT ![t] = p], pc[t] \notin Closing,
             UNCHANGED <<open, lock, turn, confVars>>
      PROVE  ConfInv'
  <2>1. \A u \in Threads : pc[u] \in Closing => pc'[u] = pc[u]
    BY <1>0, <1>2 DEF ThreadShape
  <2> QED
    BY <1>0, <1>2, <2>1, ConfStays
<1>3. ASSUME NEW t \in Threads, cdev_open(t) PROVE ConfInv'
  <2>1. CASE open' = TRUE
    BY <2>1 DEF ConfInv
  <2>2. CASE UNCHANGED <<open, spared>>
    BY <1>2, <1>3, <2>2 DEF cdev_open, Runs, Goto, confVars, Closing
  <2> QED
    BY <1>3, <2>1, <2>2 DEF cdev_open
<1>4. ASSUME NEW t \in Threads, cdev_close(t) PROVE ConfInv'
  <2>1. CASE open
    <3>1. lock' = t /\ turn' = 0 /\ pc' = [pc EXCEPT ![t] = "shut"]
      BY <1>4, <2>1 DEF cdev_close, Goto
    <3>2. Shutting' /\ Deleting'
      BY <1>0, <3>1, Apart DEF Shutting, Deleting, ThreadShape
    <3>3. \A i \in Slots : ~(i < 0)
      BY DEF Slots
    <3> QED
      BY <3>1, <3>2, <3>3 DEF ConfInv
  <2>2. CASE ~open
    BY <1>2, <1>4, <2>2 DEF cdev_close, Runs, Return, ifVars, Closing
  <2> QED
    BY <2>1, <2>2
<1>5. ASSUME NEW t \in Threads, pc[t] \in Closing
      PROVE  /\ lock = t /\ lock # None /\ ~open
             /\ (Shutting <=> pc[t] = "shut") /\ (Deleting <=> pc[t] \in {"shut", "delete"})
  BY <1>5, Apart DEF LockInv, Shutting, Deleting
<1>6. ASSUME NEW t \in Threads, shutdown_interface(t) PROVE ConfInv'
  <2>1. /\ pc[t] = "shut" /\ turn' = turn + 1 /\ turn \in Slots
        /\ UNCHANGED <<open, lock, addresses, pc>>
    BY <1>0, <1>6, SlotTurn DEF shutdown_interface, threadVars, ConfShape
  <2>2. lock = t /\ ~open /\ Shutting /\ Shutting' /\ Deleting'
    BY <1>5, <2>1 DEF Closing, Shutting, Deleting
  <2>3. \A i \in Slots : i < turn + 1 => i < turn \/ i = turn
    BY <2>1 DEF Slots
  <2>4. \A i \in Slots : Used(i) /\ i < turn => attached_protos[i].proto \in spared
    BY <2>2 DEF ConfInv
  <2>5. \A i \in Slots : Used(i)' /\ i < turn' => attached_protos'[i].proto \in spared'
    <3>1. CASE attached_protos' = Without(attached_protos[turn].proto) /\ UNCHANGED spared
      BY <1>0, <2>1, <2>3, <2>4, <3>1, TableWithout DEF ConfShape
    <3>2. CASE spared' = spared \cup {attached_protos[turn].proto} /\ UNCHANGED attached_protos
      BY <2>1, <2>3, <2>4, <3>2 DEF Used
    <3>3. CASE ~Used(turn) /\ UNCHANGED <<attached_protos, spared>>
      BY <2>1, <2>3, <2>4, <3>3 DEF Used
    <3> QED
      BY <1>6, <3>1, <3>2, <3>3 DEF shutdown_interface
  <2> QED
    BY <2>2, <2>5 DEF ConfInv
<1>7. ASSUME NEW t \in Threads, cleanup_interface(t) PROVE ConfInv'
  <2>1. /\ pc[t] = "shut" /\ turn = MAX_ATTACHED_PROTOS
        /\ UNCHANGED <<open, lock, attached_protos, addresses>> /\ spared \subseteq spared'
    BY <1>7 DEF cleanup_interface
  <2>2. \/ pc' = [pc EXCEPT ![t] = "delete"]
        \/ pc' = [pc EXCEPT ![t] = "clean"] /\ ("inet" \in addresses => "inet" \in spared')
    BY <1>7 DEF cleanup_interface, Goto
  <2>3. lock = t /\ ~open /\ Shutting /\ ~Shutting'
    BY <1>0, <1>5, <2>1, <2>2 DEF Closing, Shutting, ThreadShape
  <2>4. \A i \in Slots : i < turn
    BY <2>1, TuntapAssumption DEF Slots
  <2>5. ~Deleting' /\ "inet" \in addresses => "inet" \in spared'
    BY <1>0, <1>5, <2>1, <2>2 DEF Closing, Deleting, ThreadShape
  <2> QED
    BY <2>1, <2>3, <2>4, <2>5 DEF ConfInv, Used
<1>19. ASSUME NEW t \in Threads, delete_addresses(t) PROVE ConfInv'
  <2>1. /\ pc[t] = "delete" /\ pc' = [pc EXCEPT ![t] = "clean"]
        /\ UNCHANGED <<open, lock, turn, attached_protos>> /\ spared \subseteq spared'
        /\ "inet" \in addresses' => "inet" \in spared'
    BY <1>19 DEF delete_addresses, Goto, ifVars
  <2>2. ~open /\ ~Shutting /\ ~Shutting'
    BY <1>0, <1>5, <2>1 DEF Closing, Shutting, ThreadShape
  <2> QED
    BY <2>1, <2>2 DEF ConfInv, Used
<1>8. ASSUME NEW t \in Threads, unregister_interface(t) PROVE ConfInv'
  <2>1. /\ pc[t] = "clean" /\ pc' = [pc EXCEPT ![t] = "detach"]
        /\ UNCHANGED <<open, lock, turn, confVars>>
    BY <1>8 DEF unregister_interface, Goto
  <2>2. ~open /\ ~Shutting /\ ~Shutting' /\ ~Deleting
    BY <1>0, <1>5, <2>1 DEF Closing, Shutting, ThreadShape
  <2> QED
    BY <2>1, <2>2 DEF ConfInv, Used, confVars
<1>9. ASSUME NEW t \in Threads, close_finish(t) PROVE ConfInv'
  <2>1. pc[t] = "detach" /\ lock' = None /\ UNCHANGED <<open, turn, confVars>>
    BY <1>9 DEF close_finish
  <2>2. ~open /\ ~Shutting /\ ~Shutting' /\ ~Deleting
    BY <1>5, <2>1 DEF Closing, Shutting
  <2> QED
    BY <2>1, <2>2 DEF ConfInv, Used, confVars
<1>10. ASSUME NEW s \in Senders, output_announce(s) PROVE ConfInv'
  <2>1. \A t \in Threads : pc[t] \in Closing => pc'[t] = pc[t]
    BY <1>10 DEF output_announce, Awoken, Closing
  <2> QED
    BY <1>0, <1>10, <2>1, ConfStays DEF output_announce, ifVars
<1>11. ASSUME NEW s \in Senders, if_output(s) \/ output_enqueue(s) PROVE ConfInv'
  BY <1>1, <1>11 DEF if_output, output_enqueue, ifVars, threadVars
<1>12. ASSUME NEW t \in Threads,
              \/ cdev_read(t) \/ msleep(t) \/ Signal(t) \/ cdev_select(t) \/ ReturnSteps(t)
       PROVE  ConfInv'
  <2>1. CASE ReturnSteps(t)
    BY <1>2, <2>1, ReturnMoves DEF ifVars, Closing
  <2>2. CASE cdev_read(t)
    BY <1>2, <2>2 DEF cdev_read, Runs, Goto, Return, ifVars, Closing
  <2>3. CASE msleep(t) \/ Signal(t) \/ cdev_select(t)
    BY <1>2, <2>3 DEF msleep, Signal, cdev_select, Runs, Goto, Return, ifVars, Closing
  <2> QED
    BY <1>12, <2>1, <2>2, <2>3
<1>13. ASSUME NEW t \in Threads, GateSteps(t) PROVE ConfInv'
  <2>1. pc[t] \notin Closing
    BY <1>13 DEF GateSteps, Call, Enter, Exit, Closing
  <2> QED
    BY <1>2, <1>13, <2>1, GateMoves DEF ifVars
<1>14. CASE ModuleSteps \/ UNCHANGED vars
  BY <1>1, <1>14, ModuleMoves DEF ifVars, threadVars, vars
<1>15. CASE if_detached \/ SetFlags
  BY <1>1, <1>15 DEF if_detached, SetFlags, threadVars
<1>16. net = "attached" /\ ~open => lock # None
  BY DEF LockInv, None
<1>17. CASE \/ do_sock_ioctl \/ do_sock_ioctl_returns \/ \E family \in Families : SetAddress(family)
  <2>1. /\ UNCHANGED <<open, lock, turn, pc, attached_protos>> /\ spared \subseteq spared'
        /\ ~open /\ "inet" \in addresses' => "inet" \in addresses \/ "inet" \in spared'
    BY <1>16, <1>17 DEF do_sock_ioctl, do_sock_ioctl_returns, SetAddress, Given, ifVars, threadVars
  <2>2. \A i \in Slots : Used(i)' => Used(i) /\ attached_protos'[i] = attached_protos[i]
    BY <2>1 DEF Used
  <2> QED
    BY <2>1, <2>2, ConfAdds
<1>18. ASSUME NEW d \in Demuxes, if_add_proto(d) \/ if_del_proto(d) PROVE ConfInv'
  <2>1. UNCHANGED <<open, lock, turn, pc, addresses>> /\ net = "attached"
    BY <1>18 DEF if_add_proto, if_del_proto, ifVars, threadVars
  <2>2. CASE attached_protos' = Without(d.proto) /\ UNCHANGED spared
    <3>1. \A i \in Slots : Used(i)' => Used(i) /\ attached_protos'[i] = attached_protos[i]
      BY <1>0, <2>2, TableWithout DEF ConfShape
    <3> QED
      BY <2>1, <2>2, <3>1, ConfAdds
  <2>3. CASE Stored(d) /\ Given(d.proto)
    <3>1. spared \subseteq spared' /\ (~open => d.proto \in spared')
      BY <1>16, <2>1, <2>3 DEF Given
    <3>2. PICK new \in SUBSET {i \in Slots : ~Used(i)} :
              /\ \A i \in new : attached_protos'[i].proto = d.proto
              /\ \A i \in Slots \ new : attached_protos'[i] = attached_protos[i]
      BY <1>0, <2>3, TableStored DEF ConfShape
    <3>3. \A i \in Slots :
             Used(i)' => \/ attached_protos'[i].proto = d.proto
                         \/ Used(i) /\ attached_protos'[i] = attached_protos[i]
      BY <3>2 DEF Used
    <3>4. ~open => \A i \in Slots :
             Used(i)' => \/ attached_protos'[i].proto \in spared'
                         \/ Used(i) /\ attached_protos'[i] = attached_protos[i]
      BY <3>1, <3>3
    <3> QED
      BY <2>1, <3>1, <3>4, ConfAdds
  <2> QED
    BY <1>18, <2>2, <2>3 DEF if_add_proto, if_del_proto
<1> QED
  BY <1>3, <1>4, <1>6, <1>7, <1>8, <1>9, <1>10, <1>11, <1>12, <1>13, <1>14, <1>15, <1>17,
     <1>18, <1>19, Steps DEF ConfSteps, CloseSteps

\* The table: what is removed leaves no type twice, and what is stored is missing.
LEMMA TakerWithout ==
    ASSUME attached_protos \in Table, OneTaker, NEW p, attached_protos' = Without(p)
    PROVE  OneTaker'
BY TableWithout DEF OneTaker

LEMMA TakerStored ==
    ASSUME attached_protos \in Table, OneTaker, NEW d \in Demuxes, Stored(d)
    PROVE  OneTaker'
<1>1. PICK new \in SUBSET {i \in Slots : ~Used(i)} : \E f :
              /\ f \in Bijection(new, Missing(d))
              /\ \A i \in new : attached_protos'[i].proto = d.proto /\ attached_protos'[i].type = f[i]
              /\ \A i \in Slots \ new : attached_protos'[i] = attached_protos[i]
  BY TableStored
<1>2. PICK f :
              /\ f \in Bijection(new, Missing(d))
              /\ \A i \in new : attached_protos'[i].proto = d.proto /\ attached_protos'[i].type = f[i]
              /\ \A i \in Slots \ new : attached_protos'[i] = attached_protos[i]
  BY <1>1
<1>3. /\ \A i \in new : f[i] \in Missing(d)
      /\ \A i, j \in new : f[i] = f[j] => i = j
  BY <1>2, BijectionValues
<1>4. \A i \in new : attached_protos'[i].type = f[i]
  BY <1>2
<1>5. \A i \in new, j \in Slots \ new : Used(j)' => attached_protos'[j].type # attached_protos'[i].type
  BY <1>2, <1>3, <1>4 DEF Missing, Used
<1>6. \A i, j \in Slots \ new :
         Used(i)' /\ Used(j)' /\ attached_protos'[i].type = attached_protos'[j].type => i = j
  BY <1>2 DEF OneTaker, Used
<1> QED
  BY <1>3, <1>4, <1>5, <1>6 DEF OneTaker

LEMMA TakerNext ==
    ASSUME Shape, OneTaker, [Next]_vars PROVE OneTaker'
<1>0. attached_protos \in Table /\ ThreadShape
  BY DEF Shape, ConfShape
<1>1. CASE UNCHANGED attached_protos
  BY <1>1 DEF OneTaker, Used
<1>2. ASSUME NEW d \in Demuxes, if_add_proto(d) \/ if_del_proto(d) PROVE OneTaker'
  BY <1>0, <1>2, TakerWithout, TakerStored DEF if_add_proto, if_del_proto
<1>3. ASSUME NEW t \in Threads, shutdown_interface(t) PROVE OneTaker'
  BY <1>0, <1>1, <1>3, TakerWithout DEF shutdown_interface
<1>4. ASSUME NEW t \in Threads,
             \/ cleanup_interface(t) \/ delete_addresses(t) \/ unregister_interface(t)
             \/ cdev_open(t) \/ cdev_close(t) \/ close_finish(t)
      PROVE  OneTaker'
  BY <1>1, <1>4
  DEF cleanup_interface, delete_addresses, unregister_interface, cdev_open, cdev_close,
      close_finish, confVars
<1>5. ASSUME NEW t \in Threads,
             \/ cdev_read(t) \/ msleep(t) \/ Signal(t) \/ cdev_select(t) \/ GateSteps(t)
             \/ ReturnSteps(t)
      PROVE  OneTaker'
  BY <1>1, <1>5, GateMoves, ReturnMoves
  DEF cdev_read, msleep, Signal, cdev_select, confVars
<1>6. ASSUME NEW s \in Senders, if_output(s) \/ output_enqueue(s) \/ output_announce(s)
      PROVE  OneTaker'
  BY <1>1, <1>6 DEF if_output, output_enqueue, output_announce, confVars
<1>7. CASE \/ if_detached \/ SetFlags \/ do_sock_ioctl \/ do_sock_ioctl_returns
           \/ \E family \in Families : SetAddress(family)
  BY <1>1, <1>7 DEF if_detached, SetFlags, do_sock_ioctl, do_sock_ioctl_returns, SetAddress,
     confVars
<1>8. CASE ModuleSteps \/ UNCHANGED vars
  BY <1>1, <1>8, ModuleMoves DEF confVars, vars
<1> QED
  BY <1>2, <1>3, <1>4, <1>5, <1>6, <1>7, <1>8, Steps DEF ConfSteps, CloseSteps

-----------------------------------------------------------------------------
(* Who waits is told. *)

LEMMA ToldInit == ASSUME Init PROVE ToldInv
BY DEF Init, ToldInv

\* A step that wakes nobody and puts nobody to sleep, that queues only what it
\* announces, and closes nothing.
LEMMA ToldStays ==
    ASSUME ToldInv, UNCHANGED <<lock, open, missed, rsel>>,
           send_queue' # <<>> => send_queue # <<>> \/ Told', Told => Told',
           \A t \in Threads : pc'[t] \in {"presleep", "asleep"} => pc[t] \in {"presleep", "asleep"}
    PROVE  ToldInv'
BY DEF ToldInv

\* wakeup() finds everyone who sleeps.
LEMMA ToldAll ==
    ASSUME Shape, NotifyWaiters,
           \A t \in Threads : pc'[t] \in {"presleep", "asleep"} => pc[t] = "presleep"
    PROVE  ToldInv'
BY DEF NotifyWaiters, ToldInv

LEMMA ToldNext ==
    ASSUME Shape, TxInv, LockInv, ToldInv, [Next]_vars PROVE ToldInv'
<1> USE DEF Shape, ThreadShape
<1>1. CASE UNCHANGED <<lock, open, missed, rsel, send_queue, unannounced, tx, pc>>
  <2>1. Told' = Told
    BY <1>1 DEF Told
  <2> QED
    BY <1>1, <2>1, ToldStays
<1>2. ASSUME NEW t \in Threads, NEW p, pc' = [pc EXCEPT ![t] = p],
             p \notin {"presleep", "asleep"},
             UNCHANGED <<lock, open, missed, rsel, send_queue, unannounced, tx>>
      PROVE  ToldInv'
  <2>1. Told' = Told
    BY <1>2 DEF Told
  <2> QED
    BY <1>2, <2>1, ToldStays
<1>3. ASSUME NEW t \in Threads, cdev_open(t) PROVE ToldInv'
  <2>1. UNCHANGED <<lock, missed, rsel, send_queue, unannounced, tx>> /\ open' \in {open, TRUE}
    BY <1>3 DEF cdev_open, queueVars
  <2>2. pc' = [pc EXCEPT ![t] = "out"] /\ Told' = Told
    BY <1>3, <2>1 DEF cdev_open, Goto, Told
  <2>3. ~open' => ~open
    BY <2>1
  <2> QED
    BY <2>1, <2>2, <2>3 DEF ToldInv
<1>4. ASSUME NEW t \in Threads, cdev_close(t) PROVE ToldInv'
  <2>1. CASE open
    <3>1. /\ lock' = t /\ lock' # None /\ pc' = [pc EXCEPT ![t] = "shut"]
          /\ UNCHANGED <<missed, rsel, send_queue, unannounced>>
      BY <1>4, <2>1, Apart DEF cdev_close, Goto, queueVars
    <3>2. ASSUME NEW s \in Senders PROVE tx'[s].queued = tx[s].queued
      <4>1. tx'[s] = IF tx[s].pc = "idle" THEN tx[s] ELSE [tx[s] EXCEPT !.kind = "late"]
        BY <1>4, <2>1 DEF cdev_close
      <4>2. tx[s] \in Output
        BY DEF TxShape
      <4> QED
        BY <4>1, <4>2 DEF Output
    <3>3. Told' = Told
      BY <3>1, <3>2 DEF Told
    <3> QED
      BY <3>1, <3>3 DEF ToldInv
  <2>2. CASE ~open
    BY <1>2, <1>4, <2>2 DEF cdev_close, Return, queueVars
  <2> QED
    BY <2>1, <2>2
<1>5. ASSUME NEW t \in Threads, CloseSteps(t) PROVE ToldInv'
  BY <1>2, <1>5, CloseMoves DEF Closing, queueVars
<1>6. ASSUME NEW t \in Threads, close_finish(t) PROVE ToldInv'
  <2>1. \A u \in Threads : pc'[u] \in {"presleep", "asleep"} => pc[u] = "presleep"
    BY <1>6 DEF close_finish, Awoken
  <2> QED
    BY <1>6, <2>1, ToldAll DEF close_finish
<1>7. ASSUME NEW t \in Threads, cdev_read(t) PROVE ToldInv'
  <2>1. UNCHANGED <<lock, open, missed, rsel, unannounced, tx>> /\ Told' = Told
    BY <1>7 DEF cdev_read, ifVars, Told
  <2>2. CASE pc' = [pc EXCEPT ![t] = "out"]
    <3>1. send_queue' # <<>> => send_queue # <<>>
      BY <1>7 DEF cdev_read, dequeue
    <3> QED
      BY <2>1, <2>2, <3>1, ToldStays
  <2>3. CASE /\ pc' = [pc EXCEPT ![t] = "presleep"] /\ Usable /\ send_queue = <<>>
             /\ send_queue' = send_queue
    BY <2>1, <2>3 DEF Usable, ToldInv
  <2> QED
    BY <1>7, <2>2, <2>3 DEF cdev_read, Goto, Return
<1>8. ASSUME NEW t \in Threads, msleep(t) PROVE ToldInv'
  <2>1. /\ UNCHANGED <<lock, open, missed, rsel, send_queue, unannounced, tx>>
        /\ pc[t] = "presleep" /\ pc' = [pc EXCEPT ![t] = "asleep"]
    BY <1>8 DEF msleep, Goto, ifVars, queueVars
  <2>2. Told' = Told
    BY <2>1 DEF Told
  <2> QED
    BY <2>1, <2>2, ToldStays
<1>9. ASSUME NEW t \in Threads, Signal(t) PROVE ToldInv'
  <2>1. /\ UNCHANGED <<lock, open, rsel, send_queue, unannounced, tx>>
        /\ missed' = missed \ {t} /\ pc' = [pc EXCEPT ![t] = "signalled"]
    BY <1>9 DEF Signal, Goto, ifVars, queueVars
  <2>2. Told' = Told
    BY <2>1 DEF Told
  <2> QED
    BY <2>1, <2>2 DEF ToldInv
<1>10. ASSUME NEW t \in Threads, cdev_select(t) PROVE ToldInv'
  <2>1. /\ UNCHANGED <<lock, open, missed, send_queue, unannounced, tx>>
        /\ pc' = [pc EXCEPT ![t] = "out"] /\ rsel' = (rsel \/ send_queue = <<>>)
    BY <1>10 DEF cdev_select, Return, ifVars
  <2>2. Told' = Told
    BY <2>1 DEF Told
  <2> QED
    BY <2>1, <2>2 DEF ToldInv
<1>11. ASSUME NEW s \in Senders, if_output(s) PROVE ToldInv'
  <2>1. UNCHANGED <<lock, open, missed, rsel, send_queue, unannounced, pc>>
    BY <1>11 DEF if_output, ifVars, queueVars, threadVars
  <2>2. ASSUME NEW u \in Senders, tx[u].queued PROVE tx'[u].queued
    BY <1>11, <2>2 DEF if_output, TxInv
  <2>3. Told => Told'
    BY <2>1, <2>2 DEF Told
  <2> QED
    BY <2>1, <2>3, ToldStays
<1>12. ASSUME NEW s \in Senders, output_enqueue(s) PROVE ToldInv'
  <2>1. UNCHANGED <<lock, open, missed, rsel, pc>>
    BY <1>12 DEF output_enqueue, ifVars, threadVars
  <2>2. CASE Len(send_queue) = QUEUE_SIZE
    <3>1. /\ send_queue' = send_queue /\ unannounced' = (unannounced \/ tx[s].queued)
          /\ tx' = [tx EXCEPT ![s] = Idle]
      BY <1>12, <2>2 DEF output_enqueue
    <3>2. \A u \in Senders : u # s => tx'[u] = tx[u]
      BY <3>1
    <3>3. Told => Told'
      BY <3>1, <3>2 DEF Told
    <3> QED
      BY <2>1, <3>1, <3>3, ToldStays
  <2>3. CASE Len(send_queue) # QUEUE_SIZE
    <3>1. tx[s] \in Output
      BY DEF TxShape
    <3>2. tx'[s].queued
      BY <1>12, <2>3, <3>1 DEF output_enqueue, TxShape, Output
    <3>3. Told'
      BY <3>2 DEF Told
    <3> QED
      BY <2>1, <3>3, ToldStays
  <2> QED
    BY <2>2, <2>3
<1>13. ASSUME NEW s \in Senders, output_announce(s) PROVE ToldInv'
  <2>1. \A u \in Threads : pc'[u] \in {"presleep", "asleep"} => pc[u] = "presleep"
    BY <1>13 DEF output_announce, Awoken
  <2> QED
    BY <1>13, <2>1, ToldAll DEF output_announce
<1>14. ASSUME NEW t \in Threads, GateSteps(t) PROVE ToldInv'
  BY <1>2, <1>14, GateMoves DEF ifVars, queueVars
<1>15. ASSUME NEW t \in Threads, ReturnSteps(t) PROVE ToldInv'
  BY <1>2, <1>15, ReturnMoves DEF ifVars, queueVars
<1>16. CASE ModuleSteps \/ ConfSteps \/ UNCHANGED vars
  BY <1>1, <1>16, ModuleMoves, ConfMoves DEF ifVars, queueVars, threadVars, vars
<1> QED
  BY <1>3, <1>4, <1>5, <1>6, <1>7, <1>8, <1>9, <1>10, <1>11, <1>12, <1>13, <1>14, <1>15,
     <1>16, Steps

-----------------------------------------------------------------------------
(* What is left when the interface is gone. *)

Cleared == net = None => QueueCleared
LEMMA DownInit == ASSUME Init PROVE Cleared /\ DeletedUnused
BY DEF Init, Cleared, QueueCleared, DeletedUnused

\* The queue: once the device is closed, what is queued is late.
LEMMA QueueDown ==
    ASSUME Shape, LockInv, TornInv, Cleared, [Next]_vars PROVE Cleared'
<1> USE DEF Cleared
<1>1. CASE UNCHANGED <<net, send_queue>>
  BY <1>1 DEF QueueCleared
<1>2. ASSUME NEW t \in Threads, cdev_open(t) PROVE Cleared'
  <2>1. CASE net' = net
    BY <1>1, <1>2, <2>1 DEF cdev_open, queueVars
  <2>2. CASE net' = "attached"
    BY <2>2 DEF None
  <2> QED
    BY <1>2, <2>1, <2>2 DEF cdev_open, initialize_interface, register_interface
<1>3. ASSUME NEW t \in Threads, CloseSteps(t) PROVE Cleared'
  <2>1. LockInv'
    BY LockNext
  <2>2. lock' # None
    BY <1>3, CloseMoves, Apart DEF LockInv, Shape
  <2> QED
    BY <2>1, <2>2 DEF LockInv, None
<1>4. ASSUME NEW t \in Threads, close_finish(t) PROVE Cleared'
  BY <1>4 DEF close_finish, clear, QueueCleared
<1>5. ASSUME NEW t \in Threads, cdev_read(t) PROVE Cleared'
  <2>1. net' = net /\ (net = None => send_queue' = send_queue)
    BY <1>5 DEF cdev_read, Usable, ifVars
  <2> QED
    BY <2>1 DEF QueueCleared
<1>6. ASSUME NEW s \in Senders, output_enqueue(s) PROVE Cleared'
  <2>1. CASE net = None
    <3>1. tx[s].kind = "late"
      BY <1>6, <2>1 DEF output_enqueue, LockInv, TornInv, Shape, TxShape, Output, None
    <3>2. send_queue' \in {send_queue, Append(send_queue, "late")}
      BY <1>6, <3>1 DEF output_enqueue, enqueue
    <3>3. send_queue \in Seq({"fresh", "late"}) /\ \A i \in 1 .. Len(send_queue) : send_queue[i] = "late"
      BY <2>1 DEF QueueCleared, Shape, QueueShape
    <3>4. \A i \in DOMAIN Append(send_queue, "late") : Append(send_queue, "late")[i] = "late"
      BY <3>3
    <3> QED
      BY <2>1, <3>2, <3>4 DEF QueueCleared
  <2> QED
    BY <1>6, <2>1 DEF output_enqueue, ifVars
<1>7. ASSUME NEW s \in Senders, if_output(s) \/ output_announce(s)
      PROVE  Cleared'
  BY <1>1, <1>7 DEF if_output, output_announce, ifVars, queueVars
<1>8. ASSUME NEW t \in Threads,
             \/ cdev_close(t) \/ msleep(t) \/ Signal(t) \/ cdev_select(t) \/ ReturnSteps(t)
             \/ GateSteps(t)
      PROVE  Cleared'
  BY <1>1, <1>8, GateMoves, ReturnMoves
  DEF cdev_close, msleep, Signal, cdev_select, ifVars, queueVars
<1>9. CASE ConfSteps
  BY <1>1, <1>9, ConfMoves DEF queueVars
<1>10. CASE ModuleSteps \/ UNCHANGED vars
  BY <1>1, <1>10, ModuleMoves DEF ifVars, queueVars, vars
<1> QED
  BY <1>2, <1>3, <1>4, <1>5, <1>6, <1>7, <1>8, <1>9, <1>10, Steps

\* The interface that was deleted: an empty gate has no thread behind it.
LEMMA GateEmpty ==
    ASSUME GateInv, population = 0 PROVE \A t \in Threads : pc[t] \notin Behind
<1>1. ThreadsBehind = {}
  BY GateFinite, FS_EmptySet DEF GateInv
<1> QED
  BY <1>1 DEF ThreadsBehind

LEMMA DeletedStays ==
    ASSUME Shape, LockInv, GateInv, TornInv, DeletedUnused, [Next]_vars PROVE DeletedUnused'
<1>1. CASE UNCHANGED <<strict, kext, pc, open, lock, net, tx>>
  BY <1>1 DEF DeletedUnused, Sending
<1>2. CASE tap_module_start
  BY <1>2 DEF tap_module_start, initialize, DeletedUnused
<1>3. CASE tap_module_stop
  <2>1. /\ ~open /\ population = 0
        /\ UNCHANGED <<strict, pc, open, lock, net, tx>>
    BY <1>3 DEF tap_module_stop, shutdown, idle, is_anyone_in, ifVars, threadVars
  <2>2. \A t \in Threads : pc[t] \notin Behind
    BY <2>1, GateEmpty
  <2>3. lock = None
    BY <2>2 DEF LockInv, Shape, FlagShape, Behind, Inside
  <2>4. net = None
    BY <2>1, <2>3 DEF LockInv
  <2>5. strict => ~Sending
    BY <2>4 DEF TornInv, None
  <2> QED
    BY <2>1, <2>2, <2>3, <2>4, <2>5 DEF DeletedUnused, Sending, Behind
<1>4. CASE GiveUp
  <2>1. kext = "stopping" /\ UNCHANGED <<strict, pc, open, lock, net, tx>>
    BY <1>4 DEF GiveUp, ifVars, threadVars
  <2> QED
    BY <2>1 DEF DeletedUnused, Sending
<1>5. CASE kext' \notin {"stopping", "unloaded"}
  BY <1>5 DEF DeletedUnused
<1>6. ASSUME NEW t \in Threads,
             \/ cdev_open(t) \/ cdev_close(t) \/ CloseSteps(t) \/ close_finish(t)
             \/ cdev_read(t) \/ msleep(t) \/ Signal(t) \/ cdev_select(t) \/ ReturnSteps(t)
      PROVE  DeletedUnused'
  <2>1. pc[t] \in Inside /\ kext' = kext
    <3>1. CASE CloseSteps(t)
      BY <3>1, CloseMoves DEF mgrVars, Inside, Shape
    <3>2. CASE ReturnSteps(t)
      BY <3>2, ReturnMoves DEF mgrVars, Inside
    <3>3. CASE cdev_open(t) \/ cdev_close(t) \/ close_finish(t) \/ cdev_read(t)
      BY <3>3 DEF cdev_open, cdev_close, close_finish, cdev_read, Runs, mgrVars, Inside, Closing
    <3>4. CASE msleep(t) \/ Signal(t) \/ cdev_select(t)
      BY <3>4 DEF msleep, Signal, cdev_select, Runs, mgrVars, Inside
    <3> QED
      BY <1>6, <3>1, <3>2, <3>3, <3>4
  <2> QED
    BY <1>5, <2>1 DEF DeletedUnused
<1>7. ASSUME NEW t \in Threads, GateSteps(t) PROVE DeletedUnused'
  <2>1. UNCHANGED <<strict, kext, open, lock, net, tx>>
    BY <1>7, GateMoves DEF ifVars
  <2>2. CASE kext \in {"stopping", "unloaded"}
    <3>1. \A u \in Threads : pc'[u] \in Inside => pc[u] \in Inside
      BY <1>7, <2>2 DEF GateSteps, Call, Enter, Exit, Inside, Closing, Shape, ThreadShape
    <3> QED
      BY <2>1, <2>2, <3>1 DEF DeletedUnused, Sending
  <2> QED
    BY <1>5, <2>1, <2>2
<1>8. ASSUME NEW s \in Senders, if_output(s) \/ output_enqueue(s) \/ output_announce(s)
      PROVE  DeletedUnused'
  <2>1. kext' = kext /\ (kext = "loaded" \/ open)
    BY <1>8 DEF if_output, output_enqueue, output_announce, Usable, mgrVars
  <2> QED
    BY <1>5, <2>1 DEF DeletedUnused
<1>9. CASE ConfSteps
  BY <1>1, <1>9, ConfMoves DEF mgrVars, threadVars
<1>10. CASE UNCHANGED vars
  BY <1>1, <1>10 DEF mgrVars, ifVars, threadVars, vars
<1> QED
  BY <1>2, <1>3, <1>4, <1>6, <1>7, <1>8, <1>9, <1>10, Steps DEF ModuleSteps

-----------------------------------------------------------------------------
(* The inductive invariant and what follows from it. *)

IInv ==
  /\ Shape /\ TxInv /\ GateInv /\ LockInv /\ TornInv /\ ConfInv /\ ToldInv
  /\ Cleared /\ DeletedUnused /\ OneTaker

LEMMA Inductive == Spec => []IInv
<1>1. Init => IInv
  BY ShapeInit, GateInit, LockInit, TornInit, ConfInit, ToldInit, DownInit DEF IInv
<1>2. IInv /\ [Next]_vars => IInv'
  <2> SUFFICES ASSUME IInv, [Next]_vars PROVE IInv'
    OBVIOUS
  <2>1. Shape' /\ TxInv'
    BY FlagsNext, ThreadsNext, QueueNext, TxNext, TableNext DEF IInv, Shape
  <2>2. GateInv'
    BY GateNext DEF IInv, Shape
  <2>3. LockInv' /\ TornInv' /\ ToldInv'
    BY LockNext, TornNext, ToldNext DEF IInv
  <2>4. ConfInv' /\ OneTaker'
    BY ConfNext, TakerNext DEF IInv
  <2>5. Cleared' /\ DeletedUnused'
    BY DeletedStays, QueueDown DEF IInv
  <2> QED
    BY <2>1, <2>2, <2>3, <2>4, <2>5 DEF IInv
<1> QED
  BY <1>1, <1>2, PTL DEF Spec

\* TypeOK (TuntapDriver): the state has its shape, and the gate counts the
\* threads behind it.
THEOREM TypesCorrect == Spec => []TypeOK
<1>1. IInv => TypeOK
  <2> SUFFICES ASSUME IInv PROVE TypeOK
    OBVIOUS
  <2>1. ticket_number \in 0 .. Cardinality(Threads)
    BY GateFinite DEF IInv, GateInv
  <2> QED
    BY <2>1 DEF IInv, Shape, FlagShape, ThreadShape, QueueShape, TxShape, Output, ConfShape,
       Table, GateInv, ThreadsBehind, TypeOK
<1> QED
  BY <1>1, Inductive, PTL

\* TornDown (TuntapDriver): without a network interface nothing is left of the
\* last opening but late packets, and protocols and addresses the kernel did not
\* take away, or was given during the close.
THEOREM NothingLeft == Spec => []TornDown
<1>1. IInv => TornDown
  <2> SUFFICES ASSUME IInv, net = None PROVE QueueCleared /\ ConfigCleared
    BY DEF TornDown
  <2>1. ~open /\ ~Shutting /\ ~Deleting
    BY DEF IInv, LockInv, Shutting, Deleting, None
  <2> QED
    BY <2>1 DEF IInv, Cleared, ConfInv, ConfigCleared
<1> QED
  BY <1>1, Inductive, PTL

\* DeletedUnused (TuntapDriver): the interface an extension deletes is used by
\* no call of the device, and by no output of a strict kernel.
THEOREM NothingInUse == Spec => []DeletedUnused
<1>1. IInv => DeletedUnused
  BY DEF IInv
<1> QED
  BY <1>1, Inductive, PTL

\* OneTaker (TuntapDriver): the table of protocols has a type once.
THEOREM TypesTakenOnce == Spec => []OneTaker
<1>1. IInv => OneTaker
  BY DEF IInv
<1> QED
  BY <1>1, Inductive, PTL

\* WaitersTold (TuntapDriver): who sleeps in a read, and who waits in a select,
\* was told of what there is, or is about to be.
THEOREM NobodyForgotten == Spec => []WaitersTold
<1>1. IInv => WaitersTold
  BY DEF IInv, ToldInv, Told, WaitersTold
<1> QED
  BY <1>1, Inductive, PTL

=============================================================================
