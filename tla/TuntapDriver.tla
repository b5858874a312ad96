----------------------------- MODULE TuntapDriver -----------------------------
(***************************************************************************)
(* The Mac OS X driver (drivers/osx/tuntap): the character device of one   *)
(* tap interface, its network interface, which exists while the device is  *)
(* open, the gate of its manager and the unloading of the extension.       *)
(* Threads call the device, the network stack sends (if_output, which      *)
(* takes no gate), ifconfig configures, the kernel calls back when the     *)
(* interface is detached.                                                  *)
(*                                                                         *)
(* Abstractions.  What a thread does under the lock of the interface is a  *)
(* step, unless it waits or others may act meanwhile, as in the steps of a *)
(* close.  A packet is whether it is for the opening that saw it coming,   *)
(* the addresses of a family are one, and one ifconfig at a time is in     *)
(* do_sock_ioctl.  BPF, framing, hardware addresses                        *)
(* and statistics are left out, and so is the AF header of tun.  The       *)
(* repository does not say whether an interface is detached while a packet *)
(* is output through it: strict is the kernel that waits for those.        *)
(***************************************************************************)
EXTENDS Integers, Sequences, FiniteSets, Functions

CONSTANTS
  Threads,              \* that call the character device
  Senders,              \* that output packets
  QUEUE_SIZE,           \* 128
  MAX_ATTACHED_PROTOS,  \* 8
  Demuxes,              \* what if_add_proto is given: [proto, types, etype2], where
                        \* etype2 tells that all are of type DLIL_DESC_ETYPE2
  Families,             \* of the addresses ifconfig gives; AF_INET is "inet"
  MaxBurst              \* bound on the packets of an if_output

\* "none" is no thread and no protocol, what if_add_proto is given is an array,
\* and the names of protocols and of address families differ.
ASSUME TuntapAssumption ==
  /\ QUEUE_SIZE \in Nat \ {0} /\ MAX_ATTACHED_PROTOS \in Nat /\ MaxBurst \in Nat \ {0}
  /\ IsFiniteSet(Threads) /\ Threads \cap Senders = {} /\ "none" \notin Threads
  /\ \A d \in Demuxes : /\ IsFiniteSet(d.types) /\ d.etype2 \in BOOLEAN
                        /\ d.proto \notin Families \cup {"none"}

VARIABLES
  strict,         \* the kernel detaches no interface that outputs a packet
  kext,           \* the life of the extension; while it is loaded the table of
                  \* the manager has the interface, and the device is registered
  population, ticket_number, old_number,  \* of the gate; old_number of shutdown()
  pc, op,         \* of a thread: where it is, and in which call
  lock,           \* the closing thread that keeps the lock of the interface
  open, block_io, send_queue,             \* of the interface
  net,            \* ifp: none, attached, or detaching
  up,             \* IFF_UP
  interface_detached,
  rsel,           \* a select waits
  attached_protos,
  turn,           \* i of the loop of shutdown_interface
  addresses,      \* the families the interface has an address of
  in_ioctl,       \* of do_sock_ioctl
  fixing,         \* where an ifconfig is in the do_sock_ioctl of if_ioctl
  tx,             \* of a sender: where it is, and the packets it has still to queue
  \* What follows is not in the code; the properties speak of it.
  missed,         \* threads the device was awoken for on their way to sleep
  unannounced,    \* an if_output ended without a wakeup after it queued a packet
  spared          \* the protocols the kernel did not detach in the last close,
                  \* or was given during it, and "inet" in the same way

mgrVars == <<strict, kext, population, ticket_number, old_number>>
ifVars == <<open, net, up, interface_detached, lock, turn>>
confVars == <<attached_protos, addresses, in_ioctl, fixing, spared>>
queueVars == <<send_queue, rsel, unannounced>>
threadVars == <<pc, op, missed>>
vars == <<mgrVars, ifVars, confVars, queueVars, threadVars, block_io, tx>>

None == "none"
Ops == {"open", "close", "read", "write", "ioctl", "select"}
Closing == {"shut", "delete", "clean", "detach"}
Inside == {"in", "presleep", "asleep", "woken", "signalled"} \cup Closing
Behind == Inside \cup {"out"}
Slots == 0 .. MAX_ATTACHED_PROTOS - 1
Entries == UNION {{[proto |-> d.proto, type |-> t] : t \in d.types} : d \in Demuxes}
Free == [proto |-> None, type |-> 0]
Protos == {d.proto : d \in Demuxes}
Idle == [pc |-> "idle", left |-> 0, kind |-> "fresh", queued |-> FALSE]

\* The state has its shape, and the gate counts the threads behind it.
TypeOK ==
  /\ strict \in BOOLEAN /\ kext \in {"new", "failed", "loaded", "stopping", "unloaded"}
  /\ population = Cardinality({t \in Threads : pc[t] \in Behind})
  /\ ticket_number \in 0 .. Cardinality(Threads) /\ old_number \in 0 .. Cardinality(Threads)
  /\ pc \in [Threads -> {"user", "gate"} \cup Behind] /\ op \in [Threads -> Ops \cup {None}]
  /\ lock \in Threads \cup {None} /\ open \in BOOLEAN /\ block_io \in BOOLEAN
  /\ send_queue \in Seq({"fresh", "late"}) /\ Len(send_queue) <= QUEUE_SIZE
  /\ net \in {None, "attached", "detaching"} /\ up \in BOOLEAN
  /\ interface_detached \in BOOLEAN /\ rsel \in BOOLEAN
  /\ attached_protos \in [Slots -> Entries \cup {Free}] /\ turn \in 0 .. MAX_ATTACHED_PROTOS
  /\ addresses \subseteq Families \cup {"inet"} /\ in_ioctl \in BOOLEAN
  /\ fixing \in {"no", "socket", "ioctl"}
  /\ spared \subseteq Protos \cup Families \cup {"inet"}
  /\ tx \in [Senders -> [pc : {"idle", "send", "announce"}, left : 0 .. MaxBurst,
                         kind : {"fresh", "late"}, queued : BOOLEAN]]
  /\ missed \subseteq Threads /\ unannounced \in BOOLEAN

\* No constructor sets attached_protos, which operator new of the kernel zeroes,
\* nor interface_detached, which is set before it is read.
Init ==
  /\ strict \in BOOLEAN /\ kext = "new"
  /\ population = 0 /\ ticket_number = 0 /\ old_number = 0
  /\ pc = [t \in Threads |-> "user"] /\ op = [t \in Threads |-> None]
  /\ lock = None /\ open = FALSE /\ block_io = TRUE /\ send_queue = <<>>
  /\ net = None /\ up = FALSE /\ interface_detached = TRUE /\ rsel = FALSE
  /\ attached_protos = [i \in Slots |-> Free] /\ turn = 0
  /\ addresses = {} /\ in_ioctl = FALSE /\ fixing = "no"
  /\ tx = [s \in Senders |-> Idle]
  /\ missed = {} /\ unannounced = FALSE /\ spared = {}

Sending == \E s \in Senders : tx[s].pc # "idle"
Usable == open /\ net # None /\ up
Used(i) == attached_protos[i] # Free

-----------------------------------------------------------------------------
(* The extension and the gate of its manager.                              *)

\* The manager registers its device switch and creates its interfaces, or fails.
initialize == kext' \in {"loaded", "failed"}

tap_module_start ==
  /\ kext = "new" /\ initialize
  /\ UNCHANGED <<strict, population, ticket_number, old_number, ifVars, confVars,
                 queueVars, threadVars, block_io, tx>>

idle == ~open
is_anyone_in == population # 0

\* Slip: shutdown() does not ask whether anyone is in.
Slip_shutdown == idle /\ kext' = "stopping" /\ old_number' = ticket_number

\* The interface is deleted, the device unregistered, and the manager sleeps in
\* the gate, which lets the threads in that wait there.
shutdown ==
  /\ ~is_anyone_in /\ idle
  /\ kext' = "stopping" /\ old_number' = ticket_number

\* It fails, and changes nothing, unless shutdown succeeds.
tap_module_stop ==
  /\ kext = "loaded" /\ shutdown
  /\ UNCHANGED <<strict, population, ticket_number, ifVars, confVars, queueVars,
                 threadVars, block_io, tx>>

\* The second is over: again, until the ticket number has not changed.
GiveUp ==
  /\ kext = "stopping"
  /\ IF ticket_number # old_number
       THEN old_number' = ticket_number /\ UNCHANGED kext
       ELSE kext' = "unloaded" /\ UNCHANGED old_number
  /\ UNCHANGED <<strict, population, ticket_number, ifVars, confVars, queueVars,
                 threadVars, block_io, tx>>

\* A program calls the device, once its open has returned; the dispatcher
\* sees the manager in mgr_map and goes to its gate.
Opened == open /\ \A u \in Threads : ~(op[u] = "open" /\ pc[u] = "out")

Call(t, o) ==
  /\ pc[t] = "user" /\ kext = "loaded"
  /\ o # "open" => Opened
  /\ o = "close" => \A u \in Threads : op[u] # "close"
  /\ pc' = [pc EXCEPT ![t] = "gate"] /\ op' = [op EXCEPT ![t] = o]
  /\ UNCHANGED <<mgrVars, ifVars, confVars, queueVars, missed, block_io, tx>>

enter == population' = population + 1 /\ ticket_number' = ticket_number + 1

\* Slip: a ticket number that is never given back.
Slip_exit == population' = population - 1 /\ UNCHANGED ticket_number
exit == population' = population - 1 /\ ticket_number' = ticket_number - 1

\* do_cdev_open to do_cdev_select: an interface that is gone is not called.
Enter(t) ==
  /\ pc[t] = "gate" /\ kext \in {"loaded", "stopping"}
  /\ enter
  /\ pc' = [pc EXCEPT ![t] = IF kext = "loaded" THEN "in" ELSE "out"]
  /\ UNCHANGED <<strict, kext, old_number, ifVars, confVars, queueVars, op, missed,
                 block_io, tx>>

Exit(t) ==
  /\ pc[t] = "out" /\ kext \in {"loaded", "stopping"}
  /\ exit
  /\ pc' = [pc EXCEPT ![t] = "user"] /\ op' = [op EXCEPT ![t] = None]
  /\ UNCHANGED <<strict, kext, old_number, ifVars, confVars, queueVars, missed,
                 block_io, tx>>

-----------------------------------------------------------------------------
(* The calls of the character device.                                      *)

\* The thread has the lock for what it does now.
Runs(t, o, places) == op[t] = o /\ pc[t] \in places /\ lock = None

Goto(t, place) == pc' = [pc EXCEPT ![t] = place] /\ UNCHANGED op
Return(t) == pc' = [pc EXCEPT ![t] = "out"] /\ op' = [op EXCEPT ![t] = None]

\* Slip: wakeup() is called for another channel than the one msleep waits for.
Slip_Awoken == pc

\* wakeup(this) and selwakeup(&rsel).
Awoken == [t \in Threads |-> IF pc[t] = "asleep" THEN "woken" ELSE pc[t]]
NotifyWaiters ==
  /\ missed' = {t \in Threads : pc[t] = "presleep"}
  /\ rsel' = FALSE /\ unannounced' = FALSE

\* tuntap_mbuf_queue.
enqueue(m) == send_queue' = Append(send_queue, m)
dequeue == send_queue' = Tail(send_queue)

\* Slip: the close forgets the queue.
Slip_clear == UNCHANGED send_queue
clear == send_queue' = <<>>

\* The network interface is attached and not yet up. That of a tap then gets its
\* hardware address, MTU and header length, which are left out.
register_interface == net' = "attached" /\ up' = FALSE
initialize_interface == register_interface

\* EBUSY, EIO, or the network interface is attached.
cdev_open(t) ==
  /\ Runs(t, "open", {"in"}) /\ Goto(t, "out")
  /\ \/ ~open /\ initialize_interface /\ open' = TRUE /\ spared' = {}
     \/ UNCHANGED <<open, net, up, spared>>
  /\ UNCHANGED <<mgrVars, interface_detached, lock, turn, attached_protos, addresses,
                 in_ioctl, fixing, queueVars, missed, block_io, tx>>

\* cdev_close keeps the lock from here to close_finish.
cdev_close(t) ==
  /\ Runs(t, "close", {"in"})
  /\ IF open
       THEN /\ lock' = t /\ open' = FALSE /\ turn' = 0 /\ Goto(t, "shut")
            /\ tx' = [s \in Senders |->
                        IF tx[s].pc = "idle" THEN tx[s] ELSE [tx[s] EXCEPT !.kind = "late"]]
       ELSE Return(t) /\ UNCHANGED <<lock, open, turn, tx>>
  /\ UNCHANGED <<mgrVars, net, up, interface_detached, confVars, queueVars, missed, block_io>>

\* The table without the entries of a protocol.
Without(proto) ==
  [i \in Slots |-> IF attached_protos[i].proto = proto THEN Free ELSE attached_protos[i]]

\* Slip: the loop is left at the first protocol the kernel does not detach.
Slip_shutdown_interface(t) ==
  /\ pc[t] = "shut" /\ turn < MAX_ATTACHED_PROTOS
  /\ \/ ~Used(turn) /\ turn' = turn + 1 /\ UNCHANGED <<attached_protos, spared>>
     \/ Used(turn) /\ turn' = turn + 1 /\ UNCHANGED spared
        /\ attached_protos' = Without(attached_protos[turn].proto)
     \/ Used(turn) /\ turn' = MAX_ATTACHED_PROTOS /\ UNCHANGED attached_protos
        /\ spared' = spared \cup {attached_protos[turn].proto}
  /\ UNCHANGED <<mgrVars, open, net, up, interface_detached, lock, addresses, in_ioctl,
                 fixing, queueVars, threadVars, block_io, tx>>

\* A turn of its loop: the kernel detaches the protocol, and calls if_del_proto
\* for it, or it does not.
shutdown_interface(t) ==
  /\ pc[t] = "shut" /\ turn < MAX_ATTACHED_PROTOS /\ turn' = turn + 1
  /\ LET proto == attached_protos[turn].proto
     IN  \/ /\ Used(turn)
            /\ \/ attached_protos' = Without(proto) /\ UNCHANGED spared
               \/ spared' = spared \cup {proto} /\ UNCHANGED attached_protos
         \/ ~Used(turn) /\ UNCHANGED <<attached_protos, spared>>
  /\ UNCHANGED <<mgrVars, open, net, up, interface_detached, lock, addresses, in_ioctl,
                 fixing, queueVars, threadVars, block_io, tx>>

\* The interface is down, and the close is about to delete the addresses of AF_INET,
\* but when there is no list of them, when do_sock_ioctl is at work, or without a
\* socket.
cleanup_interface(t) ==
  /\ pc[t] = "shut" /\ turn = MAX_ATTACHED_PROTOS /\ up' = FALSE
  /\ \/ "inet" \in addresses /\ ~in_ioctl /\ Goto(t, "delete") /\ UNCHANGED spared
     \/ "inet" \in addresses /\ Goto(t, "clean") /\ spared' = spared \cup {"inet"}
     \/ "inet" \notin addresses /\ Goto(t, "clean") /\ UNCHANGED spared
  /\ UNCHANGED <<mgrVars, open, net, interface_detached, lock, turn, attached_protos,
                 addresses, in_ioctl, fixing, queueVars, missed, block_io, tx>>

\* SIOCDIFADDR, which may fail, and the end of do_sock_ioctl.
delete_addresses(t) ==
  /\ pc[t] = "delete" /\ Goto(t, "clean") /\ in_ioctl' = FALSE
  /\ \/ addresses' = addresses \ {"inet"} /\ UNCHANGED spared
     \/ spared' = spared \cup {"inet"} /\ UNCHANGED addresses
  /\ UNCHANGED <<mgrVars, ifVars, attached_protos, fixing, queueVars, missed, block_io, tx>>

\* unregister_interface until it waits; ifnet_detach may fail, which it logs.
unregister_interface(t) ==
  /\ pc[t] = "clean" /\ Goto(t, "detach")
  /\ interface_detached' = FALSE /\ net' \in {"detaching", net}
  /\ UNCHANGED <<mgrVars, open, up, lock, turn, confVars, queueVars, missed, block_io, tx>>

\* The rest of unregister_interface and of cdev_close.
close_finish(t) ==
  /\ pc[t] = "detach" /\ interface_detached
  /\ net' = None /\ clear /\ lock' = None
  /\ NotifyWaiters /\ pc' = [Awoken EXCEPT ![t] = "out"] /\ op' = [op EXCEPT ![t] = None]
  /\ UNCHANGED <<mgrVars, open, up, interface_detached, turn, confVars, block_io, tx>>

\* cdev_read until it returns or waits. The lock is released before msleep.
cdev_read(t) ==
  /\ Runs(t, "read", {"in", "woken"})
  /\ IF Usable /\ send_queue # <<>>
       THEN Return(t) /\ dequeue
       ELSE /\ IF Usable /\ block_io THEN Goto(t, "presleep") ELSE Return(t)
            /\ UNCHANGED send_queue
  /\ UNCHANGED <<mgrVars, ifVars, confVars, rsel, unannounced, missed, block_io, tx>>

msleep(t) ==
  /\ pc[t] = "presleep" /\ Goto(t, "asleep")
  /\ UNCHANGED <<mgrVars, ifVars, confVars, queueVars, missed, block_io, tx>>

\* A signal ends msleep (PCATCH), and cdev_read, once it has the lock again.
Signal(t) ==
  /\ pc[t] = "asleep" /\ Goto(t, "signalled") /\ missed' = missed \ {t}
  /\ UNCHANGED <<mgrVars, ifVars, confVars, queueVars, block_io, tx>>

read_interrupted(t) ==
  /\ Runs(t, "read", {"signalled"}) /\ Return(t)
  /\ UNCHANGED <<mgrVars, ifVars, confVars, queueVars, missed, block_io, tx>>

\* cdev_write gives the packet to the network stack and keeps nothing of it.
cdev_write(t) ==
  /\ Runs(t, "write", {"in"}) /\ Return(t)
  /\ UNCHANGED <<mgrVars, ifVars, confVars, queueVars, missed, block_io, tx>>

\* cdev_ioctl FIONBIO.
cdev_ioctl(t) ==
  /\ Runs(t, "ioctl", {"in"}) /\ Return(t)
  /\ block_io' \in BOOLEAN
  /\ UNCHANGED <<mgrVars, ifVars, confVars, queueVars, missed, tx>>

\* cdev_select for reading: the caller is recorded when the queue is empty.
cdev_select(t) ==
  /\ Runs(t, "select", {"in"}) /\ Return(t)
  /\ rsel' = (rsel \/ send_queue = <<>>)
  /\ UNCHANGED <<mgrVars, ifVars, confVars, send_queue, unannounced, missed,
                 block_io, tx>>

-----------------------------------------------------------------------------
(* The network stack.                                                      *)

\* if_output of a list of packets passes its checks, without the lock.
if_output(s) ==
  /\ tx[s].pc = "idle" /\ net = "attached" /\ Usable
  /\ \E n \in 1 .. MaxBurst : tx' = [tx EXCEPT ![s] = [Idle EXCEPT !.pc = "send", !.left = n]]
  /\ UNCHANGED <<mgrVars, ifVars, confVars, queueVars, threadVars, block_io>>

\* The next packet, under the lock. ENOBUFS ends if_output without a wakeup.
output_enqueue(s) ==
  /\ tx[s].pc = "send" /\ lock = None /\ kext = "loaded"
  /\ IF Len(send_queue) = QUEUE_SIZE
       THEN /\ tx' = [tx EXCEPT ![s] = Idle]
            /\ unannounced' = (unannounced \/ tx[s].queued) /\ UNCHANGED send_queue
       ELSE /\ enqueue(tx[s].kind)
            /\ tx' = [tx EXCEPT ![s].left = @ - 1, ![s].queued = TRUE,
                                ![s].pc = IF tx[s].left = 1 THEN "announce" ELSE "send"]
            /\ UNCHANGED unannounced
  /\ UNCHANGED <<mgrVars, ifVars, confVars, rsel, threadVars, block_io>>

output_announce(s) ==
  /\ tx[s].pc = "announce" /\ lock = None /\ kext = "loaded"
  /\ tx' = [tx EXCEPT ![s] = Idle] /\ NotifyWaiters /\ pc' = Awoken
  /\ UNCHANGED <<mgrVars, ifVars, confVars, send_queue, op, block_io>>

\* Slip: if_detached() wakes unregister_interface without the flag it waits for.
Slip_if_detached ==
  net = "detaching" /\ ~interface_detached /\ (strict => ~Sending) /\ UNCHANGED vars

\* The kernel is done with the detached interface.
if_detached ==
  /\ net = "detaching" /\ ~interface_detached /\ (strict => ~Sending)
  /\ interface_detached' = TRUE
  /\ UNCHANGED <<mgrVars, open, net, up, lock, turn, confVars, queueVars, threadVars,
                 block_io, tx>>

\* ifconfig up and down, which the driver's if_ioctl accepts.
SetFlags ==
  /\ net = "attached" /\ up' = ~up
  /\ UNCHANGED <<mgrVars, open, net, interface_detached, lock, turn, confVars, queueVars,
                 threadVars, block_io, tx>>

\* What the kernel gives the interface while it is closed is spared.
Given(x) == spared' = IF lock = None THEN spared ELSE spared \cup {x}

\* ifconfig gives an address; if_ioctl may have to fix one of AF_INET, by
\* do_sock_ioctl, which makes a socket once it has seen that in_ioctl is not set.
SetAddress(family) ==
  /\ net = "attached" /\ addresses' = addresses \cup {family} /\ Given(family)
  /\ \/ family = "inet" /\ ~in_ioctl /\ fixing = "no" /\ fixing' = "socket"
     \/ UNCHANGED fixing
  /\ UNCHANGED <<mgrVars, ifVars, attached_protos, in_ioctl, queueVars, threadVars,
                 block_io, tx>>

do_sock_ioctl ==
  /\ fixing = "socket" /\ kext = "loaded"
  /\ \/ fixing' = "ioctl" /\ in_ioctl' = TRUE
     \/ fixing' = "no" /\ UNCHANGED in_ioctl
  /\ UNCHANGED <<mgrVars, ifVars, attached_protos, addresses, spared, queueVars, threadVars,
                 block_io, tx>>

\* SIOCAIFADDR gave the address again, or failed.
do_sock_ioctl_returns ==
  /\ fixing = "ioctl" /\ fixing' = "no" /\ in_ioctl' = FALSE /\ kext = "loaded"
  /\ \/ net = "attached" /\ addresses' = addresses \cup {"inet"} /\ Given("inet")
     \/ UNCHANGED <<addresses, spared>>
  /\ UNCHANGED <<mgrVars, ifVars, attached_protos, queueVars, threadVars, block_io, tx>>

\* Slip: add_one_proto does not look for the type in the table.
Slip_Missing(d) == d.types

\* The types of d that add_one_proto has to store, and whether it fails for one:
\* EINVAL, EEXIST or ENOBUFS.
Missing(d) == {t \in d.types : \A i \in Slots : Used(i) => attached_protos[i].type # t}
Fails(d) ==
  \/ ~d.etype2
  \/ \E i \in Slots : Used(i) /\ attached_protos[i].type \in d.types
                                /\ attached_protos[i].proto # d.proto
  \/ Cardinality(Missing(d)) > Cardinality({i \in Slots : ~Used(i)})

\* They take the first free slots, in the order d has them.
Stored(d) ==
  \E new \in SUBSET {i \in Slots : ~Used(i)} :
    /\ \A i \in Slots, j \in new : i < j /\ ~Used(i) => i \in new
    /\ \E f \in Bijection(new, Missing(d)) :
         attached_protos' = [i \in Slots |-> IF i \in new
                                              THEN [proto |-> d.proto, type |-> f[i]]
                                              ELSE attached_protos[i]]

\* A protocol is plumbed or unplumbed, also while a close is at work; one that
\* fails is removed.
if_add_proto(d) ==
  /\ net = "attached"
  /\ IF Fails(d) THEN attached_protos' = Without(d.proto) /\ UNCHANGED spared
                 ELSE Stored(d) /\ Given(d.proto)
  /\ UNCHANGED <<mgrVars, ifVars, addresses, in_ioctl, fixing, queueVars, threadVars,
                 block_io, tx>>

if_del_proto(d) ==
  /\ net = "attached" /\ attached_protos' = Without(d.proto)
  /\ UNCHANGED <<mgrVars, ifVars, addresses, in_ioctl, fixing, spared, queueVars,
                 threadVars, block_io, tx>>

-----------------------------------------------------------------------------
Thread(t) ==
  \/ \E o \in Ops : Call(t, o)
  \/ Enter(t) \/ Exit(t)
  \/ cdev_open(t) \/ cdev_close(t) \/ shutdown_interface(t) \/ cleanup_interface(t)
  \/ delete_addresses(t) \/ unregister_interface(t) \/ close_finish(t)
  \/ cdev_read(t) \/ msleep(t) \/ Signal(t) \/ read_interrupted(t)
  \/ cdev_write(t) \/ cdev_ioctl(t) \/ cdev_select(t)

Stack ==
  \/ \E s \in Senders : if_output(s) \/ output_enqueue(s) \/ output_announce(s)
  \/ if_detached \/ SetFlags \/ do_sock_ioctl \/ do_sock_ioctl_returns
  \/ \E family \in Families : SetAddress(family)
  \/ \E d \in Demuxes : if_add_proto(d) \/ if_del_proto(d)

Next == tap_module_start \/ tap_module_stop \/ GiveUp \/ (\E t \in Threads : Thread(t)) \/ Stack

\* The closing thread, of which the lock allows one, runs, and the kernel
\* finishes a detach it can finish.
CloserSteps ==
  \E t \in Threads : \/ shutdown_interface(t) \/ cleanup_interface(t)
                     \/ delete_addresses(t) \/ unregister_interface(t) \/ close_finish(t)

Spec == Init /\ [][Next]_vars /\ WF_vars(if_detached) /\ WF_vars(CloserSteps)

-----------------------------------------------------------------------------
\* A packet in the queue was announced to who waits for one, or is about to be,
\* and who sleeps in a read of a closed device was awoken; but for a reader
\* awoken between its release of the lock and msleep (tuntap.cc:570), and for
\* packets of an if_output that met the full queue (tuntap.cc:805).
WaitersTold ==
  LET told == unannounced \/ \E s \in Senders : tx[s].queued
  IN  /\ \A t \in Threads \ missed :
           pc[t] = "asleep" => /\ send_queue # <<>> => told
                               /\ ~open => lock # None
      /\ rsel /\ send_queue # <<>> => told

\* Without a network interface nothing is left of the last opening: no packet
\* whose if_output began after it, no entry of a protocol and no address of
\* AF_INET but those the kernel did not take away, or was given meanwhile.
QueueCleared == \A i \in DOMAIN send_queue : send_queue[i] = "late"
ConfigCleared ==
  /\ \A i \in Slots : Used(i) => attached_protos[i].proto \in spared
  /\ "inet" \in addresses => "inet" \in spared
TornDown == net = None => QueueCleared /\ ConfigCleared

\* A deleted interface is used by no call of the device, is not open or about to
\* be closed, has no network interface and, on a strict kernel, no output.
DeletedUnused ==
  kext \in {"stopping", "unloaded"} =>
    /\ \A t \in Threads : pc[t] \notin Inside
    /\ ~open /\ lock = None /\ net = None
    /\ strict => ~Sending

\* if_demux finds one protocol for a type of frames, whatever was plumbed.
OneTaker ==
  \A i, j \in Slots :
    Used(i) /\ Used(j) /\ attached_protos[i].type = attached_protos[j].type => i = j

\* A close returns its lock, unless an output that waits for the lock is one a
\* strict kernel waits for, or ifnet_detach failed, after which none comes.
DetachFailed == net = "attached" /\ \E t \in Threads : pc[t] = "detach"
CloseReturns == (lock # None /\ ~(strict /\ Sending)) ~> (lock = None \/ DetachFailed)

=============================================================================
