----------------------------- MODULE WinTapDriver -----------------------------
(***************************************************************************)
(* The packet path and the life of the Windows driver (tapdrvr.c,          *)
(* instance.c): the driver is loaded, one adapter is created and halted;   *)
(* NDIS sends packets through it (AdapterTransmit) while programs open,    *)
(* read and close its device (TapDeviceHook) and cancel their reads        *)
(* (CancelIRPCallback).  The miniport is deserialized: every call here may *)
(* run on a processor of its own and stop between two critical sections.   *)
(*                                                                         *)
(* Abstractions.  A packet is sent once and a read IRP issued once.  The   *)
(* contents of packets, the interception of ARP, DHCP and IPv6 neighbour   *)
(* packets, the writes and the injection queue are WinTapMasq's.  Whether  *)
(* a packet fits the buffer of its request is not distinguished: either    *)
(* way the request is answered and the packet freed.  NdisMSleep is taken  *)
(* to last until the calls in progress have returned, which is what the    *)
(* driver sleeps for (tapdrvr.c:651-676), and NDIS starts no send after    *)
(* it called the halt handler.  Another device may share the bucket of the *)
(* instance hash: a lookup that cannot wait may find the bucket taken.     *)
(* The flags that are read and written without a lock are seen in the      *)
(* order of the program.  That the cancel routine looks at an IRP which a  *)
(* transmit or a flush has completed meanwhile is not followed.            *)
(***************************************************************************)
EXTENDS TapQueue, Subsequences, FiniteSets

CONSTANTS Packets, Irps, Handles,
          PacketCap,        \* PACKET_QUEUE_SIZE
          IrpCap,           \* IRP_QUEUE_SIZE
          MediaStatus,      \* what the registry may say of MediaStatus
          MaxPower          \* bound on requests to power the interface down

ASSUME DriverAssumption ==
  /\ PacketCap \in Nat \ {0} /\ IrpCap \in Nat \ {0} /\ MaxPower \in Nat
  /\ MediaStatus \subseteq BOOLEAN
  /\ None \notin Packets \cup Irps \cup Handles \cup {"answered", "cancelled", "failed"}

VARIABLES
  life,       \* where the driver and the adapter are in their life
  held,       \* resources allocated and not freed
  frees,      \* calls of TapDeviceFreeResources and of AdapterFreeResources
  listed,     \* the adapter is in the instance list
  ifRunning,  \* m_InterfaceIsRunning
  tapRunning, \* m_TapIsRunning
  opens,      \* m_TapOpens
  halt,       \* m_Halt
  always,     \* m_MediaStateAlwaysConnected
  media,      \* m_MediaState
  mutex,      \* holder of m_OpenCloseMutex
  power,      \* power-downs so far
  pktq, irpq, \* m_PacketQueue, m_IrpQueue
  tx,         \* AdapterTransmit of each packet: where it is
  pair,       \* the IRP and the packet it took off the queues
  rd,         \* TapDeviceHook of each read: where it is
  of,         \* the handle of each read
  armed,      \* IRPs whose cancel routine is set
  cx,         \* CancelIRPCallback of each IRP: where it is
  status,     \* how each IRP was completed
  hd,         \* each handle: where its create or close call is
  popped,     \* the IRP that FlushQueues, called by the close of a handle or by the
              \* halt (None), popped and has not completed yet
  \* What follows is not in the code; the properties speak of it.
  again,      \* IRPs completed more than once
  blind,      \* IRPs a cancel completed without finding the adapter
  late,       \* packets that were on their way to the queue when a close flushed it
  lateRead,   \* reads queued although packets were queued
  slipped,    \* creates caught by the halt between their two tests
  fate, given \* see PacketPort

adapterVars == <<life, held, frees, listed, ifRunning, tapRunning, halt, always, power>>
openVars == <<opens, media, mutex, hd, popped, slipped>>
queueVars == <<pktq, irpq>>
sendVars == <<tx, pair, late>>
readVars == <<rd, of, lateRead>>
irpVars == <<armed, cx, status, again, blind>>
portGhosts == <<fate, given>>
vars == <<adapterVars, openVars, queueVars, sendVars, readVars, irpVars, portGhosts>>

DeviceParts == {"tapname", "linkname", "device", "locks", "packetq", "irpq",
                "injectq", "dpc"}
AdapterParts == {"name", "shutdown", "mclock"}

Resources == DeviceParts \cup AdapterParts \cup {"list", "adapter"}

Life == {"start", "loaded", "configure", "tapname", "linkname", "device", "queues",
         "add", "up", "halt", "opens", "flag", "sleep1", "flush", "drain", "sleep2",
         "free", "remove", "halted", "failed", "unloaded", "bugcheck"}

\* The calls of FlushQueues.
Flushers == Handles \cup {None}

TypeOK ==
  /\ life \in Life /\ held \subseteq Resources
  /\ frees \in [{"tap", "adapter"} -> 0 .. 1]
  /\ {listed, ifRunning, tapRunning, halt, always, media} \subseteq BOOLEAN
  /\ opens \in {0, 1} /\ mutex \in Handles \cup {None} /\ power \in 0 .. MaxPower
  /\ pktq \in Queues(Packets, PacketCap) /\ irpq \in Queues(Irps, IrpCap)
  /\ tx \in [Packets -> {"new", "push", "match", "complete", "done"}]
  /\ pair \in [Packets -> (Irps \X Packets) \cup {<<>>}]
  /\ rd \in [Irps -> {"new", "pop", "pend", "pended", "done"}]
  /\ of \in [Irps -> Handles \cup {None}]
  /\ armed \subseteq Irps
  /\ cx \in [Irps -> {"no", "called", "done"}]
  /\ status \in [Irps -> {None, "answered", "cancelled", "failed"}]
  /\ hd \in [Handles -> {"none", "create", "test", "retest", "set", "open", "close",
                         "flush", "drain", "closed"}]
  /\ popped \in [Flushers -> Irps \cup {None}] /\ slipped \subseteq Handles
  /\ again \subseteq Irps /\ blind \subseteq Irps
  /\ late \subseteq Packets /\ lateRead \subseteq Irps
  /\ fate \in [Packets -> {"new", "refused", "queued", "taken", "discarded"}]
  /\ given \in [Irps -> Packets \cup {None}]

Init ==
  /\ life = "start" /\ held = {} /\ frees = [f \in {"tap", "adapter"} |-> 0]
  /\ listed = FALSE /\ ifRunning = FALSE /\ tapRunning = FALSE
  /\ opens = 0 /\ halt = FALSE /\ always = FALSE /\ media = FALSE
  /\ mutex = None /\ power = 0
  /\ pktq = QueueInit(PacketCap) /\ irpq = QueueInit(IrpCap)
  /\ tx = [p \in Packets |-> "new"] /\ pair = [p \in Packets |-> <<>>]
  /\ rd = [r \in Irps |-> "new"]
  /\ of = [r \in Irps |-> None]
  /\ armed = {} /\ cx = [r \in Irps |-> "no"] /\ status = [r \in Irps |-> None]
  /\ hd = [h \in Handles |-> "none"]
  /\ popped = [f \in Flushers |-> None] /\ slipped = {}
  /\ again = {} /\ blind = {} /\ late = {} /\ lateRead = {}
  /\ fate = [p \in Packets |-> "new"] /\ given = [r \in Irps |-> None]

IsUp == ifRunning /\ tapRunning

-----------------------------------------------------------------------------
(* The driver and its adapter come and go.                                 *)

\* What every call but those of NDIS's adapter management leaves alone.
Elsewhere == UNCHANGED <<openVars, queueVars, sendVars, readVars, irpVars, portGhosts>>

InitInstanceList == held' = {"list"}
FreeInstanceList == held' = held \ {"list"}
AddAdapterToInstanceList == listed' = TRUE
RemoveAdapterFromInstanceList == listed' = FALSE /\ held' = held \ {"adapter"}

\* InitInstanceList, then the registration of the entry points; when one of
\* them fails the driver unloads itself.
DriverEntry ==
  /\ life = "start"
  /\ \/ life' = "loaded" /\ InitInstanceList
     \/ life' = "unloaded" /\ held' = {}
  /\ UNCHANGED <<frees, listed, ifRunning, tapRunning, halt, always, power>>
  /\ Elsewhere

\* Each of the two free functions asserts that it was not called before: TypeOK's
\* range of frees.
\* Slip: the caller frees the device that CreateTapDevice freed already.
Slip_FreeResources ==
  /\ frees' = [frees EXCEPT !["tap"] = @ + 2, !["adapter"] = @ + 1]
  /\ held' = held \ (DeviceParts \cup AdapterParts)

\* Slip: the shutdown handler stays registered.
Slip_FreeKeepsHandler ==
  /\ frees' = [f \in DOMAIN frees |-> frees[f] + 1]
  /\ held' = held \ (DeviceParts \cup {"name", "mclock"})

\* TapDeviceFreeResources, then AdapterFreeResources.
FreeResources ==
  /\ frees' = [f \in DOMAIN frees |-> frees[f] + 1]
  /\ held' = held \ (DeviceParts \cup AdapterParts)

\* It does not free the adapter itself.
AdapterFreeResources ==
  /\ frees' = [frees EXCEPT !["adapter"] = @ + 1]
  /\ held' = held \ AdapterParts

\* The medium is looked for, the adapter allocated, its lock and its shutdown
\* handler registered.
AdapterCreate ==
  /\ life = "loaded"
  /\ \/ life' = "failed" /\ UNCHANGED held
     \/ life' = "configure" /\ held' = held \cup {"adapter", "mclock", "shutdown"}
  /\ UNCHANGED <<frees, listed, ifRunning, tapRunning, halt, always, power>>
  /\ Elsewhere

\* The registry: no configuration or no name and the adapter gives up; every
\* other value has a default.
AdapterConfigure ==
  /\ life = "configure"
  /\ \/ life' = "failed" /\ AdapterFreeResources /\ UNCHANGED <<always, media>>
     \/ /\ life' = "tapname" /\ held' = held \cup {"name"}
        /\ always' \in MediaStatus /\ media' = always'
        /\ UNCHANGED frees
  /\ UNCHANGED <<listed, ifRunning, tapRunning, halt, power, opens, mutex, hd, popped, slipped>>
  /\ UNCHANGED <<queueVars, sendVars, readVars, irpVars, portGhosts>>

\* One of the steps of CreateTapDevice that can fail, each of which leaves
\* something allocated behind; the dispatch table and the strings that live
\* only inside the function are not followed.
TapDeviceStep(from, parts, to) ==
  /\ life = from
  /\ \/ life' = "failed" /\ FreeResources
     \/ life' = to /\ held' = held \cup parts /\ UNCHANGED frees
  /\ UNCHANGED <<listed, ifRunning, tapRunning, halt, always, power>> /\ Elsewhere

CreateTapName == TapDeviceStep("tapname", {"tapname"}, "linkname")
CreateLinkName == TapDeviceStep("linkname", {"linkname"}, "device")
RegisterDevice == TapDeviceStep("device", {"device", "locks"}, "queues")

\* Any of the three queues may fail to be allocated.
TapDeviceQueues ==
  /\ life = "queues"
  /\ \/ life' = "failed" /\ FreeResources /\ UNCHANGED tapRunning
     \/ /\ life' = "add" /\ held' = held \cup {"packetq", "irpq", "injectq", "dpc"}
        /\ tapRunning' = TRUE /\ UNCHANGED frees
  /\ UNCHANGED <<listed, ifRunning, halt, always, power>> /\ Elsewhere

AdapterAdd ==
  /\ life = "add"
  /\ \/ life' = "failed" /\ FreeResources /\ UNCHANGED <<listed, ifRunning>>
     \/ life' = "up" /\ AddAdapterToInstanceList /\ ifRunning' = TRUE /\ UNCHANGED <<held, frees>>
  /\ UNCHANGED <<tapRunning, halt, always, power>> /\ Elsewhere

\* AdapterModify of OID_PNP_SET_POWER.
SetPower ==
  /\ life = "up"
  /\ \/ power < MaxPower /\ power' = power + 1 /\ ifRunning' = FALSE
     \/ ifRunning' = TRUE /\ UNCHANGED power
  /\ UNCHANGED <<life, held, frees, listed, tapRunning, halt, always>> /\ Elsewhere

AdapterHalt ==
  /\ life = "up" /\ life' = "halt" /\ ifRunning' = FALSE
  /\ UNCHANGED <<held, frees, listed, tapRunning, halt, always, power>> /\ Elsewhere

-----------------------------------------------------------------------------
(* Completing an IRP: the routine that cancels it is cleared and           *)
(* IoCompleteRequest called.                                               *)

IoComplete(r, how) ==
  /\ armed' = armed \ {r}
  /\ status' = [status EXCEPT ![r] = IF @ = None THEN how ELSE @]
  /\ again' = IF status[r] = None THEN again ELSE again \cup {r}
  /\ UNCHANGED blind

\* CompleteIRP: the packet is copied, or found too long, and freed.
CompleteIRP(r) == IoComplete(r, "answered")

\* What the queue lock's critical sections do to the packet they pop for r.  The
\* request may be gone already: then the packet is lost.
HandPacket(r) ==
  IF status[r] = None
    THEN /\ given' = [given EXCEPT ![r] = Oldest(pktq)]
         /\ fate' = [fate EXCEPT ![Oldest(pktq)] = "taken"]
    ELSE /\ fate' = [fate EXCEPT ![Oldest(pktq)] = "discarded"]
         /\ UNCHANGED given

-----------------------------------------------------------------------------
(* AdapterTransmit.                                                        *)

\* Before the queue: a packet of a wrong length, one nobody has the device open
\* for, one there is no memory for.
TransmitCheck(p) ==
  /\ life = "up" /\ tx[p] = "new"
  /\ \/ /\ tx' = [tx EXCEPT ![p] = "done"]
        /\ fate' = [fate EXCEPT ![p] = "refused"]
     \/ /\ opens # 0 /\ media
        /\ tx' = [tx EXCEPT ![p] = "push"] /\ UNCHANGED fate
  /\ UNCHANGED <<adapterVars, openVars, queueVars, pair, late, readVars, irpVars, given>>

TransmitPush(p) ==
  /\ tx[p] = "push"
  /\ IF IsUp /\ ~QueueFull(PacketCap, pktq)
       THEN /\ pktq' = QueuePush(PacketCap, pktq, p)
            /\ tx' = [tx EXCEPT ![p] = "match"]
            /\ fate' = [fate EXCEPT ![p] = "queued"]
       ELSE /\ tx' = [tx EXCEPT ![p] = "done"]
            /\ fate' = [fate EXCEPT ![p] = "refused"]
            /\ UNCHANGED pktq
  /\ UNCHANGED <<adapterVars, openVars, irpq, pair, late, readVars, irpVars, given>>

\* Slip: an off-by-one in the test of the IRP queue.
Slip_TransmitMatch(p) ==
  /\ tx[p] = "match"
  /\ IF IsUp /\ pktq.size > 0 /\ irpq.size > 1
       THEN /\ tx' = [tx EXCEPT ![p] = "complete"]
            /\ pair' = [pair EXCEPT ![p] = <<Oldest(irpq), Oldest(pktq)>>]
            /\ HandPacket(Oldest(irpq))
            /\ irpq' = QueuePop(IrpCap, irpq) /\ pktq' = QueuePop(PacketCap, pktq)
       ELSE /\ tx' = [tx EXCEPT ![p] = "done"]
            /\ UNCHANGED <<pair, queueVars, portGhosts>>
  /\ UNCHANGED <<adapterVars, openVars, late, readVars, irpVars>>

\* One turn of the loop that gives queued packets to queued reads.
TransmitMatch(p) ==
  /\ tx[p] = "match"
  /\ IF IsUp /\ pktq.size > 0 /\ irpq.size > 0
       THEN /\ tx' = [tx EXCEPT ![p] = "complete"]
            /\ pair' = [pair EXCEPT ![p] = <<Oldest(irpq), Oldest(pktq)>>]
            /\ HandPacket(Oldest(irpq))
            /\ irpq' = QueuePop(IrpCap, irpq) /\ pktq' = QueuePop(PacketCap, pktq)
       ELSE /\ tx' = [tx EXCEPT ![p] = "done"]
            /\ UNCHANGED <<pair, queueVars, portGhosts>>
  /\ UNCHANGED <<adapterVars, openVars, late, readVars, irpVars>>

TransmitComplete(p) ==
  /\ tx[p] = "complete"
  /\ CompleteIRP(pair[p][1])
  /\ tx' = [tx EXCEPT ![p] = "match"] /\ pair' = [pair EXCEPT ![p] = <<>>]
  /\ UNCHANGED <<adapterVars, openVars, queueVars, late, readVars, cx, portGhosts>>

-----------------------------------------------------------------------------
(* TapDeviceHook.  Each call looks the adapter up and reads m_Halt: the    *)
(* first call after the adapter was halted is turned away, later ones find *)
(* no adapter.  If the adapter is removed between the two the call reads   *)
(* freed memory: it fails like the others or brings the system down.       *)

\* The lookup waits for its bucket, so it finds the adapter if it is listed.
LookupAdapterInInstanceList == listed

Admitted == LookupAdapterInInstanceList /\ ~halt

Caught ==
  /\ life = "remove" /\ life' = "bugcheck"
  /\ UNCHANGED <<held, frees, listed, ifRunning, tapRunning, halt, always, power>>
  /\ Elsewhere

\* IRP_MJ_READ of an open handle: m_Halt, the mapping of the buffer (which may
\* fail) and m_InterfaceIsRunning.
ReadCall(h, r) ==
  /\ hd[h] = "open" /\ rd[r] = "new"
  /\ of' = [of EXCEPT ![r] = h]
  /\ \/ rd' = [rd EXCEPT ![r] = "done"] /\ IoComplete(r, "failed")
     \/ /\ Admitted /\ ifRunning
        /\ rd' = [rd EXCEPT ![r] = "pop"] /\ UNCHANGED <<armed, status, again, blind>>
  /\ UNCHANGED <<adapterVars, openVars, queueVars, sendVars, lateRead, cx, portGhosts>>

\* Slip: it does not ask whether other reads wait.
Slip_ReadPop(r) ==
  /\ rd[r] = "pop"
  /\ IF IsUp /\ pktq.size > 0
       THEN /\ rd' = [rd EXCEPT ![r] = "done"]
            /\ HandPacket(r) /\ pktq' = QueuePop(PacketCap, pktq)
            /\ CompleteIRP(r)
       ELSE /\ rd' = [rd EXCEPT ![r] = "pend"]
            /\ UNCHANGED <<pktq, armed, status, again, blind, portGhosts>>
  /\ UNCHANGED <<adapterVars, openVars, irpq, sendVars, of, lateRead, cx>>

\* Immediate service, unless other reads wait.  The IRP is on no queue and has no
\* cancel routine, so CompleteIRP may as well be part of the step.
ReadPop(r) ==
  /\ rd[r] = "pop"
  /\ IF IsUp /\ pktq.size > 0 /\ irpq.size = 0
       THEN /\ rd' = [rd EXCEPT ![r] = "done"]
            /\ HandPacket(r) /\ pktq' = QueuePop(PacketCap, pktq)
            /\ CompleteIRP(r)
       ELSE /\ rd' = [rd EXCEPT ![r] = "pend"]
            /\ UNCHANGED <<pktq, armed, status, again, blind, portGhosts>>
  /\ UNCHANGED <<adapterVars, openVars, irpq, sendVars, of, lateRead, cx>>

\* A critical section of its own: packets may have come since ReadPop.
ReadPend(r) ==
  /\ rd[r] = "pend"
  /\ IF IsUp /\ ~QueueFull(IrpCap, irpq)
       THEN /\ irpq' = QueuePush(IrpCap, irpq, r)
            /\ armed' = armed \cup {r}
            /\ rd' = [rd EXCEPT ![r] = "pended"]
            /\ lateRead' = IF pktq.size > 0 THEN lateRead \cup {r} ELSE lateRead
            /\ UNCHANGED <<status, again, blind>>
       ELSE /\ rd' = [rd EXCEPT ![r] = "done"]
            /\ IoComplete(r, "failed")
            /\ UNCHANGED <<irpq, lateRead>>
  /\ UNCHANGED <<adapterVars, openVars, pktq, sendVars, of, cx, portGhosts>>

\* ACQUIRE_MUTEX_ADAPTIVE of m_OpenCloseMutex below DISPATCH_LEVEL, RELEASE_MUTEX.
Acquire(h) == mutex = None /\ mutex' = h
Release == mutex' = None

\* IRP_MJ_CREATE, as long as the device is registered; a call that is not
\* admitted fails and changes nothing.
CreateCall(h) ==
  /\ hd[h] = "none" /\ "device" \in held /\ Admitted
  /\ hd' = [hd EXCEPT ![h] = "create"]
  /\ UNCHANGED <<adapterVars, opens, media, mutex, popped, slipped, queueVars, sendVars,
                 readVars, irpVars, portGhosts>>

CreateAcquire(h) ==
  /\ hd[h] = "create" /\ Acquire(h)
  /\ hd' = [hd EXCEPT ![h] = "test"]
  /\ UNCHANGED <<adapterVars, opens, media, popped, slipped, queueVars, sendVars, readVars,
                 irpVars, portGhosts>>

\* The call goes on to the next test or gives the mutex back and fails.
Tested(h, passed, next) ==
  /\ IF passed
       THEN hd' = [hd EXCEPT ![h] = next] /\ UNCHANGED mutex
       ELSE hd' = [hd EXCEPT ![h] = "none"] /\ Release
  /\ UNCHANGED <<adapterVars, opens, media, popped, slipped, queueVars, sendVars, readVars,
                 irpVars, portGhosts>>

CreateTestRunning(h) == hd[h] = "test" /\ Tested(h, tapRunning, "retest")

\* Slip: any number of handles may have the device open.
Slip_CreateTestOpens(h) == hd[h] = "retest" /\ Tested(h, TRUE, "set")

\* The halt handler may have cleared both m_TapIsRunning and m_TapOpens since the
\* first test.
CreateTestOpens(h) == hd[h] = "retest" /\ Tested(h, opens = 0, "set")

\* The halt handler may have cleared m_TapOpens since the test.
CreateSet(h) ==
  /\ hd[h] = "set"
  /\ opens' = 1 /\ Release /\ hd' = [hd EXCEPT ![h] = "open"]
  /\ UNCHANGED <<adapterVars, media, popped, slipped, queueVars, sendVars, readVars, irpVars,
                 portGhosts>>

\* TAP_IOCTL_SET_MEDIA_STATUS of an open handle.
SetMediaStatus(state) == media' = IF always THEN media ELSE state

MediaIoctl(h) ==
  /\ hd[h] = "open" /\ Admitted
  /\ \E state \in BOOLEAN : SetMediaStatus(state)
  /\ UNCHANGED <<adapterVars, opens, mutex, hd, popped, slipped, queueVars, sendVars,
                 readVars, irpVars, portGhosts>>

\* IRP_MJ_CLOSE: the I/O manager sends it when the program has closed its handle
\* and the last read of it is completed; there is no IRP_MJ_CLEANUP handler.
\* Halted, the device has nothing to do for it.
CloseCall(h) ==
  /\ hd[h] = "open"
  /\ \A r \in Irps : of[r] = h => status[r] # None
  /\ hd' = [hd EXCEPT ![h] = IF Admitted THEN "close" ELSE "closed"]
  /\ UNCHANGED <<adapterVars, opens, media, mutex, popped, slipped, queueVars, sendVars,
                 readVars, irpVars, portGhosts>>

CloseAcquire(h) ==
  /\ hd[h] = "close" /\ Acquire(h)
  /\ opens' = 0 /\ hd' = [hd EXCEPT ![h] = "flush"]
  /\ UNCHANGED <<adapterVars, media, popped, slipped, queueVars, sendVars, readVars, irpVars,
                 portGhosts>>

-----------------------------------------------------------------------------
(* FlushQueues, called by the close of a handle or by the halt handler f:  *)
(* first the IRPs, then the packets.  Each turn of its loops is a critical *)
(* section; an IRP is completed after it.                                  *)

FlushPop(f) ==
  /\ popped[f] = None /\ irpq.size > 0
  /\ popped' = [popped EXCEPT ![f] = Oldest(irpq)]
  /\ irpq' = QueuePop(IrpCap, irpq)
  /\ UNCHANGED <<adapterVars, opens, media, mutex, hd, slipped, pktq, sendVars, readVars,
                 irpVars, portGhosts>>

\* Slip: the IRP that was popped is completed only if it can still be cancelled.
Slip_FlushCancel(f) ==
  /\ popped[f] # None /\ popped' = [popped EXCEPT ![f] = None]
  /\ IF popped[f] \in armed
       THEN IoComplete(popped[f], "cancelled")
       ELSE UNCHANGED <<armed, status, again, blind>>
  /\ UNCHANGED <<adapterVars, opens, media, mutex, hd, slipped, queueVars, sendVars, readVars,
                 cx, portGhosts>>

\* CancelIRP without an extension.  The routine of the IRP may be running already,
\* or have run.
FlushCancel(f) ==
  /\ popped[f] # None /\ popped' = [popped EXCEPT ![f] = None]
  /\ IoComplete(popped[f], "cancelled")
  /\ UNCHANGED <<adapterVars, opens, media, mutex, hd, slipped, queueVars, sendVars, readVars,
                 cx, portGhosts>>

FlushIrp(f) == FlushPop(f) \/ FlushCancel(f)

IrpsFlushed(f) == popped[f] = None /\ irpq.size = 0

FlushPacket ==
  /\ pktq.size > 0
  /\ pktq' = QueuePop(PacketCap, pktq)
  /\ fate' = [fate EXCEPT ![Oldest(pktq)] = "discarded"]
  /\ UNCHANGED <<adapterVars, openVars, irpq, sendVars, readVars, irpVars, given>>

\* Slip: the packets are left in their queue.
Slip_PacketsFlushed == TRUE

PacketsFlushed == pktq.size = 0

CloseFlush(h) ==
  \/ hd[h] = "flush" /\ FlushIrp(h)
  \/ /\ hd[h] = "flush" /\ IrpsFlushed(h)
     /\ hd' = [hd EXCEPT ![h] = "drain"]
     /\ UNCHANGED <<adapterVars, opens, media, mutex, popped, slipped, queueVars, sendVars,
                    readVars, irpVars, portGhosts>>
  \/ hd[h] = "drain" /\ FlushPacket

CloseEnd(h) ==
  /\ hd[h] = "drain" /\ PacketsFlushed
  /\ late' = late \cup {p \in Packets : tx[p] = "push"}
  /\ SetMediaStatus(FALSE)
  /\ Release /\ hd' = [hd EXCEPT ![h] = "closed"]
  /\ UNCHANGED <<adapterVars, opens, popped, slipped, queueVars, tx, pair, readVars, irpVars,
                 portGhosts>>

-----------------------------------------------------------------------------
(* CancelIRPCallback, called once the I/O manager has taken the routine    *)
(* off the IRP.                                                            *)

IoCancelIrp(r) ==
  /\ r \in armed
  /\ armed' = armed \ {r} /\ cx' = [cx EXCEPT ![r] = "called"]
  /\ UNCHANGED <<adapterVars, openVars, queueVars, sendVars, readVars, status, again,
                 blind, portGhosts>>

\* Slip: the IRP is completed whether or not it was still queued.
Slip_CancelQueued(r) ==
  /\ listed
  /\ irpq' = QueueExtract(IrpCap, irpq, r)
  /\ IoComplete(r, "cancelled")

\* CancelIRP with the adapter found: the IRP is completed if it was queued.  Once
\* it is out of the queue nobody else has it, so its completion after the unlock
\* may as well be part of the step.
CancelQueued(r) ==
  /\ listed
  /\ irpq' = QueueExtract(IrpCap, irpq, r)
  /\ IF irpq' # irpq
       THEN IoComplete(r, "cancelled")
       ELSE UNCHANGED <<armed, status, again, blind>>

\* CancelIRP with no adapter completes the IRP, wherever it is.  The callback runs
\* at DISPATCH_LEVEL and cannot wait for the bucket of the instance hash: the
\* lookup may fail although the adapter is there.
CancelBlindly(r) ==
  /\ blind' = blind \cup {r}
  /\ armed' = armed \ {r}
  /\ status' = [status EXCEPT ![r] = IF @ = None THEN "cancelled" ELSE @]
  /\ again' = IF status[r] = None THEN again ELSE again \cup {r}
  /\ UNCHANGED irpq

CancelIRPCallback(r) ==
  /\ cx[r] = "called" /\ cx' = [cx EXCEPT ![r] = "done"]
  /\ CancelQueued(r) \/ CancelBlindly(r)
  /\ UNCHANGED <<adapterVars, openVars, pktq, sendVars, readVars, portGhosts>>

-----------------------------------------------------------------------------
(* DestroyTapDevice, RemoveAdapterFromInstanceList and the driver's end.   *)

\* A call is past the m_Halt check.
InProgress ==
  \/ \E p \in Packets : tx[p] \in {"push", "match", "complete"}
  \/ \E r \in Irps : rd[r] \in {"pop", "pend"} \/ cx[r] = "called"
  \/ \E h \in Handles : hd[h] \in {"create", "test", "retest", "set", "close", "flush", "drain"}

\* DestroyTapDevice lets its clients know, one flag after the other and without
\* the mutex.
ClearTapIsRunning ==
  /\ life = "halt" /\ life' = "opens" /\ tapRunning' = FALSE
  /\ UNCHANGED <<held, frees, listed, ifRunning, halt, always, power>> /\ Elsewhere

ClearTapOpens ==
  /\ life = "opens" /\ life' = "flag" /\ opens' = 0
  /\ slipped' = {h \in Handles : hd[h] = "retest"}
  /\ UNCHANGED <<held, frees, listed, ifRunning, tapRunning, halt, always, power>>
  /\ UNCHANGED <<media, mutex, hd, popped, queueVars, sendVars, readVars, irpVars, portGhosts>>

\* Slip: m_Halt is not set.
Slip_SetHalt ==
  /\ life = "flag" /\ life' = "sleep1"
  /\ UNCHANGED <<held, frees, listed, ifRunning, tapRunning, halt, always, power>> /\ Elsewhere

SetHalt ==
  /\ life = "flag" /\ life' = "sleep1" /\ halt' = TRUE
  /\ UNCHANGED <<held, frees, listed, ifRunning, tapRunning, always, power>> /\ Elsewhere

\* A step of DestroyTapDevice that only lets the next one begin.
Proceed(from, to) ==
  /\ life = from /\ life' = to
  /\ UNCHANGED <<held, frees, listed, ifRunning, tapRunning, halt, always, power>>
  /\ Elsewhere

Sleep(from, to) == ~InProgress /\ Proceed(from, to)

HaltFlush ==
  \/ life = "flush" /\ FlushIrp(None)
  \/ IrpsFlushed(None) /\ Proceed("flush", "drain")
  \/ life = "drain" /\ FlushPacket
  \/ PacketsFlushed /\ Proceed("drain", "sleep2")

DestroyTapDevice ==
  \/ ClearTapIsRunning \/ ClearTapOpens \/ SetHalt
  \/ Sleep("sleep1", "flush") \/ HaltFlush \/ Sleep("sleep2", "free")

HaltFree ==
  /\ life = "free" /\ life' = "remove" /\ FreeResources
  /\ UNCHANGED <<listed, ifRunning, tapRunning, halt, always, power>> /\ Elsewhere

AdapterRemove ==
  /\ life = "remove" /\ life' = "halted"
  /\ RemoveAdapterFromInstanceList
  /\ UNCHANGED <<frees, ifRunning, tapRunning, halt, always, power>> /\ Elsewhere

\* The driver is unloaded when no handle refers to its device any more.
TapDriverUnload ==
  /\ life \in {"halted", "failed"}
  /\ \A h \in Handles : hd[h] \in {"none", "closed"}
  /\ life' = "unloaded" /\ FreeInstanceList
  /\ UNCHANGED <<frees, listed, ifRunning, tapRunning, halt, always, power>> /\ Elsewhere

Stopped == life \in {"unloaded", "bugcheck"} /\ UNCHANGED vars

Adapter ==
  \/ DriverEntry \/ AdapterCreate \/ AdapterConfigure \/ CreateTapName \/ CreateLinkName \/ RegisterDevice
  \/ TapDeviceQueues \/ AdapterAdd \/ SetPower
  \/ AdapterHalt \/ DestroyTapDevice \/ HaltFree
  \/ AdapterRemove \/ TapDriverUnload \/ Caught

AdapterTransmit(p) ==
  TransmitCheck(p) \/ TransmitPush(p) \/ TransmitMatch(p) \/ TransmitComplete(p)

Read(r) ==
  \/ \E h \in Handles : ReadCall(h, r)
  \/ ReadPop(r) \/ ReadPend(r)

Cancel(r) == IoCancelIrp(r) \/ CancelIRPCallback(r)

Handle(h) ==
  \/ CreateCall(h) \/ CreateAcquire(h) \/ CreateTestRunning(h) \/ CreateTestOpens(h)
  \/ CreateSet(h) \/ MediaIoctl(h)
  \/ CloseCall(h) \/ CloseAcquire(h) \/ CloseFlush(h) \/ CloseEnd(h)

Next ==
  \/ /\ life # "bugcheck"
     /\ \/ Adapter
        \/ \E p \in Packets : AdapterTransmit(p)
        \/ \E r \in Irps : Read(r) \/ Cancel(r)
        \/ \E h \in Handles : Handle(h)
  \/ Stopped

Spec == Init /\ [][Next]_vars

-----------------------------------------------------------------------------
(* Properties.                                                             *)

\* An IRP is completed once, whatever transmit, read, cancel, close and halt do
\* at the same time (tapdrvr.c:2599-2797), unless a cancel did not find the
\* adapter and completed an IRP that stays queued.
CompletedOnce == again \subseteq blind

\* A cancel that found the routine set ends with the IRP completed, or in the
\* hands of the transmit or of the flush that popped it before the cancel looked
\* for it and is about to complete it: it is never lost between them.
CancelCompletes ==
  \A r \in Irps : cx[r] = "done" =>
    \/ status[r] # None
    \/ \E p \in Packets : pair[p] # <<>> /\ pair[p][1] = r
    \/ \E f \in Flushers : popped[f] = r

\* The handle has the device open, is about to or is closing it.
Owner(h) == hd[h] \in {"set", "open", "close", "flush", "drain"}

\* What m_TapOpens and the mutex are for (tapdrvr.c:2491-2572): one handle has the
\* device open.  The halt clears m_TapOpens without the mutex, so a create that
\* it caught between its two tests opens the device a second time; but every read
\* of that handle fails.
OneOwner ==
  /\ \A g, h \in Handles : Owner(g) /\ Owner(h) => g = h \/ {g, h} \cap slipped # {}
  /\ \A r \in Irps : of[r] \in slipped => status[r] = "failed"

\* With the device closed and not halted, the packet queue holds nothing but
\* packets that were past the check of m_TapOpens when the close flushed it (the
\* next program to open the device will read those).
StaleOnlyIfLate ==
  ~halt /\ (\A h \in Handles : ~Owner(h)) =>
    \A i \in 1 .. pktq.size : Contents(PacketCap, pktq)[i] \in late

\* When no transmit is matching, packets and reads wait on each other only if a
\* read was queued behind the back of a packet (tapdrvr.c:2296-2316: the lock is
\* released between looking for a packet and queueing the IRP) or the interface
\* was down.
IdlePairsAreLate ==
  /\ pktq.size > 0 /\ irpq.size > 0 /\ power = 0 /\ IsUp
  /\ \A p \in Packets : tx[p] \notin {"match", "complete"}
  => lateRead # {}

\* Once the resources of the device are freed no call is past the m_Halt check,
\* the queues were empty, and every read ever queued is completed.
FreedMeansIdle ==
  frees["tap"] > 0 =>
    /\ ~InProgress /\ pktq.size = 0 /\ irpq.size = 0
    /\ \A r \in Irps : rd[r] = "pended" => status[r] # None

\* Whatever step fails, the adapter's end frees all it allocated; an adapter that
\* could not be created keeps its own memory, which nobody frees.
NothingLeaks ==
  /\ life = "halted" => held = {"list"}
  /\ life = "failed" => held \subseteq {"list", "adapter"}
  /\ life = "unloaded" => held \subseteq {"adapter"}

\* The packet queue and the reads behave as PacketPort promises: packets and
\* reads meet in order, oldest to oldest, none twice.
Waiting == Keep(Contents(IrpCap, irpq), {r \in Irps : status[r] = None})

Port == INSTANCE PacketPort WITH
  Requests <- Irps, queue <- Contents(PacketCap, pktq), line <- Waiting,
  given <- [r \in {s \in Irps : given[s] # None} |-> given[r]]

ImplementsPort == Port!PortSpec

=============================================================================
