# tapcfg in TLA+

tapcfg is a library that configures TAP interfaces in the same way on every
platform (`src/src/lib`, API in `src/src/include/tapcfg.h`), with a .NET
binding, and a small program, tapserver/tapdemo (`src/src/daemon`), that carries
Ethernet frames between a TAP interface and TCP clients.  The repository also
carries the kernel drivers the library needs (`src/drivers`), written by others
(`src/drivers/README`).  This directory holds TLA+ models of it, TLC
configurations and TLAPS proofs.

Run a configuration with `tlc -config X.cfg Module`, a proof with `tlapm M.tla`.

## 1. Inventory

| component | state | operations | interacts with |
|---|---|---|---|
| tapserver (`daemon/tapserver.c`) | `running`, `joined`, `clients`/`clienttab[5]`, two mutexes, two threads, the listening socket | `tapserver_init/start/stop/destroy/add_client/client_count`; `reader_thread`, `writer_thread` | the library (`wait_readable`, `read`, `write`), sockets, main |
| tapdemo (`daemon/tapdemo.c`) | mode, `running` cleared by SIGINT | configure the interface, connect (client mode), start, wait, stop, destroy | tapserver, the library |
| server socket (`daemon/serversock.c`) | one descriptor | `serversock_tcp/get_fd/accept/destroy` | tapserver, daemon |
| libtapcfg, Unix part (`lib/tapcfg_unix.c`) | `started`, `tap_fd`, `ctrl_fd`, `ifname`, `hwaddr`, `status`, `buffer`/`buflen` | start, stop, wait, read, write, get/set of address, status, MTU | the kernel through ioctls |
| its Linux, BSD, Solaris parts (`tapcfg_unix_*.h`, `dlpi.c`) | Solaris: `ip_fd`, `ip6_fd` and plumbed streams | `start_dev`, `stop_dev`, the ioctls | the kernel, the drivers |
| libtapcfg, Windows part (`tapcfg_windows.c`, `_fixup.h`) | device handle, `reading`, two OVERLAPPED, `inbuf`/`inbuflen` | as above with overlapped I/O; search of the registry | the Windows driver |
| logging (`taplog.c`) | level, callback | format and emit | all of the library |
| daemon prototype (`main.c`, `daemon.c`, `client.c`) | `running`, one listener thread | init, start, stop | server socket |
| .NET binding (`bindings/*.cs`) | handle, `_disposed` | one method a library call; `EthernetFrame` parser | the library |
| Windows driver (`drivers/windows/tap-win32`) | packet, IRP and injection queues, open count, media state, DHCP/ARP masquerade | read/write/ioctl IRPs, cancel, adapter transmit, open, close, halt | NDIS, the library |
| OS X driver (`drivers/osx/tuntap`) | send queue, `open`, gate, interface | cdev open/close/read/write/select, `if_output`, load, unload | the kernel, the library |
| Solaris driver (`drivers/solaris/tuntap`) | streams, PPAs, DLPI states | open, close, DLPI requests, ioctls, frames | STREAMS |

What is hard, and what makes each part correct:

* **tapserver.**  Two threads and main share the table, the sockets and the flags.
  The table is read in one critical section and used in another
  (select in between); entries move when one is removed, while loops over them are
  running; sends and receives block under the mutex; peers close, reset and
  stall; every error exit has to give the mutex back.  Correct means: no index
  leaves the table or slips to a neighbour, the streams stay framed, frames are
  relayed in order and at most once, a stop returns and nothing is destroyed under
  a thread.
* **library.**  Sequences of legal calls with failing system calls in between; two
  descriptors and a buffered frame that outlive some of the calls.  Correct
  means: the handle says what the kernel has, no descriptor of others is closed
  and none of ours is lost, frames are handed out whole, in order, once.
* **Windows part.**  An asynchronous read that may still be pending across a
  timeout, a stop or a new start.
* **drivers.**  Interrupt and thread contexts that share queues; requests that are
  cancelled while they are completed; wakeups; close during a blocked read; a queue
  at its limit.

`PROJECT.json` lists the main hazards with their lines, and the property that watches
each or the reason why none does, or covers it only in part; section 6 names the
lesser ones.

## 2. Plan

Done, in the order in which the parts matter:

1. `TapServer`: the core, with `Relay` as what it promises.
2. `TapcfgUnix` with `TapDevice` as what a reader of frames is promised.
3. `TapQueue`, `PacketPort` and `WinTapDriver`: the queues of the Windows driver,
   what it promises the program that reads, and how it does it under concurrent
   calls, cancels, closes and the halt of the adapter.
4. `WinTapMasq` and `TapcfgWindows`: how the library and other programs configure
   that driver, what it answers in the name of other hosts, and the overlapped read
   across stops and starts, composed in one run that implements `TapDevice` as well.
5. `TuntapDriver`: the Mac OS X driver from load to unload.
6. The proofs: every safety invariant and action property of the runs, and every
   refinement, for all values of the constants.

Left: liveness, which the prover does not reach.

## 3. Modules

### TapServer

The server as tapdemo drives it.  Three program counters (`rpc`, `wpc`, `mpc`)
are the places in `reader_thread`, `writer_thread` and `main`; `running`,
`joined`, `serversock`, `mutex`, `clienttab` are fields of `tapserver_t`; `ri`,
`rbuf`, `wi`, `wj`, `wbuf`, `wset`, `rfds`, `newfd` are the locals of the threads
that live across a shared step.  `in[c]` and `out[c]` are the bytes under way from
and to connection `c`, in units of what one `recv_data` or `send_data` moves: a
two-byte size or a payload.  `devin`, `devout` are the frames between the server
and the device.

Each action is one lock, unlock, receive, send, device call or check of the code,
with the control flow up to the next one (the map names its lines):

* reader: `RRead`/`RNothing` (wait and read), `RLock`, `RSendSize`, `RSendData`,
  `RSendFail` (remove and go on), `RUnlock`, `RCheck`;
* writer: `WBuild`, `WSelect`, `WLock`, `WSkip`, `WRecvSize`, `WRecvData`,
  `WRecvFail`, `WRecvEof` (the endless loop of `recv_data` at end of file), `WWrite`,
  `WWriteFail` (the `goto exit` with both mutexes), `WFwd...` (forwarding without
  a device), `WUnlock`, `WAccept`, `WAdd`, `WCheck`;
* main: `MConnect`, `MFreeIfname`, `MStart`, `MCreateReader`, `MCreateWriter`
  (each may fail unnoticed), `MStop`, `MJoin...`, `MClose`, `MDestroy`;
* outside: `PConnect`, `PSendSize`, `PSendData`, `PMove` (close, reset or stop
  reading), `DFrame`.

A step under `run_mutex` contains one access and never blocks, so it is one action;
`server->mutex` is explicit.  A SIGPIPE (`RSigpipe`, `WSigpipe`) and the undefined
uses (join of a thread that does not exist, free of a borrowed pointer) may end the
process.  A connection stands for its descriptor: the code closes none of them, so a
number is never used twice.

Not modelled: the configuration of the interface before the start and a start of the
interface that fails before a server exists, partial sends and receives inside
`send_data`/`recv_data` (the loops hide them), what a payload contains, and the
Windows variants of the socket calls.

### Relay and TapServerRelay

`Relay` is the server without threads, locks, sockets or tables: a log of frames
taken for relaying, members, and for each client the positions of the log it was
given.  `TapServerRelay` adds the log to `TapServer` as a history variable and maps
`members` to the table, `got` to the payloads sent (every second chunk of a stream,
since sizes and payloads alternate), `up` to the frames written;
`ImplementsRelay` says that every step of the code is one of Relay or a stutter.
`RelayProofs` proves what that gives to clients: each sees the log in order, and any
two see the frames they share in the same order.

### TapcfgUnix and TapDevice

The library on Linux for one handle: `started`, `tap_fd`, `ctrl_fd`, `ifname`,
`hwaddr`, `status` and `buffer` are the fields; `fds` is the descriptor table of the
process, shared with the rest of the application; `dev` holds the kernel's
interfaces, some persistent.  One call is one action, with each failing system call
as an alternative: `Start` (`StartAgain`, `StartFails`, `NoControl`, `Started`),
`Stop`, `Destroy`, `Reinit`, `WaitReadable`, `Read`, `SetHwaddr`, `SetStatus`,
`SetMtu`, and `NoEffect` for a call that is turned away.  The application opens and
closes descriptors and the host sends frames in between.  `TapDevice` is what a
caller may expect of reads: frames whole, in order, once, none missing while the
interface is started.

Not modelled here: `tapcfg_write`, `wait_writable`, `set_ipv4` (no effect on the
handle or the frames read), logging, and calls from several threads at once (the
API has no lock and promises none; tapserver uses read and write from two threads,
which touch different state).

### TapQueue, PacketPort and WinTapDriver

`TapQueue` is the circular queue of `mem.c` as operators over records of a base, a
size and an array; `Contents` is the sequence it stands for.  `QueueExtract`, which
compacts the array in place, is a recursive function over the turns of its loop.

`PacketPort` is the abstract device: packets accepted, a line of requests, each
request handed at most one packet, oldest to oldest; packets may be refused or
discarded and requests may give up.  `Subsequences` has what a queue becomes when some
of its elements leave (`Keep`, `OmitAt`).

`WinTapDriver` is the life of one adapter and the packet path.  The miniport is
deserialized, so each call stops between two critical sections: `tx[p]` is the place
of `AdapterTransmit` with packet `p`, `rd[r]`, `cx[r]` those of the read and of the
cancel of IRP `r`, `hd[h]` that of the create or close by handle `h`, `life` that of
the driver and the adapter.  `held` are the resources, in the order of
`AdapterCreate` and `CreateTapDevice` with a failure at each step.  What the code reads
or writes without a lock is a step of its own where another call can come between:
the two tests of a create (`CreateTestRunning`, `CreateTestOpens`) and its store
(`CreateSet`), and the three stores of the halt (`ClearTapIsRunning`, `ClearTapOpens`,
`SetHalt`).  A flush, by a close or by the halt, pops an IRP under the queue lock
(`FlushPop`) and completes it after the unlock (`FlushCancel`); `popped[f]` is the IRP in
between.  Two other completions are part of the step that takes the IRP: a read
served at once is on no queue and has no cancel routine, and a cancel that extracted its
IRP is the only one that has it.  A lookup at
raised IRQL may miss the adapter (`CancelBlindly`), because the bucket is
taken with `ACQUIRE_MUTEX_ADAPTIVE` (instance.c:216, lock.h:61), which there gives up
when another thread holds it; calls below that level wait, as opens and closes do for
`m_OpenCloseMutex`.  `again`, `blind`, `late`, `lateRead` and `slipped` are
history: which IRPs, packets and creates met a race of the code, so that the properties
can say that these are the only ones.

### WinTapMasq and TapcfgWindows

`WinTapMasq` is the driver one call at a time: create, close, cancel, read, write,
the ioctls for the media state, point-to-point and tunnel mode and the DHCP server,
and `AdapterTransmit` with what it intercepts (`ServerArp`, `ServerDhcp`, the
tunnel's ARP, IPv6 neighbours) before it queues.  Options of a DHCP request are
numbers, walked as `GetDHCPMessageType` walks them; addresses have `AddrBits` bits.

`TapcfgWindows` extends it with the library: `tapcfg_fixup_adapters` over a registry,
and one action per call of the API.  The two nested loops of the search are sets of
places: the pairs of an adapter and a link of it, those with the name, the adapters
that are valid, and the pair met last (`LastOf`), which is the candidate the loop is
left with.  The read is overlapped: `ReadFile` may leave
it pending, `Collect` is what follows the event, and `irp` survives `tapcfg_stop`,
because the driver keeps the handle open until the read ends (`CloseHandle`,
`LateClose`).  `tapcfg_destroy` frees the OVERLAPPED of such a read, which makes it an
`orphan`.  Another program opens, configures and closes the device in between.

### TuntapDriver

One tap device of the Mac OS X extension.  `pc[t]` and `op[t]` are where a thread is
in which call: in front of the gate (`Call`, `Enter`), inside, asleep in `msleep`, in
one of the waits of a close, or on its way out (`Exit`).  What runs under the lock of
the interface is a step; only a close keeps the lock (`lock`) while others run.  Its
steps are the turns of the loop that detaches protocols (`shutdown_interface`), the flags
and the list of addresses (`cleanup_interface`), the ioctl that deletes those of AF_INET
(`delete_addresses`), `ifnet_detach` (`unregister_interface`) and, once the kernel is done,
the rest (`close_finish`).  The kernel may refuse any of them, and the code goes on; only a
failed `ifnet_detach` leaves it waiting.  `if_output` tests without the lock, queues each
packet under it and then wakes: three actions.  `ifconfig` sets flags and addresses, by way
of `do_sock_ioctl` when one has to be fixed, and plumbs protocols at any time the interface
is attached, also between the steps of a close.  `attached_protos` is the table of tap with
its slots; `Fails` has the three errors of `add_one_proto`.  `strict` decides whether
the kernel waits for outputs before it detaches: the repository does not tell.  Of the
history, `missed` and `unannounced` name lost wakeups, `spared` what the kernel did not
take away in the last close or gave during it.

Not modelled here: BPF, the demultiplexing and framing of packets, and what tun adds
to it (the address family header, the plumbers of its protocols).

## 4. Runs

| run | configuration | what it asks | bounds |
|---|---|---|---|
| server | `TapServer_server.cfg` | safety and `ImplementsRelay` with a device | 2 connections, a table of 2, one frame from each peer (legal, or one byte too large) and one from the device, resets |
| forwarder | `TapServer_forwarder.cfg` | table, accept, dispatch and removal without a device | 3 connections for 2 places, closes, one frame each |
| liveness | `TapServer_liveness.cfg` | a stop returns; a failed write ends both threads | 1 connection, close, reset, stall, sizes 0 and 4096, two frames from each side |
| forwarder_liveness | `TapServer_fwdlive.cfg` | a stop returns in a forwarder, whose writer also sends | 2 connections, close, reset, stall, one frame each |
| unix | `TapcfgUnix.cfg` | the handle, descriptors and frames; `ImplementsDevice` | a new and a persistent interface, 4 descriptors, 2 frames, lengths around the buffer size, MTUs around both limits |
| win_driver | `WinTapDriver.cfg` | IRPs, packets, resources and the halt; `ImplementsPort` | 2 packets, 2 reads, 1 program, queues of 2, one power-down; symmetry |
| win_programs | `WinTapDriver_programs.cfg` | who has the device open, and what outlives a close | 2 packets, 1 read, 3 programs, no power-down; symmetry |
| win_library | `TapcfgWindows.cfg` | handle, pending read, masquerade; `ImplementsDevice` | 2 frames, 2 bad requests with 1 forgiven, 1 inject slot, addresses of 3 bits, 2 registries |
| osx_driver | `TuntapDriver.cfg` | wakeups, packets a close leaves, unload; a close returns | 2 threads, 1 sender with bursts of 2 into a queue of 1, nothing plumbed |
| osx_config | `TuntapDriver_config.cfg` | protocols and addresses a close leaves; the table of protocols | 1 thread, 4 protocols for 2 entries, addresses of 2 families |
| ifname | `TapServer_ifname.cfg` | *violated*: what the library lent is not freed | 1 connection |
| unix_wait | `TapcfgUnix_wait.cfg` | *violated*: zero means nothing to read | 1 interface |

Why the bounds suffice.  What can go wrong with the table needs a full table, a
client after the one removed, and a client before it: two places and three
connections give all of these, for either thread.  `MAX_CLIENTS` is 5 in the code;
only the comparison with it matters.  One frame per source exercises each framing
state with both sources interleaved; the liveness run has two, so that a loop can be
entered again.  `BufSize` has its real value and sizes sit at 0, at the limit and
one above.  For the library two interfaces, four descriptors (one of them the
caller's standard input) and two frames let a descriptor number be closed and taken
by somebody else, a frame wait behind a buffered one, and a frame stay across a stop.
`MaxPeerFrames`, `MaxDevFrames` and `MaxFrames` are the only counters that are cut.

For the Windows driver two packets and two reads let a packet arrive while a read is
queued behind another, and a cancel meet the flush of the close or of the halt that has
just popped the read.  In `win_programs` one program closes while the next waits for the
mutex and a third is caught by the halt between its tests; one read is enough to see that
its reads fail.  The two runs share all actions; together their bounds would be too large
for one.  A queue of two is not overrun by two packets: a
full queue has the outcome of an interface that is down, which the run has, and the
ring is proved for every capacity.  The medium starts unplugged (`MediaStatus`); one
power-down is enough, as each is the same flag.  In `win_library` a threshold of one
instead of three (`BAD_DHCPREQUEST_NAK_THRESHOLD`) is passed by the second bad
request, three bits give a network of more than one subnet, and the two registries
hold a name that is found, one that is not, one that is linked twice and keys that
cannot be read; the second adapter's device cannot be opened.  Calls to the driver
are steps there, since `win_driver` interleaves them.  In `osx_driver` a burst of two
meets the full queue after its first packet; a second thread lets a reader sleep while
another closes, and a sender outlive the close.  `osx_config` leaves senders out, which
touch neither table nor addresses, and needs one thread, as a close excludes calls: the
table has room for the two entries of IP but not for IPv6 beside it, a third protocol
wants one of IP's types, and a fourth has another kind of description, so each error of
`add_one_proto` occurs, halfway where it can.

Deadlock is checked in every run but those of `TuntapDriver`, where an extension that is
unloaded or failed to load stays so: in `TapServer` the end of the process
and in `WinTapDriver` the unloaded driver are explicit stutters (`Halted`, `Stopped`),
so any other state without a step would be reported.

The definitions `Slip_...` are plausible mistakes (a missing guard, a swapped
order, an exit that keeps the lock).  No specification uses them; each shows that
a property notices the mistake when it replaces the definition after it.

### What the passing runs show

* The threads exclude each other on every path (`MutexInv`); no index leaves the table
  (`IndexInv`, the assertion of `remove_client`); the room tested before `select` is
  still there at `tapserver_add_client` (`AcceptFits`), because only the writer adds;
  a removal takes out the client that failed and no other (`OnlyFaultyLeave`).
* Streams stay framed in both directions (`OutFramed`, `InFramed`).
* While nobody is removed nobody is skipped (`DispatchComplete`).  After a removal the
  loops do skip the entry that moved down; `Relay` allows a member to miss a frame.
* A stop returns (`StopReturns`), and a refused write ends the threads
  (`FailureStopsThreads`), unless a peer keeps a thread in a socket call for ever
  (`Blocked`).  That proviso is needed: a peer that closes in the middle of a frame
  keeps the writer in `recv_data`, which polls the closed connection with the mutex
  held.
* The library closes no descriptor but its own (`LeavesOthersAlone`): the `ctrl_fd`
  of 0 that `calloc` leaves is harmless because `started` guards it.  The handle
  mirrors the kernel across failing ioctls (`HandleMirrors`), no frame is cut
  (`FramesWhole`) and none lost or repeated (`ImplementsDevice`), though the one that is
  buffered may outlive a stop.
* The Windows driver completes an IRP once, unless a cancel missed the adapter and
  completed an IRP that was queued or in the hands of another call (`CompletedOnce`); after a
  cancel that found the routine set the IRP is completed, or about to be by the transmit or
  the flush that popped it first (`CancelCompletes`).  One program has the device open, but
  for a create that the halt caught between its tests of `m_TapIsRunning` and `m_TapOpens`:
  it opens the device a second time, and all its reads fail (`OneOwner`).  What
  outlives a close is a packet that was past the check (`StaleOnlyIfLate`); packets and
  reads wait beside each other only after the race of `IRP_MJ_READ` between its two
  locks (`IdlePairsAreLate`); the halt frees nothing in use, as long as NdisMSleep lasts until
  the calls in progress have returned (`FreedMeansIdle`); a failing step of the creation
  frees what the earlier ones allocated but for the memory of the adapter, which nobody
  frees (`NothingLeaks`); packets meet reads in order (`ImplementsPort`).
* The Windows library's handle says what the driver has (`HandleCoherent`); a handle that
  waits for a read has one (`ReadOutstanding`); frames come in order and once, also
  across stops with a read pending (`ImplementsDevice`).  The driver answers only with
  addresses it was configured with, to programs that asked, and acknowledges no more
  bad requests than it forgives (`RepliesSound`).
* In the Mac OS X driver a sleeping reader or select has been told of what is queued but
  for two gaps, which the property names: a wakeup between the release of the lock and
  `msleep`, and a burst that met the full queue (`WaitersTold`).  A close leaves no packet
  whose output began after it, and no protocol or AF_INET address but those the kernel did
  not take away or gave during the close (`TornDown`); addresses of other families it
  leaves always.  A deleted interface is in use by nobody (`DeletedUnused`).
  A close gives the lock back, unless a strict kernel waits for an output that waits for
  this lock, or `ifnet_detach` failed (`CloseReturns`).  A type of frames has one entry in
  the table of protocols (`OneTaker`).

### What the violation runs show

`ifname`: tapdemo frees what `tapcfg_get_ifname` only lent.  `unix_wait`: after a read
into too small a buffer `wait_readable` says zero although that frame can be read.
The findings in `PROJECT.json` quote the lines they contradict.

Four more of the code's oddities are transitions of the models that a property allows for,
without a run of their own.  A start whose control socket fails leaves the device open
(`NoControl`, `tapcfg_unix.c:122`).  A stop keeps the frame that is buffered, and a read
after the next start returns it (`StopHandle`, `tapcfg_unix.c:148`).  `tt_gate::exit`
decrements the ticket number, so `tuntap_mgr::shutdown` may take a number that stood still
for a sign that nobody came (`lock.cc:156`, against the comment of `lock.h:87-89`).
`cleanup_interface` leaves the addresses of every family but AF_INET, though its comment
says that it takes all away (`tuntap.cc:434`).

### Fairness

`FairSpec` assumes weak fairness of the reader, of the writer, and of main except
while it sleeps for SIGINT: the scheduler runs threads that can run.  A mutex
that is free is taken by a thread that waits for it, in the model because each
holder lets go for good or waits elsewhere; strong fairness is not assumed.
Nothing is assumed of peers, device or user.  The reader's inner loop looks at
`running` only when no frame is waiting; that traffic pauses comes from the bound on
the device's frames, and is an assumption of the liveness run.

`TuntapDriver` assumes weak fairness of the thread that closes and of the kernel's
detach once nothing holds it up: the first can always run, and the second is a promise
of an `ifnet_detach` that did not fail.  Nothing is assumed of readers, senders or ifconfig.  The Windows
modules state safety only.

## 5. Proofs

Every theorem is for all values of the constants.  Each module proves one inductive
invariant and takes its theorems from that.

`TapServerProofs` (any number of connections, places and frames).  `TypeCorrect`,
`MutualExclusion`, `IndicesInBounds`, `TableWellFormed`, `AcceptedFits` and
`DestroyedLast` follow from `Inductive: Spec => []IInv`.  The invariants are not
inductive alone, so `IInv` adds what they rest on: an index a thread relies on is within
the table only because the other thread is outside its critical section (so
`MutexInv` is needed with `IndexInv`); the table holds only open connections and
each once because the one being added is open and new (`newfd`), and there is room
for it because the test before `select` still holds (`RoomInv`, which follows the
promise from `select` to `add`); and threads live only between start and join
(`LifeInv`).  `TableWellFormed` and `DestroyedLast` state what no run checks by itself:
the table neither overflows nor repeats a descriptor, and nothing is destroyed under a
thread.  `RemoveClientShape` and `TableShrinks` say what the memmove of
`remove_client` does to a table.  On top of `IInv`:

* `FaultyLeave` (`OnlyFaultyLeave`): a step takes out of the table only a client whose peer
  closed or reset, or that announced an impossible size: no index slips to a neighbour.
* `StreamsFramed` (`OutFramed`).  A stream out has an odd number of chunks exactly while a
  thread is between size and payload of that client (`OutInv`); a client whose send
  failed is no longer in the table, so nobody adds to its broken stream.
* `SizesReadAsSizes` (`InFramed`).  The writer is in step with each connection that is in
  the table or may still get into it (`Fresh`, `InPlace` in `InInv`); a removed connection
  is never fresh again, so it does not matter where its stream was left.
* `NobodySkipped` (`DispatchComplete`).  While nobody was removed, everyone before the index
  of a dispatch loop has the frame (`SentInv`), since entries then never move.

`TapServerRelayProofs`: `RelayImplemented`, that the server with its history implements
`Relay`.  `HInv` joins the invariants above with: the log numbers the frames of each
source (`LogInv`); the device delivers in order (`DevInv`); the frame in a dispatch loop is
the last of the log and nobody whose turn is to come has it (`ReaderLatest`,
`WriterLatest`); and the chunks from a client can be numbered so that they continue what
was taken from it (`CountInv`, with the numbering as a sequence that exists).  Then each
step is a `Take`, `Deliver`, `Join`, `Leave` or `Write` of Relay, or a stutter.
`RelayProofs` has `RelayInOrder` and `RelayTotalOrder` for the abstract relay; together
they are the order of frames at the clients of the real server.

`TapcfgUnixProofs` (any interfaces, descriptors, addresses, lengths): `TypeCorrect`,
`DescriptorsOwned` (`HandleCoherent`), `StateMirrored` (`HandleMirrors`) and the action
property `OthersLeftAlone` (`LeavesOthersAlone`), from `HandleInductive`.  It adds to the
invariants only that an interface which is not persistent and has no process is down
(`IdleDown`: so the remembered status 0 of a new handle is true) and that a destroyed
handle is stopped.  `FramesInductive` adds that every MTU leaves room in the buffer
(`MtuFits`), that whatever is queued, buffered or returned is whole (`WholeInv`), and that an
unattached interface has no frames.  It gives
`NoFrameCut` (`FramesWhole`) and `DeviceImplemented`, where
the frames pending in `TapDevice` are the buffer followed by the queue of the interface.

`TapQueueProofs` (any capacity, any elements): the new queue is empty
(`QueueInitEmpty`), a push appends (`QueuePushAppends`), a pop takes the head and leaves
the tail (`QueuePopTakesHead`), and `QueueExtract` takes one item out and keeps the order
of the others (`QueueExtractTakesOut`), for a queue that holds the item at most once: all
that the driver queues are distinct.  They rest on `ContentsSeq` and on the arithmetic of
`QUEUE_ADD_INDEX`, which subtracts the capacity once: an index and an offset within
the capacity stay in the array, and different offsets reach different slots.  The loop of
`QueueExtract` needs the invariant `Extracting` (the part behind the read index is
untouched, the part before the write index is what was kept).  The laws of `Keep` and
`OmitAt` come first in the module; they are proved by induction over sets of numbers
(`NatSetInduction`), because the induction theorems of the library take an operator.

`WinTapDriverProofs` (any packets, reads, programs and capacities):
`DriverTypeCorrect`, `IrpsCompletedOnce`, `CancelTakesEffect`, `OneProgram`,
`StaleWereLate`, `PairsWereLate`, `FreedWhenIdle`, `AllFreed`, from `DriverInductive`.  The
path of packets needs: what is queued is where its program counter says (`QueuesInv`), an
IRP that a transmit took, or that a flush popped, is its own (`PairInv`, `PopInv`), a status is
set exactly when an IRP is neither queued nor in such hands, but for a blind cancel
(`StatusInv`), and only pended IRPs are cancelled (`CancelInv`).  A close and the halt may
flush at once, and only they hold popped IRPs (`FlushersInv`).  The handles need that the
mutex has one holder (`MutexInv`), that until the halt clears it `m_TapOpens` tells whether
one has the device open (`OpensInv`), and that only a create that is between its tests when
the halt clears `m_TapOpens` can open it after that, because later ones find
`m_TapIsRunning` cleared (`SlipInv`).  The halt needs what each part of the life
may hold (`LifeInv`, `HeldInv`) and that after the first sleep no call, after the flush no
queued element and after the second sleep no cancel is left (`QuietInv`).
`PortImplemented` shows the steps to be those of `PacketPort`: a cancel or flush is a
`Leave`, completing an IRP after it was paired is a stutter.

`TapcfgWindowsProofs` (any registry, packets, tunnels and address width):
`TypesCorrect`, `RepliesAreSound`, `HandleIsCoherent`, `ReadIsOutstanding`, from
`LibraryInductive`.  The driver's part (`MasqInv`): a DHCP server that is enabled has a
hardware address and one that the log knows, acknowledgements to bad requests are at most
the bad requests counted, queued replies are sound for the log of this opening, and a
device nobody has open keeps nothing.  The library's part: `BeliefInv` adds to
`HandleCoherent` that a device nobody has open is not connected, which is why a start may
assume status 0; `ReadInv` adds to `ReadOutstanding` that a read that waits keeps the device
open with nothing queued, and that a handle never holds a frame and a read at once.
`ChosenAdapter` shows that whatever the search returns is listed in the registry.
`DeviceImplemented`: the frames pending in `TapDevice` are the one fetched (in the
handle, or in a read that is done) and the driver's queue; a wait only moves a frame
between these, a stop is a `Close` when the driver sees it, which may be later.

`TuntapDriverProofs` (any threads, senders, protocols and sizes): `TypesCorrect`,
`NothingLeft` (`TornDown`), `NothingInUse` (`DeletedUnused`), `TypesTakenOnce` (`OneTaker`) and
`NobodyForgotten` (`WaitersTold`), from `Inductive`.  The gate's
two counts are the threads behind it (`GateInv`), so an empty gate means nobody is left at
shutdown; lock, `open`, the state of the interface and the place of the thread that closes
agree, also when the detach has failed (`LockInv`); no output that began in this opening
outlives it unmarked (`TornInv`); `ConfInv` says what the close in progress has taken away,
slot by slot of the table, and what it spared; `ToldInv` is `WaitersTold` for threads on
their way to sleep as well.

Assumptions are only those on the constants (`ServerAssumption`, `TapcfgAssumption`,
`DriverAssumption`, `MasqAssumption`, `LibraryAssumption`, `TuntapAssumption`), which TLC
evaluates in every run.  They say what kind each constant is; `MasqAssumption` also states
that the powers of two up to `2 ^ AddrBits` are positive numbers, which is arithmetic the
provers lack.

Only model-checked: the liveness properties (`StopReturns`, `FailureStopsThreads`,
`CloseReturns`), which are beyond the prover, what the violation runs show, and what `GetDHCPMessageType` computes,
whose recursion over the options the theorems do not look into: they hold for whatever
type it returns.

## 6. Not modelled

* **libtapcfg on BSD and Solaris, the Solaris driver.**  What they can get wrong lies in
  how a kernel clones devices, links streams and schedules their queues.  The repository
  uses those kernels without showing them, and a model would be one of an invented
  kernel.  The handle above the BSD part is that of `TapcfgUnix`.
* **Prototype daemon.**  A thread that drops what it accepts; `client.c` is called by
  nothing.
* **.NET binding.**  One library call per method and parsers of immutable arrays.
* **Logging, build files, installers, driver tests.**  No behaviour of the running
  system.
* **Within modelled components**: the composition of packets (headers, checksums,
  padding), statistics, NDIS queries, BPF, framing, and what section 3 lists under each
  module.

Undefined behaviour that no state stands for is named here and where it is near a
hazard: reads of memory another call freed, in `CancelIRPCallback` (tapdrvr.c:2722,
which releases the cancel lock with the level stored in an IRP that may be complete),
after a lookup in the instance list (tapdrvr.c:1890), and before the gate of a manager
that is unloaded.

Lesser hazards met while reading, for which no property is stated:

* `tapserver_stop` joins threads that a failed start never created (tapserver.c:376), and
  a failing `accept` ends the writer while `running` stays set (tapserver.c:320): both are
  transitions of `TapServer`.
* `set_ipv4` ignores the result of `tapcfg_ifaddr_ioctl` (tapcfg_unix.c:503).
* `tapcfg_write` on Windows takes a completed wait for an error (tapcfg_windows.c:377);
  the driver of the repository completes every write at once, so the branch is dead.
* `CONFIG_DHCP_MASQ` writes its fields one by one beside `AdapterTransmit`
  (tapdrvr.c:2161); a call is one step in `WinTapMasq`.
* User options that do not fit the reply silence the DHCP server (dhcp.c:359): a
  transition of `WinTapMasq`.
* On OS X the I/O mode a program set stays for the next one (tuntap.cc:728), and `select`
  does not test whether the device is open (tuntap.cc:757).  Both are transitions of
  `TuntapDriver`.
* `client_init` leaves `running` uninitialised (client.c:40), and the prototype daemon
  drops every descriptor it accepts (daemon.c:89).
* `tapcfg_stop_dev` of Solaris returns at the first failing step and leaves the streams
  open (tapcfg_unix_solaris.h:307).
