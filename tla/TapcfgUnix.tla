----------------------------- MODULE TapcfgUnix -----------------------------
(***************************************************************************)
(* The library of src/lib/tapcfg_unix.c on Linux (tapcfg_unix_linux.h): a  *)
(* tapcfg_t, the descriptors of the process and the kernel's interfaces.   *)
(* One caller makes the calls; each is a step, whose system calls may      *)
(* fail, and the kernel acts between calls.                                *)
(*                                                                         *)
(* Abstractions.  A read that would block is a call not made yet.  A frame *)
(* is its number, in the order of arrival at the host, and the length that *)
(* was kept of it.  A set of status flags is a set of names.  The calls    *)
(* that only look at the handle (get_fd, get_ifname, get_hwaddr,           *)
(* get_status, get_mtu) and those that change nothing modelled here        *)
(* (wait_writable, write, set_ipv4) are left out.                          *)
(*                                                                         *)
(* As in TapServer, Slip_... is a plausible mistake in what follows it.    *)
(***************************************************************************)
EXTENDS Integers, Sequences

CONSTANTS
    Names,       \* names of TAP interfaces
    Persistent,  \* those that exist without a process
    Flags,       \* values given to set_status, as sets
    NoName,      \* the empty name
    Macs, NoMac, \* hardware addresses; the one of a handle never started
    Mtus,        \* values given to set_mtu
    Lens,        \* lengths of frames on the wire
    Counts,      \* sizes of the caller's buffers
    BufSize,     \* TAPCFG_BUFSIZE
    MaxFd,       \* descriptors are 0 .. MaxFd
    MaxFrames    \* bound on the frames that arrive

DefaultMtu == 1500
MaxHeader == 22     \* Ethernet with two VLAN tags

ASSUME TapcfgAssumption ==
    /\ {} \in Flags /\ Persistent \subseteq Names
    /\ NoName \notin Names
    /\ BufSize \in Nat /\ DefaultMtu + MaxHeader <= BufSize
    /\ MaxFd \in Nat /\ MaxFrames \in Nat
    /\ Lens \subseteq Nat \ {0} /\ Counts \subseteq Nat /\ Mtus \subseteq Nat

Frame == [n : Nat, len : Nat]
Interface == [fd : -1 .. MaxFd, up : BOOLEAN, mac : Macs \cup {NoMac}, mtu : Nat,
              queue : Seq(Frame)]
CallType == [op : {"wait", "app", "other"}, ret : Int, failed : BOOLEAN]

VARIABLES
    alive,      \* the handle was inited and not destroyed
    started, tap_fd, ctrl_fd, ifname, hwaddr, status,  \* fields of tapcfg_t
    buffer,     \* the frame in buffer[0 .. buflen-1], if buflen is not 0
    fds,        \* the descriptors of the process
    dev,        \* the kernel's TAP interfaces
    arrived,    \* the lengths of the frames that arrived
    taken,      \* the frames that reads returned
    call        \* the latest wait, its result and whether its system call failed,
                \* or "app" for a call the library did not make

handle == <<started, tap_fd, ctrl_fd, ifname, hwaddr, status>>
kernel == <<fds, dev, arrived>>
vars == <<alive, handle, buffer, kernel, taken, call>>

NoCall == [op |-> "other", ret |-> 0, failed |-> FALSE]
NoDev == [fd |-> -1, up |-> FALSE, mac |-> NoMac, mtu |-> DefaultMtu, queue |-> <<>>]

TypeOK ==
    /\ alive \in BOOLEAN /\ started \in BOOLEAN
    /\ tap_fd \in -1 .. MaxFd /\ ctrl_fd \in -1 .. MaxFd
    /\ ifname \in Names \cup {NoName} /\ hwaddr \in Macs \cup {NoMac}
    /\ status \in Flags
    /\ buffer \in Seq(Frame) /\ Len(buffer) <= 1
    /\ fds \in [0 .. MaxFd -> {"free", "app", "tap", "ctrl"}]
    /\ dev \in [Names -> Interface]
    /\ arrived \in Seq(Lens) /\ taken \in Seq(Frame)
    /\ call \in CallType

Returns(op, ret) == call' = [op |-> op, ret |-> ret, failed |-> FALSE]
Other == call' = NoCall
Fails(op, ret) == call' = [op |-> op, ret |-> ret, failed |-> TRUE]

\* tapcfg_init: calloc, then tap_fd = -1.  ctrl_fd stays 0.
Fresh ==
    /\ started' = FALSE /\ tap_fd' = -1 /\ ctrl_fd' = 0
    /\ ifname' = NoName /\ hwaddr' = NoMac /\ status' = {} /\ buffer' = <<>>

\* Descriptor 0 is the caller's standard input.
Init ==
    /\ alive = TRUE /\ started = FALSE /\ tap_fd = -1 /\ ctrl_fd = 0
    /\ ifname = NoName /\ hwaddr = NoMac /\ status = {} /\ buffer = <<>>
    /\ fds = [fd \in 0 .. MaxFd |-> IF fd = 0 THEN "app" ELSE "free"]
    /\ \E mac \in Macs, up \in BOOLEAN :
          dev = [d \in Names |-> IF d \in Persistent
                                 THEN [NoDev EXCEPT !.mac = mac, !.up = up]
                                 ELSE NoDev]
    /\ arrived = <<>> /\ taken = <<>>
    /\ call = NoCall

-----------------------------------------------------------------------------
(* The system calls. *)

\* A new descriptor is any free one: more than the lowest, which the kernel takes.
FreeFds == {fd \in DOMAIN fds : fds[fd] = "free"}

\* The interfaces ioctl(TUNSETIFF) may give: one that is named and has no
\* process attached (else EBUSY), or a new one, named or not.  The second
\* attempt of tapcfg_start_dev, after EINVAL and without a name, adds none.
Attachable == {d \in Names : dev[d].fd = -1}

\* open("/dev/net/tun") and TUNSETIFF; a new interface has a random address.
Attached(d, fd, mac) ==
    [dev EXCEPT ![d].fd = fd, ![d].mac = IF d \in Persistent THEN @ ELSE mac]

\* close(): the interface goes with its descriptor unless it is persistent.
Closed(set) ==
    /\ fds' = [fd \in DOMAIN fds |-> IF fd \in set THEN "free" ELSE fds[fd]]
    /\ dev' = [d \in Names |->
                  IF dev[d].fd \notin set THEN dev[d]
                  ELSE IF d \in Persistent THEN [dev[d] EXCEPT !.fd = -1, !.queue = <<>>]
                  ELSE NoDev]

-----------------------------------------------------------------------------
(* The calls. *)

\* A started handle stays as it is.
StartAgain ==
    /\ alive /\ started /\ Other
    /\ UNCHANGED <<alive, handle, buffer, kernel, taken>>

\* open, TUNSETIFF, the socket for SIOCGIFHWADDR or that ioctl fails: what was
\* opened is closed again.  (The test of that socket is for 0, which open() would
\* have taken before it; the ioctl on -1 fails.)
StartFails ==
    /\ alive /\ ~started /\ Other
    /\ ifname' = NoName /\ tap_fd' = -1
    /\ UNCHANGED <<alive, started, ctrl_fd, hwaddr, status, buffer, kernel, taken>>

\* Slip: tap_fd is set as soon as the device is open.
Slip_NoControl(fd) ==
    /\ fds' = [fds EXCEPT ![fd] = "tap"] /\ tap_fd' = fd
    /\ Other
    /\ UNCHANGED <<started, ctrl_fd, status>>

\* The control socket comes last, and a failure there returns without closing
\* the device.
NoControl(fd) ==
    /\ fds' = [fds EXCEPT ![fd] = "tap"]
    /\ Other
    /\ UNCHANGED <<started, tap_fd, ctrl_fd, status>>

Started(fd, ctrl) ==
    /\ fds' = [fds EXCEPT ![fd] = "tap", ![ctrl] = "ctrl"]
    /\ tap_fd' = fd /\ ctrl_fd' = ctrl /\ started' = TRUE /\ status' = {}
    /\ Other

\* The device is open, attached to an interface and its address is known, for
\* which a second descriptor was free.
Start ==
    /\ alive /\ ~started
    /\ \E d \in Attachable, mac \in Macs, fd, ctrl \in FreeFds :
          /\ fd # ctrl
          /\ dev' = Attached(d, fd, mac)
          /\ ifname' = d /\ hwaddr' = dev'[d].mac
          /\ Started(fd, ctrl) \/ NoControl(fd)
    /\ UNCHANGED <<alive, buffer, arrived, taken>>

\* Slip: the test of started is missing.
Slip_StopHandle ==
    /\ Closed({tap_fd, ctrl_fd})
    /\ tap_fd' = -1 /\ ctrl_fd' = -1 /\ started' = FALSE /\ status' = {}

\* The body of tapcfg_stop.  The buffer keeps its frame.
StopHandle ==
    IF started
    THEN /\ Closed({tap_fd, ctrl_fd})
         /\ tap_fd' = -1 /\ ctrl_fd' = -1 /\ started' = FALSE /\ status' = {}
    ELSE UNCHANGED <<fds, dev, tap_fd, ctrl_fd, started, status>>

Stop ==
    /\ alive /\ StopHandle /\ Other
    /\ UNCHANGED <<alive, ifname, hwaddr, buffer, arrived, taken>>

\* tapcfg_destroy: stop, then free.
Destroy ==
    /\ alive /\ StopHandle /\ Other
    /\ alive' = FALSE /\ buffer' = <<>>
    /\ UNCHANGED <<ifname, hwaddr, arrived, taken>>

Reinit ==
    /\ ~alive /\ alive' = TRUE /\ Fresh /\ Other
    /\ UNCHANGED <<kernel, taken>>

Queue == dev[ifname].queue

\* What FD_ISSET can find after select(): nothing after a timeout only.
Selected == IF Queue # <<>> THEN {1} ELSE {0}

\* Only the descriptor is looked at, not the buffer.
WaitReadable ==
    /\ alive
    /\ IF started
       THEN \/ \E ret \in Selected : Returns("wait", ret)
            \/ Fails("wait", 0)
       ELSE Returns("wait", 0)
    /\ UNCHANGED <<alive, handle, buffer, kernel, taken>>

\* read() cuts a frame at the size of the buffer.
Kept(f) == [f EXCEPT !.len = IF @ > BufSize THEN BufSize ELSE @]

\* Slip: the frame is put behind the one that is buffered.
Slip_Buffered(f, size) ==
    /\ Other
    /\ IF size < f.len
       THEN buffer' = Append(buffer, f) /\ UNCHANGED taken
       ELSE buffer' = <<>> /\ taken' = Append(taken, f)

\* Slip: the frame is dropped when it does not fit.
Slip_Delivered(f, size) ==
    /\ Other /\ buffer' = <<>>
    /\ taken' = IF size < f.len THEN taken ELSE Append(taken, f)

\* The frame goes to the caller, or stays buffered for a larger buffer.
Delivered(f, size) ==
    /\ Other
    /\ IF size < f.len
       THEN buffer' = <<f>> /\ UNCHANGED taken
       ELSE buffer' = <<>> /\ taken' = Append(taken, f)

Read(size) ==
    /\ alive /\ started
    /\ \/ /\ buffer # <<>>
          /\ Delivered(buffer[1], size) /\ UNCHANGED dev
       \/ /\ buffer = <<>> /\ Queue # <<>>
          /\ Delivered(Kept(Head(Queue)), size)
          /\ dev' = [dev EXCEPT ![ifname].queue = Tail(@)]
    /\ UNCHANGED <<alive, handle, fds, arrived>>

\* Only while the interface is down, and if the ioctl succeeds.
SetHwaddr(mac) ==
    /\ alive /\ started /\ status = {} /\ Other
    /\ dev' = [dev EXCEPT ![ifname].mac = mac] /\ hwaddr' = mac
    /\ UNCHANGED <<alive, started, tap_fd, ctrl_fd, ifname, status, buffer, fds,
                   arrived, taken>>

\* Slip: status is set before the ioctls.
Slip_SetStatus(flags) ==
    /\ alive /\ started /\ flags # status /\ Other
    /\ dev' \in {dev, [dev EXCEPT ![ifname].up = flags # {}]} /\ status' = flags
    /\ UNCHANGED <<alive, started, tap_fd, ctrl_fd, ifname, hwaddr, buffer, fds,
                   arrived, taken>>

\* IFF_UP follows the flags, once both ioctls succeed.
SetStatus(flags) ==
    /\ alive /\ started /\ flags # status /\ Other
    /\ dev' = [dev EXCEPT ![ifname].up = flags # {}] /\ status' = flags
    /\ UNCHANGED <<alive, started, tap_fd, ctrl_fd, ifname, hwaddr, buffer, fds,
                   arrived, taken>>

\* Slip: no room is left for the header.
Slip_LegalMtu(mtu) == mtu \in 68 .. BufSize
LegalMtu(mtu) == mtu \in 68 .. BufSize - MaxHeader

SetMtu(mtu) ==
    /\ alive /\ started /\ LegalMtu(mtu) /\ Other
    /\ dev' = [dev EXCEPT ![ifname].mtu = mtu]
    /\ UNCHANGED <<alive, handle, buffer, fds, arrived, taken>>

\* A read, or a call that sets something, that a guard turns away or whose
\* system call fails.
NoEffect ==
    /\ alive /\ Other
    /\ UNCHANGED <<alive, handle, buffer, kernel, taken>>

Calls ==
    \/ StartAgain \/ StartFails \/ Start \/ Stop \/ Destroy \/ Reinit
    \/ WaitReadable \/ NoEffect
    \/ \E size \in Counts : Read(size)
    \/ \E mac \in Macs : SetHwaddr(mac)
    \/ \E flags \in Flags : SetStatus(flags)
    \/ \E mtu \in Mtus : SetMtu(mtu)

-----------------------------------------------------------------------------
(* The rest of the process, and the kernel. *)

AppOpen ==
    /\ \E fd \in FreeFds : fds' = [fds EXCEPT ![fd] = "app"]
    /\ Returns("app", 0)
    /\ UNCHANGED <<alive, handle, buffer, dev, arrived, taken>>

AppClose(fd) ==
    /\ fds[fd] = "app" /\ fds' = [fds EXCEPT ![fd] = "free"]
    /\ Returns("app", 0)
    /\ UNCHANGED <<alive, handle, buffer, dev, arrived, taken>>

\* The host sends a frame out of an interface that is up and attached.
Arrive(d, len) ==
    /\ dev[d].fd # -1 /\ dev[d].up
    /\ Len(arrived) < MaxFrames /\ len <= dev[d].mtu + MaxHeader
    /\ arrived' = Append(arrived, len)
    /\ dev' = [dev EXCEPT ![d].queue = Append(@, [n |-> Len(arrived'), len |-> len])]
    /\ UNCHANGED <<alive, handle, buffer, fds, taken, call>>

World ==
    \/ AppOpen
    \/ \E fd \in 0 .. MaxFd : AppClose(fd)
    \/ \E d \in Names, len \in Lens : Arrive(d, len)

Next == Calls \/ World

Spec == Init /\ [][Next]_vars

-----------------------------------------------------------------------------
(* Safety. *)

\* A call never closes a descriptor the library did not open: neither the
\* ctrl_fd = 0 that calloc left in a new handle nor a number that was closed
\* and is now the application's.
LeavesOthersAlone ==
    [][call'.op # "app" => \A fd \in DOMAIN fds : fds[fd] = "app" => fds'[fd] = "app"]_vars

\* The descriptors of a started handle are open, of the right kind and attached
\* to the interface it names; a handle that is not started holds no device.
HandleCoherent ==
    /\ started => /\ tap_fd # -1 /\ fds[tap_fd] = "tap"
                  /\ ctrl_fd # -1 /\ fds[ctrl_fd] = "ctrl"
                  /\ ifname \in Names /\ dev[ifname].fd = tap_fd
    /\ ~started => tap_fd = -1 /\ status = {}

\* What the handle remembers of the interface is what the kernel has, failed
\* ioctls and restarts included.  (A persistent interface may be up when a
\* start sets status to ALL_DOWN.)
HandleMirrors ==
    started => /\ hwaddr = dev[ifname].mac
               /\ ifname \notin Persistent => (status # {} <=> dev[ifname].up)

\* No frame is cut: an MTU that set_mtu accepts leaves room for the header.
FramesWhole == \A k \in 1 .. Len(taken) : taken[k].len = arrived[taken[k].n]

Numbers(seq) == [k \in 1 .. Len(seq) |-> seq[k].n]
D == INSTANCE TapDevice WITH
        open <- started, count <- Len(arrived), taken <- Numbers(taken),
        pending <- Numbers(IF started THEN buffer \o Queue ELSE buffer)
\* Reads hand out the frames of the interface in order, each once, none lost:
\* not by a read into too small a buffer, nor by a stop and a start.
ImplementsDevice == D!DeviceSpec

-----------------------------------------------------------------------------
(* A promise of tapcfg.h that the code does not keep. *)

\* wait_readable answers zero only if there is nothing to read.  (A frame that
\* did not fit the caller's buffer is there, and select() does not know it.)
WaitTells ==
    call.op = "wait" /\ call.ret = 0 /\ ~call.failed /\ started => buffer = <<>>
=============================================================================
