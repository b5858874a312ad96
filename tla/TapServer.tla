------------------------------ MODULE TapServer ------------------------------
(***************************************************************************)
(* The tapserver of src/daemon/tapserver.c as tapdemo.c drives it: a       *)
(* reader thread that copies frames from the TAP device to every client, a *)
(* writer thread that selects on the sockets, accepts clients and copies   *)
(* their frames to the device (or, without a device, to the other          *)
(* clients), and the main thread that starts, stops and destroys them.     *)
(*                                                                         *)
(* Abstractions.  A connection stands for its descriptor: remove_client    *)
(* never closes one, so a descriptor is never reused.  The wire carries    *)
(* two chunks a frame, its two-byte size and its payload, because those    *)
(* are the units recv_data and send_data move; the bytes of a payload are  *)
(* left out.  The critical sections of run_mutex contain one read or one   *)
(* write and never block, so each is one step.  Indices start at 1, and a  *)
(* local returns to its initial value where the code is done with it.      *)
(*                                                                         *)
(* A definition named Slip_... is a plausible mistake in the definition    *)
(* that follows it; no specification uses it.  Each shows that a property  *)
(* would notice the mistake.                                               *)
(***************************************************************************)
EXTENDS Integers, Sequences, FiniteSets

CONSTANTS
    Conns,       \* the TCP connections that may be made
    Dev,         \* the source of the frames read from the TAP device
    Modes,       \* the values of argv[1] considered
    MaxClients,  \* MAX_CLIENTS
    BufSize,     \* sizeof(buf) in both threads
    PeerMoves,   \* what peers do besides sending
    PeerLens,    \* sizes a peer may announce
    DevLens,     \* sizes of the frames the device may deliver
    MaxPeerFrames, MaxDevFrames   \* bounds on the frames of one source

Server == "server_fd"

ASSUME ServerAssumption ==
    /\ Dev \notin Conns /\ Server \notin Conns
    /\ Modes \subseteq {"server", "client", "forwarder"}
    /\ MaxClients \in Nat \ {0}
    /\ BufSize \in Nat /\ BufSize < 65536
    /\ PeerMoves \subseteq {"fin", "rst", "stall"}
    /\ PeerLens \subseteq Nat /\ \A len \in PeerLens : len < 65536
    /\ DevLens \subseteq 1 .. BufSize
    /\ MaxPeerFrames \in Nat /\ MaxDevFrames \in Nat

Frame == [src : Conns \cup {Dev}, n : Nat, len : Nat]
NoFrame == [src |-> Dev, n |-> 0, len |-> 0]
Chunk == [kind : {"size"}, bytes : (0 .. 255) \X (0 .. 255)]
         \cup [kind : {"data"}, frame : Frame]

\* Slip: the bytes in host order.
Slip_SizeBuf(len) == <<len % 256, (len \div 256) % 256>>

\* The two bytes that precede a payload, and the size they announce.
SizeBuf(len) == <<(len \div 256) % 256, len % 256>>
SizeOf(bytes) == bytes[1] * 256 + bytes[2]
SizeChunk(f) == [kind |-> "size", bytes |-> SizeBuf(f.len)]
DataChunk(f) == [kind |-> "data", frame |-> f]

Free == "free"

VARIABLES
    mode,       \* argv[1] of tapdemo
    proc,       \* the process: "up", or ended by a "signal" or a "crash"
    mpc, rpc, wpc,                   \* where main, reader and writer are
    running, joined, serversock,     \* fields of tapserver_t
    mutex, clienttab,
    ri, rbuf,                        \* locals of reader_thread
    wi, wj, wbuf, wset, rfds, newfd, \* locals of writer_thread
    conn, peer, in, out, nsent, owed, \* the connections and their peers
    devin, devout, ndev              \* the TAP device

HasTap == mode # "forwarder"
Listening == mode # "client"

Up == proc = "up" /\ mpc # "exit"

mainVars == <<mpc, joined, serversock>>
readerVars == <<rpc, ri, rbuf>>
writerVars == <<wpc, wi, wj, wbuf, wset, rfds, newfd>>
peerVars == <<peer, nsent, owed>>
devVars == <<devin, devout, ndev>>
scanVars == <<wi, wj, wbuf>>
selVars == <<wset, rfds, newfd>>
sockVars == <<conn, in, out>>
\* What no step of the reader, the writer, main or the environment changes.
notReader == <<mode, mainVars, writerVars, running, conn, peerVars, in, devout, ndev>>
notWriter == <<mode, mainVars, readerVars, peerVars, devin, ndev>>
notMain == <<mode, ri, rbuf, scanVars, selVars, mutex, peerVars, in, out, devVars>>
system == <<mode, proc, mainVars, readerVars, writerVars, running, mutex, clienttab,
            devout>>
vars == <<mode, proc, mainVars, readerVars, writerVars, running, mutex, clienttab,
          conn, peerVars, in, out, devVars>>

MainTypeOK ==
    /\ mode \in Modes /\ proc \in {"up", "signal", "crash"}
    /\ mpc \in {"connect", "start", "create_r", "create_w", "run", "stop",
                "join_r", "join_w", "close", "destroy", "exit"}
    /\ running \in BOOLEAN /\ joined \in BOOLEAN
    /\ serversock \in {"null", "open", "freed"}
    /\ mutex \in {Free, "reader", "writer"}
    /\ clienttab \in Seq(Conns)

ThreadTypeOK ==
    /\ rpc \in {"none", "wait", "lock", "size", "data", "check", "done"}
    /\ wpc \in {"none", "build", "select", "lock", "scan", "body", "write",
                "fsize", "fdata", "spin", "accept", "add", "check", "done"}
    /\ ri \in Nat \ {0} /\ rbuf \in Frame
    /\ wi \in Nat \ {0} /\ wj \in Nat \ {0} /\ wbuf \in Frame
    /\ wset \subseteq Conns \cup {Server} /\ rfds \subseteq Conns \cup {Server}
    /\ newfd \in Conns \cup {Server}

ConnTypeOK ==
    /\ conn \in [Conns -> {"none", "backlog", "open"}]
    /\ peer \in [Conns -> {"up", "fin", "rst", "stall"}]
    /\ in \in [Conns -> Seq(Chunk)] /\ out \in [Conns -> Seq(Chunk)]
    /\ nsent \in [Conns -> Nat] /\ owed \in [Conns -> Frame]
    /\ devin \in Seq(Frame) /\ devout \in Seq(Frame) /\ ndev \in Nat

TypeOK == MainTypeOK /\ ThreadTypeOK /\ ConnTypeOK

Init ==
    /\ mode \in Modes /\ proc = "up"
    /\ mpc = IF mode = "client" THEN "connect" ELSE "start"
    /\ rpc = "none" /\ wpc = "none"
    /\ running = FALSE /\ joined = FALSE /\ serversock = "null"
    /\ mutex = Free /\ clienttab = <<>>
    /\ ri = 1 /\ rbuf = NoFrame
    /\ wi = 1 /\ wj = 1 /\ wbuf = NoFrame
    /\ wset = {} /\ rfds = {} /\ newfd = Server
    /\ conn = [c \in Conns |-> "none"] /\ peer = [c \in Conns |-> "up"]
    /\ in = [c \in Conns |-> <<>>] /\ out = [c \in Conns |-> <<>>]
    /\ nsent = [c \in Conns |-> 0] /\ owed = [c \in Conns |-> NoFrame]
    /\ devin = <<>> /\ devout = <<>> /\ ndev = 0

-----------------------------------------------------------------------------
(* The client table and the sockets. *)

\* MUTEX_LOCK and MUTEX_UNLOCK of server->mutex.
\* Slip: the lock does not exclude anybody.
Slip_Lock(thread) == mutex' = thread
Lock(thread) == mutex = Free /\ mutex' = thread
\* Slip: an exit path that keeps the mutex.
Slip_Unlock == UNCHANGED mutex
Unlock == mutex' = Free

\* Slip: off by one at the full table.
Slip_Room(tab) == Len(tab) <= MaxClients
Room(tab) == Len(tab) < MaxClients

\* tapserver_add_client, with the mutex held: a full table refuses the client.
AddClient(tab, c) == IF Room(tab) THEN Append(tab, c) ELSE tab

\* Slip: source and destination of the memmove exchanged.
Slip_RemoveClient(tab, idx) ==
    [k \in 1 .. Len(tab) - 1 |-> IF k <= idx THEN tab[k] ELSE tab[k - 1]]

\* remove_client: the memmove closes the gap, the descriptor stays open.
RemoveClient(tab, idx) ==
    [k \in 1 .. Len(tab) - 1 |-> IF k < idx THEN tab[k] ELSE tab[k + 1]]

\* send(): buffered while the peer's window is open.  After the peer closed, a
\* send still goes out, or fails: with -1 on Windows, with SIGPIPE, which
\* nothing handles, elsewhere.
Send(c, chunk) ==
    /\ peer[c] \in {"up", "fin"}
    /\ out' = [out EXCEPT ![c] = Append(@, chunk)]
SendFails(c) == peer[c] \in {"fin", "rst"}
SendSignals(c) == peer[c] = "fin"

\* What select() reports: bytes, end of file, or an error to be read.
Readable(c) == in[c] # <<>> \/ peer[c] \in {"fin", "rst"}
Backlog == {c \in Conns : conn[c] = "backlog"}
Ready(fd) == IF fd = Server THEN Backlog # {} ELSE Readable(fd)

\* A loop ends once it finds running cleared, under run_mutex.
\* Slip: running is not looked at.
Slip_Recheck(again) == again
Recheck(again) == IF running THEN again ELSE "done"

-----------------------------------------------------------------------------
(* reader_thread *)

\* tapcfg_wait_readable and tapcfg_read return a frame.
RRead ==
    /\ Up /\ rpc = "wait" /\ devin # <<>>
    /\ rbuf' = Head(devin) /\ devin' = Tail(devin)
    /\ rpc' = "lock"
    /\ UNCHANGED <<notReader, proc, ri, mutex, clienttab, out>>

\* The wait times out, or the read fails and the inner loop breaks.
RNothing ==
    /\ Up /\ rpc = "wait" /\ rpc' = "check"
    /\ UNCHANGED <<notReader, proc, ri, rbuf, mutex, clienttab, out, devin>>

RLock ==
    /\ Up /\ rpc = "lock" /\ Lock("reader")
    /\ ri' = 1 /\ rpc' = "size"
    /\ UNCHANGED <<notReader, proc, rbuf, clienttab, out, devin>>

RSendSize ==
    /\ Up /\ rpc = "size" /\ ri <= Len(clienttab)
    /\ Send(clienttab[ri], SizeChunk(rbuf))
    /\ rpc' = "data"
    /\ UNCHANGED <<notReader, proc, ri, rbuf, mutex, clienttab, devin>>

\* Slip: the loop does not advance.
Slip_RSendData ==
    /\ Up /\ rpc = "data"
    /\ Send(clienttab[ri], DataChunk(rbuf))
    /\ rpc' = "size" /\ ri' = ri
    /\ UNCHANGED <<notReader, proc, rbuf, mutex, clienttab, devin>>

RSendData ==
    /\ Up /\ rpc = "data"
    /\ Send(clienttab[ri], DataChunk(rbuf))
    /\ rpc' = "size" /\ ri' = ri + 1
    /\ UNCHANGED <<notReader, proc, rbuf, mutex, clienttab, devin>>

\* Either send fails: the client goes and the loop's i++ still happens.
RSendFail ==
    /\ Up /\ rpc \in {"size", "data"} /\ ri <= Len(clienttab)
    /\ SendFails(clienttab[ri])
    /\ clienttab' = RemoveClient(clienttab, ri)
    /\ rpc' = "size" /\ ri' = ri + 1
    /\ UNCHANGED <<notReader, proc, rbuf, mutex, out, devin>>

RSigpipe ==
    /\ Up /\ rpc \in {"size", "data"} /\ ri <= Len(clienttab)
    /\ SendSignals(clienttab[ri])
    /\ proc' = "signal"
    /\ UNCHANGED <<notReader, rpc, ri, rbuf, mutex, clienttab, out, devin>>

RUnlock ==
    /\ Up /\ rpc = "size" /\ ri > Len(clienttab)
    /\ Unlock /\ rpc' = "wait" /\ ri' = 1 /\ rbuf' = NoFrame
    /\ UNCHANGED <<notReader, proc, clienttab, out, devin>>

RCheck ==
    /\ Up /\ rpc = "check"
    /\ rpc' = Recheck("wait")
    /\ UNCHANGED <<notReader, proc, ri, rbuf, mutex, clienttab, out, devin>>

Reader == \/ RRead \/ RNothing \/ RLock \/ RSendSize \/ RSendData
          \/ RSendFail \/ RSigpipe \/ RUnlock \/ RCheck

-----------------------------------------------------------------------------
(* writer_thread *)

\* The set given to select() is built under the mutex; an empty one ends the
\* thread.
WBuild ==
    /\ Up /\ wpc = "build" /\ mutex = Free
    /\ wset' = (IF Listening /\ Room(clienttab) THEN {Server} ELSE {})
                \cup {clienttab[k] : k \in 1 .. Len(clienttab)}
    /\ wpc' = IF wset' = {} THEN "done" ELSE "select"
    /\ UNCHANGED <<notWriter, proc, scanVars, rfds, newfd, running, mutex, clienttab,
                   sockVars, devout>>

\* select() returns the ready descriptors, none of them after waitms.
WSelect ==
    /\ Up /\ wpc = "select"
    /\ rfds' = {fd \in wset : Ready(fd)}
    /\ wset' = {} /\ wpc' = "lock"
    /\ UNCHANGED <<notWriter, proc, scanVars, newfd, running, mutex, clienttab,
                   sockVars, devout>>

\* select() fails (the SIGINT that stops tapdemo may interrupt it).
WSelectFail ==
    /\ Up /\ wpc = "select" /\ wset' = {} /\ wpc' = "done"
    /\ UNCHANGED <<notWriter, proc, scanVars, rfds, newfd, running, mutex, clienttab,
                   sockVars, devout>>

WLock ==
    /\ Up /\ wpc = "lock" /\ Lock("writer")
    /\ wi' = 1 /\ wpc' = "scan"
    /\ UNCHANGED <<notWriter, proc, wj, wbuf, selVars, running, clienttab, sockVars,
                   devout>>

WSkip ==
    /\ Up /\ wpc = "scan" /\ wi <= Len(clienttab) /\ clienttab[wi] \notin rfds
    /\ wi' = wi + 1
    /\ UNCHANGED <<notWriter, proc, wpc, wj, wbuf, selVars, running, mutex, clienttab,
                   sockVars, devout>>

\* The client the scan is at, and whether it is one select() reported.
Current == clienttab[wi]
AtReady == wi <= Len(clienttab) /\ Current \in rfds

\* Slip: no test against sizeof(buf).
Slip_LegalSize(len) == len > 0
LegalSize(len) == len \in 1 .. BufSize

\* The size arrived.  A size of 0 makes the second recv_data return 0, one
\* above BufSize is turned into -1; both remove the client.
WRecvSize ==
    /\ Up /\ wpc = "scan" /\ AtReady
    /\ in[Current] # <<>> /\ Head(in[Current]).kind = "size"
    /\ in' = [in EXCEPT ![Current] = Tail(@)]
    /\ LET len == SizeOf(Head(in[Current]).bytes) IN
       IF LegalSize(len)
       THEN wpc' = "body" /\ UNCHANGED <<wi, clienttab>>
       ELSE /\ clienttab' = RemoveClient(clienttab, wi)
            /\ wi' = wi + 1 /\ wpc' = "scan"
    /\ UNCHANGED <<notWriter, proc, wj, wbuf, selVars, running, mutex, conn, out,
                   devout>>

\* recv_data blocks, with the mutex held, until the payload is complete.
WRecvData ==
    /\ Up /\ wpc = "body" /\ in[Current] # <<>>
    /\ Head(in[Current]).kind = "data"
    /\ wbuf' = Head(in[Current]).frame
    /\ in' = [in EXCEPT ![Current] = Tail(@)]
    /\ wpc' = (IF HasTap THEN "write" ELSE "fsize") /\ wj' = 1
    /\ UNCHANGED <<notWriter, proc, wi, selVars, running, mutex, clienttab, conn, out,
                   devout>>

\* recv() returns -1.
WRecvFail ==
    /\ Up
    /\ \/ wpc = "scan" /\ AtReady
       \/ wpc = "body"
    /\ peer[Current] = "rst"
    /\ clienttab' = RemoveClient(clienttab, wi)
    /\ wi' = wi + 1 /\ wpc' = "scan"
    /\ UNCHANGED <<notWriter, proc, wj, wbuf, selVars, running, mutex, sockVars,
                   devout>>

\* recv() returns 0 at end of file: recv_data adds 0 and tries again.
WRecvEof ==
    /\ Up
    /\ \/ wpc = "scan" /\ AtReady
       \/ wpc = "body"
    /\ in[Current] = <<>> /\ peer[Current] = "fin"
    /\ wpc' = "spin"
    /\ UNCHANGED <<notWriter, proc, scanVars, selVars, running, mutex, clienttab,
                   sockVars, devout>>

WSpin == wpc = "spin" /\ UNCHANGED vars

WWrite ==
    /\ Up /\ wpc = "write"
    /\ devout' = Append(devout, wbuf)
    /\ wbuf' = NoFrame /\ wi' = wi + 1 /\ wpc' = "scan"
    /\ UNCHANGED <<notWriter, proc, wj, selVars, running, mutex, clienttab, sockVars>>

\* tapcfg_write fails: running is cleared under both mutexes.
WWriteFail ==
    /\ Up /\ wpc = "write"
    /\ running' = FALSE /\ Unlock /\ wpc' = "done"
    /\ wi' = 1 /\ wbuf' = NoFrame /\ rfds' = {}
    /\ UNCHANGED <<notWriter, proc, wj, wset, newfd, clienttab, sockVars, devout>>

\* Slip: break instead of continue.
Slip_WFwdSelf ==
    /\ Up /\ wpc = "fsize" /\ wj <= Len(clienttab) /\ wj = wi
    /\ wj' = Len(clienttab) + 1
    /\ UNCHANGED <<notWriter, proc, wpc, wi, wbuf, selVars, running, mutex, clienttab,
                   sockVars, devout>>

\* Without a device the frame goes to every entry but the one at index wi.
WFwdSelf ==
    /\ Up /\ wpc = "fsize" /\ wj <= Len(clienttab) /\ wj = wi
    /\ wj' = wj + 1
    /\ UNCHANGED <<notWriter, proc, wpc, wi, wbuf, selVars, running, mutex, clienttab,
                   sockVars, devout>>

WFwdSize ==
    /\ Up /\ wpc = "fsize" /\ wj <= Len(clienttab) /\ wj # wi
    /\ Send(clienttab[wj], SizeChunk(wbuf))
    /\ wpc' = "fdata"
    /\ UNCHANGED <<notWriter, proc, scanVars, selVars, running, mutex, clienttab, conn,
                   in, devout>>

\* Slip: the loop does not advance.
Slip_WFwdData ==
    /\ Up /\ wpc = "fdata"
    /\ Send(clienttab[wj], DataChunk(wbuf))
    /\ wpc' = "fsize" /\ wj' = wj
    /\ UNCHANGED <<notWriter, proc, wi, wbuf, selVars, running, mutex, clienttab, conn,
                   in, devout>>

WFwdData ==
    /\ Up /\ wpc = "fdata"
    /\ Send(clienttab[wj], DataChunk(wbuf))
    /\ wpc' = "fsize" /\ wj' = wj + 1
    /\ UNCHANGED <<notWriter, proc, wi, wbuf, selVars, running, mutex, clienttab, conn,
                   in, devout>>

AtForward ==
    \/ wpc = "fsize" /\ wj <= Len(clienttab) /\ wj # wi
    \/ wpc = "fdata"

\* remove_client(j) also moves the sender when j < i; i and j go on as if not.
WFwdFail ==
    /\ Up /\ AtForward /\ SendFails(clienttab[wj])
    /\ clienttab' = RemoveClient(clienttab, wj)
    /\ wpc' = "fsize" /\ wj' = wj + 1
    /\ UNCHANGED <<notWriter, proc, wi, wbuf, selVars, running, mutex, sockVars,
                   devout>>

WSigpipe ==
    /\ Up /\ AtForward /\ SendSignals(clienttab[wj])
    /\ proc' = "signal"
    /\ UNCHANGED <<notWriter, wpc, scanVars, selVars, running, mutex, clienttab,
                   sockVars, devout>>

WFwdEnd ==
    /\ Up /\ wpc = "fsize" /\ wj > Len(clienttab)
    /\ wj' = 1 /\ wbuf' = NoFrame /\ wi' = wi + 1 /\ wpc' = "scan"
    /\ UNCHANGED <<notWriter, proc, selVars, running, mutex, clienttab, sockVars,
                   devout>>

WUnlock ==
    /\ Up /\ wpc = "scan" /\ wi > Len(clienttab)
    /\ Unlock /\ wi' = 1 /\ rfds' = {}
    /\ wpc' = IF Listening /\ Server \in rfds THEN "accept" ELSE "check"
    /\ UNCHANGED <<notWriter, proc, wj, wbuf, wset, newfd, running, clienttab, sockVars,
                   devout>>

\* Slip: the result of accept() is not stored.
Slip_WAccept ==
    /\ Up /\ wpc = "accept"
    /\ \E c \in Backlog : newfd' = newfd /\ conn' = [conn EXCEPT ![c] = "open"]
    /\ wpc' = "add"
    /\ UNCHANGED <<notWriter, proc, scanVars, wset, rfds, running, mutex, clienttab, in,
                   out, devout>>

\* serversock_accept takes a connection from the backlog.
WAccept ==
    /\ Up /\ wpc = "accept"
    /\ \E c \in Backlog : newfd' = c /\ conn' = [conn EXCEPT ![c] = "open"]
    /\ wpc' = "add"
    /\ UNCHANGED <<notWriter, proc, scanVars, wset, rfds, running, mutex, clienttab, in,
                   out, devout>>

\* serversock_accept fails: the thread ends while running stays set.
WAcceptFail ==
    /\ Up /\ wpc = "accept" /\ wpc' = "done"
    /\ UNCHANGED <<notWriter, proc, scanVars, selVars, running, mutex, clienttab,
                   sockVars, devout>>

\* The result of tapserver_add_client is ignored.
WAdd ==
    /\ Up /\ wpc = "add" /\ mutex = Free
    /\ clienttab' = AddClient(clienttab, newfd)
    /\ newfd' = Server /\ wpc' = "check"
    /\ UNCHANGED <<notWriter, proc, scanVars, wset, rfds, running, mutex, sockVars,
                   devout>>

WCheck ==
    /\ Up /\ wpc = "check"
    /\ wpc' = Recheck("build")
    /\ UNCHANGED <<notWriter, proc, scanVars, selVars, running, mutex, clienttab,
                   sockVars, devout>>

Writer == \/ WBuild \/ WSelect \/ WSelectFail \/ WLock \/ WSkip \/ WRecvSize
          \/ WRecvData \/ WRecvFail \/ WRecvEof \/ WSpin \/ WWrite
          \/ WWriteFail \/ WFwdSelf \/ WFwdSize \/ WFwdData \/ WFwdFail
          \/ WSigpipe \/ WFwdEnd \/ WUnlock \/ WAccept \/ WAcceptFail
          \/ WAdd \/ WCheck

-----------------------------------------------------------------------------
(* The main thread: main() of tapdemo.c with tapserver_start, _stop, _destroy *)

\* The client mode connects before it starts; without a connection main goes
\* straight to the exit label.
MConnect ==
    /\ Up /\ mpc = "connect"
    /\ \/ \E c \in Conns :
             /\ conn' = [conn EXCEPT ![c] = "open"]
             /\ clienttab' = AddClient(clienttab, c)
             /\ mpc' = "start"
       \/ mpc' = "stop" /\ UNCHANGED <<conn, clienttab>>
    /\ UNCHANGED <<notMain, proc, joined, serversock, rpc, wpc, running>>

\* With a device, main frees the name that tapcfg_get_ifname returned, which
\* lies inside tapcfg_t: undefined, nothing happens or the process is aborted.
MFreeIfname ==
    /\ Up /\ mpc = "start" /\ HasTap /\ proc' = "crash"
    /\ UNCHANGED <<notMain, mainVars, rpc, wpc, running, clienttab, conn>>

MStart ==
    /\ Up /\ mpc = "start"
    /\ serversock' = IF Listening THEN "open" ELSE serversock
    /\ running' = TRUE /\ joined' = FALSE /\ mpc' = "create_r"
    /\ UNCHANGED <<notMain, proc, rpc, wpc, clienttab, conn>>

\* serversock_tcp fails: tapserver_start returns -1 before any thread exists.
MStartFail ==
    /\ Up /\ mpc = "start" /\ Listening /\ mpc' = "stop"
    /\ UNCHANGED <<notMain, proc, joined, serversock, rpc, wpc, running, clienttab,
                   conn>>

\* THREAD_CREATE may fail, which nobody notices.  A reader without a device
\* returns at once.
MCreateReader ==
    /\ Up /\ mpc = "create_r" /\ mpc' = "create_w"
    /\ rpc' \in {"none", IF HasTap THEN "wait" ELSE "done"}
    /\ UNCHANGED <<notMain, proc, joined, serversock, wpc, running, clienttab, conn>>

MCreateWriter ==
    /\ Up /\ mpc = "create_w" /\ mpc' = "run"
    /\ wpc' \in {"none", "build"}
    /\ UNCHANGED <<notMain, proc, joined, serversock, rpc, running, clienttab, conn>>

\* tapserver_stop, up to the joins: after SIGINT, or from the exit label of a
\* start that failed.
MStop ==
    /\ Up /\ mpc \in {"run", "stop"} /\ ~joined
    /\ running' = FALSE /\ joined' = TRUE /\ mpc' = "join_r"
    /\ UNCHANGED <<notMain, proc, serversock, rpc, wpc, clienttab, conn>>

Joinable(pc) == pc \in {"none", "done"}

\* THREAD_JOIN of a thread that was never created is undefined: it returns an
\* error, or takes the process down.
MJoin(pc, here, next) ==
    /\ Up /\ mpc = here
    /\ \/ Joinable(pc) /\ mpc' = next /\ UNCHANGED proc
       \/ pc = "none" /\ proc' = "crash" /\ UNCHANGED mpc
    /\ UNCHANGED <<notMain, joined, serversock, rpc, wpc, running, clienttab, conn>>
MJoinReader == MJoin(rpc, "join_r", "join_w")
MJoinWriter == MJoin(wpc, "join_w", "close")

\* serversock_destroy closes the socket of a listening server.
MClose ==
    /\ Up /\ mpc = "close" /\ mpc' = "destroy"
    /\ serversock' = IF serversock = "open" THEN "freed" ELSE serversock
    /\ UNCHANGED <<notMain, proc, joined, rpc, wpc, running, clienttab, conn>>

\* tapserver_destroy and tapcfg_destroy; main returns.
MDestroy ==
    /\ Up /\ mpc = "destroy" /\ mpc' = "exit"
    /\ UNCHANGED <<notMain, proc, joined, serversock, rpc, wpc, running, clienttab,
                   conn>>

Main == \/ MConnect \/ MFreeIfname \/ MStart \/ MStartFail \/ MCreateReader
        \/ MCreateWriter \/ MStop \/ MJoinReader \/ MJoinWriter
        \/ MClose \/ MDestroy

-----------------------------------------------------------------------------
(* The peers and the network stack behind the TAP device. *)

PConnect(c) ==
    /\ Up /\ serversock = "open" /\ conn[c] = "none"
    /\ conn' = [conn EXCEPT ![c] = "backlog"]
    /\ UNCHANGED <<system, peerVars, in, out, devin, ndev>>

\* A peer announces a frame, then sends its payload; in between it owes it.
PSendSize(c, len) ==
    /\ Up /\ conn[c] # "none" /\ peer[c] \in {"up", "stall"}
    /\ owed[c] = NoFrame /\ nsent[c] < MaxPeerFrames
    /\ LET f == [src |-> c, n |-> nsent[c] + 1, len |-> len] IN
       /\ in' = [in EXCEPT ![c] = Append(@, SizeChunk(f))]
       /\ owed' = [owed EXCEPT ![c] = IF len = 0 THEN NoFrame ELSE f]
    /\ nsent' = [nsent EXCEPT ![c] = @ + 1]
    /\ UNCHANGED <<system, conn, peer, out, devin, ndev>>

PSendData(c) ==
    /\ Up /\ peer[c] \in {"up", "stall"} /\ owed[c] # NoFrame
    /\ in' = [in EXCEPT ![c] = Append(@, DataChunk(owed[c]))]
    /\ owed' = [owed EXCEPT ![c] = NoFrame]
    /\ UNCHANGED <<system, conn, peer, nsent, out, devin, ndev>>

\* A peer closes, resets, or stops reading until it does.
PMove(c) ==
    /\ Up /\ conn[c] # "none"
    /\ peer[c] \in {"up", "stall"}
    /\ \E m \in PeerMoves \ {peer[c]} :
          peer' = [peer EXCEPT ![c] = m]
    /\ UNCHANGED <<system, sockVars, nsent, owed, devin, ndev>>

\* The host's network stack sends a frame out of the TAP interface.
DFrame ==
    /\ Up /\ HasTap /\ ndev < MaxDevFrames
    /\ \E len \in DevLens :
          devin' = Append(devin, [src |-> Dev, n |-> ndev + 1, len |-> len])
    /\ ndev' = ndev + 1
    /\ UNCHANGED <<system, sockVars, peerVars>>

Environment ==
    \/ \E c \in Conns :
          \/ PConnect(c) \/ PSendData(c) \/ PMove(c)
          \/ \E len \in PeerLens : PSendSize(c, len)
    \/ DFrame

\* Nothing happens once the process has ended.
Halted == ~Up /\ UNCHANGED vars

Next == Reader \/ Writer \/ Main \/ Environment \/ Halted

Spec == Init /\ [][Next]_vars
-----------------------------------------------------------------------------
(* Safety. *)

Entries == {clienttab[k] : k \in 1 .. Len(clienttab)}

\* The mutex is held exactly by the thread that is between its MUTEX_LOCK and
\* its MUTEX_UNLOCK, error exits included.
MutexInv ==
    /\ (mutex = "reader") <=> (rpc \in {"size", "data"})
    /\ (mutex = "writer") <=> (wpc \in {"scan", "body", "write", "fsize",
                                       "fdata", "spin"})

\* Every clienttab[i] a thread goes on to use is still an entry of the table,
\* whatever the two threads removed meanwhile: the assertion of remove_client.
IndexInv ==
    /\ rpc = "data" => ri <= Len(clienttab)
    /\ wpc \in {"body", "write"} => wi <= Len(clienttab)
    /\ wpc = "fdata" => wj <= Len(clienttab)

\* The table never overflows clienttab[MAX_CLIENTS] and never holds a
\* descriptor twice or one that was not opened.
TableInv ==
    /\ Len(clienttab) <= MaxClients
    /\ \A k, l \in 1 .. Len(clienttab) : clienttab[k] = clienttab[l] => k = l
    /\ \A k \in 1 .. Len(clienttab) : conn[clienttab[k]] = "open"

\* A connection that was accepted finds room: tapserver_add_client, whose
\* result writer_thread ignores, cannot fail although the test for room was
\* made under an earlier hold of the mutex.
AcceptFits ==
    /\ wpc \in {"accept", "add"} => Len(clienttab) < MaxClients
    /\ wpc = "add" => newfd \notin Entries

\* The sockets, the mutexes and the device are destroyed only when no thread
\* can use them any more.
DestroyedAfterThreads ==
    serversock = "freed" \/ mpc \in {"destroy", "exit"}
        => rpc \in {"none", "done"} /\ wpc \in {"none", "done"}

\* Each client's stream is a sequence of sizes each followed by a payload of
\* that size.  A size without its payload ends the stream, and then either the
\* payload is about to be sent or the client is out of the table.
OutFramed ==
    \A c \in Conns :
        /\ \A k \in 1 .. Len(out[c]) :
              IF k % 2 = 1 THEN out[c][k].kind = "size"
              ELSE /\ out[c][k].kind = "data"
                   /\ SizeOf(out[c][k - 1].bytes) = out[c][k].frame.len
        /\ Len(out[c]) % 2 = 1 =>
              \/ c \notin Entries
              \/ rpc = "data" /\ clienttab[ri] = c
              \/ wpc = "fdata" /\ clienttab[wj] = c

\* recv_data never takes payload bytes for a size, since a client whose payload
\* is left unread is out of the table, and a payload it copies fits buf.
InFramed ==
    /\ \A c \in Entries : in[c] # <<>> =>
          Head(in[c]).kind = IF wpc = "body" /\ Current = c THEN "data" ELSE "size"
    /\ wbuf.len <= BufSize

\* The frames whose payload was sent to a client.
Got(c) == {out[c][k].frame : k \in {l \in 1 .. Len(out[c]) : out[c][l].kind = "data"}}
NobodyRemoved == \A c \in Conns : conn[c] = "open" => c \in Entries \cup {newfd}
\* While no client was ever removed, no client is skipped: the loops over the
\* table leave nobody behind.  (After a removal the next client is skipped,
\* because the loops advance i past the entry that moved down.)
DispatchComplete ==
    NobodyRemoved =>
        /\ rpc \in {"size", "data"} =>
              \A k \in 1 .. ri - 1 : rbuf \in Got(clienttab[k])
        /\ wpc \in {"fsize", "fdata"} =>
              \A k \in 1 .. wj - 1 : (k # wi) <=> (wbuf \in Got(clienttab[k]))

\* What tapcfg lends to its caller is not freed: main survives the
\* configuration of the interface.  (main does free the name of the interface.)
NothingLentIsFreed == mpc = "start" => proc = "up"

BadSize(c) ==
    /\ in[c] # <<>> /\ Head(in[c]).kind = "size"
    /\ ~LegalSize(SizeOf(Head(in[c]).bytes))
\* A step that shortens the table removes one client, and one that failed or
\* announced a frame of an impossible size: no index slips to a neighbour.
OnlyFaultyLeave ==
    [][\A c \in Entries : c \in Entries' \/ peer[c] \in {"fin", "rst"} \/ BadSize(c)]_vars

-----------------------------------------------------------------------------
(* Liveness. *)

\* The threads are scheduled, and main goes on by itself except while it waits
\* for SIGINT.  Nothing is assumed of the peers, the device or the user.
Fairness ==
    /\ WF_vars(Reader)
    /\ WF_vars(Writer)
    /\ WF_vars(mpc # "run" /\ Main)
FairSpec == Spec /\ Fairness

\* A thread waits in recv() or send() for a peer, with the mutex held; in
\* "spin" it polls a connection at its end for ever.
Blocked ==
    \/ wpc = "spin"
    \/ wpc = "body" /\ in[Current] = <<>>
    \/ AtForward /\ peer[clienttab[wj]] = "stall"
    \/ rpc \in {"size", "data"} /\ ri <= Len(clienttab)
       /\ peer[clienttab[ri]] = "stall"

\* tapserver_stop returns and main ends, unless a peer keeps a thread inside a
\* socket call for ever; nothing else, no lock in particular, can prevent it.
StopReturns == mpc = "join_r" ~> (~Up \/ <>[]Blocked)

ThreadsGone == rpc \in {"none", "done"} /\ wpc \in {"none", "done"}
\* After the device refused a frame both threads end without any stop, under
\* the same proviso.
FailureStopsThreads ==
    mpc = "run" /\ ~running ~> (ThreadsGone \/ ~Up \/ <>[]Blocked)
=============================================================================
