------------------------ MODULE TapServerRelayProofs ------------------------
(***************************************************************************)
(* The tapserver implements Relay, for any number of clients and frames    *)
(* and any interleaving of its threads.                                    *)
(***************************************************************************)
EXTENDS TapServerRelay, TapServerProofs, FiniteSetTheorems

\* How many frames of source s are in seq.
Count(s, seq) == Cardinality({k \in 1 .. Len(seq) : seq[k].src = s})
Logged == {log[k] : k \in 1 .. Len(log)}

\* The frames of each source are numbered as they enter the log.
LogInv ==
    /\ log \in Seq(Frame)
    /\ \A k \in 1 .. Len(log) : log[k].n \in 1 .. Count(log[k].src, log)
    /\ \A k, l \in 1 .. Len(log) :
          log[k].src = log[l].src /\ log[k].n = log[l].n => k = l

\* The device delivers its frames in order, and none without a device.
DevInv ==
    /\ \A k \in 1 .. Len(devin) : devin[k].n = Count(Dev, log) + k
    /\ ndev = Count(Dev, log) + Len(devin)
    /\ ~HasTap => devin = <<>>

\* Only logged frames were given out.
GotInv == \A c \in Conns : Got(c) \subseteq Logged

\* A thread in its dispatch loop gives out the latest frame of the log, which
\* nobody whose turn is to come has got.
ReaderLatest ==
    rpc \in {"lock", "size", "data"} =>
        /\ HasTap /\ log # <<>> /\ rbuf = log[Len(log)]
        /\ rpc = "lock" => \A c \in Conns : rbuf \notin Got(c)
        /\ rpc # "lock" => \A k \in ri .. Len(clienttab) : rbuf \notin Got(clienttab[k])
WriterLatest ==
    wpc \in {"fsize", "fdata"} =>
        /\ ~HasTap /\ log # <<>> /\ wbuf = log[Len(log)]
        /\ \A k \in wj .. Len(clienttab) : wbuf \notin Got(clienttab[k])

\* The frame the writer is about to write is the next one of its source.
WriteNext ==
    wpc = "write" =>
        /\ HasTap /\ wbuf.src = Current /\ wbuf.len \in PeerLens \cup DevLens
        /\ wbuf.n = Count(Current, devout) + 1

\* num numbers the chunks of s by their frames, after b frames were taken.
Numbers(num, s, f, n, b, body) ==
    /\ Len(num) = Len(s)
    /\ s # <<>> => num[1] = b + 1 /\ num[Len(s)] = n
    /\ \A k \in 1 .. Len(s) - 1 :
          num[k + 1] = IF s[k].kind = "size" /\ SizeOf(s[k].bytes) # 0 THEN num[k]
                       ELSE num[k] + 1
    /\ \A k \in 1 .. Len(s) : s[k].kind = "data" => s[k].frame.n = num[k]
    /\ s = <<>> => n = IF body THEN b + 1 ELSE b
    /\ f # NoFrame => f.n = n
Numbered(s, f, n, b, body) == \E num \in Seq(Nat) : Numbers(num, s, f, n, b, body)

\* The frames of c that were taken.
Taken(c) ==
    IF HasTap THEN Count(c, devout) + (IF wpc = "write" /\ c = Current THEN 1 ELSE 0)
    ELSE Count(c, log)

\* No frame of a client is lost or repeated on its way to the writer.
CountInv ==
    wpc \notin {"done", "spin"} =>
        \A c \in Conns :
            Fresh(c) => Numbered(in[c], owed[c], nsent[c], Taken(c), wpc = "body" /\ c = Current)

-----------------------------------------------------------------------------
(* Counting and logging. *)

LEMMA CountOf ==
    ASSUME NEW seq \in Seq(Frame), NEW s
    PROVE  /\ Count(s, seq) \in Nat
           /\ R!FramesOf(s, seq) = Count(s, seq)
           /\ \A f \in Frame : Count(s, Append(seq, f)) =
                 Count(s, seq) + IF f.src = s THEN 1 ELSE 0
<1> DEFINE S == {k \in 1 .. Len(seq) : seq[k].src = s}
<1>1. Len(seq) \in Nat
  OBVIOUS
<1>2. IsFiniteSet(S) /\ S \subseteq 1 .. Len(seq)
  <2>1. IsFiniteSet(1 .. Len(seq))
    BY <1>1, FS_Interval
  <2>2. S \in SUBSET (1 .. Len(seq))
    OBVIOUS
  <2> HIDE DEF S
  <2> QED
    BY <2>1, <2>2, FS_Subset
<1>3. Cardinality(S) \in Nat
  BY <1>2, FS_CardinalityType
<1>4. ASSUME NEW f \in Frame
      PROVE  Count(s, Append(seq, f)) = Count(s, seq) + IF f.src = s THEN 1 ELSE 0
  <2> DEFINE t == Append(seq, f)
             T == {k \in 1 .. Len(t) : t[k].src = s}
  <2>1. Len(t) = Len(seq) + 1 /\ t[Len(seq) + 1] = f /\ \A k \in 1 .. Len(seq) : t[k] = seq[k]
    OBVIOUS
  <2> HIDE DEF t
  <2>2. 1 .. Len(t) = 1 .. Len(seq) \cup {Len(seq) + 1} /\ Len(seq) + 1 \notin 1 .. Len(seq)
    BY <1>1, <2>1
  <2>3. f.src = s => T = S \cup {Len(seq) + 1}
    BY <2>1, <2>2
  <2>4. f.src # s => T = S
    BY <2>1, <2>2
  <2>5. Len(seq) + 1 \notin S
    BY <1>2, <2>2
  <2>6. Cardinality(S \cup {Len(seq) + 1}) = Cardinality(S) + 1
    BY <1>2, <2>5, FS_AddElement
  <2>7. Count(s, t) = Cardinality(T) /\ Count(s, seq) = Cardinality(S)
    BY DEF Count
  <2> HIDE DEF S, T
  <2>8. Count(s, t) = Count(s, seq) + IF f.src = s THEN 1 ELSE 0
    <3>1. CASE f.src = s
      BY <1>3, <2>3, <2>6, <2>7, <3>1
    <3>2. CASE f.src # s
      BY <1>3, <2>4, <2>7, <3>2
    <3> QED
      BY <3>1, <3>2
  <2> QED
    BY <2>8 DEF t
<1>5. Count(s, seq) = Cardinality(S)
  BY DEF Count
<1>6. R!FramesOf(s, seq) = Cardinality(S)
  BY DEF R!FramesOf, R!Cardinality, Cardinality, R!IsFiniteSet, IsFiniteSet
<1> QED
  BY <1>3, <1>4, <1>5, <1>6

LEMMA CountNone == \A s : Count(s, <<>>) = 0
<1>1. \A s : {k \in 1 .. Len(<<>>) : <<>>[k].src = s} = {}
  OBVIOUS
<1> QED
  BY <1>1, FS_EmptySet DEF Count

\* A frame with the next number of its source is new to the log.
LEMMA LogGrows ==
    ASSUME LogInv, NEW f \in Frame, f.n = Count(f.src, log) + 1, log' = Append(log, f)
    PROVE  /\ LogInv'
           /\ f \notin Logged /\ Logged' = Logged \cup {f}
           /\ log' # <<>> /\ log'[Len(log')] = f
           /\ \A s : s # f.src => Count(s, log') = Count(s, log)
           /\ Count(f.src, log') = Count(f.src, log) + 1
<1>1. log \in Seq(Frame) /\ Len(log) \in Nat
  BY DEF LogInv
<1>2. /\ log' \in Seq(Frame) /\ Len(log') = Len(log) + 1 /\ log'[Len(log) + 1] = f
      /\ log' # <<>> /\ \A k \in 1 .. Len(log) : log'[k] = log[k]
  BY <1>1
<1>3. \A s : /\ Count(s, log) \in Nat
             /\ Count(s, log') = Count(s, log) + IF f.src = s THEN 1 ELSE 0
  BY <1>1, CountOf
<1>4. \A k \in 1 .. Len(log') : k \in 1 .. Len(log) \/ k = Len(log) + 1
  BY <1>1, <1>2
<1>5. \A k \in 1 .. Len(log) : log[k].src = f.src => log[k].n # f.n
  BY <1>1, <1>3 DEF LogInv
<1>6. f.n \in Nat
  BY DEF Frame
<1>7. ASSUME NEW k \in 1 .. Len(log') PROVE log'[k].n \in 1 .. Count(log'[k].src, log')
  <2>1. CASE k \in 1 .. Len(log)
    <3>1. log[k].n \in 1 .. Count(log[k].src, log)
      BY <2>1 DEF LogInv
    <3>2. Count(log[k].src, log') \in Nat /\ Count(log[k].src, log') >= Count(log[k].src, log)
          /\ Count(log[k].src, log) \in Nat
      BY <1>3
    <3>3. log[k].n \in 1 .. Count(log[k].src, log')
      BY <3>1, <3>2
    <3> QED
      BY <1>2, <2>1, <3>3
  <2>2. CASE k = Len(log) + 1
    <3>1. f.n \in 1 .. Count(f.src, log')
      BY <1>3, <1>6
    <3> QED
      BY <1>2, <2>2, <3>1
  <2> QED
    BY <1>4, <2>1, <2>2
<1>8. ASSUME NEW k \in 1 .. Len(log'), NEW l \in 1 .. Len(log'),
             log'[k].src = log'[l].src, log'[k].n = log'[l].n
      PROVE  k = l
  <2>1. CASE k \in 1 .. Len(log) /\ l \in 1 .. Len(log)
    BY <1>2, <1>8, <2>1 DEF LogInv
  <2>2. CASE k \in 1 .. Len(log) /\ l = Len(log) + 1
    BY <1>2, <1>5, <1>8, <2>2
  <2>3. CASE k = Len(log) + 1 /\ l \in 1 .. Len(log)
    BY <1>2, <1>5, <1>8, <2>3
  <2> QED
    BY <1>4, <2>1, <2>2, <2>3
<1>9. LogInv'
  BY <1>2, <1>7, <1>8 DEF LogInv
<1>10. f \notin Logged
  BY <1>5 DEF Logged
<1>11. Logged' = Logged \cup {f}
  <2>1. Len(log) + 1 \in 1 .. Len(log') /\ \A k \in 1 .. Len(log) : k \in 1 .. Len(log')
    BY <1>1, <1>2
  <2> QED
    BY <1>2, <1>4, <2>1 DEF Logged
<1>12. log'[Len(log')] = f
  BY <1>2
<1>13. /\ \A s : s # f.src => Count(s, log') = Count(s, log)
       /\ Count(f.src, log') = Count(f.src, log) + 1
  BY <1>3
<1> QED
  BY <1>2, <1>9, <1>10, <1>11, <1>12, <1>13

\* A step of the server, with what it does to the log.
Logging == ([Next /\ LogStep]_<<vars, log>>)

\* What enters the log, and when.
LEMMA LogSteps ==
    ASSUME IInv, Logging
    PROVE  /\ [Next]_vars
           /\ \/ RRead /\ log' = Append(log, rbuf')
              \/ WRecvData /\ ~HasTap /\ log' = Append(log, wbuf')
              \/ ~RRead /\ (WRecvData => HasTap) /\ log' = log
<1>1. CASE UNCHANGED <<vars, log>>
  <2>1. ~RRead /\ ~WRecvData
    BY <1>1 DEF vars, RRead, WRecvData, readerVars, writerVars, scanVars
  <2> QED
    BY <1>1, <2>1
<1>2. ASSUME Next, LogStep
      PROVE  \/ RRead /\ log' = Append(log, rbuf')
             \/ WRecvData /\ ~HasTap /\ log' = Append(log, wbuf')
             \/ ~RRead /\ (WRecvData => HasTap) /\ log' = log
  <2>1. CASE RRead
    <3>1. rpc = "wait" /\ rpc' = "lock" /\ wpc' = wpc
      BY <2>1 DEF RRead, notReader, writerVars
    <3> QED
      BY <1>2, <2>1, <3>1 DEF LogStep
  <2>2. CASE WRecvData
    <3>1. wpc = "body" /\ wpc' = (IF HasTap THEN "write" ELSE "fsize") /\ rpc' = rpc
      BY <2>2 DEF WRecvData, notWriter, readerVars
    <3>2. ~RRead
      BY <3>1 DEF RRead
    <3> QED
      BY <1>2, <2>2, <3>1, <3>2 DEF LogStep
  <2>3. CASE ~RRead /\ ~WRecvData
    <3>1. ~(rpc = "wait" /\ rpc' = "lock") /\ ~(wpc = "body" /\ wpc' = "fsize")
      <4>1. CASE Reader
        BY <2>3, <4>1 DEF Reader, RNothing, RLock, RSendSize, RSendData, RSendFail, RSigpipe,
           RUnlock, RCheck, Recheck, notReader, writerVars
      <4>2. CASE Writer
        <5> USE DEF notWriter, readerVars
        <5>1. CASE WBuild \/ WSelect \/ WSelectFail \/ WLock \/ WSkip \/ WRecvSize
          BY <5>1 DEF WBuild, WSelect, WSelectFail, WLock, WSkip, WRecvSize
        <5>2. CASE WRecvFail \/ WRecvEof
          BY <5>2 DEF WRecvFail, WRecvEof
        <5>3. CASE WSpin
          BY <5>3 DEF WSpin, vars, writerVars, scanVars, readerVars
        <5>4. CASE WWrite \/ WWriteFail \/ WFwdSelf \/ WFwdSize \/ WFwdData
          BY <5>4 DEF WWrite, WWriteFail, WFwdSelf, WFwdSize, WFwdData
        <5>5. CASE WFwdFail \/ WSigpipe \/ WFwdEnd
          BY <5>5 DEF WFwdFail, WSigpipe, WFwdEnd, AtForward
        <5>6. CASE WUnlock \/ WAccept \/ WAcceptFail \/ WAdd \/ WCheck
          BY <5>6 DEF WUnlock, WAccept, WAcceptFail, WAdd, WCheck
        <5> QED
          BY <2>3, <4>2, <5>1, <5>2, <5>3, <5>4, <5>5, <5>6 DEF Writer
      <4>3. CASE Main
        <5>1. CASE MCreateReader
          BY <5>1 DEF MCreateReader, IInv, LifeInv
        <5>2. CASE MCreateWriter
          BY <5>2 DEF MCreateWriter, IInv, LifeInv
        <5>3. CASE ~MCreateReader /\ ~MCreateWriter
          BY <4>3, <5>3 DEF Main, MConnect, MFreeIfname, MStart, MStartFail, MStop, MJoinReader,
             MJoinWriter, MJoin, MClose, MDestroy
        <5> QED
          BY <5>1, <5>2, <5>3
      <4>4. CASE Environment \/ Halted
        BY <4>4 DEF Environment, PConnect, PSendSize, PSendData, PMove, DFrame, Halted, system,
           vars, readerVars, writerVars
      <4> QED
        BY <1>2, <4>1, <4>2, <4>3, <4>4 DEF Next
    <3> QED
      BY <1>2, <2>3, <3>1 DEF LogStep
  <2> QED
    BY <2>1, <2>2, <2>3
<1> QED
  BY <1>1, <1>2 DEF Logging

\* The device a server was started with does not change.
LEMMA ModeKept ==
    ASSUME [Next]_vars PROVE mode' = mode /\ HasTap' = HasTap
<1>1. mode' = mode
  BY DEF Next, Halted, vars, Reader, Writer, Main, Environment, RRead, RNothing, RLock, RSendSize,
     RSendData, RSendFail, RSigpipe, RUnlock, RCheck, WBuild, WSelect, WSelectFail, WLock, WSkip,
     WRecvSize, WRecvFail, WRecvData, WRecvEof, WSpin, WWrite, WWriteFail, WFwdSelf, WFwdSize,
     WFwdData, WFwdFail, WSigpipe, WFwdEnd, WUnlock, WAccept, WAcceptFail, WAdd, WCheck, MConnect,
     MFreeIfname, MStart, MStartFail, MCreateReader, MCreateWriter, MStop, MJoinReader,
     MJoinWriter, MJoin, MClose, MDestroy, PConnect, PMove, PSendSize, PSendData, DFrame,
     notReader, notWriter, notMain, system
<1> QED
  BY <1>1 DEF HasTap

-----------------------------------------------------------------------------
(* The frames of the device. *)

LEMMA DeviceUntouched ==
    ASSUME [Next]_vars, ~RRead, ~DFrame PROVE devin' = devin /\ ndev' = ndev
BY DEF Next, Halted, vars, Reader, Writer, Main, Environment, RNothing, RLock, RSendSize,
     RSendData, RSendFail, RSigpipe, RUnlock, RCheck, WBuild, WSelect, WSelectFail, WLock, WSkip,
     WRecvSize, WRecvFail, WRecvData, WRecvEof, WSpin, WWrite, WWriteFail, WFwdSelf, WFwdSize,
     WFwdData, WFwdFail, WSigpipe, WFwdEnd, WUnlock, WAccept, WAcceptFail, WAdd, WCheck, MConnect,
     MFreeIfname, MStart, MStartFail, MCreateReader, MCreateWriter, MStop, MJoinReader,
     MJoinWriter, MJoin, MClose, MDestroy, PConnect, PMove, PSendSize, PSendData,
     notReader, notWriter, notMain, devVars

\* The reader takes the next frame of the device.
LEMMA ReadsNext ==
    ASSUME IInv, FrameInv, DevInv, RRead
    PROVE  /\ rbuf' \in Frame /\ Owned(rbuf', Dev) /\ rbuf'.n = Count(Dev, log) + 1
           /\ HasTap
<1>1. devin \in Seq(Frame) /\ devin # <<>> /\ rbuf' = Head(devin)
  BY Types DEF RRead
<1>2. rbuf' = devin[1] /\ 1 \in 1 .. Len(devin) /\ rbuf' \in Frame
  BY <1>1
<1> QED
  BY <1>1, <1>2 DEF FrameInv, DevInv

LEMMA DevInvNext ==
    ASSUME IInv, FrameInv, LogInv, DevInv, LogInv', Logging,
           WRecvData /\ ~HasTap => wbuf' \in Frame /\ wbuf'.src # Dev
    PROVE  DevInv'
<1>0. /\ HasTap' = HasTap /\ devin \in Seq(Frame) /\ Count(Dev, log) \in Nat
      /\ ndev = Count(Dev, log) + Len(devin)
  <2>1. Count(Dev, log) \in Nat
    BY CountOf DEF LogInv
  <2> QED
    BY <2>1, LogSteps, ModeKept, Types DEF DevInv
<1>1. CASE RRead
  <2>1. PICK f \in Frame : f = rbuf' /\ f.src = Dev /\ f.n = Count(Dev, log) + 1
    BY <1>1, ReadsNext DEF Owned
  <2>2. log' = Append(log, f)
    BY <1>1, <2>1, LogSteps DEF WRecvData, RRead, notReader, writerVars
  <2>3. Count(Dev, log') = Count(Dev, log) + 1
    BY <2>1, <2>2, CountOf DEF LogInv
  <2>4. devin # <<>> /\ devin' = Tail(devin) /\ ndev' = ndev
    BY <1>1 DEF RRead, notReader
  <2>5. /\ Len(devin) \in Nat \ {0} /\ Len(devin') = Len(devin) - 1
        /\ \A k \in 1 .. Len(devin') : k + 1 \in 1 .. Len(devin) /\ devin'[k] = devin[k + 1]
    BY <1>0, <2>4, TailShape
  <2>6. ASSUME NEW k \in 1 .. Len(devin') PROVE devin'[k].n = Count(Dev, log') + k
    <3>1. k \in Nat /\ k + 1 \in 1 .. Len(devin) /\ devin'[k] = devin[k + 1]
      BY <1>0, <2>5
    <3>2. devin[k + 1].n = Count(Dev, log) + (k + 1)
      BY <3>1 DEF DevInv
    <3> QED
      BY <1>0, <2>3, <3>1, <3>2
  <2>7. ndev' = Count(Dev, log') + Len(devin')
    BY <1>0, <2>3, <2>4, <2>5
  <2>8. HasTap
    BY <1>1, ReadsNext
  <2> QED
    BY <1>0, <2>6, <2>7, <2>8 DEF DevInv
<1>2. CASE DFrame
  <2>1. PICK len \in DevLens :
           devin' = Append(devin, [src |-> Dev, n |-> ndev + 1, len |-> len])
    BY <1>2 DEF DFrame
  <2>2. ndev' = ndev + 1 /\ HasTap
    BY <1>2 DEF DFrame
  <2>3. log' = log
    BY <1>2, LogSteps DEF DFrame, RRead, WRecvData, system, readerVars, writerVars
  <2>4. /\ Len(devin') = Len(devin) + 1 /\ devin'[Len(devin) + 1].n = ndev + 1
        /\ \A k \in 1 .. Len(devin) : devin'[k] = devin[k]
    BY <1>0, <2>1
  <2>5. ASSUME NEW k \in 1 .. Len(devin') PROVE devin'[k].n = Count(Dev, log') + k
    <3>1. CASE k \in 1 .. Len(devin)
      BY <2>3, <2>4, <3>1 DEF DevInv
    <3>2. CASE k = Len(devin) + 1
      BY <1>0, <2>3, <2>4, <3>2
    <3> QED
      BY <1>0, <2>4, <3>1, <3>2
  <2>6. ndev' = Count(Dev, log') + Len(devin')
    BY <1>0, <2>2, <2>3, <2>4
  <2> QED
    BY <1>0, <2>2, <2>5, <2>6 DEF DevInv
<1>3. CASE ~RRead /\ ~DFrame
  <2>1. devin' = devin /\ ndev' = ndev
    BY <1>3, LogSteps, DeviceUntouched
  <2>2. Count(Dev, log') = Count(Dev, log)
    <3>1. CASE log' = log
      BY <3>1
    <3>2. CASE log' # log
      <4>1. WRecvData /\ ~HasTap /\ log' = Append(log, wbuf')
        BY <1>3, <3>2, LogSteps
      <4>2. PICK f \in Frame : f = wbuf' /\ f.src # Dev
        BY <4>1
      <4>3. log' = Append(log, f)
        BY <4>1, <4>2
      <4>4. Count(Dev, log') = Count(Dev, log) + 0
        BY <4>2, <4>3, CountOf DEF LogInv
      <4> QED
        BY <1>0, <4>4
    <3> QED
      BY <3>1, <3>2
  <2> QED
    BY <1>0, <2>1, <2>2 DEF DevInv
<1> QED
  BY <1>1, <1>2, <1>3

-----------------------------------------------------------------------------
(* The numbers of the chunks of one client. *)

LEMMA NumberAnnounce ==
    ASSUME NEW s \in Seq(Chunk), NEW n \in Nat, NEW b \in Nat, NEW body \in BOOLEAN,
           Numbered(s, NoFrame, n, b, body), Owes(s, NoFrame), s = <<>> => ~body,
           NEW f \in Frame, f.n = n + 1, NEW g \in {f, NoFrame}
    PROVE  Numbered(Append(s, SizeChunk(f)), g, n + 1, b, body)
<1>1. PICK num \in Seq(Nat) : Numbers(num, s, NoFrame, n, b, body)
  BY DEF Numbered
<1>2. PICK ch \in Chunk : ch = SizeChunk(f) /\ ch.kind = "size"
  BY ChunkTypes DEF SizeChunk
<1> DEFINE t == Append(s, ch)
           m == Append(num, n + 1)
<1>3. Len(s) \in Nat /\ Len(num) = Len(s)
  BY <1>1 DEF Numbers
<1>4. /\ m \in Seq(Nat) /\ Len(m) = Len(s) + 1 /\ m[Len(s) + 1] = n + 1
      /\ \A k \in 1 .. Len(s) : m[k] = num[k]
  BY <1>3
<1>5. /\ t # <<>> /\ Len(t) = Len(s) + 1 /\ t[Len(s) + 1] = ch
      /\ \A k \in 1 .. Len(s) : t[k] = s[k]
  BY <1>3
<1> HIDE DEF t, m
<1>6. m[1] = b + 1
  <2>1. CASE s = <<>>
    BY <1>1, <1>4, <2>1 DEF Numbers
  <2>2. CASE s # <<>>
    <3>1. 1 \in 1 .. Len(s)
      BY <1>3, <2>2
    <3> QED
      BY <1>1, <1>4, <2>2, <3>1 DEF Numbers
  <2> QED
    BY <2>1, <2>2
<1>7. ASSUME NEW k \in 1 .. Len(t) - 1
      PROVE  m[k + 1] = IF t[k].kind = "size" /\ SizeOf(t[k].bytes) # 0 THEN m[k] ELSE m[k] + 1
  <2>1. k \in 1 .. Len(s)
    BY <1>3, <1>5
  <2>2. CASE k = Len(s)
    <3>1. s # <<>> /\ num[k] = n
      BY <1>1, <1>3, <2>1, <2>2 DEF Numbers
    <3>2. ~(s[k].kind = "size" /\ SizeOf(s[k].bytes) # 0)
      BY <2>2, <3>1 DEF Owes
    <3> QED
      BY <1>4, <1>5, <2>1, <2>2, <3>1, <3>2
  <2>3. CASE k # Len(s)
    <3>1. k \in 1 .. Len(s) - 1 /\ k + 1 \in 1 .. Len(s)
      BY <1>3, <2>1, <2>3
    <3>2. num[k + 1] = IF s[k].kind = "size" /\ SizeOf(s[k].bytes) # 0 THEN num[k]
                       ELSE num[k] + 1
      BY <1>1, <3>1 DEF Numbers
    <3> QED
      BY <1>4, <1>5, <2>1, <3>1, <3>2
  <2> QED
    BY <2>2, <2>3
<1>8. ASSUME NEW k \in 1 .. Len(t), t[k].kind = "data" PROVE t[k].frame.n = m[k]
  <2>1. k \in 1 .. Len(s)
    BY <1>2, <1>3, <1>5, <1>8
  <2> QED
    BY <1>1, <1>4, <1>5, <1>8, <2>1 DEF Numbers
<1>9. g # NoFrame => g.n = n + 1
  OBVIOUS
<1>10. Numbers(m, t, g, n + 1, b, body)
  BY <1>4, <1>5, <1>6, <1>7, <1>8, <1>9 DEF Numbers
<1>11. Numbered(t, g, n + 1, b, body)
  BY <1>4, <1>10 DEF Numbered
<1> QED
  BY <1>2, <1>11 DEF t

LEMMA NumberDeliver ==
    ASSUME NEW s \in Seq(Chunk), NEW n \in Nat, NEW b \in Nat, NEW body \in BOOLEAN,
           NEW f \in Frame, f # NoFrame,
           Numbered(s, f, n, b, body), Owes(s, f), s = <<>> => body
    PROVE  Numbered(Append(s, DataChunk(f)), NoFrame, n, b, body)
<1>1. PICK num \in Seq(Nat) : Numbers(num, s, f, n, b, body)
  BY DEF Numbered
<1>2. PICK ch \in Chunk : ch = DataChunk(f) /\ ch.kind = "data" /\ ch.frame = f
  BY ChunkTypes DEF DataChunk
<1> DEFINE t == Append(s, ch)
           m == Append(num, n)
<1>3. Len(s) \in Nat /\ Len(num) = Len(s) /\ f.n = n
  BY <1>1 DEF Numbers
<1>4. /\ m \in Seq(Nat) /\ Len(m) = Len(s) + 1 /\ m[Len(s) + 1] = n
      /\ \A k \in 1 .. Len(s) : m[k] = num[k]
  BY <1>3
<1>5. /\ t # <<>> /\ Len(t) = Len(s) + 1 /\ t[Len(s) + 1] = ch
      /\ \A k \in 1 .. Len(s) : t[k] = s[k]
  BY <1>3
<1> HIDE DEF t, m
<1>6. m[1] = b + 1
  <2>1. CASE s = <<>>
    BY <1>1, <1>4, <2>1 DEF Numbers
  <2>2. CASE s # <<>>
    <3>1. 1 \in 1 .. Len(s)
      BY <1>3, <2>2
    <3> QED
      BY <1>1, <1>4, <2>2, <3>1 DEF Numbers
  <2> QED
    BY <2>1, <2>2
<1>7. ASSUME NEW k \in 1 .. Len(t) - 1
      PROVE  m[k + 1] = IF t[k].kind = "size" /\ SizeOf(t[k].bytes) # 0 THEN m[k] ELSE m[k] + 1
  <2>1. k \in 1 .. Len(s)
    BY <1>3, <1>5
  <2>2. CASE k = Len(s)
    <3>1. s # <<>> /\ num[k] = n
      BY <1>1, <1>3, <2>1, <2>2 DEF Numbers
    <3>2. s[k].kind = "size" /\ SizeOf(s[k].bytes) # 0
      BY <2>2, <3>1 DEF Owes
    <3> QED
      BY <1>4, <1>5, <2>1, <2>2, <3>1, <3>2
  <2>3. CASE k # Len(s)
    <3>1. k \in 1 .. Len(s) - 1 /\ k + 1 \in 1 .. Len(s)
      BY <1>3, <2>1, <2>3
    <3>2. num[k + 1] = IF s[k].kind = "size" /\ SizeOf(s[k].bytes) # 0 THEN num[k]
                       ELSE num[k] + 1
      BY <1>1, <3>1 DEF Numbers
    <3> QED
      BY <1>4, <1>5, <2>1, <3>1, <3>2
  <2> QED
    BY <2>2, <2>3
<1>8. ASSUME NEW k \in 1 .. Len(t), t[k].kind = "data" PROVE t[k].frame.n = m[k]
  <2>1. CASE k \in 1 .. Len(s)
    BY <1>1, <1>4, <1>5, <1>8, <2>1 DEF Numbers
  <2>2. CASE k = Len(s) + 1
    BY <1>2, <1>3, <1>4, <1>5, <2>2
  <2> QED
    BY <1>3, <1>5, <2>1, <2>2
<1>9. Numbers(m, t, NoFrame, n, b, body)
  BY <1>4, <1>5, <1>6, <1>7, <1>8 DEF Numbers
<1>10. Numbered(t, NoFrame, n, b, body)
  BY <1>4, <1>9 DEF Numbered
<1> QED
  BY <1>2, <1>10 DEF t

LEMMA NumberReceive ==
    ASSUME NEW s \in Seq(Chunk), NEW n \in Nat, NEW b \in Nat, NEW f,
           NEW body, Numbered(s, f, n, b, body), s # <<>>
    PROVE  /\ s[1].kind = "size" /\ SizeOf(s[1].bytes) # 0 => Numbered(Tail(s), f, n, b, TRUE)
           /\ s[1].kind = "data" => /\ s[1].frame.n = b + 1
                                    /\ Numbered(Tail(s), f, n, b + 1, FALSE)
<1>1. PICK num \in Seq(Nat) : Numbers(num, s, f, n, b, body)
  BY DEF Numbered
<1> DEFINE t == Tail(s)
           m == Tail(num)
<1>3. /\ Len(s) \in Nat \ {0} /\ Len(num) = Len(s) /\ num # <<>> /\ num[1] = b + 1
      /\ num[Len(s)] = n /\ 1 \in 1 .. Len(s)
  BY <1>1 DEF Numbers
<1>4. /\ m \in Seq(Nat) /\ Len(m) = Len(s) - 1 /\ \A k \in 1 .. Len(m) : m[k] = num[k + 1]
  BY <1>3, TailShape
<1>5. Len(t) = Len(s) - 1 /\ t \in Seq(Chunk) /\ \A k \in 1 .. Len(t) : t[k] = s[k + 1]
  BY TailShape
<1> HIDE DEF t, m
<1>6. t = <<>> => num[1] = n
  BY <1>3, <1>5
<1>7. t # <<>> => /\ m[Len(t)] = n
                  /\ m[1] = IF s[1].kind = "size" /\ SizeOf(s[1].bytes) # 0 THEN b + 1 ELSE b + 2
  <2> SUFFICES ASSUME t # <<>>
               PROVE  /\ m[Len(t)] = n
                      /\ m[1] = IF s[1].kind = "size" /\ SizeOf(s[1].bytes) # 0 THEN b + 1
                                ELSE b + 2
    OBVIOUS
  <2>1. Len(t) \in Nat \ {0}
    BY <1>5
  <2>2. 1 \in 1 .. Len(s) - 1 /\ 1 \in 1 .. Len(m) /\ Len(t) \in 1 .. Len(m)
        /\ Len(t) + 1 = Len(s)
    BY <1>3, <1>4, <1>5, <2>1
  <2>3. m[1] = num[1 + 1] /\ m[Len(t)] = num[Len(s)]
    BY <1>4, <2>2
  <2>4. num[1 + 1] = IF s[1].kind = "size" /\ SizeOf(s[1].bytes) # 0 THEN num[1] ELSE num[1] + 1
    BY <1>1, <2>2 DEF Numbers
  <2> QED
    BY <1>3, <2>3, <2>4
<1>8. ASSUME NEW k \in 1 .. Len(t) - 1
      PROVE  m[k + 1] = IF t[k].kind = "size" /\ SizeOf(t[k].bytes) # 0 THEN m[k] ELSE m[k] + 1
  <2>1. k + 1 \in 1 .. Len(s) - 1 /\ k \in 1 .. Len(t) /\ k \in 1 .. Len(m) /\ k + 1 \in 1 .. Len(m)
    BY <1>3, <1>4, <1>5
  <2>2. num[(k + 1) + 1] = IF s[k + 1].kind = "size" /\ SizeOf(s[k + 1].bytes) # 0
                           THEN num[k + 1] ELSE num[k + 1] + 1
    BY <1>1, <2>1 DEF Numbers
  <2> QED
    BY <1>4, <1>5, <2>1, <2>2
<1>9. ASSUME NEW k \in 1 .. Len(t), t[k].kind = "data" PROVE t[k].frame.n = m[k]
  <2>1. k + 1 \in 1 .. Len(s) /\ k \in 1 .. Len(m)
    BY <1>3, <1>4, <1>5
  <2>2. s[k + 1].kind = "data" => s[k + 1].frame.n = num[k + 1]
    BY <1>1, <2>1 DEF Numbers
  <2> QED
    BY <1>4, <1>5, <1>9, <2>1, <2>2
<1>10. f # NoFrame => f.n = n
  BY <1>1 DEF Numbers
<1>11. ASSUME s[1].kind = "size" /\ SizeOf(s[1].bytes) # 0 PROVE Numbered(t, f, n, b, TRUE)
  <2>1. t = <<>> => n = b + 1
    BY <1>3, <1>6
  <2>2. t # <<>> => m[1] = b + 1 /\ m[Len(t)] = n
    BY <1>7, <1>11
  <2>3. Numbers(m, t, f, n, b, TRUE)
    BY <1>4, <1>5, <1>8, <1>9, <1>10, <2>1, <2>2 DEF Numbers
  <2> QED
    BY <1>4, <2>3 DEF Numbered
<1>12. ASSUME s[1].kind = "data" PROVE s[1].frame.n = b + 1 /\ Numbered(t, f, n, b + 1, FALSE)
  <2>1. t = <<>> => n = b + 1
    BY <1>3, <1>6
  <2>2. t # <<>> => m[1] = (b + 1) + 1 /\ m[Len(t)] = n
    BY <1>7, <1>12
  <2>3. Numbers(m, t, f, n, b + 1, FALSE)
    BY <1>4, <1>5, <1>8, <1>9, <1>10, <2>1, <2>2 DEF Numbers
  <2>4. s[1].frame.n = num[1]
    BY <1>1, <1>3, <1>12 DEF Numbers
  <2> QED
    BY <1>3, <1>4, <2>3, <2>4 DEF Numbered
<1> QED
  BY <1>11, <1>12 DEF t

-----------------------------------------------------------------------------
(* Where the frames of the clients are. *)

\* Nothing that CountInv speaks about changes.
QuietCount ==
    /\ UNCHANGED <<in, owed, nsent, devout>>
    /\ (wpc' = "body") <=> (wpc = "body")
    /\ (wpc' = "write") <=> (wpc = "write")
    /\ wpc \in {"body", "write"} => UNCHANGED <<wi, clienttab>>
    /\ wpc \notin {"done", "spin"}

LEMMA CountSteps ==
    ASSUME IInv, [Next]_vars
    PROVE  \/ wpc' \in {"done", "spin"}
           \/ WRecvSize \/ WRecvData \/ WRecvFail \/ WWrite
           \/ \E c \in Conns : PSendData(c) \/ \E len \in PeerLens : PSendSize(c, len)
           \/ QuietCount
<1>1. ASSUME Reader, wpc \notin {"done", "spin"} PROVE QuietCount
  <2> USE DEF notReader, writerVars, scanVars, peerVars
  <2>1. CASE RSendFail
    <3>1. wpc \notin {"body", "write"}
      BY <2>1, Exclusive DEF RSendFail
    <3> QED
      BY <1>1, <2>1, <3>1 DEF RSendFail, QuietCount
  <2>2. CASE ~RSendFail
    BY <1>1, <2>2 DEF Reader, QuietCount, RRead, RNothing, RLock, RSendSize, RSendData, RSigpipe,
       RUnlock, RCheck
  <2> QED
    BY <2>1, <2>2
<1>2. ASSUME Reader PROVE wpc' = wpc
  BY <1>2 DEF Reader, RRead, RNothing, RLock, RSendSize, RSendData, RSendFail, RSigpipe, RUnlock,
     RCheck, notReader, writerVars
<1>3. ASSUME Writer, wpc' \notin {"done", "spin"}
      PROVE  WRecvSize \/ WRecvData \/ WRecvFail \/ WWrite \/ QuietCount
  <2> USE DEF QuietCount, notWriter, peerVars, scanVars, selVars, sockVars
  <2>1. CASE WBuild \/ WSelect \/ WSelectFail \/ WLock \/ WSkip
    BY <1>3, <2>1 DEF WBuild, WSelect, WSelectFail, WLock, WSkip
  <2>2. CASE WFwdSize \/ WFwdData \/ WFwdFail
    BY <2>2 DEF WFwdSize, WFwdData, WFwdFail, AtForward
  <2>3. CASE WSpin \/ WRecvEof
    BY <1>3, <2>3 DEF WSpin, WRecvEof, vars, writerVars
  <2>4. CASE WWriteFail
    BY <1>3, <2>4 DEF WWriteFail
  <2>5. CASE WFwdSelf \/ WSigpipe \/ WFwdEnd
    BY <2>5 DEF WFwdSelf, WSigpipe, WFwdEnd, AtForward
  <2>6. CASE WUnlock \/ WAcceptFail \/ WCheck
    BY <1>3, <2>6 DEF WUnlock, WAcceptFail, WCheck, Recheck
  <2>7. CASE WAccept \/ WAdd
    BY <2>7 DEF WAccept, WAdd
  <2> QED
    BY <1>3, <2>1, <2>2, <2>3, <2>4, <2>5, <2>6, <2>7 DEF Writer
<1>4. ASSUME Main, wpc' \notin {"done", "spin"} PROVE QuietCount
  <2> USE DEF QuietCount, notMain, peerVars, scanVars, devVars
  <2>1. CASE MFreeIfname \/ MStart \/ MStartFail \/ MStop \/ MClose \/ MDestroy
    BY <1>4, <2>1 DEF MFreeIfname, MStart, MStartFail, MStop, MClose, MDestroy
  <2>2. CASE MCreateReader \/ MConnect
    BY <1>4, <2>2 DEF MCreateReader, MConnect, IInv, LifeInv
  <2>3. CASE MCreateWriter
    BY <2>3 DEF MCreateWriter, IInv, LifeInv
  <2>4. CASE MJoinReader \/ MJoinWriter
    BY <1>4, <2>4 DEF MJoinReader, MJoinWriter, MJoin
  <2> QED
    BY <1>4, <2>1, <2>2, <2>3, <2>4 DEF Main
<1>5. ASSUME DFrame \/ (\E c \in Conns : PConnect(c) \/ PMove(c)), wpc' \notin {"done", "spin"}
      PROVE  QuietCount
  BY <1>5 DEF DFrame, PConnect, PMove, QuietCount, system, sockVars, peerVars, writerVars, scanVars
<1>6. ASSUME UNCHANGED vars, wpc' \notin {"done", "spin"} PROVE QuietCount
  BY <1>6 DEF vars, QuietCount, peerVars, writerVars, scanVars, devVars
<1> QED
  BY <1>1, <1>2, <1>3, <1>4, <1>5, <1>6 DEF Next, Halted, Environment

LEMMA TakenType ==
    ASSUME IInv, LogInv, NEW c PROVE Taken(c) \in Nat /\ nsent \in [Conns -> Nat]
<1>1. log \in Seq(Frame) /\ devout \in Seq(Frame) /\ nsent \in [Conns -> Nat]
  BY DEF IInv, TypeOK, ConnTypeOK, LogInv
<1>2. Count(c, log) \in Nat /\ Count(c, devout) \in Nat
  BY <1>1, CountOf
<1> QED
  BY <1>1, <1>2 DEF Taken

\* What the writer receives is the next frame of the client.
LEMMA ReceivesNext ==
    ASSUME IInv, FrameInv, InInv, CountInv, LogInv, WRecvData
    PROVE  /\ Current \in Entries /\ Current \in Conns
           /\ in[Current] # <<>> /\ in' = [in EXCEPT ![Current] = Tail(@)]
           /\ wbuf' \in Frame /\ Owned(wbuf', Current) /\ wbuf'.n = Taken(Current) + 1
           /\ Numbered(Tail(in[Current]), owed[Current], nsent[Current], Taken(Current) + 1, FALSE)
<1>1. wi \in 1 .. Len(clienttab)
  BY Types DEF WRecvData, IInv, IndexInv
<1>2. PICK c \in Conns : c = Current /\ c \in Entries
  BY <1>1, Types DEF Current, Entries
<1>3. /\ wpc = "body" /\ in[c] # <<>> /\ Head(in[c]).kind = "data"
      /\ in' = [in EXCEPT ![c] = Tail(@)] /\ wbuf' = Head(in[c]).frame
  BY <1>2 DEF WRecvData
<1>4. PICK s \in Seq(Chunk) : s = in[c]
  BY Types
<1>5. PICK n \in Nat : n = nsent[c]
  BY TakenType
<1>6. PICK b \in Nat : b = Taken(c)
  BY TakenType
<1>7. s # <<>> /\ Head(s) = s[1] /\ 1 \in 1 .. Len(s) /\ s[1].kind = "data"
      /\ wbuf' = s[1].frame
  BY <1>3, <1>4
<1>8. Numbered(s, owed[c], n, b, TRUE)
  <2>1. Fresh(c) /\ (wpc = "body" /\ c = Current) = TRUE
    BY <1>2, <1>3 DEF Fresh
  <2> QED
    BY <1>3, <1>4, <1>5, <1>6, <2>1 DEF CountInv
<1>9. s[1].frame.n = b + 1 /\ Numbered(Tail(s), owed[c], n, b + 1, FALSE)
  BY <1>7, <1>8, NumberReceive
<1>10. wbuf' \in Frame
  BY <1>2, <1>3, <1>4, RecvType DEF IInv
<1>11. Owned(wbuf', c)
  BY <1>4, <1>7 DEF FrameInv
<1>12. wbuf'.n = Taken(c) + 1
  BY <1>6, <1>7, <1>9
<1>13. Numbered(Tail(in[c]), owed[c], nsent[c], Taken(c) + 1, FALSE)
  BY <1>4, <1>5, <1>6, <1>9
<1> QED
  BY <1>2, <1>3, <1>10, <1>11, <1>12, <1>13

LEMMA WriteNextNext ==
    ASSUME IInv, FrameInv, InInv, CountInv, LogInv, WriteNext, [Next]_vars
    PROVE  WriteNext'
<1> SUFFICES ASSUME wpc' = "write"
             PROVE  /\ HasTap' /\ (wbuf.src = Current)' /\ wbuf'.len \in PeerLens \cup DevLens
                    /\ (wbuf.n = Count(Current, devout) + 1)'
  BY DEF WriteNext
<1>0. HasTap' = HasTap
  BY ModeKept
<1>1. CASE WRecvData
  <2>1. /\ wbuf'.src = Current /\ wbuf'.len \in PeerLens \cup DevLens
        /\ wbuf'.n = Taken(Current) + 1
    BY <1>1, ReceivesNext DEF Owned
  <2>2. HasTap /\ wpc = "body" /\ UNCHANGED <<wi, clienttab, devout>>
    BY <1>1 DEF WRecvData
  <2>3. Taken(Current) = Count(Current, devout)
    <3>1. Count(Current, devout) \in Nat
      BY CountOf DEF IInv, TypeOK, ConnTypeOK
    <3> QED
      BY <2>2, <3>1 DEF Taken
  <2>4. Current' = Current
    BY <2>2 DEF Current
  <2> QED
    BY <1>0, <2>1, <2>2, <2>3, <2>4
<1>2. CASE ~WRecvData
  <2>1. wpc = "write" /\ UNCHANGED <<wbuf, wi, clienttab, devout>>
    <3>1. CASE Reader
      <4>1. wpc = "write" /\ UNCHANGED <<wbuf, wi, devout>>
        BY <3>1 DEF Reader, RRead, RNothing, RLock, RSendSize, RSendData, RSendFail, RSigpipe,
           RUnlock, RCheck, notReader, writerVars, scanVars
      <4>2. rpc \notin {"size", "data"}
        BY <4>1, Exclusive
      <4> QED
        BY <3>1, <4>1, <4>2 DEF Reader, RRead, RNothing, RLock, RSendSize, RSendData, RSendFail,
           RSigpipe, RUnlock, RCheck
    <3>2. ~Writer
      BY <1>2 DEF Writer, WBuild, WSelect, WSelectFail, WLock, WSkip, WRecvSize, WRecvFail,
         WRecvEof, WSpin, WWrite, WWriteFail, WFwdSelf, WFwdSize, WFwdData, WFwdFail, WSigpipe,
         WFwdEnd, WUnlock, WAccept, WAcceptFail, WAdd, WCheck, AtForward, Recheck, vars, writerVars
    <3>3. CASE Main
      BY <3>3 DEF Main, MConnect, MFreeIfname, MStart, MStartFail, MCreateReader, MCreateWriter,
         MStop, MJoinReader, MJoinWriter, MJoin, MClose, MDestroy, notMain, scanVars, devVars,
         IInv, LifeInv
    <3>4. CASE Environment
      BY <3>4 DEF Environment, PConnect, PSendSize, PSendData, PMove, DFrame, system, writerVars,
         scanVars
    <3>5. CASE UNCHANGED vars
      BY <3>5 DEF vars, writerVars, scanVars, devVars
    <3> QED
      BY <3>1, <3>2, <3>3, <3>4, <3>5 DEF Next, Halted
  <2>2. Current' = Current
    BY <2>1 DEF Current
  <2> QED
    BY <1>0, <2>1, <2>2 DEF WriteNext
<1> QED
  BY <1>1, <1>2

\* The numbering of the stream of c alone changes.
LEMMA CountElsewhere ==
    ASSUME CountInv, NEW c \in Conns, wpc \notin {"done", "spin"},
           \A d \in Conns : Fresh(d)' => Fresh(d),
           \A d \in Conns : d # c =>
              /\ in'[d] = in[d] /\ owed'[d] = owed[d] /\ nsent'[d] = nsent[d]
              /\ Taken(d)' = Taken(d)
              /\ (wpc = "body" /\ d = Current)' = (wpc = "body" /\ d = Current),
           Fresh(c)' => Numbered(in'[c], owed'[c], nsent'[c], Taken(c)', (wpc = "body" /\ c = Current)')
    PROVE  CountInv'
<1>1. ASSUME NEW d \in Conns, d # c, Fresh(d)'
      PROVE  Numbered(in[d], owed[d], nsent[d], Taken(d), wpc = "body" /\ d = Current)'
  BY <1>1 DEF CountInv
<1> QED
  BY <1>1 DEF CountInv

LEMMA CountInvNext ==
    ASSUME IInv, FrameInv, ConnectInv, InInv, LogInv, DevInv, WriteNext, CountInv, Logging
    PROVE  CountInv'
<1> SUFFICES ASSUME wpc' \notin {"done", "spin"} PROVE CountInv'
  BY DEF CountInv
<1>a. \A c \in Conns : Fresh(c)' => Fresh(c)
  BY FreshShrinks, LogSteps
<1>b. [Next]_vars /\ HasTap' = HasTap
  BY LogSteps, ModeKept
<1>c. ASSUME NEW c \in Conns, UNCHANGED <<log, devout>>, wpc \notin {"write"}, wpc' \notin {"write"}
      PROVE  Taken(c)' = Taken(c)
  BY <1>b, <1>c DEF Taken, Count
<1>d. ASSUME NEW c \in Conns
      PROVE  Count(c, log) \in Nat /\ Count(c, devout) \in Nat
  BY CountOf DEF LogInv, IInv, TypeOK, ConnTypeOK
<1>1. CASE QuietCount
  <2>1. wpc \in {"body", "write"} => Current' = Current
    BY <1>1 DEF QuietCount, Current
  <2>2. ASSUME NEW c \in Conns PROVE HasTap \/ Count(c, log') = Count(c, log)
    <3>1. RRead => HasTap
      BY ReadsNext
    <3>2. ~WRecvData
      BY <1>1 DEF QuietCount, WRecvData
    <3> QED
      BY <3>1, <3>2, LogSteps
  <2>3. ASSUME NEW c \in Conns PROVE Taken(c)' = Taken(c)
    BY <1>1, <1>b, <2>1, <2>2 DEF Taken, QuietCount
  <2> QED
    BY <1>1, <1>a, <2>1, <2>3 DEF CountInv, QuietCount
<1> USE DEF notWriter, peerVars, scanVars, selVars
<1>2. CASE WRecvSize
  <2>1. PICK idx \in 1 .. Len(clienttab) : idx = wi
    BY <1>2, Types DEF WRecvSize, AtReady
  <2>2. PICK c \in Conns : c = clienttab[idx] /\ c = Current /\ c \in Entries
    BY <2>1, Types DEF Current, Entries
  <2>3. /\ wpc = "scan" /\ in[c] # <<>> /\ Head(in[c]).kind = "size"
        /\ in' = [in EXCEPT ![c] = Tail(@)] /\ UNCHANGED <<owed, nsent, devout>>
        /\ IF LegalSize(SizeOf(Head(in[c]).bytes))
           THEN wpc' = "body" /\ UNCHANGED <<wi, clienttab>>
           ELSE wpc' = "scan" /\ clienttab' = RemoveClient(clienttab, idx)
        /\ UNCHANGED <<conn, newfd>>
    BY <1>2, <2>1, <2>2 DEF WRecvSize
  <2>4. log' = log
    <3>1. ~RRead /\ ~WRecvData
      BY <1>2, <2>3 DEF WRecvSize, WRecvData, RRead, readerVars
    <3> QED
      BY <3>1, LogSteps
  <2>5. PICK s \in Seq(Chunk) : s = in[c]
    BY Types
  <2>6. PICK n \in Nat : n = nsent[c]
    BY TakenType
  <2>7. PICK b \in Nat : b = Taken(c)
    BY TakenType
  <2>8. in'[c] = Tail(s) /\ \A d \in Conns : d # c => in'[d] = in[d]
    BY <2>3, <2>5, Types
  <2>9. \A d \in Conns : Taken(d)' = Taken(d)
    BY <1>c, <2>3, <2>4
  <2>10. ASSUME NEW d \in Conns, d # c
         PROVE  (wpc = "body" /\ d = Current)' = (wpc = "body" /\ d = Current)
    BY <2>2, <2>3, <2>10 DEF Current
  <2>11. ASSUME Fresh(c)'
         PROVE  Numbered(in'[c], owed'[c], nsent'[c], Taken(c)', (wpc = "body" /\ c = Current)')
    <3>1. CASE LegalSize(SizeOf(Head(in[c]).bytes))
      <4>1. Numbered(s, owed[c], n, b, FALSE)
        <5>1. (wpc = "body" /\ c = Current) = FALSE
          BY <2>3
        <5> QED
          BY <1>a, <2>3, <2>5, <2>6, <2>7, <2>11, <5>1 DEF CountInv
      <4>2. s # <<>> /\ s[1].kind = "size" /\ SizeOf(s[1].bytes) # 0
        BY <2>3, <2>5, <3>1, ServerAssumption DEF LegalSize
      <4>3. Numbered(Tail(s), owed[c], n, b, TRUE)
        BY <4>1, <4>2, NumberReceive
      <4>4. (wpc = "body" /\ c = Current)' = TRUE
        BY <2>2, <2>3, <3>1 DEF Current
      <4> QED
        BY <2>3, <2>6, <2>7, <2>8, <2>9, <4>3, <4>4
    <3>2. CASE ~LegalSize(SizeOf(Head(in[c]).bytes))
      <4>1. Entries' = Entries \ {c}
        BY <2>2, <2>3, <3>2, OneLeaves
      <4>2. conn'[c] = "open" /\ wpc' # "add"
        BY <2>2, <2>3, <3>2 DEF IInv, TableInv
      <4> QED
        BY <2>11, <4>1, <4>2 DEF Fresh
    <3> QED
      BY <3>1, <3>2
  <2> QED
    BY <1>a, <2>3, <2>8, <2>9, <2>10, <2>11, CountElsewhere
<1>3. CASE WRecvData
  <2>1. PICK c \in Conns : c = Current /\ c \in Entries
    BY <1>3, ReceivesNext
  <2>2. /\ in' = [in EXCEPT ![c] = Tail(@)] /\ wbuf' \in Frame /\ Owned(wbuf', c)
        /\ Numbered(Tail(in[c]), owed[c], nsent[c], Taken(c) + 1, FALSE)
    BY <1>3, <2>1, ReceivesNext
  <2>3. /\ wpc = "body" /\ wpc' = (IF HasTap THEN "write" ELSE "fsize")
        /\ UNCHANGED <<owed, nsent, devout, clienttab, wi>>
    BY <1>3 DEF WRecvData
  <2>4. in'[c] = Tail(in[c]) /\ \A d \in Conns : d # c => in'[d] = in[d]
    BY <2>2, Types
  <2>5. ASSUME NEW d \in Conns
        PROVE  Taken(d)' = IF d = c THEN Taken(d) + 1 ELSE Taken(d)
    <3>1. CASE HasTap
      <4>1. Current' = Current
        BY <2>3 DEF Current
      <4> QED
        BY <1>b, <1>d, <2>1, <2>3, <3>1, <4>1 DEF Taken
    <3>2. CASE ~HasTap
      <4>1. log' = Append(log, wbuf')
        BY <1>3, <3>2, LogSteps, ReadsNext
      <4>2. PICK f \in Frame : f = wbuf' /\ f.src = c
        BY <2>2 DEF Owned
      <4>3. Count(d, log') = Count(d, log) + IF f.src = d THEN 1 ELSE 0
        BY <4>1, <4>2, CountOf DEF LogInv
      <4> QED
        BY <1>b, <1>d, <3>2, <4>2, <4>3 DEF Taken
    <3> QED
      BY <3>1, <3>2
  <2>6. ASSUME NEW d \in Conns, d # c
        PROVE  (wpc = "body" /\ d = Current)' = (wpc = "body" /\ d = Current)
    BY <2>1, <2>3, <2>6
  <2>7. (wpc = "body" /\ c = Current)' = FALSE
    BY <2>3
  <2>8. Numbered(in'[c], owed'[c], nsent'[c], Taken(c)', (wpc = "body" /\ c = Current)')
    BY <2>2, <2>3, <2>4, <2>5, <2>7
  <2> QED
    BY <1>a, <2>3, <2>4, <2>5, <2>6, <2>8, CountElsewhere
<1>4. CASE WRecvFail
  <2>1. PICK idx \in 1 .. Len(clienttab) : idx = wi
    BY <1>4, Types DEF WRecvFail, AtReady, IInv, IndexInv
  <2>2. PICK c \in Conns : c = clienttab[idx] /\ c = Current
    BY <2>1, Types DEF Current
  <2>3. /\ wpc \in {"scan", "body"} /\ wpc' = "scan"
        /\ clienttab' = RemoveClient(clienttab, idx)
        /\ UNCHANGED <<in, owed, nsent, devout, conn, newfd>>
    BY <1>4, <2>1 DEF WRecvFail, sockVars
  <2>4. log' = log
    <3>1. ~RRead /\ ~WRecvData
      BY <1>4, <2>3 DEF WRecvFail, WRecvData, RRead, readerVars
    <3> QED
      BY <3>1, LogSteps
  <2>5. ~(Fresh(c)')
    <3>1. Entries' = Entries \ {c}
      BY <2>2, <2>3, OneLeaves
    <3> QED
      BY <2>2, <2>3, <3>1 DEF Fresh, IInv, TableInv
  <2>6. \A d \in Conns : Taken(d)' = Taken(d)
    BY <1>c, <2>3, <2>4
  <2>7. ASSUME NEW d \in Conns, d # c
        PROVE  (wpc = "body" /\ d = Current)' = (wpc = "body" /\ d = Current)
    BY <2>2, <2>3, <2>7
  <2> QED
    BY <1>a, <2>3, <2>5, <2>6, <2>7, CountElsewhere
<1>5. CASE WWrite
  <2>1. /\ wpc = "write" /\ wpc' = "scan" /\ devout' = Append(devout, wbuf)
        /\ UNCHANGED <<in, owed, nsent, clienttab>>
    BY <1>5 DEF WWrite, sockVars
  <2>2. HasTap /\ wbuf.src = Current
    BY <2>1 DEF WriteNext
  <2>3. PICK f \in Frame : f = wbuf
    BY Types
  <2>4. ASSUME NEW d \in Conns PROVE Taken(d)' = Taken(d)
    <3>1. Count(d, devout') = Count(d, devout) + IF f.src = d THEN 1 ELSE 0
      BY <2>1, <2>3, CountOf DEF IInv, TypeOK, ConnTypeOK
    <3> QED
      BY <1>b, <1>d, <2>1, <2>2, <2>3, <3>1 DEF Taken
  <2> QED
    BY <1>a, <2>1, <2>4 DEF CountInv
<1> USE DEF system, writerVars, sockVars
<1>6. ASSUME NEW c \in Conns, NEW len \in PeerLens, PSendSize(c, len) PROVE CountInv'
  <2>1. len \in Nat /\ len < 65536 /\ nsent \in [Conns -> Nat]
    BY ServerAssumption DEF IInv, TypeOK, ConnTypeOK
  <2>2. PICK f \in Frame : f = [src |-> c, n |-> nsent[c] + 1, len |-> len]
    <3>1. [src |-> c, n |-> nsent[c] + 1, len |-> len] \in Frame
      BY <2>1, FrameType
    <3> QED
      BY <3>1
  <2>3. PICK g \in {f, NoFrame} : g = IF f.len = 0 THEN NoFrame ELSE f
    OBVIOUS
  <2>5. PICK s \in Seq(Chunk) : s = in[c]
    BY Types
  <2>6. /\ in' = [in EXCEPT ![c] = Append(@, SizeChunk(f))]
        /\ owed' = [owed EXCEPT ![c] = g] /\ owed[c] = NoFrame
        /\ nsent' = [nsent EXCEPT ![c] = @ + 1]
        /\ UNCHANGED <<wpc, wi, clienttab, devout>>
    BY <1>6, <2>2, <2>3 DEF PSendSize
  <2>7. /\ in'[c] = Append(s, SizeChunk(f)) /\ owed'[c] = g /\ nsent'[c] = nsent[c] + 1
        /\ \A d \in Conns : d # c => in'[d] = in[d] /\ owed'[d] = owed[d] /\ nsent'[d] = nsent[d]
    BY <2>1, <2>5, <2>6, Types
  <2>8. UNCHANGED log
    BY <1>6, <2>6, LogSteps DEF PSendSize, WRecvData, RRead, readerVars
  <2>9. Current' = Current /\ \A d \in Conns : Taken(d)' = Taken(d)
    BY <1>b, <2>6, <2>8 DEF Current, Taken
  <2>10. PICK n \in Nat : n = nsent[c]
    BY <2>1
  <2>11. PICK b \in Nat : b = Taken(c)
    BY TakenType
  <2>12. PICK body \in BOOLEAN : body = (wpc = "body" /\ c = Current)
    OBVIOUS
  <2>13. ASSUME Fresh(c)'
         PROVE  Numbered(in'[c], owed'[c], nsent'[c], Taken(c)', (wpc = "body" /\ c = Current)')
    <3>1. Fresh(c)
      BY <1>a, <2>13
    <3>2. Numbered(s, NoFrame, n, b, body)
      BY <2>5, <2>6, <2>10, <2>11, <2>12, <3>1 DEF CountInv
    <3>3. Owes(s, NoFrame)
      BY <2>5, <2>6 DEF InInv
    <3>4. s = <<>> => ~body
      BY <2>5, <2>6, <2>12, <3>1 DEF InInv, InPlace, AtData
    <3>5. f.n = n + 1
      BY <2>2, <2>10
    <3>6. Numbered(Append(s, SizeChunk(f)), g, n + 1, b, body)
      BY <3>2, <3>3, <3>4, <3>5, NumberAnnounce
    <3>7. (wpc = "body" /\ c = Current)' = body
      BY <2>6, <2>9, <2>12
    <3> QED
      BY <2>7, <2>9, <2>10, <2>11, <3>6, <3>7
  <2>14. \A d \in Conns : (wpc = "body" /\ d = Current)' = (wpc = "body" /\ d = Current)
    BY <2>6, <2>9
  <2>15. wpc \notin {"done", "spin"}
    BY <2>6
  <2> QED
    BY <1>a, <2>7, <2>9, <2>13, <2>14, <2>15, CountElsewhere
<1>7. ASSUME NEW c \in Conns, PSendData(c) PROVE CountInv'
  <2>1. PICK f \in Frame : f = owed[c]
    BY Types
  <2>5. PICK s \in Seq(Chunk) : s = in[c]
    BY Types
  <2>6. /\ in' = [in EXCEPT ![c] = Append(@, DataChunk(f))]
        /\ owed' = [owed EXCEPT ![c] = NoFrame] /\ f # NoFrame
        /\ UNCHANGED <<wpc, wi, clienttab, devout, nsent>>
    BY <1>7, <2>1 DEF PSendData
  <2>7. /\ in'[c] = Append(s, DataChunk(f)) /\ owed'[c] = NoFrame /\ nsent'[c] = nsent[c]
        /\ \A d \in Conns : d # c => in'[d] = in[d] /\ owed'[d] = owed[d] /\ nsent'[d] = nsent[d]
    BY <2>5, <2>6, Types
  <2>8. UNCHANGED log
    BY <1>7, <2>6, LogSteps DEF PSendData, WRecvData, RRead, readerVars
  <2>9. Current' = Current /\ \A d \in Conns : Taken(d)' = Taken(d)
    BY <1>b, <2>6, <2>8 DEF Current, Taken
  <2>10. PICK n \in Nat : n = nsent[c]
    BY TakenType
  <2>11. PICK b \in Nat : b = Taken(c)
    BY TakenType
  <2>12. PICK body \in BOOLEAN : body = (wpc = "body" /\ c = Current)
    OBVIOUS
  <2>15. wpc \notin {"done", "spin"}
    BY <2>6
  <2>13. ASSUME Fresh(c)'
         PROVE  Numbered(in'[c], owed'[c], nsent'[c], Taken(c)', (wpc = "body" /\ c = Current)')
    <3>1. Fresh(c)
      BY <1>a, <2>13
    <3>2. Numbered(s, f, n, b, body)
      BY <2>1, <2>5, <2>10, <2>11, <2>12, <2>15, <3>1 DEF CountInv
    <3>3. Owes(s, f)
      BY <2>1, <2>5 DEF InInv
    <3>4. s = <<>> => body
      BY <2>1, <2>5, <2>6, <2>12, <2>15, <3>1 DEF InInv, InPlace, AtSize
    <3>6. Numbered(Append(s, DataChunk(f)), NoFrame, n, b, body)
      BY <2>6, <3>2, <3>3, <3>4, NumberDeliver
    <3>7. (wpc = "body" /\ c = Current)' = body
      BY <2>6, <2>9, <2>12
    <3> QED
      BY <2>7, <2>9, <2>10, <2>11, <3>6, <3>7
  <2>14. \A d \in Conns : (wpc = "body" /\ d = Current)' = (wpc = "body" /\ d = Current)
    BY <2>6, <2>9
  <2> QED
    BY <1>a, <2>7, <2>9, <2>13, <2>14, <2>15, CountElsewhere
<1> QED
  BY <1>1, <1>2, <1>3, <1>4, <1>5, <1>6, <1>7, <1>b, CountSteps

-----------------------------------------------------------------------------
(* The log, and what was given out of it. *)

\* The frame that enters the log is the next one of its source.
LEMMA LogNext ==
    ASSUME IInv, FrameInv, InInv, CountInv, LogInv, DevInv, Logging
    PROVE  \/ log' = log /\ ~RRead /\ (WRecvData => HasTap)
           \/ \E f \in Frame :
                 /\ log' = Append(log, f) /\ f.n = Count(f.src, log) + 1
                 /\ f.len \in PeerLens \cup DevLens
                 /\ \/ RRead /\ HasTap /\ f = rbuf' /\ f.src = Dev
                    \/ WRecvData /\ ~HasTap /\ f = wbuf' /\ f.src = Current /\ f.src \in Entries
<1>1. CASE RRead
  <2>1. PICK f \in Frame : f = rbuf' /\ f.src = Dev /\ f.len \in PeerLens \cup DevLens
                           /\ f.n = Count(Dev, log) + 1
    BY <1>1, ReadsNext DEF Owned
  <2>2. ~WRecvData
    BY <1>1 DEF RRead, WRecvData, notReader, writerVars
  <2>3. log' = Append(log, f) /\ HasTap
    BY <1>1, <2>1, <2>2, LogSteps, ReadsNext
  <2> QED
    BY <1>1, <2>1, <2>3
<1>2. CASE WRecvData /\ ~HasTap
  <2>1. PICK f \in Frame : f = wbuf' /\ f.src = Current /\ f.len \in PeerLens \cup DevLens
                           /\ f.n = Taken(Current) + 1
    BY <1>2, ReceivesNext DEF Owned
  <2>2. ~RRead
    BY <1>2, ReadsNext
  <2>3. log' = Append(log, f)
    BY <1>2, <2>1, <2>2, LogSteps
  <2>4. f.n = Count(f.src, log) + 1 /\ f.src \in Entries
    BY <1>2, <2>1, ReceivesNext DEF Taken
  <2> QED
    BY <1>2, <2>1, <2>3, <2>4
<1> QED
  BY <1>1, <1>2, LogSteps

LEMMA LogInvNext ==
    ASSUME IInv, FrameInv, InInv, CountInv, LogInv, DevInv, Logging
    PROVE  LogInv' /\ DevInv' /\ Logged \subseteq Logged'
<1>1. LogInv' /\ Logged \subseteq Logged'
  <2>1. CASE log' = log
    BY <2>1 DEF LogInv, Logged, Count
  <2>2. CASE log' # log
    <3>1. PICK f \in Frame : log' = Append(log, f) /\ f.n = Count(f.src, log) + 1
      BY <2>2, LogNext
    <3> QED
      BY <3>1, LogGrows
  <2> QED
    BY <2>1, <2>2
<1>2. WRecvData /\ ~HasTap => wbuf' \in Frame /\ wbuf'.src # Dev
  BY ReceivesNext, ServerAssumption DEF Owned
<1>3. DevInv'
  BY <1>1, <1>2, DevInvNext
<1> QED
  BY <1>1, <1>3

LEMMA GotSteps ==
    ASSUME IInv, [Next]_vars
    PROVE  \/ RSendData \/ WFwdData
           \/ \A c \in Conns : Got(c)' = Got(c)
<1>1. CASE out' = out
  BY <1>1 DEF Got
<1>2. CASE RSendSize
  <2>1. ri \in 1 .. Len(clienttab)
    BY <1>2, Types DEF RSendSize
  <2>2. PICK c \in Conns : c = clienttab[ri]
    BY <2>1, Types
  <2>3. PICK f \in Frame : f = rbuf
    BY Types
  <2> QED
    BY <1>2, <2>2, <2>3, SendGot DEF RSendSize
<1>3. CASE WFwdSize
  <2>1. wj \in 1 .. Len(clienttab)
    BY <1>3, Types DEF WFwdSize
  <2>2. PICK c \in Conns : c = clienttab[wj]
    BY <2>1, Types
  <2>3. PICK f \in Frame : f = wbuf
    BY Types
  <2> QED
    BY <1>3, <2>2, <2>3, SendGot DEF WFwdSize
<1>4. CASE RSendFail \/ WRecvSize \/ WRecvData \/ WRecvFail \/ WFwdSelf \/ WFwdFail \/ WAdd \/ MConnect
  BY <1>1, <1>4 DEF RSendFail, WRecvSize, WRecvData, WRecvFail, WFwdSelf, WFwdFail, WAdd, MConnect,
     sockVars, notMain
<1>5. CASE QuietSent
  BY <1>1, <1>5 DEF QuietSent
<1> QED
  BY <1>2, <1>3, <1>4, <1>5, SentSteps

\* A payload goes to one client of the table.
LEMMA ReaderGives ==
    ASSUME IInv, RSendData
    PROVE  /\ ri \in 1 .. Len(clienttab)
           /\ \E c \in Entries \cap Conns, f \in Frame :
                 /\ c = clienttab[ri] /\ f = rbuf
                 /\ Send(c, DataChunk(f))
                 /\ \A d \in Conns : d # c => Got(d)' = Got(d)
                 /\ Got(c)' = Got(c) \cup {f}
<1>1. ri \in 1 .. Len(clienttab)
  BY Types DEF RSendData, IInv, IndexInv
<1>2. PICK c \in Entries \cap Conns : c = clienttab[ri]
  BY <1>1, Types DEF Entries
<1>3. PICK f \in Frame : f = rbuf
  BY Types
<1>4. Send(c, DataChunk(f))
  BY <1>2, <1>3 DEF RSendData
<1>5. (\A d \in Conns : d # c => Got(d)' = Got(d)) /\ Got(c)' = Got(c) \cup {f}
  BY <1>4, SendGot
<1> QED
  BY <1>1, <1>2, <1>3, <1>4, <1>5

LEMMA WriterGives ==
    ASSUME IInv, WFwdData
    PROVE  /\ wj \in 1 .. Len(clienttab)
           /\ \E c \in Entries \cap Conns, f \in Frame :
                 /\ c = clienttab[wj] /\ f = wbuf
                 /\ Send(c, DataChunk(f))
                 /\ \A d \in Conns : d # c => Got(d)' = Got(d)
                 /\ Got(c)' = Got(c) \cup {f}
<1>1. wj \in 1 .. Len(clienttab)
  BY Types DEF WFwdData, IInv, IndexInv
<1>2. PICK c \in Entries \cap Conns : c = clienttab[wj]
  BY <1>1, Types DEF Entries
<1>3. PICK f \in Frame : f = wbuf
  BY Types
<1>4. Send(c, DataChunk(f))
  BY <1>2, <1>3 DEF WFwdData
<1>5. (\A d \in Conns : d # c => Got(d)' = Got(d)) /\ Got(c)' = Got(c) \cup {f}
  BY <1>4, SendGot
<1> QED
  BY <1>1, <1>2, <1>3, <1>4, <1>5

LEMMA GotInvNext ==
    ASSUME IInv, FrameInv, InInv, CountInv, LogInv, DevInv, GotInv, ReaderLatest, WriterLatest,
           Logging
    PROVE  GotInv'
<1>1. Logged \subseteq Logged' /\ [Next]_vars
  BY LogInvNext, LogSteps
<1>2. log # <<>> => log[Len(log)] \in Logged
  BY DEF LogInv, Logged
<1>3. CASE \A c \in Conns : Got(c)' = Got(c)
  BY <1>1, <1>3 DEF GotInv
<1>4. CASE RSendData
  <2>1. rbuf \in Logged
    BY <1>2, <1>4 DEF RSendData, ReaderLatest
  <2>2. PICK c \in Conns, f \in Frame :
           /\ f = rbuf /\ Got(c)' = Got(c) \cup {f}
           /\ \A d \in Conns : d # c => Got(d)' = Got(d)
    BY <1>4, ReaderGives
  <2> QED
    BY <1>1, <2>1, <2>2 DEF GotInv
<1>5. CASE WFwdData
  <2>1. wbuf \in Logged
    BY <1>2, <1>5 DEF WFwdData, WriterLatest
  <2>2. PICK c \in Conns, f \in Frame :
           /\ f = wbuf /\ Got(c)' = Got(c) \cup {f}
           /\ \A d \in Conns : d # c => Got(d)' = Got(d)
    BY <1>5, WriterGives
  <2> QED
    BY <1>1, <2>1, <2>2 DEF GotInv
<1> QED
  BY <1>1, <1>3, <1>4, <1>5, GotSteps

LEMMA ReaderSteps ==
    ASSUME IInv, [Next]_vars, rpc' \in {"lock", "size", "data"}
    PROVE  \/ RRead \/ RLock \/ RSendSize \/ RSendData \/ RSendFail
           \/ /\ UNCHANGED <<rpc, ri, rbuf>>
              /\ rpc # "lock" => UNCHANGED <<clienttab, out>>
<1>1. ASSUME Reader
      PROVE  \/ RRead \/ RLock \/ RSendSize \/ RSendData \/ RSendFail
             \/ UNCHANGED <<rpc, ri, rbuf, clienttab, out>>
  BY <1>1 DEF Reader, RNothing, RSigpipe, RUnlock, RCheck, Recheck
<1>2. ASSUME Writer
      PROVE  UNCHANGED <<rpc, ri, rbuf>> /\ (rpc \in {"size", "data"} => UNCHANGED <<clienttab, out>>)
  <2>1. UNCHANGED <<rpc, ri, rbuf>>
    BY <1>2 DEF Writer, WBuild, WSelect, WSelectFail, WLock, WSkip, WRecvSize, WRecvFail, WRecvData,
       WRecvEof, WSpin, WWrite, WWriteFail, WFwdSelf, WFwdSize, WFwdData, WFwdFail, WSigpipe,
       WFwdEnd, WUnlock, WAccept, WAcceptFail, WAdd, WCheck, notWriter, readerVars, vars
  <2>2. ASSUME rpc \in {"size", "data"} PROVE UNCHANGED <<clienttab, out>>
    <3>1. mutex # Free /\ wpc \notin {"scan", "body", "write", "fsize", "fdata", "spin"}
      BY <2>2, Exclusive DEF IInv, MutexInv, Free
    <3> QED
      BY <1>2, <3>1 DEF Writer, WBuild, WSelect, WSelectFail, WLock, WSkip, WRecvSize, WRecvFail,
         WRecvData, WRecvEof, WSpin, WWrite, WWriteFail, WFwdSelf, WFwdSize, WFwdData, WFwdFail,
         WSigpipe, WFwdEnd, WUnlock, WAccept, WAcceptFail, WAdd, WCheck, AtForward, Lock, sockVars
  <2> QED
    BY <2>1, <2>2
<1>3. ASSUME Main PROVE UNCHANGED <<rpc, ri, rbuf, clienttab, out>>
  <2>1. ~MConnect /\ ~MCreateReader
    BY <1>3 DEF MConnect, MCreateReader, IInv, LifeInv
  <2> QED
    BY <1>3, <2>1 DEF Main, MFreeIfname, MStart, MStartFail, MCreateWriter, MStop, MJoinReader,
       MJoinWriter, MJoin, MClose, MDestroy, notMain
<1>4. ASSUME Environment PROVE UNCHANGED <<rpc, ri, rbuf, clienttab, out>>
  BY <1>4 DEF Environment, PConnect, PSendSize, PSendData, PMove, DFrame, system, sockVars,
     readerVars
<1>5. CASE UNCHANGED vars
  BY <1>5 DEF vars, readerVars
<1> QED
  BY <1>1, <1>2, <1>3, <1>4, <1>5 DEF Next, Halted, IInv, TypeOK, ThreadTypeOK

LEMMA WriterSteps ==
    ASSUME IInv, [Next]_vars, wpc' \in {"fsize", "fdata"}
    PROVE  \/ WRecvData \/ WFwdSelf \/ WFwdSize \/ WFwdData \/ WFwdFail
           \/ UNCHANGED <<wpc, wj, wbuf, clienttab, out>>
<1>1. ASSUME Reader PROVE UNCHANGED <<wpc, wj, wbuf, clienttab, out>>
  <2>1. UNCHANGED <<wpc, wj, wbuf>>
    BY <1>1 DEF Reader, RRead, RNothing, RLock, RSendSize, RSendData, RSendFail, RSigpipe,
       RUnlock, RCheck, notReader, writerVars, scanVars
  <2>2. rpc \notin {"size", "data"}
    BY <2>1, Exclusive
  <2> QED
    BY <1>1, <2>1, <2>2 DEF Reader, RRead, RNothing, RLock, RSendSize, RSendData, RSendFail,
       RSigpipe, RUnlock, RCheck
<1>2. ASSUME Writer
      PROVE  \/ WRecvData \/ WFwdSelf \/ WFwdSize \/ WFwdData \/ WFwdFail
             \/ UNCHANGED <<wpc, wj, wbuf, clienttab, out>>
  BY <1>2 DEF Writer, WBuild, WSelect, WSelectFail, WLock, WSkip, WRecvSize, WRecvFail,
     WRecvEof, WSpin, WWrite, WWriteFail, WSigpipe, WFwdEnd, WUnlock, WAccept, WAcceptFail,
     WAdd, WCheck, AtForward, Recheck, vars, writerVars, scanVars, sockVars
<1>3. ASSUME Main PROVE UNCHANGED <<wpc, wj, wbuf, clienttab, out>>
  BY <1>3 DEF Main, MConnect, MFreeIfname, MStart, MStartFail, MCreateReader, MCreateWriter,
     MStop, MJoinReader, MJoinWriter, MJoin, MClose, MDestroy, notMain, scanVars, IInv, LifeInv
<1>4. ASSUME Environment PROVE UNCHANGED <<wpc, wj, wbuf, clienttab, out>>
  BY <1>4 DEF Environment, PConnect, PSendSize, PSendData, PMove, DFrame, system, sockVars,
     writerVars, scanVars
<1>5. CASE UNCHANGED vars
  BY <1>5 DEF vars, writerVars, scanVars
<1> QED
  BY <1>1, <1>2, <1>3, <1>4, <1>5 DEF Next, Halted

LEMMA ReaderLatestNext ==
    ASSUME IInv, FrameInv, InInv, CountInv, LogInv, DevInv, GotInv, ReaderLatest, WriterLatest,
           Logging
    PROVE  ReaderLatest'
<1> SUFFICES ASSUME rpc' \in {"lock", "size", "data"}
             PROVE  /\ HasTap' /\ log' # <<>> /\ rbuf' = log'[Len(log')]
                    /\ rpc' = "lock" => \A c \in Conns : rbuf' \notin Got(c)'
                    /\ rpc' # "lock" =>
                          \A k \in ri' .. Len(clienttab') : (rbuf \notin Got(clienttab[k]))'
  BY DEF ReaderLatest
<1>0. [Next]_vars /\ HasTap' = HasTap
  BY LogSteps, ModeKept
<1>t. /\ Len(clienttab) \in Nat /\ \A k \in 1 .. Len(clienttab) : clienttab[k] \in Conns
      /\ ri \in Nat \ {0} /\ clienttab \in Seq(Conns)
  BY Types
<1>1. CASE RRead
  <2>1. PICK f \in Frame : /\ f = rbuf' /\ log' = Append(log, f) /\ f.n = Count(f.src, log) + 1
                           /\ HasTap
    BY <1>1, LogNext, ReadsNext
  <2>2. f \notin Logged /\ log' # <<>> /\ log'[Len(log')] = f
    BY <2>1, LogGrows
  <2>3. out' = out /\ rpc' = "lock"
    BY <1>1 DEF RRead
  <2>4. \A c \in Conns : Got(c)' = Got(c)
    BY <2>3 DEF Got
  <2> QED
    BY <1>0, <2>1, <2>2, <2>3, <2>4 DEF GotInv
<1>2. CASE ~RRead
  <2>1. rpc \in {"lock", "size", "data"}
    BY <1>0, <1>2, ReaderSteps DEF RLock, RSendSize, RSendData, RSendFail
  <2>2. HasTap /\ log # <<>> /\ rbuf = log[Len(log)]
    BY <2>1 DEF ReaderLatest
  <2>3. log' = log /\ rbuf' = rbuf
    <3>1. log' = log
      BY <1>2, <2>2, LogNext
    <3>2. rbuf' = rbuf
      BY <1>0, <1>2, ReaderSteps DEF RLock, RSendSize, RSendData, RSendFail
    <3> QED
      BY <3>1, <3>2
  <2>4. HasTap' /\ log' # <<>> /\ rbuf' = log'[Len(log')]
    BY <1>0, <2>2, <2>3
  <2>5. ~WFwdData
    BY <2>2 DEF WriterLatest, WFwdData
  <2>6. CASE RLock
    <3>1. /\ rpc' = "size" /\ ri' = 1 /\ UNCHANGED <<clienttab, out>>
          /\ \A c \in Conns : rbuf \notin Got(c)
      BY <2>6 DEF RLock, ReaderLatest
    <3>2. \A c : Got(c)' = Got(c)
      BY <3>1 DEF Got
    <3>3. \A k \in ri' .. Len(clienttab') : (rbuf \notin Got(clienttab[k]))'
      BY <1>t, <2>3, <3>1, <3>2
    <3> QED
      BY <2>4, <3>1, <3>3
  <2>7. CASE RSendSize
    <3>1. /\ rpc = "size" /\ rpc' = "data" /\ UNCHANGED <<clienttab, ri>>
          /\ \A k \in ri .. Len(clienttab) : rbuf \notin Got(clienttab[k])
      BY <2>7 DEF RSendSize, ReaderLatest
    <3>2. \A c \in Conns : Got(c)' = Got(c)
      BY <1>0, <2>5, <3>1, GotSteps DEF RSendData
    <3>3. \A k \in ri' .. Len(clienttab') : (rbuf \notin Got(clienttab[k]))'
      BY <1>t, <2>3, <3>1, <3>2
    <3> QED
      BY <2>4, <3>1, <3>3
  <2>8. CASE RSendData
    <3>1. /\ rpc = "data" /\ rpc' = "size" /\ clienttab' = clienttab /\ ri' = ri + 1
          /\ \A k \in ri .. Len(clienttab) : rbuf \notin Got(clienttab[k])
      BY <2>8 DEF RSendData, ReaderLatest
    <3>2. PICK c \in Conns : c = clienttab[ri] /\ \A d \in Conns : d # c => Got(d)' = Got(d)
      BY <2>8, ReaderGives
    <3>3. ri \in 1 .. Len(clienttab)
      BY <2>8, ReaderGives
    <3>4. \A k \in ri + 1 .. Len(clienttab) : clienttab[k] # c /\ k \in ri .. Len(clienttab)
      BY <1>t, <3>2, <3>3 DEF IInv, TableInv
    <3>5. \A k \in ri' .. Len(clienttab') : (rbuf \notin Got(clienttab[k]))'
      BY <1>t, <2>3, <3>1, <3>2, <3>4
    <3> QED
      BY <2>4, <3>1, <3>5
  <2>9. CASE RSendFail
    <3>1. /\ rpc \in {"size", "data"} /\ rpc' = "size" /\ ri' = ri + 1 /\ ri <= Len(clienttab)
          /\ clienttab' = RemoveClient(clienttab, ri) /\ out' = out
      BY <2>9 DEF RSendFail
    <3>2. PICK idx \in 1 .. Len(clienttab) : idx = ri
      BY <1>t, <3>1
    <3>3. /\ Len(clienttab') = Len(clienttab) - 1
          /\ \A k \in 1 .. Len(clienttab) - 1 :
                clienttab'[k] = IF k < idx THEN clienttab[k] ELSE clienttab[k + 1]
      BY <1>t, <3>1, <3>2, RemoveClientShape
    <3>4. \A k \in ri .. Len(clienttab) : rbuf \notin Got(clienttab[k])
      BY <3>1 DEF ReaderLatest
    <3>5. ASSUME NEW k \in ri' .. Len(clienttab') PROVE (rbuf \notin Got(clienttab[k]))'
      <4>1. clienttab'[k] = clienttab[k + 1] /\ k + 1 \in ri .. Len(clienttab)
        BY <1>t, <3>1, <3>2, <3>3
      <4>2. rbuf' \notin PayloadsOf(out'[clienttab'[k]])
        BY <2>3, <3>1, <3>4, <4>1, GotPayloads
      <4> QED
        BY <4>2 DEF Got, PayloadsOf
    <3> QED
      BY <2>4, <3>1, <3>5
  <2>10. CASE UNCHANGED <<rpc, ri, rbuf>> /\ (rpc # "lock" => UNCHANGED <<clienttab, out>>)
                /\ ~RSendData
    <3>1. rpc' = "lock" => \A c \in Conns : rbuf' \notin Got(c)'
      <4>1. \A c \in Conns : Got(c)' = Got(c)
        BY <1>0, <2>5, <2>10, GotSteps
      <4> QED
        BY <2>3, <2>10, <4>1 DEF ReaderLatest
    <3>2. rpc' # "lock" => \A k \in ri' .. Len(clienttab') : (rbuf \notin Got(clienttab[k]))'
      <4>1. \A c : out' = out => Got(c)' = Got(c)
        BY DEF Got
      <4> QED
        BY <2>1, <2>3, <2>10, <4>1 DEF ReaderLatest
    <3> QED
      BY <2>4, <3>1, <3>2
  <2> QED
    BY <1>0, <1>2, <2>6, <2>7, <2>8, <2>9, <2>10, ReaderSteps
<1> QED
  BY <1>1, <1>2

LEMMA WriterLatestNext ==
    ASSUME IInv, FrameInv, InInv, CountInv, LogInv, DevInv, GotInv, ReaderLatest, WriterLatest,
           Logging
    PROVE  WriterLatest'
<1> SUFFICES ASSUME wpc' \in {"fsize", "fdata"}
             PROVE  /\ ~HasTap' /\ log' # <<>> /\ wbuf' = log'[Len(log')]
                    /\ \A k \in wj' .. Len(clienttab') : (wbuf \notin Got(clienttab[k]))'
  BY DEF WriterLatest
<1>0. [Next]_vars /\ HasTap' = HasTap
  BY LogSteps, ModeKept
<1>t. /\ Len(clienttab) \in Nat /\ \A k \in 1 .. Len(clienttab) : clienttab[k] \in Conns
      /\ wj \in Nat \ {0} /\ clienttab \in Seq(Conns)
  BY Types
<1>1. CASE WRecvData
  <2>0. ~HasTap /\ wj' = 1 /\ UNCHANGED <<clienttab, out>>
    BY <1>1 DEF WRecvData
  <2>1. PICK f \in Frame : f = wbuf' /\ log' = Append(log, f) /\ f.n = Count(f.src, log) + 1
    BY <1>1, <2>0, LogNext
  <2>2. f \notin Logged /\ log' # <<>> /\ log'[Len(log')] = f
    BY <2>1, LogGrows
  <2>3. \A c : Got(c)' = Got(c)
    BY <2>0 DEF Got
  <2>4. \A k \in wj' .. Len(clienttab') : (wbuf \notin Got(clienttab[k]))'
    BY <1>t, <2>0, <2>1, <2>2, <2>3 DEF GotInv
  <2> QED
    BY <1>0, <2>0, <2>1, <2>2, <2>4
<1>2. CASE ~WRecvData
  <2>1. wpc \in {"fsize", "fdata"} /\ wbuf' = wbuf
    BY <1>0, <1>2, WriterSteps DEF WFwdSelf, WFwdSize, WFwdData, WFwdFail, AtForward, scanVars
  <2>2. /\ ~HasTap /\ log # <<>> /\ wbuf = log[Len(log)]
        /\ \A k \in wj .. Len(clienttab) : wbuf \notin Got(clienttab[k])
    BY <2>1 DEF WriterLatest
  <2>3. log' = log
    BY <1>2, <2>2, LogNext
  <2>4. ~HasTap' /\ log' # <<>> /\ wbuf' = log'[Len(log')]
    BY <1>0, <2>1, <2>2, <2>3
  <2>5. ~RSendData
    BY <2>2 DEF ReaderLatest, RSendData
  <2>6. CASE WFwdSelf
    <3>1. wj' = wj + 1 /\ UNCHANGED <<clienttab, out>>
      BY <2>6 DEF WFwdSelf, sockVars
    <3>2. \A c : Got(c)' = Got(c)
      BY <3>1 DEF Got
    <3>3. \A k \in wj' .. Len(clienttab') : k \in wj .. Len(clienttab)
      BY <1>t, <3>1
    <3> QED
      BY <2>1, <2>2, <2>4, <3>1, <3>2, <3>3
  <2>7. CASE WFwdSize
    <3>1. wpc = "fsize" /\ UNCHANGED <<clienttab, wj>>
      BY <2>7 DEF WFwdSize, scanVars
    <3>2. \A c \in Conns : Got(c)' = Got(c)
      BY <1>0, <2>5, <3>1, GotSteps DEF WFwdData
    <3>3. \A k \in wj' .. Len(clienttab') : (wbuf \notin Got(clienttab[k]))'
      BY <1>t, <2>1, <2>2, <3>1, <3>2
    <3> QED
      BY <2>4, <3>3
  <2>8. CASE WFwdData
    <3>1. clienttab' = clienttab /\ wj' = wj + 1
      BY <2>8 DEF WFwdData
    <3>2. PICK c \in Conns : c = clienttab[wj] /\ \A d \in Conns : d # c => Got(d)' = Got(d)
      BY <2>8, WriterGives
    <3>3. wj \in 1 .. Len(clienttab)
      BY <2>8, WriterGives
    <3>4. \A k \in wj + 1 .. Len(clienttab) : clienttab[k] # c /\ k \in wj .. Len(clienttab)
      BY <1>t, <3>2, <3>3 DEF IInv, TableInv
    <3>5. \A k \in wj' .. Len(clienttab') : (wbuf \notin Got(clienttab[k]))'
      BY <1>t, <2>1, <2>2, <3>1, <3>2, <3>4
    <3> QED
      BY <2>4, <3>5
  <2>9. CASE WFwdFail
    <3>0. wj \in 1 .. Len(clienttab)
      BY <1>t, <2>9 DEF WFwdFail, AtForward, IInv, IndexInv
    <3>1. wj' = wj + 1 /\ clienttab' = RemoveClient(clienttab, wj) /\ out' = out
      BY <2>9 DEF WFwdFail, sockVars
    <3>2. PICK idx \in 1 .. Len(clienttab) : idx = wj
      BY <3>0
    <3>3. /\ Len(clienttab') = Len(clienttab) - 1
          /\ \A k \in 1 .. Len(clienttab) - 1 :
                clienttab'[k] = IF k < idx THEN clienttab[k] ELSE clienttab[k + 1]
      BY <1>t, <3>1, <3>2, RemoveClientShape
    <3>5. ASSUME NEW k \in wj' .. Len(clienttab') PROVE (wbuf \notin Got(clienttab[k]))'
      <4>1. clienttab'[k] = clienttab[k + 1] /\ k + 1 \in wj .. Len(clienttab)
        BY <1>t, <3>1, <3>2, <3>3
      <4>2. wbuf' \notin PayloadsOf(out'[clienttab'[k]])
        BY <2>1, <2>2, <3>1, <4>1, GotPayloads
      <4> QED
        BY <4>2 DEF Got, PayloadsOf
    <3> QED
      BY <2>4, <3>1, <3>5
  <2>10. CASE UNCHANGED <<wpc, wj, wbuf, clienttab, out>>
    <3>1. \A c : Got(c)' = Got(c)
      BY <2>10 DEF Got
    <3> QED
      BY <2>2, <2>4, <2>10, <3>1
  <2> QED
    BY <1>0, <1>2, <2>6, <2>7, <2>8, <2>9, <2>10, WriterSteps
<1> QED
  BY <1>1, <1>2

-----------------------------------------------------------------------------
(* What the clients were given, as positions in the log. *)

Given == [c \in Conns |-> Positions(c)]

LEMMA PositionIs ==
    ASSUME LogInv, NEW k \in 1 .. Len(log) PROVE Position(log[k]) = k
<1>1. \A l \in 1 .. Len(log) : log[l] = log[k] => l = k
  BY DEF LogInv
<1> QED
  BY <1>1 DEF Position

LEMMA PositionKept ==
    ASSUME LogInv, LogInv', NEW f \in Logged, log' = log \/ \E g \in Frame : log' = Append(log, g)
    PROVE  Position(f)' = Position(f)
<1>1. PICK k \in 1 .. Len(log) : f = log[k]
  BY DEF Logged
<1>2. Len(log) \in Nat /\ log \in Seq(Frame)
  BY DEF LogInv
<1>3. k \in 1 .. Len(log') /\ log'[k] = f
  <2>1. CASE log' = log
    BY <1>1, <2>1
  <2>2. ASSUME NEW g \in Frame, log' = Append(log, g) PROVE k \in 1 .. Len(log') /\ log'[k] = f
    BY <1>1, <1>2, <2>2
  <2> QED
    BY <2>1, <2>2
<1>4. \A l \in 1 .. Len(log') : log'[l] = f => l = k
  BY <1>3 DEF LogInv
<1>5. Position(f)' = k
  BY <1>3, <1>4 DEF Position
<1> QED
  BY <1>1, <1>5, PositionIs

LEMMA Halves ==
    ASSUME NEW m \in Nat
    PROVE  /\ m \div 2 \in Nat
           /\ m % 2 = 1 => (m + 1) \div 2 = m \div 2 + 1 /\ 2 * (m \div 2 + 1) = m + 1
           /\ m % 2 # 1 => (m + 1) \div 2 = m \div 2
           /\ \A k \in 1 .. m \div 2 : 2 * k \in 1 .. m /\ (2 * k) % 2 # 1
<1>1. m \div 2 \in Nat
  OBVIOUS
<1>2. m % 2 = 1 => (m + 1) \div 2 = m \div 2 + 1
  OBVIOUS
<1>3. m % 2 = 1 => 2 * (m \div 2 + 1) = m + 1
  OBVIOUS
<1>4. m % 2 # 1 => (m + 1) \div 2 = m \div 2
  OBVIOUS
<1>5. ASSUME NEW k \in 1 .. m \div 2 PROVE 2 * k \in 1 .. m 
  OBVIOUS
<1>6. ASSUME NEW k \in 1 .. m \div 2 PROVE (2 * k) % 2 # 1
  <2>1. k \in Nat
    OBVIOUS
  <2>2. (2 * k) % 2 # 1
    BY <2>1
  <2> QED
    BY <2>2
<1> QED
  BY <1>1, <1>2, <1>3, <1>4, <1>5, <1>6

\* Every second chunk is a payload.
LEMMA SecondIsPayload ==
    ASSUME IInv, OutInv, NEW c \in Conns
    PROVE  /\ Len(out[c]) \in Nat /\ Len(out[c]) \div 2 \in Nat
           /\ \A k \in 1 .. Len(out[c]) \div 2 :
                 2 * k \in 1 .. Len(out[c]) /\ out[c][2 * k].frame \in Got(c)
<1>1. out[c] \in Seq(Chunk) /\ Framed(out[c])
  BY Types DEF OutInv
<1>2. PICK m \in Nat : m = Len(out[c])
  BY <1>1
<1>3. ASSUME NEW k \in 1 .. m \div 2
      PROVE  2 * k \in 1 .. Len(out[c]) /\ out[c][2 * k].frame \in Got(c)
  <2>1. 2 * k \in 1 .. m /\ (2 * k) % 2 # 1
    BY Halves
  <2>2. out[c][2 * k].kind = "data"
    BY <1>1, <1>2, <2>1 DEF Framed
  <2> QED
    BY <1>2, <2>1, <2>2 DEF Got
<1> QED
  BY <1>2, <1>3, Halves

\* A stream that gets no new payload stands for the same positions.
LEMMA PositionsKept ==
    ASSUME IInv, OutInv, LogInv, LogInv', GotInv, NEW c \in Conns,
           log' = log \/ \E g \in Frame : log' = Append(log, g),
           Len(out'[c]) \div 2 = Len(out[c]) \div 2,
           \A k \in 1 .. Len(out[c]) : out'[c][k] = out[c][k]
    PROVE  Positions(c)' = Positions(c)
<1> DEFINE n == Len(out[c]) \div 2
<1>1. ASSUME NEW k \in 1 .. n
      PROVE  Position(out[c][2 * k].frame)' = Position(out[c][2 * k].frame)
  <2>1. 2 * k \in 1 .. Len(out[c]) /\ out[c][2 * k].frame \in Logged
    BY SecondIsPayload DEF GotInv
  <2>2. PICK f \in Logged : f = out[c][2 * k].frame /\ f = out'[c][2 * k].frame
    BY <2>1
  <2>3. Position(f)' = Position(f)
    BY PositionKept
  <2> QED
    BY <2>2, <2>3 DEF Position
<1>2. \A k \in 1 .. n : (Position(out[c][2 * k].frame))' = Position(out[c][2 * k].frame)
  BY <1>1
<1>3. Len(out'[c]) \div 2 = n
  OBVIOUS
<1> HIDE DEF n
<1>4. Positions(c) = [k \in 1 .. n |-> Position(out[c][2 * k].frame)]
  BY DEF Positions, n
<1>5. Positions(c)' = [k \in 1 .. n |-> (Position(out[c][2 * k].frame))']
  BY <1>3 DEF Positions
<1> QED
  BY <1>2, <1>4, <1>5

\* A payload sent is a position given.
LEMMA PositionsGrow ==
    ASSUME IInv, OutInv, LogInv, LogInv', GotInv, NEW c \in Conns, NEW f \in Frame,
           log' = log, log # <<>>, f = log[Len(log)], f \notin Got(c),
           Len(out[c]) % 2 = 1, out'[c] = Append(out[c], DataChunk(f))
    PROVE  /\ Positions(c)' = Append(Positions(c), Len(log))
           /\ Positions(c) = <<>> \/ Positions(c)[Len(Positions(c))] < Len(log)
<1>0. PICK n \in Nat : n = Len(out[c]) \div 2
  BY SecondIsPayload
<1>1. /\ Len(out[c]) \in Nat /\ out[c] \in Seq(Chunk)
      /\ log \in Seq(Frame) /\ Len(log) \in Nat /\ Len(log) \in 1 .. Len(log)
  BY Types DEF LogInv
<1>2. PICK ch \in Chunk : ch = DataChunk(f) /\ ch.frame = f
  BY ChunkTypes DEF DataChunk
<1>3. /\ Len(out'[c]) = Len(out[c]) + 1 /\ out'[c][Len(out[c]) + 1] = ch
      /\ \A k \in 1 .. Len(out[c]) : out'[c][k] = out[c][k]
  BY <1>1, <1>2
<1>4. Len(out'[c]) \div 2 = n + 1 /\ 2 * (n + 1) = Len(out[c]) + 1
  <2>1. PICK m \in Nat : m = Len(out[c])
    BY <1>1
  <2> QED
    BY <1>0, <1>3, <2>1, Halves
<1>5. \A k \in 1 .. n : 2 * k \in 1 .. Len(out[c]) /\ out[c][2 * k].frame \in Got(c)
  BY <1>0, SecondIsPayload
<1>7. Position(f) = Len(log)
  BY <1>1, PositionIs
<1>8. ASSUME NEW k \in 1 .. n
      PROVE  /\ out'[c][2 * k] = out[c][2 * k]
             /\ Position(out[c][2 * k].frame) \in Nat
             /\ Position(out[c][2 * k].frame) < Len(log)
  <2>1. out'[c][2 * k] = out[c][2 * k]
    BY <1>3, <1>5
  <2>2. PICK l \in 1 .. Len(log) : out[c][2 * k].frame = log[l]
    BY <1>5 DEF GotInv, Logged
  <2>3. Position(out[c][2 * k].frame) = l
    BY <2>2, PositionIs
  <2>4. l # Len(log)
    BY <1>5, <2>2
  <2> QED
    BY <1>1, <2>1, <2>3, <2>4
<1>9. PICK q : q = [k \in 1 .. n |-> Position(out[c][2 * k].frame)]
  OBVIOUS
<1>10. q = Positions(c)
  BY <1>0, <1>9 DEF Positions
<1>11. q \in [1 .. n -> Nat] /\ \A k \in 1 .. n : q[k] < Len(log)
  BY <1>8, <1>9
<1>12. q \in Seq(Nat) /\ Len(q) = n
  BY <1>11
<1>13. PICK x \in Nat : x = Len(log)
  BY <1>1
<1>14. out'[c][2 * (n + 1)].frame = f
  BY <1>2, <1>3, <1>4
<1>15. Positions(c)' = [k \in 1 .. n + 1 |-> Position(out'[c][2 * k].frame)]
  <2>1. Positions(c)' = [k \in 1 .. n + 1 |-> (Position(out[c][2 * k].frame))']
    BY <1>4 DEF Positions
  <2>2. \A g : Position(g)' = Position(g)
    BY DEF Position
  <2>3. ASSUME NEW k \in 1 .. n + 1
        PROVE  (Position(out[c][2 * k].frame))' = Position(out'[c][2 * k].frame)
    <3>1. PICK g : g = out'[c][2 * k].frame
      OBVIOUS
    <3>2. (Position(out[c][2 * k].frame))' = Position(g)'
      BY <3>1 DEF Position
    <3> QED
      BY <2>2, <3>1, <3>2
  <2> QED
    BY <2>1, <2>3
<1>16. ASSUME NEW k \in 1 .. n + 1
       PROVE  Position(out'[c][2 * k].frame) = Append(q, x)[k]
  <2>1. CASE k \in 1 .. n
    <3>1. Position(out'[c][2 * k].frame) = q[k]
      BY <1>8, <1>9, <2>1
    <3> QED
      BY <1>12, <2>1, <3>1
  <2>2. CASE k = n + 1
    <3>1. Position(out'[c][2 * k].frame) = x
      BY <1>7, <1>13, <1>14, <2>2
    <3> QED
      BY <1>12, <2>2, <3>1
  <2>3. k \in 1 .. n \/ k = n + 1
    OBVIOUS
  <2> QED
    BY <2>1, <2>2, <2>3
<1>17. Append(q, x) \in [1 .. n + 1 -> Nat]
  <2>1. Append(q, x) \in Seq(Nat) /\ Len(Append(q, x)) = n + 1
    BY <1>12
  <2>2. \A s \in Seq(Nat) : s \in [1 .. Len(s) -> Nat]
    OBVIOUS
  <2> QED
    BY <2>1, <2>2
<1>18. Positions(c)' = Append(q, x)
  BY <1>15, <1>16, <1>17
<1>19. n # 0 => q[n] < Len(log)
  BY <1>11
<1>20. n = 0 => q = <<>>
  BY <1>12
<1> QED
  BY <1>10, <1>12, <1>13, <1>18, <1>19, <1>20

-----------------------------------------------------------------------------
(* The steps of the server as steps of Relay. *)

HInv ==
    /\ IInv /\ FrameInv /\ ConnectInv /\ OutInv /\ InInv
    /\ LogInv /\ DevInv /\ GotInv /\ ReaderLatest /\ WriterLatest /\ WriteNext /\ CountInv

LEMMA HInvNext ==
    ASSUME HInv, Logging PROVE HInv'
<1>1. [Next]_vars
  BY LogSteps DEF HInv
<1>2. IInv'
  BY <1>1, ReaderKeeps, WriterKeeps, MainKeeps, EnvironmentKeeps, StutterKeeps
  DEF HInv, Next, Halted
<1>3. FrameInv' /\ ConnectInv' /\ OutInv' /\ InInv'
  BY <1>1, FrameInvNext, ConnectInvNext, OutInvNext, InInvNext DEF HInv
<1>4. LogInv' /\ DevInv'
  BY LogInvNext DEF HInv
<1>5. GotInv' /\ ReaderLatest' /\ WriterLatest'
  BY GotInvNext, ReaderLatestNext, WriterLatestNext DEF HInv
<1>6. WriteNext' /\ CountInv'
  BY <1>1, WriteNextNext, CountInvNext DEF HInv
<1> QED
  BY <1>2, <1>3, <1>4, <1>5, <1>6 DEF HInv

\* Nothing that Relay speaks about changes but the log.
QuietRelay == UNCHANGED <<clienttab, out, devout>>

Removal ==
    \E idx \in 1 .. Len(clienttab) :
        clienttab' = RemoveClient(clienttab, idx) /\ UNCHANGED <<out, devout>>

LEMMA RelaySteps ==
    ASSUME IInv, [Next]_vars
    PROVE  \/ RSendSize \/ RSendData \/ WFwdSize \/ WFwdData \/ WWrite \/ WAdd \/ MConnect
           \/ ~RRead /\ ~WRecvData /\ Removal
           \/ QuietRelay
<1>1. ASSUME Reader PROVE RSendSize \/ RSendData \/ (~RRead /\ ~WRecvData /\ Removal) \/ QuietRelay
  <2>1. CASE RSendFail
    <3>1. ~RRead /\ ~WRecvData
      BY <2>1 DEF RSendFail, RRead, WRecvData, notReader, writerVars
    <3>2. ri \in 1 .. Len(clienttab)
      BY <2>1, Types DEF RSendFail
    <3> QED
      BY <2>1, <3>1, <3>2 DEF RSendFail, Removal, notReader
  <2>2. CASE ~RSendFail
    BY <1>1, <2>2 DEF Reader, QuietRelay, RRead, RNothing, RLock, RSigpipe, RUnlock, RCheck, notReader
  <2> QED
    BY <2>1, <2>2
<1>2. ASSUME Writer
      PROVE  \/ WFwdSize \/ WFwdData \/ WWrite \/ WAdd
             \/ (~RRead /\ ~WRecvData /\ Removal) \/ QuietRelay
  <2> USE DEF notWriter, readerVars, scanVars, selVars, sockVars
  <2>1. CASE WRecvSize \/ WRecvFail \/ WFwdFail
    <3>1. ~RRead /\ ~WRecvData
      BY <2>1 DEF WRecvSize, WRecvFail, WFwdFail, AtForward, RRead, WRecvData
    <3>2. (WRecvSize \/ WRecvFail => wi \in 1 .. Len(clienttab))
          /\ (WFwdFail => wj \in 1 .. Len(clienttab))
      BY Types DEF WRecvSize, WRecvFail, WFwdFail, AtReady, AtForward, IInv, IndexInv
    <3> QED
      BY <2>1, <3>1, <3>2 DEF WRecvSize, WRecvFail, WFwdFail, Removal, QuietRelay
  <2>2. CASE WBuild \/ WSelect \/ WSelectFail \/ WLock \/ WSkip
    BY <2>2 DEF WBuild, WSelect, WSelectFail, WLock, WSkip, QuietRelay
  <2>3. CASE WRecvData \/ WRecvEof
    BY <2>3 DEF WRecvData, WRecvEof, QuietRelay
  <2>4. CASE WSpin \/ WWriteFail
    BY <2>4 DEF WSpin, WWriteFail, vars, devVars, QuietRelay
  <2>5. CASE WFwdSelf \/ WSigpipe \/ WFwdEnd
    BY <2>5 DEF WFwdSelf, WSigpipe, WFwdEnd, QuietRelay
  <2>6. CASE WUnlock \/ WAccept \/ WAcceptFail \/ WCheck
    BY <2>6 DEF WUnlock, WAccept, WAcceptFail, WCheck, QuietRelay
  <2> QED
    BY <1>2, <2>1, <2>2, <2>3, <2>4, <2>5, <2>6 DEF Writer
<1>3. ASSUME Main PROVE MConnect \/ QuietRelay
  BY <1>3 DEF Main, MFreeIfname, MStart, MStartFail, MCreateReader, MCreateWriter,
     MStop, MJoinReader, MJoinWriter, MJoin, MClose, MDestroy, notMain, devVars, QuietRelay
<1>4. ASSUME Environment PROVE QuietRelay
  BY <1>4 DEF Environment, PConnect, PSendSize, PSendData, PMove, DFrame, system, sockVars,
     QuietRelay
<1>5. CASE UNCHANGED vars
  BY <1>5 DEF vars, devVars, QuietRelay
<1> QED
  BY <1>1, <1>2, <1>3, <1>4, <1>5 DEF Next, Halted

\* The positions given change only when a payload is sent.
LEMMA GivenKept ==
    ASSUME IInv, OutInv, LogInv, LogInv', GotInv, out' = out,
           log' = log \/ \E g \in Frame : log' = Append(log, g)
    PROVE  Given' = Given
<1>1. ASSUME NEW c \in Conns PROVE Positions(c)' = Positions(c)
  BY PositionsKept
<1> QED
  BY <1>1 DEF Given

LEMMA GivenSize ==
    ASSUME IInv, OutInv, LogInv, LogInv', GotInv, log' = log,
           NEW c \in Conns, NEW f \in Frame, Send(c, SizeChunk(f)), Len(out[c]) % 2 # 1
    PROVE  Given' = Given
<1>1. out[c] \in Seq(Chunk) /\ Len(out[c]) \in Nat /\ SizeChunk(f) \in Chunk
  <2>1. out[c] \in Seq(Chunk) /\ Len(out[c]) \in Nat
    BY Types
  <2> QED
    BY <2>1, ChunkTypes
<1>2. out'[c] = Append(out[c], SizeChunk(f)) /\ \A d \in Conns : d # c => out'[d] = out[d]
  BY Types DEF Send
<1>3. PICK m \in Nat : m = Len(out[c])
  BY <1>1
<1>4. Len(out'[c]) = m + 1 /\ \A k \in 1 .. Len(out[c]) : out'[c][k] = out[c][k]
  BY <1>1, <1>2, <1>3
<1>5. Len(out'[c]) \div 2 = Len(out[c]) \div 2
  BY <1>3, <1>4, Halves
<1>6. ASSUME NEW d \in Conns PROVE Positions(d)' = Positions(d)
  <2>1. CASE d = c
    BY <1>4, <1>5, <2>1, PositionsKept
  <2>2. CASE d # c
    BY <1>2, <2>2, PositionsKept
  <2> QED
    BY <2>1, <2>2
<1> QED
  BY <1>6 DEF Given

LEMMA GivenData ==
    ASSUME IInv, OutInv, LogInv, LogInv', GotInv, log' = log, log # <<>>,
           NEW c \in Conns, NEW f \in Frame, Send(c, DataChunk(f)), Len(out[c]) % 2 = 1,
           f = log[Len(log)], f \notin Got(c)
    PROVE  /\ Given' = [Given EXCEPT ![c] = Append(@, Len(log))]
           /\ Given[c] = <<>> \/ Given[c][Len(Given[c])] < Len(log)
<1>1. out'[c] = Append(out[c], DataChunk(f)) /\ \A d \in Conns : d # c => out'[d] = out[d]
  BY Types DEF Send
<1>2. /\ Positions(c)' = Append(Positions(c), Len(log))
      /\ Positions(c) = <<>> \/ Positions(c)[Len(Positions(c))] < Len(log)
  BY <1>1, PositionsGrow
<1>3. ASSUME NEW d \in Conns, d # c PROVE Positions(d)' = Positions(d)
  BY <1>1, <1>3, PositionsKept
<1>4. Given[c] = Positions(c)
  BY DEF Given
<1>5. Given' = [d \in Conns |-> IF d = c THEN Append(Positions(c), Len(log)) ELSE Positions(d)]
  BY <1>2, <1>3 DEF Given
<1> QED
  BY <1>2, <1>4, <1>5 DEF Given

RelayStep == [R!RelayNext]_(R!relayVars)

LEMMA StutterRelay ==
    ASSUME UNCHANGED <<clienttab, log, devout>>, Given' = Given
    PROVE  RelayStep
BY DEF RelayStep, R!relayVars, Entries, Given

LEMMA TakeRelay ==
    ASSUME NEW s \in Entries \cup {Dev}, NEW f \in Frame, f.src = s, f.len \in PeerLens \cup DevLens,
           log' = Append(log, f), f.n = Count(s, log) + 1, log \in Seq(Frame),
           UNCHANGED <<clienttab, devout>>, Given' = Given
    PROVE  RelayStep
<1>1. R!FramesOf(s, log) = Count(s, log)
  BY CountOf
<1>2. f = [src |-> s, n |-> Count(s, log) + 1, len |-> f.len]
  BY DEF Frame
<1>3. R!NextFrame(s, f.len, log) = f
  BY <1>1, <1>2 DEF R!NextFrame
<1>4. Entries' = Entries
  BY DEF Entries
<1>5. s \in R!Sources
  BY DEF R!Sources, Frame
<1>6. R!Take(s, f.len)
  BY <1>3, <1>4 DEF R!Take, Given
<1> QED
  BY <1>5, <1>6 DEF RelayStep, R!RelayNext

LEMMA DeliverRelay ==
    ASSUME NEW c \in Entries \cap Conns, log # <<>>, UNCHANGED <<clienttab, log, devout>>,
           Given' = [Given EXCEPT ![c] = Append(@, Len(log))],
           Given[c] = <<>> \/ Given[c][Len(Given[c])] < Len(log)
    PROVE  RelayStep
<1>1. Entries' = Entries
  BY DEF Entries
<1>2. R!Deliver(c)
  BY <1>1 DEF R!Deliver, Given
<1> QED
  BY <1>2 DEF RelayStep, R!RelayNext

LEMMA LeaveRelay ==
    ASSUME NEW c \in Entries \cap Conns, Entries' = Entries \ {c}, UNCHANGED <<log, devout>>,
           Given' = Given
    PROVE  RelayStep
<1>1. R!Leave(c)
  BY DEF R!Leave, Given
<1> QED
  BY <1>1 DEF RelayStep, R!RelayNext

LEMMA JoinRelay ==
    ASSUME NEW c \in Conns, c \notin Entries, Given[c] = <<>>, Entries' = Entries \cup {c},
           UNCHANGED <<log, devout>>, Given' = Given
    PROVE  RelayStep
<1>1. R!Join(c)
  BY DEF R!Join, Given
<1> QED
  BY <1>1 DEF RelayStep, R!RelayNext

LEMMA WriteRelay ==
    ASSUME NEW c \in Entries \cap Conns, NEW f \in Frame, f.src = c, f.len \in PeerLens \cup DevLens,
           devout' = Append(devout, f), f.n = Count(c, devout) + 1, devout \in Seq(Frame),
           UNCHANGED <<clienttab, log>>, Given' = Given
    PROVE  RelayStep
<1>1. R!FramesOf(c, devout) = Count(c, devout)
  BY CountOf
<1>2. f = [src |-> c, n |-> Count(c, devout) + 1, len |-> f.len]
  BY DEF Frame
<1>3. R!NextFrame(c, f.len, devout) = f
  BY <1>1, <1>2 DEF R!NextFrame
<1>4. Entries' = Entries
  BY DEF Entries
<1>5. R!Write(c, f.len)
  BY <1>3, <1>4 DEF R!Write, Given
<1> QED
  BY <1>5 DEF RelayStep, R!RelayNext

\* Whoever joins the table has got nothing.
LEMMA NothingGiven ==
    ASSUME NEW c \in Conns, out[c] = <<>> PROVE Given[c] = <<>>
<1>1. Len(out[c]) \div 2 = 0
  OBVIOUS
<1>2. PICK q : q = [k \in 1 .. 0 |-> Position(out[c][2 * k].frame)]
  OBVIOUS
<1>3. q = <<>>
  <2>1. q \in [1 .. 0 -> Nat]
    BY <1>2
  <2>2. q \in Seq(Nat) /\ Len(q) = 0
    BY <2>1
  <2> QED
    BY <2>2
<1>4. Given[c] = q
  BY <1>1, <1>2 DEF Given, Positions
<1> QED
  BY <1>3, <1>4

LEMMA RoomJoins ==
    ASSUME IInv, NEW c \in Conns, Room(clienttab), clienttab' = AddClient(clienttab, c)
    PROVE  Entries' = Entries \cup {c}
<1>1. clienttab' = Append(clienttab, c)
  BY DEF AddClient
<1>2. Len(clienttab') = Len(clienttab) + 1 /\ clienttab'[Len(clienttab) + 1] = c
      /\ Len(clienttab) \in Nat
  BY <1>1, Types
<1>3. c \in Entries'
  BY <1>2 DEF Entries
<1> QED
  BY <1>3, OneJoins

LEMMA RelayNextStep ==
    ASSUME HInv, HInv', Logging PROVE RelayStep
<1> USE DEF HInv
<1>0. [Next]_vars
  BY LogSteps
<1>1. CASE log' # log
  <2>1. PICK f \in Frame :
           /\ log' = Append(log, f) /\ f.n = Count(f.src, log) + 1
           /\ f.len \in PeerLens \cup DevLens /\ f.src \in Entries \cup {Dev}
           /\ RRead \/ WRecvData
    BY <1>1, LogNext
  <2>2. UNCHANGED <<clienttab, out, devout>>
    BY <2>1 DEF RRead, WRecvData, notReader
  <2>3. Given' = Given
    BY <2>1, <2>2, GivenKept
  <2> QED
    BY <2>1, <2>2, <2>3, TakeRelay DEF LogInv
<1> SUFFICES ASSUME log' = log PROVE RelayStep
  BY <1>1
<1>2. CASE QuietRelay
  BY <1>2, GivenKept, StutterRelay DEF QuietRelay
<1>3. CASE RSendSize
  <2>1. ri \in 1 .. Len(clienttab)
    BY <1>3, Types DEF RSendSize
  <2>2. PICK c \in Conns : c = clienttab[ri] /\ c \in Entries
    BY <2>1, Types DEF Entries
  <2>3. PICK f \in Frame : f = rbuf
    BY Types
  <2>4. Send(c, SizeChunk(f)) /\ UNCHANGED <<clienttab, devout>> /\ rpc = "size"
    BY <1>3, <2>2, <2>3 DEF RSendSize, notReader
  <2>5. Len(out[c]) % 2 # 1
    BY <2>2, <2>4, Exclusive DEF OutInv, Halfway
  <2> QED
    BY <2>4, <2>5, GivenSize, StutterRelay
<1>4. CASE WFwdSize
  <2>1. wj \in 1 .. Len(clienttab)
    BY <1>4, Types DEF WFwdSize
  <2>2. PICK c \in Conns : c = clienttab[wj] /\ c \in Entries
    BY <2>1, Types DEF Entries
  <2>3. PICK f \in Frame : f = wbuf
    BY Types
  <2>4. Send(c, SizeChunk(f)) /\ UNCHANGED <<clienttab, devout>> /\ wpc = "fsize"
    BY <1>4, <2>2, <2>3 DEF WFwdSize
  <2>5. Len(out[c]) % 2 # 1
    BY <2>2, <2>4, Exclusive DEF OutInv, Halfway
  <2> QED
    BY <2>4, <2>5, GivenSize, StutterRelay
<1>5. CASE RSendData
  <2>1. PICK c \in Entries \cap Conns, f \in Frame :
           c = clienttab[ri] /\ f = rbuf /\ Send(c, DataChunk(f))
    BY <1>5, ReaderGives
  <2>2. rpc = "data" /\ UNCHANGED <<clienttab, devout>> /\ ri \in 1 .. Len(clienttab)
    BY <1>5, ReaderGives DEF RSendData, notReader
  <2>3. f = log[Len(log)] /\ log # <<>> /\ f \notin Got(c)
    BY <2>1, <2>2 DEF ReaderLatest
  <2>4. Len(out[c]) % 2 = 1
    BY <2>1, <2>2 DEF OutInv, Half
  <2> QED
    BY <2>1, <2>2, <2>3, <2>4, GivenData, DeliverRelay
<1>6. CASE WFwdData
  <2>1. PICK c \in Entries \cap Conns, f \in Frame :
           c = clienttab[wj] /\ f = wbuf /\ Send(c, DataChunk(f))
    BY <1>6, WriterGives
  <2>2. wpc = "fdata" /\ UNCHANGED <<clienttab, devout>> /\ wj \in 1 .. Len(clienttab)
    BY <1>6, WriterGives DEF WFwdData
  <2>3. f = log[Len(log)] /\ log # <<>> /\ f \notin Got(c)
    BY <2>1, <2>2 DEF WriterLatest
  <2>4. Len(out[c]) % 2 = 1
    BY <2>1, <2>2 DEF OutInv, Half
  <2> QED
    BY <2>1, <2>2, <2>3, <2>4, GivenData, DeliverRelay
<1>7. CASE Removal
  <2>1. PICK idx \in 1 .. Len(clienttab) :
           clienttab' = RemoveClient(clienttab, idx) /\ UNCHANGED <<out, devout>>
    BY <1>7 DEF Removal
  <2>2. PICK c \in Entries \cap Conns : c = clienttab[idx]
    BY Types DEF Entries
  <2>3. Entries' = Entries \ {c}
    BY <2>1, <2>2, OneLeaves
  <2>4. Given' = Given
    BY <2>1, GivenKept
  <2> QED
    BY <2>1, <2>3, <2>4, LeaveRelay
<1>8. CASE WWrite
  <2>1. /\ wpc = "write" /\ devout' = Append(devout, wbuf) /\ UNCHANGED <<clienttab, out>>
    BY <1>8 DEF WWrite, sockVars
  <2>2. wi \in 1 .. Len(clienttab)
    BY <2>1, Types DEF IInv, IndexInv
  <2>3. PICK c \in Entries \cap Conns : c = Current
    BY <2>2, Types DEF Entries, Current
  <2>4. PICK f \in Frame : f = wbuf
    BY Types
  <2>5. f.src = c /\ f.len \in PeerLens \cup DevLens /\ f.n = Count(c, devout) + 1
    BY <2>1, <2>3, <2>4 DEF WriteNext
  <2>6. devout \in Seq(Frame)
    BY DEF IInv, TypeOK, ConnTypeOK
  <2>7. Given' = Given
    BY <2>1, GivenKept
  <2> QED
    BY <2>1, <2>4, <2>5, <2>6, <2>7, WriteRelay
<1>9. CASE WAdd
  <2>1. PICK c \in Conns : c = newfd /\ c \notin Entries /\ Room(clienttab) /\ out[c] = <<>>
    BY <1>9 DEF WAdd, IInv, RoomInv, OutInv
  <2>2. clienttab' = AddClient(clienttab, c) /\ UNCHANGED <<out, devout>>
    BY <1>9, <2>1 DEF WAdd, sockVars
  <2> QED
    BY <2>1, <2>2, RoomJoins, NothingGiven, GivenKept, JoinRelay
<1>10. CASE MConnect
  <2>1. UNCHANGED <<out, devout>> /\ clienttab = <<>> /\ \A c \in Conns : out[c] = <<>>
    BY <1>10 DEF MConnect, notMain, devVars, IInv, LifeInv, ConnectInv, OutInv
  <2>2. Given' = Given
    BY <2>1, GivenKept
  <2>3. CASE clienttab' = clienttab
    BY <2>1, <2>2, <2>3, StutterRelay
  <2>4. ASSUME NEW c \in Conns, clienttab' = AddClient(clienttab, c) PROVE RelayStep
    <3>1. Room(clienttab) /\ c \notin Entries
      BY <2>1, ServerAssumption DEF Room, Entries
    <3> QED
      BY <2>1, <2>2, <2>4, <3>1, RoomJoins, NothingGiven, JoinRelay
  <2> QED
    BY <1>10, <2>3, <2>4 DEF MConnect
<1> QED
  BY <1>0, <1>2, <1>3, <1>4, <1>5, <1>6, <1>7, <1>8, <1>9, <1>10, RelaySteps

LEMMA RelayInitStep ==
    ASSUME InitH PROVE HInv /\ R!RelayInit
<1>1. IInv /\ FrameInv /\ ConnectInv /\ OutInv /\ InInv
  BY InitOK, FrameInvInit, OutInvInit, InInvInit DEF InitH
<1>2. Init /\ log = <<>> /\ devout = <<>> /\ devin = <<>> /\ ndev = 0 /\ clienttab = <<>>
      /\ rpc = "none" /\ wpc = "none"
      /\ \A c \in Conns : in[c] = <<>> /\ out[c] = <<>> /\ nsent[c] = 0 /\ owed[c] = NoFrame
  BY DEF InitH, Init
<1>3. LogInv
  BY <1>2 DEF LogInv
<1>4. DevInv
  BY <1>2, CountNone DEF DevInv
<1>5. GotInv
  BY <1>2 DEF GotInv, Got
<1>6. ReaderLatest /\ WriterLatest /\ WriteNext
  BY <1>2 DEF ReaderLatest, WriterLatest, WriteNext
<1>7. CountInv
  <2> SUFFICES ASSUME NEW c \in Conns
               PROVE  Numbered(in[c], owed[c], nsent[c], Taken(c), wpc = "body" /\ c = Current)
    BY DEF CountInv
  <2>1. Taken(c) = 0
    BY <1>2, CountNone DEF Taken
  <2>2. (wpc = "body" /\ c = Current) = FALSE
    BY <1>2
  <2>3. Numbers(<<>>, <<>>, NoFrame, 0, 0, FALSE) /\ <<>> \in Seq(Nat)
    BY DEF Numbers
  <2> QED
    BY <1>2, <2>1, <2>2, <2>3 DEF Numbered
<1>8. R!RelayInit
  <2>1. Entries = {}
    BY <1>2 DEF Entries
  <2>2. \A c \in Conns : Positions(c) = <<>>
    BY <1>2, NothingGiven DEF Given
  <2> QED
    BY <1>2, <2>1, <2>2 DEF R!RelayInit
<1> QED
  BY <1>1, <1>3, <1>4, <1>5, <1>6, <1>7, <1>8 DEF HInv

\* ImplementsRelay (TapServerRelay): whatever the threads, the table's
\* compaction and the failing peers do, the server relays as Relay says.
THEOREM RelayImplemented == SpecH => ImplementsRelay
<1>1. InitH => HInv /\ R!RelayInit
  BY RelayInitStep
<1>2. HInv /\ [Next /\ LogStep]_<<vars, log>> => HInv'
  BY HInvNext DEF Logging
<1>3. HInv /\ HInv' /\ [Next /\ LogStep]_<<vars, log>> => [R!RelayNext]_(R!relayVars)
  BY RelayNextStep DEF Logging, RelayStep
<1> QED
  BY <1>1, <1>2, <1>3, PTL DEF SpecH, ImplementsRelay, R!RelaySpec
=============================================================================
