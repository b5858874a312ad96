--------------------------- MODULE TapServerProofs ---------------------------
(***************************************************************************)
(* Safety of TapServer for any number of connections, clients and frames.  *)
(***************************************************************************)
EXTENDS TapServer, TLAPS

\* While the writer is between the select() that watched the server socket and
\* the accept(), there is room: only the writer adds clients.
RoomInv ==
    /\ wpc = "select" /\ Server \in wset => Room(clienttab)
    /\ wpc \in {"lock", "scan", "body", "write", "fsize", "fdata"}
         /\ Server \in rfds => Room(clienttab)
    /\ wpc = "accept" => Room(clienttab)
    /\ wpc = "add" => /\ Room(clienttab) /\ newfd \in Conns
                      /\ conn[newfd] = "open" /\ newfd \notin Entries

\* Which threads there are at each point of main.
LifeInv ==
    /\ mpc \in {"connect", "start", "create_r", "stop"} => rpc = "none" /\ wpc = "none"
    /\ mpc = "connect" => clienttab = <<>>
    /\ mpc = "create_w" => wpc = "none"
    /\ mpc \in {"join_w", "close", "destroy", "exit"} => Joinable(rpc)
    /\ mpc \in {"close", "destroy", "exit"} => Joinable(wpc)
    /\ serversock = "freed" => mpc \in {"destroy", "exit"}

IInv == TypeOK /\ MutexInv /\ IndexInv /\ TableInv /\ RoomInv /\ LifeInv

-----------------------------------------------------------------------------
(* The client table. *)

\* remove_client closes the gap and drops one entry.
LEMMA RemoveClientShape ==
    ASSUME NEW S, NEW tab \in Seq(S), NEW idx \in 1 .. Len(tab)
    PROVE  /\ RemoveClient(tab, idx) \in Seq(S)
           /\ Len(RemoveClient(tab, idx)) = Len(tab) - 1
           /\ \A k \in 1 .. Len(tab) - 1 :
                 RemoveClient(tab, idx)[k] = IF k < idx THEN tab[k] ELSE tab[k + 1]
<1>1. Len(tab) - 1 \in Nat
  OBVIOUS
<1>2. RemoveClient(tab, idx) \in [1 .. Len(tab) - 1 -> S]
  BY <1>1 DEF RemoveClient
<1>3. QED
  BY <1>1, <1>2 DEF RemoveClient

\* Removing any entry keeps the table well formed and adds nothing to it.
LEMMA TableShrinks ==
    ASSUME TypeOK, TableInv, NEW idx \in 1 .. Len(clienttab),
           clienttab' = RemoveClient(clienttab, idx), conn' = conn
    PROVE  /\ clienttab' \in Seq(Conns)
           /\ Len(clienttab') = Len(clienttab) - 1
           /\ Entries' \subseteq Entries
           /\ TableInv'
           /\ Room(clienttab) => Room(clienttab')
<1>1. clienttab \in Seq(Conns) /\ MaxClients \in Nat
  BY ServerAssumption DEF TypeOK, MainTypeOK, ThreadTypeOK, ConnTypeOK
<1>2. /\ clienttab' \in Seq(Conns)
      /\ Len(clienttab') = Len(clienttab) - 1
      /\ \A k \in 1 .. Len(clienttab) - 1 :
            clienttab'[k] = IF k < idx THEN clienttab[k] ELSE clienttab[k + 1]
  BY <1>1, RemoveClientShape
<1>3. Len(clienttab) \in Nat
  BY <1>1
<1>4. Entries' \subseteq Entries
  BY <1>2, <1>3 DEF Entries
<1>5. ASSUME NEW k \in 1 .. Len(clienttab'), NEW l \in 1 .. Len(clienttab'),
             clienttab'[k] = clienttab'[l]
      PROVE  k = l
  BY <1>2, <1>3, <1>5 DEF TableInv
<1>6. ASSUME NEW k \in 1 .. Len(clienttab')
      PROVE  conn'[clienttab'[k]] = "open"
  BY <1>2, <1>3 DEF TableInv
<1>7. Room(clienttab) => Room(clienttab')
  BY <1>1, <1>2, <1>3 DEF Room
<1>8. QED
  BY <1>1, <1>2, <1>3, <1>4, <1>5, <1>6, <1>7 DEF TableInv

\* A client is appended only when there is room for it.
LEMMA TableGrows ==
    ASSUME TypeOK, TableInv, NEW c \in Conns, c \notin Entries,
           clienttab' = AddClient(clienttab, c), conn' \in [Conns -> {"none", "backlog", "open"}],
           conn'[c] = "open", \A d \in Entries : conn'[d] = "open"
    PROVE  clienttab' \in Seq(Conns) /\ TableInv'
<1>1. clienttab \in Seq(Conns) /\ MaxClients \in Nat
  BY ServerAssumption DEF TypeOK, MainTypeOK, ThreadTypeOK, ConnTypeOK
<1>2. CASE Room(clienttab)
  <2>1. /\ clienttab' \in Seq(Conns)
        /\ Len(clienttab') = Len(clienttab) + 1
        /\ \A k \in 1 .. Len(clienttab) : clienttab'[k] = clienttab[k]
        /\ clienttab'[Len(clienttab) + 1] = c
    BY <1>1, <1>2 DEF AddClient
  <2>2. QED
    BY <1>1, <1>2, <2>1 DEF TableInv, Entries, Room
<1>3. CASE ~Room(clienttab)
  BY <1>1, <1>3 DEF AddClient, TableInv, Entries
<1>4. QED
  BY <1>2, <1>3

-----------------------------------------------------------------------------
(* The sockets. *)

LEMMA ChunkTypes ==
    ASSUME NEW f \in Frame
    PROVE  SizeChunk(f) \in Chunk /\ DataChunk(f) \in Chunk
<1>1. f.len \in Nat
  BY DEF Frame
<1>2. (f.len \div 256) % 256 \in 0 .. 255 /\ f.len % 256 \in 0 .. 255
  BY <1>1
<1>3. QED
  BY <1>2 DEF SizeChunk, DataChunk, SizeBuf, Chunk

LEMMA SendType ==
    ASSUME TypeOK, NEW c \in Conns, NEW ch \in Chunk, Send(c, ch)
    PROVE  out' \in [Conns -> Seq(Chunk)]
  BY DEF TypeOK, MainTypeOK, ThreadTypeOK, ConnTypeOK, Send

LEMMA RecvType ==
    ASSUME TypeOK, NEW c \in Conns, in[c] # <<>>
    PROVE  /\ Head(in[c]) \in Chunk
           /\ [in EXCEPT ![c] = Tail(@)] \in [Conns -> Seq(Chunk)]
           /\ Head(in[c]).kind = "data" => Head(in[c]).frame \in Frame
<1>1. in[c] \in Seq(Chunk)
  BY DEF TypeOK, MainTypeOK, ThreadTypeOK, ConnTypeOK
<1>2. Head(in[c]) \in Chunk /\ Tail(in[c]) \in Seq(Chunk)
  BY <1>1
<1>3. QED
  BY <1>2 DEF TypeOK, MainTypeOK, ThreadTypeOK, ConnTypeOK, Chunk

-----------------------------------------------------------------------------
(* The steps of the reader. *)

LEMMA NoFrameType == NoFrame \in Frame
  BY DEF NoFrame, Frame

LEMMA ReaderKeeps ==
    ASSUME IInv, Reader PROVE IInv'
<1> USE DEF IInv, TypeOK, MainTypeOK, ThreadTypeOK, ConnTypeOK, MutexInv, IndexInv,
            TableInv, RoomInv, LifeInv, Entries,
            Room, Joinable, Free, notReader, mainVars, writerVars, peerVars, scanVars,
            selVars
<1>1. CASE RRead
  BY <1>1 DEF RRead
<1>2. CASE RNothing
  BY <1>2 DEF RNothing
<1>3. CASE RLock
  BY <1>3 DEF RLock, Lock
<1>4. CASE RSendSize
  <2>1. clienttab[ri] \in Conns
    BY <1>4 DEF RSendSize
  <2>2. out' \in [Conns -> Seq(Chunk)]
    BY <1>4, <2>1, ChunkTypes, SendType DEF RSendSize
  <2>3. TypeOK'
    <3> HIDE DEF IInv, TypeOK, MainTypeOK, ThreadTypeOK, ConnTypeOK, MutexInv, IndexInv,
                 TableInv, RoomInv, LifeInv
    <3>1. MainTypeOK /\ ThreadTypeOK /\ ConnTypeOK
      BY DEF IInv, TypeOK
    <3>2. MainTypeOK'
      BY <3>1, <1>4, <2>2, SMTT(60) DEF MainTypeOK, RSendSize
    <3>3. ThreadTypeOK'
      BY <3>1, <1>4, <2>2, SMTT(60) DEF ThreadTypeOK, RSendSize
    <3>4. ConnTypeOK'
      BY <3>1, <1>4, <2>2, SMTT(60) DEF ConnTypeOK, RSendSize
    <3>5. QED
      BY <3>2, <3>3, <3>4 DEF TypeOK
  <2>4. MutexInv' /\ IndexInv'
    BY <1>4, <2>2 DEF RSendSize
  <2>5. TableInv'
    BY <1>4, <2>2 DEF RSendSize
  <2>6. RoomInv' /\ LifeInv'
    BY <1>4, <2>2 DEF RSendSize
  <2>7. QED
    BY <2>3, <2>4, <2>5, <2>6
<1>5. CASE RSendData
  <2>1. clienttab[ri] \in Conns
    BY <1>5 DEF RSendData
  <2>2. out' \in [Conns -> Seq(Chunk)]
    BY <1>5, <2>1, ChunkTypes, SendType DEF RSendData
  <2>0. ri' \in Nat \ {0}
    BY <1>5 DEF RSendData
  <2>3. TypeOK'
    <3> HIDE DEF IInv, TypeOK, MainTypeOK, ThreadTypeOK, ConnTypeOK, MutexInv, IndexInv,
                 TableInv, RoomInv, LifeInv
    <3>1. MainTypeOK /\ ThreadTypeOK /\ ConnTypeOK
      BY DEF IInv, TypeOK
    <3>2. MainTypeOK'
      BY <3>1, <1>5, <2>0, <2>2, SMTT(60) DEF MainTypeOK, RSendData
    <3>3. ThreadTypeOK'
      BY <3>1, <1>5, <2>0, <2>2, SMTT(60) DEF ThreadTypeOK, RSendData
    <3>4. ConnTypeOK'
      BY <3>1, <1>5, <2>0, <2>2, SMTT(60) DEF ConnTypeOK, RSendData
    <3>5. QED
      BY <3>2, <3>3, <3>4 DEF TypeOK
  <2>4. MutexInv' /\ IndexInv'
    BY <1>5, <2>2 DEF RSendData
  <2>5. TableInv'
    BY <1>5, <2>2 DEF RSendData
  <2>6. RoomInv' /\ LifeInv'
    BY <1>5, <2>2 DEF RSendData
  <2>7. QED
    BY <2>3, <2>4, <2>5, <2>6
<1>6. CASE RSendFail
  <2>1. ri \in 1 .. Len(clienttab) /\ clienttab' = RemoveClient(clienttab, ri)
        /\ conn' = conn
    BY <1>6 DEF RSendFail
  <2>2. /\ clienttab' \in Seq(Conns)
        /\ Len(clienttab') = Len(clienttab) - 1
        /\ Entries' \subseteq Entries
        /\ TableInv'
        /\ Room(clienttab) => Room(clienttab')
    BY <2>1, TableShrinks
  <2>0. ri' \in Nat \ {0}
    BY <1>6 DEF RSendFail
  <2>3. TypeOK'
    <3> HIDE DEF IInv, TypeOK, MainTypeOK, ThreadTypeOK, ConnTypeOK, MutexInv, IndexInv,
                 TableInv, RoomInv, LifeInv
    <3>1. MainTypeOK /\ ThreadTypeOK /\ ConnTypeOK
      BY DEF IInv, TypeOK
    <3>2. MainTypeOK'
      BY <3>1, <1>6, <2>0, <2>2, SMTT(60) DEF MainTypeOK, RSendFail
    <3>3. ThreadTypeOK'
      BY <3>1, <1>6, <2>0, <2>2, SMTT(60) DEF ThreadTypeOK, RSendFail
    <3>4. ConnTypeOK'
      BY <3>1, <1>6, <2>0, <2>2, SMTT(60) DEF ConnTypeOK, RSendFail
    <3>5. QED
      BY <3>2, <3>3, <3>4 DEF TypeOK
  <2>4. MutexInv' /\ IndexInv'
    BY <1>6, <2>2 DEF RSendFail
  <2>5. TableInv'
    BY <1>6, <2>2 DEF RSendFail
  <2>6. RoomInv'
    BY <1>6, <2>2 DEF RSendFail
  <2>8. LifeInv'
    BY <1>6, <2>2 DEF RSendFail
  <2>7. QED
    BY <2>3, <2>4, <2>5, <2>6, <2>8
<1>7. CASE RSigpipe
  <2>1. TypeOK'
    <3> HIDE DEF IInv, TypeOK, MainTypeOK, ThreadTypeOK, ConnTypeOK, MutexInv, IndexInv,
                 TableInv, RoomInv, LifeInv
    <3>1. MainTypeOK /\ ThreadTypeOK /\ ConnTypeOK
      BY DEF IInv, TypeOK
    <3>2. MainTypeOK'
      BY <3>1, <1>7, SMTT(60) DEF MainTypeOK, RSigpipe
    <3>3. ThreadTypeOK'
      BY <3>1, <1>7, SMTT(60) DEF ThreadTypeOK, RSigpipe
    <3>4. ConnTypeOK'
      BY <3>1, <1>7, SMTT(60) DEF ConnTypeOK, RSigpipe
    <3>5. QED
      BY <3>2, <3>3, <3>4 DEF TypeOK
  <2>2. MutexInv' /\ IndexInv' /\ TableInv'
    BY <1>7 DEF RSigpipe
  <2>3. RoomInv' /\ LifeInv'
    BY <1>7 DEF RSigpipe
  <2>4. QED
    BY <2>1, <2>2, <2>3
<1>8. CASE RUnlock
  BY <1>8, NoFrameType DEF RUnlock, Unlock
<1>9. CASE RCheck
  BY <1>9 DEF RCheck, Recheck
<1> HIDE DEF IInv
<1>10. QED
  BY <1>1, <1>2, <1>3, <1>4, <1>5, <1>6, <1>7, <1>8, <1>9 DEF Reader

LEMMA StutterKeeps ==
    ASSUME IInv, UNCHANGED vars PROVE IInv'
<1>1. UNCHANGED <<mainVars, readerVars, writerVars, peerVars, devVars>>
      /\ UNCHANGED <<mode, proc, running, mutex, clienttab, conn, in, out>>
  BY DEF vars
<1>2. TypeOK'
  BY <1>1 DEF IInv, TypeOK, MainTypeOK, ThreadTypeOK, ConnTypeOK, mainVars, readerVars,
     writerVars, peerVars, devVars
<1>3. MutexInv' /\ IndexInv' /\ TableInv'
  BY <1>1 DEF IInv, MutexInv, IndexInv, TableInv, readerVars, writerVars
<1>4. RoomInv' /\ LifeInv'
  BY <1>1 DEF IInv, RoomInv, LifeInv, Room, Joinable, Entries, mainVars, readerVars,
      writerVars
<1>5. QED
  BY <1>2, <1>3, <1>4 DEF IInv

-----------------------------------------------------------------------------
(* The steps of the writer. *)

LEMMA WriterKeeps ==
    ASSUME IInv, Writer PROVE IInv'
<1> USE DEF IInv, TypeOK, MainTypeOK, ThreadTypeOK, ConnTypeOK, MutexInv, IndexInv,
            TableInv, RoomInv, LifeInv, Entries,
            Room, Joinable, Free, notWriter, mainVars, readerVars, peerVars, scanVars,
            selVars, sockVars
<1>1. CASE WBuild
  <2>0. Entries \subseteq Conns
    BY SMTT(60)
  <2>1. wset' \subseteq Conns \cup {Server} /\ (Server \in wset' => Room(clienttab))
    BY <1>1, <2>0, ServerAssumption, SMTT(60) DEF WBuild
  <2>2. wpc' \in {"done", "select"}
    BY <1>1 DEF WBuild
  <2>11. TypeOK'
    <3> HIDE DEF IInv, TypeOK, MainTypeOK, ThreadTypeOK, ConnTypeOK, MutexInv, IndexInv,
                 TableInv, RoomInv, LifeInv
    <3>1. MainTypeOK /\ ThreadTypeOK /\ ConnTypeOK
      BY DEF IInv, TypeOK
    <3>2. MainTypeOK'
      BY <3>1, <1>1, <2>1, <2>2, SMTT(60) DEF MainTypeOK, WBuild
    <3>3. ThreadTypeOK'
      BY <3>1, <1>1, <2>1, <2>2, SMTT(60) DEF ThreadTypeOK, WBuild
    <3>4. ConnTypeOK'
      BY <3>1, <1>1, <2>1, <2>2, SMTT(60) DEF ConnTypeOK, WBuild
    <3>5. QED
      BY <3>2, <3>3, <3>4 DEF TypeOK
  <2>12. MutexInv' /\ IndexInv'
    BY <1>1, <2>1, <2>2 DEF WBuild
  <2>13. TableInv'
    BY <1>1, <2>1, <2>2 DEF WBuild
  <2>14. RoomInv'
    BY <1>1, <2>1, <2>2 DEF WBuild
  <2>15. LifeInv'
    BY <1>1, <2>1, <2>2 DEF WBuild
  <2>16. QED
    BY <2>11, <2>12, <2>13, <2>14, <2>15
<1>2. CASE WSelect
  BY <1>2 DEF WSelect
<1>3. CASE WSelectFail
  BY <1>3 DEF WSelectFail
<1>4. CASE WLock
  BY <1>4 DEF WLock, Lock
<1>5. CASE WSkip
  BY <1>5, SMTT(60) DEF WSkip
<1>6. CASE WRecvSize
  <2>1. Current \in Conns /\ in[Current] # <<>> /\ wi \in 1 .. Len(clienttab)
    BY <1>6 DEF WRecvSize, AtReady, Current
  <2>2. in' \in [Conns -> Seq(Chunk)]
    BY <1>6, <2>1, RecvType DEF WRecvSize
  <2>3. CASE wpc' = "body" /\ UNCHANGED <<wi, clienttab>>
    <3>1. TypeOK'
      <4> HIDE DEF IInv, TypeOK, MainTypeOK, ThreadTypeOK, ConnTypeOK, MutexInv, IndexInv,
                   TableInv, RoomInv, LifeInv
      <4>1. MainTypeOK /\ ThreadTypeOK /\ ConnTypeOK
        BY DEF IInv, TypeOK
      <4>2. MainTypeOK'
        BY <4>1, <1>6, <2>3, SMTT(60) DEF MainTypeOK, WRecvSize
      <4>3. ThreadTypeOK'
        BY <4>1, <1>6, <2>3, SMTT(60) DEF ThreadTypeOK, WRecvSize
      <4>4. ConnTypeOK'
        BY <4>1, <1>6, <2>2, SMTT(60) DEF ConnTypeOK, WRecvSize
      <4>5. QED
        BY <4>2, <4>3, <4>4 DEF TypeOK
    <3>2. MutexInv' /\ IndexInv' /\ TableInv'
      BY <1>6, <2>1, <2>3 DEF WRecvSize
    <3>3. RoomInv' /\ LifeInv'
      BY <1>6, <2>3 DEF WRecvSize
    <3>4. QED
      BY <3>1, <3>2, <3>3
  <2>4. CASE /\ clienttab' = RemoveClient(clienttab, wi)
             /\ wi' = wi + 1 /\ wpc' = "scan"
    <3>1. conn' = conn
      BY <1>6 DEF WRecvSize
    <3>2. /\ clienttab' \in Seq(Conns)
          /\ Len(clienttab') = Len(clienttab) - 1
          /\ Entries' \subseteq Entries
          /\ TableInv'
          /\ Room(clienttab) => Room(clienttab')
      BY <2>1, <2>4, <3>1, TableShrinks
    <3>3. wi' \in Nat \ {0}
      BY <2>4
    <3>4. TypeOK'
      <4> HIDE DEF IInv, TypeOK, MainTypeOK, ThreadTypeOK, ConnTypeOK, MutexInv, IndexInv,
                   TableInv, RoomInv, LifeInv
      <4>1. MainTypeOK /\ ThreadTypeOK /\ ConnTypeOK
        BY DEF IInv, TypeOK
      <4>2. MainTypeOK'
        BY <4>1, <1>6, <2>4, <3>2, SMTT(60) DEF MainTypeOK, WRecvSize
      <4>3. ThreadTypeOK'
        BY <4>1, <1>6, <2>4, <3>3, SMTT(60) DEF ThreadTypeOK, WRecvSize
      <4>4. ConnTypeOK'
        BY <4>1, <1>6, <2>2, SMTT(60) DEF ConnTypeOK, WRecvSize
      <4>5. QED
        BY <4>2, <4>3, <4>4 DEF TypeOK
    <3>5. MutexInv' /\ IndexInv'
      BY <1>6, <2>4, <3>2 DEF WRecvSize
    <3>6. RoomInv' /\ LifeInv'
      BY <1>6, <2>4, <3>2 DEF WRecvSize
    <3>7. QED
      BY <3>2, <3>4, <3>5, <3>6
  <2>5. QED
    BY <1>6, <2>3, <2>4 DEF WRecvSize
<1>7. CASE WRecvData
  <2>1. Current \in Conns /\ in[Current] # <<>>
    BY <1>7 DEF WRecvData, Current
  <2>2. in' \in [Conns -> Seq(Chunk)] /\ wbuf' \in Frame
    BY <1>7, <2>1, RecvType DEF WRecvData
  <2>3. wpc' \in {"write", "fsize"} /\ wj' = 1
    BY <1>7 DEF WRecvData
  <2>4. UNCHANGED <<notWriter, proc, wi, selVars, running, mutex, clienttab, conn, out,
                    devout>>
    BY <1>7 DEF WRecvData
  <2>11. TypeOK'
    <3> HIDE DEF IInv, TypeOK, MainTypeOK, ThreadTypeOK, ConnTypeOK, MutexInv, IndexInv,
                 TableInv, RoomInv, LifeInv
    <3>1. MainTypeOK /\ ThreadTypeOK /\ ConnTypeOK
      BY DEF IInv, TypeOK
    <3>2. MainTypeOK'
      BY <3>1, <2>2, <2>3, <2>4, SMTT(60) DEF MainTypeOK
    <3>3. ThreadTypeOK'
      BY <3>1, <2>2, <2>3, <2>4, SMTT(60) DEF ThreadTypeOK
    <3>4. ConnTypeOK'
      BY <3>1, <2>2, <2>3, <2>4, SMTT(60) DEF ConnTypeOK
    <3>5. QED
      BY <3>2, <3>3, <3>4 DEF TypeOK
  <2>12. MutexInv' /\ IndexInv'
    BY <1>7, <2>2, <2>3 DEF WRecvData
  <2>13. TableInv'
    BY <1>7, <2>2, <2>3 DEF WRecvData
  <2>14. RoomInv'
    BY <1>7, <2>2, <2>3 DEF WRecvData
  <2>15. LifeInv'
    BY <1>7, <2>2, <2>3 DEF WRecvData
  <2>16. QED
    BY <2>11, <2>12, <2>13, <2>14, <2>15
<1>8. CASE WRecvFail
  <2>1. wi \in 1 .. Len(clienttab) /\ clienttab' = RemoveClient(clienttab, wi)
        /\ conn' = conn
    BY <1>8 DEF WRecvFail, AtReady
  <2>2. /\ clienttab' \in Seq(Conns)
        /\ Len(clienttab') = Len(clienttab) - 1
        /\ Entries' \subseteq Entries
        /\ TableInv'
        /\ Room(clienttab) => Room(clienttab')
    BY <2>1, TableShrinks
  <2>3. wi' \in Nat \ {0}
    BY <1>8 DEF WRecvFail
  <2>11. TypeOK'
    <3> HIDE DEF IInv, TypeOK, MainTypeOK, ThreadTypeOK, ConnTypeOK, MutexInv, IndexInv,
                 TableInv, RoomInv, LifeInv
    <3>1. MainTypeOK /\ ThreadTypeOK /\ ConnTypeOK
      BY DEF IInv, TypeOK
    <3>2. MainTypeOK'
      BY <3>1, <1>8, <2>2, <2>3, SMTT(60) DEF MainTypeOK, WRecvFail
    <3>3. ThreadTypeOK'
      BY <3>1, <1>8, <2>2, <2>3, SMTT(60) DEF ThreadTypeOK, WRecvFail
    <3>4. ConnTypeOK'
      BY <3>1, <1>8, <2>2, <2>3, SMTT(60) DEF ConnTypeOK, WRecvFail
    <3>5. QED
      BY <3>2, <3>3, <3>4 DEF TypeOK
  <2>12. MutexInv' /\ IndexInv'
    BY <1>8, <2>2, <2>3 DEF WRecvFail
  <2>13. TableInv'
    BY <1>8, <2>2, <2>3 DEF WRecvFail
  <2>14. RoomInv'
    BY <1>8, <2>2, <2>3 DEF WRecvFail
  <2>15. LifeInv'
    BY <1>8, <2>2, <2>3 DEF WRecvFail
  <2>16. QED
    BY <2>11, <2>12, <2>13, <2>14, <2>15
<1>9. CASE WRecvEof
  <2>11. TypeOK'
    <3> HIDE DEF IInv, TypeOK, MainTypeOK, ThreadTypeOK, ConnTypeOK, MutexInv, IndexInv,
                 TableInv, RoomInv, LifeInv
    <3>1. MainTypeOK /\ ThreadTypeOK /\ ConnTypeOK
      BY DEF IInv, TypeOK
    <3>2. MainTypeOK'
      BY <3>1, <1>9, SMTT(60) DEF MainTypeOK, WRecvEof
    <3>3. ThreadTypeOK'
      BY <3>1, <1>9, SMTT(60) DEF ThreadTypeOK, WRecvEof
    <3>4. ConnTypeOK'
      BY <3>1, <1>9, SMTT(60) DEF ConnTypeOK, WRecvEof
    <3>5. QED
      BY <3>2, <3>3, <3>4 DEF TypeOK
  <2>12. MutexInv' /\ IndexInv'
    BY <1>9 DEF WRecvEof
  <2>13. TableInv'
    BY <1>9 DEF WRecvEof
  <2>14. RoomInv'
    BY <1>9 DEF WRecvEof
  <2>15. LifeInv'
    BY <1>9 DEF WRecvEof
  <2>16. QED
    BY <2>11, <2>12, <2>13, <2>14, <2>15
<1>10. CASE WSpin
  BY <1>10, StutterKeeps DEF WSpin
<1>11. CASE WWrite
  <2>1. wi' \in Nat \ {0} /\ devout' \in Seq(Frame)
    BY <1>11 DEF WWrite
  <2>11. TypeOK'
    <3> HIDE DEF IInv, TypeOK, MainTypeOK, ThreadTypeOK, ConnTypeOK, MutexInv, IndexInv,
                 TableInv, RoomInv, LifeInv
    <3>1. MainTypeOK /\ ThreadTypeOK /\ ConnTypeOK
      BY DEF IInv, TypeOK
    <3>2. MainTypeOK'
      BY <3>1, <1>11, <2>1, NoFrameType, SMTT(60) DEF MainTypeOK, WWrite
    <3>3. ThreadTypeOK'
      BY <3>1, <1>11, <2>1, NoFrameType, SMTT(60) DEF ThreadTypeOK, WWrite
    <3>4. ConnTypeOK'
      BY <3>1, <1>11, <2>1, NoFrameType, SMTT(60) DEF ConnTypeOK, WWrite
    <3>5. QED
      BY <3>2, <3>3, <3>4 DEF TypeOK
  <2>12. MutexInv' /\ IndexInv'
    BY <1>11, <2>1, NoFrameType DEF WWrite
  <2>13. TableInv'
    BY <1>11, <2>1, NoFrameType DEF WWrite
  <2>14. RoomInv'
    BY <1>11, <2>1, NoFrameType DEF WWrite
  <2>15. LifeInv'
    BY <1>11, <2>1, NoFrameType DEF WWrite
  <2>16. QED
    BY <2>11, <2>12, <2>13, <2>14, <2>15
<1>12. CASE WWriteFail
  <2>1. /\ wi' \in Nat \ {0} /\ wbuf' \in Frame /\ rfds' \subseteq Conns \cup {Server}
        /\ running' = FALSE
    BY <1>12, NoFrameType DEF WWriteFail
  <2>11. TypeOK'
    <3> HIDE DEF IInv, TypeOK, MainTypeOK, ThreadTypeOK, ConnTypeOK, MutexInv, IndexInv,
                 TableInv, RoomInv, LifeInv
    <3>1. MainTypeOK /\ ThreadTypeOK /\ ConnTypeOK
      BY DEF IInv, TypeOK
    <3>2. MainTypeOK'
      <4>1. running' \in BOOLEAN
        BY <2>1, Zenon
      <4>2. UNCHANGED <<mode, proc, mpc, joined, serversock, clienttab>> /\ mutex' = Free
        BY <1>12 DEF WWriteFail, Unlock
      <4>3. QED
        BY <3>1, <4>1, <4>2, Zenon DEF MainTypeOK
    <3>3. ThreadTypeOK'
      BY <3>1, <1>12, <2>1, SMTT(60) DEF ThreadTypeOK, WWriteFail, Unlock
    <3>4. ConnTypeOK'
      BY <3>1, <1>12, <2>1, SMTT(60) DEF ConnTypeOK, WWriteFail, Unlock
    <3>5. QED
      BY <3>2, <3>3, <3>4 DEF TypeOK
  <2>12. MutexInv' /\ IndexInv'
    BY <1>12, <2>1 DEF WWriteFail, Unlock
  <2>13. TableInv'
    BY <1>12, <2>1 DEF WWriteFail, Unlock
  <2>14. RoomInv'
    BY <1>12, <2>1 DEF WWriteFail, Unlock
  <2>15. LifeInv'
    BY <1>12, <2>1 DEF WWriteFail, Unlock
  <2>16. QED
    BY <2>11, <2>12, <2>13, <2>14, <2>15
<1>13. CASE WFwdSelf
  <2>1. wj' \in Nat \ {0}
    BY <1>13 DEF WFwdSelf
  <2>11. TypeOK'
    <3> HIDE DEF IInv, TypeOK, MainTypeOK, ThreadTypeOK, ConnTypeOK, MutexInv, IndexInv,
                 TableInv, RoomInv, LifeInv
    <3>1. MainTypeOK /\ ThreadTypeOK /\ ConnTypeOK
      BY DEF IInv, TypeOK
    <3>2. MainTypeOK'
      BY <3>1, <1>13, <2>1, SMTT(60) DEF MainTypeOK, WFwdSelf
    <3>3. ThreadTypeOK'
      BY <3>1, <1>13, <2>1, SMTT(60) DEF ThreadTypeOK, WFwdSelf
    <3>4. ConnTypeOK'
      BY <3>1, <1>13, <2>1, SMTT(60) DEF ConnTypeOK, WFwdSelf
    <3>5. QED
      BY <3>2, <3>3, <3>4 DEF TypeOK
  <2>12. MutexInv' /\ IndexInv'
    BY <1>13, <2>1 DEF WFwdSelf
  <2>13. TableInv'
    BY <1>13, <2>1 DEF WFwdSelf
  <2>14. RoomInv'
    BY <1>13, <2>1 DEF WFwdSelf
  <2>15. LifeInv'
    BY <1>13, <2>1 DEF WFwdSelf
  <2>16. QED
    BY <2>11, <2>12, <2>13, <2>14, <2>15
<1>14. CASE WFwdSize
  <2>1. clienttab[wj] \in Conns
    BY <1>14 DEF WFwdSize
  <2>2. out' \in [Conns -> Seq(Chunk)]
    BY <1>14, <2>1, ChunkTypes, SendType DEF WFwdSize
  <2>3. wj' \in Nat \ {0}
    BY <1>14 DEF WFwdSize
  <2>11. TypeOK'
    <3> HIDE DEF IInv, TypeOK, MainTypeOK, ThreadTypeOK, ConnTypeOK, MutexInv, IndexInv,
                 TableInv, RoomInv, LifeInv
    <3>1. MainTypeOK /\ ThreadTypeOK /\ ConnTypeOK
      BY DEF IInv, TypeOK
    <3>2. MainTypeOK'
      BY <3>1, <1>14, <2>2, <2>3, SMTT(60) DEF MainTypeOK, WFwdSize
    <3>3. ThreadTypeOK'
      BY <3>1, <1>14, <2>2, <2>3, SMTT(60) DEF ThreadTypeOK, WFwdSize
    <3>4. ConnTypeOK'
      BY <3>1, <1>14, <2>2, <2>3, SMTT(60) DEF ConnTypeOK, WFwdSize
    <3>5. QED
      BY <3>2, <3>3, <3>4 DEF TypeOK
  <2>12. MutexInv' /\ IndexInv'
    BY <1>14, <2>2, <2>3 DEF WFwdSize
  <2>13. TableInv'
    BY <1>14, <2>2, <2>3 DEF WFwdSize
  <2>14. RoomInv'
    BY <1>14, <2>2, <2>3 DEF WFwdSize
  <2>15. LifeInv'
    BY <1>14, <2>2, <2>3 DEF WFwdSize
  <2>16. QED
    BY <2>11, <2>12, <2>13, <2>14, <2>15
<1>15. CASE WFwdData
  <2>1. clienttab[wj] \in Conns
    BY <1>15 DEF WFwdData
  <2>2. out' \in [Conns -> Seq(Chunk)]
    BY <1>15, <2>1, ChunkTypes, SendType DEF WFwdData
  <2>3. wj' \in Nat \ {0}
    BY <1>15 DEF WFwdData
  <2>11. TypeOK'
    <3> HIDE DEF IInv, TypeOK, MainTypeOK, ThreadTypeOK, ConnTypeOK, MutexInv, IndexInv,
                 TableInv, RoomInv, LifeInv
    <3>1. MainTypeOK /\ ThreadTypeOK /\ ConnTypeOK
      BY DEF IInv, TypeOK
    <3>2. MainTypeOK'
      BY <3>1, <1>15, <2>2, <2>3, SMTT(60) DEF MainTypeOK, WFwdData
    <3>3. ThreadTypeOK'
      BY <3>1, <1>15, <2>2, <2>3, SMTT(60) DEF ThreadTypeOK, WFwdData
    <3>4. ConnTypeOK'
      BY <3>1, <1>15, <2>2, <2>3, SMTT(60) DEF ConnTypeOK, WFwdData
    <3>5. QED
      BY <3>2, <3>3, <3>4 DEF TypeOK
  <2>12. MutexInv' /\ IndexInv'
    BY <1>15, <2>2, <2>3 DEF WFwdData
  <2>13. TableInv'
    BY <1>15, <2>2, <2>3 DEF WFwdData
  <2>14. RoomInv'
    BY <1>15, <2>2, <2>3 DEF WFwdData
  <2>15. LifeInv'
    BY <1>15, <2>2, <2>3 DEF WFwdData
  <2>16. QED
    BY <2>11, <2>12, <2>13, <2>14, <2>15
<1>16. CASE WFwdFail
  <2>1. wj \in 1 .. Len(clienttab) /\ clienttab' = RemoveClient(clienttab, wj)
        /\ conn' = conn
    BY <1>16 DEF WFwdFail, AtForward
  <2>2. /\ clienttab' \in Seq(Conns)
        /\ Len(clienttab') = Len(clienttab) - 1
        /\ Entries' \subseteq Entries
        /\ TableInv'
        /\ Room(clienttab) => Room(clienttab')
    BY <2>1, TableShrinks
  <2>3. wj' \in Nat \ {0}
    BY <1>16 DEF WFwdFail
  <2>11. TypeOK'
    <3> HIDE DEF IInv, TypeOK, MainTypeOK, ThreadTypeOK, ConnTypeOK, MutexInv, IndexInv,
                 TableInv, RoomInv, LifeInv
    <3>1. MainTypeOK /\ ThreadTypeOK /\ ConnTypeOK
      BY DEF IInv, TypeOK
    <3>2. MainTypeOK'
      BY <3>1, <1>16, <2>2, <2>3, SMTT(60) DEF MainTypeOK, WFwdFail, AtForward
    <3>3. ThreadTypeOK'
      BY <3>1, <1>16, <2>2, <2>3, SMTT(60) DEF ThreadTypeOK, WFwdFail, AtForward
    <3>4. ConnTypeOK'
      BY <3>1, <1>16, <2>2, <2>3, SMTT(60) DEF ConnTypeOK, WFwdFail, AtForward
    <3>5. QED
      BY <3>2, <3>3, <3>4 DEF TypeOK
  <2>12. MutexInv' /\ IndexInv'
    BY <1>16, <2>2, <2>3 DEF WFwdFail, AtForward
  <2>13. TableInv'
    BY <1>16, <2>2, <2>3 DEF WFwdFail, AtForward
  <2>14. RoomInv'
    BY <1>16, <2>2, <2>3 DEF WFwdFail, AtForward
  <2>15. LifeInv'
    BY <1>16, <2>2, <2>3 DEF WFwdFail, AtForward
  <2>16. QED
    BY <2>11, <2>12, <2>13, <2>14, <2>15
<1>17. CASE WSigpipe
  <2>11. TypeOK'
    <3> HIDE DEF IInv, TypeOK, MainTypeOK, ThreadTypeOK, ConnTypeOK, MutexInv, IndexInv,
                 TableInv, RoomInv, LifeInv
    <3>1. MainTypeOK /\ ThreadTypeOK /\ ConnTypeOK
      BY DEF IInv, TypeOK
    <3>2. MainTypeOK'
      BY <3>1, <1>17, SMTT(30) DEF MainTypeOK, WSigpipe
    <3>3. ThreadTypeOK'
      BY <3>1, <1>17, SMTT(30) DEF ThreadTypeOK, WSigpipe
    <3>4. ConnTypeOK'
      BY <3>1, <1>17, SMTT(30) DEF ConnTypeOK, WSigpipe
    <3>5. QED
      BY <3>2, <3>3, <3>4 DEF TypeOK
  <2>12. MutexInv' /\ IndexInv'
    BY <1>17 DEF WSigpipe
  <2>13. TableInv'
    BY <1>17 DEF WSigpipe
  <2>14. RoomInv'
    BY <1>17 DEF WSigpipe
  <2>15. LifeInv'
    BY <1>17 DEF WSigpipe
  <2>16. QED
    BY <2>11, <2>12, <2>13, <2>14, <2>15
<1>18. CASE WFwdEnd
  <2>1. wi' \in Nat \ {0}
    BY <1>18 DEF WFwdEnd
  <2>11. TypeOK'
    <3> HIDE DEF IInv, TypeOK, MainTypeOK, ThreadTypeOK, ConnTypeOK, MutexInv, IndexInv,
                 TableInv, RoomInv, LifeInv
    <3>1. MainTypeOK /\ ThreadTypeOK /\ ConnTypeOK
      BY DEF IInv, TypeOK
    <3>2. MainTypeOK'
      BY <3>1, <1>18, <2>1, NoFrameType, SMTT(60) DEF MainTypeOK, WFwdEnd
    <3>3. ThreadTypeOK'
      BY <3>1, <1>18, <2>1, NoFrameType, SMTT(60) DEF ThreadTypeOK, WFwdEnd
    <3>4. ConnTypeOK'
      BY <3>1, <1>18, <2>1, NoFrameType, SMTT(60) DEF ConnTypeOK, WFwdEnd
    <3>5. QED
      BY <3>2, <3>3, <3>4 DEF TypeOK
  <2>12. MutexInv' /\ IndexInv'
    BY <1>18, <2>1, NoFrameType DEF WFwdEnd
  <2>13. TableInv'
    BY <1>18, <2>1, NoFrameType DEF WFwdEnd
  <2>14. RoomInv'
    BY <1>18, <2>1, NoFrameType DEF WFwdEnd
  <2>15. LifeInv'
    BY <1>18, <2>1, NoFrameType DEF WFwdEnd
  <2>16. QED
    BY <2>11, <2>12, <2>13, <2>14, <2>15
<1>19. CASE WUnlock
  <2>11. TypeOK'
    <3> HIDE DEF IInv, TypeOK, MainTypeOK, ThreadTypeOK, ConnTypeOK, MutexInv, IndexInv,
                 TableInv, RoomInv, LifeInv
    <3>1. MainTypeOK /\ ThreadTypeOK /\ ConnTypeOK
      BY DEF IInv, TypeOK
    <3>2. MainTypeOK'
      BY <3>1, <1>19, SMTT(60) DEF MainTypeOK, WUnlock, Unlock
    <3>3. ThreadTypeOK'
      BY <3>1, <1>19, SMTT(60) DEF ThreadTypeOK, WUnlock, Unlock
    <3>4. ConnTypeOK'
      BY <3>1, <1>19, SMTT(60) DEF ConnTypeOK, WUnlock, Unlock
    <3>5. QED
      BY <3>2, <3>3, <3>4 DEF TypeOK
  <2>12. MutexInv' /\ IndexInv'
    BY <1>19 DEF WUnlock, Unlock
  <2>13. TableInv'
    BY <1>19 DEF WUnlock, Unlock
  <2>14. RoomInv'
    BY <1>19 DEF WUnlock, Unlock
  <2>15. LifeInv'
    BY <1>19 DEF WUnlock, Unlock
  <2>16. QED
    BY <2>11, <2>12, <2>13, <2>14, <2>15
<1>20. CASE WAccept
  <2>1. PICK c \in Conns : /\ conn[c] = "backlog" /\ newfd' = c
                         /\ conn' = [conn EXCEPT ![c] = "open"]
    BY <1>20 DEF WAccept, Backlog
  <2>11. TypeOK'
    <3> HIDE DEF IInv, TypeOK, MainTypeOK, ThreadTypeOK, ConnTypeOK, MutexInv, IndexInv,
                 TableInv, RoomInv, LifeInv
    <3>1. MainTypeOK /\ ThreadTypeOK /\ ConnTypeOK
      BY DEF IInv, TypeOK
    <3>2. MainTypeOK'
      BY <3>1, <1>20, <2>1, SMTT(60) DEF MainTypeOK, WAccept
    <3>3. ThreadTypeOK'
      BY <3>1, <1>20, <2>1, SMTT(60) DEF ThreadTypeOK, WAccept
    <3>4. ConnTypeOK'
      BY <3>1, <1>20, <2>1, SMTT(60) DEF ConnTypeOK, WAccept
    <3>5. QED
      BY <3>2, <3>3, <3>4 DEF TypeOK
  <2>12. MutexInv' /\ IndexInv'
    BY <1>20, <2>1 DEF WAccept
  <2>13. TableInv'
    BY <1>20, <2>1, SMTT(60) DEF WAccept
  <2>14. RoomInv'
    BY <1>20, <2>1, SMTT(60) DEF WAccept
  <2>15. LifeInv'
    BY <1>20, <2>1 DEF WAccept
  <2>16. QED
    BY <2>11, <2>12, <2>13, <2>14, <2>15
<1>21. CASE WAcceptFail
  BY <1>21 DEF WAcceptFail
<1>22. CASE WAdd
  <2>1. newfd \in Conns /\ newfd \notin Entries /\ conn' = conn
        /\ clienttab' = AddClient(clienttab, newfd)
    BY <1>22 DEF WAdd
  <2>2. conn' \in [Conns -> {"none", "backlog", "open"}]
    BY <2>1
  <2>4. conn'[newfd] = "open" /\ \A d \in Entries : conn'[d] = "open"
    BY <1>22, <2>1, SMTT(60) DEF WAdd
  <2>3. clienttab' \in Seq(Conns) /\ TableInv'
    BY <2>1, <2>2, <2>4, TableGrows
  <2>11. TypeOK'
    <3> HIDE DEF IInv, TypeOK, MainTypeOK, ThreadTypeOK, ConnTypeOK, MutexInv, IndexInv,
                 TableInv, RoomInv, LifeInv
    <3>1. MainTypeOK /\ ThreadTypeOK /\ ConnTypeOK
      BY DEF IInv, TypeOK
    <3>2. MainTypeOK'
      BY <3>1, <1>22, <2>1, <2>3, SMTT(60) DEF MainTypeOK, WAdd
    <3>3. ThreadTypeOK'
      BY <3>1, <1>22, <2>1, <2>3, SMTT(60) DEF ThreadTypeOK, WAdd
    <3>4. ConnTypeOK'
      BY <3>1, <1>22, <2>1, <2>3, SMTT(60) DEF ConnTypeOK, WAdd
    <3>5. QED
      BY <3>2, <3>3, <3>4 DEF TypeOK
  <2>12. MutexInv' /\ IndexInv'
    BY <1>22, <2>1, <2>3 DEF WAdd
  <2>13. TableInv'
    BY <1>22, <2>1, <2>3 DEF WAdd
  <2>14. RoomInv'
    BY <1>22, <2>1, <2>3 DEF WAdd
  <2>15. LifeInv'
    BY <1>22, <2>1, <2>3 DEF WAdd
  <2>16. QED
    BY <2>11, <2>12, <2>13, <2>14, <2>15
<1>23. CASE WCheck
  BY <1>23 DEF WCheck, Recheck
<1> HIDE DEF IInv
<1>24. QED
  BY <1>1, <1>2, <1>3, <1>4, <1>5, <1>6, <1>7, <1>8, <1>9, <1>10, <1>11, <1>12,
     <1>13, <1>14, <1>15, <1>16, <1>17, <1>18, <1>19, <1>20, <1>21, <1>22, <1>23 DEF Writer

-----------------------------------------------------------------------------
(* The steps of main, of the peers and of the device. *)

LEMMA MainKeeps ==
    ASSUME IInv, Main PROVE IInv'
<1> USE DEF IInv, TypeOK, MainTypeOK, ThreadTypeOK, ConnTypeOK, MutexInv, IndexInv,
            TableInv, RoomInv, LifeInv, Entries,
            Room, Joinable, Free, notMain, readerVars, writerVars, peerVars, devVars,
            scanVars, selVars
<1>1. CASE MConnect
  <2>1. clienttab' \in Seq(Conns) /\ TableInv'
        /\ conn' \in [Conns -> {"none", "backlog", "open"}]
    <3>1. CASE UNCHANGED <<conn, clienttab>>
      BY <3>1
    <3>2. CASE \E c \in Conns : /\ conn' = [conn EXCEPT ![c] = "open"]
                                /\ clienttab' = AddClient(clienttab, c)
      <4>1. PICK c \in Conns : /\ conn' = [conn EXCEPT ![c] = "open"]
                              /\ clienttab' = AddClient(clienttab, c)
        BY <3>2
      <4>2. c \notin Entries /\ \A d \in Entries : conn'[d] = "open"
        BY <1>1 DEF MConnect
      <4>3. conn' \in [Conns -> {"none", "backlog", "open"}] /\ conn'[c] = "open"
        BY <4>1
      <4>4. QED
        BY <4>1, <4>2, <4>3, TableGrows
    <3>3. QED
      BY <1>1, <3>1, <3>2 DEF MConnect
  <2>2. rpc = "none" /\ wpc = "none" /\ mpc' \in {"start", "stop"}
    BY <1>1 DEF MConnect
  <2>11. TypeOK'
    <3> HIDE DEF IInv, TypeOK, MainTypeOK, ThreadTypeOK, ConnTypeOK, MutexInv, IndexInv,
                 TableInv, RoomInv, LifeInv
    <3>1. MainTypeOK /\ ThreadTypeOK /\ ConnTypeOK
      BY DEF IInv, TypeOK
    <3>2. MainTypeOK'
      BY <3>1, <1>1, <2>1, <2>2, SMTT(60) DEF MainTypeOK, MConnect
    <3>3. ThreadTypeOK'
      BY <3>1, <1>1, <2>1, <2>2, SMTT(60) DEF ThreadTypeOK, MConnect
    <3>4. ConnTypeOK'
      BY <3>1, <1>1, <2>1, <2>2, SMTT(60) DEF ConnTypeOK, MConnect
    <3>5. QED
      BY <3>2, <3>3, <3>4 DEF TypeOK
  <2>12. MutexInv' /\ IndexInv'
    BY <1>1, <2>1, <2>2 DEF MConnect
  <2>13. TableInv'
    BY <1>1, <2>1, <2>2 DEF MConnect
  <2>14. RoomInv'
    BY <1>1, <2>1, <2>2 DEF MConnect
  <2>15. LifeInv'
    BY <1>1, <2>1, <2>2 DEF MConnect
  <2>16. QED
    BY <2>11, <2>12, <2>13, <2>14, <2>15
<1>2. CASE MStart
  <2>11. TypeOK'
    <3> HIDE DEF IInv, TypeOK, MainTypeOK, ThreadTypeOK, ConnTypeOK, MutexInv, IndexInv,
                 TableInv, RoomInv, LifeInv
    <3>1. MainTypeOK /\ ThreadTypeOK /\ ConnTypeOK
      BY DEF IInv, TypeOK
    <3>2. MainTypeOK'
      <4>1. running' \in BOOLEAN /\ joined' \in BOOLEAN
        BY <1>2, Zenon DEF MStart
      <4>2. UNCHANGED <<mode, proc, mutex, clienttab>> /\ mpc' = "create_r"
        BY <1>2 DEF MStart
      <4>3. serversock' \in {serversock, "open"}
        BY <1>2 DEF MStart
      <4>4. serversock' \in {"null", "open", "freed"}
        BY <3>1, <4>3 DEF MainTypeOK
      <4>5. QED
        BY <3>1, <4>1, <4>2, <4>4, Zenon DEF MainTypeOK
    <3>3. ThreadTypeOK'
      BY <3>1, <1>2, SMTT(60) DEF ThreadTypeOK, MStart
    <3>4. ConnTypeOK'
      BY <3>1, <1>2, SMTT(60) DEF ConnTypeOK, MStart
    <3>5. QED
      BY <3>2, <3>3, <3>4 DEF TypeOK
  <2>12. MutexInv' /\ IndexInv'
    BY <1>2 DEF MStart
  <2>13. TableInv'
    BY <1>2 DEF MStart
  <2>14. RoomInv'
    BY <1>2 DEF MStart
  <2>15. LifeInv'
    BY <1>2 DEF MStart
  <2>16. QED
    BY <2>11, <2>12, <2>13, <2>14, <2>15
<1>3. CASE MStartFail
  BY <1>3 DEF MStartFail
<1>4. CASE MCreateReader
  BY <1>4 DEF MCreateReader
<1>5. CASE MCreateWriter
  BY <1>5 DEF MCreateWriter
<1>6. CASE MStop
  <2>11. TypeOK'
    <3> HIDE DEF IInv, TypeOK, MainTypeOK, ThreadTypeOK, ConnTypeOK, MutexInv, IndexInv,
                 TableInv, RoomInv, LifeInv
    <3>1. MainTypeOK /\ ThreadTypeOK /\ ConnTypeOK
      BY DEF IInv, TypeOK
    <3>2. MainTypeOK'
      <4>1. running' \in BOOLEAN /\ joined' \in BOOLEAN
        BY <1>6, Zenon DEF MStop
      <4>2. UNCHANGED <<mode, proc, serversock, mutex, clienttab>> /\ mpc' = "join_r"
        BY <1>6 DEF MStop
      <4>3. QED
        BY <3>1, <4>1, <4>2, Zenon DEF MainTypeOK
    <3>3. ThreadTypeOK'
      BY <3>1, <1>6, SMTT(60) DEF ThreadTypeOK, MStop
    <3>4. ConnTypeOK'
      BY <3>1, <1>6, SMTT(60) DEF ConnTypeOK, MStop
    <3>5. QED
      BY <3>2, <3>3, <3>4 DEF TypeOK
  <2>12. MutexInv' /\ IndexInv'
    BY <1>6 DEF MStop
  <2>13. TableInv'
    BY <1>6 DEF MStop
  <2>14. RoomInv'
    BY <1>6 DEF MStop
  <2>15. LifeInv'
    BY <1>6 DEF MStop
  <2>16. QED
    BY <2>11, <2>12, <2>13, <2>14, <2>15
<1>7. CASE MJoinReader
  <2>11. TypeOK'
    <3> HIDE DEF IInv, TypeOK, MainTypeOK, ThreadTypeOK, ConnTypeOK, MutexInv, IndexInv,
                 TableInv, RoomInv, LifeInv
    <3>1. MainTypeOK /\ ThreadTypeOK /\ ConnTypeOK
      BY DEF IInv, TypeOK
    <3>2. MainTypeOK'
      BY <3>1, <1>7, SMTT(60) DEF MainTypeOK, MJoinReader, MJoin
    <3>3. ThreadTypeOK'
      BY <3>1, <1>7, SMTT(60) DEF ThreadTypeOK, MJoinReader, MJoin
    <3>4. ConnTypeOK'
      BY <3>1, <1>7, SMTT(60) DEF ConnTypeOK, MJoinReader, MJoin
    <3>5. QED
      BY <3>2, <3>3, <3>4 DEF TypeOK
  <2>12. MutexInv' /\ IndexInv'
    BY <1>7 DEF MJoinReader, MJoin
  <2>13. TableInv'
    BY <1>7 DEF MJoinReader, MJoin
  <2>14. RoomInv'
    BY <1>7 DEF MJoinReader, MJoin
  <2>15. LifeInv'
    BY <1>7 DEF MJoinReader, MJoin
  <2>16. QED
    BY <2>11, <2>12, <2>13, <2>14, <2>15
<1>8. CASE MJoinWriter
  <2>11. TypeOK'
    <3> HIDE DEF IInv, TypeOK, MainTypeOK, ThreadTypeOK, ConnTypeOK, MutexInv, IndexInv,
                 TableInv, RoomInv, LifeInv
    <3>1. MainTypeOK /\ ThreadTypeOK /\ ConnTypeOK
      BY DEF IInv, TypeOK
    <3>2. MainTypeOK'
      BY <3>1, <1>8, SMTT(60) DEF MainTypeOK, MJoinWriter, MJoin
    <3>3. ThreadTypeOK'
      BY <3>1, <1>8, SMTT(60) DEF ThreadTypeOK, MJoinWriter, MJoin
    <3>4. ConnTypeOK'
      BY <3>1, <1>8, SMTT(60) DEF ConnTypeOK, MJoinWriter, MJoin
    <3>5. QED
      BY <3>2, <3>3, <3>4 DEF TypeOK
  <2>12. MutexInv' /\ IndexInv'
    BY <1>8 DEF MJoinWriter, MJoin
  <2>13. TableInv'
    BY <1>8 DEF MJoinWriter, MJoin
  <2>14. RoomInv'
    BY <1>8 DEF MJoinWriter, MJoin
  <2>15. LifeInv'
    BY <1>8 DEF MJoinWriter, MJoin
  <2>16. QED
    BY <2>11, <2>12, <2>13, <2>14, <2>15
<1>9. CASE MClose
  BY <1>9 DEF MClose
<1>10. CASE MDestroy
  BY <1>10 DEF MDestroy
<1>11. CASE MFreeIfname
  BY <1>11 DEF MFreeIfname, mainVars
<1> HIDE DEF IInv
<1>12. QED
  BY <1>1, <1>2, <1>3, <1>4, <1>5, <1>6, <1>7, <1>8, <1>9, <1>10, <1>11 DEF Main

LEMMA FrameType ==
    ASSUME NEW s \in Conns \cup {Dev}, NEW n \in Nat, NEW len \in PeerLens \cup DevLens
    PROVE  [src |-> s, n |-> n + 1, len |-> len] \in Frame
<1>1. len \in Nat
  <2>1. PeerLens \subseteq Nat /\ DevLens \subseteq 1 .. BufSize /\ BufSize \in Nat
    BY ServerAssumption
  <2>2. QED
    BY <2>1
<1>2. QED
  BY <1>1 DEF Frame

LEMMA EnvironmentKeeps ==
    ASSUME IInv, Environment PROVE IInv'
<1> USE DEF IInv, TypeOK, MainTypeOK, ThreadTypeOK, ConnTypeOK, MutexInv, IndexInv,
            TableInv, RoomInv, LifeInv, Entries,
            Room, Joinable, system, mainVars, readerVars, writerVars, peerVars,
            devVars
<1>1. ASSUME NEW c \in Conns, PConnect(c)
      PROVE  IInv'
  <2>1. conn' = [conn EXCEPT ![c] = "backlog"] /\ conn[c] = "none"
    BY <1>1 DEF PConnect
  <2>2. TypeOK'
    <3> HIDE DEF IInv, TypeOK, MainTypeOK, ThreadTypeOK, ConnTypeOK, MutexInv, IndexInv,
                 TableInv, RoomInv, LifeInv
    <3>1. MainTypeOK /\ ThreadTypeOK /\ ConnTypeOK
      BY DEF IInv, TypeOK
    <3>2. MainTypeOK'
      BY <3>1, <1>1, <2>1, SMTT(60) DEF MainTypeOK, PConnect
    <3>3. ThreadTypeOK'
      BY <3>1, <1>1, <2>1, SMTT(60) DEF ThreadTypeOK, PConnect
    <3>4. ConnTypeOK'
      BY <3>1, <1>1, <2>1, SMTT(60) DEF ConnTypeOK, PConnect
    <3>5. QED
      BY <3>2, <3>3, <3>4 DEF TypeOK
  <2>3. MutexInv' /\ IndexInv' /\ LifeInv'
    BY <1>1 DEF PConnect
  <2>7. clienttab' = clienttab
    BY <1>1 DEF PConnect
  <2>8. ASSUME NEW k \in 1 .. Len(clienttab)
        PROVE  conn'[clienttab[k]] = "open"
    <3>1. clienttab[k] \in Conns /\ conn[clienttab[k]] = "open"
      BY SMTT(60)
    <3>2. conn \in [Conns -> {"none", "backlog", "open"}]
      OBVIOUS
    <3> HIDE DEF IInv, TypeOK, MainTypeOK, ThreadTypeOK, ConnTypeOK, TableInv
    <3>3. QED
      BY <2>1, <3>1, <3>2
  <2>4. TableInv'
    BY <2>7, <2>8
  <2>5. RoomInv'
    BY <1>1, <2>1 DEF PConnect
  <2>6. QED
    BY <2>2, <2>3, <2>4, <2>5
<1>2. ASSUME NEW c \in Conns, NEW len \in PeerLens, PSendSize(c, len)
      PROVE  IInv'
  <2>1. [src |-> c, n |-> nsent[c] + 1, len |-> len] \in Frame
    BY FrameType
  <2>2. /\ in' \in [Conns -> Seq(Chunk)] /\ owed' \in [Conns -> Frame]
        /\ nsent' \in [Conns -> Nat]
    BY <1>2, <2>1, ChunkTypes, NoFrameType, SMTT(60) DEF PSendSize
  <2>7. UNCHANGED <<system, conn, peer, out, devin, ndev>>
    BY <1>2 DEF PSendSize
  <2>3. TypeOK'
    <3> HIDE DEF IInv, TypeOK, MainTypeOK, ThreadTypeOK, ConnTypeOK, MutexInv, IndexInv,
                 TableInv, RoomInv, LifeInv
    <3>1. MainTypeOK /\ ThreadTypeOK /\ ConnTypeOK
      BY DEF IInv, TypeOK
    <3>2. MainTypeOK'
      BY <3>1, <2>2, <2>7, SMTT(60) DEF MainTypeOK
    <3>3. ThreadTypeOK'
      BY <3>1, <2>2, <2>7, SMTT(60) DEF ThreadTypeOK
    <3>4. ConnTypeOK'
      BY <3>1, <2>2, <2>7, SMTT(60) DEF ConnTypeOK
    <3>5. QED
      BY <3>2, <3>3, <3>4 DEF TypeOK
  <2>4. MutexInv' /\ IndexInv' /\ LifeInv'
    BY <1>2 DEF PSendSize
  <2>5. TableInv' /\ RoomInv'
    BY <1>2 DEF PSendSize
  <2>6. QED
    BY <2>3, <2>4, <2>5
<1>3. ASSUME NEW c \in Conns, PSendData(c)
      PROVE  IInv'
  <2>1. in' \in [Conns -> Seq(Chunk)] /\ owed' \in [Conns -> Frame]
    BY <1>3, ChunkTypes, NoFrameType, SMTT(60) DEF PSendData
  <2>2. TypeOK'
    <3> HIDE DEF IInv, TypeOK, MainTypeOK, ThreadTypeOK, ConnTypeOK, MutexInv, IndexInv,
                 TableInv, RoomInv, LifeInv
    <3>1. MainTypeOK /\ ThreadTypeOK /\ ConnTypeOK
      BY DEF IInv, TypeOK
    <3>2. MainTypeOK'
      BY <3>1, <1>3, <2>1, SMTT(60) DEF MainTypeOK, PSendData
    <3>3. ThreadTypeOK'
      BY <3>1, <1>3, <2>1, SMTT(60) DEF ThreadTypeOK, PSendData
    <3>4. ConnTypeOK'
      BY <3>1, <1>3, <2>1, SMTT(60) DEF ConnTypeOK, PSendData
    <3>5. QED
      BY <3>2, <3>3, <3>4 DEF TypeOK
  <2>3. MutexInv' /\ IndexInv' /\ LifeInv'
    BY <1>3 DEF PSendData
  <2>4. TableInv' /\ RoomInv'
    BY <1>3 DEF PSendData
  <2>5. QED
    BY <2>2, <2>3, <2>4
<1>4. ASSUME NEW c \in Conns, PMove(c)
      PROVE  IInv'
  <2>1. peer' \in [Conns -> {"up", "fin", "rst", "stall"}]
    BY <1>4, ServerAssumption, SMTT(60) DEF PMove
  <2>6. UNCHANGED <<system, conn, owed, nsent, in, out, devin, ndev>>
    BY <1>4 DEF PMove, sockVars
  <2>2. TypeOK'
    <3> HIDE DEF IInv, TypeOK, MainTypeOK, ThreadTypeOK, ConnTypeOK, MutexInv, IndexInv,
                 TableInv, RoomInv, LifeInv
    <3>1. MainTypeOK /\ ThreadTypeOK /\ ConnTypeOK
      BY DEF IInv, TypeOK
    <3>2. MainTypeOK'
      BY <3>1, <2>1, <2>6, SMTT(60) DEF MainTypeOK
    <3>3. ThreadTypeOK'
      BY <3>1, <2>1, <2>6, SMTT(60) DEF ThreadTypeOK
    <3>4. ConnTypeOK'
      BY <3>1, <2>1, <2>6, SMTT(60) DEF ConnTypeOK
    <3>5. QED
      BY <3>2, <3>3, <3>4 DEF TypeOK
  <2>3. MutexInv' /\ IndexInv' /\ LifeInv'
    BY <1>4 DEF PMove
  <2>4. TableInv' /\ RoomInv'
    BY <2>6
  <2>5. QED
    BY <2>2, <2>3, <2>4
<1>5. CASE DFrame
  <2>1. PICK len \in DevLens :
           devin' = Append(devin, [src |-> Dev, n |-> ndev + 1, len |-> len])
    BY <1>5 DEF DFrame
  <2>2. [src |-> Dev, n |-> ndev + 1, len |-> len] \in Frame
    BY FrameType
  <2>3. devin' \in Seq(Frame) /\ ndev' \in Nat
    BY <1>5, <2>1, <2>2 DEF DFrame
  <2>8. UNCHANGED <<system, conn, peer, nsent, owed, in, out>>
    BY <1>5 DEF DFrame, sockVars
  <2>4. TypeOK'
    <3> HIDE DEF IInv, TypeOK, MainTypeOK, ThreadTypeOK, ConnTypeOK, MutexInv, IndexInv,
                 TableInv, RoomInv, LifeInv
    <3>1. MainTypeOK /\ ThreadTypeOK /\ ConnTypeOK
      BY DEF IInv, TypeOK
    <3>2. MainTypeOK'
      BY <3>1, <2>3, <2>8, SMTT(60) DEF MainTypeOK
    <3>3. ThreadTypeOK'
      BY <3>1, <2>3, <2>8, SMTT(60) DEF ThreadTypeOK
    <3>4. ConnTypeOK'
      BY <3>1, <2>3, <2>8, SMTT(60) DEF ConnTypeOK
    <3>5. QED
      BY <3>2, <3>3, <3>4 DEF TypeOK
  <2>5. MutexInv' /\ IndexInv' /\ LifeInv'
    BY <1>5 DEF DFrame
  <2>6. TableInv' /\ RoomInv'
    BY <2>8
  <2>7. QED
    BY <2>4, <2>5, <2>6
<1> HIDE DEF IInv
<1>6. QED
  BY <1>1, <1>2, <1>3, <1>4, <1>5 DEF Environment

-----------------------------------------------------------------------------
(* The theorems. *)

LEMMA InitOK ==
    ASSUME Init PROVE IInv
<1>1. TypeOK
  <2>1. clienttab \in Seq(Conns) /\ devin \in Seq(Frame) /\ devout \in Seq(Frame)
    BY DEF Init
  <2>2. in \in [Conns -> Seq(Chunk)] /\ out \in [Conns -> Seq(Chunk)]
    BY DEF Init
  <2>3. /\ rbuf \in Frame /\ wbuf \in Frame /\ owed \in [Conns -> Frame]
        /\ nsent \in [Conns -> Nat] /\ ndev \in Nat
    BY NoFrameType DEF Init
  <2>4. conn \in [Conns -> {"none", "backlog", "open"}]
        /\ peer \in [Conns -> {"up", "fin", "rst", "stall"}]
    BY DEF Init
  <2>5. wset \subseteq Conns \cup {Server} /\ rfds \subseteq Conns \cup {Server}
        /\ newfd \in Conns \cup {Server}
    BY DEF Init
  <2>6. /\ mode \in Modes /\ proc = "up" /\ mpc \in {"connect", "start"}
        /\ rpc = "none" /\ wpc = "none" /\ serversock = "null" /\ mutex = Free
    BY DEF Init
  <2>7. /\ ri \in Nat \ {0} /\ wi \in Nat \ {0} /\ wj \in Nat \ {0}
        /\ running \in BOOLEAN /\ joined \in BOOLEAN
    <3>1. ri = 1 /\ wi = 1 /\ wj = 1 /\ running = FALSE /\ joined = FALSE
      BY DEF Init
    <3>2. running \in BOOLEAN /\ joined \in BOOLEAN
      BY <3>1, Zenon
    <3>3. QED
      BY <3>1, <3>2
  <2>8. QED
    BY <2>1, <2>2, <2>3, <2>4, <2>5, <2>6, <2>7 DEF TypeOK, MainTypeOK, ThreadTypeOK, ConnTypeOK
<1>2. MutexInv /\ IndexInv
  BY DEF Init, MutexInv, IndexInv, Free
<1>3. TableInv
  <2>1. clienttab = <<>> /\ Len(clienttab) = 0 /\ MaxClients \in Nat
    BY ServerAssumption DEF Init
  <2>2. QED
    BY <2>1 DEF TableInv
<1>4. RoomInv /\ LifeInv
  BY DEF Init, RoomInv, LifeInv, Joinable
<1>5. QED
  BY <1>1, <1>2, <1>3, <1>4 DEF IInv

\* The invariant is inductive.
THEOREM Inductive == Spec => []IInv
<1>1. Init => IInv
  BY InitOK
<1>2. IInv /\ [Next]_vars => IInv'
  BY ReaderKeeps, WriterKeeps, MainKeeps, EnvironmentKeeps, StutterKeeps
     DEF Next, Halted
<1>3. QED
  BY <1>1, <1>2, PTL DEF Spec

\* Every variable stays within its type.
THEOREM TypeCorrect == Spec => []TypeOK
<1>1. IInv => TypeOK
  BY DEF IInv
<1>2. QED
  BY <1>1, Inductive, PTL

\* The mutex of the client table is held by the thread inside its critical
\* section and by nobody else, on the error exits of the loops too.
THEOREM MutualExclusion == Spec => []MutexInv
<1>1. IInv => MutexInv
  BY DEF IInv
<1>2. QED
  BY <1>1, Inductive, PTL

\* No thread uses an index the other one's removals have invalidated, and the
\* assertion in remove_client cannot fail.
THEOREM IndicesInBounds == Spec => []IndexInv
<1>1. IInv => IndexInv
  BY DEF IInv
<1>2. QED
  BY <1>1, Inductive, PTL

\* clienttab never overflows and lists open connections, each once.
THEOREM TableWellFormed == Spec => []TableInv
<1>1. IInv => TableInv
  BY DEF IInv
<1>2. QED
  BY <1>1, Inductive, PTL

\* A connection the writer accepted always finds a free entry.
THEOREM AcceptedFits == Spec => []AcceptFits
<1>1. IInv => AcceptFits
  BY DEF IInv, RoomInv, AcceptFits, Room
<1>2. QED
  BY <1>1, Inductive, PTL

\* What the threads use is destroyed after they have ended.
THEOREM DestroyedLast == Spec => []DestroyedAfterThreads
<1>1. IInv => DestroyedAfterThreads
  BY DEF IInv, LifeInv, DestroyedAfterThreads, Joinable
<1>2. QED
  BY <1>1, Inductive, PTL

-----------------------------------------------------------------------------
(* Who leaves the table. *)

LEMMA Types ==
    ASSUME IInv
    PROVE  /\ clienttab \in Seq(Conns) /\ Len(clienttab) \in Nat
           /\ \A k \in 1 .. Len(clienttab) : clienttab[k] \in Conns
           /\ Entries \subseteq Conns
           /\ in \in [Conns -> Seq(Chunk)] /\ out \in [Conns -> Seq(Chunk)]
           /\ owed \in [Conns -> Frame] /\ devin \in Seq(Frame)
           /\ ri \in Nat \ {0} /\ wi \in Nat \ {0} /\ wj \in Nat \ {0}
           /\ rbuf \in Frame /\ wbuf \in Frame
           /\ conn \in [Conns -> {"none", "backlog", "open"}]
           /\ peer \in [Conns -> {"up", "fin", "rst", "stall"}]
<1>1. /\ clienttab \in Seq(Conns)
      /\ in \in [Conns -> Seq(Chunk)] /\ out \in [Conns -> Seq(Chunk)]
      /\ owed \in [Conns -> Frame] /\ devin \in Seq(Frame)
      /\ ri \in Nat \ {0} /\ wi \in Nat \ {0} /\ wj \in Nat \ {0}
      /\ rbuf \in Frame /\ wbuf \in Frame
      /\ conn \in [Conns -> {"none", "backlog", "open"}]
      /\ peer \in [Conns -> {"up", "fin", "rst", "stall"}]
  BY DEF IInv, TypeOK, MainTypeOK, ThreadTypeOK, ConnTypeOK
<1>2. Len(clienttab) \in Nat /\ \A k \in 1 .. Len(clienttab) : clienttab[k] \in Conns
  BY <1>1
<1> QED
  BY <1>1, <1>2 DEF Entries

\* A removal takes out one entry and no other.
LEMMA OneLeaves ==
    ASSUME IInv, NEW idx \in 1 .. Len(clienttab), clienttab' = RemoveClient(clienttab, idx)
    PROVE  Entries' = Entries \ {clienttab[idx]}
<1>1. /\ Len(clienttab') = Len(clienttab) - 1
      /\ \A k \in 1 .. Len(clienttab) - 1 :
            clienttab'[k] = IF k < idx THEN clienttab[k] ELSE clienttab[k + 1]
  BY Types, RemoveClientShape
<1>2. \A k, l \in 1 .. Len(clienttab) : clienttab[k] = clienttab[l] => k = l
  BY DEF IInv, TableInv
<1>3. Len(clienttab) \in Nat
  BY Types
<1>4. ASSUME NEW k \in 1 .. Len(clienttab')
      PROVE  clienttab'[k] \in Entries \ {clienttab[idx]}
  <2> DEFINE l == IF k < idx THEN k ELSE k + 1
  <2>1. l \in 1 .. Len(clienttab) /\ l # idx /\ clienttab'[k] = clienttab[l]
    BY <1>1, <1>3
  <2> HIDE DEF l
  <2> QED
    BY <1>2, <2>1 DEF Entries
<1>5. ASSUME NEW l \in 1 .. Len(clienttab), clienttab[l] # clienttab[idx]
      PROVE  clienttab[l] \in Entries'
  <2> DEFINE k == IF l < idx THEN l ELSE l - 1
  <2>1. l # idx
    BY <1>5
  <2>2. k \in 1 .. Len(clienttab') /\ clienttab'[k] = clienttab[l]
    BY <1>1, <1>3, <2>1
  <2> HIDE DEF k
  <2> QED
    BY <2>2 DEF Entries
<1> QED
  BY <1>4, <1>5 DEF Entries

\* An addition adds at most the new client.
LEMMA OneJoins ==
    ASSUME IInv, NEW c \in Conns, clienttab' = AddClient(clienttab, c)
    PROVE  Entries \subseteq Entries' /\ Entries' \subseteq Entries \cup {c}
<1>1. CASE Room(clienttab)
  <2>1. /\ Len(clienttab') = Len(clienttab) + 1
        /\ \A k \in 1 .. Len(clienttab) : clienttab'[k] = clienttab[k]
        /\ clienttab'[Len(clienttab) + 1] = c
    BY <1>1, Types DEF AddClient
  <2>2. Len(clienttab) \in Nat
    BY Types
  <2>3. \A k \in 1 .. Len(clienttab') : k \in 1 .. Len(clienttab) \/ k = Len(clienttab) + 1
    BY <2>1, <2>2
  <2>4. \A k \in 1 .. Len(clienttab) : k \in 1 .. Len(clienttab')
    BY <2>1, <2>2
  <2> QED
    BY <2>1, <2>3, <2>4 DEF Entries
<1>2. CASE ~Room(clienttab)
  BY <1>2 DEF AddClient, Entries
<1> QED
  BY <1>1, <1>2

\* What the threads and main do to the table.
LEMMA ReaderTable ==
    ASSUME IInv, Reader
    PROVE  \/ ~RSendFail /\ clienttab' = clienttab
           \/ RSendFail /\ ri \in 1 .. Len(clienttab)
<1>1. ASSUME RSendFail PROVE ri \in 1 .. Len(clienttab)
  BY <1>1, Types DEF RSendFail
<1> QED
  BY <1>1 DEF Reader, RRead, RNothing, RLock, RSendSize, RSendData, RSigpipe, RUnlock, RCheck

LEMMA WriterTable ==
    ASSUME IInv, Writer
    PROVE  \/ clienttab' = clienttab
           \/ WRecvSize /\ wi \in 1 .. Len(clienttab) /\ clienttab' = RemoveClient(clienttab, wi)
                /\ BadSize(clienttab[wi])
           \/ WRecvFail /\ wi \in 1 .. Len(clienttab) /\ clienttab' = RemoveClient(clienttab, wi)
           \/ WFwdFail /\ wj \in 1 .. Len(clienttab) /\ clienttab' = RemoveClient(clienttab, wj)
           \/ WAdd /\ clienttab' = AddClient(clienttab, newfd) /\ newfd \in Conns
<1>1. CASE WRecvSize
  <2>1. wi \in 1 .. Len(clienttab)
    BY <1>1, Types DEF WRecvSize, AtReady
  <2> QED
    BY <1>1, <2>1 DEF WRecvSize, BadSize, Current
<1>2. CASE WRecvFail
  <2>1. wi \in 1 .. Len(clienttab)
    BY <1>2, Types DEF WRecvFail, AtReady, IInv, IndexInv
  <2> QED
    BY <1>2, <2>1 DEF WRecvFail
<1>3. CASE WFwdFail
  <2>1. wj \in 1 .. Len(clienttab)
    BY <1>3, Types DEF WFwdFail, AtForward, IInv, IndexInv
  <2> QED
    BY <1>3, <2>1 DEF WFwdFail
<1>4. CASE WAdd
  BY <1>4 DEF WAdd, IInv, RoomInv
<1> QED
  BY <1>1, <1>2, <1>3, <1>4
  DEF Writer, WBuild, WSelect, WSelectFail, WLock, WSkip, WRecvData, WRecvEof, WSpin, WWrite,
      WWriteFail, WFwdSelf, WFwdSize, WFwdData, WSigpipe, WFwdEnd, WUnlock, WAccept,
      WAcceptFail, WCheck, vars

LEMMA MainTable ==
    ASSUME IInv, Main
    PROVE  \/ clienttab' = clienttab /\ conn' = conn
           \/ MConnect /\ \E c \in Conns : /\ clienttab' = AddClient(clienttab, c)
                                           /\ conn' = [conn EXCEPT ![c] = "open"]
BY DEF Main, MConnect, MFreeIfname, MStart, MStartFail, MCreateReader, MCreateWriter, MStop,
       MJoinReader, MJoinWriter, MJoin, MClose, MDestroy, notMain

LEMMA EnvironmentTable ==
    ASSUME Environment
    PROVE  clienttab' = clienttab
BY DEF Environment, PConnect, PSendSize, PSendData, PMove, DFrame, system

\* OnlyFaultyLeave (TapServer): a removal takes out the client that failed or
\* announced an impossible size, never a neighbour.
THEOREM FaultyLeave == Spec => OnlyFaultyLeave
<1> DEFINE Good == \A c \in Entries : c \in Entries' \/ peer[c] \in {"fin", "rst"} \/ BadSize(c)
<1>1. ASSUME IInv, [Next]_vars PROVE Good
  <2>1. CASE clienttab' = clienttab
    BY <2>1 DEF Entries
  <2>2. CASE Reader
    <3>1. CASE RSendFail
      <4>1. ri \in 1 .. Len(clienttab) /\ clienttab' = RemoveClient(clienttab, ri)
        BY <1>1, <3>1, Types DEF RSendFail
      <4>2. Entries' = Entries \ {clienttab[ri]}
        <5> ri \in 1 .. Len(clienttab)
          BY <4>1
        <5> PICK idx \in 1 .. Len(clienttab) : idx = ri
          OBVIOUS
        <5> QED
          BY <1>1, <4>1, OneLeaves
      <4> QED
        BY <3>1, <4>2 DEF RSendFail, SendFails
    <3> QED
      BY <1>1, <2>1, <2>2, <3>1, ReaderTable
  <2>3. CASE Writer
    <3>1. ASSUME NEW idx \in 1 .. Len(clienttab), clienttab' = RemoveClient(clienttab, idx),
                 peer[clienttab[idx]] \in {"fin", "rst"} \/ BadSize(clienttab[idx])
          PROVE  Good
      BY <1>1, <3>1, OneLeaves
    <3>2. CASE WRecvFail /\ wi \in 1 .. Len(clienttab)
               /\ clienttab' = RemoveClient(clienttab, wi)
      <4> PICK idx \in 1 .. Len(clienttab) : idx = wi
        BY <3>2
      <4> QED
        BY <3>1, <3>2 DEF WRecvFail, Current
    <3>3. CASE WFwdFail /\ wj \in 1 .. Len(clienttab)
               /\ clienttab' = RemoveClient(clienttab, wj)
      <4> PICK idx \in 1 .. Len(clienttab) : idx = wj
        BY <3>3
      <4> QED
        BY <3>1, <3>3 DEF WFwdFail, SendFails
    <3>5. CASE WRecvSize /\ wi \in 1 .. Len(clienttab) /\ BadSize(clienttab[wi])
               /\ clienttab' = RemoveClient(clienttab, wi)
      <4> PICK idx \in 1 .. Len(clienttab) : idx = wi
        BY <3>5
      <4> QED
        BY <3>1, <3>5
    <3>4. ASSUME NEW c \in Conns, clienttab' = AddClient(clienttab, c) PROVE Good
      BY <1>1, <3>4, OneJoins
    <3> QED
      BY <1>1, <2>1, <2>3, <3>2, <3>3, <3>4, <3>5, WriterTable
  <2>4. CASE Main
    <3>1. ASSUME NEW c \in Conns, clienttab' = AddClient(clienttab, c) PROVE Good
      BY <1>1, <3>1, OneJoins
    <3> QED
      BY <1>1, <2>1, <2>4, <3>1, MainTable
  <2> QED
    BY <1>1, <2>1, <2>2, <2>3, <2>4, EnvironmentTable DEF Next, Halted, vars
<1> QED
  BY <1>1, Inductive, PTL DEF Spec, OnlyFaultyLeave

-----------------------------------------------------------------------------
(* What the streams between the server and its clients look like.          *)

\* A frame of source s, of a length that peers or the device choose.
Owned(f, s) == f.src = s /\ f.len \in PeerLens \cup DevLens

\* Frames keep their source wherever they wait, and two bytes can announce them.
FrameInv ==
    /\ \A k \in 1 .. Len(devin) : Owned(devin[k], Dev)
    /\ rbuf.src = Dev /\ rbuf.len < 65536
    /\ wbuf.len < 65536
    /\ \A c \in Conns : owed[c].len < 65536 /\ (owed[c] # NoFrame => Owned(owed[c], c))
    /\ \A c \in Conns : \A k \in 1 .. Len(in[c]) :
          in[c][k].kind = "data" => Owned(in[c][k].frame, c)

\* No connection exists before main makes the first one.
ConnectInv == mpc = "connect" => serversock = "null" /\ \A c \in Conns : conn[c] = "none"

\* Sizes and payloads alternate; Half: the payload of f is still missing.
Framed(s) ==
    \A k \in 1 .. Len(s) :
        IF k % 2 = 1 THEN s[k].kind = "size"
        ELSE s[k].kind = "data" /\ SizeOf(s[k - 1].bytes) = s[k].frame.len
Half(s, f) == Len(s) % 2 = 1 /\ SizeOf(s[Len(s)].bytes) = f.len

\* A thread has sent c a size and is about to send the payload.
Halfway(c) == \/ rpc = "data" /\ clienttab[ri] = c
              \/ wpc = "fdata" /\ clienttab[wj] = c

\* Nothing was sent to a connection before it is in the table, and in the table
\* only the client a thread is at lacks a payload.
OutInv ==
    /\ \A c \in Conns : Framed(out[c])
    /\ \A c \in Entries : Len(out[c]) % 2 = 1 => Halfway(c)
    /\ rpc = "data" => Half(out[clienttab[ri]], rbuf)
    /\ wpc = "fdata" => Half(out[clienttab[wj]], wbuf)
    /\ \A c \in Conns : conn[c] # "open" \/ (wpc = "add" /\ c = newfd) => out[c] = <<>>

\* What arrives: a payload follows every size but 0, and has that size.
InFramedSeq(s) ==
    \A k \in 1 .. Len(s) - 1 :
       IF s[k].kind = "size" /\ SizeOf(s[k].bytes) # 0
       THEN s[k + 1].kind = "data" /\ s[k + 1].frame.len = SizeOf(s[k].bytes)
       ELSE s[k + 1].kind = "size"

\* f is what the peer owes after s, as far as s tells.
Owes(s, f) ==
    s # <<>> =>
       IF s[Len(s)].kind = "size" /\ SizeOf(s[Len(s)].bytes) # 0
       THEN f # NoFrame /\ f.len = SizeOf(s[Len(s)].bytes)
       ELSE f = NoFrame

\* The next chunk is a size, or a payload whose size was accepted.
AtSize(s, f) == IF s = <<>> THEN f = NoFrame ELSE s[1].kind = "size"
AtData(s, f) == IF s = <<>> THEN f # NoFrame /\ LegalSize(f.len)
                ELSE s[1].kind = "data" /\ LegalSize(s[1].frame.len)

\* A connection that is in the table or may still get into it.
Fresh(c) == conn[c] # "open" \/ (wpc = "add" /\ c = newfd) \/ c \in Entries

\* Where the stream from c is: what the next recv_data will meet.
InPlace(c) ==
    IF wpc = "body" /\ c = Current THEN AtData(in[c], owed[c])
    ELSE IF wpc = "spin" /\ c = Current THEN in[c] = <<>> /\ peer[c] = "fin"
    ELSE AtSize(in[c], owed[c])

\* Every peer frames what it sends, and the writer is in step with every
\* connection whose bytes it may still read.
InInv ==
    /\ wbuf.len <= BufSize
    /\ \A c \in Conns : InFramedSeq(in[c]) /\ Owes(in[c], owed[c])
    /\ \A c \in Conns : Fresh(c) => InPlace(c)

-----------------------------------------------------------------------------
(* What the steps do to the streams out of the server. *)

\* Nothing that OutInv speaks about changes.
QuietOut ==
    /\ UNCHANGED <<out, clienttab, conn, newfd>>
    /\ (rpc' = "data") <=> (rpc = "data")
    /\ rpc = "data" => UNCHANGED <<ri, rbuf>>
    /\ (wpc' = "fdata") <=> (wpc = "fdata")
    /\ wpc = "fdata" => UNCHANGED <<wj, wbuf>>
    /\ (wpc' = "add") <=> (wpc = "add")

LEMMA ReaderOut ==
    ASSUME IInv, Reader
    PROVE  RSendSize \/ RSendData \/ RSendFail \/ QuietOut
<1> USE DEF QuietOut, notReader, mainVars, writerVars, peerVars, scanVars, selVars
<1>1. CASE RRead
  BY <1>1 DEF RRead
<1>2. CASE RNothing
  BY <1>2 DEF RNothing
<1>3. CASE RLock
  BY <1>3 DEF RLock
<1>4. CASE RSigpipe
  BY <1>4 DEF RSigpipe
<1>5. CASE RUnlock
  BY <1>5 DEF RUnlock
<1>6. CASE RCheck
  BY <1>6 DEF RCheck, Recheck
<1> QED
  BY <1>1, <1>2, <1>3, <1>4, <1>5, <1>6 DEF Reader

LEMMA WriterOut ==
    ASSUME IInv, Writer
    PROVE  \/ WRecvSize \/ WRecvFail \/ WFwdSize \/ WFwdData \/ WFwdFail \/ WAccept \/ WAdd
           \/ QuietOut
<1> USE DEF QuietOut, notWriter, mainVars, readerVars, peerVars, scanVars, selVars, sockVars
<1>1. CASE WBuild \/ WSelect \/ WSelectFail \/ WLock \/ WSkip
  BY <1>1 DEF WBuild, WSelect, WSelectFail, WLock, WSkip
<1>2. CASE WRecvData \/ WRecvEof
  BY <1>2 DEF WRecvData, WRecvEof
<1>3. CASE WSpin
  BY <1>3 DEF WSpin, vars, writerVars, devVars
<1>4. CASE WWrite \/ WWriteFail
  BY <1>4 DEF WWrite, WWriteFail
<1>5. CASE WFwdSelf \/ WSigpipe \/ WFwdEnd
  BY <1>5 DEF WFwdSelf, WSigpipe, WFwdEnd
<1>6. CASE WUnlock \/ WAcceptFail \/ WCheck
  BY <1>6 DEF WUnlock, WAcceptFail, WCheck, Recheck
<1> QED
  BY <1>1, <1>2, <1>3, <1>4, <1>5, <1>6 DEF Writer

LEMMA MainOut ==
    ASSUME IInv, Main
    PROVE  MConnect \/ QuietOut
<1> USE DEF QuietOut, notMain, mainVars, readerVars, peerVars, scanVars, selVars, sockVars
<1>1. CASE MFreeIfname \/ MStart \/ MStartFail \/ MStop \/ MClose \/ MDestroy
  BY <1>1 DEF MFreeIfname, MStart, MStartFail, MStop, MClose, MDestroy
<1>2. CASE MCreateReader
  BY <1>2 DEF MCreateReader, IInv, LifeInv
<1>3. CASE MCreateWriter
  BY <1>3 DEF MCreateWriter, IInv, LifeInv
<1>4. CASE MJoinReader \/ MJoinWriter
  BY <1>4 DEF MJoinReader, MJoinWriter, MJoin
<1> QED
  BY <1>1, <1>2, <1>3, <1>4 DEF Main

LEMMA EnvironmentOut ==
    ASSUME IInv, Environment
    PROVE  (\E c \in Conns : PConnect(c)) \/ QuietOut
<1>1. CASE \E c \in Conns, len \in PeerLens : PSendSize(c, len)
  BY <1>1 DEF PSendSize, QuietOut, system, sockVars, readerVars, writerVars
<1>2. CASE \E c \in Conns : PSendData(c)
  BY <1>2 DEF PSendData, QuietOut, system, sockVars, readerVars, writerVars
<1>3. CASE \E c \in Conns : PMove(c)
  BY <1>3 DEF PMove, QuietOut, system, sockVars, readerVars, writerVars
<1>4. CASE DFrame
  BY <1>4 DEF DFrame, QuietOut, system, sockVars, readerVars, writerVars
<1> QED
  BY <1>1, <1>2, <1>3, <1>4 DEF Environment

-----------------------------------------------------------------------------
(* Sizes and payloads appended. *)

LEMMA SizeBack ==
    ASSUME NEW len \in Nat, len < 65536
    PROVE  SizeOf(SizeBuf(len)) = len
<1>1. len \div 256 \in Nat /\ len \div 256 < 256 /\ len % 256 = len - 256 * (len \div 256)
  OBVIOUS
<1>2. (len \div 256) % 256 = len \div 256
  BY <1>1
<1> QED
  BY <1>1, <1>2 DEF SizeOf, SizeBuf

\* A size appended to whole frames, and a payload appended to its size.
LEMMA FramedSize ==
    ASSUME NEW s \in Seq(Chunk), Framed(s), Len(s) % 2 # 1, NEW f \in Frame, f.len < 65536
    PROVE  Framed(Append(s, SizeChunk(f))) /\ Half(Append(s, SizeChunk(f)), f)
<1> DEFINE t == Append(s, SizeChunk(f))
<1>1. Len(t) = Len(s) + 1 /\ \A k \in 1 .. Len(s) : t[k] = s[k]
  OBVIOUS
<1>2. t[Len(s) + 1].kind = "size" /\ t[Len(s) + 1].bytes = SizeBuf(f.len)
  BY DEF SizeChunk
<1>3. SizeOf(SizeBuf(f.len)) = f.len
  BY SizeBack DEF Frame
<1>4. Len(s) \in Nat /\ (Len(s) + 1) % 2 = 1
  OBVIOUS
<1> HIDE DEF t
<1>5. ASSUME NEW k \in 1 .. Len(t)
      PROVE  IF k % 2 = 1 THEN t[k].kind = "size"
             ELSE t[k].kind = "data" /\ SizeOf(t[k - 1].bytes) = t[k].frame.len
  <2>1. CASE k = Len(s) + 1
    BY <1>2, <1>4, <2>1
  <2>2. CASE k \in 1 .. Len(s) /\ k % 2 = 1
    BY <1>1, <2>2 DEF Framed
  <2>3. CASE k \in 1 .. Len(s) /\ k % 2 # 1
    <3>1. k - 1 \in 1 .. Len(s)
      BY <2>3
    <3> QED
      BY <1>1, <2>3, <3>1 DEF Framed
  <2> QED
    BY <1>1, <1>4, <2>1, <2>2, <2>3
<1>6. Framed(t)
  BY <1>5 DEF Framed
<1>7. Half(t, f)
  BY <1>1, <1>2, <1>3, <1>4 DEF Half
<1> QED
  BY <1>6, <1>7 DEF t

LEMMA FramedData ==
    ASSUME NEW s \in Seq(Chunk), Framed(s), NEW f \in Frame, Half(s, f)
    PROVE  Framed(Append(s, DataChunk(f))) /\ Len(Append(s, DataChunk(f))) % 2 # 1
<1> DEFINE t == Append(s, DataChunk(f))
<1>1. Len(t) = Len(s) + 1 /\ \A k \in 1 .. Len(s) : t[k] = s[k]
  OBVIOUS
<1>2. t[Len(s) + 1].kind = "data" /\ t[Len(s) + 1].frame = f
  BY DEF DataChunk
<1>3. Len(s) \in Nat /\ Len(s) % 2 = 1 /\ SizeOf(s[Len(s)].bytes) = f.len
  BY DEF Half
<1>4. (Len(s) + 1) % 2 = 0 /\ Len(s) \in 1 .. Len(s)
  BY <1>3
<1> HIDE DEF t
<1>5. ASSUME NEW k \in 1 .. Len(t)
      PROVE  IF k % 2 = 1 THEN t[k].kind = "size"
             ELSE t[k].kind = "data" /\ SizeOf(t[k - 1].bytes) = t[k].frame.len
  <2>1. CASE k = Len(s) + 1
    <3>1. k - 1 = Len(s) /\ k % 2 = 0
      BY <1>3, <1>4, <2>1
    <3>2. t[k - 1] = s[Len(s)]
      BY <1>1, <1>4, <3>1
    <3> QED
      BY <1>2, <1>3, <2>1, <3>1, <3>2
  <2>2. CASE k \in 1 .. Len(s) /\ k % 2 = 1
    BY <1>1, <2>2 DEF Framed
  <2>3. CASE k \in 1 .. Len(s) /\ k % 2 # 1
    <3>1. k - 1 \in 1 .. Len(s)
      BY <2>3
    <3> QED
      BY <1>1, <2>3, <3>1 DEF Framed
  <2> QED
    BY <1>1, <1>3, <2>1, <2>2, <2>3
<1>6. Framed(t)
  BY <1>5 DEF Framed
<1> QED
  BY <1>1, <1>4, <1>6 DEF t

-----------------------------------------------------------------------------
(* Where frames come from. *)

QuietFrames == UNCHANGED <<devin, rbuf, wbuf, owed, in>>

LEMMA FrameInvInit ==
    ASSUME Init PROVE FrameInv /\ ConnectInv
<1>1. NoFrame.src = Dev /\ NoFrame.len < 65536
  BY DEF NoFrame
<1> QED
  BY <1>1, SMTT(30) DEF Init, FrameInv, ConnectInv

LEMMA OwnedFits ==
    ASSUME NEW f, NEW s, Owned(f, s)
    PROVE  f.len < 65536
<1>1. PeerLens \subseteq Nat /\ (\A len \in PeerLens : len < 65536) /\ BufSize < 65536
      /\ DevLens \subseteq 1 .. BufSize /\ BufSize \in Nat
  BY ServerAssumption
<1>2. \A len \in DevLens : len < 65536
  BY <1>1
<1>3. PICK len \in PeerLens \cup DevLens : len = f.len
  BY DEF Owned
<1>4. \A l \in PeerLens \cup DevLens : l < 65536
  BY <1>1, <1>2
<1>5. len < 65536
  BY <1>4
<1> QED
  BY <1>3, <1>5

LEMMA ReaderFrames ==
    ASSUME IInv, Reader, FrameInv PROVE FrameInv'
<1> USE DEF notReader, peerVars, writerVars
<1>1. CASE RRead
  <2>1. /\ devin \in Seq(Frame) /\ devin # <<>>
        /\ rbuf' = Head(devin) /\ devin' = Tail(devin)
        /\ UNCHANGED <<wbuf, owed, in>>
    BY <1>1, Types DEF RRead, scanVars
  <2>2. \A k \in 1 .. Len(devin) : Owned(devin[k], Dev)
    BY DEF FrameInv
  <2>3. Owned(rbuf', Dev) /\ \A k \in 1 .. Len(devin') : Owned(devin'[k], Dev)
    BY <2>1, <2>2
  <2>4. rbuf'.src = Dev /\ rbuf'.len < 65536
    BY <2>3, OwnedFits DEF Owned
  <2> QED
    BY <2>1, <2>3, <2>4 DEF FrameInv
<1>2. CASE RUnlock
  <2>1. rbuf' = NoFrame /\ UNCHANGED <<devin, wbuf, owed, in>>
    BY <1>2 DEF RUnlock, scanVars
  <2>2. NoFrame.src = Dev /\ NoFrame.len < 65536
    BY DEF NoFrame
  <2> QED
    BY <2>1, <2>2 DEF FrameInv
<1>3. CASE ~RRead /\ ~RUnlock
  <2>1. QuietFrames
    BY <1>3 DEF QuietFrames, Reader, RNothing, RLock, RSendSize, RSendData, RSendFail, RSigpipe,
                RCheck, scanVars
  <2> QED
    BY <2>1 DEF FrameInv, QuietFrames
<1> QED
  BY <1>1, <1>2, <1>3

LEMMA TailShape ==
    ASSUME NEW S, NEW s \in Seq(S), s # <<>>
    PROVE  /\ Len(s) \in Nat \ {0} /\ Len(Tail(s)) = Len(s) - 1 /\ Tail(s) \in Seq(S)
           /\ \A k \in 1 .. Len(Tail(s)) : k + 1 \in 1 .. Len(s) /\ Tail(s)[k] = s[k + 1]
<1>1. Len(s) \in Nat \ {0} /\ Len(Tail(s)) = Len(s) - 1 /\ Tail(s) \in Seq(S)
  OBVIOUS
<1>2. ASSUME NEW k \in 1 .. Len(Tail(s))
      PROVE  k + 1 \in 1 .. Len(s) /\ Tail(s)[k] = s[k + 1]
  BY <1>1
<1> QED
  BY <1>1, <1>2

\* Taking the first chunk off a stream leaves the others.
LEMMA TailOwned ==
    ASSUME IInv, FrameInv, NEW c \in Conns, in[c] # <<>>, in' = [in EXCEPT ![c] = Tail(@)]
    PROVE  \A d \in Conns : \A k \in 1 .. Len(in'[d]) :
              in'[d][k].kind = "data" => Owned(in'[d][k].frame, d)
<1>1. \A d \in Conns : \A k \in 1 .. Len(in[d]) :
         in[d][k].kind = "data" => Owned(in[d][k].frame, d)
  BY DEF FrameInv
<1>2. \A d \in Conns : in[d] \in Seq(Chunk)
  BY Types
<1>3. ASSUME NEW d \in Conns, NEW k \in 1 .. Len(in'[d])
      PROVE  in'[d][k].kind = "data" => Owned(in'[d][k].frame, d)
  <2>1. CASE d # c
    BY <1>1, <2>1, Types
  <2>2. CASE d = c
    <3>1. in'[d] = Tail(in[c])
      BY <2>2, Types
    <3>2. k + 1 \in 1 .. Len(in[c]) /\ in'[d][k] = in[c][k + 1]
      BY <1>2, <3>1, TailShape
    <3> QED
      BY <1>1, <2>2, <3>2
  <2> QED
    BY <2>1, <2>2
<1> QED
  BY <1>3

LEMMA AppendAt ==
    ASSUME NEW s \in Seq(Chunk), NEW x \in Chunk, NEW k \in 1 .. Len(Append(s, x))
    PROVE  Append(s, x)[k] = IF k \in 1 .. Len(s) THEN s[k] ELSE x
OBVIOUS

LEMMA AppendOwned ==
    ASSUME IInv, FrameInv, NEW c \in Conns, NEW ch \in Chunk,
           in' = [in EXCEPT ![c] = Append(@, ch)], ch.kind = "data" => Owned(ch.frame, c)
    PROVE  \A d \in Conns : \A k \in 1 .. Len(in'[d]) :
              in'[d][k].kind = "data" => Owned(in'[d][k].frame, d)
<1>1. \A d \in Conns : \A k \in 1 .. Len(in[d]) :
         in[d][k].kind = "data" => Owned(in[d][k].frame, d)
  BY DEF FrameInv
<1>2. \A d \in Conns : in[d] \in Seq(Chunk)
  BY Types
<1>3. ASSUME NEW d \in Conns, NEW k \in 1 .. Len(in'[d])
      PROVE  in'[d][k].kind = "data" => Owned(in'[d][k].frame, d)
  <2>1. CASE d # c
    <3>1. in'[d] = in[d]
      BY <2>1, Types
    <3>2. k \in 1 .. Len(in[d])
      BY <3>1
    <3> QED
      BY <1>1, <3>1, <3>2
  <2>2. CASE d = c
    <3>1. in'[d] = Append(in[c], ch)
      BY <2>2, Types
    <3>2. CASE k \in 1 .. Len(in[c])
      <4>1. in[c] \in Seq(Chunk) /\ Append(in[c], ch)[k] = in[c][k]
        <5>1. in[c] \in Seq(Chunk) /\ k \in 1 .. Len(Append(in[c], ch))
          BY <1>2, <3>1
        <5> QED
          BY <3>2, <5>1, AppendAt
      <4>2. in'[d][k] = in[c][k]
        BY <3>1, <4>1
      <4> QED
        BY <1>1, <2>2, <3>2, <4>2
    <3>3. CASE k \notin 1 .. Len(in[c])
      <4>1. Append(in[c], ch)[k] = ch
        <5>1. in[c] \in Seq(Chunk) /\ k \in 1 .. Len(Append(in[c], ch))
          BY <1>2, <3>1
        <5> QED
          BY <3>3, <5>1, AppendAt
      <4>2. in'[d][k] = ch
        BY <3>1, <4>1
      <4> QED
        BY <2>2, <4>2
    <3> QED
      BY <3>2, <3>3
  <2> QED
    BY <2>1, <2>2
<1> QED
  BY <1>3

LEMMA WriterFrames ==
    ASSUME IInv, Writer, FrameInv PROVE FrameInv'
<1> USE DEF notWriter, peerVars, readerVars
<1>1. CASE WRecvSize
  <2>1. PICK c \in Conns : c = Current /\ in[c] # <<>> /\ in' = [in EXCEPT ![c] = Tail(@)]
    <3>1. wi \in 1 .. Len(clienttab) /\ in[Current] # <<>>
          /\ in' = [in EXCEPT ![Current] = Tail(@)]
      BY <1>1, Types DEF WRecvSize, AtReady
    <3> QED
      BY <3>1, Types DEF Current
  <2>2. UNCHANGED <<devin, rbuf, wbuf, owed>>
    BY <1>1 DEF WRecvSize
  <2> QED
    BY <2>1, <2>2, TailOwned DEF FrameInv
<1>2. CASE WRecvData
  <2>1. wi \in 1 .. Len(clienttab)
    BY <1>2, Types DEF WRecvData, IInv, IndexInv
  <2>2. PICK c \in Conns : /\ c = Current /\ in[c] # <<>> /\ in' = [in EXCEPT ![c] = Tail(@)]
                           /\ wbuf' = Head(in[c]).frame /\ Head(in[c]).kind = "data"
    BY <1>2, <2>1, Types DEF WRecvData, Current
  <2>3. UNCHANGED <<devin, rbuf, owed>>
    BY <1>2 DEF WRecvData
  <2>4. in[c] \in Seq(Chunk)
    BY Types
  <2>5. Head(in[c]) = in[c][1] /\ 1 \in 1 .. Len(in[c])
    BY <2>2, <2>4
  <2>6. Owned(wbuf', c)
    BY <2>2, <2>5 DEF FrameInv
  <2>7. wbuf'.len < 65536
    BY <2>6, OwnedFits
  <2> QED
    BY <2>2, <2>3, <2>7, TailOwned DEF FrameInv
<1>3. CASE WWrite \/ WWriteFail \/ WFwdEnd
  <2>1. wbuf' = NoFrame /\ UNCHANGED <<devin, rbuf, owed, in>>
    BY <1>3 DEF WWrite, WWriteFail, WFwdEnd, sockVars
  <2>2. NoFrame.len = 0
    BY DEF NoFrame
  <2> QED
    BY <2>1, <2>2 DEF FrameInv
<1>4. CASE WSpin
  BY <1>4 DEF WSpin, vars, writerVars, devVars, scanVars, FrameInv
<1>5. CASE ~WRecvSize /\ ~WRecvData /\ ~(WWrite \/ WWriteFail \/ WFwdEnd) /\ ~WSpin
  <2>1. QuietFrames
    BY <1>5 DEF QuietFrames, Writer, WBuild, WSelect, WSelectFail, WLock, WSkip, WRecvFail,
                WRecvEof, WFwdSelf, WFwdSize, WFwdData, WFwdFail, WSigpipe, WUnlock, WAccept,
                WAcceptFail, WAdd, WCheck, scanVars, sockVars
  <2> QED
    BY <2>1 DEF FrameInv, QuietFrames
<1> QED
  BY <1>1, <1>2, <1>3, <1>4, <1>5

LEMMA MainFrames ==
    ASSUME Main, FrameInv PROVE FrameInv'
<1>1. QuietFrames
  BY DEF QuietFrames, Main, MConnect, MFreeIfname, MStart, MStartFail, MCreateReader,
         MCreateWriter, MStop, MJoinReader, MJoinWriter, MJoin, MClose, MDestroy, notMain,
         scanVars, peerVars, devVars
<1> QED
  BY <1>1 DEF FrameInv, QuietFrames

LEMMA EnvironmentFrames ==
    ASSUME IInv, Environment, FrameInv PROVE FrameInv'
<1> USE DEF system, peerVars, sockVars, readerVars, writerVars, scanVars
<1>1. ASSUME NEW c \in Conns, NEW len \in PeerLens, PSendSize(c, len) PROVE FrameInv'
  <2> DEFINE f == [src |-> c, n |-> nsent[c] + 1, len |-> len]
  <2>1. len \in Nat /\ len < 65536 /\ nsent[c] \in Nat
    BY ServerAssumption DEF IInv, TypeOK, ConnTypeOK
  <2>2. f \in Frame
    BY <2>1, FrameType
  <2>3. SizeChunk(f) \in Chunk /\ SizeChunk(f).kind = "size"
    BY <2>2, ChunkTypes DEF SizeChunk
  <2>4. in' = [in EXCEPT ![c] = Append(@, SizeChunk(f))]
        /\ owed' = [owed EXCEPT ![c] = IF len = 0 THEN NoFrame ELSE f]
        /\ UNCHANGED <<devin, rbuf, wbuf>>
    BY <1>1 DEF PSendSize
  <2>5. NoFrame.len = 0 /\ f.len < 65536 /\ Owned(f, c)
    BY <2>1 DEF NoFrame, Owned
  <2> HIDE DEF f
  <2>6. \A d \in Conns : owed'[d].len < 65536 /\ (owed'[d] # NoFrame => Owned(owed'[d], d))
    BY <2>4, <2>5, Types DEF FrameInv
  <2> QED
    BY <2>3, <2>4, <2>6, AppendOwned DEF FrameInv
<1>2. ASSUME NEW c \in Conns, PSendData(c) PROVE FrameInv'
  <2>1. owed[c] \in Frame /\ owed[c] # NoFrame /\ Owned(owed[c], c)
    BY <1>2, Types DEF PSendData, FrameInv
  <2>2. DataChunk(owed[c]) \in Chunk /\ DataChunk(owed[c]).frame = owed[c]
    BY <2>1, ChunkTypes DEF DataChunk
  <2>3. in' = [in EXCEPT ![c] = Append(@, DataChunk(owed[c]))]
        /\ owed' = [owed EXCEPT ![c] = NoFrame] /\ UNCHANGED <<devin, rbuf, wbuf>>
    BY <1>2 DEF PSendData
  <2>4. NoFrame.len = 0
    BY DEF NoFrame
  <2>5. \A d \in Conns : owed'[d].len < 65536 /\ (owed'[d] # NoFrame => Owned(owed'[d], d))
    BY <2>3, <2>4, Types DEF FrameInv
  <2>6. \A d \in Conns : \A k \in 1 .. Len(in'[d]) :
              in'[d][k].kind = "data" => Owned(in'[d][k].frame, d)
    BY <2>1, <2>2, <2>3, AppendOwned
  <2> QED
    BY <2>3, <2>5, <2>6 DEF FrameInv
<1>3. CASE DFrame
  <2>1. PICK len \in DevLens :
           devin' = Append(devin, [src |-> Dev, n |-> ndev + 1, len |-> len])
    BY <1>3 DEF DFrame
  <2>3. Owned([src |-> Dev, n |-> ndev + 1, len |-> len], Dev)
    BY DEF Owned
  <2>4. UNCHANGED <<rbuf, wbuf, owed, in>>
    BY <1>3 DEF DFrame
  <2>5. \A k \in 1 .. Len(devin) : Owned(devin[k], Dev)
    BY DEF FrameInv
  <2>6. \A k \in 1 .. Len(devin') : Owned(devin'[k], Dev)
    BY <2>1, <2>3, <2>5, Types
  <2> QED
    BY <2>4, <2>6 DEF FrameInv
<1>4. CASE \E c \in Conns : PConnect(c) \/ PMove(c)
  BY <1>4 DEF PConnect, PMove, FrameInv
<1> QED
  BY <1>1, <1>2, <1>3, <1>4 DEF Environment

LEMMA FrameInvNext ==
    ASSUME IInv, FrameInv, [Next]_vars PROVE FrameInv'
<1>1. CASE UNCHANGED vars
  BY <1>1 DEF vars, FrameInv, readerVars, writerVars, scanVars, peerVars, devVars
<1> QED
  BY <1>1, ReaderFrames, WriterFrames, MainFrames, EnvironmentFrames DEF Next, Halted

LEMMA ConnectInvNext ==
    ASSUME IInv, ConnectInv, [Next]_vars PROVE ConnectInv'
<1>1. CASE mpc' # "connect"
  BY <1>1 DEF ConnectInv
<1>2. CASE mpc' = "connect"
  <2>1. mpc = "connect" /\ serversock' = serversock
    BY <1>2 DEF Next, Halted, vars, Reader, Writer, Main, Environment, RRead, RNothing, RLock,
       RSendSize, RSendData, RSendFail, RSigpipe, RUnlock, RCheck, WBuild, WSelect,
       WSelectFail, WLock, WSkip, WRecvSize, WRecvFail, WRecvData, WRecvEof, WSpin, WWrite,
       WWriteFail, WFwdSelf, WFwdSize, WFwdData, WFwdFail, WSigpipe, WFwdEnd, WUnlock, WAccept,
       WAcceptFail, WAdd, WCheck, MConnect, MFreeIfname, MStart, MStartFail, MCreateReader,
       MCreateWriter, MStop, MJoinReader, MJoinWriter, MJoin, MClose, MDestroy, PConnect,
       PMove, PSendSize, PSendData, DFrame, notReader, notWriter, mainVars, system
  <2>2. rpc = "none" /\ wpc = "none"
    BY <2>1 DEF IInv, LifeInv
  <2>3. CASE conn' = conn
    BY <2>1, <2>3 DEF ConnectInv
  <2>4. CASE conn' # conn
    <3>1. ~WAccept /\ ~MConnect /\ ~(\E c \in Conns : PConnect(c))
      BY <1>2, <2>1, <2>2 DEF WAccept, MConnect, PConnect, ConnectInv
    <3> QED
      BY <2>4, <3>1, ReaderOut, WriterOut, MainOut, EnvironmentOut DEF QuietOut, Next, Halted,
         vars, RSendSize, RSendData, RSendFail, notReader, WRecvSize, WRecvFail, WFwdSize,
         WFwdData, WFwdFail, WAdd, sockVars
  <2> QED
    BY <2>3, <2>4
<1> QED
  BY <1>1, <1>2

-----------------------------------------------------------------------------
(* The streams to the clients. *)

\* Inside its critical section the reader excludes the writer, and conversely.
LEMMA Exclusive ==
    ASSUME IInv
    PROVE  /\ rpc \in {"size", "data"} =>
                 wpc \notin {"scan", "body", "write", "fsize", "fdata", "spin"}
           /\ wpc \in {"scan", "body", "write", "fsize", "fdata", "spin"} =>
                 rpc \notin {"size", "data"}
BY DEF IInv, MutexInv

LEMMA EmptyEven == \A s : s = <<>> => Len(s) % 2 # 1
<1>1. Len(<<>>) = 0 /\ 0 % 2 = 0
  OBVIOUS
<1> QED
  BY <1>1

LEMMA OutInvInit ==
    ASSUME Init PROVE OutInv
<1>1. \A c \in Conns : out[c] = <<>>
  BY DEF Init
<1>2. Framed(<<>>) /\ Len(<<>>) % 2 # 1
  BY DEF Framed
<1>3. rpc # "data" /\ wpc # "fdata" /\ clienttab = <<>>
  BY DEF Init
<1>4. Entries = {}
  BY <1>3 DEF Entries
<1> QED
  BY <1>1, <1>2, <1>3, <1>4 DEF OutInv

LEMMA QuietOutKeeps ==
    ASSUME OutInv, QuietOut PROVE OutInv'
<1>1. Entries' = Entries
  BY DEF QuietOut, Entries
<1>2. \A c : (rpc = "data" /\ clienttab[ri] = c) => (rpc' = "data" /\ clienttab'[ri'] = c)
  BY DEF QuietOut
<1>3. \A c : (wpc = "fdata" /\ clienttab[wj] = c) => (wpc' = "fdata" /\ clienttab'[wj'] = c)
  BY DEF QuietOut
<1>4. \A c : Halfway(c) => Halfway(c)'
  BY <1>2, <1>3 DEF Halfway
<1>5. \A c \in Conns : Framed(out'[c])
  BY DEF OutInv, QuietOut
<1>6. \A c \in Entries' : Len(out'[c]) % 2 = 1 => Halfway(c)'
  BY <1>1, <1>4 DEF OutInv, QuietOut
<1>7. rpc' = "data" => Half(out'[clienttab'[ri']], rbuf')
  BY DEF OutInv, QuietOut
<1>8. wpc' = "fdata" => Half(out'[clienttab'[wj']], wbuf')
  BY DEF OutInv, QuietOut
<1>9. \A c \in Conns : conn'[c] # "open" \/ (wpc' = "add" /\ c = newfd') => out'[c] = <<>>
  BY DEF OutInv, QuietOut
<1> QED
  BY <1>5, <1>6, <1>7, <1>8, <1>9 DEF OutInv

\* A chunk sent to an entry of the table.
LEMMA SendKeeps ==
    ASSUME IInv, OutInv, NEW c \in Entries, NEW ch \in Chunk, Send(c, ch),
           Framed(Append(out[c], ch)),
           UNCHANGED <<clienttab, conn, newfd>>, wpc' = "add" => wpc = "add"
    PROVE  /\ \A d \in Conns : Framed(out'[d])
           /\ \A d \in Conns : d # c => out'[d] = out[d]
           /\ out'[c] = Append(out[c], ch)
           /\ \A d \in Conns : conn'[d] # "open" \/ (wpc' = "add" /\ d = newfd') => out'[d] = <<>>
           /\ Entries' = Entries /\ c \in Conns
<1>1. c \in Conns /\ out' = [out EXCEPT ![c] = Append(@, ch)]
  BY Types DEF Send
<1>2. out'[c] = Append(out[c], ch) /\ \A d \in Conns : d # c => out'[d] = out[d]
  BY <1>1, Types
<1>3. \A d \in Conns : Framed(out'[d])
  BY <1>2 DEF OutInv
<1>4. conn[c] = "open" /\ ~(wpc = "add" /\ c = newfd)
  BY DEF IInv, TableInv, RoomInv, Entries
<1>5. \A d \in Conns : conn'[d] # "open" \/ (wpc' = "add" /\ d = newfd') => out'[d] = <<>>
  BY <1>2, <1>4 DEF OutInv
<1> QED
  BY <1>1, <1>2, <1>3, <1>5 DEF Entries

\* A client taken out of the table, the one a payload may be missing for.
LEMMA RemoveKeeps ==
    ASSUME IInv, OutInv, NEW idx \in 1 .. Len(clienttab),
           clienttab' = RemoveClient(clienttab, idx), UNCHANGED <<out, conn, newfd>>,
           rpc' # "data", wpc' # "fdata", wpc' = "add" => wpc = "add",
           \A c : Halfway(c) => c = clienttab[idx]
    PROVE  OutInv'
<1>1. Entries' = Entries \ {clienttab[idx]}
  BY OneLeaves
<1>2. \A c \in Entries' : ~(Len(out'[c]) % 2 = 1)
  BY <1>1 DEF OutInv
<1> QED
  BY <1>2 DEF OutInv

LEMMA ReaderOutKeeps ==
    ASSUME IInv, FrameInv, OutInv, Reader PROVE OutInv'
<1>1. CASE RSendSize
  <2>1. PICK c \in Entries : c = clienttab[ri]
    BY <1>1, Types DEF RSendSize, Entries
  <2>2. rpc = "size" /\ rpc' = "data" /\ Send(c, SizeChunk(rbuf))
        /\ UNCHANGED <<clienttab, conn, newfd, wpc, wj, wbuf, ri, rbuf>>
    BY <1>1, <2>1 DEF RSendSize, notReader, writerVars
  <2>3. wpc # "fdata" /\ \A d : ~Halfway(d)
    BY <2>2, Exclusive DEF Halfway
  <2>4. out[c] \in Seq(Chunk) /\ Framed(out[c]) /\ Len(out[c]) % 2 # 1
    BY <2>3, Types DEF OutInv
  <2>5. rbuf \in Frame /\ rbuf.len < 65536 /\ SizeChunk(rbuf) \in Chunk
    BY Types, ChunkTypes DEF FrameInv, Owned
  <2>6. Framed(Append(out[c], SizeChunk(rbuf))) /\ Half(Append(out[c], SizeChunk(rbuf)), rbuf)
    <3>1. PICK s \in Seq(Chunk) : s = out[c]
      BY <2>4
    <3>2. PICK f \in Frame : f = rbuf
      BY <2>5
    <3>4. Framed(s) /\ Len(s) % 2 # 1
      BY <2>4, <3>1
    <3>5. f.len < 65536
      BY <2>5, <3>2
    <3>3. Framed(Append(s, SizeChunk(f))) /\ Half(Append(s, SizeChunk(f)), f)
      BY <3>4, <3>5, FramedSize
    <3> QED
      BY <3>1, <3>2, <3>3
  <2>7. /\ \A d \in Conns : Framed(out'[d])
        /\ \A d \in Conns : d # c => out'[d] = out[d]
        /\ out'[c] = Append(out[c], SizeChunk(rbuf))
        /\ \A d \in Conns : conn'[d] # "open" \/ (wpc' = "add" /\ d = newfd') => out'[d] = <<>>
        /\ Entries' = Entries
    BY <2>2, <2>5, <2>6, SendKeeps
  <2>8. Halfway(c)' /\ Half(out'[clienttab'[ri']], rbuf')
    BY <2>1, <2>2, <2>6, <2>7 DEF Halfway
  <2>9. \A d \in Entries' : Len(out'[d]) % 2 = 1 => Halfway(d)'
    BY <2>3, <2>7, <2>8, Types DEF OutInv
  <2> QED
    BY <2>2, <2>3, <2>7, <2>8, <2>9 DEF OutInv
<1>2. CASE RSendData
  <2>1. PICK c \in Entries : c = clienttab[ri]
    BY <1>2, Types DEF RSendData, Entries, IInv, IndexInv
  <2>2. rpc = "data" /\ rpc' = "size" /\ Send(c, DataChunk(rbuf))
        /\ UNCHANGED <<clienttab, conn, newfd, wpc, wj, wbuf>>
    BY <1>2, <2>1 DEF RSendData, notReader, writerVars
  <2>3. wpc # "fdata" /\ \A d : Halfway(d) => d = c
    BY <2>1, <2>2, Exclusive DEF Halfway
  <2>4. out[c] \in Seq(Chunk) /\ Framed(out[c]) /\ Half(out[c], rbuf)
    BY <2>1, <2>2, Types DEF OutInv
  <2>5. rbuf \in Frame /\ DataChunk(rbuf) \in Chunk
    BY Types, ChunkTypes
  <2>6. Framed(Append(out[c], DataChunk(rbuf))) /\ Len(Append(out[c], DataChunk(rbuf))) % 2 # 1
    BY <2>4, <2>5, FramedData
  <2>7. /\ \A d \in Conns : Framed(out'[d])
        /\ \A d \in Conns : d # c => out'[d] = out[d]
        /\ out'[c] = Append(out[c], DataChunk(rbuf))
        /\ \A d \in Conns : conn'[d] # "open" \/ (wpc' = "add" /\ d = newfd') => out'[d] = <<>>
        /\ Entries' = Entries
    BY <2>2, <2>5, <2>6, SendKeeps
  <2>8. \A d \in Entries' : Len(out'[d]) % 2 # 1
    BY <2>3, <2>6, <2>7, Types DEF OutInv
  <2> QED
    BY <2>2, <2>3, <2>7, <2>8 DEF OutInv
<1>3. CASE RSendFail
  <2>1. ri \in 1 .. Len(clienttab)
    BY <1>3, Types DEF RSendFail
  <2>2. PICK idx \in 1 .. Len(clienttab) : idx = ri
    BY <2>1
  <2>3. /\ clienttab' = RemoveClient(clienttab, idx) /\ rpc' = "size" /\ rpc \in {"size", "data"}
        /\ UNCHANGED <<out, conn, newfd, wpc>>
    BY <1>3, <2>2 DEF RSendFail, notReader, writerVars
  <2>4. wpc # "fdata"
    BY <2>3, Exclusive
  <2>5. \A c : Halfway(c) => c = clienttab[idx]
    BY <2>2, <2>4 DEF Halfway
  <2> QED
    BY <2>3, <2>4, <2>5, RemoveKeeps
<1> QED
  BY <1>1, <1>2, <1>3, ReaderOut, QuietOutKeeps

LEMMA WriterOutKeeps ==
    ASSUME IInv, FrameInv, OutInv, Writer PROVE OutInv'
<1> USE DEF notWriter, readerVars, sockVars
<1>1. CASE WFwdSize
  <2>1. PICK c \in Entries : c = clienttab[wj]
    BY <1>1, Types DEF WFwdSize, Entries
  <2>2. wpc = "fsize" /\ wpc' = "fdata" /\ Send(c, SizeChunk(wbuf))
        /\ UNCHANGED <<clienttab, conn, newfd, rpc, wj, wbuf, ri, rbuf>>
    BY <1>1, <2>1 DEF WFwdSize, scanVars, selVars
  <2>3. rpc # "data" /\ \A d : ~Halfway(d)
    BY <2>2, Exclusive DEF Halfway
  <2>4. out[c] \in Seq(Chunk) /\ Framed(out[c]) /\ Len(out[c]) % 2 # 1
    BY <2>3, Types DEF OutInv
  <2>5. wbuf \in Frame /\ wbuf.len < 65536 /\ SizeChunk(wbuf) \in Chunk
    BY Types, ChunkTypes DEF FrameInv, Owned
  <2>6. Framed(Append(out[c], SizeChunk(wbuf))) /\ Half(Append(out[c], SizeChunk(wbuf)), wbuf)
    <3>1. PICK s \in Seq(Chunk) : s = out[c]
      BY <2>4
    <3>2. PICK f \in Frame : f = wbuf
      BY <2>5
    <3>4. Framed(s) /\ Len(s) % 2 # 1
      BY <2>4, <3>1
    <3>5. f.len < 65536
      BY <2>5, <3>2
    <3>3. Framed(Append(s, SizeChunk(f))) /\ Half(Append(s, SizeChunk(f)), f)
      BY <3>4, <3>5, FramedSize
    <3> QED
      BY <3>1, <3>2, <3>3
  <2>7. /\ \A d \in Conns : Framed(out'[d])
        /\ \A d \in Conns : d # c => out'[d] = out[d]
        /\ out'[c] = Append(out[c], SizeChunk(wbuf))
        /\ \A d \in Conns : conn'[d] # "open" \/ (wpc' = "add" /\ d = newfd') => out'[d] = <<>>
        /\ Entries' = Entries
    BY <2>2, <2>5, <2>6, SendKeeps
  <2>8. Halfway(c)' /\ Half(out'[clienttab'[wj']], wbuf')
    BY <2>1, <2>2, <2>6, <2>7 DEF Halfway
  <2>9. \A d \in Entries' : Len(out'[d]) % 2 = 1 => Halfway(d)'
    BY <2>3, <2>7, <2>8, Types DEF OutInv
  <2> QED
    BY <2>2, <2>3, <2>7, <2>8, <2>9 DEF OutInv
<1>2. CASE WFwdData
  <2>1. PICK c \in Entries : c = clienttab[wj]
    BY <1>2, Types DEF WFwdData, Entries, IInv, IndexInv
  <2>2. wpc = "fdata" /\ wpc' = "fsize" /\ Send(c, DataChunk(wbuf))
        /\ UNCHANGED <<clienttab, conn, newfd, rpc>>
    BY <1>2, <2>1 DEF WFwdData, selVars
  <2>3. rpc # "data" /\ \A d : Halfway(d) => d = c
    BY <2>1, <2>2, Exclusive DEF Halfway
  <2>4. out[c] \in Seq(Chunk) /\ Framed(out[c]) /\ Half(out[c], wbuf)
    BY <2>1, <2>2, Types DEF OutInv
  <2>5. wbuf \in Frame /\ DataChunk(wbuf) \in Chunk
    BY Types, ChunkTypes
  <2>6. Framed(Append(out[c], DataChunk(wbuf))) /\ Len(Append(out[c], DataChunk(wbuf))) % 2 # 1
    BY <2>4, <2>5, FramedData
  <2>7. /\ \A d \in Conns : Framed(out'[d])
        /\ \A d \in Conns : d # c => out'[d] = out[d]
        /\ out'[c] = Append(out[c], DataChunk(wbuf))
        /\ \A d \in Conns : conn'[d] # "open" \/ (wpc' = "add" /\ d = newfd') => out'[d] = <<>>
        /\ Entries' = Entries
    BY <2>2, <2>5, <2>6, SendKeeps
  <2>8. \A d \in Entries' : Len(out'[d]) % 2 # 1
    BY <2>3, <2>6, <2>7, Types DEF OutInv
  <2> QED
    BY <2>2, <2>3, <2>7, <2>8 DEF OutInv
<1>3. CASE WFwdFail
  <2>1. PICK idx \in 1 .. Len(clienttab) : idx = wj
    BY <1>3, Types DEF WFwdFail, AtForward, IInv, IndexInv
  <2>2. /\ clienttab' = RemoveClient(clienttab, idx) /\ wpc' = "fsize" /\ wpc \in {"fsize", "fdata"}
        /\ UNCHANGED <<out, conn, newfd, rpc>>
    BY <1>3, <2>1 DEF WFwdFail, AtForward, selVars
  <2>3. rpc # "data"
    BY <2>2, Exclusive
  <2>4. \A c : Halfway(c) => c = clienttab[idx]
    BY <2>1, <2>3 DEF Halfway
  <2> QED
    BY <2>2, <2>3, <2>4, RemoveKeeps
<1>4. CASE (WRecvSize \/ WRecvFail) /\ wi \in 1 .. Len(clienttab)
           /\ clienttab' = RemoveClient(clienttab, wi) /\ wpc' # "body"
  <2>1. PICK idx \in 1 .. Len(clienttab) : idx = wi
    BY <1>4
  <2>2. /\ clienttab' = RemoveClient(clienttab, idx) /\ wpc' = "scan" /\ wpc \in {"scan", "body"}
        /\ UNCHANGED <<out, conn, newfd, rpc>>
    BY <1>4, <2>1 DEF WRecvSize, WRecvFail, selVars
  <2>3. rpc # "data"
    BY <2>2, Exclusive
  <2>4. \A c : ~Halfway(c)
    BY <2>2, <2>3 DEF Halfway
  <2> QED
    BY <2>2, <2>3, <2>4, RemoveKeeps
<1>5. CASE WRecvSize /\ wpc' = "body"
  BY <1>5, QuietOutKeeps DEF WRecvSize, QuietOut, selVars
<1>6. CASE WAccept
  <2>1. PICK c \in Backlog : newfd' = c /\ conn' = [conn EXCEPT ![c] = "open"]
    BY <1>6 DEF WAccept
  <2>2. wpc = "accept" /\ wpc' = "add" /\ UNCHANGED <<out, clienttab, rpc, ri, rbuf>>
    BY <1>6 DEF WAccept
  <2>3. c \in Conns /\ conn[c] = "backlog" /\ out[c] = <<>>
    BY <2>1 DEF Backlog, OutInv
  <2>4. Entries' = Entries /\ \A d : Halfway(d) => Halfway(d)'
    BY <2>2 DEF Entries, Halfway
  <2>5. \A d \in Conns : conn'[d] # "open" \/ (wpc' = "add" /\ d = newfd') => out'[d] = <<>>
    BY <2>1, <2>2, <2>3, Types DEF OutInv
  <2> QED
    BY <2>2, <2>4, <2>5 DEF OutInv
<1>7. CASE WAdd
  <2>1. PICK c \in Conns : c = newfd
    BY <1>7 DEF WAdd, IInv, RoomInv
  <2>2. wpc = "add" /\ wpc' = "check" /\ rpc' = rpc /\ rpc # "data" /\ conn' = conn /\ out' = out
    BY <1>7 DEF WAdd, IInv, MutexInv, Free
  <2>3. clienttab' = AddClient(clienttab, c)
    BY <1>7, <2>1 DEF WAdd
  <2>4. Entries' \subseteq Entries \cup {c}
    BY <2>3, OneJoins
  <2>7. out[c] = <<>>
    BY <2>1, <2>2 DEF OutInv
  <2>5. Len(out[c]) % 2 # 1
    BY <2>7, EmptyEven
  <2>6. \A d \in Entries' : Len(out'[d]) % 2 # 1
    BY <2>2, <2>4, <2>5 DEF OutInv, Halfway
  <2> QED
    BY <2>2, <2>6 DEF OutInv
<1>8. CASE (WRecvSize \/ WRecvFail) /\ ~QuietOut
  <2>1. wi \in 1 .. Len(clienttab)
    BY <1>8, Types DEF WRecvSize, WRecvFail, AtReady, IInv, IndexInv
  <2> QED
    BY <1>4, <1>5, <1>8, <2>1 DEF WRecvSize, WRecvFail
<1> QED
  BY <1>1, <1>2, <1>3, <1>6, <1>7, <1>8, WriterOut, QuietOutKeeps

LEMMA OutInvNext ==
    ASSUME IInv, FrameInv, ConnectInv, OutInv, [Next]_vars PROVE OutInv'
<1>1. CASE MConnect
  <2>1. /\ rpc = "none" /\ wpc = "none" /\ UNCHANGED <<rpc, wpc, out>>
        /\ \A c \in Conns : conn[c] = "none"
    BY <1>1 DEF MConnect, notMain, IInv, LifeInv, ConnectInv
  <2>4. \A c \in Conns : out'[c] = <<>>
    BY <2>1 DEF OutInv
  <2>2. \A c \in Conns : out'[c] = <<>> /\ Len(out'[c]) % 2 # 1
    BY <2>4, EmptyEven
  <2>3. Entries' \subseteq Conns
    <3>1. CASE clienttab' = clienttab
      BY <3>1, Types DEF Entries
    <3>2. ASSUME NEW c \in Conns, clienttab' = AddClient(clienttab, c)
          PROVE  Entries' \subseteq Conns
      BY <3>2, OneJoins, Types
    <3> QED
      BY <1>1, <3>1, <3>2 DEF MConnect
  <2> QED
    BY <2>1, <2>2, <2>3 DEF OutInv
<1>2. ASSUME NEW c \in Conns, PConnect(c) PROVE OutInv'
  <2>1. /\ conn' = [conn EXCEPT ![c] = "backlog"] /\ conn[c] = "none"
        /\ UNCHANGED <<out, clienttab, rpc, ri, rbuf, wpc, wj, wbuf, newfd>>
    BY <1>2 DEF PConnect, system, readerVars, writerVars
  <2>2. out[c] = <<>>
    BY <2>1 DEF OutInv
  <2>3. \A d \in Conns : conn'[d] # "open" \/ (wpc' = "add" /\ d = newfd') => out'[d] = <<>>
    BY <2>1, <2>2, Types DEF OutInv
  <2>4. Entries' = Entries /\ \A d : Halfway(d) => Halfway(d)'
    BY <2>1 DEF Entries, Halfway
  <2> QED
    BY <2>1, <2>3, <2>4 DEF OutInv
<1>3. CASE UNCHANGED vars
  BY <1>3, QuietOutKeeps DEF vars, QuietOut, readerVars, writerVars, scanVars, selVars
<1> QED
  BY <1>1, <1>2, <1>3, MainOut, EnvironmentOut, QuietOutKeeps, ReaderOutKeeps, WriterOutKeeps
  DEF Next, Halted

\* OutFramed (TapServer): each client receives whole frames, each after its size.
THEOREM StreamsFramed == Spec => []OutFramed
<1> DEFINE Inv == FrameInv /\ ConnectInv /\ OutInv
<1>1. Init => Inv
  BY FrameInvInit, OutInvInit
<1>2. IInv /\ Inv /\ [Next]_vars => Inv'
  BY FrameInvNext, ConnectInvNext, OutInvNext
<1>3. IInv /\ Inv => OutFramed
  BY Types DEF OutInv, Framed, Halfway, OutFramed
<1> QED
  BY <1>1, <1>2, <1>3, Inductive, PTL DEF Spec

-----------------------------------------------------------------------------
(* The streams from the clients. *)

\* A peer that announces a frame, and one that sends the payload it owes.
LEMMA Announce ==
    ASSUME NEW s \in Seq(Chunk), InFramedSeq(s), Owes(s, NoFrame), NEW f \in Frame,
           f # NoFrame, f.len < 65536, NEW g, g = IF f.len = 0 THEN NoFrame ELSE f
    PROVE  /\ InFramedSeq(Append(s, SizeChunk(f))) /\ Owes(Append(s, SizeChunk(f)), g)
           /\ AtSize(s, NoFrame) => AtSize(Append(s, SizeChunk(f)), g)
           /\ AtData(s, NoFrame) => AtData(Append(s, SizeChunk(f)), g)
<1> DEFINE t == Append(s, SizeChunk(f))
<1>1. Len(s) \in Nat /\ Len(t) = Len(s) + 1 /\ \A k \in 1 .. Len(s) : t[k] = s[k]
  OBVIOUS
<1>2. t[Len(t)].kind = "size" /\ t[Len(t)].bytes = SizeBuf(f.len) /\ t # <<>>
  <2>1. t[Len(t)] = SizeChunk(f) /\ t # <<>>
    OBVIOUS
  <2> QED
    BY <2>1 DEF SizeChunk
<1>3. SizeOf(SizeBuf(f.len)) = f.len
  BY SizeBack DEF Frame
<1>4. s # <<>> => Len(s) # 0
  OBVIOUS
<1> HIDE DEF t
<1>5. InFramedSeq(t)
  <2>1. ASSUME NEW k \in 1 .. Len(t) - 1
        PROVE  IF s[k].kind = "size" /\ SizeOf(s[k].bytes) # 0
               THEN t[k + 1].kind = "data" /\ t[k + 1].frame.len = SizeOf(s[k].bytes)
               ELSE t[k + 1].kind = "size"
    <3>1. CASE k = Len(s)
      <4>1. s # <<>> /\ t[k + 1] = t[Len(t)]
        BY <1>1, <3>1
      <4> QED
        BY <1>2, <3>1, <4>1 DEF Owes
    <3>2. CASE k # Len(s)
      <4>1. k \in 1 .. Len(s) - 1 /\ k + 1 \in 1 .. Len(s)
        BY <1>1, <3>2
      <4>2. t[k + 1] = s[k + 1]
        BY <1>1, <4>1
      <4> QED
        BY <4>1, <4>2 DEF InFramedSeq
    <3> QED
      BY <3>1, <3>2
  <2>2. \A k \in 1 .. Len(t) - 1 : t[k] = s[k]
    BY <1>1
  <2> QED
    BY <2>1, <2>2 DEF InFramedSeq
<1>6. Owes(t, g)
  BY <1>2, <1>3 DEF Owes
<1>7. AtSize(s, NoFrame) => AtSize(t, g)
  <2>1. CASE s = <<>>
    <3>1. Len(t) = 1
      BY <1>1, <2>1
    <3> QED
      BY <1>2, <3>1 DEF AtSize
  <2>2. CASE s # <<>>
    <3>1. t[1] = s[1]
      BY <1>1, <1>4, <2>2
    <3> QED
      BY <1>2, <2>2, <3>1 DEF AtSize
  <2> QED
    BY <2>1, <2>2
<1>8. AtData(s, NoFrame) => AtData(t, g)
  <2>1. CASE s # <<>>
    <3>1. t[1] = s[1]
      BY <1>1, <1>4, <2>1
    <3> QED
      BY <1>2, <2>1, <3>1 DEF AtData
  <2> QED
    BY <2>1 DEF AtData
<1> QED
  BY <1>5, <1>6, <1>7, <1>8 DEF t

LEMMA Deliver ==
    ASSUME NEW s \in Seq(Chunk), NEW f \in Frame, InFramedSeq(s), Owes(s, f), f # NoFrame
    PROVE  /\ InFramedSeq(Append(s, DataChunk(f))) /\ Owes(Append(s, DataChunk(f)), NoFrame)
           /\ AtSize(s, f) => AtSize(Append(s, DataChunk(f)), NoFrame)
           /\ AtData(s, f) => AtData(Append(s, DataChunk(f)), NoFrame)
<1> DEFINE t == Append(s, DataChunk(f))
<1>1. Len(s) \in Nat /\ Len(t) = Len(s) + 1 /\ \A k \in 1 .. Len(s) : t[k] = s[k]
  OBVIOUS
<1>2. t[Len(t)].kind = "data" /\ t[Len(t)].frame = f /\ t # <<>>
  BY DEF DataChunk
<1>4. s # <<>> => Len(s) # 0
  OBVIOUS
<1> HIDE DEF t
<1>5. InFramedSeq(t)
  <2>1. ASSUME NEW k \in 1 .. Len(t) - 1
        PROVE  IF s[k].kind = "size" /\ SizeOf(s[k].bytes) # 0
               THEN t[k + 1].kind = "data" /\ t[k + 1].frame.len = SizeOf(s[k].bytes)
               ELSE t[k + 1].kind = "size"
    <3>1. CASE k = Len(s)
      <4>1. s # <<>> /\ t[k + 1] = t[Len(t)]
        BY <1>1, <3>1
      <4> QED
        BY <1>2, <3>1, <4>1 DEF Owes
    <3>2. CASE k # Len(s)
      <4>1. k \in 1 .. Len(s) - 1 /\ k + 1 \in 1 .. Len(s)
        BY <1>1, <3>2
      <4>2. t[k + 1] = s[k + 1]
        BY <1>1, <4>1
      <4> QED
        BY <4>1, <4>2 DEF InFramedSeq
    <3> QED
      BY <3>1, <3>2
  <2>2. \A k \in 1 .. Len(t) - 1 : t[k] = s[k]
    BY <1>1
  <2> QED
    BY <2>1, <2>2 DEF InFramedSeq
<1>6. Owes(t, NoFrame)
  BY <1>2 DEF Owes
<1>7. AtSize(s, f) => AtSize(t, NoFrame)
  <2>1. CASE s # <<>>
    <3>1. t[1] = s[1]
      BY <1>1, <1>4, <2>1
    <3> QED
      BY <1>2, <2>1, <3>1 DEF AtSize
  <2> QED
    BY <2>1 DEF AtSize
<1>8. AtData(s, f) => AtData(t, NoFrame)
  <2>1. CASE s = <<>>
    <3>1. Len(t) = 1
      BY <1>1, <2>1
    <3> QED
      BY <1>2, <2>1, <3>1 DEF AtData
  <2>2. CASE s # <<>>
    <3>1. t[1] = s[1]
      BY <1>1, <1>4, <2>2
    <3> QED
      BY <1>2, <2>2, <3>1 DEF AtData
  <2> QED
    BY <2>1, <2>2
<1> QED
  BY <1>5, <1>6, <1>7, <1>8 DEF t

\* Reading a chunk.
LEMMA Receive ==
    ASSUME NEW s \in Seq(Chunk), NEW f \in Frame, InFramedSeq(s), Owes(s, f), s # <<>>
    PROVE  /\ InFramedSeq(Tail(s)) /\ Owes(Tail(s), f)
           /\ s[1].kind = "size" /\ LegalSize(SizeOf(s[1].bytes)) => AtData(Tail(s), f)
           /\ s[1].kind = "data" => AtSize(Tail(s), f)
<1> DEFINE t == Tail(s)
<1>1. /\ Len(s) \in Nat \ {0} /\ Len(t) = Len(s) - 1
      /\ \A k \in 1 .. Len(t) : k + 1 \in 1 .. Len(s) /\ t[k] = s[k + 1]
      /\ t \in Seq(Chunk)
  BY TailShape
<1>2. t # <<>> => Len(t) # 0
  BY <1>1
<1>3. t = <<>> => Len(s) = 1
  <2>1. t = <<>> => Len(t) = 0
    <3>1. Len(<<>>) = 0
      OBVIOUS
    <3> HIDE DEF t
    <3> QED
      BY <3>1
  <2> HIDE DEF t
  <2> QED
    BY <1>1, <2>1
<1> HIDE DEF t
<1>4. InFramedSeq(t)
  <2>1. ASSUME NEW k \in 1 .. Len(t) - 1
        PROVE  k + 1 \in 1 .. Len(s) - 1 /\ t[k] = s[k + 1] /\ t[k + 1] = s[(k + 1) + 1]
    <3>1. k \in 1 .. Len(t) /\ k + 1 \in 1 .. Len(t) /\ k + 1 \in 1 .. Len(s) - 1
      BY <1>1
    <3> QED
      BY <1>1, <3>1
  <2> QED
    BY <2>1 DEF InFramedSeq
<1>5. Owes(t, f)
  <2>1. CASE t # <<>>
    <3>1. Len(t) \in 1 .. Len(t) /\ Len(t) + 1 = Len(s)
      BY <1>1, <1>2, <2>1
    <3>2. t[Len(t)] = s[Len(s)]
      BY <1>1, <3>1
    <3> QED
      BY <3>2 DEF Owes
  <2> QED
    BY <2>1 DEF Owes
<1>6. t # <<>> => 1 \in 1 .. Len(s) - 1 /\ t[1] = s[1 + 1]
  BY <1>1, <1>2
<1>7. s[1].kind = "size" /\ LegalSize(SizeOf(s[1].bytes)) => AtData(t, f)
  <2>1. LegalSize(SizeOf(s[1].bytes)) => SizeOf(s[1].bytes) # 0
    BY DEF LegalSize
  <2>2. CASE t = <<>>
    BY <1>3, <2>1, <2>2 DEF Owes, AtData
  <2>3. CASE t # <<>>
    BY <1>6, <2>1, <2>3 DEF InFramedSeq, AtData
  <2> QED
    BY <2>2, <2>3
<1>8. s[1].kind = "data" => AtSize(t, f)
  <2>1. CASE t = <<>>
    BY <1>3, <2>1 DEF Owes, AtSize
  <2>2. CASE t # <<>>
    BY <1>6, <2>2 DEF InFramedSeq, AtSize
  <2> QED
    BY <2>1, <2>2
<1> QED
  BY <1>4, <1>5, <1>7, <1>8 DEF t

\* Nothing that InInv speaks about changes, but who is in the table.
QuietIn ==
    /\ UNCHANGED <<in, owed, peer>> /\ wbuf' \in {wbuf, NoFrame}
    /\ (wpc' = "body") <=> (wpc = "body")
    /\ (wpc' = "spin") <=> (wpc = "spin")
    /\ wpc \in {"body", "spin"} => UNCHANGED <<wi, clienttab>>

\* A client that left the table does not come back.
LEMMA FreshShrinks ==
    ASSUME IInv, ConnectInv, [Next]_vars
    PROVE  \A c \in Conns : Fresh(c)' => Fresh(c)
<1>1. CASE QuietOut
  BY <1>1 DEF QuietOut, Fresh, Entries
<1>2. CASE RSendSize \/ RSendData \/ WFwdSize \/ WFwdData
  BY <1>2 DEF Fresh, Entries, RSendSize, RSendData, WFwdSize, WFwdData, notReader, notWriter,
     writerVars, selVars
<1>3. ASSUME Entries' \subseteq Entries, UNCHANGED <<conn, newfd>>, wpc' = "add" => wpc = "add"
      PROVE  \A c \in Conns : Fresh(c)' => Fresh(c)
  BY <1>3 DEF Fresh
<1>4. ASSUME NEW idx \in 1 .. Len(clienttab), clienttab' = RemoveClient(clienttab, idx)
      PROVE  Entries' \subseteq Entries
  BY <1>4, OneLeaves
<1>5. CASE RSendFail
  <2>1. PICK idx \in 1 .. Len(clienttab) : idx = ri
    BY <1>5, Types DEF RSendFail
  <2> QED
    BY <1>3, <1>4, <1>5, <2>1 DEF RSendFail, notReader, writerVars, selVars
<1>6. CASE WRecvSize \/ WRecvFail
  <2>1. PICK idx \in 1 .. Len(clienttab) : idx = wi
    BY <1>6, Types DEF WRecvSize, WRecvFail, AtReady, IInv, IndexInv
  <2>2. clienttab' = clienttab => Entries' = Entries
    BY DEF Entries
  <2> QED
    BY <1>3, <1>4, <1>6, <2>1, <2>2 DEF WRecvSize, WRecvFail, selVars, sockVars
<1>7. CASE WFwdFail
  <2>1. PICK idx \in 1 .. Len(clienttab) : idx = wj
    BY <1>7, Types DEF WFwdFail, AtForward, IInv, IndexInv
  <2> QED
    BY <1>3, <1>4, <1>7, <2>1 DEF WFwdFail, selVars, sockVars
<1>8. CASE WAccept
  <2>1. PICK c \in Backlog : newfd' = c /\ conn' = [conn EXCEPT ![c] = "open"]
    BY <1>8 DEF WAccept
  <2>2. c \in Conns /\ conn[c] = "backlog" /\ \A d \in Conns : d # c => conn'[d] = conn[d]
    BY <2>1, Types DEF Backlog
  <2>3. Entries' = Entries
    BY <1>8 DEF WAccept, Entries
  <2> QED
    BY <2>1, <2>2, <2>3 DEF Fresh
<1>9. CASE WAdd
  <2>1. PICK c \in Conns : c = newfd
    BY <1>9 DEF WAdd, IInv, RoomInv
  <2>2. clienttab' = AddClient(clienttab, c) /\ wpc = "add" /\ wpc' = "check" /\ conn' = conn
    BY <1>9, <2>1 DEF WAdd, sockVars
  <2> QED
    BY <2>1, <2>2, OneJoins DEF Fresh
<1>10. CASE MConnect
  BY <1>10 DEF MConnect, ConnectInv, Fresh
<1>11. ASSUME NEW c \in Conns, PConnect(c)
       PROVE  \A d \in Conns : Fresh(d)' => Fresh(d)
  <2>1. conn[c] = "none" /\ \A d \in Conns : d # c => conn'[d] = conn[d]
    BY <1>11, Types DEF PConnect
  <2>2. UNCHANGED <<clienttab, wpc, newfd>>
    BY <1>11 DEF PConnect, system, writerVars, selVars
  <2> QED
    BY <2>1, <2>2 DEF Fresh, Entries
<1>12. CASE UNCHANGED vars
  BY <1>12 DEF vars, writerVars, selVars, Fresh, Entries
<1> QED
  BY <1>1, <1>2, <1>5, <1>6, <1>7, <1>8, <1>9, <1>10, <1>11, <1>12, ReaderOut, WriterOut,
     MainOut, EnvironmentOut DEF Next, Halted

LEMMA InSteps ==
    ASSUME IInv, [Next]_vars
    PROVE  \/ WRecvSize \/ WRecvData \/ WRecvFail \/ WRecvEof
           \/ \E c \in Conns : \/ PSendData(c) \/ PMove(c)
                               \/ \E len \in PeerLens : PSendSize(c, len)
           \/ QuietIn
<1>1. ASSUME Reader PROVE QuietIn
  <2> USE DEF notReader, writerVars, scanVars, peerVars
  <2>1. CASE RSendFail
    <3>1. wpc \notin {"body", "spin"}
      BY <2>1, Exclusive DEF RSendFail
    <3> QED
      BY <2>1, <3>1 DEF RSendFail, QuietIn
  <2>2. CASE ~RSendFail
    BY <1>1, <2>2 DEF Reader, QuietIn, RRead, RNothing, RLock, RSendSize, RSendData, RSigpipe,
       RUnlock, RCheck
  <2> QED
    BY <2>1, <2>2
<1>2. ASSUME Writer PROVE WRecvSize \/ WRecvData \/ WRecvFail \/ WRecvEof \/ QuietIn
  <2> USE DEF QuietIn, notWriter, peerVars, scanVars, selVars, sockVars
  <2>1. CASE WBuild \/ WSelect \/ WSelectFail \/ WLock \/ WSkip
    BY <2>1 DEF WBuild, WSelect, WSelectFail, WLock, WSkip
  <2>2. CASE WFwdSize \/ WFwdData \/ WFwdFail
    BY <2>2 DEF WFwdSize, WFwdData, WFwdFail, AtForward
  <2>3. CASE WSpin
    BY <2>3 DEF WSpin, vars, writerVars
  <2>4. CASE WWrite \/ WWriteFail
    BY <2>4 DEF WWrite, WWriteFail
  <2>5. CASE WFwdSelf \/ WSigpipe \/ WFwdEnd
    BY <2>5 DEF WFwdSelf, WSigpipe, WFwdEnd, AtForward
  <2>6. CASE WUnlock \/ WAcceptFail \/ WCheck
    BY <2>6 DEF WUnlock, WAcceptFail, WCheck, Recheck
  <2>7. CASE WAccept \/ WAdd
    BY <2>7 DEF WAccept, WAdd
  <2> QED
    BY <1>2, <2>1, <2>2, <2>3, <2>4, <2>5, <2>6, <2>7 DEF Writer
<1>3. ASSUME Main PROVE QuietIn
  <2> USE DEF QuietIn, notMain, peerVars, scanVars
  <2>1. CASE MFreeIfname \/ MStart \/ MStartFail \/ MStop \/ MClose \/ MDestroy
    BY <2>1 DEF MFreeIfname, MStart, MStartFail, MStop, MClose, MDestroy
  <2>2. CASE MCreateReader \/ MConnect
    BY <2>2 DEF MCreateReader, MConnect, IInv, LifeInv
  <2>3. CASE MCreateWriter
    BY <2>3 DEF MCreateWriter, IInv, LifeInv
  <2>4. CASE MJoinReader \/ MJoinWriter
    BY <2>4 DEF MJoinReader, MJoinWriter, MJoin
  <2> QED
    BY <1>3, <2>1, <2>2, <2>3, <2>4 DEF Main
<1>4. CASE DFrame \/ \E c \in Conns : PConnect(c)
  BY <1>4 DEF DFrame, PConnect, QuietIn, system, sockVars, peerVars, writerVars, scanVars
<1>5. CASE UNCHANGED vars
  BY <1>5 DEF vars, QuietIn, peerVars, writerVars, scanVars
<1> QED
  BY <1>1, <1>2, <1>3, <1>4, <1>5 DEF Next, Halted, Environment

LEMMA InInvInit ==
    ASSUME Init PROVE InInv
<1>1. \A c \in Conns : in[c] = <<>> /\ owed[c] = NoFrame
  BY DEF Init
<1>2. wpc = "none" /\ wbuf.len = 0 /\ BufSize \in Nat
  BY ServerAssumption DEF Init, NoFrame
<1>3. InFramedSeq(<<>>) /\ Owes(<<>>, NoFrame) /\ AtSize(<<>>, NoFrame)
  BY DEF InFramedSeq, Owes, AtSize
<1> QED
  BY <1>1, <1>2, <1>3 DEF InInv, InPlace

\* The stream of c alone changes, or the position of the writer in it.
LEMMA InElsewhere ==
    ASSUME InInv, NEW c \in Conns, wbuf'.len <= BufSize,
           \A d \in Conns : Fresh(d)' => Fresh(d),
           \A d \in Conns : d # c =>
              in'[d] = in[d] /\ owed'[d] = owed[d] /\ (InPlace(d) => InPlace(d)'),
           InFramedSeq(in'[c]), Owes(in'[c], owed'[c]), Fresh(c)' => InPlace(c)'
    PROVE  InInv'
BY DEF InInv, InPlace

LEMMA InInvNext ==
    ASSUME IInv, FrameInv, ConnectInv, InInv, [Next]_vars PROVE InInv'
<1> \A c \in Conns : Fresh(c)' => Fresh(c)
  BY FreshShrinks
<1> BufSize \in Nat /\ NoFrame.len = 0
  BY ServerAssumption DEF NoFrame
<1> USE DEF notWriter, peerVars, scanVars, selVars
<1>1. CASE QuietIn
  <2>1. \A c \in Conns : InPlace(c) => InPlace(c)'
    BY <1>1 DEF QuietIn, InPlace, Current
  <2>2. wbuf'.len <= BufSize
    BY <1>1 DEF QuietIn, InInv
  <2> QED
    BY <1>1, <2>1, <2>2 DEF QuietIn, InInv, InPlace
<1>2. CASE WRecvSize
  <2>1. wi \in 1 .. Len(clienttab)
    BY <1>2, Types DEF WRecvSize, AtReady
  <2>2. PICK idx \in 1 .. Len(clienttab) : idx = wi
    BY <2>1
  <2>3. PICK c \in Conns : c = clienttab[idx] /\ c = Current
    BY <2>2, Types DEF Current
  <2>4. /\ wpc = "scan" /\ in[c] # <<>> /\ Head(in[c]).kind = "size"
        /\ in' = [in EXCEPT ![c] = Tail(@)] /\ UNCHANGED <<owed, peer, wbuf>>
        /\ IF LegalSize(SizeOf(Head(in[c]).bytes))
           THEN wpc' = "body" /\ UNCHANGED <<wi, clienttab>>
           ELSE wpc' = "scan" /\ clienttab' = RemoveClient(clienttab, idx)
        /\ UNCHANGED <<conn, newfd>>
    BY <1>2, <2>2, <2>3 DEF WRecvSize
  <2>5. PICK s \in Seq(Chunk) : s = in[c]
    BY Types
  <2>6. PICK f \in Frame : f = owed[c]
    BY Types
  <2>7. in'[c] = Tail(s) /\ \A d \in Conns : d # c => in'[d] = in[d]
    BY <2>4, <2>5, Types
  <2>8. InFramedSeq(s) /\ Owes(s, f) /\ s # <<>> /\ Head(s) = s[1]
    BY <2>4, <2>5, <2>6 DEF InInv
  <2>9. /\ InFramedSeq(Tail(s)) /\ Owes(Tail(s), f)
        /\ s[1].kind = "size" /\ LegalSize(SizeOf(s[1].bytes)) => AtData(Tail(s), f)
    BY <2>8, Receive
  <2>10. CASE LegalSize(SizeOf(Head(in[c]).bytes))
    <3>1. \A d \in Conns : d # c => (InPlace(d) => InPlace(d)')
      BY <2>3, <2>4, <2>7, <2>10 DEF InPlace, Current
    <3>2. InPlace(c)'
      BY <2>3, <2>4, <2>5, <2>6, <2>7, <2>8, <2>9, <2>10 DEF InPlace, Current
    <3>3. wbuf'.len <= BufSize
      BY <2>4 DEF InInv
    <3> QED
      BY <2>4, <2>5, <2>6, <2>7, <2>9, <3>1, <3>2, <3>3, InElsewhere
  <2>11. CASE ~LegalSize(SizeOf(Head(in[c]).bytes))
    <3>1. \A d \in Conns : d # c => (InPlace(d) => InPlace(d)')
      BY <2>3, <2>4, <2>7, <2>11 DEF InPlace
    <3>2. Entries' = Entries \ {c}
      BY <2>3, <2>4, <2>11, OneLeaves
    <3>3. conn'[c] = "open" /\ wpc' # "add"
      BY <2>3, <2>4, <2>11 DEF IInv, TableInv
    <3>4. ~(Fresh(c)')
      BY <3>2, <3>3 DEF Fresh
    <3>5. wbuf'.len <= BufSize
      BY <2>4 DEF InInv
    <3> QED
      BY <2>4, <2>5, <2>6, <2>7, <2>9, <3>1, <3>4, <3>5, InElsewhere
  <2> QED
    BY <2>10, <2>11
<1>3. CASE WRecvData
  <2>1. wi \in 1 .. Len(clienttab)
    BY <1>3, Types DEF WRecvData, IInv, IndexInv
  <2>2. PICK c \in Conns : c = Current /\ c \in Entries
    BY <2>1, Types DEF Current, Entries
  <2>3. /\ wpc = "body" /\ in[c] # <<>> /\ Head(in[c]).kind = "data"
        /\ in' = [in EXCEPT ![c] = Tail(@)] /\ wbuf' = Head(in[c]).frame
        /\ wpc' \in {"write", "fsize"} /\ UNCHANGED <<owed, peer>>
    BY <1>3, <2>2 DEF WRecvData
  <2>5. PICK s \in Seq(Chunk) : s = in[c]
    BY Types
  <2>6. PICK f \in Frame : f = owed[c]
    BY Types
  <2>7. in'[c] = Tail(s) /\ \A d \in Conns : d # c => in'[d] = in[d]
    BY <2>3, <2>5, Types
  <2>8. InFramedSeq(s) /\ Owes(s, f) /\ s # <<>> /\ Head(s) = s[1]
    BY <2>3, <2>5, <2>6 DEF InInv
  <2>9. InFramedSeq(Tail(s)) /\ Owes(Tail(s), f) /\ (s[1].kind = "data" => AtSize(Tail(s), f))
    BY <2>8, Receive
  <2>10. AtData(s, f)
    BY <2>2, <2>3, <2>5, <2>6 DEF InInv, InPlace, Fresh
  <2>11. wbuf'.len <= BufSize
    BY <2>3, <2>5, <2>8, <2>10 DEF AtData, LegalSize
  <2>12. \A d \in Conns : d # c => (InPlace(d) => InPlace(d)')
    BY <2>2, <2>3, <2>7 DEF InPlace
  <2>13. InPlace(c)'
    BY <2>3, <2>5, <2>6, <2>7, <2>8, <2>9 DEF InPlace
  <2> QED
    BY <2>3, <2>5, <2>6, <2>7, <2>9, <2>11, <2>12, <2>13, InElsewhere
<1>4. CASE WRecvFail
  <2>1. PICK idx \in 1 .. Len(clienttab) : idx = wi
    BY <1>4, Types DEF WRecvFail, AtReady, IInv, IndexInv
  <2>2. PICK c \in Conns : c = clienttab[idx] /\ c = Current
    BY <2>1, Types DEF Current
  <2>3. /\ wpc \in {"scan", "body"} /\ wpc' = "scan"
        /\ clienttab' = RemoveClient(clienttab, idx)
        /\ UNCHANGED <<in, owed, peer, wbuf, conn, newfd>>
    BY <1>4, <2>1 DEF WRecvFail, sockVars
  <2>4. Entries' = Entries \ {c}
    BY <2>2, <2>3, OneLeaves
  <2>5. ~(Fresh(c)')
    BY <2>2, <2>3, <2>4 DEF Fresh, IInv, TableInv
  <2>6. \A d \in Conns : d # c => (InPlace(d) => InPlace(d)')
    BY <2>2, <2>3 DEF InPlace
  <2>7. InFramedSeq(in'[c]) /\ Owes(in'[c], owed'[c]) /\ wbuf'.len <= BufSize
    BY <2>3 DEF InInv
  <2> QED
    BY <2>3, <2>5, <2>6, <2>7, InElsewhere
<1>5. CASE WRecvEof
  <2>1. wi \in 1 .. Len(clienttab)
    BY <1>5, Types DEF WRecvEof, AtReady, IInv, IndexInv
  <2>2. PICK c \in Conns : c = Current
    BY <2>1, Types DEF Current
  <2>3. /\ wpc \in {"scan", "body"} /\ wpc' = "spin" /\ in[c] = <<>> /\ peer[c] = "fin"
        /\ UNCHANGED <<in, owed, peer, wbuf, clienttab, wi>>
    BY <1>5, <2>2 DEF WRecvEof, sockVars
  <2>6. \A d \in Conns : d # c => (InPlace(d) => InPlace(d)')
    BY <2>2, <2>3 DEF InPlace, Current
  <2>7. InFramedSeq(in'[c]) /\ Owes(in'[c], owed'[c]) /\ wbuf'.len <= BufSize
    BY <2>3 DEF InInv
  <2>8. InPlace(c)'
    BY <2>2, <2>3 DEF InPlace, Current
  <2> QED
    BY <2>3, <2>6, <2>7, <2>8, InElsewhere
<1> USE DEF system, writerVars, sockVars
<1>6. ASSUME NEW c \in Conns, NEW len \in PeerLens, PSendSize(c, len) PROVE InInv'
  <2>1. len \in Nat /\ len < 65536 /\ nsent[c] \in Nat
    BY ServerAssumption DEF IInv, TypeOK, ConnTypeOK
  <2>2. PICK f \in Frame : f = [src |-> c, n |-> nsent[c] + 1, len |-> len]
    <3>1. [src |-> c, n |-> nsent[c] + 1, len |-> len] \in Frame
      BY <2>1, FrameType
    <3> QED
      BY <3>1
  <2>3. PICK g \in Frame : g = IF f.len = 0 THEN NoFrame ELSE f
    BY NoFrameType
  <2>4. f.len = len /\ f # NoFrame
    BY <2>1, <2>2 DEF NoFrame
  <2>5. PICK s \in Seq(Chunk) : s = in[c]
    BY Types
  <2>6. /\ in' = [in EXCEPT ![c] = Append(@, SizeChunk(f))]
        /\ owed' = [owed EXCEPT ![c] = g] /\ owed[c] = NoFrame /\ peer[c] \in {"up", "stall"}
        /\ UNCHANGED <<wpc, wi, clienttab, peer, wbuf>>
    BY <1>6, <2>2, <2>3, <2>4 DEF PSendSize
  <2>7. in'[c] = Append(s, SizeChunk(f)) /\ owed'[c] = g
        /\ \A d \in Conns : d # c => in'[d] = in[d] /\ owed'[d] = owed[d]
    BY <2>5, <2>6, Types
  <2>8. InFramedSeq(s) /\ Owes(s, NoFrame)
    BY <2>5, <2>6 DEF InInv
  <2>9. /\ InFramedSeq(Append(s, SizeChunk(f))) /\ Owes(Append(s, SizeChunk(f)), g)
        /\ AtSize(s, NoFrame) => AtSize(Append(s, SizeChunk(f)), g)
        /\ AtData(s, NoFrame) => AtData(Append(s, SizeChunk(f)), g)
    BY <2>1, <2>3, <2>4, <2>8, Announce
  <2>10. \A d \in Conns : d # c => (InPlace(d) => InPlace(d)')
    BY <2>6, <2>7 DEF InPlace, Current
  <2>11. InPlace(c) => InPlace(c)'
    BY <2>5, <2>6, <2>7, <2>9 DEF InPlace, Current
  <2>12. Fresh(c)' => InPlace(c)'
    BY <2>11 DEF InInv, InPlace
  <2> QED
    BY <2>6, <2>7, <2>9, <2>10, <2>12, InElsewhere DEF InInv
<1>7. ASSUME NEW c \in Conns, PSendData(c) PROVE InInv'
  <2>1. PICK f \in Frame : f = owed[c]
    BY Types
  <2>5. PICK s \in Seq(Chunk) : s = in[c]
    BY Types
  <2>6. /\ in' = [in EXCEPT ![c] = Append(@, DataChunk(f))]
        /\ owed' = [owed EXCEPT ![c] = NoFrame] /\ f # NoFrame /\ peer[c] \in {"up", "stall"}
        /\ UNCHANGED <<wpc, wi, clienttab, peer, wbuf>>
    BY <1>7, <2>1 DEF PSendData
  <2>7. in'[c] = Append(s, DataChunk(f)) /\ owed'[c] = NoFrame
        /\ \A d \in Conns : d # c => in'[d] = in[d] /\ owed'[d] = owed[d]
    BY <2>5, <2>6, Types
  <2>8. InFramedSeq(s) /\ Owes(s, f)
    BY <2>1, <2>5 DEF InInv
  <2>9. /\ InFramedSeq(Append(s, DataChunk(f))) /\ Owes(Append(s, DataChunk(f)), NoFrame)
        /\ AtSize(s, f) => AtSize(Append(s, DataChunk(f)), NoFrame)
        /\ AtData(s, f) => AtData(Append(s, DataChunk(f)), NoFrame)
    BY <2>6, <2>8, Deliver
  <2>10. \A d \in Conns : d # c => (InPlace(d) => InPlace(d)')
    BY <2>6, <2>7 DEF InPlace, Current
  <2>11. InPlace(c) => InPlace(c)'
    BY <2>1, <2>5, <2>6, <2>7, <2>9 DEF InPlace, Current
  <2>12. Fresh(c)' => InPlace(c)'
    BY <2>11 DEF InInv, InPlace
  <2> QED
    BY <2>6, <2>7, <2>9, <2>10, <2>12, InElsewhere DEF InInv
<1>8. ASSUME NEW c \in Conns, PMove(c) PROVE InInv'
  <2>1. peer[c] # "fin" /\ (\A d \in Conns : d # c => peer'[d] = peer[d])
        /\ UNCHANGED <<in, owed, wpc, wi, clienttab, wbuf>>
    BY <1>8, Types DEF PMove
  <2>2. \A d \in Conns : InPlace(d) => InPlace(d)'
    BY <2>1 DEF InPlace, Current
  <2> QED
    BY <2>1, <2>2 DEF InInv, InPlace
<1> QED
  BY <1>1, <1>2, <1>3, <1>4, <1>5, <1>6, <1>7, <1>8, InSteps

\* InFramed (TapServer): sizes are read where sizes are, payloads fit the buffer.
THEOREM SizesReadAsSizes == Spec => []InFramed
<1> DEFINE Inv == FrameInv /\ ConnectInv /\ InInv
<1>1. Init => Inv
  BY FrameInvInit, InInvInit
<1>2. IInv /\ Inv /\ [Next]_vars => Inv'
  BY FrameInvNext, ConnectInvNext, InInvNext
<1>3. ASSUME IInv, Inv PROVE InFramed
  <2>1. ASSUME NEW c \in Entries, in[c] # <<>>
        PROVE  Head(in[c]).kind = IF wpc = "body" /\ Current = c THEN "data" ELSE "size"
    <3>1. c \in Conns /\ Fresh(c) /\ Head(in[c]) = in[c][1]
      <4>1. c \in Conns /\ in[c] \in Seq(Chunk)
        BY <1>3, Types
      <4> QED
        BY <2>1, <4>1 DEF Fresh
    <3> QED
      BY <1>3, <2>1, <3>1 DEF InInv, InPlace, AtData, AtSize
  <2> QED
    BY <1>3, <2>1 DEF InInv, InFramed
<1> QED
  BY <1>1, <1>2, <1>3, Inductive, PTL DEF Spec

-----------------------------------------------------------------------------
(* Who is given a frame. *)

\* Who is being sent what while no client was ever removed.
TurnInv ==
    /\ wpc # "add" => newfd = Server
    /\ wpc = "fdata" => wj # wi
OthersOnly == \A c \in Conns : \A f \in Got(c) : f.src # c
ReadSent ==
    rpc \in {"size", "data"} =>
        /\ ri <= Len(clienttab) + 1
        /\ \A k \in 1 .. ri - 1 : rbuf \in Got(clienttab[k])
ForwardSent ==
    wpc \in {"fsize", "fdata"} =>
        /\ wi <= Len(clienttab) /\ wj <= Len(clienttab) + 1
        /\ wbuf.src = clienttab[wi]
        /\ \A k \in 1 .. wj - 1 : k # wi => wbuf \in Got(clienttab[k])
SentInv == NobodyRemoved => OthersOnly /\ ReadSent /\ ForwardSent

\* The payloads of a stream.
PayloadsOf(s) == {s[k].frame : k \in {l \in 1 .. Len(s) : s[l].kind = "data"}}

LEMMA PayloadsAppend ==
    ASSUME NEW s \in Seq(Chunk), NEW f \in Frame
    PROVE  /\ PayloadsOf(Append(s, SizeChunk(f))) = PayloadsOf(s)
           /\ PayloadsOf(Append(s, DataChunk(f))) = PayloadsOf(s) \cup {f}
<1>1. Len(s) \in Nat
  OBVIOUS
<1>2. ASSUME NEW ch \in Chunk
      PROVE  /\ Len(Append(s, ch)) = Len(s) + 1 /\ Append(s, ch)[Len(s) + 1] = ch
             /\ \A k \in 1 .. Len(s) : Append(s, ch)[k] = s[k]
  OBVIOUS
<1>3. SizeChunk(f) \in Chunk /\ DataChunk(f) \in Chunk
  BY ChunkTypes
<1>4. SizeChunk(f).kind = "size" /\ DataChunk(f).kind = "data" /\ DataChunk(f).frame = f
  BY DEF SizeChunk, DataChunk
<1>5. PayloadsOf(Append(s, SizeChunk(f))) = PayloadsOf(s)
  <2> DEFINE t == Append(s, SizeChunk(f))
  <2>1. /\ Len(t) = Len(s) + 1 /\ t[Len(s) + 1].kind = "size"
        /\ \A k \in 1 .. Len(s) : t[k] = s[k]
    BY <1>2, <1>3, <1>4
  <2> HIDE DEF t
  <2>2. \A k \in 1 .. Len(t) : t[k].kind = "data" => k \in 1 .. Len(s)
    BY <1>1, <2>1
  <2>3. \A k \in 1 .. Len(s) : k \in 1 .. Len(t)
    BY <1>1, <2>1
  <2>4. PayloadsOf(t) = PayloadsOf(s)
    BY <2>1, <2>2, <2>3 DEF PayloadsOf
  <2> QED
    BY <2>4 DEF t
<1>6. PayloadsOf(Append(s, DataChunk(f))) = PayloadsOf(s) \cup {f}
  <2> DEFINE t == Append(s, DataChunk(f))
  <2>1. /\ Len(t) = Len(s) + 1 /\ t[Len(s) + 1].kind = "data" /\ t[Len(s) + 1].frame = f
        /\ \A k \in 1 .. Len(s) : t[k] = s[k]
    BY <1>2, <1>3, <1>4
  <2> HIDE DEF t
  <2>2. \A k \in 1 .. Len(t) : k \in 1 .. Len(s) \/ k = Len(s) + 1
    BY <1>1, <2>1
  <2>3. Len(s) + 1 \in 1 .. Len(t) /\ \A k \in 1 .. Len(s) : k \in 1 .. Len(t)
    BY <1>1, <2>1
  <2>4. PayloadsOf(t) = PayloadsOf(s) \cup {f}
    BY <2>1, <2>2, <2>3 DEF PayloadsOf
  <2> QED
    BY <2>4 DEF t
<1> QED
  BY <1>5, <1>6

LEMMA GotPayloads == \A c : Got(c) = PayloadsOf(out[c]) /\ Got(c)' = PayloadsOf(out'[c])
  BY DEF Got, PayloadsOf

LEMMA TurnInvNext ==
    ASSUME IInv, TurnInv, [Next]_vars PROVE TurnInv'
<1> USE DEF notWriter, scanVars, selVars, TurnInv
<1>1. CASE UNCHANGED <<newfd, wpc, wi, wj>>
  BY <1>1
<1>2. CASE Writer
  <2>1. CASE WBuild \/ WSelect \/ WSelectFail \/ WLock \/ WSkip
    BY <2>1 DEF WBuild, WSelect, WSelectFail, WLock, WSkip
  <2>2. CASE WFwdSize \/ WFwdData \/ WFwdFail
    BY <2>2 DEF WFwdSize, WFwdData, WFwdFail, AtForward
  <2>3. CASE WSpin
    BY <2>3 DEF WSpin, vars, writerVars
  <2>4. CASE WWrite \/ WWriteFail
    BY <2>4 DEF WWrite, WWriteFail
  <2>5. CASE WFwdSelf \/ WSigpipe \/ WFwdEnd
    BY <2>5 DEF WFwdSelf, WSigpipe, WFwdEnd, AtForward
  <2>6. CASE WUnlock \/ WAcceptFail \/ WCheck
    BY <2>6 DEF WUnlock, WAcceptFail, WCheck, Recheck
  <2>7. CASE WAccept \/ WAdd
    BY <2>7 DEF WAccept, WAdd
  <2>8. CASE WRecvSize \/ WRecvData \/ WRecvFail \/ WRecvEof
    BY <2>8 DEF WRecvSize, WRecvData, WRecvFail, WRecvEof
  <2> QED
    BY <1>2, <2>1, <2>2, <2>3, <2>4, <2>5, <2>6, <2>7, <2>8 DEF Writer
<1>3. CASE Reader
  <2>1. UNCHANGED <<newfd, wpc, wi, wj>>
    BY <1>3 DEF Reader, RRead, RNothing, RLock, RSendSize, RSendData, RSendFail, RSigpipe,
       RUnlock, RCheck, notReader, writerVars
  <2> QED
    BY <1>1, <2>1
<1>4. CASE Main
  <2>1. CASE MCreateWriter
    BY <2>1 DEF MCreateWriter, notMain, IInv, LifeInv
  <2>2. CASE ~MCreateWriter
    BY <1>4, <2>2 DEF Main, MConnect, MFreeIfname, MStart, MStartFail, MCreateReader, MStop,
       MJoinReader, MJoinWriter, MJoin, MClose, MDestroy, notMain
  <2> QED
    BY <2>1, <2>2
<1>5. CASE Environment
  BY <1>5 DEF Environment, PConnect, PSendSize, PSendData, PMove, DFrame, system, writerVars
<1>6. CASE UNCHANGED vars
  BY <1>6 DEF vars, writerVars
<1> QED
  BY <1>2, <1>3, <1>4, <1>5, <1>6 DEF Next, Halted

\* A client that was removed stays removed, and a removal leaves one behind.
LEMMA RemovedForGood ==
    ASSUME IInv, ConnectInv, TurnInv, TurnInv', [Next]_vars, NobodyRemoved'
    PROVE  NobodyRemoved
<1>1. Server \notin Conns
  BY ServerAssumption
<1>2. \A c \in Conns : Fresh(c)'
  BY <1>1 DEF NobodyRemoved, TurnInv, Fresh
<1>3. \A c \in Conns : Fresh(c)
  BY <1>2, FreshShrinks
<1> QED
  BY <1>3 DEF Fresh, NobodyRemoved

LEMMA RemovalShows ==
    ASSUME IInv, TurnInv, NEW idx \in 1 .. Len(clienttab),
           clienttab' = RemoveClient(clienttab, idx), UNCHANGED <<conn, newfd>>
    PROVE  ~(NobodyRemoved')
<1>1. PICK c \in Conns : c = clienttab[idx] /\ c \in Entries
  BY Types DEF Entries
<1>2. c \notin Entries' /\ conn'[c] = "open"
  BY <1>1, OneLeaves DEF IInv, TableInv
<1>3. c # newfd'
  BY <1>1, ServerAssumption DEF TurnInv, IInv, RoomInv
<1> QED
  BY <1>2, <1>3 DEF NobodyRemoved

\* Nothing that SentInv speaks about changes.
QuietSent ==
    /\ UNCHANGED <<out, clienttab>>
    /\ rpc' \in {"size", "data"} =>
          ri' = 1 \/ (rpc \in {"size", "data"} /\ UNCHANGED <<ri, rbuf>>)
    /\ wpc' \in {"fsize", "fdata"} =>
          wpc \in {"fsize", "fdata"} /\ UNCHANGED <<wi, wj, wbuf>>

LEMMA SentSteps ==
    ASSUME IInv, [Next]_vars
    PROVE  \/ RSendSize \/ RSendData \/ RSendFail \/ WRecvSize \/ WRecvData \/ WRecvFail
           \/ WFwdSelf \/ WFwdSize \/ WFwdData \/ WFwdFail \/ WAdd \/ MConnect \/ QuietSent
<1> USE DEF QuietSent
<1>1. ASSUME Reader PROVE RSendSize \/ RSendData \/ RSendFail \/ QuietSent
  <2> USE DEF notReader, writerVars, scanVars
  <2>1. CASE RRead \/ RNothing \/ RLock
    BY <2>1 DEF RRead, RNothing, RLock
  <2>2. CASE RSigpipe \/ RUnlock
    BY <2>2 DEF RSigpipe, RUnlock
  <2>3. CASE RCheck
    BY <2>3 DEF RCheck, Recheck
  <2> QED
    BY <1>1, <2>1, <2>2, <2>3 DEF Reader
<1>2. ASSUME Writer
      PROVE  \/ WRecvSize \/ WRecvData \/ WRecvFail \/ WFwdSelf \/ WFwdSize \/ WFwdData
             \/ WFwdFail \/ WAdd \/ QuietSent
  <2> USE DEF notWriter, readerVars, scanVars, sockVars
  <2>1. CASE WBuild \/ WSelect \/ WSelectFail \/ WLock \/ WSkip
    BY <2>1 DEF WBuild, WSelect, WSelectFail, WLock, WSkip
  <2>2. CASE WRecvEof
    BY <2>2 DEF WRecvEof
  <2>3. CASE WSpin
    BY <2>3 DEF WSpin, vars, writerVars
  <2>4. CASE WWrite \/ WWriteFail
    BY <2>4 DEF WWrite, WWriteFail
  <2>5. CASE WSigpipe \/ WFwdEnd
    BY <2>5 DEF WSigpipe, WFwdEnd, AtForward
  <2>6. CASE WUnlock \/ WAcceptFail \/ WCheck
    BY <2>6 DEF WUnlock, WAcceptFail, WCheck, Recheck
  <2>7. CASE WAccept
    BY <2>7 DEF WAccept
  <2> QED
    BY <1>2, <2>1, <2>2, <2>3, <2>4, <2>5, <2>6, <2>7 DEF Writer
<1>3. ASSUME Main PROVE MConnect \/ QuietSent
  <2> USE DEF notMain, scanVars
  <2>1. CASE MFreeIfname \/ MStart \/ MStartFail \/ MStop \/ MClose \/ MDestroy
    BY <2>1 DEF MFreeIfname, MStart, MStartFail, MStop, MClose, MDestroy
  <2>2. CASE MCreateReader
    BY <2>2 DEF MCreateReader
  <2>3. CASE MCreateWriter
    BY <2>3 DEF MCreateWriter
  <2>4. CASE MJoinReader \/ MJoinWriter
    BY <2>4 DEF MJoinReader, MJoinWriter, MJoin
  <2> QED
    BY <1>3, <2>1, <2>2, <2>3, <2>4 DEF Main
<1>4. ASSUME Environment PROVE QuietSent
  BY <1>4 DEF Environment, PConnect, PSendSize, PSendData, PMove, DFrame, system, sockVars,
     readerVars, writerVars, scanVars
<1>5. CASE UNCHANGED vars
  BY <1>5 DEF vars, readerVars, writerVars, scanVars
<1> QED
  BY <1>1, <1>2, <1>3, <1>4, <1>5 DEF Next, Halted

\* A chunk sent to c: what the clients have got then.
LEMMA SendGot ==
    ASSUME IInv, NEW c \in Conns, NEW f \in Frame
    PROVE  /\ Send(c, SizeChunk(f)) => \A d \in Conns : Got(d)' = Got(d)
           /\ Send(c, DataChunk(f)) =>
                /\ \A d \in Conns : d # c => Got(d)' = Got(d)
                /\ Got(c)' = Got(c) \cup {f}
<1>1. PICK s \in Seq(Chunk) : s = out[c]
  BY Types
<1>2. /\ PayloadsOf(Append(s, SizeChunk(f))) = PayloadsOf(s)
      /\ PayloadsOf(Append(s, DataChunk(f))) = PayloadsOf(s) \cup {f}
  BY PayloadsAppend
<1>3. ASSUME NEW ch, Send(c, ch)
      PROVE  out'[c] = Append(s, ch) /\ \A d \in Conns : d # c => out'[d] = out[d]
  BY <1>1, <1>3, Types DEF Send
<1>4. Send(c, SizeChunk(f)) => \A d \in Conns : Got(d)' = Got(d)
  BY <1>1, <1>2, <1>3, GotPayloads
<1>5. Send(c, DataChunk(f)) =>
         (\A d \in Conns : d # c => Got(d)' = Got(d)) /\ Got(c)' = Got(c) \cup {f}
  BY <1>1, <1>2, <1>3, GotPayloads
<1> QED
  BY <1>4, <1>5

LEMMA SentInvNext ==
    ASSUME IInv, FrameInv, ConnectInv, TurnInv, TurnInv', SentInv, [Next]_vars
    PROVE  SentInv'
<1> SUFFICES ASSUME NobodyRemoved' PROVE OthersOnly' /\ ReadSent' /\ ForwardSent'
  BY DEF SentInv
<1>0. NobodyRemoved /\ OthersOnly /\ ReadSent /\ ForwardSent
  BY RemovedForGood DEF SentInv
<1>1. ASSUME \A d \in Conns : Got(d)' = Got(d) PROVE OthersOnly'
  BY <1>0, <1>1 DEF OthersOnly
<1>2. ASSUME out' = out PROVE \A d : Got(d)' = Got(d)
  BY <1>2 DEF Got
<1>3. \A k \in 1 .. Len(clienttab) : clienttab[k] \in Conns
  BY Types
<1>4. Len(clienttab) \in Nat /\ ri \in Nat \ {0} /\ wi \in Nat \ {0} /\ wj \in Nat \ {0}
  BY Types
<1>5. CASE QuietSent
  BY <1>0, <1>1, <1>2, <1>5 DEF QuietSent, ReadSent, ForwardSent
<1>6. CASE RSendSize
  <2>1. PICK c \in Conns : c = clienttab[ri]
    BY <1>3, <1>4, <1>6 DEF RSendSize
  <2>2. PICK f \in Frame : f = rbuf
    BY Types
  <2>3. /\ Send(c, SizeChunk(f)) /\ rpc = "size" /\ rpc' = "data"
        /\ UNCHANGED <<ri, rbuf, clienttab, wpc>>
    BY <1>6, <2>1, <2>2 DEF RSendSize, notReader, writerVars
  <2>4. \A d \in Conns : Got(d)' = Got(d)
    BY <2>3, SendGot
  <2>5. wpc' \notin {"fsize", "fdata"}
    BY <2>3, Exclusive
  <2>6. ReadSent'
    <3>1. ri <= Len(clienttab) + 1 /\ \A k \in 1 .. ri - 1 : rbuf \in Got(clienttab[k])
      BY <1>0, <2>3 DEF ReadSent
    <3>2. \A k \in 1 .. ri - 1 : k \in 1 .. Len(clienttab)
      BY <1>4, <3>1
    <3> QED
      BY <1>3, <2>3, <2>4, <3>1, <3>2 DEF ReadSent
  <2> QED
    BY <1>1, <2>4, <2>5, <2>6 DEF ForwardSent
<1>7. CASE RSendData
  <2>0. ri \in 1 .. Len(clienttab)
    BY <1>4, <1>7 DEF RSendData, IInv, IndexInv
  <2>1. PICK c \in Conns : c = clienttab[ri]
    BY <1>3, <2>0
  <2>2. PICK f \in Frame : f = rbuf /\ f.src = Dev
    BY Types DEF FrameInv, Owned
  <2>3. /\ Send(c, DataChunk(f)) /\ rpc = "data" /\ rpc' = "size" /\ ri' = ri + 1
        /\ UNCHANGED <<rbuf, clienttab, wpc>>
    BY <1>7, <2>1, <2>2 DEF RSendData, notReader, writerVars
  <2>4. (\A d \in Conns : d # c => Got(d)' = Got(d)) /\ Got(c)' = Got(c) \cup {f}
    BY <2>3, SendGot
  <2>5. wpc' \notin {"fsize", "fdata"}
    BY <2>3, Exclusive
  <2>6. ReadSent'
    <3>1. \A k \in 1 .. ri - 1 : rbuf \in Got(clienttab[k])
      BY <1>0, <2>3 DEF ReadSent
    <3>2. ri' <= Len(clienttab') + 1
      BY <1>4, <2>0, <2>3
    <3>3. ASSUME NEW k \in 1 .. ri' - 1 PROVE (rbuf \in Got(clienttab[k]))'
      <4>1. k \in 1 .. Len(clienttab) /\ (k \in 1 .. ri - 1 \/ k = ri)
        BY <1>4, <2>0, <2>3
      <4>2. PICK d \in Conns : d = clienttab[k]
        BY <1>3, <4>1
      <4>3. f \in Got(d)'
        BY <2>1, <2>2, <2>4, <3>1, <4>1, <4>2
      <4> QED
        BY <2>2, <2>3, <4>2, <4>3
    <3> QED
      BY <3>2, <3>3 DEF ReadSent
  <2>7. OthersOnly'
    <3>1. Dev \notin Conns
      BY ServerAssumption
    <3> QED
      BY <1>0, <2>2, <2>4, <3>1 DEF OthersOnly
  <2> QED
    BY <2>5, <2>6, <2>7 DEF ForwardSent
<1>8. CASE WFwdSize
  <2>1. PICK c \in Conns : c = clienttab[wj]
    BY <1>3, <1>4, <1>8 DEF WFwdSize
  <2>2. PICK f \in Frame : f = wbuf
    BY Types
  <2>3. /\ Send(c, SizeChunk(f)) /\ wpc = "fsize" /\ wpc' = "fdata"
        /\ UNCHANGED <<wi, wj, wbuf, clienttab, rpc>>
    BY <1>8, <2>1, <2>2 DEF WFwdSize, notWriter, readerVars, scanVars
  <2>4. \A d \in Conns : Got(d)' = Got(d)
    BY <2>3, SendGot
  <2>5. rpc' \notin {"size", "data"}
    BY <2>3, Exclusive
  <2>6. ForwardSent'
    <3>1. /\ wi <= Len(clienttab) /\ wj <= Len(clienttab) + 1 /\ wbuf.src = clienttab[wi]
          /\ \A k \in 1 .. wj - 1 : k # wi => wbuf \in Got(clienttab[k])
      BY <1>0, <2>3 DEF ForwardSent
    <3>2. \A k \in 1 .. wj - 1 : k \in 1 .. Len(clienttab)
      BY <1>4, <3>1
    <3> QED
      BY <1>3, <2>3, <2>4, <3>1, <3>2 DEF ForwardSent
  <2> QED
    BY <1>1, <2>4, <2>5, <2>6 DEF ReadSent
<1>9. CASE WFwdData
  <2>0. wj \in 1 .. Len(clienttab)
    BY <1>4, <1>9 DEF WFwdData, IInv, IndexInv
  <2>1. PICK c \in Conns : c = clienttab[wj]
    BY <1>3, <2>0
  <2>2. PICK f \in Frame : f = wbuf
    BY Types
  <2>3. /\ Send(c, DataChunk(f)) /\ wpc = "fdata" /\ wpc' = "fsize" /\ wj' = wj + 1
        /\ UNCHANGED <<wi, wbuf, clienttab, rpc>>
    BY <1>9, <2>1, <2>2 DEF WFwdData, notWriter, readerVars, scanVars
  <2>4. (\A d \in Conns : d # c => Got(d)' = Got(d)) /\ Got(c)' = Got(c) \cup {f}
    BY <2>3, SendGot
  <2>5. rpc' \notin {"size", "data"}
    BY <2>3, Exclusive
  <2>8. /\ wi <= Len(clienttab) /\ wj <= Len(clienttab) + 1 /\ wbuf.src = clienttab[wi]
        /\ \A k \in 1 .. wj - 1 : k # wi => wbuf \in Got(clienttab[k])
    BY <1>0, <2>3 DEF ForwardSent
  <2>6. ForwardSent'
    <3>2. wi' <= Len(clienttab') /\ wj' <= Len(clienttab') + 1 /\ wbuf'.src = clienttab'[wi']
      BY <1>4, <2>0, <2>3, <2>8
    <3>3. ASSUME NEW k \in 1 .. wj' - 1, k # wi' PROVE (wbuf \in Got(clienttab[k]))'
      <4>1. k \in 1 .. Len(clienttab) /\ (k \in 1 .. wj - 1 \/ k = wj) /\ k # wi
        BY <1>4, <2>0, <2>3, <3>3
      <4>2. PICK d \in Conns : d = clienttab[k]
        BY <1>3, <4>1
      <4>3. f \in Got(d)'
        BY <2>1, <2>2, <2>4, <2>8, <4>1, <4>2
      <4> QED
        BY <2>2, <2>3, <4>2, <4>3
    <3> QED
      BY <3>2, <3>3 DEF ForwardSent
  <2>7. OthersOnly'
    <3>1. f.src # c
      <4>1. wi # wj /\ wi \in 1 .. Len(clienttab)
        BY <1>4, <2>3, <2>8 DEF TurnInv
      <4>2. clienttab[wi] # clienttab[wj]
        BY <2>0, <4>1 DEF IInv, TableInv
      <4> QED
        BY <2>1, <2>2, <2>8, <4>2
    <3> QED
      BY <1>0, <2>4, <3>1 DEF OthersOnly
  <2> QED
    BY <2>5, <2>6, <2>7 DEF ReadSent
<1>10. CASE WFwdSelf
  <2>1. /\ wpc = "fsize" /\ wpc' = wpc /\ wj \in 1 .. Len(clienttab) /\ wj = wi /\ wj' = wj + 1
        /\ UNCHANGED <<wi, wbuf, clienttab, rpc, out>>
    BY <1>4, <1>10 DEF WFwdSelf, notWriter, readerVars, sockVars
  <2>2. rpc' \notin {"size", "data"}
    BY <2>1, Exclusive
  <2>3. /\ wbuf.src = clienttab[wi]
        /\ \A k \in 1 .. wj - 1 : k # wi => wbuf \in Got(clienttab[k])
    BY <1>0, <2>1 DEF ForwardSent
  <2>4. wi' <= Len(clienttab') /\ wj' <= Len(clienttab') + 1 /\ wbuf'.src = clienttab'[wi']
    BY <1>4, <2>1, <2>3
  <2>5. \A k \in 1 .. wj' - 1 : k # wi' => k \in 1 .. wj - 1 /\ k # wi
    BY <1>4, <2>1
  <2>6. ForwardSent'
    BY <1>2, <2>1, <2>3, <2>4, <2>5 DEF ForwardSent
  <2> QED
    BY <1>1, <1>2, <2>1, <2>2, <2>6 DEF ReadSent
<1>11. CASE WRecvData
  <2>1. wi \in 1 .. Len(clienttab)
    BY <1>4, <1>11 DEF WRecvData, IInv, IndexInv
  <2>2. PICK c \in Conns : c = clienttab[wi]
    BY <1>3, <2>1
  <2>3. /\ wpc = "body" /\ in[c] # <<>> /\ Head(in[c]).kind = "data" /\ wbuf' = Head(in[c]).frame
        /\ wj' = 1 /\ UNCHANGED <<wi, clienttab, out, rpc>>
    BY <1>11, <2>2 DEF WRecvData, Current, notWriter, readerVars
  <2>4. in[c] \in Seq(Chunk)
    BY Types
  <2>5. Head(in[c]) = in[c][1] /\ 1 \in 1 .. Len(in[c])
    BY <2>3, <2>4
  <2>6. wbuf'.src = clienttab'[wi']
    BY <2>2, <2>3, <2>5 DEF FrameInv, Owned
  <2>7. rpc' \notin {"size", "data"}
    BY <2>3, Exclusive
  <2>8. ForwardSent'
    BY <1>4, <2>1, <2>3, <2>6 DEF ForwardSent
  <2> QED
    BY <1>1, <1>2, <2>3, <2>7, <2>8 DEF ReadSent
<1>12. CASE WAdd \/ MConnect
  <2>1. rpc' \notin {"size", "data"} /\ wpc' \notin {"fsize", "fdata"} /\ out' = out
    BY <1>12 DEF WAdd, MConnect, IInv, MutexInv, LifeInv, Free, notWriter, readerVars, notMain,
       sockVars
  <2> QED
    BY <1>1, <1>2, <2>1 DEF ReadSent, ForwardSent
<1>13. ~RSendFail
  <2>1. SUFFICES ASSUME RSendFail PROVE FALSE
    OBVIOUS
  <2>2. PICK idx \in 1 .. Len(clienttab) : idx = ri
    BY <1>4, <2>1 DEF RSendFail
  <2> QED
    BY <2>1, <2>2, RemovalShows DEF RSendFail, notReader, writerVars, selVars
<1>14. ~WFwdFail
  <2>1. SUFFICES ASSUME WFwdFail PROVE FALSE
    OBVIOUS
  <2>2. PICK idx \in 1 .. Len(clienttab) : idx = wj
    BY <1>4, <2>1 DEF WFwdFail, AtForward, IInv, IndexInv
  <2> QED
    BY <2>1, <2>2, RemovalShows DEF WFwdFail, selVars, sockVars
<1>15. ~WRecvFail
  <2>1. SUFFICES ASSUME WRecvFail PROVE FALSE
    OBVIOUS
  <2>2. PICK idx \in 1 .. Len(clienttab) : idx = wi
    BY <1>4, <2>1 DEF WRecvFail, AtReady, IInv, IndexInv
  <2> QED
    BY <2>1, <2>2, RemovalShows DEF WRecvFail, selVars, sockVars
<1>16. CASE WRecvSize
  <2>1. PICK idx \in 1 .. Len(clienttab) : idx = wi
    BY <1>4, <1>16 DEF WRecvSize, AtReady
  <2>2. clienttab' # RemoveClient(clienttab, idx)
    BY <1>16, RemovalShows DEF WRecvSize, selVars
  <2>3. QuietSent
    BY <1>16, <2>1, <2>2 DEF WRecvSize, QuietSent, notWriter, readerVars
  <2> QED
    BY <1>5, <2>3
<1> QED
  BY <1>5, <1>6, <1>7, <1>8, <1>9, <1>10, <1>11, <1>12, <1>13, <1>14, <1>15, <1>16, SentSteps

\* DispatchComplete (TapServer): until a client is removed, a frame passed on
\* has reached every client whose turn is over, and none but the sender missed it.
THEOREM NobodySkipped == Spec => []DispatchComplete
<1> DEFINE Inv == FrameInv /\ ConnectInv /\ TurnInv /\ SentInv
<1>1. Init => Inv
  <2>1. ASSUME Init PROVE TurnInv /\ SentInv
    <3>1. \A c \in Conns : Got(c) = {}
      BY <2>1 DEF Init, Got
    <3>2. TurnInv /\ rpc = "none" /\ wpc = "none"
      BY <2>1 DEF Init, TurnInv
    <3> QED
      BY <3>1, <3>2 DEF SentInv, OthersOnly, ReadSent, ForwardSent
  <2> QED
    BY <2>1, FrameInvInit
<1>2. IInv /\ Inv /\ [Next]_vars => Inv'
  BY FrameInvNext, ConnectInvNext, TurnInvNext, SentInvNext
<1>3. ASSUME IInv, Inv PROVE DispatchComplete
  <2>1. SUFFICES ASSUME NobodyRemoved
        PROVE  /\ rpc \in {"size", "data"} =>
                    \A k \in 1 .. ri - 1 : rbuf \in Got(clienttab[k])
               /\ wpc \in {"fsize", "fdata"} =>
                    \A k \in 1 .. wj - 1 : (k # wi) <=> (wbuf \in Got(clienttab[k]))
    BY DEF DispatchComplete
  <2>2. OthersOnly /\ ReadSent /\ ForwardSent
    BY <1>3, <2>1 DEF SentInv
  <2>3. ASSUME wpc \in {"fsize", "fdata"}, NEW k \in 1 .. wj - 1, wbuf \in Got(clienttab[k])
        PROVE  k # wi
    <3>1. wi <= Len(clienttab) /\ wbuf.src = clienttab[wi]
      BY <2>2, <2>3 DEF ForwardSent
    <3>2. wi \in 1 .. Len(clienttab)
      BY <1>3, <3>1, Types
    <3>3. clienttab[wi] \in Conns
      BY <1>3, <3>2, Types
    <3>4. wbuf \notin Got(clienttab[wi])
      BY <2>2, <3>1, <3>3 DEF OthersOnly
    <3> QED
      BY <2>3, <3>4
  <2> QED
    BY <2>2, <2>3 DEF ReadSent, ForwardSent
<1> QED
  BY <1>1, <1>2, <1>3, Inductive, PTL DEF Spec
=============================================================================
