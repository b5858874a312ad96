-------------------------- MODULE TapcfgUnixProofs --------------------------
(***************************************************************************)
(* The descriptors and the remembered state of the interface, the length   *)
(* of frames, and the refinement of TapDevice, for any number of           *)
(* interfaces, descriptors and frames.                                     *)
(***************************************************************************)
EXTENDS TapcfgUnix, SequenceTheorems, TLAPS

\* What is left of HandleMirrors while the handle is not started: a new
\* interface is down.
IdleDown == \A d \in Names \ Persistent : dev[d].fd = -1 => ~dev[d].up

DestroyedStopped == ~alive => ~started

HInv == TypeOK /\ HandleCoherent /\ HandleMirrors /\ IdleDown /\ DestroyedStopped

\* Closing the descriptors of a set keeps the types.
LEMMA ClosedTypes ==
    ASSUME TypeOK, NEW set \in SUBSET (-1 .. MaxFd), Closed(set)
    PROVE  /\ fds' \in [0 .. MaxFd -> {"free", "app", "tap", "ctrl"}]
           /\ dev' \in [Names -> Interface]
           /\ \A d \in Names : dev[d].fd \notin set => dev'[d] = dev[d]
           /\ \A d \in Names : dev[d].fd \in set =>
                 dev'[d].fd = -1 /\ (d \notin Persistent => ~dev'[d].up)
<1>1. NoDev \in Interface
  BY TapcfgAssumption DEF NoDev, DefaultMtu, Interface
<1>2. fds' \in [0 .. MaxFd -> {"free", "app", "tap", "ctrl"}]
  BY DEF TypeOK, Closed
<1>3. ASSUME NEW d \in Names
      PROVE  /\ dev'[d] \in Interface
             /\ dev[d].fd \notin set => dev'[d] = dev[d]
             /\ dev[d].fd \in set => dev'[d].fd = -1 /\ (d \notin Persistent => ~dev'[d].up)
  <2> DEFINE kept == [dev[d] EXCEPT !.fd = -1, !.queue = <<>>]
  <2>1. dev[d] \in Interface
    BY DEF TypeOK
  <2>2. kept \in Interface /\ kept.fd = -1
    <3>1. -1 \in -1 .. MaxFd /\ <<>> \in Seq(Frame)
      BY TapcfgAssumption
    <3>2. QED
      BY <2>1, <3>1 DEF Interface
  <2>3. NoDev.fd = -1 /\ ~NoDev.up
    BY DEF NoDev
  <2>4. dev'[d] = IF dev[d].fd \notin set THEN dev[d]
                  ELSE IF d \in Persistent THEN kept ELSE NoDev
    BY DEF Closed
  <2> HIDE DEF kept
  <2>5. QED
    BY <1>1, <2>1, <2>2, <2>3, <2>4
<1>4. dev' \in [Names -> Interface]
  BY <1>3 DEF Closed
<1>5. QED
  BY <1>2, <1>3, <1>4

LEMMA CallTypes ==
    ASSUME NEW op \in {"wait", "app", "other"}, NEW ret \in Int,
           Returns(op, ret) \/ Fails(op, ret) \/ Other
    PROVE  call' \in CallType
<1>1. CASE Returns(op, ret)
  BY <1>1 DEF Returns, CallType
<1>2. CASE Fails(op, ret)
  BY <1>2 DEF Fails, CallType
<1>3. CASE Other
  BY <1>3 DEF Other, NoCall, CallType
<1>4. QED
  BY <1>1, <1>2, <1>3

\* One interface changes in some of its fields.
LEMMA DevUpdate ==
    ASSUME TypeOK, NEW d \in Names, NEW r \in Interface, dev' = [dev EXCEPT ![d] = r]
    PROVE  /\ dev' \in [Names -> Interface] /\ dev'[d] = r
           /\ \A e \in Names : e # d => dev'[e] = dev[e]
BY DEF TypeOK

LEMMA FieldTypes ==
    ASSUME NEW r \in Interface
    PROVE  /\ \A fd \in -1 .. MaxFd, mac \in Macs \cup {NoMac} :
                 [r EXCEPT !.fd = fd, !.mac = mac] \in Interface
           /\ \A up \in BOOLEAN : [r EXCEPT !.up = up] \in Interface
           /\ \A mac \in Macs : [r EXCEPT !.mac = mac] \in Interface
           /\ \A mtu \in Nat : [r EXCEPT !.mtu = mtu] \in Interface
           /\ \A queue \in Seq(Frame) : [r EXCEPT !.queue = queue] \in Interface
BY DEF Interface

LEMMA StartKeeps ==
    ASSUME HInv, Start PROVE HInv'
<1>1. PICK d \in Attachable, mac \in Macs, fd \in FreeFds, ctrl \in FreeFds :
          /\ fd # ctrl
          /\ dev' = Attached(d, fd, mac)
          /\ ifname' = d /\ hwaddr' = dev'[d].mac
          /\ Started(fd, ctrl) \/ NoControl(fd)
  BY DEF Start
<1>2. /\ d \in Names /\ dev[d].fd = -1
      /\ fd \in 0 .. MaxFd /\ ctrl \in 0 .. MaxFd /\ fds[fd] = "free" /\ fds[ctrl] = "free"
  BY DEF Attachable, FreeFds, HInv, TypeOK
<1>3. /\ dev' \in [Names -> Interface]
      /\ dev'[d].fd = fd /\ dev'[d].up = dev[d].up
      /\ \A e \in Names : e # d => dev'[e] = dev[e]
  <2> DEFINE new == IF d \in Persistent THEN dev[d].mac ELSE mac
             r == [dev[d] EXCEPT !.fd = fd, !.mac = new]
  <2>1. dev[d] \in Interface /\ new \in Macs \cup {NoMac} /\ TypeOK
    <3>1. dev[d] \in Interface /\ TypeOK
      BY <1>2 DEF HInv, TypeOK
    <3>2. QED
      BY <3>1 DEF Interface
  <2>2. r \in Interface
    <3>1. fd \in -1 .. MaxFd
      BY <1>2
    <3>2. QED
      BY <2>1, <3>1 DEF Interface
  <2>3. dev' = [dev EXCEPT ![d] = r]
    BY <1>1 DEF Attached
  <2>4. r.fd = fd /\ r.up = dev[d].up
    BY <2>1 DEF Interface
  <2> HIDE DEF r
  <2>5. QED
    BY <1>2, <2>1, <2>2, <2>3, <2>4, DevUpdate
<1>4. dev'[d].mac \in Macs \cup {NoMac}
  BY <1>2, <1>3 DEF Interface
<1>5. UNCHANGED <<alive, buffer, arrived, taken>> /\ alive /\ ~started
  BY DEF Start
<1>6. CASE Started(fd, ctrl)
  <2>1. /\ fds' \in [0 .. MaxFd -> {"free", "app", "tap", "ctrl"}]
        /\ fds'[fd] = "tap" /\ fds'[ctrl] = "ctrl"
    BY <1>1, <1>2, <1>6 DEF Started, HInv, TypeOK
  <2>2. call' \in CallType
    BY <1>6, CallTypes DEF Started
  <2>3. TypeOK'
    BY <1>1, <1>2, <1>3, <1>4, <1>5, <1>6, <2>1, <2>2, TapcfgAssumption
       DEF HInv, TypeOK, Started
  <2>4. HandleCoherent'
    BY <1>1, <1>2, <1>3, <1>6, <2>1 DEF HandleCoherent, Started
  <2>5. HandleMirrors' /\ IdleDown' /\ DestroyedStopped'
    BY <1>1, <1>2, <1>3, <1>5, <1>6
       DEF HInv, HandleMirrors, IdleDown, DestroyedStopped, Started
  <2>6. QED
    BY <2>3, <2>4, <2>5 DEF HInv
<1>7. CASE NoControl(fd)
  <2>1. fds' \in [0 .. MaxFd -> {"free", "app", "tap", "ctrl"}]
    BY <1>1, <1>2, <1>7 DEF NoControl, HInv, TypeOK
  <2>2. call' \in CallType
    BY <1>7, CallTypes DEF NoControl
  <2>3. TypeOK'
    BY <1>1, <1>2, <1>3, <1>4, <1>5, <1>7, <2>1, <2>2
       DEF HInv, TypeOK, NoControl
  <2>4. HandleCoherent' /\ HandleMirrors' /\ DestroyedStopped'
    BY <1>5, <1>7
       DEF HInv, HandleCoherent, HandleMirrors, DestroyedStopped, NoControl
  <2>5. IdleDown'
    BY <1>2, <1>3 DEF HInv, IdleDown
  <2>6. QED
    BY <2>3, <2>4, <2>5 DEF HInv
<1>8. QED
  BY <1>1, <1>6, <1>7

LEMMA StopKeeps ==
    ASSUME HInv, Stop \/ Destroy PROVE HInv'
<1>1. /\ StopHandle /\ Other
      /\ UNCHANGED <<ifname, hwaddr, arrived, taken>>
      /\ alive' \in BOOLEAN
      /\ buffer' \in Seq(Frame) /\ Len(buffer') <= 1
  <2>1. CASE Stop
    BY <2>1 DEF Stop, HInv, TypeOK
  <2>2. CASE Destroy
    <3>1. <<>> \in Seq(Frame) /\ Len(<<>>) <= 1
      OBVIOUS
    <3>2. QED
      BY <2>2, <3>1 DEF Destroy
  <2>3. QED
    BY <2>1, <2>2
<1>2. call' \in CallType
  BY <1>1, CallTypes
<1>3. CASE started
  <2>1. /\ Closed({tap_fd, ctrl_fd}) /\ {tap_fd, ctrl_fd} \in SUBSET (-1 .. MaxFd)
        /\ tap_fd' = -1 /\ ctrl_fd' = -1 /\ ~started' /\ started' \in BOOLEAN /\ status' = {}
    BY <1>1, <1>3 DEF StopHandle, HInv, TypeOK
  <2>2. /\ fds' \in [0 .. MaxFd -> {"free", "app", "tap", "ctrl"}]
        /\ dev' \in [Names -> Interface]
        /\ \A d \in Names : dev[d].fd \notin {tap_fd, ctrl_fd} => dev'[d] = dev[d]
        /\ \A d \in Names : dev[d].fd \in {tap_fd, ctrl_fd} =>
              dev'[d].fd = -1 /\ (d \notin Persistent => ~dev'[d].up)
    BY <2>1, ClosedTypes DEF HInv
  <2>3. TypeOK'
    BY <1>1, <1>2, <2>1, <2>2, TapcfgAssumption DEF HInv, TypeOK
  <2>4. IdleDown'
    BY <2>2 DEF HInv, IdleDown
  <2>5. HandleCoherent' /\ HandleMirrors' /\ DestroyedStopped'
    BY <2>1 DEF HandleCoherent, HandleMirrors, DestroyedStopped
  <2>6. QED
    BY <2>3, <2>4, <2>5 DEF HInv
<1>4. CASE ~started
  <2>1. UNCHANGED <<fds, dev, tap_fd, ctrl_fd, started, status>>
    BY <1>1, <1>4 DEF StopHandle
  <2>2. TypeOK'
    BY <1>1, <1>2, <2>1 DEF HInv, TypeOK
  <2>3. IdleDown' /\ HandleCoherent' /\ HandleMirrors' /\ DestroyedStopped'
    BY <1>4, <2>1 DEF HInv, HandleCoherent, HandleMirrors, DestroyedStopped, IdleDown
  <2>4. QED
    BY <2>2, <2>3 DEF HInv
<1>5. QED
  BY <1>3, <1>4

\* The calls that open and close nothing.
LEMMA ReadKeeps ==
    ASSUME HInv, NEW size \in Counts, Read(size) PROVE HInv'
<1>1. /\ UNCHANGED <<alive, handle, fds, arrived>> /\ alive /\ started
      /\ ifname \in Names /\ ifname \in DOMAIN dev
  BY DEF Read, HInv, HandleCoherent, TypeOK
<1>2. PICK f \in Frame : Delivered(f, size)
  <2>1. CASE buffer # <<>>
    BY <2>1 DEF Read, HInv, TypeOK
  <2>2. CASE Queue # <<>>
    <3>1. Head(Queue) \in Frame
      <4>1. dev[ifname] \in Interface
        BY <1>1 DEF HInv, TypeOK
      <4>2. Queue \in Seq(Frame)
        BY <4>1 DEF Queue, Interface
      <4>3. QED
        BY <2>2, <4>2
    <3>2. Kept(Head(Queue)) \in Frame
      BY <3>1, TapcfgAssumption DEF Kept, Frame
    <3>3. QED
      BY <2>1, <3>2 DEF Read
  <2>3. QED
    BY <2>1, <2>2 DEF Read
<1>3. dev' = dev \/ (Queue # <<>> /\ dev' = [dev EXCEPT ![ifname].queue = Tail(@)])
  BY DEF Read
<1>4. /\ dev' \in [Names -> Interface]
      /\ \A d \in Names : /\ dev'[d].fd = dev[d].fd /\ dev'[d].up = dev[d].up
                          /\ dev'[d].mac = dev[d].mac
  <2>1. CASE dev' = dev
    BY <2>1 DEF HInv, TypeOK
  <2>2. CASE Queue # <<>> /\ dev' = [dev EXCEPT ![ifname].queue = Tail(@)]
    <3> DEFINE r == [dev[ifname] EXCEPT !.queue = Tail(@)]
    <3>1. dev[ifname] \in Interface /\ Queue \in Seq(Frame) /\ TypeOK
      BY <1>1 DEF HInv, TypeOK, Interface, Queue
    <3>2. Tail(Queue) \in Seq(Frame)
      BY <2>2, <3>1
    <3>3. r \in Interface
      BY <3>1, <3>2, FieldTypes DEF Queue
    <3>4. dev' = [dev EXCEPT ![ifname] = r]
      BY <2>2
    <3>5. r.fd = dev[ifname].fd /\ r.up = dev[ifname].up /\ r.mac = dev[ifname].mac
      BY <3>1 DEF Interface
    <3> HIDE DEF r
    <3>6. QED
      BY <1>1, <3>1, <3>3, <3>4, <3>5, DevUpdate
  <2>3. QED
    BY <1>3, <2>1, <2>2
<1>5. /\ buffer' \in Seq(Frame) /\ Len(buffer') <= 1 /\ taken' \in Seq(Frame)
      /\ Other
  <2>1. CASE size < f.len
    <3>1. <<f>> \in Seq(Frame) /\ Len(<<f>>) <= 1
      OBVIOUS
    <3>2. taken \in Seq(Frame)
      BY DEF HInv, TypeOK
    <3>3. QED
      BY <1>2, <2>1, <3>1, <3>2 DEF Delivered
  <2>2. CASE ~(size < f.len)
    <3>1. <<>> \in Seq(Frame) /\ Len(<<>>) <= 1
      OBVIOUS
    <3>2. taken \in Seq(Frame)
      BY DEF HInv, TypeOK
    <3>3. Append(taken, f) \in Seq(Frame)
      BY <3>2
    <3>4. QED
      BY <1>2, <2>2, <3>1, <3>3 DEF Delivered
  <2>3. QED
    BY <2>1, <2>2
<1>6. call' \in CallType
  BY <1>5, CallTypes
<1>7. TypeOK'
  BY <1>1, <1>4, <1>5, <1>6 DEF HInv, TypeOK, handle
<1>8. HandleCoherent' /\ HandleMirrors' /\ IdleDown' /\ DestroyedStopped'
  BY <1>1, <1>4
     DEF HInv, HandleCoherent, HandleMirrors, IdleDown, DestroyedStopped, handle
<1>9. QED
  BY <1>7, <1>8 DEF HInv

LEMMA SetKeeps ==
    ASSUME HInv,
           \/ \E mac \in Macs : SetHwaddr(mac)
           \/ \E flags \in Flags : SetStatus(flags)
           \/ \E mtu \in Mtus : SetMtu(mtu)
    PROVE HInv'
<1>1. /\ UNCHANGED <<alive, started, tap_fd, ctrl_fd, ifname, buffer, fds, arrived, taken>>
      /\ alive /\ started /\ Other /\ TypeOK
      /\ ifname \in Names /\ dev[ifname] \in Interface
  BY DEF SetHwaddr, SetStatus, SetMtu, handle, HInv, HandleCoherent, TypeOK
<1>2. call' \in CallType
  BY <1>1, CallTypes
<1>3. PICK r \in Interface :
          /\ dev' = [dev EXCEPT ![ifname] = r] /\ r.fd = dev[ifname].fd
          /\ hwaddr' \in Macs \cup {NoMac} /\ status' \in Flags
          /\ hwaddr' = r.mac
          /\ ifname \notin Persistent => (status' # {} <=> r.up)
  <2>1. ASSUME NEW mac \in Macs, SetHwaddr(mac)
        PROVE  LET r == [dev[ifname] EXCEPT !.mac = mac] IN
               /\ r \in Interface /\ dev' = [dev EXCEPT ![ifname] = r]
               /\ r.fd = dev[ifname].fd /\ r.up = dev[ifname].up /\ r.mac = mac
               /\ hwaddr' = mac /\ status' = status
    BY <1>1, <2>1, FieldTypes DEF SetHwaddr, Interface
  <2>2. ASSUME NEW flags \in Flags, SetStatus(flags)
        PROVE  LET r == [dev[ifname] EXCEPT !.up = (flags # {})] IN
               /\ r \in Interface /\ dev' = [dev EXCEPT ![ifname] = r]
               /\ r.fd = dev[ifname].fd /\ r.up = (flags # {}) /\ r.mac = dev[ifname].mac
               /\ hwaddr' = hwaddr /\ status' = flags
    BY <1>1, <2>2, FieldTypes DEF SetStatus, Interface
  <2>3. ASSUME NEW mtu \in Mtus, SetMtu(mtu)
        PROVE  LET r == [dev[ifname] EXCEPT !.mtu = mtu] IN
               /\ r \in Interface /\ dev' = [dev EXCEPT ![ifname] = r]
               /\ r.fd = dev[ifname].fd /\ r.up = dev[ifname].up
               /\ r.mac = dev[ifname].mac
               /\ hwaddr' = hwaddr /\ status' = status
    BY <1>1, <2>3, FieldTypes, TapcfgAssumption DEF SetMtu, Interface, handle
  <2>4. /\ hwaddr = dev[ifname].mac /\ hwaddr \in Macs \cup {NoMac} /\ status \in Flags
        /\ ifname \notin Persistent => (status # {} <=> dev[ifname].up)
    BY <1>1 DEF HInv, HandleMirrors, TypeOK
  <2>5. CASE \E mac \in Macs : SetHwaddr(mac)
    BY <2>1, <2>4, <2>5
  <2>6. CASE \E flags \in Flags : SetStatus(flags)
    BY <2>2, <2>4, <2>6
  <2>7. CASE \E mtu \in Mtus : SetMtu(mtu)
    BY <2>3, <2>4, <2>7
  <2>8. QED
    BY <2>5, <2>6, <2>7
<1>4. /\ dev' \in [Names -> Interface] /\ dev'[ifname] = r
      /\ \A d \in Names : d # ifname => dev'[d] = dev[d]
  BY <1>1, <1>3, DevUpdate
<1>5. TypeOK'
  BY <1>1, <1>2, <1>3, <1>4 DEF TypeOK
<1>6. HandleCoherent' /\ DestroyedStopped' /\ HandleMirrors'
  BY <1>1, <1>3, <1>4 DEF HInv, HandleCoherent, DestroyedStopped, HandleMirrors
<1>7. IdleDown'
  BY <1>1, <1>3, <1>4 DEF HInv, IdleDown, HandleCoherent
<1>8. QED
  BY <1>5, <1>6, <1>7 DEF HInv

LEMMA WorldKeeps ==
    ASSUME HInv, World PROVE HInv'
<1>1. CASE AppOpen \/ \E fd \in 0 .. MaxFd : AppClose(fd)
  <2>1. PICK fd \in 0 .. MaxFd : /\ fds[fd] \in {"free", "app"}
                                /\ fds' \in {[fds EXCEPT ![fd] = "app"],
                                             [fds EXCEPT ![fd] = "free"]}
    BY <1>1 DEF AppOpen, AppClose, FreeFds, HInv, TypeOK
  <2>2. /\ UNCHANGED <<alive, handle, buffer, dev, arrived, taken>>
        /\ Returns("app", 0)
    BY <1>1 DEF AppOpen, AppClose
  <2>3. /\ fds' \in [0 .. MaxFd -> {"free", "app", "tap", "ctrl"}]
        /\ \A e \in 0 .. MaxFd : fds[e] \in {"tap", "ctrl"} => fds'[e] = fds[e]
    BY <2>1 DEF HInv, TypeOK
  <2>4. call' \in CallType
    BY <2>2, CallTypes
  <2>5. TypeOK'
    BY <2>2, <2>3, <2>4 DEF HInv, TypeOK, handle
  <2>6. HandleCoherent' /\ HandleMirrors' /\ IdleDown' /\ DestroyedStopped'
    BY <2>2, <2>3
       DEF HInv, TypeOK, HandleCoherent, HandleMirrors, IdleDown, DestroyedStopped, handle
  <2>7. QED
    BY <2>5, <2>6 DEF HInv
<1>2. ASSUME NEW d \in Names, NEW len \in Lens, Arrive(d, len) PROVE HInv'
  <2>1. /\ UNCHANGED <<alive, handle, buffer, fds, taken, call>>
        /\ arrived' \in Seq(Lens) /\ Len(arrived') \in Nat /\ len \in Nat
    BY <1>2, TapcfgAssumption DEF Arrive, HInv, TypeOK
  <2>2. /\ dev' \in [Names -> Interface]
        /\ \A e \in Names : /\ dev'[e].fd = dev[e].fd /\ dev'[e].up = dev[e].up
                            /\ dev'[e].mac = dev[e].mac
    <3> DEFINE r == [dev[d] EXCEPT
                        !.queue = Append(@, [n |-> Len(arrived'), len |-> len])]
    <3>1. dev[d] \in Interface /\ dev[d].queue \in Seq(Frame) /\ TypeOK
      BY DEF HInv, TypeOK, Interface
    <3>2. Append(dev[d].queue, [n |-> Len(arrived'), len |-> len]) \in Seq(Frame)
      BY <2>1, <3>1 DEF Frame
    <3>3. r \in Interface
      BY <3>1, <3>2, FieldTypes
    <3>4. dev' = [dev EXCEPT ![d] = r]
      BY <1>2 DEF Arrive
    <3>5. r.fd = dev[d].fd /\ r.up = dev[d].up /\ r.mac = dev[d].mac
      BY <3>1 DEF Interface
    <3> HIDE DEF r
    <3>6. QED
      BY <3>1, <3>3, <3>4, <3>5, DevUpdate
  <2>3. TypeOK'
    BY <2>1, <2>2 DEF HInv, TypeOK, handle
  <2>4. HandleCoherent' /\ HandleMirrors' /\ IdleDown' /\ DestroyedStopped'
    BY <2>1, <2>2
       DEF HInv, HandleCoherent, HandleMirrors, IdleDown, DestroyedStopped, handle
  <2>5. QED
    BY <2>3, <2>4 DEF HInv
<1>3. QED
  BY <1>1, <1>2 DEF World

\* The calls that change the handle alone, or nothing.
LEMMA QuietKeeps ==
    ASSUME HInv, StartAgain \/ StartFails \/ Reinit \/ WaitReadable \/ NoEffect
    PROVE  HInv'
<1>1. UNCHANGED <<fds, dev, arrived, taken>> /\ alive' \in BOOLEAN /\ alive'
  BY DEF StartAgain, StartFails, Reinit, WaitReadable, NoEffect, kernel, HInv, TypeOK
<1>2. call' \in CallType
  <2>1. /\ Selected \subseteq Int /\ 0 \in Int /\ -1 \in Int
    BY DEF Selected
  <2>2. QED
    BY <2>1, CallTypes DEF StartAgain, StartFails, Reinit, WaitReadable, NoEffect
<1>3. CASE UNCHANGED <<handle, buffer>>
  <2>1. TypeOK'
    BY <1>1, <1>2, <1>3 DEF HInv, TypeOK, handle
  <2>2. QED
    BY <1>1, <1>3, <2>1
       DEF HInv, HandleCoherent, HandleMirrors, IdleDown, DestroyedStopped, handle
<1>4. CASE ~started' /\ tap_fd' = -1 /\ status' = {} /\ started' \in BOOLEAN
           /\ ctrl_fd' \in -1 .. MaxFd /\ ifname' = NoName
           /\ hwaddr' \in Macs \cup {NoMac} /\ buffer' \in Seq(Frame) /\ Len(buffer') <= 1
  <2>1. TypeOK'
    BY <1>1, <1>2, <1>4, TapcfgAssumption DEF HInv, TypeOK
  <2>2. QED
    BY <1>1, <1>4, <2>1
       DEF HInv, HandleCoherent, HandleMirrors, IdleDown, DestroyedStopped
<1>5. QED
  <2>1. CASE StartAgain \/ WaitReadable \/ NoEffect
    BY <1>3, <2>1 DEF StartAgain, WaitReadable, NoEffect
  <2>2. CASE StartFails
    BY <1>4, <2>2 DEF StartFails, HInv, TypeOK, HandleCoherent
  <2>3. CASE Reinit
    <3>1. 0 \in -1 .. MaxFd /\ <<>> \in Seq(Frame) /\ Len(<<>>) <= 1
      BY TapcfgAssumption
    <3>2. QED
      BY <1>4, <2>3, <3>1 DEF Reinit, Fresh
  <2>4. QED
    BY <2>1, <2>2, <2>3

LEMMA HInit ==
    ASSUME Init PROVE HInv
<1>1. PICK mac \in Macs, up \in BOOLEAN :
          dev = [d \in Names |-> IF d \in Persistent
                                 THEN [NoDev EXCEPT !.mac = mac, !.up = up]
                                 ELSE NoDev]
  BY DEF Init
<1>2. dev \in [Names -> Interface] /\ IdleDown
  <2>1. NoDev \in Interface /\ ~NoDev.up
    BY TapcfgAssumption DEF NoDev, Interface, DefaultMtu
  <2>2. [NoDev EXCEPT !.mac = mac, !.up = up] \in Interface
    BY <2>1 DEF Interface
  <2>3. QED
    BY <1>1, <2>1, <2>2 DEF IdleDown
<1>3. fds \in [0 .. MaxFd -> {"free", "app", "tap", "ctrl"}]
  BY DEF Init
<1>4. call \in CallType
  BY DEF Init, NoCall, CallType
<1>5. TypeOK
  <2>1. /\ <<>> \in Seq(Frame) /\ Len(<<>>) <= 1 /\ <<>> \in Seq(Lens)
        /\ -1 \in -1 .. MaxFd /\ 0 \in -1 .. MaxFd
    BY TapcfgAssumption
  <2>2. QED
    BY <1>2, <1>3, <1>4, <2>1, TapcfgAssumption DEF Init, TypeOK
<1>6. QED
  BY <1>2, <1>5 DEF Init, HInv, HandleCoherent, HandleMirrors, DestroyedStopped

LEMMA HNext ==
    ASSUME HInv, [Next]_vars PROVE HInv'
<1>1. CASE UNCHANGED vars
  <2>1. TypeOK'
    BY <1>1 DEF HInv, TypeOK, vars, handle, kernel
  <2>2. QED
    BY <1>1, <2>1
       DEF HInv, HandleCoherent, HandleMirrors, IdleDown, DestroyedStopped, vars,
           handle, kernel
<1>2. CASE Calls
  <2>1. \/ StartAgain \/ StartFails \/ Reinit \/ WaitReadable \/ NoEffect
        \/ Start \/ Stop \/ Destroy
        \/ \E size \in Counts : Read(size)
        \/ \E mac \in Macs : SetHwaddr(mac)
        \/ \E flags \in Flags : SetStatus(flags)
        \/ \E mtu \in Mtus : SetMtu(mtu)
    BY <1>2 DEF Calls
  <2>2. QED
    BY <2>1, QuietKeeps, StartKeeps, StopKeeps, ReadKeeps, SetKeeps
<1>3. CASE World
  BY <1>3, WorldKeeps
<1>4. QED
  BY <1>1, <1>2, <1>3 DEF Next

THEOREM HandleInductive == Spec => []HInv
<1>1. Init => HInv
  BY HInit
<1>2. HInv /\ [Next]_vars => HInv'
  BY HNext
<1>3. QED
  BY <1>1, <1>2, PTL DEF Spec

\* Every variable of the library model keeps its type.
THEOREM TypeCorrect == Spec => []TypeOK
<1>1. HInv => TypeOK
  BY DEF HInv
<1>2. QED
  BY <1>1, HandleInductive, PTL

\* A started handle owns its descriptors and its interface, whatever failed
\* before and whatever the application opens and closes meanwhile.
THEOREM DescriptorsOwned == Spec => []HandleCoherent
<1>1. HInv => HandleCoherent
  BY DEF HInv
<1>2. QED
  BY <1>1, HandleInductive, PTL

\* The handle's copy of the interface's address and status is the kernel's.
THEOREM StateMirrored == Spec => []HandleMirrors
<1>1. HInv => HandleMirrors
  BY DEF HInv
<1>2. QED
  BY <1>1, HandleInductive, PTL

\* No call of the library closes a descriptor of the application.
THEOREM OthersLeftAlone == Spec => LeavesOthersAlone
<1>1. HInv /\ [Next]_vars =>
          [call'.op # "app" => \A fd \in DOMAIN fds : fds[fd] = "app" => fds'[fd] = "app"]_vars
  <2> SUFFICES ASSUME HInv, Next, call'.op # "app",
                      NEW fd \in DOMAIN fds, fds[fd] = "app"
               PROVE  fds'[fd] = "app"
    OBVIOUS
  <2>1. ~AppOpen /\ ~\E e \in 0 .. MaxFd : AppClose(e)
    BY DEF AppOpen, AppClose, Returns
  <2>2. fd \in 0 .. MaxFd
    BY DEF HInv, TypeOK
  <2>3. CASE UNCHANGED fds
    BY <2>3
  <2>4. CASE Start
    BY <2>2, <2>4 DEF Start, Started, NoControl, FreeFds, HInv, TypeOK
  <2>5. CASE StopHandle /\ started
    <3>1. fds[tap_fd] = "tap" /\ fds[ctrl_fd] = "ctrl"
      BY <2>5 DEF HInv, HandleCoherent
    <3>2. QED
      BY <2>5, <3>1 DEF StopHandle, Closed
  <2>6. CASE StopHandle /\ ~started
    BY <2>6 DEF StopHandle
  <2>7. QED
    BY <2>1, <2>3, <2>4, <2>5, <2>6
       DEF Next, Calls, World, StartAgain, StartFails, Stop, Destroy, Reinit, WaitReadable,
           NoEffect, Read, SetHwaddr, SetStatus, SetMtu, Arrive, kernel
<1>2. QED
  BY <1>1, HandleInductive, PTL DEF Spec, LeavesOthersAlone

-----------------------------------------------------------------------------
(* Frames. *)

\* A frame as it arrived, short enough for the buffer of the handle.
Whole(f, arr) == f.n \in 1 .. Len(arr) /\ f.len = arr[f.n] /\ f.len <= BufSize
AllWhole(seq, arr) == \A k \in 1 .. Len(seq) : Whole(seq[k], arr)

\* What keeps frames whole: no MTU, not even the default one, allows a frame the
\* buffer cannot hold.
MtuFits == \A d \in Names : dev[d].mtu + MaxHeader <= BufSize
WholeInv ==
    /\ \A d \in Names : AllWhole(dev[d].queue, arrived)
    /\ AllWhole(buffer, arrived) /\ AllWhole(taken, arrived)

\* An interface without a process has no frames.
IdleEmpty == \A d \in Names : dev[d].fd = -1 => dev[d].queue = <<>>

FInv == HInv /\ MtuFits /\ WholeInv /\ IdleEmpty

LEMMA WholeSeqs ==
    ASSUME NEW seq \in Seq(Frame), NEW arr \in Seq(Lens), AllWhole(seq, arr)
    PROVE  /\ \A f \in Frame : Whole(f, arr) => AllWhole(Append(seq, f), arr)
           /\ seq # <<>> => Whole(Head(seq), arr) /\ AllWhole(Tail(seq), arr)
           /\ \A len \in Lens : AllWhole(seq, Append(arr, len))
<1>1. ASSUME NEW f \in Frame, Whole(f, arr) PROVE AllWhole(Append(seq, f), arr)
  BY <1>1 DEF AllWhole
<1>2. ASSUME seq # <<>> PROVE Whole(Head(seq), arr) /\ AllWhole(Tail(seq), arr)
  <2>1. Len(seq) \in Nat \ {0} /\ Head(seq) = seq[1]
    BY <1>2
  <2>2. Whole(Head(seq), arr)
    BY <2>1 DEF AllWhole
  <2>3. \A k \in 1 .. Len(Tail(seq)) : k + 1 \in 1 .. Len(seq) /\ Tail(seq)[k] = seq[k + 1]
    BY <1>2, <2>1
  <2> QED
    BY <2>2, <2>3 DEF AllWhole
<1>3. ASSUME NEW len \in Lens PROVE AllWhole(seq, Append(arr, len))
  <2> SUFFICES ASSUME NEW k \in 1 .. Len(seq) PROVE Whole(seq[k], Append(arr, len))
    BY DEF AllWhole
  <2>1. Whole(seq[k], arr)
    BY DEF AllWhole
  <2>2. /\ seq[k].n \in 1 .. Len(Append(arr, len))
        /\ Append(arr, len)[seq[k].n] = arr[seq[k].n]
    BY <2>1 DEF Whole
  <2> QED
    BY <2>1, <2>2 DEF Whole
<1> QED
  BY <1>1, <1>2, <1>3

\* The types of what an interface holds.
LEMMA InterfaceTypes ==
    ASSUME TypeOK, NEW d \in Names
    PROVE  /\ dev[d] \in Interface /\ dev[d].queue \in Seq(Frame) /\ dev[d].mtu \in Nat
           /\ \A mtu \in Nat : [dev[d] EXCEPT !.mtu = mtu].mtu = mtu
BY DEF TypeOK, Interface

LEMMA NewDev ==
    /\ NoDev.mtu + MaxHeader <= BufSize /\ NoDev.queue = <<>> /\ NoDev.fd = -1
    /\ \A arr : AllWhole(<<>>, arr)
BY TapcfgAssumption DEF NoDev, DefaultMtu, MaxHeader, AllWhole

\* What a close leaves of an interface.
LEMMA ClosedFrames ==
    ASSUME FInv, NEW set \in SUBSET (-1 .. MaxFd), Closed(set)
    PROVE  /\ \A d \in Names : /\ dev'[d].mtu + MaxHeader <= BufSize
                               /\ dev'[d].queue = dev[d].queue \/ dev'[d].queue = <<>>
                               /\ dev'[d].fd = -1 => dev'[d].queue = <<>>
           /\ \A d \in Names : dev[d].fd \in set => dev'[d].queue = <<>>
<1> SUFFICES ASSUME NEW d \in Names
             PROVE  /\ dev'[d].mtu + MaxHeader <= BufSize
                    /\ dev'[d].queue = dev[d].queue \/ dev'[d].queue = <<>>
                    /\ dev'[d].fd = -1 => dev'[d].queue = <<>>
                    /\ dev[d].fd \in set => dev'[d].queue = <<>>
  OBVIOUS
<1> DEFINE kept == [dev[d] EXCEPT !.fd = -1, !.queue = <<>>]
<1>1. dev[d] \in Interface /\ dev[d].mtu + MaxHeader <= BufSize
  BY InterfaceTypes DEF FInv, HInv, MtuFits
<1>2. kept.mtu = dev[d].mtu /\ kept.queue = <<>>
  BY <1>1 DEF Interface
<1>3. dev'[d] = IF dev[d].fd \notin set THEN dev[d]
                ELSE IF d \in Persistent THEN kept ELSE NoDev
  BY DEF Closed
<1> HIDE DEF kept
<1>4. QED
  BY <1>1, <1>2, <1>3, NewDev DEF FInv, IdleEmpty

LEMMA FStart ==
    ASSUME FInv, Start PROVE FInv'
<1>1. PICK d \in Attachable, mac \in Macs, fd \in FreeFds, ctrl \in FreeFds :
          /\ dev' = Attached(d, fd, mac)
          /\ Started(fd, ctrl) \/ NoControl(fd)
  BY DEF Start
<1>2. d \in Names /\ dev[d].fd = -1 /\ fd \in 0 .. MaxFd
  BY DEF Attachable, FreeFds, FInv, HInv, TypeOK
<1>3. UNCHANGED <<buffer, arrived, taken>>
  BY DEF Start
<1>4. \A e \in Names : /\ dev'[e].mtu = dev[e].mtu /\ dev'[e].queue = dev[e].queue
                       /\ dev'[e].fd = IF e = d THEN fd ELSE dev[e].fd
  <2>1. dev[d] \in Interface
    BY <1>2, InterfaceTypes DEF FInv, HInv
  <2>2. dev' = [dev EXCEPT ![d] = [dev[d] EXCEPT !.fd = fd,
                                     !.mac = IF d \in Persistent THEN @ ELSE mac]]
    BY <1>1 DEF Attached
  <2>3. dev \in [Names -> Interface]
    BY DEF FInv, HInv, TypeOK
  <2> QED
    BY <2>1, <2>2, <2>3 DEF Interface
<1>5. \A e \in Names : dev'[e].fd = -1 => dev[e].fd = -1
  BY <1>2, <1>4
<1>7. HInv'
  BY StartKeeps DEF FInv
<1>8. MtuFits' /\ WholeInv' /\ IdleEmpty'
  BY <1>3, <1>4, <1>5, <1>2 DEF FInv, MtuFits, WholeInv, IdleEmpty
<1> QED
  BY <1>7, <1>8 DEF FInv

LEMMA FStop ==
    ASSUME FInv, Stop \/ Destroy PROVE FInv'
<1>1. /\ StopHandle /\ UNCHANGED <<arrived, taken>>
      /\ buffer' = buffer \/ buffer' = <<>>
  BY DEF Stop, Destroy
<1>2. HInv'
  BY StopKeeps DEF FInv
<1>3. /\ \A d \in Names : /\ dev'[d].mtu + MaxHeader <= BufSize
                          /\ dev'[d].queue = dev[d].queue \/ dev'[d].queue = <<>>
                          /\ dev'[d].fd = -1 => dev'[d].queue = <<>>
  <2>1. CASE started
    <3>1. {tap_fd, ctrl_fd} \in SUBSET (-1 .. MaxFd)
      BY DEF FInv, HInv, TypeOK
    <3>2. Closed({tap_fd, ctrl_fd})
      BY <1>1, <2>1 DEF StopHandle
    <3> QED
      BY <3>1, <3>2, ClosedFrames
  <2>2. CASE ~started
    BY <1>1, <2>2 DEF StopHandle, FInv, MtuFits, IdleEmpty
  <2> QED
    BY <2>1, <2>2
<1>4. MtuFits' /\ IdleEmpty'
  BY <1>3 DEF MtuFits, IdleEmpty
<1>5. WholeInv'
  BY <1>1, <1>3, NewDev DEF FInv, WholeInv
<1> QED
  BY <1>2, <1>4, <1>5 DEF FInv


LEMMA FRead ==
    ASSUME FInv, NEW size \in Counts, Read(size) PROVE FInv'
<1>1. /\ UNCHANGED <<ifname, started, fds, arrived>> /\ started
      /\ ifname \in Names /\ Queue \in Seq(Frame) /\ dev[ifname] \in Interface
      /\ buffer \in Seq(Frame) /\ taken \in Seq(Frame) /\ arrived \in Seq(Lens)
      /\ dev \in [Names -> Interface]
  BY InterfaceTypes DEF Read, handle, FInv, HInv, HandleCoherent, Queue, TypeOK
<1>2. /\ AllWhole(buffer, arrived) /\ AllWhole(taken, arrived) /\ AllWhole(Queue, arrived)
  BY <1>1 DEF FInv, WholeInv, Queue
<1>3. PICK f \in Frame :
          /\ Delivered(f, size) /\ Whole(f, arrived)
          /\ \/ dev' = dev
             \/ Queue # <<>> /\ dev' = [dev EXCEPT ![ifname].queue = Tail(@)]
  <2>1. CASE buffer # <<>> /\ Delivered(buffer[1], size) /\ UNCHANGED dev
    <3>1. buffer[1] \in Frame /\ Whole(buffer[1], arrived)
      BY <1>1, <1>2, <2>1 DEF AllWhole
    <3> QED
      BY <2>1, <3>1
  <2>2. CASE /\ Queue # <<>> /\ Delivered(Kept(Head(Queue)), size)
             /\ dev' = [dev EXCEPT ![ifname].queue = Tail(@)]
    <3>1. Head(Queue) \in Frame /\ Whole(Head(Queue), arrived)
      BY <1>1, <1>2, <2>2, WholeSeqs
    <3>2. Kept(Head(Queue)) = Head(Queue)
      BY <3>1, TapcfgAssumption DEF Whole, Kept, Frame
    <3> QED
      BY <2>2, <3>1, <3>2
  <2> QED
    BY <2>1, <2>2 DEF Read
<1>4. AllWhole(buffer', arrived') /\ AllWhole(taken', arrived')
  <2>1. AllWhole(<<f>>, arrived) /\ AllWhole(<<>>, arrived)
    BY <1>3 DEF AllWhole
  <2>2. AllWhole(Append(taken, f), arrived)
    BY <1>1, <1>2, <1>3, WholeSeqs
  <2> QED
    BY <1>1, <1>2, <1>3, <2>1, <2>2 DEF Delivered
<1>5. \A d \in Names : /\ dev'[d].mtu = dev[d].mtu /\ dev'[d].fd = dev[d].fd
                       /\ \/ dev'[d].queue = dev[d].queue
                          \/ d = ifname /\ Queue # <<>> /\ dev'[d].queue = Tail(Queue)
  <2>1. CASE dev' = dev
    BY <2>1
  <2>2. CASE Queue # <<>> /\ dev' = [dev EXCEPT ![ifname].queue = Tail(@)]
    <3> DEFINE r == [dev[ifname] EXCEPT !.queue = Tail(@)]
    <3>1. dev' = [dev EXCEPT ![ifname] = r]
      BY <2>2
    <3>2. r.mtu = dev[ifname].mtu /\ r.fd = dev[ifname].fd /\ r.queue = Tail(Queue)
      BY <1>1 DEF Interface, Queue
    <3> HIDE DEF r
    <3> QED
      BY <1>1, <2>2, <3>1, <3>2
  <2> QED
    BY <1>3, <2>1, <2>2
<1>6. dev[ifname].fd # -1
  BY <1>1 DEF FInv, HInv, HandleCoherent
<1>7. HInv'
  BY ReadKeeps DEF FInv
<1>8. MtuFits' /\ IdleEmpty'
  BY <1>5, <1>6 DEF FInv, MtuFits, IdleEmpty
<1>9. WholeInv'
  <2>1. Queue # <<>> => AllWhole(Tail(Queue), arrived)
    BY <1>1, <1>2, WholeSeqs
  <2> QED
    BY <1>1, <1>4, <1>5, <2>1 DEF FInv, WholeInv
<1> QED
  BY <1>7, <1>8, <1>9 DEF FInv

LEMMA FSet ==
    ASSUME FInv,
           \/ \E mac \in Macs : SetHwaddr(mac)
           \/ \E flags \in Flags : SetStatus(flags)
           \/ \E mtu \in Mtus : SetMtu(mtu)
    PROVE  FInv'
<1>1. HInv'
  BY SetKeeps DEF FInv
<1>2. /\ UNCHANGED <<buffer, arrived, taken>> /\ Other
      /\ ifname \in Names /\ dev[ifname] \in Interface /\ dev \in [Names -> Interface]
  BY DEF SetHwaddr, SetStatus, SetMtu, FInv, HInv, HandleCoherent, TypeOK
<1>3. \A d \in Names : /\ dev'[d].fd = dev[d].fd /\ dev'[d].queue = dev[d].queue
                       /\ dev'[d].mtu = dev[d].mtu \/ LegalMtu(dev'[d].mtu)
  <2>1. CASE \E mac \in Macs : SetHwaddr(mac)
    BY <1>2, <2>1 DEF SetHwaddr, Interface
  <2>2. CASE \E flags \in Flags : SetStatus(flags)
    BY <1>2, <2>2 DEF SetStatus, Interface
  <2>3. CASE \E mtu \in Mtus : SetMtu(mtu)
    BY <1>2, <2>3 DEF SetMtu, Interface
  <2> QED
    BY <2>1, <2>2, <2>3
<1>4. \A mtu : LegalMtu(mtu) => mtu + MaxHeader <= BufSize
  BY TapcfgAssumption DEF LegalMtu, MaxHeader
<1>5. MtuFits' /\ IdleEmpty' /\ WholeInv'
  BY <1>2, <1>3, <1>4 DEF FInv, MtuFits, IdleEmpty, WholeInv
<1> QED
  BY <1>1, <1>5 DEF FInv

LEMMA FArrive ==
    ASSUME FInv, NEW d \in Names, NEW len \in Lens, Arrive(d, len) PROVE FInv'
<1>1. HInv'
  BY WorldKeeps DEF FInv, World
<1> DEFINE f == [n |-> Len(arrived'), len |-> len]
<1>2. /\ UNCHANGED <<started, ifname, buffer, taken, call>> /\ dev[d].fd # -1
      /\ arrived' = Append(arrived, len) /\ len <= dev[d].mtu + MaxHeader
      /\ dev' = [dev EXCEPT ![d].queue = Append(@, f)]
  BY DEF Arrive, handle
<1>3. /\ dev \in [Names -> Interface] /\ arrived \in Seq(Lens) /\ len \in Nat
      /\ buffer \in Seq(Frame) /\ taken \in Seq(Frame)
      /\ \A e \in Names : dev[e].queue \in Seq(Frame)
  BY TapcfgAssumption, InterfaceTypes DEF FInv, HInv, TypeOK
<1>4. f \in Frame /\ Whole(f, arrived')
  <2>1. len <= BufSize
    BY <1>2, <1>3, TapcfgAssumption, InterfaceTypes DEF FInv, HInv, MtuFits, MaxHeader
  <2> QED
    BY <1>2, <1>3, <2>1 DEF Frame, Whole
<1> HIDE DEF f
<1>5. \A e \in Names : /\ dev'[e].mtu = dev[e].mtu /\ dev'[e].fd = dev[e].fd
                       /\ dev'[e].queue = IF e = d THEN Append(dev[e].queue, f)
                                          ELSE dev[e].queue
  BY <1>2, <1>3 DEF Interface
<1>6. MtuFits' /\ IdleEmpty'
  BY <1>2, <1>5 DEF FInv, MtuFits, IdleEmpty
<1>7. WholeInv'
  <2>1. AllWhole(buffer, arrived') /\ AllWhole(taken, arrived')
    BY <1>2, <1>3, WholeSeqs DEF FInv, WholeInv
  <2>2. \A e \in Names : AllWhole(dev[e].queue, arrived')
    BY <1>2, <1>3, WholeSeqs DEF FInv, WholeInv
  <2>3. arrived' \in Seq(Lens)
    BY <1>2, <1>3
  <2>4. AllWhole(Append(dev[d].queue, f), arrived')
    BY <1>3, <1>4, <2>2, <2>3, WholeSeqs
  <2> QED
    BY <1>2, <1>5, <2>1, <2>2, <2>4 DEF WholeInv
<1> QED
  BY <1>1, <1>6, <1>7 DEF FInv

\* The steps that leave every frame where it is.
LEMMA FQuiet ==
    ASSUME FInv,
           \/ StartAgain \/ StartFails \/ Reinit \/ WaitReadable \/ NoEffect
           \/ AppOpen \/ \E fd \in 0 .. MaxFd : AppClose(fd)
    PROVE  FInv'
<1>1. HInv'
  BY QuietKeeps, WorldKeeps DEF FInv, World
<1>2. /\ UNCHANGED <<dev, arrived, taken>>
      /\ buffer' = buffer \/ buffer' = <<>>
  BY DEF StartAgain, StartFails, Reinit, WaitReadable, NoEffect, AppOpen, AppClose,
         kernel, Fresh
<1>3. MtuFits' /\ WholeInv' /\ IdleEmpty'
  BY <1>2, NewDev DEF FInv, MtuFits, WholeInv, IdleEmpty
<1> QED
  BY <1>1, <1>3 DEF FInv

LEMMA FInit ==
    ASSUME Init PROVE FInv
<1>1. HInv /\ arrived = <<>> /\ taken = <<>> /\ buffer = <<>>
  BY HInit DEF Init
<1>2. \A d \in Names : dev[d].queue = <<>> /\ dev[d].mtu + MaxHeader <= BufSize
  <2>1. PICK mac \in Macs, up \in BOOLEAN :
            dev = [d \in Names |-> IF d \in Persistent
                                   THEN [NoDev EXCEPT !.mac = mac, !.up = up]
                                   ELSE NoDev]
    BY DEF Init
  <2>2. /\ [NoDev EXCEPT !.mac = mac, !.up = up].queue = <<>>
        /\ [NoDev EXCEPT !.mac = mac, !.up = up].mtu = NoDev.mtu
    BY DEF NoDev
  <2> QED
    BY <2>1, <2>2, NewDev
<1> QED
  BY <1>1, <1>2, NewDev DEF FInv, MtuFits, WholeInv, IdleEmpty

\* The strengthened invariant: no MTU allows a frame too long for the buffer, every
\* frame in a queue, in the buffer or handed out is as it arrived.
THEOREM FramesInductive == Spec => []FInv
<1>1. Init => FInv
  BY FInit
<1>2. FInv /\ [Next]_vars => FInv'
  <2> SUFFICES ASSUME FInv, [Next]_vars PROVE FInv'
    OBVIOUS
  <2>1. CASE UNCHANGED vars
    <3>1. HInv'
      BY <2>1, HNext DEF FInv
    <3> QED
      BY <2>1, <3>1
         DEF FInv, MtuFits, WholeInv, IdleEmpty, Queue, vars, handle, kernel
  <2>2. CASE Calls
    BY <2>2, FStart, FStop, FRead, FSet, FQuiet DEF Calls
  <2>3. CASE World
    BY <2>3, FQuiet, FArrive DEF World
  <2> QED
    BY <2>1, <2>2, <2>3 DEF Next
<1> QED
  BY <1>1, <1>2, PTL DEF Spec

\* No frame the library hands out was cut: what an MTU that set_mtu accepts lets
\* arrive fits the buffer of read() (tapcfg_unix.c:215-258, 432-449).
THEOREM NoFrameCut == Spec => []FramesWhole
<1>1. FInv => FramesWhole
  BY DEF FInv, WholeInv, AllWhole, Whole, FramesWhole
<1> QED
  BY <1>1, FramesInductive, PTL

-----------------------------------------------------------------------------
(* The library implements TapDevice. *)

\* The frames that were not handed out, oldest first.
Held == IF started THEN buffer \o Queue ELSE buffer

LEMMA NumbersType ==
    ASSUME NEW s \in Seq(Frame)
    PROVE  Numbers(s) \in Seq(Nat) /\ Len(Numbers(s)) = Len(s)
<1>1. Len(s) \in Nat /\ \A k \in 1 .. Len(s) : s[k] \in Frame
  BY ElementOfSeq, LenProperties
<1>2. Numbers(s) \in [1 .. Len(s) -> Nat]
  BY <1>1 DEF Numbers, Frame
<1> QED
  BY <1>1, <1>2

LEMMA NumbersEmpty == Numbers(<<>>) = <<>>
BY DEF Numbers

LEMMA NumbersSeq ==
    ASSUME NEW s \in Seq(Frame)
    PROVE  /\ Numbers(s) \in Seq(Nat) /\ Len(Numbers(s)) = Len(s)
           /\ s = <<>> => Numbers(s) = <<>>
           /\ s # <<>> => /\ Numbers(s) # <<>> /\ Head(Numbers(s)) = Head(s).n
                          /\ Numbers(Tail(s)) = Tail(Numbers(s))
           /\ \A f \in Frame : Numbers(Append(s, f)) = Append(Numbers(s), f.n)
<1>1. Numbers(s) \in Seq(Nat) /\ Len(Numbers(s)) = Len(s)
  BY NumbersType
<1>2. s = <<>> => Numbers(s) = <<>>
  BY DEF Numbers
<1>3. ASSUME s # <<>>
      PROVE  /\ Numbers(s) # <<>> /\ Head(Numbers(s)) = Head(s).n
             /\ Numbers(Tail(s)) = Tail(Numbers(s))
  <2>1. Len(s) \in Nat \ {0} /\ Tail(s) \in Seq(Frame) /\ Len(Tail(s)) = Len(s) - 1
    BY <1>3
  <2>2. Numbers(s) # <<>> /\ Head(Numbers(s)) = Head(s).n
    BY <1>1, <1>3, <2>1 DEF Numbers
  <2>3. Numbers(Tail(s)) \in Seq(Nat) /\ Len(Numbers(Tail(s))) = Len(s) - 1
    BY <2>1, NumbersType
  <2>4. Tail(Numbers(s)) \in Seq(Nat) /\ Len(Tail(Numbers(s))) = Len(s) - 1
    BY <1>1, <2>1, <2>2
  <2>5. ASSUME NEW k \in 1 .. Len(s) - 1 PROVE Numbers(Tail(s))[k] = Tail(Numbers(s))[k]
    <3>1. Tail(s)[k] = s[k + 1] /\ k + 1 \in 1 .. Len(s)
      BY <1>3, <2>1
    <3>2. Tail(Numbers(s))[k] = Numbers(s)[k + 1]
      BY <1>1, <2>1, <2>2
    <3> QED
      BY <2>1, <3>1, <3>2 DEF Numbers
  <2>6. Numbers(Tail(s)) = Tail(Numbers(s))
    BY <2>3, <2>4, <2>5, SeqEqual
  <2> QED
    BY <2>2, <2>6
<1>4. ASSUME NEW f \in Frame PROVE Numbers(Append(s, f)) = Append(Numbers(s), f.n)
  <2>1. Append(s, f) \in Seq(Frame) /\ Len(Append(s, f)) = Len(s) + 1 /\ f.n \in Nat
    BY DEF Frame
  <2>2. Numbers(Append(s, f)) \in Seq(Nat) /\ Len(Numbers(Append(s, f))) = Len(s) + 1
    BY <2>1, NumbersType
  <2>3. Append(Numbers(s), f.n) \in Seq(Nat) /\ Len(Append(Numbers(s), f.n)) = Len(s) + 1
    BY <1>1, <2>1
  <2>4. ASSUME NEW k \in 1 .. Len(s) + 1
        PROVE  Numbers(Append(s, f))[k] = Append(Numbers(s), f.n)[k]
    BY <1>1, <2>1 DEF Numbers
  <2> QED
    BY <2>2, <2>3, <2>4, SeqEqual
<1> QED
  BY <1>1, <1>2, <1>3, <1>4

\* What is held changes only in ways the abstract device knows.
LEMMA HeldTypes ==
    ASSUME FInv
    PROVE  /\ buffer \in Seq(Frame) /\ taken \in Seq(Frame) /\ Held \in Seq(Frame)
           /\ Len(arrived) \in Nat /\ started \in BOOLEAN
           /\ started => Queue \in Seq(Frame) /\ ifname \in Names
           /\ buffer # <<>> => \E f \in Frame : buffer = <<f>>
<1>1. /\ buffer \in Seq(Frame) /\ taken \in Seq(Frame) /\ Len(buffer) <= 1
      /\ Len(arrived) \in Nat /\ started \in BOOLEAN /\ TypeOK
  BY DEF FInv, HInv, TypeOK
<1>2. ASSUME started PROVE Queue \in Seq(Frame) /\ ifname \in Names
  BY <1>1, <1>2, InterfaceTypes DEF FInv, HInv, HandleCoherent, Queue
<1>3. ASSUME buffer # <<>> PROVE \E f \in Frame : buffer = <<f>>
  <2>1. Len(buffer) = 1 /\ buffer[1] \in Frame
    <3>1. buffer \in Seq(Frame) /\ Len(buffer) <= 1
      BY <1>1
    <3>2. Len(buffer) \in Nat /\ Len(buffer) # 0
      BY <3>1, <1>3, EmptySeq
    <3>3. Len(buffer) = 1
      <4> DEFINE n == Len(buffer)
      <4>1. n \in Nat /\ n # 0 /\ n <= 1
        BY <3>1, <3>2
      <4> HIDE DEF n
      <4>2. n = 1
        BY <4>1
      <4> QED
        BY <4>2 DEF n
    <3> QED
      BY <3>1, <3>3
  <2>2. buffer = <<buffer[1]>>
    BY <1>1, <2>1
  <2> QED
    BY <2>1, <2>2
<1> QED
  BY <1>1, <1>2, <1>3 DEF Held

LEMMA DStart ==
    ASSUME FInv, Start PROVE [D!DeviceNext]_(D!deviceVars)
<1>1. PICK d \in Attachable, mac \in Macs, fd \in FreeFds, ctrl \in FreeFds :
          /\ dev' = Attached(d, fd, mac) /\ ifname' = d
          /\ Started(fd, ctrl) \/ NoControl(fd)
  BY DEF Start
<1>2. ~started /\ UNCHANGED <<buffer, arrived, taken>>
  BY DEF Start
<1>3. CASE NoControl(fd)
  <2>1. started' = started /\ Held' = Held
    BY <1>2, <1>3 DEF NoControl, Held
  <2> QED
    BY <1>2, <2>1 DEF D!deviceVars, Held
<1>4. CASE Started(fd, ctrl)
  <2>1. d \in Names /\ dev[d].queue = <<>> /\ dev[d] \in Interface
    BY InterfaceTypes DEF Attachable, FInv, HInv, IdleEmpty
  <2>2. Queue' = <<>>
    BY <1>1, <2>1 DEF Queue, Attached, FInv, HInv, TypeOK, Interface
  <2>3. Held' = buffer /\ Held = buffer /\ started'
    BY <1>2, <1>4, <2>2, HeldTypes DEF Held, Started
  <2>4. D!Open
    BY <1>2, <2>3 DEF D!Open, Held
  <2> QED
    BY <2>4 DEF D!DeviceNext
<1> QED
  BY <1>1, <1>3, <1>4


LEMMA DStop ==
    ASSUME FInv, Stop \/ Destroy PROVE [D!DeviceNext]_(D!deviceVars)
<1>1. /\ StopHandle /\ UNCHANGED <<arrived, taken>>
      /\ buffer' = buffer \/ buffer' = <<>>
  BY DEF Stop, Destroy
<1>2. CASE started
  <2>1. ~started' /\ Held = buffer \o Queue /\ Held' = buffer'
    BY <1>1, <1>2 DEF StopHandle, Held
  <2>2. Numbers(Held') = <<>> \/ (Numbers(Held) # <<>> /\ Numbers(Held') = <<Head(Numbers(Held))>>)
    <3>1. CASE buffer' = <<>>
      BY <2>1, <3>1, NumbersEmpty
    <3>2. CASE buffer' # <<>>
      <4>1. PICK f \in Frame : buffer = <<f>>
        BY <1>1, <3>2, HeldTypes
      <4>2. Held # <<>> /\ Head(Held) = f /\ Held \in Seq(Frame)
        BY <1>2, <2>1, <4>1, HeldTypes
      <4>3. Numbers(Held) # <<>> /\ Head(Numbers(Held)) = f.n
        BY <4>2, NumbersSeq
      <4>4. Numbers(<<f>>) = <<f.n>>
        BY DEF Numbers
      <4> QED
        BY <1>1, <2>1, <3>2, <4>1, <4>3, <4>4
    <3> QED
      BY <3>1, <3>2
  <2>3. D!Close
    BY <1>1, <1>2, <2>1, <2>2 DEF D!Close, Held
  <2> QED
    BY <2>3 DEF D!DeviceNext
<1>3. CASE ~started
  <2>1. started' = started /\ Held = buffer /\ Held' = buffer'
    BY <1>1, <1>3 DEF StopHandle, Held
  <2>2. CASE buffer' = buffer
    BY <1>1, <1>3, <2>1, <2>2 DEF D!deviceVars
  <2>3. CASE buffer' = <<>>
    <3>1. Numbers(Held') = <<>>
      BY <2>1, <2>3, NumbersEmpty
    <3>2. D!Forget
      BY <1>1, <1>3, <2>1, <3>1 DEF D!Forget, Held
    <3> QED
      BY <3>2 DEF D!DeviceNext
  <2> QED
    BY <1>1, <2>2, <2>3
<1> QED
  BY <1>2, <1>3

LEMMA DRead ==
    ASSUME FInv, NEW size \in Counts, Read(size) PROVE [D!DeviceNext]_(D!deviceVars)
<1>1. /\ UNCHANGED <<ifname, started, arrived>> /\ started
      /\ Queue \in Seq(Frame) /\ ifname \in Names /\ buffer \in Seq(Frame)
      /\ taken \in Seq(Frame) /\ Held \in Seq(Frame) /\ Held = buffer \o Queue
  BY HeldTypes DEF Read, handle, Held
<1>2. AllWhole(Queue, arrived) /\ dev \in [Names -> Interface]
  BY <1>1 DEF FInv, WholeInv, Queue, HInv, TypeOK
<1>3. /\ Held # <<>> /\ Delivered(Head(Held), size)
      /\ Held' = buffer' \o Tail(Held)
  <2>1. CASE buffer # <<>> /\ Delivered(buffer[1], size) /\ UNCHANGED dev
    <3>1. PICK f \in Frame : buffer = <<f>>
      BY <2>1, HeldTypes
    <3>2. Held # <<>> /\ Head(Held) = f /\ Tail(Held) = Queue
      <4>1. Held = <<f>> \o Queue /\ Held # <<>>
        BY <1>1, <3>1
      <4>2. Head(Held) = f
        BY <1>1, <4>1
      <4>3. Len(Tail(Held)) = Len(Queue) /\ Tail(Held) \in Seq(Frame)
        BY <1>1, <4>1
      <4>4. \A k \in 1 .. Len(Queue) : Tail(Held)[k] = Queue[k]
        BY <1>1, <4>1
      <4> QED
        BY <1>1, <4>1, <4>2, <4>3, <4>4, SeqEqual
    <3>3. Held' = buffer' \o Queue
      BY <1>1, <2>1 DEF Held, Queue
    <3> QED
      BY <2>1, <3>1, <3>2, <3>3
  <2>2. CASE /\ buffer = <<>> /\ Queue # <<>> /\ Delivered(Kept(Head(Queue)), size)
             /\ dev' = [dev EXCEPT ![ifname].queue = Tail(@)]
    <3>1. Held = Queue
      BY <1>1, <2>2
    <3>2. Kept(Head(Queue)) = Head(Queue)
      <4>1. Head(Queue) \in Frame /\ Whole(Head(Queue), arrived)
        <5>1. arrived \in Seq(Lens)
          BY DEF FInv, HInv, TypeOK
        <5> QED
          BY <1>1, <1>2, <2>2, <5>1, WholeSeqs
      <4> QED
        BY <4>1, TapcfgAssumption DEF Whole, Kept, Frame
    <3>3. Queue' = Tail(Queue)
      BY <1>1, <1>2, <2>2 DEF Queue, Interface
    <3>4. Held' = buffer' \o Tail(Queue)
      BY <1>1, <3>3 DEF Held
    <3> QED
      BY <2>2, <3>1, <3>2, <3>4
  <2> QED
    BY <2>1, <2>2 DEF Read
<1>4. Head(Held) \in Frame /\ Tail(Held) \in Seq(Frame)
  BY <1>1, <1>3
<1>5. CASE size < Head(Held).len
  <2>1. buffer' = <<Head(Held)>> /\ taken' = taken
    BY <1>3, <1>5 DEF Delivered
  <2>2. Held' = Held
    <3>1. Held' = <<Head(Held)>> \o Tail(Held)
      BY <1>3, <2>1
    <3>2. Held = <<Head(Held)>> \o Tail(Held)
      BY <1>1, <1>3
    <3> QED
      BY <3>1, <3>2
  <2> QED
    BY <1>1, <2>1, <2>2 DEF D!deviceVars, Held
<1>6. CASE ~(size < Head(Held).len)
  <2>1. buffer' = <<>> /\ taken' = Append(taken, Head(Held))
    BY <1>3, <1>6 DEF Delivered
  <2>2. Held' = Tail(Held)
    BY <1>3, <1>4, <2>1
  <2>3. /\ Numbers(Held) # <<>> /\ Numbers(Held') = Tail(Numbers(Held))
        /\ Numbers(taken') = Append(Numbers(taken), Head(Numbers(Held)))
    <3>1. /\ Numbers(Held) # <<>> /\ Head(Numbers(Held)) = Head(Held).n
          /\ Numbers(Tail(Held)) = Tail(Numbers(Held))
      BY <1>1, <1>3, NumbersSeq
    <3>2. Numbers(Append(taken, Head(Held))) = Append(Numbers(taken), Head(Held).n)
      BY <1>1, <1>4, NumbersSeq
    <3> QED
      BY <2>1, <2>2, <3>1, <3>2
  <2>4. D!HandOut
    BY <1>1, <2>3 DEF D!HandOut, Held
  <2> QED
    BY <2>4 DEF D!DeviceNext
<1> QED
  BY <1>5, <1>6

LEMMA DArrive ==
    ASSUME FInv, NEW d \in Names, NEW len \in Lens, Arrive(d, len)
    PROVE  [D!DeviceNext]_(D!deviceVars)
<1> DEFINE f == [n |-> Len(arrived'), len |-> len]
<1>1. /\ UNCHANGED <<started, ifname, buffer, taken>>
      /\ arrived' = Append(arrived, len)
      /\ dev' = [dev EXCEPT ![d].queue = Append(@, f)]
  BY DEF Arrive, handle
<1>2. /\ dev \in [Names -> Interface] /\ arrived \in Seq(Lens) /\ len \in Nat
      /\ Len(arrived') = Len(arrived) + 1 /\ f \in Frame
  BY <1>1, TapcfgAssumption DEF FInv, HInv, TypeOK, Frame
<1>3. f.n = Len(arrived')
  OBVIOUS
<1> HIDE DEF f
<1>4. CASE started /\ d = ifname
  <2>1. Queue' = Append(Queue, f)
    BY <1>1, <1>2, <1>4 DEF Queue, Interface
  <2>2. Held' = Append(Held, f) /\ Held \in Seq(Frame)
    BY <1>1, <1>2, <1>4, <2>1, HeldTypes DEF Held
  <2>3. Numbers(Held') = Append(Numbers(Held), Len(arrived'))
    BY <1>2, <1>3, <2>2, NumbersSeq
  <2>4. D!Arrive
    BY <1>1, <1>2, <1>4, <2>3 DEF D!Arrive, Held
  <2> QED
    BY <2>4 DEF D!DeviceNext
<1>5. CASE ~(started /\ d = ifname)
  <2>1. started => Queue' = Queue
    BY <1>1, <1>2, <1>5, HeldTypes DEF Queue
  <2>2. Held' = Held
    BY <1>1, <2>1 DEF Held
  <2>3. D!Miss
    BY <1>1, <1>2, <2>2 DEF D!Miss, Held
  <2> QED
    BY <2>3 DEF D!DeviceNext
<1> QED
  BY <1>4, <1>5

\* The steps that leave the frames held alone, or forget them with the handle.
LEMMA DQuiet ==
    ASSUME FInv,
           \/ StartAgain \/ StartFails \/ Reinit \/ WaitReadable \/ NoEffect
           \/ AppOpen \/ \E fd \in 0 .. MaxFd : AppClose(fd)
           \/ UNCHANGED vars
    PROVE  [D!DeviceNext]_(D!deviceVars)
<1>1. UNCHANGED <<dev, arrived, taken>>
  BY DEF StartAgain, StartFails, Reinit, WaitReadable, NoEffect, AppOpen, AppClose,
         kernel, vars
<1>2. CASE UNCHANGED <<handle, buffer>>
  BY <1>1, <1>2 DEF D!deviceVars, Held, Queue, handle
<1>3. CASE StartFails
  BY <1>1, <1>3 DEF D!deviceVars, Held, StartFails
<1>4. CASE Reinit
  <2>1. started = FALSE /\ started' = FALSE /\ buffer' = <<>>
    BY <1>4 DEF Reinit, Fresh, FInv, HInv, DestroyedStopped, TypeOK
  <2>2. Numbers(Held') = <<>>
    BY <2>1, NumbersEmpty DEF Held
  <2>3. D!Forget
    BY <1>1, <2>1, <2>2 DEF D!Forget, Held
  <2> QED
    BY <2>3 DEF D!DeviceNext
<1> QED
  BY <1>2, <1>3, <1>4
     DEF StartAgain, WaitReadable, NoEffect, AppOpen, AppClose, vars

LEMMA DSet ==
    ASSUME FInv,
           \/ \E mac \in Macs : SetHwaddr(mac)
           \/ \E flags \in Flags : SetStatus(flags)
           \/ \E mtu \in Mtus : SetMtu(mtu)
    PROVE  [D!DeviceNext]_(D!deviceVars)
<1>1. /\ UNCHANGED <<started, ifname, buffer, arrived, taken>> /\ started
      /\ dev \in [Names -> Interface] /\ ifname \in Names
  BY HeldTypes DEF SetHwaddr, SetStatus, SetMtu, handle, FInv, HInv, TypeOK
<1>2. Queue' = Queue
  BY <1>1 DEF SetHwaddr, SetStatus, SetMtu, Queue, Interface
<1>3. Held' = Held
  BY <1>1, <1>2 DEF Held
<1> QED
  BY <1>1, <1>3 DEF D!deviceVars, Held

\* The library implements TapDevice: every call and every arrival is a step of the
\* abstract device or none, so reads hand out the frames of the interface in
\* order, each once and none lost, through short reads, stops and restarts.
THEOREM DeviceImplemented == Spec => ImplementsDevice
<1>1. Init => D!DeviceInit
  <2> SUFFICES ASSUME Init PROVE D!DeviceInit
    OBVIOUS
  <2>1. Held = <<>> /\ taken = <<>> /\ arrived = <<>> /\ ~started /\ started \in BOOLEAN
    BY DEF Init, Held
  <2> QED
    BY <2>1, NumbersEmpty DEF D!DeviceInit, Held
<1>2. FInv /\ [Next]_vars => [D!DeviceNext]_(D!deviceVars)
  <2> SUFFICES ASSUME FInv, [Next]_vars PROVE [D!DeviceNext]_(D!deviceVars)
    OBVIOUS
  <2>1. CASE UNCHANGED vars
    BY <2>1, DQuiet
  <2>2. CASE Calls
    BY <2>2, DStart, DStop, DRead, DSet, DQuiet DEF Calls
  <2>3. CASE World
    BY <2>3, DQuiet, DArrive DEF World
  <2> QED
    BY <2>1, <2>2, <2>3 DEF Next
<1> QED
  BY <1>1, <1>2, FramesInductive, PTL DEF Spec, ImplementsDevice, D!DeviceSpec
=============================================================================
