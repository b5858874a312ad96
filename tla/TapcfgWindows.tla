---------------------------- MODULE TapcfgWindows ----------------------------
(***************************************************************************)
(* The library of tapcfg_windows.c: a tapcfg_t, the adapter the registry   *)
(* names for it (tapcfg_windows_fixup.h), and the driver (WinTapMasq).     *)
(* One caller makes the calls; between them the network stack sends, the   *)
(* driver answers, the reading thread may exit, and another program may    *)
(* use the device.                                                         *)
(*                                                                         *)
(* Abstractions.  tapcfg_read that waits for a frame is a wait that timed  *)
(* out and a read made later.  Names are compared without regard to case.  *)
(* The registry may list a second adapter, whose device cannot be opened.  *)
(* The calls that look at the handle or always fail (get_fd, get_hwaddr,   *)
(* set_hwaddr, set_mtu) and those that only ask the driver (get_mtu) are   *)
(* left out.                                                               *)
(***************************************************************************)
EXTENDS WinTapMasq

CONSTANTS
  Registries,  \* registries: [taps, panel], the keys in order
  Guid,        \* the adapter of the driver
  Names,       \* names given to tapcfg_start
  NoName,      \* NULL
  Flags,       \* values given to set_status
  Ipv4s        \* arguments of set_ipv4: [addr, netbits]

\* Strings are what the registry holds and what names an adapter; Nothing names
\* none. A stopped handle has status 0, TAPCFG_STATUS_ALL_DOWN.
ASSUME LibraryAssumption ==
  /\ Registries \subseteq [taps : Seq([guid : STRING, readable : BOOLEAN, tap : BOOLEAN]),
                          panel : Seq([name : STRING, guid : STRING, readable : BOOLEAN])]
  /\ NoName \in STRING /\ Guid # NoName
  /\ Flags \subseteq Nat /\ 0 \in Flags
  /\ \A i \in Ipv4s : i.addr \in Addrs

VARIABLES
  registry,
  alive,       \* the handle was inited and not destroyed
  started, dev_handle, ifname, status, reading, inbuf,  \* fields of tapcfg_t
  again,       \* tapcfg_start was called since the handle is started
  taken        \* the frames that reads returned

handleVars == <<registry, alive, started, dev_handle, ifname, status, again>>
vars == <<tapVars, handleVars, reading, inbuf, taken>>

-----------------------------------------------------------------------------
(* The registry: which adapter a name stands for.                          *)

\* The places of the TAP adapters among the network adapters: keys that can be
\* opened and whose component is tapXXXX.
get_tap_reg(r) == {i \in DOMAIN r.taps : r.taps[i].readable /\ r.taps[i].tap}

\* Those of the connections of the control panel whose key and name can be read.
get_panel_reg(r) == {j \in DOMAIN r.panel : r.panel[j].readable}

Links(r, i) == {j \in get_panel_reg(r) : r.panel[j].guid = r.taps[i].guid}

\* One link, and no other adapter with this GUID.
ValidAdapter(r, i) ==
  /\ \E j \in DOMAIN r.panel : Links(r, i) = {j}
  /\ \A k \in get_tap_reg(r) : k # i => r.taps[k].guid # r.taps[i].guid

\* The pairs of an adapter and a link of it, which are met in this order.
Seen(r) == UNION {{<<i, j>> : j \in Links(r, i)} : i \in get_tap_reg(r)}
Until(p, q) == p[1] < q[1] \/ (p[1] = q[1] /\ p[2] <= q[2])
LastOf(seen) == CHOOSE p \in seen : \A q \in seen : Until(q, p)

Nothing == [name |-> NoName, guid |-> NoName]

\* The link with the name, if it is the only one; without one the last that was
\* seen, if exactly one adapter is valid, which need not be that one.
tapcfg_fixup_adapters(r, name, fallback) ==
  LET seen == Seen(r)
      named == {p \in seen : r.panel[p[2]].name = name}
      valid == {i \in get_tap_reg(r) : ValidAdapter(r, i)}
      Chosen(p) == [name |-> r.panel[p[2]].name, guid |-> r.panel[p[2]].guid]
  IN IF valid # {} /\ \E p \in named : named = {p}
       THEN Chosen(CHOOSE p \in named : TRUE)
     ELSE IF fallback /\ named = {} /\ (\E i \in valid : valid = {i}) /\ seen # {}
       THEN Chosen(LastOf(seen))
     ELSE Nothing

-----------------------------------------------------------------------------
(* The calls.                                                              *)

Frames == 1 .. MaxFrames

TypeOK ==
  /\ TapTypeOK
  /\ registry \in Registries /\ alive \in BOOLEAN
  /\ started \in BOOLEAN /\ dev_handle \in BOOLEAN /\ reading \in BOOLEAN
  /\ ifname \in STRING /\ status \in Flags /\ again \in BOOLEAN
  /\ inbuf \in Seq(Frames) /\ Len(inbuf) <= 1
  /\ taken \in Seq(Frames)

Init ==
  /\ TapInit /\ registry \in Registries
  /\ alive = TRUE /\ started = FALSE /\ dev_handle = FALSE
  /\ ifname = NoName /\ status = 0 /\ reading = FALSE /\ inbuf = <<>>
  /\ again = FALSE /\ taken = <<>>

\* CreateFile does not share the device, and the driver opens it once.
Opens(adapter) == adapter.guid = Guid /\ opener = "none"

Started ==
  /\ started' = TRUE /\ dev_handle' = TRUE /\ status' = 0
  /\ Create("lib") /\ UNCHANGED <<irp, again>>

\* No adapter, no device, or one that does not answer, or is too old, and is
\* closed again.
NotStarted ==
  /\ again' = started
  /\ UNCHANGED <<started, dev_handle, status>>
  /\ heard' = Silence
  /\ UNCHANGED <<opener, always, media, tun, dhcp, packets, injects, irp, count, log>>

\* started is not tested: a second start replaces the name.
tapcfg_start(name, fallback) ==
  /\ alive
  /\ LET adapter == tapcfg_fixup_adapters(registry, name, fallback) IN
       /\ ifname' = adapter.name
       /\ \/ Opens(adapter) /\ Started
          \/ NotStarted
  /\ UNCHANGED <<registry, alive, reading, inbuf, taken>>

CloseHandle ==
  IF Waiting THEN UNCHANGED <<opener, always, media, tun, dhcp, packets, injects,
                              count, log>> /\ heard' = Silence
  ELSE Close

\* The close that had to wait for the read.  The read is completed in the context
\* of the thread that issued it, and so is the close, before its next call.
CloseDue == opener = "lib" /\ ~dev_handle /\ ~Waiting
LateClose ==
  /\ CloseDue
  /\ Close /\ UNCHANGED <<irp, handleVars, reading, inbuf, taken>>

\* The body of tapcfg_stop; reading and inbuf are left.
StopHandle ==
  IF started
  THEN /\ CloseHandle
       /\ started' = FALSE /\ dev_handle' = FALSE /\ status' = 0 /\ again' = FALSE
  ELSE /\ heard' = Silence
       /\ UNCHANGED <<opener, always, media, tun, dhcp, packets, injects, count, log>>
       /\ UNCHANGED <<started, dev_handle, status, again>>

tapcfg_stop ==
  /\ alive /\ StopHandle
  /\ UNCHANGED <<irp, registry, alive, ifname, reading, inbuf, taken>>

\* The OVERLAPPED and the buffer are freed, whether a read waits or not.
tapcfg_destroy ==
  /\ alive /\ StopHandle
  /\ alive' = FALSE /\ ifname' = NoName /\ reading' = FALSE /\ inbuf' = <<>>
  /\ irp' = IF Waiting THEN [irp EXCEPT !.state = "orphan"] ELSE NoRead
  /\ UNCHANGED <<registry, taken>>

tapcfg_init ==
  /\ ~alive /\ alive' = TRUE /\ heard' = Silence
  /\ UNCHANGED <<opener, always, media, tun, dhcp, packets, injects, irp, count, log,
                 registry, started, dev_handle, ifname, status, reading, inbuf, again,
                 taken>>

\* ReadFile: a frame, nothing yet, or an error.
ReadFile ==
  \/ ReadPops /\ inbuf' = <<Head(packets)>> /\ UNCHANGED <<irp, reading>>
  \/ ReadPends /\ reading' = TRUE /\ UNCHANGED <<packets, inbuf>>
  \/ UNCHANGED <<irp, packets, reading, inbuf>>

\* Slip: an error of GetOverlappedResult leaves the read marked as going on.
Slip_Collect ==
  /\ irp.state \in {"done", "cancelled"} /\ irp' = NoRead
  /\ reading' = (irp.state = "cancelled")
  /\ inbuf' = IF irp.state = "done" THEN <<irp.n>> ELSE <<>>
  /\ UNCHANGED packets

\* GetOverlappedResult, after the event was signalled.
Collect ==
  /\ irp.state \in {"done", "cancelled"} /\ irp' = NoRead
  /\ reading' = FALSE
  /\ inbuf' = IF irp.state = "done" THEN <<irp.n>> ELSE <<>>
  /\ UNCHANGED packets

\* The wait of tapcfg_wait_for_data may time out.
tapcfg_wait_for_data ==
  /\ alive /\ started /\ inbuf = <<>>
  /\ IF reading THEN Collect ELSE ReadFile
  /\ heard' = Silence
  /\ UNCHANGED <<opener, always, media, tun, dhcp, injects, count, log, handleVars, taken>>

\* Too small a buffer leaves the frame for the next call.
tapcfg_read ==
  /\ alive /\ started /\ inbuf # <<>>
  /\ taken' = Append(taken, inbuf[1]) /\ inbuf' = <<>> /\ heard' = Silence
  /\ UNCHANGED <<opener, always, media, tun, dhcp, packets, injects, irp, count, log,
                 handleVars, reading>>

tapcfg_write(short) ==
  alive /\ started /\ Write(4, short) /\ UNCHANGED <<handleVars, reading, inbuf, taken>>

\* Slip: the status is what the driver was told last, whether it listened or not.
Slip_SetStatus(flags) ==
  /\ alive /\ started /\ flags # status
  /\ SetMediaStatus(flags)
  /\ UNCHANGED <<handleVars, reading, inbuf, taken>>

tapcfg_iface_set_status(flags) ==
  /\ alive /\ started /\ flags # status
  /\ SetMediaStatus(flags) /\ status' = flags
  /\ UNCHANGED <<registry, alive, started, dev_handle, ifname, again, reading, inbuf, taken>>

\* The DHCP server is the last host of the subnet.
ServerOf(addr, netbits) == (Masked(addr, netbits) + 2 ^ (AddrBits - netbits) - 2) % 2 ^ AddrBits

tapcfg_iface_set_ipv4(addr, netbits) ==
  /\ alive /\ started /\ netbits \in 1 .. AddrBits
  /\ addr \notin {0, 2 ^ AddrBits - 1}
  /\ ConfigDhcpMasq(addr, ServerOf(addr, netbits))
  /\ UNCHANGED <<handleVars, reading, inbuf, taken>>

tapcfg_iface_set_dhcp_options(size) ==
  /\ alive /\ started /\ ConfigDhcpSetOpt(size)
  /\ UNCHANGED <<handleVars, reading, inbuf, taken>>

Calls ==
  \/ tapcfg_init \/ tapcfg_destroy \/ tapcfg_stop
  \/ \E name \in Names, fallback \in BOOLEAN : tapcfg_start(name, fallback)
  \/ tapcfg_wait_for_data \/ tapcfg_read
  \/ \E short \in BOOLEAN : tapcfg_write(short)
  \/ \E flags \in Flags : tapcfg_iface_set_status(flags)
  \/ \E i \in Ipv4s : tapcfg_iface_set_ipv4(i.addr, i.netbits)
  \/ \E size \in OptionSizes : tapcfg_iface_set_dhcp_options(size)

World ==
  /\ \/ \E p \in Packets : AdapterTransmit(p)
     \/ InjectPacketDpc \/ Cancel
     \/ OtherOpens \/ OtherCloses \/ OtherConfigures \/ OtherWrites
  /\ UNCHANGED <<handleVars, reading, inbuf, taken>>

Next == (~CloseDue /\ Calls) \/ LateClose \/ World

Spec == Init /\ [][Next]_vars

-----------------------------------------------------------------------------
(* Properties.                                                             *)

\* What the library believes of its device is so: a started handle is the one
\* the driver has open, the media state is the status it remembers (of which
\* the driver takes one byte), and the name is that of the adapter, unless
\* tapcfg_start was called once more on the started handle.
HandleCoherent ==
  /\ dev_handle <=> started
  /\ started => /\ opener = "lib"
                /\ ~always => media = status % 256
                /\ ~again => \E i \in DOMAIN registry.panel :
                               /\ registry.panel[i].name = ifname
                               /\ registry.panel[i].guid = Guid
  /\ ~started => status = 0

\* A handle marked as reading has a read that waits in the driver or one that
\* is finished and not collected: a read without time limit never waits for a
\* request that nobody will answer, whatever stops, restarts and cancels
\* happened since.
ReadOutstanding ==
  reading <=> irp.state \in {"pending", "done", "cancelled"}

Fetched == inbuf \o (IF irp.state = "done" THEN <<irp.n>> ELSE <<>>)

D == INSTANCE TapDevice WITH
       open <- opener = "lib",
       pending <- IF opener = "lib" THEN Fetched \o packets ELSE Fetched

\* Reads hand out the frames for the program in order, each once, and keep at
\* most the one that was fetched when the device is closed; what came for
\* another program's opening is never seen.  (The device stays open for a read
\* that waits when the handle is stopped.)
ImplementsDevice == D!DeviceSpec
=============================================================================
