----------------------------- MODULE RelayProofs -----------------------------
(***************************************************************************)
(* What the relay promises follows for any clients and any frames.         *)
(***************************************************************************)
EXTENDS Relay, FiniteSetTheorems, TLAPS

\* A weaker typing of the log is all the order needs.
OrderInv ==
    /\ log \in Seq(Frames)
    /\ got \in [Clients -> Seq(Nat)]
    /\ InLogOrder

LEMMA OrderInit ==
    ASSUME RelayInit PROVE OrderInv
<1>1. log \in Seq(Frames) /\ got \in [Clients -> Seq(Nat)]
  BY DEF RelayInit
<1>2. ASSUME NEW c \in Clients PROVE Len(got[c]) = 0
  BY DEF RelayInit
<1>3. QED
  BY <1>1, <1>2 DEF OrderInv, InLogOrder

LEMMA OrderDeliver ==
    ASSUME OrderInv, NEW c \in Clients, Deliver(c) PROVE OrderInv'
<1>1. log' = log /\ Len(log) \in Nat \ {0}
  BY DEF Deliver, OrderInv
<1>2. got' \in [Clients -> Seq(Nat)] /\ got[c] \in Seq(Nat)
  BY <1>1 DEF Deliver, OrderInv
<1>3. /\ Len(got'[c]) = Len(got[c]) + 1
      /\ \A k \in 1 .. Len(got[c]) : got'[c][k] = got[c][k]
      /\ got'[c][Len(got[c]) + 1] = Len(log)
  BY <1>1, <1>2 DEF Deliver, OrderInv
<1>4. \A k \in 1 .. Len(got[c]) : got[c][k] < Len(log) /\ got[c][k] \in Nat
  <2>1. CASE got[c] = <<>>
    BY <2>1
  <2>2. CASE got[c] # <<>>
    <3>1. Len(got[c]) \in Nat \ {0} /\ got[c][Len(got[c])] < Len(log)
      BY <1>2, <2>2 DEF Deliver
    <3>2. SUFFICES ASSUME NEW k \in 1 .. Len(got[c])
                   PROVE  got[c][k] < Len(log) /\ got[c][k] \in Nat
      OBVIOUS
    <3>3. k \in Nat /\ Len(got[c]) \in 1 .. Len(got[c])
      BY <3>1
    <3>4. got[c][k] \in 1 .. Len(log) /\ got[c][Len(got[c])] \in 1 .. Len(log)
      BY <3>3 DEF OrderInv, InLogOrder
    <3>5. k < Len(got[c]) => got[c][k] < got[c][Len(got[c])]
      BY <3>3 DEF OrderInv, InLogOrder
    <3>6. k < Len(got[c]) \/ k = Len(got[c])
      BY <3>1
    <3>7. QED
      BY <1>1, <3>1, <3>4, <3>5, <3>6
  <2>3. QED
    BY <2>1, <2>2
<1>5. ASSUME NEW d \in Clients
      PROVE  /\ \A k \in 1 .. Len(got'[d]) : got'[d][k] \in 1 .. Len(log')
             /\ \A k, l \in 1 .. Len(got'[d]) : k < l => got'[d][k] < got'[d][l]
  <2>1. CASE d = c
    <3>1. Len(got[c]) \in Nat
      BY <1>2
    <3>2. \A k \in 1 .. Len(got'[c]) : got'[c][k] \in 1 .. Len(log')
      BY <1>1, <1>3, <1>4, <3>1, SMTT(60) DEF OrderInv, InLogOrder
    <3>3. ASSUME NEW k \in 1 .. Len(got'[c]), NEW l \in 1 .. Len(got'[c]), k < l
          PROVE  got'[c][k] < got'[c][l]
      <4>1. k \in 1 .. Len(got[c]) /\ got'[c][k] = got[c][k]
        BY <1>3, <3>1, <3>3
      <4>2. CASE l = Len(got[c]) + 1
        BY <1>3, <1>4, <4>1, <4>2
      <4>3. CASE l \in 1 .. Len(got[c])
        <5>1. got'[c][l] = got[c][l]
          BY <1>3, <4>3
        <5>2. QED
          BY <3>3, <4>1, <4>3, <5>1 DEF OrderInv, InLogOrder
      <4>4. QED
        BY <1>3, <3>1, <4>2, <4>3
    <3>4. QED
      BY <2>1, <3>2, <3>3
  <2>2. CASE d # c
    <3>1. got'[d] = got[d]
      BY <2>2 DEF Deliver, OrderInv
    <3>2. QED
      BY <1>1, <3>1 DEF OrderInv, InLogOrder
  <2>3. QED
    BY <2>1, <2>2
<1>6. QED
  BY <1>1, <1>2, <1>5 DEF OrderInv, InLogOrder

LEMMA NextFrameType ==
    ASSUME NEW s \in Sources, NEW len \in Lens, NEW seq \in Seq(Frames)
    PROVE  NextFrame(s, len, seq) \in Frames
<1> DEFINE K == {k \in 1 .. Len(seq) : seq[k].src = s}
<1>1. IsFiniteSet(1 .. Len(seq))
  BY FS_Interval
<1>2. IsFiniteSet(K)
  BY <1>1, FS_Subset
<1>3. FramesOf(s, seq) \in Nat
  BY <1>2, FS_CardinalityType DEF FramesOf
<1>4. QED
  BY <1>3 DEF NextFrame, Frames

LEMMA OrderTake ==
    ASSUME OrderInv, NEW s \in Sources, NEW len \in Lens, Take(s, len) PROVE OrderInv'
<1>1. NextFrame(s, len, log) \in Frames
  BY NextFrameType DEF OrderInv
<1>2. /\ log' \in Seq(Frames) /\ Len(log') = Len(log) + 1 /\ Len(log) \in Nat
      /\ got' = got
  BY <1>1 DEF Take, OrderInv
<1>3. QED
  BY <1>2 DEF OrderInv, InLogOrder

\* A client's frames are positions of the log in strictly increasing order.
THEOREM RelayInOrder == RelaySpec => []InLogOrder
<1>1. RelayInit => OrderInv
  BY OrderInit
<1>2. OrderInv /\ [RelayNext]_relayVars => OrderInv'
  <2> SUFFICES ASSUME OrderInv, [RelayNext]_relayVars
               PROVE  OrderInv'
    OBVIOUS
  <2>1. ASSUME NEW c \in Clients, Deliver(c) PROVE OrderInv'
    BY <2>1, OrderDeliver
  <2>2. ASSUME NEW s \in Sources, NEW len \in Lens, Take(s, len) PROVE OrderInv'
    BY <2>2, OrderTake
  <2>3. CASE UNCHANGED <<log, got>>
    BY <2>3 DEF OrderInv, InLogOrder
  <2>4. QED
    BY <2>1, <2>2, <2>3 DEF RelayNext, relayVars, Join, Leave, Write
<1>3. OrderInv => InLogOrder
  BY DEF OrderInv
<1>4. QED
  BY <1>1, <1>2, <1>3, PTL DEF RelaySpec

\* Any two clients see their common frames in the same order: the frames of
\* one log, whatever each of them missed.
THEOREM RelayTotalOrder == RelaySpec => []TotalOrder
<1>1. OrderInv => TotalOrder
  <2> SUFFICES ASSUME OrderInv, NEW c \in Clients, NEW d \in Clients,
                      NEW i \in 1 .. Len(got[c]), NEW j \in 1 .. Len(got[c]),
                      NEW k \in 1 .. Len(got[d]), NEW l \in 1 .. Len(got[d]),
                      got[c][i] = got[d][k], got[c][j] = got[d][l]
               PROVE  i < j <=> k < l
    BY DEF TotalOrder
  <2>1. /\ got[c][i] \in Nat /\ got[c][j] \in Nat
        /\ i \in Int /\ j \in Int /\ k \in Int /\ l \in Int
    BY SMTT(60) DEF OrderInv
  <2>2. /\ i < j => got[c][i] < got[c][j]
        /\ j < i => got[c][j] < got[c][i]
        /\ k < l => got[d][k] < got[d][l]
        /\ l < k => got[d][l] < got[d][k]
    BY DEF OrderInv, InLogOrder
  <2>3. QED
    BY <2>1, <2>2
<1>2. RelaySpec => []OrderInv
  <2>1. RelayInit => OrderInv
    BY OrderInit
  <2>2. OrderInv /\ [RelayNext]_relayVars => OrderInv'
    BY OrderDeliver, OrderTake
       DEF RelayNext, relayVars, Join, Leave, Write, OrderInv, InLogOrder
  <2>3. QED
    BY <2>1, <2>2, PTL DEF RelaySpec
<1>3. QED
  BY <1>1, <1>2, PTL
=============================================================================
