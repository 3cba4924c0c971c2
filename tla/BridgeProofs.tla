---------------------------- MODULE BridgeProofs ----------------------------
(***************************************************************************)
(* Proofs about Bridge: the transmit buffer never overflows and no mbuf is *)
(* freed twice or kept, for every burst size, group size, pool and number  *)
(* of deaths.                                                              *)
(***************************************************************************)
EXTENDS Bridge, TLAPS

\* The part of the state that buffers and mbufs depend on.  The counters and
\* the history are left out: the argument does not need them.
BufferTypes ==
    /\ mbuf_tx \in Seq(Nat)
    /\ return_value \in 0 .. Len(mbuf_tx)
    /\ burst \in Seq(Nat)
    /\ ready \in 0 .. Len(burst)
    /\ arrived \in 0 .. MaxPackets
    /\ pool \in Nat
    /\ nic \in Nat
    /\ crashes \in 0 .. MaxCrashes
    /\ back \in {"rx", "filter"}

\* Where the loop is when it holds packets: bridge_send_burst starts with
\* nothing dealt with; a burst is at hand only while it is looked at; a burst of
\* which a packet has just filled the transmit buffer is not complete any more.
LoopInv ==
    /\ return_value # 0 => Sending
    /\ Len(burst) <= MAX_PKT_BURST
    /\ pc \in {"top", "rx", "dead"} => Len(burst) = 0
    /\ pc = "send" \/ Sending =>
          Len(burst) <= (IF back = "rx" THEN 0 ELSE MAX_PKT_BURST - 1)
    /\ pc = "match" => ready > 0

BridgeInv == BufferTypes /\ BufferBounded /\ LoopInv /\ MbufsAccounted

-----------------------------------------------------------------------------
\* What rte_eth_rx_burst returns fits into the burst, the pool and the bound.
LEMMA MinOfThree ==
    ASSUME NEW a \in Nat, NEW b \in Nat, NEW c \in Nat
    PROVE  LET m == Min({a, b, c})
           IN  m \in Nat /\ m <= a /\ m <= b /\ m <= c
  <1> DEFINE S == {a, b, c}
  <1>1. \E x \in S : \A y \in S : x <= y
    OBVIOUS
  <1>2. Min(S) \in S /\ \A y \in S : Min(S) <= y
    BY <1>1 DEF Min
  <1> QED
    BY <1>2

\* One more death, one more allowance.
LEMMA OneMore ==
    ASSUME NEW c \in Nat, NEW k \in Nat
    PROVE  (c + 1) * k = c * k + k /\ c * k \in Nat
  OBVIOUS

\* The loop starts with nothing at hand.
LEMMA InitBridge == Init => BridgeInv
  <1> SUFFICES ASSUME Init PROVE BridgeInv
    OBVIOUS
  <1>1. BufferTypes
    BY BridgeAssumption DEF Init, BufferTypes
  <1>2. BufferBounded
    BY BridgeAssumption DEF Init, BufferBounded
  <1>3. LoopInv
    BY BridgeAssumption DEF Init, LoopInv, Sending
  <1>4. MbufsAccounted
    BY BridgeAssumption, OneMore DEF Init, MbufsAccounted
  <1> QED
    BY <1>1, <1>2, <1>3, <1>4 DEF BridgeInv

\* The steps of bridge_send_burst and the top of the loop.
LEMMA SendingBridge ==
    ASSUME BridgeInv,
           LoopTop \/ SendBurst \/ CountSent \/ CountRefused \/ FreeRefused
             \/ SendReturns
    PROVE  BridgeInv'
  <1> DEFINE K == 2 * MAX_PKT_BURST - 1
  <1>0. K \in Nat /\ crashes * K \in Nat /\ MAX_PKT_BURST \in Nat \ {0}
    BY BridgeAssumption, OneMore DEF BridgeInv, BufferTypes
  <1> USE BridgeAssumption DEF BridgeInv, BufferTypes
  <1>1. CASE LoopTop
    <2> USE <1>1 DEF LoopTop
    <2>1. BufferTypes'
      OBVIOUS
    <2>2. BufferBounded'
      BY DEF BufferBounded, Sending
    <2>3. LoopInv'
      BY <1>0 DEF LoopInv, Sending
    <2>4. MbufsAccounted'
      BY DEF MbufsAccounted, history
    <2> QED
      BY <2>1, <2>2, <2>3, <2>4
  <1>2. CASE SendBurst
    <2> USE <1>2 DEF SendBurst
    <2>0. PICK k \in 0 .. Len(mbuf_tx) : return_value' = k /\ nic' = nic + k
      OBVIOUS
    <2>1. BufferTypes'
      BY <2>0
    <2>2. BufferBounded'
      BY DEF BufferBounded, Sending
    <2>3. LoopInv'
      BY <1>0, <2>0 DEF LoopInv, Sending
    <2>4. return_value = 0
      BY DEF LoopInv, Sending
    <2>5. MbufsAccounted'
      BY <1>0, <2>0, <2>4 DEF MbufsAccounted
    <2> QED
      BY <2>1, <2>2, <2>3, <2>5
  <1>3. CASE CountSent \/ CountRefused
    <2> USE <1>3 DEF CountSent, CountRefused
    <2>1. BufferTypes'
      OBVIOUS
    <2>2. BufferBounded'
      BY DEF BufferBounded, Sending
    <2>3. LoopInv'
      BY <1>0 DEF LoopInv, Sending
    <2>4. MbufsAccounted'
      BY DEF MbufsAccounted
    <2> QED
      BY <2>1, <2>2, <2>3, <2>4
  <1>4. CASE FreeRefused
    <2>0. /\ pc = "free" /\ return_value < Len(mbuf_tx)
          /\ pool' = pool + 1 /\ return_value' = return_value + 1
          /\ UNCHANGED <<pc, back, mbuf_tx, burst, ready, arrived, nic, crashes>>
      BY <1>4 DEF FreeRefused
    <2>1. BufferTypes'
      BY <2>0
    <2>2. BufferBounded'
      BY <2>0 DEF BufferBounded, Sending
    <2>3. LoopInv'
      BY <1>0, <2>0 DEF LoopInv, Sending
    <2>4. MbufsAccounted'
      BY <1>0, <2>0 DEF MbufsAccounted
    <2> QED
      BY <2>1, <2>2, <2>3, <2>4
  <1>5. CASE SendReturns
    <2>0. /\ pc = "free" /\ pc' = back /\ return_value = Len(mbuf_tx)
          /\ mbuf_tx' = <<>> /\ return_value' = 0
          /\ UNCHANGED <<back, burst, ready, arrived, pool, nic, crashes>>
      BY <1>5 DEF SendReturns
    <2>e. mbuf_tx' \in Seq(Nat) /\ Len(mbuf_tx') = 0
      BY <2>0
    <2>1. BufferTypes'
      BY <2>0, <2>e
    <2>2. BufferBounded'
      BY <1>0, <2>e DEF BufferBounded
    <2>3. LoopInv'
      BY <1>0, <2>0 DEF LoopInv, Sending
    <2>4. MbufsAccounted'
      BY <1>0, <2>0, <2>e DEF MbufsAccounted
    <2> QED
      BY <2>1, <2>2, <2>3, <2>4
  <1> QED
    BY <1>1, <1>2, <1>3, <1>4, <1>5

\* The steps that receive a burst, cut it up and filter its packets.
LEMMA FilteringBridge ==
    ASSUME BridgeInv,
           RxBurst \/ CountReceived \/ NextGroup \/ GroupDone \/ FilterMatch
             \/ FilterFree \/ FilterForward
    PROVE  BridgeInv'
  <1> DEFINE K == 2 * MAX_PKT_BURST - 1
  <1>0. K \in Nat /\ crashes * K \in Nat /\ MAX_PKT_BURST \in Nat \ {0}
    BY BridgeAssumption, OneMore DEF BridgeInv, BufferTypes
  <1> USE BridgeAssumption DEF BridgeInv, BufferTypes
  <1>1. CASE RxBurst
    <2> USE <1>1 DEF RxBurst
    <2>0. PICK n \in 0 .. Min({MAX_PKT_BURST, pool, MaxPackets - arrived}) :
             /\ burst' = [i \in 1 .. n |-> arrived + i]
             /\ arrived' = arrived + n
             /\ pool' = pool - n
             /\ pc' = IF n = 0 THEN "top" ELSE "received"
      OBVIOUS
    <2>m. MaxPackets - arrived \in Nat
      OBVIOUS
    <2> DEFINE m == Min({MAX_PKT_BURST, pool, MaxPackets - arrived})
    <2>n. /\ m \in Nat /\ m <= MAX_PKT_BURST /\ m <= pool
          /\ m <= MaxPackets - arrived
      BY <1>0, <2>m, MinOfThree
    <2>1. n \in Nat /\ n <= MAX_PKT_BURST /\ n <= pool /\ n <= MaxPackets - arrived
      <3> HIDE DEF m
      <3> QED
        BY <1>0, <2>0, <2>n DEF m
    <2>2. burst' \in Seq(Nat) /\ Len(burst') = n
      BY <2>0, <2>1
    <2>3. Len(burst) = 0 /\ ready = 0
      BY DEF LoopInv
    <2>4. BufferTypes'
      BY <2>0, <2>1, <2>2, <2>3
    <2>5. BufferBounded'
      BY <2>0 DEF BufferBounded, Sending
    <2>6. LoopInv'
      BY <1>0, <2>0, <2>1, <2>2 DEF LoopInv, Sending
    <2>7. MbufsAccounted'
      BY <1>0, <2>0, <2>1, <2>2, <2>3 DEF MbufsAccounted
    <2> QED
      BY <2>4, <2>5, <2>6, <2>7
  <1>2. CASE CountReceived
    <2> USE <1>2 DEF CountReceived
    <2>1. BufferTypes'
      OBVIOUS
    <2>2. BufferBounded'
      BY DEF BufferBounded, Sending
    <2>3. LoopInv'
      BY <1>0 DEF LoopInv, Sending
    <2>4. MbufsAccounted'
      BY DEF MbufsAccounted
    <2> QED
      BY <2>1, <2>2, <2>3, <2>4
  <1>3. CASE NextGroup
    <2> USE <1>3 DEF NextGroup
    <2>1. BufferTypes'
      <3>1. CASE burst = <<>>
        BY <3>1
      <3>2. CASE burst # <<>>
        <4>1. ready' = IF Len(burst) >= Group THEN Group ELSE 1
          BY <3>2
        <4>2. Len(burst) >= 1
          BY <3>2
        <4> QED
          BY <4>1, <4>2
      <3> QED
        BY <3>1, <3>2
    <2>2. pc' \in {"top", "filter"} /\ (pc' = "top" => burst = <<>>)
      OBVIOUS
    <2>3. BufferBounded'
      BY <2>2 DEF BufferBounded, Sending
    <2>4. LoopInv'
      BY <1>0, <2>2 DEF LoopInv, Sending
    <2>5. MbufsAccounted'
      BY DEF MbufsAccounted
    <2> QED
      BY <2>1, <2>3, <2>4, <2>5
  <1>4. CASE GroupDone \/ FilterMatch
    <2> USE <1>4 DEF GroupDone, FilterMatch
    <2>1. BufferTypes'
      OBVIOUS
    <2>2. BufferBounded'
      BY DEF BufferBounded, Sending
    <2>3. LoopInv'
      BY <1>0 DEF LoopInv, Sending
    <2>4. MbufsAccounted'
      BY DEF MbufsAccounted
    <2> QED
      BY <2>1, <2>2, <2>3, <2>4
  <1>5. CASE FilterFree
    <2>e. /\ pc = "match" /\ pc' = "filter" /\ burst' = Tail(burst)
          /\ pool' = pool + 1 /\ ready' = ready - 1
          /\ UNCHANGED <<back, mbuf_tx, return_value, arrived, nic, crashes>>
      BY <1>5 DEF FilterFree
    <2>0. ready > 0 /\ Len(burst) >= 1 /\ burst # <<>>
      BY <2>e DEF LoopInv
    <2>1. burst' \in Seq(Nat) /\ Len(burst') = Len(burst) - 1
      BY <2>e, <2>0
    <2>2. BufferTypes'
      BY <2>0, <2>1, <2>e
    <2>3. BufferBounded'
      BY <2>e DEF BufferBounded, Sending
    <2>4. LoopInv'
      BY <1>0, <2>0, <2>1, <2>e DEF LoopInv, Sending
    <2>5. MbufsAccounted'
      BY <1>0, <2>1, <2>e DEF MbufsAccounted
    <2> QED
      BY <2>2, <2>3, <2>4, <2>5
  <1>6. CASE FilterForward
    <2> USE <1>6 DEF FilterForward
    <2>0. Len(burst) >= 1 /\ burst # <<>> /\ Head(burst) \in Nat
      OBVIOUS
    <2>1. burst' \in Seq(Nat) /\ Len(burst') = Len(burst) - 1
      BY <2>0
    <2>2. mbuf_tx' \in Seq(Nat) /\ Len(mbuf_tx') = Len(mbuf_tx) + 1
      BY <2>0
    <2>3. IF Len(mbuf_tx') = MAX_PKT_BURST
          THEN pc' = "send" /\ back' = "filter"
          ELSE pc' = "filter" /\ back' = back
      OBVIOUS
    <2>4. Len(mbuf_tx) < MAX_PKT_BURST
      BY DEF BufferBounded, Sending
    <2>5. BufferTypes'
      BY <2>0, <2>1, <2>2, <2>3
    <2>6. BufferBounded'
      BY <1>0, <2>2, <2>3, <2>4 DEF BufferBounded, Sending
    <2>7. LoopInv'
      BY <1>0, <2>0, <2>1, <2>3 DEF LoopInv, Sending
    <2>8. MbufsAccounted'
      BY <1>0, <2>1, <2>2 DEF MbufsAccounted
    <2> QED
      BY <2>5, <2>6, <2>7, <2>8
  <1> QED
    BY <1>1, <1>2, <1>3, <1>4, <1>5, <1>6

\* The device, the death of the slave and its restart.
LEMMA EnvironmentBridge ==
    ASSUME BridgeInv, NicDone \/ SlaveCrash \/ SlaveRestart
    PROVE  BridgeInv'
  <1> DEFINE K == 2 * MAX_PKT_BURST - 1
  <1>0. K \in Nat /\ crashes * K \in Nat /\ MAX_PKT_BURST \in Nat \ {0}
    BY BridgeAssumption, OneMore DEF BridgeInv, BufferTypes
  <1> USE BridgeAssumption DEF BridgeInv, BufferTypes
  <1>1. CASE NicDone
    <2> USE <1>1 DEF NicDone, slaveVars
    <2>1. BufferTypes'
      OBVIOUS
    <2>2. BufferBounded'
      BY DEF BufferBounded, Sending
    <2>3. LoopInv'
      BY DEF LoopInv, Sending
    <2>4. MbufsAccounted'
      BY <1>0 DEF MbufsAccounted
    <2> QED
      BY <2>1, <2>2, <2>3, <2>4
  <1>2. CASE SlaveCrash
    <2> USE <1>2 DEF SlaveCrash
    <2>1. BufferTypes'
      OBVIOUS
    <2>2. BufferBounded'
      BY <1>0 DEF BufferBounded, Sending
    <2>3. LoopInv'
      BY <1>0 DEF LoopInv, Sending
    <2>4. Len(burst) + (Len(mbuf_tx) - return_value) <= K
      BY <1>0 DEF LoopInv, BufferBounded
    <2>5. crashes' * K = crashes * K + K
      BY <1>0, OneMore
    <2>6. MbufsAccounted'
      BY <1>0, <2>4, <2>5 DEF MbufsAccounted
    <2> QED
      BY <2>1, <2>2, <2>3, <2>6
  <1>3. CASE SlaveRestart
    <2> USE <1>3 DEF SlaveRestart
    <2>1. BufferTypes'
      OBVIOUS
    <2>2. BufferBounded'
      BY DEF BufferBounded, Sending
    <2>3. LoopInv'
      BY DEF LoopInv, Sending
    <2>4. MbufsAccounted'
      BY DEF MbufsAccounted
    <2> QED
      BY <2>1, <2>2, <2>3, <2>4
  <1> QED
    BY <1>1, <1>2, <1>3

-----------------------------------------------------------------------------
\* BridgeInv is inductive: it holds when the loop starts, and no step of the
\* slave, of the device or of the environment breaks it.
THEOREM BridgeInductive == Spec => []BridgeInv
  <1>1. BridgeInv /\ [Next]_vars => BridgeInv'
    <2> SUFFICES ASSUME BridgeInv, [Next]_vars PROVE BridgeInv'
      OBVIOUS
    <2>1. CASE SlaveStep
      BY <2>1, SendingBridge, FilteringBridge DEF SlaveStep
    <2>2. CASE NicDone \/ SlaveCrash \/ SlaveRestart
      BY <2>2, EnvironmentBridge
    <2>3. CASE UNCHANGED vars
      BY <2>3 DEF vars, BridgeInv, BufferTypes, BufferBounded, LoopInv,
                  MbufsAccounted, Sending
    <2> QED
      BY <2>1, <2>2, <2>3 DEF Next
  <1> QED
    BY InitBridge, <1>1, PTL DEF Spec

\* bridge_add_packet never writes past the end of mbuf_tx, and has room whenever
\* it is called.
THEOREM BufferNeverOverflows == Spec => []BufferBounded
  <1>1. BridgeInv => BufferBounded
    BY DEF BridgeInv
  <1> QED
    BY BridgeInductive, <1>1, PTL

\* No mbuf is freed twice, and a death costs at most a burst and a transmit
\* buffer that is not full.
THEOREM MbufsAreAccounted == Spec => []MbufsAccounted
  <1>1. BridgeInv => MbufsAccounted
    BY DEF BridgeInv
  <1> QED
    BY BridgeInductive, <1>1, PTL

=============================================================================
