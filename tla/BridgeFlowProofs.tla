-------------------------- MODULE BridgeFlowProofs --------------------------
(***************************************************************************)
(* Proofs about Bridge: packets leave in the order in which they came, each *)
(* has exactly one fate, and port_statistics tells the fates, in packets   *)
(* and in bytes.  For every burst size, group size, pool, number of        *)
(* packets and deaths.                                                     *)
(***************************************************************************)
EXTENDS BridgeProofs, FiniteSetTheorems

\* The packets that have left packets_burst are 1 .. Past.
Past == arrived - Len(burst)

\* The order of the packets: those of the burst follow each other and all
\* others, those of mbuf_tx are in order and come after the transmitted ones
\* until rte_eth_tx_burst is called.
OrderInv ==
    /\ wire \in Seq(Nat)
    /\ Len(burst) <= arrived
    /\ \A i \in 1 .. Len(burst) : burst[i] = Past + i
    /\ \A i \in 1 .. Len(mbuf_tx) : mbuf_tx[i] \in 1 .. Past
    /\ \A i, j \in 1 .. Len(mbuf_tx) : i < j => mbuf_tx[i] < mbuf_tx[j]
    /\ \A i \in 1 .. Len(wire) : wire[i] \in 1 .. Past
    /\ OrderKept
    /\ ~Sending => \A i \in 1 .. Len(wire), j \in 1 .. Len(mbuf_tx) : wire[i] < mbuf_tx[j]

\* The packets whose fate is no longer that of the burst: a packet that is being
\* filtered counts although it is still the head of the burst.
Settled == IF pc = "match" THEN 1 .. Past + 1 ELSE 1 .. Past

\* The packets in mbuf_tx whose fate is open.
Buffered == IF Sending THEN {} ELSE Range(mbuf_tx)

\* Each packet of S has one fate: on the wire (W), filtered (F), dropped (D),
\* lost (L) or in the buffer (B).
OneFate(S, W, F, D, L, B) ==
    /\ S = W \cup F \cup D \cup L \cup B
    /\ W \cap (F \cup D \cup L \cup B) = {}
    /\ F \cap (D \cup L \cup B) = {}
    /\ D \cap (L \cup B) = {}
    /\ L \cap B = {}

FateInv == OneFate(Settled, Range(wire), filtered, dropped, lost, Buffered)

\* What the next counters of port_statistics will be told.
RxDue == IF pc = "received" THEN Len(burst) ELSE 0
TxDue == IF pc = "sent" THEN return_value ELSE 0
DropDue == IF pc \in {"sent", "refused"} THEN Len(mbuf_tx) - return_value ELSE 0

StatTypes == stats \in [tx : Nat, rx : Nat, filtered : Nat, dropped : Nat,
                        rx_b : Nat, filtered_b : Nat, dropped_b : Nat]

\* What the counters will never be told.
RxMissed == arrived - (stats.rx + RxDue)
TxMissed == Len(wire) - (stats.tx + TxDue)
DropMissed == Cardinality(dropped) - (stats.dropped + DropDue)

\* A burst for each death.
Behind(c) == MAX_PKT_BURST * c

\* The counters are behind by what is due, and by a burst for each death.
CountedInv ==
    /\ stats.filtered = Cardinality(filtered)
    /\ RxMissed \in Nat /\ TxMissed \in Nat /\ DropMissed \in Nat
    /\ RxMissed + TxMissed + DropMissed <= Behind(crashes)

StatInv == StatTypes /\ CountedInv

\* A group is taken up when the one before it is done.
GroupInv == ready <= Group /\ (pc \in {"received", "group"} => ready = 0)

\* The rest of the types.
RestTypes ==
    /\ pc \in {"top", "send", "sent", "refused", "free", "rx", "received",
              "group", "filter", "match", "dead"}
    /\ cur_tsc \in 0 .. MaxTsc
    /\ match \in SUBSET Packets

FlowInv ==
    BridgeInv /\ OrderInv /\ FateInv /\ StatInv /\ BytesBalance /\ GroupInv /\ RestTypes

-----------------------------------------------------------------------------
(* The order.                                                                *)

\* The steps that neither move a packet nor learn of its fate.
LEMMA QuietSteps ==
    ASSUME LoopTop \/ CountSent \/ CountRefused \/ FreeRefused \/ CountReceived
             \/ NextGroup \/ GroupDone \/ NicDone \/ SlaveRestart \/ UNCHANGED vars
    PROVE  /\ UNCHANGED <<mbuf_tx, burst, arrived, wire, filtered, dropped, lost, crashes>>
           /\ Sending' <=> Sending
           /\ pc' = "match" <=> pc = "match"
  <1> USE DEF history, slaveVars, Sending
  <1>1. CASE LoopTop \/ CountSent \/ CountRefused \/ FreeRefused
    BY <1>1 DEF LoopTop, CountSent, CountRefused, FreeRefused
  <1>2. CASE CountReceived \/ NextGroup \/ GroupDone
    BY <1>2 DEF CountReceived, NextGroup, GroupDone
  <1>3. CASE NicDone \/ SlaveRestart \/ UNCHANGED vars
    BY <1>3 DEF NicDone, SlaveRestart, vars
  <1> QED
    BY <1>1, <1>2, <1>3

\* What a received burst is, and what it must fit into.
LEMMA RxBurstStep ==
    ASSUME BridgeInv, RxBurst
    PROVE  \E n \in Nat :
              /\ n <= MAX_PKT_BURST /\ n <= MaxPackets - arrived
              /\ burst' = [i \in 1 .. n |-> arrived + i]
              /\ burst' \in Seq(Nat) /\ Len(burst') = n
              /\ arrived' = arrived + n
              /\ pc' = IF n = 0 THEN "top" ELSE "received"
              /\ Len(burst) = 0
  <1> USE BridgeAssumption DEF BridgeInv, BufferTypes
  <1>1. PICK n \in 0 .. Min({MAX_PKT_BURST, pool, MaxPackets - arrived}) :
             /\ burst' = [i \in 1 .. n |-> arrived + i]
             /\ arrived' = arrived + n
             /\ pc' = IF n = 0 THEN "top" ELSE "received"
    BY DEF RxBurst
  <1> DEFINE m == Min({MAX_PKT_BURST, pool, MaxPackets - arrived})
  <1>2. /\ m \in Nat /\ m <= MAX_PKT_BURST /\ m <= MaxPackets - arrived
    <2>1. MaxPackets - arrived \in Nat
      OBVIOUS
    <2> QED
      BY <2>1, MinOfThree
  <1>3. n \in Nat /\ n <= MAX_PKT_BURST /\ n <= MaxPackets - arrived
    <2> HIDE DEF m
    <2> QED
      BY <1>1, <1>2 DEF m
  <1>4. burst' \in Seq(Nat) /\ Len(burst') = n
    BY <1>1, <1>3
  <1>5. Len(burst) = 0
    BY DEF RxBurst, LoopInv
  <1> QED
    BY <1>1, <1>3, <1>4, <1>5

\* The head of the burst leaves it.
LEMMA HeadLeaves ==
    ASSUME BridgeInv, OrderInv, FilterFree \/ FilterForward
    PROVE  /\ Len(burst) >= 1 /\ Head(burst) = Past + 1
           /\ burst' = Tail(burst) /\ burst' \in Seq(Nat) /\ Len(burst') = Len(burst) - 1
           /\ \A i \in 1 .. Len(burst') : burst'[i] = burst[i + 1]
           /\ arrived' = arrived /\ Past' = Past + 1 /\ Past \in Nat
           /\ ready > 0 /\ ready' = ready - 1
  <1> USE DEF BridgeInv, BufferTypes
  <1>1. Len(burst) >= 1 /\ ready > 0
    BY DEF FilterFree, FilterForward, LoopInv
  <1>2. burst' = Tail(burst) /\ arrived' = arrived /\ ready' = ready - 1
    BY DEF FilterFree, FilterForward
  <1>3. /\ burst' \in Seq(Nat) /\ Len(burst') = Len(burst) - 1
        /\ \A i \in 1 .. Len(burst') : burst'[i] = burst[i + 1]
    BY <1>1, <1>2
  <1>4. Head(burst) = Past + 1
    BY <1>1 DEF OrderInv
  <1>5. Past' = Past + 1 /\ Past \in Nat
    BY <1>2, <1>3 DEF Past, OrderInv
  <1> QED
    BY <1>1, <1>2, <1>3, <1>4, <1>5

\* The packets of a sequence, by their places.
LEMMA RangeByPlace ==
    ASSUME NEW s \in Seq(Nat)
    PROVE  Range(s) = {s[i] : i \in 1 .. Len(s)}
  <1>1. DOMAIN s = 1 .. Len(s)
    OBVIOUS
  <1> QED
    BY <1>1 DEF Range

\* What rte_eth_tx_burst does to the wire.
LEMMA SendBurstStep ==
    ASSUME BridgeInv, OrderInv, SendBurst
    PROVE  \E k \in 0 .. Len(mbuf_tx) :
              /\ return_value' = k
              /\ wire' \in Seq(Nat) /\ Len(wire') = Len(wire) + k
              /\ \A i \in 1 .. Len(wire) : wire'[i] = wire[i]
              /\ \A i \in 1 .. k : wire'[Len(wire) + i] = mbuf_tx[i]
              /\ Range(wire') = Range(wire) \cup {mbuf_tx[i] : i \in 1 .. k}
              /\ dropped' = dropped \cup {mbuf_tx[i] : i \in k + 1 .. Len(mbuf_tx)}
  <1> USE DEF BridgeInv, BufferTypes
  <1>0. wire \in Seq(Nat) /\ mbuf_tx \in Seq(Nat)
    BY DEF OrderInv
  <1>1. PICK k \in 0 .. Len(mbuf_tx) :
          /\ return_value' = k
          /\ wire' = wire \o SubSeq(mbuf_tx, 1, k)
          /\ dropped' = dropped \cup Range(SubSeq(mbuf_tx, k + 1, Len(mbuf_tx)))
    BY DEF SendBurst
  <1> DEFINE s == SubSeq(mbuf_tx, 1, k)
             r == SubSeq(mbuf_tx, k + 1, Len(mbuf_tx))
  <1>2. s \in Seq(Nat) /\ Len(s) = k /\ \A i \in 1 .. k : s[i] = mbuf_tx[i]
    BY <1>0
  <1>3. /\ r \in Seq(Nat) /\ Len(r) = Len(mbuf_tx) - k
        /\ \A i \in 1 .. Len(mbuf_tx) - k : r[i] = mbuf_tx[k + i]
    BY <1>0
  <1> HIDE DEF s, r
  <1>4. Range(r) = {mbuf_tx[i] : i \in k + 1 .. Len(mbuf_tx)}
    <2>1. Range(r) = {r[i] : i \in 1 .. Len(mbuf_tx) - k}
      BY <1>3, RangeByPlace
    <2>2. ASSUME NEW i \in k + 1 .. Len(mbuf_tx)
          PROVE  i - k \in 1 .. Len(mbuf_tx) - k /\ r[i - k] = mbuf_tx[i]
      <3>1. i - k \in 1 .. Len(mbuf_tx) - k /\ k + (i - k) = i
        BY <1>0
      <3> QED
        BY <1>3, <3>1
    <2>3. \A i \in 1 .. Len(mbuf_tx) - k : k + i \in k + 1 .. Len(mbuf_tx)
      BY <1>0
    <2>4. ASSUME NEW i \in 1 .. Len(mbuf_tx) - k
          PROVE  r[i] \in {mbuf_tx[j] : j \in k + 1 .. Len(mbuf_tx)}
      BY <1>3, <2>3
    <2>5. ASSUME NEW i \in k + 1 .. Len(mbuf_tx)
          PROVE  mbuf_tx[i] \in {r[j] : j \in 1 .. Len(mbuf_tx) - k}
      BY <2>2
    <2> QED
      BY <2>1, <2>4, <2>5
  <1>5. /\ wire' = wire \o s /\ wire' \in Seq(Nat) /\ Len(wire') = Len(wire) + k
        /\ \A i \in 1 .. Len(wire) : wire'[i] = wire[i]
        /\ \A i \in 1 .. k : wire'[Len(wire) + i] = mbuf_tx[i]
    BY SMTT(30), <1>0, <1>1, <1>2 DEF s
  <1>6. Range(wire') = Range(wire) \cup {mbuf_tx[i] : i \in 1 .. k}
    <2>1. /\ Range(wire') = {wire'[i] : i \in 1 .. Len(wire) + k}
          /\ Range(wire) = {wire[i] : i \in 1 .. Len(wire)}
      BY <1>0, <1>5, RangeByPlace
    <2>2. ASSUME NEW i \in 1 .. Len(wire) + k
          PROVE  wire'[i] \in Range(wire) \cup {mbuf_tx[j] : j \in 1 .. k}
      <3>1. CASE i \in 1 .. Len(wire)
        BY <1>5, <2>1, <3>1
      <3>2. CASE i \notin 1 .. Len(wire)
        <4>1. i - Len(wire) \in 1 .. k /\ i = Len(wire) + (i - Len(wire))
          BY <1>0, <3>2
        <4> QED
          BY <1>5, <4>1
      <3> QED
        BY <3>1, <3>2
    <2>3. ASSUME NEW i \in 1 .. k PROVE mbuf_tx[i] \in Range(wire')
      <3>1. Len(wire) + i \in 1 .. Len(wire) + k
        BY <1>0
      <3> QED
        BY <1>5, <2>1, <3>1
    <2>4. ASSUME NEW i \in 1 .. Len(wire) PROVE wire[i] \in Range(wire')
      <3>1. i \in 1 .. Len(wire) + k
        BY <1>0
      <3> QED
        BY <1>5, <2>1, <3>1
    <2> QED
      BY <2>1, <2>2, <2>3, <2>4
  <1> QED
    BY <1>1, <1>4, <1>5, <1>6 DEF r

\* The first l packets of s are numbers up to b, in order.
Ordered(s, l, b) ==
    /\ \A i \in 1 .. l : s[i] \in 1 .. b
    /\ \A i, j \in 1 .. l : i < j => s[i] < s[j]

\* t is the first ls packets of s and then the first lr of r, which are later.
Joined(s, ls, r, lr, t) ==
    /\ \A i \in 1 .. ls, j \in 1 .. lr : s[i] < r[j]
    /\ \A i \in 1 .. ls : t[i] = s[i]
    /\ \A i \in 1 .. lr : t[ls + i] = r[i]

\* One sequence after the other, in order.
LEMMA OrderedConcat ==
    ASSUME NEW s, NEW r, NEW t, NEW ls \in Nat, NEW k \in Nat, NEW b \in Nat,
           Ordered(s, ls, b), Ordered(r, k, b), Joined(s, ls, r, k, t)
    PROVE  Ordered(t, ls + k, b)
  <1> USE DEF Ordered, Joined
  <1>1. ASSUME NEW i \in 1 .. ls + k, i > ls
        PROVE  i - ls \in 1 .. k /\ t[i] = r[i - ls]
    <2>1. i - ls \in 1 .. k /\ i = ls + (i - ls)
      BY <1>1
    <2> QED
      BY <2>1
  <1>2. ASSUME NEW i \in 1 .. ls + k PROVE t[i] \in 1 .. b
    BY <1>1
  <1>3. ASSUME NEW i \in 1 .. ls + k, NEW j \in 1 .. ls + k, i < j
        PROVE  t[i] < t[j]
    <2>1. CASE j <= ls
      BY <1>3, <2>1
    <2>2. CASE j > ls /\ i <= ls
      <3>1. i \in 1 .. ls
        BY <2>2
      <3> QED
        BY <1>1, <2>2, <3>1
    <2>3. CASE i > ls
      <3>1. i - ls < j - ls /\ j > ls
        BY <1>3, <2>3
      <3> QED
        BY <1>1, <2>3, <3>1
    <2> QED
      BY <2>1, <2>2, <2>3
  <1> QED
    BY <1>2, <1>3

\* The numbers of packets that are past are a prefix of those that arrived.
LEMMA PastType ==
    ASSUME BridgeInv, OrderInv
    PROVE  /\ Past \in Nat /\ Len(wire) \in Nat /\ Len(mbuf_tx) \in Nat
           /\ Len(burst) \in Nat /\ arrived \in Nat /\ arrived = Past + Len(burst)
  <1>1. Len(burst) \in Nat /\ Len(mbuf_tx) \in Nat /\ arrived \in Nat
    BY DEF BridgeInv, BufferTypes
  <1>2. Len(wire) \in Nat /\ Len(burst) <= arrived
    BY DEF OrderInv
  <1> QED
    BY <1>1, <1>2 DEF Past

\* Nothing has arrived when the loop starts.
LEMMA InitOrder == Init => OrderInv
  BY DEF Init, OrderInv, OrderKept, Past, Sending

\* Every step keeps the order of the packets.
LEMMA NextOrder ==
    ASSUME BridgeInv, OrderInv, [Next]_vars
    PROVE  OrderInv'
  <1> USE DEF BridgeInv, BufferTypes
  <1>1. CASE LoopTop \/ CountSent \/ CountRefused \/ FreeRefused \/ CountReceived
             \/ NextGroup \/ GroupDone \/ NicDone \/ SlaveRestart \/ UNCHANGED vars
    BY <1>1, QuietSteps DEF OrderInv, OrderKept, Past
  <1>2. CASE FilterMatch
    <2>1. UNCHANGED <<mbuf_tx, burst, arrived, wire>> /\ ~Sending /\ ~Sending'
      BY <1>2 DEF FilterMatch, Sending
    <2> QED
      BY <2>1 DEF OrderInv, OrderKept, Past
  <1>3. CASE SendBurst
    <2>1. PICK k \in 0 .. Len(mbuf_tx) :
              /\ wire' \in Seq(Nat) /\ Len(wire') = Len(wire) + k
              /\ \A i \in 1 .. Len(wire) : wire'[i] = wire[i]
              /\ \A i \in 1 .. k : wire'[Len(wire) + i] = mbuf_tx[i]
      BY <1>3, SendBurstStep
    <2>2. UNCHANGED <<mbuf_tx, burst, arrived>> /\ ~Sending /\ Sending'
      BY <1>3 DEF SendBurst, Sending
    <2>3. /\ \A i \in 1 .. Len(wire) : wire[i] \in 1 .. Past
          /\ \A i \in 1 .. k : mbuf_tx[i] \in 1 .. Past
          /\ \A i, j \in 1 .. Len(wire) : i < j => wire[i] < wire[j]
          /\ \A i, j \in 1 .. k : i < j => mbuf_tx[i] < mbuf_tx[j]
          /\ \A i \in 1 .. Len(wire), j \in 1 .. k : wire[i] < mbuf_tx[j]
      <3>1. \A i \in 1 .. k : i \in 1 .. Len(mbuf_tx)
        BY PastType
      <3> QED
        BY <2>2, <3>1 DEF OrderInv, OrderKept
    <2>4. /\ \A i \in 1 .. Len(wire') : wire'[i] \in 1 .. Past
          /\ \A i, j \in 1 .. Len(wire') : i < j => wire'[i] < wire'[j]
      <3>1. k \in Nat /\ Len(wire) \in Nat /\ Past \in Nat
        BY PastType
      <3>2. /\ Ordered(wire, Len(wire), Past) /\ Ordered(mbuf_tx, k, Past)
            /\ Joined(wire, Len(wire), mbuf_tx, k, wire')
        BY <2>1, <2>3 DEF Ordered, Joined
      <3>3. Ordered(wire', Len(wire) + k, Past)
        BY <3>1, <3>2, OrderedConcat
      <3> QED
        BY <2>1, <3>3 DEF Ordered
    <2>6. OrderKept'
      BY <2>4 DEF OrderKept
    <2>7. Past' = Past
      BY <2>2 DEF Past
    <2> QED
      BY <2>1, <2>2, <2>4, <2>6, <2>7 DEF OrderInv
  <1>4. CASE SendReturns
    <2>1. UNCHANGED <<burst, arrived, wire>> /\ mbuf_tx' = <<>>
      BY <1>4 DEF SendReturns, history
    <2>2. Len(mbuf_tx') = 0
      BY <2>1
    <2> QED
      BY <2>1, <2>2 DEF OrderInv, OrderKept, Past
  <1>5. CASE RxBurst
    <2>1. PICK n \in Nat :
              /\ burst' = [i \in 1 .. n |-> arrived + i] /\ Len(burst') = n
              /\ arrived' = arrived + n /\ Len(burst) = 0
      BY <1>5, RxBurstStep
    <2>2. UNCHANGED <<mbuf_tx, wire>> /\ ~Sending
      BY <1>5 DEF RxBurst, history, Sending
    <2>3. Past' = Past /\ Past = arrived
      BY <2>1 DEF Past
    <2>4. \A i \in 1 .. Len(burst') : burst'[i] = Past' + i
      BY <2>1, <2>3
    <2>5. Len(burst') <= arrived'
      BY <2>1
    <2> QED
      BY <2>2, <2>3, <2>4, <2>5 DEF OrderInv, OrderKept
  <1>6. CASE FilterFree
    <2>1. UNCHANGED <<mbuf_tx, wire>> /\ ~Sending /\ ~Sending'
      BY <1>6 DEF FilterFree, history, Sending
    <2>2. \A i \in 1 .. Len(burst') : burst'[i] = Past' + i
      <3>1. ASSUME NEW i \in 1 .. Len(burst') PROVE burst[i + 1] = Past + (i + 1)
        <4>1. i + 1 \in 1 .. Len(burst)
          BY <1>6, HeadLeaves, PastType
        <4> QED
          BY <4>1 DEF OrderInv
      <3> QED
        BY <1>6, <3>1, HeadLeaves, PastType
    <2>3. /\ Len(burst') <= arrived' /\ 1 .. Past \subseteq 1 .. Past'
          /\ Past' = Past + 1 /\ Past \in Nat
      <3>1. /\ Past' = Past + 1 /\ Past \in Nat /\ Len(burst') = Len(burst) - 1
            /\ arrived' = arrived
        BY <1>6, HeadLeaves
      <3>2. Len(burst) <= arrived /\ Len(burst) \in Nat /\ arrived \in Nat
        BY PastType DEF OrderInv
      <3> QED
        BY <3>1, <3>2
    <2> QED
      BY <2>1, <2>2, <2>3 DEF OrderInv, OrderKept
  <1>7. CASE FilterForward
    <2>1. /\ wire' = wire /\ ~Sending /\ ~Sending'
          /\ mbuf_tx' = Append(mbuf_tx, Head(burst))
      BY <1>7 DEF FilterForward, history, Sending
    <2>2. \A i \in 1 .. Len(burst') : burst'[i] = Past' + i
      <3>1. ASSUME NEW i \in 1 .. Len(burst') PROVE burst[i + 1] = Past + (i + 1)
        <4>1. i + 1 \in 1 .. Len(burst)
          BY <1>7, HeadLeaves, PastType
        <4> QED
          BY <4>1 DEF OrderInv
      <3> QED
        BY <1>7, <3>1, HeadLeaves, PastType
    <2>3. /\ Len(burst') <= arrived' /\ 1 .. Past \subseteq 1 .. Past'
          /\ Past' = Past + 1 /\ Past \in Nat
      <3>1. /\ Past' = Past + 1 /\ Past \in Nat /\ Len(burst') = Len(burst) - 1
            /\ arrived' = arrived
        BY <1>7, HeadLeaves
      <3>2. Len(burst) <= arrived /\ Len(burst) \in Nat /\ arrived \in Nat
        BY PastType DEF OrderInv
      <3> QED
        BY <3>1, <3>2
    <2>4. /\ Len(mbuf_tx') = Len(mbuf_tx) + 1
          /\ \A i \in 1 .. Len(mbuf_tx) : mbuf_tx'[i] = mbuf_tx[i]
          /\ mbuf_tx'[Len(mbuf_tx) + 1] = Past + 1
      <3>1. Head(burst) = Past + 1
        BY <1>7, HeadLeaves
      <3>2. mbuf_tx \in Seq(Nat) /\ Past + 1 \in Nat
        BY <2>3
      <3> QED
        BY <2>1, <3>1, <3>2
    <2> DEFINE r == [i \in 1 .. 1 |-> Past + 1]
    <2>5. /\ \A i \in 1 .. Len(mbuf_tx) : mbuf_tx[i] \in 1 .. Past + 1
          /\ \A i \in 1 .. 1 : r[i] \in 1 .. Past + 1
          /\ \A i, j \in 1 .. Len(mbuf_tx) : i < j => mbuf_tx[i] < mbuf_tx[j]
          /\ \A i, j \in 1 .. 1 : i < j => r[i] < r[j]
          /\ \A i \in 1 .. Len(mbuf_tx), j \in 1 .. 1 : mbuf_tx[i] < r[j]
          /\ \A i \in 1 .. 1 : mbuf_tx'[Len(mbuf_tx) + i] = r[i]
      <3>1. \A i \in 1 .. Len(mbuf_tx) : mbuf_tx[i] \in 1 .. Past
        BY DEF OrderInv
      <3>2. \A i, j \in 1 .. Len(mbuf_tx) : i < j => mbuf_tx[i] < mbuf_tx[j]
        BY DEF OrderInv
      <3>3. \A i \in 1 .. 1 : i = 1
        OBVIOUS
      <3>4. \A i \in 1 .. Len(mbuf_tx) : mbuf_tx[i] \in 1 .. Past + 1 /\ mbuf_tx[i] < Past + 1
        BY <2>3, <3>1
      <3>5. Past + 1 \in 1 .. Past + 1
        BY <2>3
      <3> QED
        BY <2>4, <3>2, <3>3, <3>4, <3>5
    <2>6. /\ \A i \in 1 .. Len(mbuf_tx') : mbuf_tx'[i] \in 1 .. Past + 1
          /\ \A i, j \in 1 .. Len(mbuf_tx') : i < j => mbuf_tx'[i] < mbuf_tx'[j]
      <3>1. Past + 1 \in Nat /\ 1 \in Nat /\ Len(mbuf_tx) \in Nat
        BY <2>3, PastType
      <3> HIDE DEF r
      <3>2. /\ Ordered(mbuf_tx, Len(mbuf_tx), Past + 1) /\ Ordered(r, 1, Past + 1)
            /\ Joined(mbuf_tx, Len(mbuf_tx), r, 1, mbuf_tx')
        BY <2>4, <2>5 DEF Ordered, Joined
      <3>3. Ordered(mbuf_tx', Len(mbuf_tx) + 1, Past + 1)
        BY <3>1, <3>2, OrderedConcat
      <3> QED
        BY <2>4, <3>3 DEF Ordered
    <2>7. ASSUME NEW i \in 1 .. Len(wire), NEW j \in 1 .. Len(mbuf_tx')
          PROVE  wire[i] < mbuf_tx'[j]
      <3>1. CASE j \in 1 .. Len(mbuf_tx)
        BY <2>1, <2>4, <3>1 DEF OrderInv
      <3>2. CASE j = Len(mbuf_tx) + 1
        <4>1. wire[i] \in 1 .. Past
          BY DEF OrderInv
        <4> QED
          BY <2>3, <2>4, <3>2, <4>1
      <3>3. j \in 1 .. Len(mbuf_tx) \/ j = Len(mbuf_tx) + 1
        BY <2>4, PastType
      <3> QED
        BY <3>1, <3>2, <3>3
    <2>8. \A i \in 1 .. Len(wire) : wire[i] \in 1 .. Past + 1
      BY <2>3 DEF OrderInv
    <2> QED
      BY <2>1, <2>2, <2>3, <2>6, <2>7, <2>8 DEF OrderInv, OrderKept
  <1>8. CASE SlaveCrash
    <2>1. UNCHANGED <<arrived, wire>> /\ mbuf_tx' = <<>> /\ burst' = <<>>
      BY <1>8 DEF SlaveCrash
    <2>2. Len(mbuf_tx') = 0 /\ Len(burst') = 0
      BY <2>1
    <2>3. 1 .. Past \subseteq 1 .. Past' /\ Past' = arrived
      BY <2>1, <2>2 DEF Past, OrderInv
    <2> QED
      BY <2>1, <2>2, <2>3 DEF OrderInv, OrderKept
  <1> QED
    BY <1>1, <1>2, <1>3, <1>4, <1>5, <1>6, <1>7, <1>8 DEF Next, SlaveStep

-----------------------------------------------------------------------------
(* The fates.                                                                *)

\* How packets move from one fate to the next: from the buffer to the wire and
\* the dropped ones, from the burst to a filter or the buffer, and to the lost
\* ones when the slave dies.
LEMMA FateMoves ==
    ASSUME NEW S, NEW W, NEW F, NEW D, NEW L, NEW B, OneFate(S, W, F, D, L, B)
    PROVE  /\ \A A, R : B = A \cup R /\ A \cap R = {}
                          => OneFate(S, W \cup A, F, D \cup R, L, {})
           /\ \A x : x \notin S => /\ OneFate(S \cup {x}, W, F \cup {x}, D, L, B)
                                   /\ OneFate(S \cup {x}, W, F, D, L, B \cup {x})
           /\ \A R : R \cap S = {} => OneFate(S \cup R, W, F, D, L \cup (R \cup B), {})
  <1>1. ASSUME NEW A, NEW R, B = A \cup R, A \cap R = {}
        PROVE  OneFate(S, W \cup A, F, D \cup R, L, {})
    BY <1>1 DEF OneFate
  <1>2. ASSUME NEW x, x \notin S
        PROVE  /\ OneFate(S \cup {x}, W, F \cup {x}, D, L, B)
               /\ OneFate(S \cup {x}, W, F, D, L, B \cup {x})
    BY <1>2 DEF OneFate
  <1>3. ASSUME NEW R, R \cap S = {}
        PROVE  OneFate(S \cup R, W, F, D, L \cup (R \cup B), {})
    BY <1>3 DEF OneFate
  <1> QED
    BY <1>1, <1>2, <1>3

\* No packets in an empty sequence.
LEMMA RangeOfEmpty == Range(<<>>) = {}
  BY DEF Range

\* One packet more in a sequence.
LEMMA RangeAppend ==
    ASSUME NEW s \in Seq(Nat), NEW x \in Nat
    PROVE  Range(Append(s, x)) = Range(s) \cup {x}
  <1> DEFINE t == Append(s, x)
  <1>1. /\ t \in Seq(Nat) /\ Len(t) = Len(s) + 1 /\ Len(s) \in Nat
        /\ \A i \in 1 .. Len(s) : t[i] = s[i]
        /\ t[Len(s) + 1] = x
    OBVIOUS
  <1> HIDE DEF t
  <1>2. Range(t) = {t[i] : i \in 1 .. Len(t)} /\ Range(s) = {s[i] : i \in 1 .. Len(s)}
    BY <1>1, RangeByPlace
  <1>3. ASSUME NEW i \in 1 .. Len(t) PROVE t[i] \in Range(s) \cup {x}
    <2>1. i \in 1 .. Len(s) \/ i = Len(s) + 1
      BY <1>1
    <2> QED
      BY <1>1, <1>2, <2>1
  <1>4. ASSUME NEW i \in 1 .. Len(s) PROVE s[i] \in Range(t)
    <2>1. i \in 1 .. Len(t)
      BY <1>1
    <2> QED
      BY <1>1, <1>2, <2>1
  <1>5. x \in Range(t)
    <2>1. Len(s) + 1 \in 1 .. Len(t)
      BY <1>1
    <2> QED
      BY <1>1, <1>2, <2>1
  <1>6. Range(t) = Range(s) \cup {x}
    BY <1>2, <1>3, <1>4, <1>5
  <1> QED
    BY <1>6 DEF t

\* A sequence of consecutive numbers.
LEMMA RangeInterval ==
    ASSUME NEW s \in Seq(Nat), NEW b \in Nat, \A i \in 1 .. Len(s) : s[i] = b + i
    PROVE  Range(s) = b + 1 .. b + Len(s)
  <1>1. Range(s) = {s[i] : i \in 1 .. Len(s)} /\ Len(s) \in Nat
    BY RangeByPlace
  <1>2. ASSUME NEW i \in 1 .. Len(s) PROVE s[i] \in b + 1 .. b + Len(s)
    BY <1>1
  <1>3. ASSUME NEW x \in b + 1 .. b + Len(s) PROVE x \in Range(s)
    <2>1. x - b \in 1 .. Len(s) /\ x = b + (x - b)
      BY <1>1
    <2>2. s[x - b] = x
      BY <2>1
    <2> QED
      BY <1>1, <2>1, <2>2
  <1> QED
    BY <1>1, <1>2, <1>3

\* The rest of the burst, and what the process holds.
LEMMA HeldPackets ==
    ASSUME BridgeInv, OrderInv
    PROVE  LET rest == IF pc = "match" THEN Past + 2 .. arrived ELSE Past + 1 .. arrived
           IN  /\ Held = rest \cup Buffered
               /\ 1 .. arrived = Settled \cup rest /\ rest \cap Settled = {}
  <1> DEFINE rest == IF pc = "match" THEN Past + 2 .. arrived ELSE Past + 1 .. arrived
             queue == IF pc = "match" THEN Tail(burst) ELSE burst
  <1>1. burst \in Seq(Nat) /\ (pc = "match" => Len(burst) >= 1)
    BY DEF BridgeInv, BufferTypes, LoopInv
  <1>2. \A i \in 1 .. Len(burst) : burst[i] = Past + i
    BY DEF OrderInv
  <1>3. Range(queue) = rest
    <2>1. CASE pc = "match"
      <3>1. /\ Tail(burst) \in Seq(Nat) /\ Len(Tail(burst)) = Len(burst) - 1
            /\ \A i \in 1 .. Len(burst) - 1 : Tail(burst)[i] = burst[i + 1]
        BY <1>1, <2>1
      <3>2. ASSUME NEW i \in 1 .. Len(burst) - 1 PROVE burst[i + 1] = Past + 1 + i
        <4>1. i + 1 \in 1 .. Len(burst)
          BY <1>1
        <4> QED
          BY <1>2, <4>1, PastType
      <3>3. Range(Tail(burst)) = Past + 1 + 1 .. Past + 1 + Len(Tail(burst))
        <4>1. Past + 1 \in Nat
          BY PastType
        <4>2. \A i \in 1 .. Len(Tail(burst)) : Tail(burst)[i] = Past + 1 + i
          BY <3>1, <3>2
        <4> QED
          BY <3>1, <4>1, <4>2, RangeInterval
      <3>4. Past + 1 + 1 = Past + 2 /\ Past + 1 + Len(Tail(burst)) = arrived
        BY <3>1, PastType
      <3> QED
        BY <2>1, <3>3, <3>4
    <2>2. CASE pc # "match"
      BY <1>1, <1>2, <2>2, PastType, RangeInterval
    <2> QED
      BY <2>1, <2>2
  <1>4. Held = rest \cup Buffered
    BY <1>3 DEF Held, Buffered
  <1>5. 1 .. arrived = Settled \cup rest /\ rest \cap Settled = {}
    BY <1>1, PastType DEF Settled
  <1> QED
    BY <1>4, <1>5

\* No packet has a fate when the loop starts.
LEMMA InitFate == Init => FateInv
  <1> SUFFICES ASSUME Init PROVE FateInv
    OBVIOUS
  <1>1. wire = <<>> /\ mbuf_tx = <<>> /\ ~Sending /\ pc = "top"
    BY DEF Init, Sending
  <1>2. Range(wire) = {} /\ Buffered = {}
    BY <1>1 DEF Range, Buffered
  <1>3. Settled = {}
    BY <1>1 DEF Init, Settled, Past
  <1> QED
    BY <1>2, <1>3 DEF Init, FateInv, OneFate

\* The two parts of the buffer that rte_eth_tx_burst takes and refuses.
LEMMA BufferSplits ==
    ASSUME BridgeInv, OrderInv, NEW k \in 0 .. Len(mbuf_tx)
    PROVE  LET taken == {mbuf_tx[i] : i \in 1 .. k}
               refused == {mbuf_tx[i] : i \in k + 1 .. Len(mbuf_tx)}
           IN  Range(mbuf_tx) = taken \cup refused /\ taken \cap refused = {}
  <1>1. mbuf_tx \in Seq(Nat)
    BY DEF BridgeInv, BufferTypes
  <1>2. Range(mbuf_tx) = {mbuf_tx[i] : i \in 1 .. Len(mbuf_tx)}
    BY <1>1, RangeByPlace
  <1>3. 1 .. Len(mbuf_tx) = (1 .. k) \cup (k + 1 .. Len(mbuf_tx))
    BY PastType
  <1>4. ASSUME NEW i \in 1 .. k, NEW j \in k + 1 .. Len(mbuf_tx)
        PROVE  mbuf_tx[i] # mbuf_tx[j]
    <2>1. i \in 1 .. Len(mbuf_tx) /\ j \in 1 .. Len(mbuf_tx) /\ i < j
      BY PastType
    <2>2. mbuf_tx[i] < mbuf_tx[j]
      BY <2>1 DEF OrderInv
    <2>3. mbuf_tx[i] \in Nat /\ mbuf_tx[j] \in Nat
      BY <1>1, <2>1
    <2> QED
      BY <2>2, <2>3
  <1> QED
    BY <1>2, <1>3, <1>4

\* Every step leaves each packet with one fate.
LEMMA NextFate ==
    ASSUME BridgeInv, OrderInv, FateInv, [Next]_vars
    PROVE  FateInv'
  <1>1. CASE LoopTop \/ CountSent \/ CountRefused \/ FreeRefused \/ CountReceived
             \/ NextGroup \/ GroupDone \/ NicDone \/ SlaveRestart \/ UNCHANGED vars
    BY <1>1, QuietSteps DEF FateInv, Settled, Past, Buffered
  <1>2. CASE SendBurst
    <2>1. PICK k \in 0 .. Len(mbuf_tx) :
              /\ Range(wire') = Range(wire) \cup {mbuf_tx[i] : i \in 1 .. k}
              /\ dropped' = dropped \cup {mbuf_tx[i] : i \in k + 1 .. Len(mbuf_tx)}
      BY <1>2, SendBurstStep
    <2> DEFINE taken == {mbuf_tx[i] : i \in 1 .. k}
               refused == {mbuf_tx[i] : i \in k + 1 .. Len(mbuf_tx)}
    <2>2. /\ UNCHANGED <<mbuf_tx, burst, arrived, filtered, lost>>
          /\ ~Sending /\ Sending' /\ pc # "match" /\ pc' # "match"
      BY <1>2 DEF SendBurst, Sending
    <2>3. Buffered = taken \cup refused /\ taken \cap refused = {} /\ Buffered' = {}
      BY <2>2, BufferSplits DEF Buffered
    <2>4. Settled' = Settled
      BY <2>2 DEF Settled, Past
    <2> HIDE DEF taken, refused
    <2>5. OneFate(Settled, Range(wire) \cup taken, filtered, dropped \cup refused, lost, {})
      BY <2>3, FateMoves DEF FateInv
    <2> QED
      BY <2>1, <2>2, <2>3, <2>4, <2>5 DEF FateInv, taken, refused
  <1>3. CASE SendReturns
    <2>1. /\ UNCHANGED <<burst, arrived, wire, filtered, dropped, lost>> /\ mbuf_tx' = <<>>
          /\ Sending /\ pc # "match" /\ pc' # "match"
      BY <1>3 DEF SendReturns, history, Sending, BridgeInv, BufferTypes
    <2>2. Buffered = {} /\ Buffered' = {}
      BY <2>1 DEF Buffered, Range
    <2>3. Settled' = Settled
      BY <2>1 DEF Settled, Past
    <2> QED
      BY <2>1, <2>2, <2>3 DEF FateInv
  <1>4. CASE RxBurst
    <2>1. Past' = Past
      <3>1. PICK n \in Nat : Len(burst') = n /\ arrived' = arrived + n /\ Len(burst) = 0
        BY <1>4, RxBurstStep
      <3> QED
        BY <3>1, PastType DEF Past
    <2>2. /\ UNCHANGED <<mbuf_tx, wire, filtered, dropped, lost>>
          /\ ~Sending /\ ~Sending' /\ pc # "match" /\ pc' # "match"
      BY <1>4 DEF RxBurst, history, Sending
    <2> QED
      BY <2>1, <2>2 DEF FateInv, Settled, Buffered
  <1>5. CASE FilterMatch
    <2>1. /\ UNCHANGED <<mbuf_tx, burst, arrived, wire, dropped, lost>>
          /\ filtered' = filtered \cup {Head(burst)} /\ ready > 0
          /\ ~Sending /\ ~Sending' /\ pc # "match" /\ pc' = "match"
      BY <1>5 DEF FilterMatch, Sending
    <2>2. Head(burst) = Past + 1
      <3>1. burst \in Seq(Nat) /\ Len(burst) >= 1
        BY <2>1 DEF BridgeInv, BufferTypes
      <3> QED
        BY <3>1 DEF OrderInv
    <2>3. /\ Settled' = Settled \cup {Past + 1} /\ Past + 1 \notin Settled
          /\ Buffered' = Buffered
      BY <2>1, PastType DEF Settled, Buffered, Past
    <2> QED
      BY <2>1, <2>2, <2>3, FateMoves DEF FateInv
  <1>6. CASE FilterFree
    <2>1. /\ UNCHANGED <<mbuf_tx, wire, filtered, dropped, lost>>
          /\ ~Sending /\ ~Sending' /\ pc = "match" /\ pc' # "match"
      BY <1>6 DEF FilterFree, history, Sending
    <2>2. Past' = Past + 1
      BY <1>6, HeadLeaves
    <2> QED
      BY <2>1, <2>2 DEF FateInv, Settled, Buffered
  <1>7. CASE FilterForward
    <2>1. /\ UNCHANGED <<wire, filtered, dropped, lost>>
          /\ mbuf_tx' = Append(mbuf_tx, Head(burst))
          /\ ~Sending /\ ~Sending' /\ pc # "match" /\ pc' # "match"
      BY <1>7 DEF FilterForward, history, Sending
    <2>2. Past' = Past + 1 /\ Past \in Nat /\ Head(burst) = Past + 1
      BY <1>7, HeadLeaves
    <2>3. Buffered' = Buffered \cup {Past + 1}
      <3>1. mbuf_tx \in Seq(Nat) /\ Past + 1 \in Nat
        BY <2>2 DEF BridgeInv, BufferTypes
      <3>2. Range(mbuf_tx') = Range(mbuf_tx) \cup {Past + 1}
        BY <2>1, <2>2, <3>1, RangeAppend
      <3> QED
        BY <2>1, <3>2 DEF Buffered
    <2>4. Settled' = Settled \cup {Past + 1} /\ Past + 1 \notin Settled
      BY <2>1, <2>2 DEF Settled
    <2> QED
      BY <2>1, <2>3, <2>4, FateMoves DEF FateInv
  <1>8. CASE SlaveCrash
    <2>1. /\ UNCHANGED <<arrived, wire, filtered, dropped>> /\ lost' = lost \cup Held
          /\ mbuf_tx' = <<>> /\ burst' = <<>> /\ pc' = "dead"
      BY <1>8 DEF SlaveCrash
    <2> DEFINE rest == IF pc = "match" THEN Past + 2 .. arrived ELSE Past + 1 .. arrived
    <2>2. /\ Held = rest \cup Buffered
          /\ 1 .. arrived = Settled \cup rest /\ rest \cap Settled = {}
      BY HeldPackets
    <2>3. Buffered' = {}
      BY <2>1 DEF Buffered, Range
    <2>4. Settled' = 1 .. arrived
      <3>1. Len(burst') = 0
        BY <2>1
      <3>2. Past' = arrived
        BY <2>1, <3>1, PastType DEF Past
      <3> QED
        BY <2>1, <3>2 DEF Settled
    <2> HIDE DEF rest
    <2>5. OneFate(Settled \cup rest, Range(wire), filtered, dropped, lost \cup (rest \cup Buffered), {})
      BY <2>2, FateMoves DEF FateInv
    <2> QED
      BY <2>1, <2>2, <2>3, <2>4, <2>5 DEF FateInv
  <1> QED
    BY <1>1, <1>2, <1>3, <1>4, <1>5, <1>6, <1>7, <1>8 DEF Next, SlaveStep

-----------------------------------------------------------------------------
(* The counters.                                                             *)

\* As many packets as places, in a stretch of an ordered sequence.
LEMMA OrderedCount ==
    ASSUME NEW s, NEW a \in Nat, NEW b \in Nat, a <= b,
           \A i \in a + 1 .. b : s[i] \in Nat,
           \A i, j \in a + 1 .. b : i < j => s[i] < s[j]
    PROVE  LET T == {s[i] : i \in a + 1 .. b}
           IN  IsFiniteSet(T) /\ Cardinality(T) = b - a
  <1> DEFINE T == {s[i] : i \in a + 1 .. b}
             f == [i \in a + 1 .. b |-> s[i]]
  <1>1. ASSUME NEW i \in a + 1 .. b, NEW j \in a + 1 .. b, f[i] = f[j]
        PROVE  i = j
    <2>1. s[i] = s[j] /\ s[i] \in Nat /\ s[j] \in Nat
      BY <1>1
    <2>2. ~(i < j) /\ ~(j < i)
      BY <2>1
    <2> QED
      BY <2>2
  <1>2. f \in [a + 1 .. b -> T]
    OBVIOUS
  <1>3. f \in Injection(a + 1 .. b, T)
    BY <1>1, <1>2 DEF Injection, IsInjective
  <1>4. f \in Surjection(a + 1 .. b, T)
    BY <1>2 DEF Surjection
  <1>5. ExistsBijection(a + 1 .. b, T)
    <2>1. f \in Bijection(a + 1 .. b, T)
      BY <1>3, <1>4 DEF Bijection
    <2> QED
      BY <2>1 DEF ExistsBijection
  <1>6. IsFiniteSet(a + 1 .. b) /\ Cardinality(a + 1 .. b) = b - a
    <2>1. a + 1 \in Int /\ b \in Int
      OBVIOUS
    <2>2. IsFiniteSet(a + 1 .. b)
      BY <2>1, FS_Interval
    <2>3. Cardinality(a + 1 .. b) = IF a + 1 > b THEN 0 ELSE b - (a + 1) + 1
      BY <2>1, FS_Interval
    <2> QED
      BY <2>2, <2>3
  <1> HIDE DEF T
  <1>7. IsFiniteSet(T) /\ Cardinality(T) = b - a
    BY <1>5, <1>6, FS_Bijection
  <1> QED
    BY <1>7 DEF T

\* What a counter has missed, and how far it is behind with what is due.
LEMMA CounterBehind ==
    ASSUME NEW a \in Nat, NEW r \in Nat, NEW d \in Nat, a - (r + d) \in Nat
    PROVE  r <= a /\ a - r \in Nat /\ a - r = (a - (r + d)) + d
  OBVIOUS

\* Five counts, added up from the right and from the left.
LEMMA FiveCounts ==
    ASSUME NEW a \in Nat, NEW b \in Nat, NEW c \in Nat, NEW d \in Nat, NEW e \in Nat
    PROVE  a + (b + (c + (d + e))) = a + b + c + d + e
  OBVIOUS

\* The sizes of two sets without a common element add up.
LEMMA DisjointCount ==
    ASSUME NEW S, IsFiniteSet(S), NEW T, IsFiniteSet(T), S \cap T = {}
    PROVE  IsFiniteSet(S \cup T) /\ Cardinality(S \cup T) = Cardinality(S) + Cardinality(T)
  <1>1. /\ IsFiniteSet(S \cup T)
        /\ Cardinality(S \cup T) = Cardinality(S) + Cardinality(T) - Cardinality(S \cap T)
    BY FS_Union
  <1>2. Cardinality(S \cap T) = 0 /\ Cardinality(S) \in Nat /\ Cardinality(T) \in Nat
    BY FS_EmptySet, FS_CardinalityType
  <1> QED
    BY <1>1, <1>2

\* The sets that are counted are finite.
LEMMA FatesFinite ==
    ASSUME BridgeInv, OrderInv, FateInv
    PROVE  /\ \A S \in {Range(wire), filtered, dropped, lost, Buffered} :
                 S \subseteq 1 .. arrived /\ IsFiniteSet(S) /\ Cardinality(S) \in Nat
           /\ Cardinality(Range(wire)) = Len(wire)
  <1>1. IsFiniteSet(1 .. arrived)
    BY PastType, FS_Interval
  <1>2. Settled \subseteq 1 .. arrived
    BY HeldPackets
  <1>3. ASSUME NEW S \in {Range(wire), filtered, dropped, lost, Buffered}
        PROVE  S \subseteq 1 .. arrived
    BY <1>2 DEF FateInv, OneFate
  <1>4. ASSUME NEW S \in {Range(wire), filtered, dropped, lost, Buffered}
        PROVE  IsFiniteSet(S) /\ Cardinality(S) \in Nat
    BY <1>1, <1>3, FS_Subset, FS_CardinalityType
  <1>5. Cardinality(Range(wire)) = Len(wire)
    <2>1. wire \in Seq(Nat) /\ Len(wire) \in Nat
      BY DEF OrderInv
    <2>2. Range(wire) = {wire[i] : i \in 1 .. Len(wire)}
      BY <2>1, RangeByPlace
    <2>3. PICK z \in Nat : z = 0
      OBVIOUS
    <2>4. z + 1 = 1 /\ Len(wire) - z = Len(wire)
      BY <2>1, <2>3
    <2>l. z <= Len(wire)
      BY <2>1, <2>3
    <2>5. /\ \A i \in z + 1 .. Len(wire) : wire[i] \in Nat
          /\ \A i, j \in z + 1 .. Len(wire) : i < j => wire[i] < wire[j]
      BY <2>1, <2>4 DEF OrderInv, OrderKept
    <2>6. Cardinality({wire[i] : i \in z + 1 .. Len(wire)}) = Len(wire) - z
      BY <2>1, <2>l, <2>5, OrderedCount
    <2> QED
      BY <2>2, <2>4, <2>6
  <1> QED
    BY <1>3, <1>4, <1>5

\* The number of packets on the wire and dropped after rte_eth_tx_burst.
LEMMA SendBurstCounts ==
    ASSUME BridgeInv, OrderInv, FateInv, SendBurst
    PROVE  /\ return_value' \in 0 .. Len(mbuf_tx)
           /\ Len(wire') = Len(wire) + return_value'
           /\ Cardinality(dropped') = Cardinality(dropped) + (Len(mbuf_tx) - return_value')
           /\ Cardinality(dropped) \in Nat
  <1>1. PICK k \in 0 .. Len(mbuf_tx) :
              /\ return_value' = k /\ Len(wire') = Len(wire) + k
              /\ dropped' = dropped \cup {mbuf_tx[i] : i \in k + 1 .. Len(mbuf_tx)}
    BY SendBurstStep
  <1> DEFINE refused == {mbuf_tx[i] : i \in k + 1 .. Len(mbuf_tx)}
  <1>2. IsFiniteSet(refused) /\ Cardinality(refused) = Len(mbuf_tx) - k
    <2>1. k \in Nat /\ Len(mbuf_tx) \in Nat /\ k <= Len(mbuf_tx)
      BY PastType
    <2>2. \A i \in k + 1 .. Len(mbuf_tx) : i \in 1 .. Len(mbuf_tx)
      BY <2>1
    <2>3. \A i \in k + 1 .. Len(mbuf_tx) : mbuf_tx[i] \in Nat
      BY <2>2 DEF BridgeInv, BufferTypes
    <2>4. \A i, j \in k + 1 .. Len(mbuf_tx) : i < j => mbuf_tx[i] < mbuf_tx[j]
      BY <2>2 DEF OrderInv
    <2> QED
      BY <2>1, <2>3, <2>4, OrderedCount
  <1>3. dropped \cap refused = {}
    <2>1. refused \subseteq Range(mbuf_tx)
      BY BufferSplits
    <2>2. Range(mbuf_tx) = Buffered
      BY DEF SendBurst, Sending, Buffered
    <2> HIDE DEF refused
    <2> QED
      BY <2>1, <2>2 DEF FateInv, OneFate
  <1> HIDE DEF refused
  <1>4. IsFiniteSet(dropped) /\ Cardinality(dropped) \in Nat
    BY FatesFinite
  <1>5. Cardinality(dropped \cup refused) =
           Cardinality(dropped) + Cardinality(refused) - Cardinality(dropped \cap refused)
    BY <1>2, <1>4, FS_Union
  <1>6. Cardinality(dropped \cap refused) = 0
    BY <1>3, FS_EmptySet
  <1>7. Cardinality(dropped') = Cardinality(dropped) + (Len(mbuf_tx) - k)
    <2>1. Cardinality(dropped') = Cardinality(dropped) + Cardinality(refused) - 0
      BY <1>1, <1>5, <1>6 DEF refused
    <2> QED
      BY <1>2, <1>4, <2>1, PastType
  <1> QED
    BY <1>1, <1>4, <1>7

\* One burst for each death.
LEMMA BehindOneMore ==
    ASSUME NEW c \in Nat
    PROVE  Behind(c) \in Nat /\ Behind(c + 1) = Behind(c) + MAX_PKT_BURST
  BY BridgeAssumption DEF Behind

\* What is due is never more than a burst.
LEMMA DueTypes ==
    ASSUME BridgeInv
    PROVE  /\ RxDue \in Nat /\ TxDue \in Nat /\ DropDue \in Nat
           /\ RxDue + TxDue + DropDue <= MAX_PKT_BURST
  <1>1. /\ Len(burst) \in Nat /\ Len(mbuf_tx) \in Nat /\ return_value \in 0 .. Len(mbuf_tx)
        /\ Len(burst) <= MAX_PKT_BURST /\ Len(mbuf_tx) <= MAX_PKT_BURST
        /\ MAX_PKT_BURST \in Nat
    BY BridgeAssumption DEF BridgeInv, BufferTypes, LoopInv, BufferBounded
  <1>2. return_value \in Nat /\ return_value <= Len(mbuf_tx)
    BY <1>1
  <1>3. CASE pc = "received"
    <2>1. RxDue = Len(burst) /\ TxDue = 0 /\ DropDue = 0
      BY <1>3 DEF RxDue, TxDue, DropDue
    <2> QED
      BY <1>1, <2>1
  <1>4. CASE pc = "sent"
    <2>1. RxDue = 0 /\ TxDue = return_value /\ DropDue = Len(mbuf_tx) - return_value
      BY <1>4 DEF RxDue, TxDue, DropDue
    <2> QED
      BY <1>1, <1>2, <2>1
  <1>5. CASE pc = "refused"
    <2>1. RxDue = 0 /\ TxDue = 0 /\ DropDue = Len(mbuf_tx) - return_value
      BY <1>5 DEF RxDue, TxDue, DropDue
    <2> QED
      BY <1>1, <1>2, <2>1
  <1>6. CASE pc \notin {"received", "sent", "refused"}
    <2>1. RxDue = 0 /\ TxDue = 0 /\ DropDue = 0
      BY <1>6 DEF RxDue, TxDue, DropDue
    <2> QED
      BY <1>1, <2>1
  <1> QED
    BY <1>3, <1>4, <1>5, <1>6

\* The steps that count no packet and after which nothing more is due.
LEMMA QuietStats ==
    ASSUME BridgeInv, StatTypes,
           LoopTop \/ FreeRefused \/ SendReturns \/ NextGroup \/ GroupDone
             \/ FilterFree \/ FilterForward \/ NicDone \/ SlaveRestart \/ UNCHANGED vars
    PROVE  /\ UNCHANGED <<arrived, wire, filtered, dropped, crashes, RxDue, TxDue, DropDue>>
           /\ stats'.tx = stats.tx /\ stats'.rx = stats.rx
           /\ stats'.filtered = stats.filtered /\ stats'.dropped = stats.dropped
  <1> USE DEF history, slaveVars, RxDue, TxDue, DropDue, StatTypes
  <1>1. CASE LoopTop \/ GroupDone \/ SlaveRestart
    BY <1>1 DEF LoopTop, GroupDone, SlaveRestart
  <1>2. CASE FreeRefused
    BY <1>2 DEF FreeRefused
  <1>3. CASE SendReturns
    BY <1>3 DEF SendReturns, BridgeInv, BufferTypes
  <1>4. CASE NextGroup
    <2>1. /\ UNCHANGED <<arrived, wire, filtered, dropped, crashes>>
          /\ pc = "group" /\ pc' \in {"top", "filter"}
      BY <1>4 DEF NextGroup
    <2>2. /\ stats'.tx = stats.tx /\ stats'.rx = stats.rx
          /\ stats'.filtered = stats.filtered /\ stats'.dropped = stats.dropped
      <3>1. \/ stats' = stats
            \/ \E x : stats' = [stats EXCEPT !.rx_b = x]
        BY <1>4 DEF NextGroup
      <3> QED
        BY <3>1
    <2> QED
      BY <2>1, <2>2
  <1>5. CASE FilterFree
    BY <1>5 DEF FilterFree
  <1>6. CASE FilterForward
    BY <1>6 DEF FilterForward
  <1>7. CASE NicDone
    BY <1>7 DEF NicDone
  <1>8. CASE UNCHANGED vars
    BY <1>8 DEF vars
  <1> QED
    BY <1>1, <1>2, <1>3, <1>4, <1>5, <1>6, <1>7, <1>8

\* Every step keeps the packet counters behind by what is due.
LEMMA NextCounted ==
    ASSUME BridgeInv, OrderInv, FateInv, StatTypes, CountedInv, [Next]_vars
    PROVE  CountedInv'
  <1>t. /\ arrived \in Nat /\ Len(wire) \in Nat /\ Len(burst) \in Nat /\ Len(mbuf_tx) \in Nat
        /\ Cardinality(dropped) \in Nat /\ Cardinality(filtered) \in Nat
        /\ return_value \in Nat /\ return_value <= Len(mbuf_tx)
    BY PastType, FatesFinite DEF BridgeInv, BufferTypes
  <1>c. /\ Behind(crashes) \in Nat /\ Behind(crashes + 1) = Behind(crashes) + MAX_PKT_BURST
        /\ MAX_PKT_BURST \in Nat
    <2>1. crashes \in Nat /\ MAX_PKT_BURST \in Nat
      BY BridgeAssumption DEF BridgeInv, BufferTypes
    <2> QED
      BY <2>1, BehindOneMore
  <1>1. CASE LoopTop \/ FreeRefused \/ SendReturns \/ NextGroup \/ GroupDone
             \/ FilterFree \/ FilterForward \/ NicDone \/ SlaveRestart \/ UNCHANGED vars
    <2>1. /\ UNCHANGED <<arrived, wire, filtered, dropped, crashes, RxDue, TxDue, DropDue>>
          /\ stats'.tx = stats.tx /\ stats'.rx = stats.rx
          /\ stats'.filtered = stats.filtered /\ stats'.dropped = stats.dropped
      BY <1>1, QuietStats
    <2> QED
      BY <2>1 DEF CountedInv, RxMissed, TxMissed, DropMissed
  <1>2. CASE SendBurst
    <2>1. /\ UNCHANGED <<stats, arrived, filtered, crashes, mbuf_tx>>
          /\ pc = "send" /\ pc' = "sent"
      BY <1>2 DEF SendBurst
    <2>2. /\ return_value' \in Nat /\ return_value' <= Len(mbuf_tx)
          /\ Len(wire') = Len(wire) + return_value'
          /\ Cardinality(dropped') = Cardinality(dropped) + (Len(mbuf_tx) - return_value')
      BY <1>2, SendBurstCounts
    <2>3. /\ RxDue = 0 /\ TxDue = 0 /\ DropDue = 0 /\ RxDue' = 0
          /\ TxDue' = return_value' /\ DropDue' = Len(mbuf_tx) - return_value'
      BY <2>1 DEF RxDue, TxDue, DropDue
    <2>n. stats.tx \in Nat /\ stats.rx \in Nat /\ stats.dropped \in Nat
      BY DEF StatTypes
    <2>r. RxMissed' = RxMissed
      BY <2>1, <2>3 DEF RxMissed
    <2>t. TxMissed' = TxMissed
      <3> DEFINE c == Len(wire)
                 d == return_value'
      <3>1. c \in Nat /\ d \in Nat /\ Len(wire') = c + d
        BY <1>t, <2>2
      <3> HIDE DEF c, d
      <3>2. (c + d) - (stats.tx + d) = c - (stats.tx + 0)
        BY <3>1, <2>n
      <3>3. TxDue' = d /\ TxDue = 0 /\ stats' = stats
        BY <2>1, <2>3 DEF d
      <3> QED
        BY <3>1, <3>2, <3>3 DEF TxMissed, c
    <2>d. DropMissed' = DropMissed
      <3> DEFINE c == Cardinality(dropped)
                 d == Len(mbuf_tx) - return_value'
      <3>1. c \in Nat /\ d \in Int /\ Cardinality(dropped') = c + d
        BY <1>t, <2>2
      <3> HIDE DEF c, d
      <3>2. (c + d) - (stats.dropped + d) = c - (stats.dropped + 0)
        BY <3>1, <2>n
      <3>3. DropDue' = d /\ DropDue = 0 /\ stats' = stats
        BY <2>1, <2>3 DEF d
      <3> QED
        BY <3>1, <3>2, <3>3 DEF DropMissed, c
    <2>m. RxMissed' = RxMissed /\ TxMissed' = TxMissed /\ DropMissed' = DropMissed
      BY <2>r, <2>t, <2>d
    <2> QED
      BY <2>m, <2>1, <2>2 DEF CountedInv
  <1>3. CASE CountSent
    <2>1. /\ UNCHANGED <<arrived, wire, filtered, dropped, crashes, mbuf_tx, return_value>>
          /\ pc = "sent" /\ pc' = "refused"
      BY <1>3 DEF CountSent, history
    <2>2. /\ stats'.tx = stats.tx + return_value /\ stats'.rx = stats.rx
          /\ stats'.filtered = stats.filtered /\ stats'.dropped = stats.dropped
      BY <1>3 DEF CountSent, StatTypes
    <2>3. /\ RxDue = 0 /\ RxDue' = 0 /\ TxDue = return_value /\ TxDue' = 0
          /\ DropDue = Len(mbuf_tx) - return_value /\ DropDue' = DropDue
      BY <2>1 DEF RxDue, TxDue, DropDue
    <2>n. stats.tx \in Nat /\ stats.rx \in Nat /\ stats.dropped \in Nat
      BY DEF StatTypes
    <2>m. RxMissed' = RxMissed /\ TxMissed' = TxMissed /\ DropMissed' = DropMissed
      BY <1>t, <2>n, <2>1, <2>2, <2>3 DEF RxMissed, TxMissed, DropMissed
    <2> QED
      BY <2>m, <2>1, <2>2 DEF CountedInv
  <1>4. CASE CountRefused
    <2>1. /\ UNCHANGED <<arrived, wire, filtered, dropped, crashes, mbuf_tx, return_value>>
          /\ pc = "refused" /\ pc' = "free"
      BY <1>4 DEF CountRefused, history
    <2>2. /\ stats'.dropped = stats.dropped + (Len(mbuf_tx) - return_value)
          /\ stats'.filtered = stats.filtered /\ stats'.tx = stats.tx /\ stats'.rx = stats.rx
      BY <1>4 DEF CountRefused, StatTypes
    <2>3. /\ RxDue = 0 /\ RxDue' = 0 /\ TxDue = 0 /\ TxDue' = 0
          /\ DropDue = Len(mbuf_tx) - return_value /\ DropDue' = 0
      BY <2>1 DEF RxDue, TxDue, DropDue
    <2>n. stats.tx \in Nat /\ stats.rx \in Nat /\ stats.dropped \in Nat
      BY DEF StatTypes
    <2>m. RxMissed' = RxMissed /\ TxMissed' = TxMissed /\ DropMissed' = DropMissed
      BY <1>t, <2>n, <2>1, <2>2, <2>3 DEF RxMissed, TxMissed, DropMissed
    <2> QED
      BY <2>m, <2>1, <2>2 DEF CountedInv
  <1>5. CASE CountReceived
    <2>1. /\ UNCHANGED <<arrived, wire, filtered, dropped, crashes>>
          /\ pc = "received" /\ pc' = "group"
      BY <1>5 DEF CountReceived, history
    <2>2. /\ stats'.rx = stats.rx + Len(burst) /\ stats'.tx = stats.tx
          /\ stats'.filtered = stats.filtered /\ stats'.dropped = stats.dropped
      BY <1>5 DEF CountReceived, StatTypes
    <2>3. /\ RxDue = Len(burst) /\ RxDue' = 0 /\ TxDue = 0 /\ TxDue' = 0
          /\ DropDue = 0 /\ DropDue' = 0
      BY <2>1 DEF RxDue, TxDue, DropDue
    <2>n. stats.tx \in Nat /\ stats.rx \in Nat /\ stats.dropped \in Nat
      BY DEF StatTypes
    <2>m. RxMissed' = RxMissed /\ TxMissed' = TxMissed /\ DropMissed' = DropMissed
      BY <1>t, <2>n, <2>1, <2>2, <2>3 DEF RxMissed, TxMissed, DropMissed
    <2> QED
      BY <2>m, <2>1, <2>2 DEF CountedInv
  <1>6. CASE RxBurst
    <2>1. UNCHANGED <<stats, wire, filtered, dropped, crashes>> /\ pc = "rx"
      BY <1>6 DEF RxBurst, history
    <2>2. PICK n \in Nat : /\ Len(burst') = n /\ arrived' = arrived + n
                           /\ pc' = IF n = 0 THEN "top" ELSE "received"
      BY <1>6, RxBurstStep
    <2>3. /\ RxDue = 0 /\ RxDue' = n /\ TxDue = 0 /\ TxDue' = 0
          /\ DropDue = 0 /\ DropDue' = 0
      BY <2>1, <2>2 DEF RxDue, TxDue, DropDue
    <2>n. stats.tx \in Nat /\ stats.rx \in Nat /\ stats.dropped \in Nat
      BY DEF StatTypes
    <2>m. RxMissed' = RxMissed /\ TxMissed' = TxMissed /\ DropMissed' = DropMissed
      BY SMTT(30), <1>t, <2>n, <2>1, <2>2, <2>3 DEF RxMissed, TxMissed, DropMissed
    <2> QED
      BY <2>m, <2>1, <2>2 DEF CountedInv
  <1>7. CASE FilterMatch
    <2>1. /\ UNCHANGED <<arrived, wire, dropped, crashes, burst>>
          /\ filtered' = filtered \cup {Head(burst)} /\ ready > 0
          /\ pc = "filter" /\ pc' = "match"
      BY <1>7 DEF FilterMatch
    <2>2. /\ stats'.filtered = stats.filtered + 1 /\ stats'.tx = stats.tx
          /\ stats'.rx = stats.rx /\ stats'.dropped = stats.dropped
      BY <1>7 DEF FilterMatch, StatTypes
    <2>3. /\ RxDue = 0 /\ RxDue' = 0 /\ TxDue = 0 /\ TxDue' = 0
          /\ DropDue = 0 /\ DropDue' = 0
      BY <2>1 DEF RxDue, TxDue, DropDue
    <2>4. Head(burst) \notin filtered
      <3>1. burst \in Seq(Nat) /\ Len(burst) >= 1
        BY <2>1 DEF BridgeInv, BufferTypes
      <3>2. Head(burst) = Past + 1
        BY <3>1 DEF OrderInv
      <3>3. Past + 1 \notin Settled
        BY <2>1, PastType DEF Settled
      <3> QED
        BY <3>2, <3>3 DEF FateInv, OneFate
    <2>5. Cardinality(filtered') = Cardinality(filtered) + 1
      BY <2>1, <2>4, FatesFinite, FS_AddElement
    <2>n. stats.tx \in Nat /\ stats.rx \in Nat /\ stats.dropped \in Nat
      BY DEF StatTypes
    <2>m. RxMissed' = RxMissed /\ TxMissed' = TxMissed /\ DropMissed' = DropMissed
      BY <1>t, <2>n, <2>1, <2>2, <2>3 DEF RxMissed, TxMissed, DropMissed
    <2> QED
      BY <2>m, <2>1, <2>2, <2>5 DEF CountedInv
  <1>8. CASE SlaveCrash
    <2>1. /\ UNCHANGED <<stats, arrived, wire, filtered, dropped>>
          /\ crashes' = crashes + 1 /\ pc' = "dead"
      BY <1>8 DEF SlaveCrash
    <2>2. RxDue' = 0 /\ TxDue' = 0 /\ DropDue' = 0
      BY <2>1 DEF RxDue, TxDue, DropDue
    <2>3. /\ RxDue \in Nat /\ TxDue \in Nat /\ DropDue \in Nat
          /\ RxDue + TxDue + DropDue <= MAX_PKT_BURST
      BY DueTypes
    <2>n. stats.tx \in Nat /\ stats.rx \in Nat /\ stats.dropped \in Nat
      BY DEF StatTypes
    <2>r. RxMissed' = RxMissed + RxDue
      BY <1>t, <2>n, <2>1, <2>2, <2>3 DEF RxMissed
    <2>t. TxMissed' = TxMissed + TxDue
      BY <1>t, <2>n, <2>1, <2>2, <2>3 DEF TxMissed
    <2>d. DropMissed' = DropMissed + DropDue
      <3> DEFINE c == Cardinality(dropped)
      <3>1. c \in Nat /\ Cardinality(dropped') = c
        BY <1>t, <2>1
      <3> HIDE DEF c
      <3>2. c - (stats.dropped + 0) = c - (stats.dropped + DropDue) + DropDue
        BY <3>1, <2>n, <2>3
      <3> QED
        BY <3>1, <3>2, <2>1, <2>2 DEF DropMissed, c
    <2>m. /\ RxMissed' = RxMissed + RxDue /\ TxMissed' = TxMissed + TxDue
          /\ DropMissed' = DropMissed + DropDue
      BY <2>r, <2>t, <2>d
    <2>b. Behind(crashes') = Behind(crashes) + MAX_PKT_BURST
      BY <1>c, <2>1
    <2> QED
      BY <1>c, <2>m, <2>b, <2>1, <2>3 DEF CountedInv
  <1> QED
    BY <1>1, <1>2, <1>3, <1>4, <1>5, <1>6, <1>7, <1>8 DEF Next, SlaveStep

-----------------------------------------------------------------------------
(* The bytes.                                                                *)

\* The length of one packet.
LEMMA BytesOfOne ==
    ASSUME NEW p \in Nat
    PROVE  /\ IsFiniteSet({p} \X (1 .. LenOf(p)))
           /\ BytesOf({p}) = {p} \X (1 .. LenOf(p))
           /\ Bytes({p}) = LenOf(p) /\ LenOf(p) \in Nat
  <1>1. LenOf(p) \in Nat
    BY DEF LenOf
  <1>2. IsFiniteSet({p}) /\ Cardinality({p}) = 1
    BY FS_Singleton
  <1>3. IsFiniteSet(1 .. LenOf(p)) /\ Cardinality(1 .. LenOf(p)) = LenOf(p)
    <2>1. 1 \in Int /\ LenOf(p) \in Int
      BY <1>1
    <2>2. Cardinality(1 .. LenOf(p)) = IF 1 > LenOf(p) THEN 0 ELSE LenOf(p) - 1 + 1
      BY <2>1, FS_Interval
    <2> QED
      BY <1>1, <2>1, <2>2, FS_Interval
  <1>4. /\ IsFiniteSet({p} \X (1 .. LenOf(p)))
        /\ Cardinality({p} \X (1 .. LenOf(p))) = Cardinality({p}) * Cardinality(1 .. LenOf(p))
    BY <1>2, <1>3, FS_Product
  <1>5. BytesOf({p}) = {p} \X (1 .. LenOf(p))
    BY DEF BytesOf
  <1>6. Bytes({p}) = 1 * LenOf(p)
    BY <1>2, <1>3, <1>4, <1>5 DEF Bytes
  <1>7. Bytes({p}) = LenOf(p)
    BY <1>1, <1>6
  <1> QED
    BY <1>1, <1>4, <1>5, <1>7

\* A finite set of packets has finitely many bytes.
LEMMA BytesFinite ==
    ASSUME NEW S \in SUBSET Nat, IsFiniteSet(S)
    PROVE  IsFiniteSet(BytesOf(S)) /\ Bytes(S) \in Nat
  <1> DEFINE f == [p \in S |-> {p} \X (1 .. LenOf(p))]
             T == {{p} \X (1 .. LenOf(p)) : p \in S}
  <1>1. f \in Surjection(S, T)
    BY DEF Surjection
  <1>2. IsFiniteSet(T)
    <2> HIDE DEF f, T
    <2> QED
      BY <1>1, FS_Surjection
  <1>3. \A x \in T : IsFiniteSet(x)
    BY BytesOfOne
  <1>4. IsFiniteSet(UNION T)
    <2> HIDE DEF T
    <2> QED
      BY <1>2, <1>3, FS_UNION
  <1>5. IsFiniteSet(BytesOf(S))
    BY <1>4 DEF BytesOf
  <1> QED
    BY <1>5, FS_CardinalityType DEF Bytes

\* The bytes of two sets without a common packet add up.
LEMMA BytesAddUp ==
    ASSUME NEW S \in SUBSET Nat, IsFiniteSet(S), NEW T \in SUBSET Nat, IsFiniteSet(T),
           S \cap T = {}
    PROVE  /\ Bytes(S \cup T) = Bytes(S) + Bytes(T)
           /\ Bytes(S) \in Nat /\ Bytes(T) \in Nat
  <1>1. /\ IsFiniteSet(BytesOf(S)) /\ IsFiniteSet(BytesOf(T))
        /\ Bytes(S) \in Nat /\ Bytes(T) \in Nat
    BY BytesFinite
  <1>2. BytesOf(S \cup T) = BytesOf(S) \cup BytesOf(T)
    BY DEF BytesOf
  <1>3. BytesOf(S) \cap BytesOf(T) = {}
    <2>1. ASSUME NEW x \in BytesOf(S), x \in BytesOf(T) PROVE FALSE
      <3>1. PICK p \in S : x \in {p} \X (1 .. LenOf(p))
        BY DEF BytesOf
      <3>2. PICK q \in T : x \in {q} \X (1 .. LenOf(q))
        BY <2>1 DEF BytesOf
      <3>3. x[1] = p /\ x[1] = q
        BY <3>1, <3>2
      <3> QED
        BY <3>3
    <2> QED
      BY <2>1
  <1>4. Cardinality(BytesOf(S) \cup BytesOf(T)) =
           Cardinality(BytesOf(S)) + Cardinality(BytesOf(T))
             - Cardinality(BytesOf(S) \cap BytesOf(T))
    BY <1>1, FS_Union
  <1>5. Cardinality(BytesOf(S) \cap BytesOf(T)) = 0
    BY <1>3, FS_EmptySet
  <1>6. Bytes(S \cup T) = Bytes(S) + Bytes(T) - 0
    BY <1>2, <1>4, <1>5 DEF Bytes
  <1> QED
    BY <1>1, <1>6

\* No packets, no bytes.
LEMMA BytesOfNone == Bytes({}) = 0
  <1>1. BytesOf({}) = {}
    BY DEF BytesOf
  <1> QED
    BY <1>1, FS_EmptySet DEF Bytes

\* The packets of a stretch of a sequence.
LEMMA SliceRange ==
    ASSUME NEW s \in Seq(Nat), NEW a \in Nat, NEW b \in Nat, a <= b, b <= Len(s)
    PROVE  Range(SubSeq(s, a + 1, b)) = {s[i] : i \in a + 1 .. b}
  <1> DEFINE r == SubSeq(s, a + 1, b)
  <1>1. r \in Seq(Nat) /\ Len(r) = b - a /\ \A i \in 1 .. b - a : r[i] = s[a + i]
    OBVIOUS
  <1> HIDE DEF r
  <1>2. Range(r) = {r[i] : i \in 1 .. b - a}
    BY <1>1, RangeByPlace
  <1>3. ASSUME NEW i \in 1 .. b - a PROVE r[i] \in {s[j] : j \in a + 1 .. b}
    <2>1. a + i \in a + 1 .. b
      OBVIOUS
    <2> QED
      BY <1>1, <2>1
  <1>4. ASSUME NEW j \in a + 1 .. b PROVE s[j] \in {r[i] : i \in 1 .. b - a}
    <2>1. j - a \in 1 .. b - a /\ a + (j - a) = j
      OBVIOUS
    <2>2. r[j - a] = s[j]
      BY <1>1, <2>1
    <2> QED
      BY <2>1, <2>2
  <1>5. Range(r) = {s[i] : i \in a + 1 .. b}
    BY <1>2, <1>3, <1>4
  <1> QED
    BY <1>5 DEF r

\* The first packets of the burst.
LEMMA GroupRange ==
    ASSUME BridgeInv, OrderInv, NEW n \in Nat, n <= Len(burst)
    PROVE  /\ Range(SubSeq(burst, 1, n)) = Past + 1 .. Past + n
           /\ IsFiniteSet(Past + 1 .. Past + n) /\ Past + 1 .. Past + n \in SUBSET Nat
  <1> DEFINE g == SubSeq(burst, 1, n)
  <1>1. burst \in Seq(Nat)
    BY DEF BridgeInv, BufferTypes
  <1>2. g \in Seq(Nat) /\ Len(g) = n /\ \A i \in 1 .. n : g[i] = burst[i]
    BY <1>1
  <1>3. \A i \in 1 .. n : i \in 1 .. Len(burst)
    BY <1>1
  <1> HIDE DEF g
  <1>4. \A i \in 1 .. Len(g) : g[i] = Past + i
    BY <1>2, <1>3 DEF OrderInv
  <1>5. Range(g) = Past + 1 .. Past + Len(g)
    BY <1>2, <1>4, PastType, RangeInterval
  <1>6. Past + 1 \in Int /\ Past + n \in Int /\ Past \in Nat
    BY PastType
  <1>7. IsFiniteSet(Past + 1 .. Past + n)
    BY <1>6, FS_Interval
  <1>8. Past + 1 .. Past + n \in SUBSET Nat
    BY <1>6
  <1> QED
    BY <1>2, <1>5, <1>7, <1>8 DEF g

\* The packets of the buffer that are not dealt with.
LEMMA UnsentRange ==
    ASSUME BridgeInv, OrderInv
    PROVE  /\ Range(Unsent) = {mbuf_tx[i] : i \in return_value + 1 .. Len(mbuf_tx)}
           /\ Range(Unsent) \subseteq 1 .. Past /\ IsFiniteSet(Range(Unsent))
  <1>1. mbuf_tx \in Seq(Nat) /\ return_value \in Nat /\ return_value <= Len(mbuf_tx)
    BY DEF BridgeInv, BufferTypes
  <1>2. Range(Unsent) = {mbuf_tx[i] : i \in return_value + 1 .. Len(mbuf_tx)}
    <2>1. Len(mbuf_tx) \in Nat /\ Len(mbuf_tx) <= Len(mbuf_tx)
      BY <1>1
    <2> QED
      BY <1>1, <2>1, SliceRange DEF Unsent
  <1>3. Range(Unsent) \subseteq 1 .. Past
    <2>1. \A i \in return_value + 1 .. Len(mbuf_tx) : i \in 1 .. Len(mbuf_tx)
      BY <1>1, PastType
    <2>2. \A i \in return_value + 1 .. Len(mbuf_tx) : mbuf_tx[i] \in 1 .. Past
      BY <2>1 DEF OrderInv
    <2> QED
      BY <1>2, <2>2
  <1>4. IsFiniteSet(1 .. Past)
    <2>1. 1 \in Int /\ Past \in Int
      BY PastType
    <2> QED
      BY <2>1, FS_Interval
  <1> QED
    BY <1>2, <1>3, <1>4, FS_Subset

\* The size of the next group.
LEMMA GroupSize ==
    ASSUME BridgeInv, NextGroup, burst # <<>>
    PROVE  /\ ready' \in Nat /\ ready' <= Len(burst) /\ ready' <= Group
           /\ stats' = [stats EXCEPT !.rx_b = @ + Bytes(Range(SubSeq(burst, 1, ready')))]
  <1>1. /\ ready' = IF Len(burst) >= Group THEN Group ELSE 1
        /\ stats' = [stats EXCEPT !.rx_b = @ + Bytes(Range(SubSeq(burst, 1, ready')))]
    BY DEF NextGroup
  <1>2. burst \in Seq(Nat)
    BY DEF BridgeInv, BufferTypes
  <1>3. Len(burst) \in Nat /\ Len(burst) >= 1
    BY <1>2
  <1> QED
    BY <1>1, <1>3, BridgeAssumption

\* The types of the counters.
LEMMA NextStatTypes ==
    ASSUME BridgeInv, OrderInv, StatTypes, [Next]_vars
    PROVE  StatTypes'
  <1>t. /\ Len(burst) \in Nat /\ Len(mbuf_tx) \in Nat
        /\ return_value \in Nat /\ return_value <= Len(mbuf_tx)
        /\ mbuf_tx \in Seq(Nat) /\ burst \in Seq(Nat)
    BY PastType DEF BridgeInv, BufferTypes
  <1>1. CASE stats' = stats
    BY <1>1 DEF StatTypes
  <1>2. CASE CountSent
    <2>1. stats.tx + return_value \in Nat
      BY <1>t DEF StatTypes
    <2>2. stats' = [stats EXCEPT !.tx = stats.tx + return_value]
      BY <1>2 DEF CountSent
    <2> QED
      BY <2>1, <2>2 DEF StatTypes
  <1>3. CASE CountRefused
    <2>1. Len(mbuf_tx) - return_value \in Nat
      BY <1>t
    <2> QED
      BY <1>3, <2>1 DEF CountRefused, StatTypes
  <1>4. CASE FreeRefused
    <2>1. LenOf(mbuf_tx[return_value + 1]) \in Nat
      BY <1>4, <1>t DEF FreeRefused, LenOf
    <2> QED
      BY SMTT(30), <1>4, <2>1 DEF FreeRefused, StatTypes
  <1>5. CASE CountReceived
    <2>1. stats.rx + Len(burst) \in Nat
      BY <1>t DEF StatTypes
    <2>2. stats' = [stats EXCEPT !.rx = stats.rx + Len(burst)]
      BY <1>5 DEF CountReceived
    <2> QED
      BY <2>1, <2>2 DEF StatTypes
  <1>6. CASE NextGroup
    <2>1. CASE burst = <<>>
      BY <1>6, <2>1 DEF NextGroup, StatTypes
    <2>2. CASE burst # <<>>
      <3>1. Bytes(Range(SubSeq(burst, 1, ready'))) \in Nat
        BY <1>6, <2>2, GroupSize, GroupRange, BytesFinite
      <3> QED
        BY SMTT(30), <1>6, <2>2, <3>1, GroupSize DEF StatTypes
    <2> QED
      BY <2>1, <2>2
  <1>7. CASE FilterMatch
    BY <1>7 DEF FilterMatch, StatTypes
  <1>8. CASE FilterFree
    <2>1. Head(burst) \in Nat
      BY <1>8, HeadLeaves
    <2> QED
      BY SMTT(30), <1>8, <2>1 DEF FilterFree, StatTypes, LenOf
  <1>9. CASE LoopTop \/ SendBurst \/ SendReturns \/ RxBurst \/ GroupDone \/ FilterForward
             \/ NicDone \/ SlaveCrash \/ SlaveRestart \/ UNCHANGED vars
    BY <1>9, <1>1 DEF LoopTop, SendBurst, SendReturns, RxBurst, GroupDone, FilterForward,
       NicDone, SlaveCrash, SlaveRestart, vars
  <1> QED
    BY <1>2, <1>3, <1>4, <1>5, <1>6, <1>7, <1>8, <1>9 DEF Next, SlaveStep

\* BytesBalance for numbers: received, filtered, dropped, on the wire, unsent and
\* in the group.
Balanced(rx, f, d, w, u, g) == rx = f + d + w + u + g

\* The bytes of the wire, of the buffer and of the group at hand.
WireBytes == Bytes(Range(wire))
UnsentBytes == Bytes(Range(Unsent))
GroupBytes == Bytes(Range(SubSeq(burst, 1, ready)))

BalanceInv == Balanced(stats.rx_b, stats.filtered_b, stats.dropped_b,
                       WireBytes, UnsentBytes, GroupBytes)

\* How bytes move: from the buffer to the wire and the dropped ones, and from the
\* group to the filtered ones and the buffer.
LEMMA Balances ==
    ASSUME NEW rx \in Nat, NEW f \in Nat, NEW d \in Nat, NEW w \in Nat, NEW u \in Nat,
           NEW g \in Nat, NEW x \in Nat
    PROVE  /\ Balanced(rx, f, d, w, u + x, g) => Balanced(rx, f, d, w + x, u, g)
           /\ Balanced(rx, f, d, w, u + x, g) => Balanced(rx, f, d + x, w, u, g)
           /\ Balanced(rx, f, d, w, u, g + x) => Balanced(rx, f + x, d, w, u, g)
           /\ Balanced(rx, f, d, w, u, g + x) => Balanced(rx, f, d, w, u + x, g)
           /\ Balanced(rx, f, d, w, u, 0) => Balanced(rx + x, f, d, w, u, x)
  BY DEF Balanced

\* The bytes are numbers.
LEMMA ByteTypes ==
    ASSUME BridgeInv, OrderInv, FateInv
    PROVE  WireBytes \in Nat /\ UnsentBytes \in Nat /\ GroupBytes \in Nat
  <1>1. Range(wire) \in SUBSET Nat /\ IsFiniteSet(Range(wire))
    BY FatesFinite, PastType
  <1>2. Range(Unsent) \in SUBSET Nat /\ IsFiniteSet(Range(Unsent))
    BY UnsentRange, PastType
  <1>3. ready \in Nat /\ ready <= Len(burst)
    BY DEF BridgeInv, BufferTypes
  <1>4. GroupBytes \in Nat
    BY <1>3, GroupRange, BytesFinite DEF GroupBytes
  <1> QED
    BY <1>1, <1>2, <1>4, BytesFinite DEF WireBytes, UnsentBytes

\* The head of the burst leaves the group.
LEMMA GroupShrinks ==
    ASSUME BridgeInv, OrderInv, FilterFree \/ FilterForward
    PROVE  /\ GroupBytes = GroupBytes' + LenOf(Past + 1)
           /\ GroupBytes' \in Nat /\ LenOf(Past + 1) \in Nat
  <1>1. /\ ready \in Nat /\ ready <= Len(burst) /\ ready > 0 /\ ready' = ready - 1
        /\ burst' = Tail(burst) /\ Past \in Nat /\ burst \in Seq(Nat) /\ Len(burst) >= 1
    BY HeadLeaves DEF BridgeInv, BufferTypes
  <1>2. \A i \in 1 .. Len(burst) : burst[i] = Past + i
    BY DEF OrderInv
  <1> DEFINE old == Past + 1 .. Past + ready
             new == Past + 2 .. Past + ready
             g == SubSeq(burst', 1, ready')
  <1>3. GroupBytes = Bytes(old)
    BY <1>1, GroupRange DEF GroupBytes
  <1>4. Range(g) = new
    <2>t. /\ burst' \in Seq(Nat) /\ Len(burst') = Len(burst) - 1
          /\ \A i \in 1 .. Len(burst') : burst'[i] = burst[i + 1]
      BY HeadLeaves
    <2>l. ready - 1 \in Nat /\ ready - 1 <= Len(burst')
      BY <1>1, <2>t
    <2>s. /\ g \in Seq(Nat) /\ Len(g) = ready - 1
          /\ \A i \in 1 .. ready - 1 : g[i] = burst'[i]
      BY <1>1, <2>t, <2>l
    <2>1. /\ g \in Seq(Nat) /\ Len(g) = ready - 1
          /\ \A i \in 1 .. ready - 1 : g[i] = burst[i + 1]
      <3>1. \A i \in 1 .. ready - 1 : i \in 1 .. Len(burst')
        BY <2>t, <2>l
      <3> QED
        BY <2>t, <2>s, <3>1
    <2>2. ASSUME NEW i \in 1 .. ready - 1 PROVE burst[i + 1] = Past + 1 + i
      <3>1. i + 1 \in 1 .. Len(burst)
        BY <1>1
      <3>2. burst[i + 1] = Past + (i + 1)
        BY <1>2, <3>1
      <3> QED
        BY <1>1, <3>2
    <2> HIDE DEF g
    <2>3. \A i \in 1 .. Len(g) : g[i] = Past + 1 + i
      BY <2>1, <2>2
    <2>4. Past + 1 \in Nat
      BY <1>1
    <2>5. Range(g) = Past + 1 + 1 .. Past + 1 + Len(g)
      BY <2>1, <2>3, <2>4, RangeInterval
    <2>6. Past + 1 + 1 = Past + 2 /\ Past + 1 + Len(g) = Past + ready
      BY <1>1, <2>1
    <2> QED
      BY <2>5, <2>6
  <1>5. GroupBytes' = Bytes(new)
    BY <1>4 DEF GroupBytes
  <1>6. old = new \cup {Past + 1} /\ new \cap {Past + 1} = {}
    BY <1>1
  <1>7. /\ new \in SUBSET Nat /\ {Past + 1} \in SUBSET Nat /\ Past + 1 \in Nat
        /\ IsFiniteSet(new) /\ IsFiniteSet({Past + 1})
    <2>1. Past + 2 \in Int /\ Past + ready \in Int
      BY <1>1
    <2>2. new \in SUBSET Nat /\ {Past + 1} \in SUBSET Nat /\ Past + 1 \in Nat
      BY <1>1
    <2> QED
      BY <2>1, <2>2, FS_Interval, FS_Singleton
  <1> HIDE DEF old, new
  <1>8. Bytes(old) = Bytes(new) + Bytes({Past + 1}) /\ Bytes(new) \in Nat
    BY <1>6, <1>7, BytesAddUp
  <1>9. Bytes({Past + 1}) = LenOf(Past + 1) /\ LenOf(Past + 1) \in Nat
    BY <1>7, BytesOfOne
  <1> QED
    BY <1>3, <1>5, <1>8, <1>9

\* Every step keeps the balance of the bytes, but the death of the slave.
LEMMA NextBalance ==
    ASSUME BridgeInv, OrderInv, FateInv, StatTypes, GroupInv, BalanceInv,
           [Next]_vars, ~SlaveCrash
    PROVE  BalanceInv'
  <1>s. stats.rx_b \in Nat /\ stats.filtered_b \in Nat /\ stats.dropped_b \in Nat
    BY DEF StatTypes
  <1>t. WireBytes \in Nat /\ UnsentBytes \in Nat /\ GroupBytes \in Nat
    BY ByteTypes
  <1>r. /\ mbuf_tx \in Seq(Nat) /\ return_value \in Nat /\ return_value <= Len(mbuf_tx)
        /\ Len(mbuf_tx) \in Nat /\ Len(mbuf_tx) <= Len(mbuf_tx)
    BY DEF BridgeInv, BufferTypes
  <1>1. CASE /\ UNCHANGED <<mbuf_tx, return_value, burst, ready, wire>>
             /\ stats'.rx_b = stats.rx_b /\ stats'.filtered_b = stats.filtered_b
             /\ stats'.dropped_b = stats.dropped_b
    BY <1>1 DEF BalanceInv, WireBytes, UnsentBytes, GroupBytes, Unsent
  <1>2. CASE LoopTop \/ CountSent \/ CountRefused \/ CountReceived \/ GroupDone
             \/ FilterMatch \/ NicDone \/ SlaveRestart \/ UNCHANGED vars
    <2>1. UNCHANGED <<mbuf_tx, return_value, burst, ready, wire>>
      BY <1>2 DEF LoopTop, CountSent, CountRefused, CountReceived, GroupDone, FilterMatch,
         NicDone, SlaveRestart, vars, slaveVars, history
    <2>2. /\ stats'.rx_b = stats.rx_b /\ stats'.filtered_b = stats.filtered_b
          /\ stats'.dropped_b = stats.dropped_b
      BY <1>2 DEF LoopTop, CountSent, CountRefused, CountReceived, GroupDone, FilterMatch,
         NicDone, SlaveRestart, vars, StatTypes
    <2> QED
      BY <1>1, <2>1, <2>2
  <1>3. CASE SendBurst
    <2>1. PICK k \in 0 .. Len(mbuf_tx) :
              /\ return_value' = k
              /\ Range(wire') = Range(wire) \cup {mbuf_tx[i] : i \in 1 .. k}
      BY <1>3, SendBurstStep
    <2> DEFINE taken == {mbuf_tx[i] : i \in 1 .. k}
               refused == {mbuf_tx[i] : i \in k + 1 .. Len(mbuf_tx)}
    <2>2. /\ UNCHANGED <<mbuf_tx, burst, ready, stats>> /\ ~Sending /\ return_value = 0
      BY <1>3 DEF SendBurst, Sending, BridgeInv, LoopInv
    <2>3. Range(mbuf_tx) = taken \cup refused /\ taken \cap refused = {}
      BY BufferSplits
    <2>4. Range(Unsent) = Range(mbuf_tx)
      <3>1. return_value + 1 = 1
        BY <2>2
      <3> QED
        BY <1>r, <3>1, UnsentRange, RangeByPlace
    <2>5. Range(Unsent') = refused
      <3>1. k \in Nat /\ k <= Len(mbuf_tx)
        BY <1>r
      <3>2. Unsent' = SubSeq(mbuf_tx, k + 1, Len(mbuf_tx))
        BY <2>1, <2>2 DEF Unsent
      <3> QED
        BY <1>r, <3>1, <3>2, SliceRange
    <2>6. Range(mbuf_tx) = Buffered /\ Range(wire) \cap Buffered = {}
      BY <2>2 DEF Buffered, FateInv, OneFate
    <2> HIDE DEF taken, refused
    <2>7. IsFiniteSet(Buffered) /\ Buffered \in SUBSET Nat
      BY FatesFinite, PastType
    <2>8. /\ taken \in SUBSET Nat /\ IsFiniteSet(taken)
          /\ refused \in SUBSET Nat /\ IsFiniteSet(refused)
          /\ Range(wire) \in SUBSET Nat /\ IsFiniteSet(Range(wire))
      BY <2>3, <2>6, <2>7, FS_Subset, FatesFinite, PastType
    <2>9. UnsentBytes = UnsentBytes' + Bytes(taken) /\ UnsentBytes' \in Nat /\ Bytes(taken) \in Nat
      <3>1. Bytes(refused \cup taken) = Bytes(refused) + Bytes(taken)
            /\ Bytes(refused) \in Nat /\ Bytes(taken) \in Nat
        BY <2>3, <2>8, BytesAddUp
      <3>2. refused \cup taken = Range(Unsent)
        BY <2>3, <2>4
      <3> QED
        BY <2>5, <3>1, <3>2 DEF UnsentBytes
    <2>10. WireBytes' = WireBytes + Bytes(taken)
      <3>1. Range(wire) \cap taken = {}
        BY <2>3, <2>6
      <3> QED
        BY <2>1, <2>8, <3>1, BytesAddUp DEF WireBytes, taken
    <2>11. GroupBytes' = GroupBytes
      BY <2>2 DEF GroupBytes
    <2>12. Balanced(stats.rx_b, stats.filtered_b, stats.dropped_b, WireBytes,
                    UnsentBytes' + Bytes(taken), GroupBytes)
      BY <2>9 DEF BalanceInv
    <2>13. Balanced(stats.rx_b, stats.filtered_b, stats.dropped_b, WireBytes + Bytes(taken),
                    UnsentBytes', GroupBytes)
      BY <1>s, <1>t, <2>9, <2>12, Balances
    <2> QED
      BY <2>2, <2>10, <2>11, <2>13 DEF BalanceInv
  <1>4. CASE FreeRefused
    <2>1. /\ return_value < Len(mbuf_tx) /\ return_value' = return_value + 1
          /\ UNCHANGED <<mbuf_tx, burst, ready, wire>>
      BY <1>4 DEF FreeRefused, history
    <2> DEFINE x == mbuf_tx[return_value + 1]
               tail == {mbuf_tx[i] : i \in return_value + 2 .. Len(mbuf_tx)}
    <2>2. /\ stats'.rx_b = stats.rx_b /\ stats'.filtered_b = stats.filtered_b
          /\ stats'.dropped_b = stats.dropped_b + LenOf(x)
      BY <1>4 DEF FreeRefused, StatTypes
    <2>3. Range(Unsent) = tail \cup {x} /\ tail \cap {x} = {} /\ x \in Nat
      <3>1. /\ return_value + 1 .. Len(mbuf_tx) =
                  (return_value + 2 .. Len(mbuf_tx)) \cup {return_value + 1}
            /\ return_value + 1 \in 1 .. Len(mbuf_tx)
        BY <1>r, <2>1
      <3>2. ASSUME NEW i \in return_value + 2 .. Len(mbuf_tx) PROVE mbuf_tx[i] # x
        <4>1. i \in 1 .. Len(mbuf_tx) /\ return_value + 1 < i
          BY <1>r
        <4>2. x < mbuf_tx[i]
          BY <3>1, <4>1 DEF OrderInv
        <4>3. x \in Nat /\ mbuf_tx[i] \in Nat
          BY <1>r, <3>1, <4>1
        <4> QED
          BY <4>2, <4>3
      <3>3. x \in Nat
        BY <1>r, <3>1
      <3>4. Range(Unsent) = {mbuf_tx[i] : i \in return_value + 1 .. Len(mbuf_tx)}
        BY UnsentRange
      <3> QED
        BY <3>1, <3>2, <3>3, <3>4
    <2>4. Range(Unsent') = tail
      <3>1. /\ return_value' \in Nat /\ return_value' <= Len(mbuf_tx)
            /\ return_value' + 1 = return_value + 2
        BY <1>r, <2>1
      <3>2. Unsent' = SubSeq(mbuf_tx, return_value' + 1, Len(mbuf_tx))
        BY <2>1 DEF Unsent
      <3>3. Range(Unsent') = {mbuf_tx[i] : i \in return_value' + 1 .. Len(mbuf_tx)}
        BY <1>r, <3>1, <3>2, SliceRange
      <3> QED
        BY <3>1, <3>3
    <2> HIDE DEF x, tail
    <2>5. /\ tail \in SUBSET Nat /\ IsFiniteSet(tail)
          /\ {x} \in SUBSET Nat /\ IsFiniteSet({x})
      <3>1. Range(Unsent) \in SUBSET Nat /\ IsFiniteSet(Range(Unsent))
        BY UnsentRange, PastType
      <3> QED
        BY <2>3, <3>1, FS_Subset
    <2>6. UnsentBytes = UnsentBytes' + LenOf(x) /\ UnsentBytes' \in Nat /\ LenOf(x) \in Nat
      <3>1. Bytes(tail \cup {x}) = Bytes(tail) + Bytes({x}) /\ Bytes(tail) \in Nat
        BY <2>3, <2>5, BytesAddUp
      <3>2. Bytes({x}) = LenOf(x) /\ LenOf(x) \in Nat
        BY <2>3, BytesOfOne
      <3> QED
        BY <2>3, <2>4, <3>1, <3>2 DEF UnsentBytes
    <2>7. GroupBytes' = GroupBytes /\ WireBytes' = WireBytes
      BY <2>1 DEF GroupBytes, WireBytes
    <2>8. Balanced(stats.rx_b, stats.filtered_b, stats.dropped_b,
                   WireBytes, UnsentBytes' + LenOf(x), GroupBytes)
      BY <2>6 DEF BalanceInv
    <2>9. Balanced(stats.rx_b, stats.filtered_b, stats.dropped_b + LenOf(x),
                   WireBytes, UnsentBytes', GroupBytes)
      BY <1>s, <1>t, <2>6, <2>8, Balances
    <2> QED
      BY <2>2, <2>7, <2>9 DEF BalanceInv
  <1>5. CASE SendReturns
    <2>1. /\ return_value = Len(mbuf_tx) /\ mbuf_tx' = <<>> /\ return_value' = 0
          /\ UNCHANGED <<burst, ready, wire, stats>>
      BY <1>5 DEF SendReturns, history
    <2>2. Range(Unsent) = {}
      <3>1. return_value + 1 .. Len(mbuf_tx) = {}
        BY <1>r, <2>1
      <3> QED
        BY <3>1, UnsentRange
    <2>3. Range(Unsent') = {}
      <3>1. Unsent' = <<>>
        BY <2>1 DEF Unsent
      <3> QED
        BY <3>1 DEF Range
    <2> QED
      BY <2>1, <2>2, <2>3 DEF BalanceInv, UnsentBytes, WireBytes, GroupBytes
  <1>6. CASE RxBurst
    <2>1. UNCHANGED <<mbuf_tx, return_value, ready, wire, stats>>
      BY <1>6 DEF RxBurst, history
    <2>2. ready = 0
      BY <1>6 DEF RxBurst, BridgeInv, LoopInv, BufferTypes
    <2>3. PICK n \in Nat : burst' \in Seq(Nat)
      BY <1>6, RxBurstStep
    <2>4. SubSeq(burst, 1, ready) = <<>> /\ SubSeq(burst', 1, ready') = <<>>
      BY <2>1, <2>2, <2>3 DEF BridgeInv, BufferTypes
    <2> QED
      BY <2>1, <2>4 DEF BalanceInv, UnsentBytes, WireBytes, GroupBytes, Unsent
  <1>7. CASE NextGroup
    <2>1. UNCHANGED <<mbuf_tx, return_value, burst, wire>>
      BY <1>7 DEF NextGroup, history
    <2>2. CASE burst = <<>>
      <3>1. stats' = stats /\ ready' = ready
        BY <1>7, <2>2 DEF NextGroup
      <3> QED
        BY <1>1, <2>1, <3>1
    <2>3. CASE burst # <<>>
      <3>1. /\ ready' \in Nat /\ ready' <= Len(burst)
            /\ stats' = [stats EXCEPT !.rx_b = @ + Bytes(Range(SubSeq(burst, 1, ready')))]
        BY <1>7, <2>3, GroupSize
      <3>2. GroupBytes' = Bytes(Range(SubSeq(burst, 1, ready'))) /\ GroupBytes' \in Nat
        BY <2>1, <3>1, GroupRange, BytesFinite DEF GroupBytes
      <3>3. /\ stats'.rx_b = stats.rx_b + GroupBytes'
            /\ stats'.filtered_b = stats.filtered_b /\ stats'.dropped_b = stats.dropped_b
        BY <3>1, <3>2 DEF StatTypes
      <3>4. GroupBytes = 0
        <4>1. ready = 0 /\ ready \in Nat /\ ready <= Len(burst)
          BY <1>7 DEF NextGroup, GroupInv, BridgeInv, BufferTypes
        <4>2. Range(SubSeq(burst, 1, ready)) = {}
          <5>1. Range(SubSeq(burst, 1, ready)) = Past + 1 .. Past + ready
            BY <4>1, GroupRange
          <5>2. Past + 1 .. Past + ready = {}
            BY <4>1, PastType
          <5> QED
            BY <5>1, <5>2
        <4> QED
          BY <4>2, BytesOfNone DEF GroupBytes
      <3>5. UnsentBytes' = UnsentBytes /\ WireBytes' = WireBytes
        BY <2>1 DEF UnsentBytes, WireBytes, Unsent
      <3>6. Balanced(stats.rx_b, stats.filtered_b, stats.dropped_b, WireBytes, UnsentBytes, 0)
        BY <3>4 DEF BalanceInv
      <3>7. Balanced(stats.rx_b + GroupBytes', stats.filtered_b, stats.dropped_b,
                     WireBytes, UnsentBytes, GroupBytes')
        BY <1>s, <1>t, <3>2, <3>6, Balances
      <3> QED
        BY <3>3, <3>5, <3>7 DEF BalanceInv
    <2> QED
      BY <2>2, <2>3
  <1>8. CASE FilterFree
    <2>1. UNCHANGED <<mbuf_tx, return_value, wire>>
      BY <1>8 DEF FilterFree, history
    <2>2. /\ stats'.rx_b = stats.rx_b /\ stats'.dropped_b = stats.dropped_b
          /\ stats'.filtered_b = stats.filtered_b + LenOf(Past + 1)
      BY <1>8, HeadLeaves DEF FilterFree, StatTypes
    <2>3. UnsentBytes' = UnsentBytes /\ WireBytes' = WireBytes
      BY <2>1 DEF UnsentBytes, WireBytes, Unsent
    <2>4. /\ GroupBytes = GroupBytes' + LenOf(Past + 1)
          /\ GroupBytes' \in Nat /\ LenOf(Past + 1) \in Nat
      BY <1>8, GroupShrinks
    <2>5. Balanced(stats.rx_b, stats.filtered_b, stats.dropped_b, WireBytes, UnsentBytes,
                   GroupBytes' + LenOf(Past + 1))
      BY <2>4 DEF BalanceInv
    <2>6. Balanced(stats.rx_b, stats.filtered_b + LenOf(Past + 1), stats.dropped_b,
                   WireBytes, UnsentBytes, GroupBytes')
      BY <1>s, <1>t, <2>4, <2>5, Balances
    <2> QED
      BY <2>2, <2>3, <2>6 DEF BalanceInv
  <1>9. CASE FilterForward
    <2>1. /\ UNCHANGED <<return_value, wire, stats>>
          /\ mbuf_tx' = Append(mbuf_tx, Past + 1) /\ return_value = 0
      <3>1. Head(burst) = Past + 1
        BY <1>9, HeadLeaves
      <3> QED
        BY <1>9, <3>1 DEF FilterForward, history, Sending, BridgeInv, LoopInv
    <2>2. Past + 1 \in Nat /\ Past \in Nat
      BY PastType
    <2>3. Range(Unsent') = Range(Unsent) \cup {Past + 1}
      <3>1. Unsent = mbuf_tx /\ Unsent' = mbuf_tx'
        BY <1>r, <2>1, <2>2 DEF Unsent
      <3> QED
        BY <1>r, <2>1, <2>2, <3>1, RangeAppend
    <2>4. UnsentBytes' = UnsentBytes + LenOf(Past + 1)
      <3>1. /\ Range(Unsent) \in SUBSET Nat /\ IsFiniteSet(Range(Unsent))
            /\ Range(Unsent) \cap {Past + 1} = {}
        BY <2>2, UnsentRange
      <3>2. {Past + 1} \in SUBSET Nat /\ IsFiniteSet({Past + 1})
        BY <2>2, FS_Singleton
      <3>3. Bytes(Range(Unsent) \cup {Past + 1}) = Bytes(Range(Unsent)) + Bytes({Past + 1})
        BY <3>1, <3>2, BytesAddUp
      <3> QED
        BY <2>2, <2>3, <3>3, BytesOfOne DEF UnsentBytes
    <2>5. WireBytes' = WireBytes
      BY <2>1 DEF WireBytes
    <2>6. /\ GroupBytes = GroupBytes' + LenOf(Past + 1)
          /\ GroupBytes' \in Nat /\ LenOf(Past + 1) \in Nat
      BY <1>9, GroupShrinks
    <2>7. Balanced(stats.rx_b, stats.filtered_b, stats.dropped_b, WireBytes, UnsentBytes,
                   GroupBytes' + LenOf(Past + 1))
      BY <2>6 DEF BalanceInv
    <2>8. Balanced(stats.rx_b, stats.filtered_b, stats.dropped_b, WireBytes,
                   UnsentBytes + LenOf(Past + 1), GroupBytes')
      BY <1>s, <1>t, <2>6, <2>7, Balances
    <2> QED
      BY <2>1, <2>4, <2>5, <2>8 DEF BalanceInv
  <1> QED
    BY <1>2, <1>3, <1>4, <1>5, <1>6, <1>7, <1>8, <1>9 DEF Next, SlaveStep

\* BytesBalance is the balance above, while no slave has died.
LEMMA BalanceMeaning == BytesBalance <=> (crashes = 0 => BalanceInv)
  BY DEF BytesBalance, BalanceInv, Balanced, WireBytes, UnsentBytes, GroupBytes

\* Deaths are not undone.
LEMMA NextBytes ==
    ASSUME BridgeInv, OrderInv, FateInv, StatTypes, GroupInv, BytesBalance, [Next]_vars
    PROVE  BytesBalance'
  <1> SUFFICES ASSUME crashes' = 0 PROVE BalanceInv'
    BY DEF BytesBalance, BalanceInv, Balanced, WireBytes, UnsentBytes, GroupBytes
  <1>1. ~SlaveCrash
    BY DEF SlaveCrash, BridgeInv, BufferTypes
  <1>2. crashes' = crashes
    BY <1>1 DEF Next, SlaveStep, LoopTop, SendBurst, CountSent, CountRefused, FreeRefused,
       SendReturns, RxBurst, CountReceived, NextGroup, GroupDone, FilterMatch, FilterFree,
       FilterForward, NicDone, SlaveRestart, vars
  <1> QED
    BY <1>1, <1>2, BalanceMeaning, NextBalance

-----------------------------------------------------------------------------
(* Groups and the remaining types.                                           *)

\* A group is never larger than Group, and done before the next one.
LEMMA NextGroups ==
    ASSUME BridgeInv, GroupInv, [Next]_vars
    PROVE  GroupInv'
  <1>t. ready \in Nat /\ Group \in Nat
    BY BridgeAssumption DEF BridgeInv, BufferTypes
  <1>1. CASE LoopTop \/ SendBurst \/ CountSent \/ CountRefused \/ FreeRefused
    BY <1>1 DEF LoopTop, SendBurst, CountSent, CountRefused, FreeRefused, GroupInv
  <1>2. CASE SendReturns
    BY <1>2 DEF SendReturns, GroupInv, BridgeInv, BufferTypes
  <1>3. CASE RxBurst
    <2>1. ready = 0 /\ ready' = ready
      BY <1>3 DEF RxBurst, BridgeInv, LoopInv, BufferTypes
    <2> QED
      BY <2>1 DEF GroupInv
  <1>4. CASE CountReceived \/ GroupDone \/ FilterMatch
    BY <1>4 DEF CountReceived, GroupDone, FilterMatch, GroupInv
  <1>5. CASE NextGroup
    <2>1. CASE burst = <<>>
      BY <1>5, <2>1 DEF NextGroup, GroupInv
    <2>2. CASE burst # <<>>
      <3>1. pc' = "filter"
        BY <1>5, <2>2 DEF NextGroup
      <3> QED
        BY <1>5, <2>2, <3>1, GroupSize DEF GroupInv
    <2> QED
      BY <2>1, <2>2
  <1>6. CASE FilterFree \/ FilterForward
    <2>1. ready' = ready - 1 /\ pc' \in {"filter", "send"}
      BY <1>6 DEF FilterFree, FilterForward
    <2> QED
      BY <1>t, <2>1 DEF GroupInv
  <1>7. CASE NicDone \/ SlaveRestart \/ UNCHANGED vars
    BY <1>7 DEF NicDone, slaveVars, SlaveRestart, vars, GroupInv
  <1>8. CASE SlaveCrash
    BY <1>8, <1>t DEF SlaveCrash, GroupInv
  <1> QED
    BY <1>1, <1>2, <1>3, <1>4, <1>5, <1>6, <1>7, <1>8 DEF Next, SlaveStep

\* The place in the loop, the clock and the engine's choice.
LEMMA NextRest ==
    ASSUME BridgeInv, RestTypes, [Next]_vars
    PROVE  RestTypes'
  <1>1. match' = match
    BY DEF Next, SlaveStep, LoopTop, SendBurst, CountSent, CountRefused, FreeRefused,
       SendReturns, RxBurst, CountReceived, NextGroup, GroupDone, FilterMatch, FilterFree,
       FilterForward, NicDone, SlaveCrash, SlaveRestart, vars
  <1>2. cur_tsc' \in 0 .. MaxTsc
    <2>1. CASE LoopTop
      BY <2>1, BridgeAssumption DEF LoopTop, Tick, RestTypes
    <2>2. CASE ~LoopTop
      <3>1. cur_tsc' = cur_tsc
        BY <2>2 DEF Next, SlaveStep, SendBurst, CountSent, CountRefused, FreeRefused,
           SendReturns, RxBurst, CountReceived, NextGroup, GroupDone, FilterMatch,
           FilterFree, FilterForward, NicDone, SlaveCrash, SlaveRestart, vars
      <3> QED
        BY <3>1 DEF RestTypes
    <2> QED
      BY <2>1, <2>2
  <1>3. \/ pc' = pc \/ pc' = back
        \/ pc' \in {"top", "send", "sent", "refused", "free", "rx", "received",
                   "group", "filter", "match", "dead"}
    BY DEF Next, SlaveStep, LoopTop, SendBurst, CountSent, CountRefused, FreeRefused,
       SendReturns, RxBurst, CountReceived, NextGroup, GroupDone, FilterMatch, FilterFree,
       FilterForward, NicDone, slaveVars, SlaveCrash, SlaveRestart, vars
  <1>4. back \in {"rx", "filter"}
    BY DEF BridgeInv, BufferTypes
  <1> QED
    BY <1>1, <1>2, <1>3, <1>4 DEF RestTypes

-----------------------------------------------------------------------------
(* The inductive invariant, and what it means.                               *)

\* Nothing is received, sent or counted when the loop starts.
LEMMA InitFlow == Init => FlowInv
  <1> SUFFICES ASSUME Init PROVE FlowInv
    OBVIOUS
  <1>1. BridgeInv /\ OrderInv /\ FateInv
    BY InitBridge, InitOrder, InitFate
  <1>2. StatInv
    <2>1. RxDue = 0 /\ TxDue = 0 /\ DropDue = 0
      BY DEF Init, RxDue, TxDue, DropDue
    <2>2. Cardinality(filtered) = 0 /\ Cardinality(dropped) = 0 /\ Len(wire) = 0
      BY FS_EmptySet DEF Init
    <2>3. StatTypes /\ stats.filtered = 0 /\ stats.rx = 0 /\ stats.tx = 0 /\ stats.dropped = 0
      BY DEF Init, StatTypes
    <2>4. RxMissed = 0 /\ TxMissed = 0 /\ DropMissed = 0
      BY <2>1, <2>2, <2>3 DEF Init, RxMissed, TxMissed, DropMissed
    <2>5. Behind(crashes) \in Nat
      BY BehindOneMore DEF Init
    <2> QED
      BY <2>2, <2>3, <2>4, <2>5 DEF StatInv, CountedInv
  <1>3. BytesBalance
    <2>1. wire = <<>> /\ Unsent = <<>> /\ SubSeq(burst, 1, ready) = <<>>
      BY DEF Init, Unsent
    <2>2. Range(wire) = {} /\ Range(Unsent) = {} /\ Range(SubSeq(burst, 1, ready)) = {}
      BY <2>1, RangeOfEmpty
    <2>3. stats.rx_b = 0 /\ stats.filtered_b = 0 /\ stats.dropped_b = 0
      BY DEF Init
    <2> QED
      BY <2>2, <2>3, BytesOfNone DEF BytesBalance
  <1>4. GroupInv /\ RestTypes
    BY BridgeAssumption DEF Init, GroupInv, RestTypes
  <1> QED
    BY <1>1, <1>2, <1>3, <1>4 DEF FlowInv

\* FlowInv is inductive: the buffers bound what is due, the order makes the sets of
\* packets as large as the sequences are long, and the fates keep the sets apart,
\* so that packets and bytes can be counted.
THEOREM FlowInductive == Spec => []FlowInv
  <1>1. FlowInv /\ [Next]_vars => FlowInv'
    <2> SUFFICES ASSUME FlowInv, [Next]_vars PROVE FlowInv'
      OBVIOUS
    <2>1. BridgeInv'
      <3>1. CASE SlaveStep
        BY <3>1, SendingBridge, FilteringBridge DEF SlaveStep, FlowInv
      <3>2. CASE NicDone \/ SlaveCrash \/ SlaveRestart
        BY <3>2, EnvironmentBridge DEF FlowInv
      <3>3. CASE UNCHANGED vars
        BY <3>3 DEF FlowInv, vars, BridgeInv, BufferTypes, BufferBounded, LoopInv,
                    MbufsAccounted, Sending
      <3> QED
        BY <3>1, <3>2, <3>3 DEF Next
    <2>2. OrderInv' /\ FateInv'
      BY NextOrder, NextFate DEF FlowInv
    <2>3. StatInv'
      BY NextStatTypes, NextCounted DEF FlowInv, StatInv
    <2>4. BytesBalance'
      BY NextBytes DEF FlowInv, StatInv
    <2>5. GroupInv' /\ RestTypes'
      BY NextGroups, NextRest DEF FlowInv
    <2> QED
      BY <2>1, <2>2, <2>3, <2>4, <2>5 DEF FlowInv
  <1> QED
    BY InitFlow, <1>1, PTL DEF Spec

\* The variables of the loop keep their types; in particular the pool never holds
\* more mbufs than it was created with.
THEOREM TypeCorrect == Spec => []TypeOK
  <1>1. FlowInv => TypeOK
    <2> SUFFICES ASSUME FlowInv PROVE TypeOK
      OBVIOUS
    <2>1. /\ mbuf_tx \in Seq(Nat) /\ return_value \in 0 .. Len(mbuf_tx) /\ burst \in Seq(Nat)
          /\ arrived \in 0 .. MaxPackets /\ pool \in Nat /\ nic \in Nat
          /\ crashes \in 0 .. MaxCrashes /\ back \in {"rx", "filter"} /\ ready \in Nat
      BY DEF FlowInv, BridgeInv, BufferTypes
    <2>2. ready \in 0 .. Group
      BY <2>1, BridgeAssumption DEF FlowInv, GroupInv
    <2>3. pool \in 0 .. NbMbufs
      BY <2>1, BridgeAssumption DEF FlowInv, BridgeInv, MbufsAccounted
    <2>4. wire \in Seq(Nat)
      BY DEF FlowInv, OrderInv
    <2>5. filtered \in SUBSET Nat /\ dropped \in SUBSET Nat /\ lost \in SUBSET Nat
      <3>1. \A S \in {filtered, dropped, lost} : S \subseteq 1 .. arrived
        BY FatesFinite DEF FlowInv
      <3>2. 1 .. arrived \subseteq Nat
        BY <2>1
      <3> QED
        BY <3>1, <3>2
    <2> QED
      BY <2>1, <2>2, <2>3, <2>4, <2>5 DEF TypeOK, FlowInv, StatInv, StatTypes, RestTypes
  <1> QED
    BY FlowInductive, <1>1, PTL

\* The bridge transmits packets in the order in which it received them.
THEOREM OrderIsKept == Spec => []OrderKept
  <1>1. FlowInv => OrderKept
    BY DEF FlowInv, OrderInv
  <1> QED
    BY FlowInductive, <1>1, PTL

\* Every packet has one fate, and the packet counters of port_statistics tell it,
\* short of at most the burst being counted and one burst for each death.
THEOREM PacketsAreAccounted == Spec => []PacketsAccounted
  <1>1. FlowInv => PacketsAccounted
    <2> SUFFICES ASSUME FlowInv PROVE PacketsAccounted
      OBVIOUS
    <2>i. BridgeInv /\ OrderInv /\ FateInv /\ StatTypes /\ CountedInv
      BY DEF FlowInv, StatInv
    <2> DEFINE rest == IF pc = "match" THEN Past + 2 .. arrived ELSE Past + 1 .. arrived
    <2>1. /\ Held = rest \cup Buffered
          /\ 1 .. arrived = Settled \cup rest /\ rest \cap Settled = {}
      BY <2>i, HeldPackets
    <2>2. /\ IsFiniteSet(rest) /\ IsFiniteSet(Buffered)
          /\ IsFiniteSet(Range(wire)) /\ IsFiniteSet(filtered)
          /\ IsFiniteSet(dropped) /\ IsFiniteSet(lost)
      <3>1. Past + 1 \in Int /\ Past + 2 \in Int /\ arrived \in Int
        BY <2>i, PastType
      <3>2. IsFiniteSet(rest)
        BY <3>1, FS_Interval
      <3> QED
        BY <2>i, <3>2, FatesFinite
    <2> HIDE DEF rest
    <2>3. OneFate(1 .. arrived, Range(wire), filtered, dropped, lost, Held)
      BY <2>i, <2>1 DEF FateInv, OneFate
    <2>4. IsFiniteSet(Held)
      BY <2>1, <2>2, FS_Union
    <2>5. arrived = Len(wire) + Cardinality(filtered) + Cardinality(dropped)
                       + Cardinality(lost) + Cardinality(Held)
      <3>1. Cardinality(lost \cup Held) = Cardinality(lost) + Cardinality(Held)
        BY <2>2, <2>3, <2>4, DisjointCount DEF OneFate
      <3>2. Cardinality(dropped \cup (lost \cup Held)) =
              Cardinality(dropped) + Cardinality(lost \cup Held)
        <4>1. IsFiniteSet(lost \cup Held)
          BY <2>2, <2>4, FS_Union
        <4>2. dropped \cap (lost \cup Held) = {}
          BY <2>3 DEF OneFate
        <4> QED
          BY <4>1, <4>2, <2>2, DisjointCount
      <3>3. Cardinality(filtered \cup (dropped \cup (lost \cup Held))) =
              Cardinality(filtered) + Cardinality(dropped \cup (lost \cup Held))
        <4>1. IsFiniteSet(dropped \cup (lost \cup Held))
          BY <2>2, <2>4, FS_Union
        <4>2. filtered \cap (dropped \cup (lost \cup Held)) = {}
          BY <2>3 DEF OneFate
        <4> QED
          BY <4>1, <4>2, <2>2, DisjointCount
      <3>4. Cardinality(Range(wire) \cup (filtered \cup (dropped \cup (lost \cup Held)))) =
              Cardinality(Range(wire)) + Cardinality(filtered \cup (dropped \cup (lost \cup Held)))
        <4>1. IsFiniteSet(filtered \cup (dropped \cup (lost \cup Held)))
          BY <2>2, <2>4, FS_Union
        <4>2. Range(wire) \cap (filtered \cup (dropped \cup (lost \cup Held))) = {}
          BY <2>3 DEF OneFate
        <4> QED
          BY <4>1, <4>2, <2>2, DisjointCount
      <3>5. 1 .. arrived = Range(wire) \cup (filtered \cup (dropped \cup (lost \cup Held)))
        BY <2>3 DEF OneFate
      <3>6. Cardinality(1 .. arrived) = arrived
        <4>1. 1 \in Int /\ arrived \in Int /\ arrived \in Nat
          BY <2>i, PastType
        <4>2. Cardinality(1 .. arrived) = IF 1 > arrived THEN 0 ELSE arrived - 1 + 1
          BY <4>1, FS_Interval
        <4> QED
          BY <4>1, <4>2
      <3>7. Cardinality(Range(wire)) = Len(wire)
        BY <2>i, FatesFinite
      <3>8. /\ Cardinality(lost) \in Nat /\ Cardinality(Held) \in Nat
            /\ Cardinality(dropped) \in Nat /\ Cardinality(filtered) \in Nat
            /\ Len(wire) \in Nat
        BY <2>i, <2>2, <2>4, FS_CardinalityType, PastType
      <3>9. arrived = Len(wire) + (Cardinality(filtered) + (Cardinality(dropped)
                        + (Cardinality(lost) + Cardinality(Held))))
        BY <3>1, <3>2, <3>3, <3>4, <3>5, <3>6, <3>7, Zenon
      <3> QED
        BY <3>8, <3>9, FiveCounts
    <2>6. /\ stats.tx \in Nat /\ stats.rx \in Nat /\ stats.dropped \in Nat
          /\ arrived \in Nat /\ Len(wire) \in Nat /\ Cardinality(dropped) \in Nat
          /\ RxDue \in Nat /\ TxDue \in Nat /\ DropDue \in Nat
          /\ RxDue + TxDue + DropDue <= MAX_PKT_BURST
          /\ RxMissed \in Nat /\ TxMissed \in Nat /\ DropMissed \in Nat
          /\ RxMissed + TxMissed + DropMissed <= Behind(crashes)
      BY <2>i, PastType, FatesFinite, DueTypes DEF StatTypes, CountedInv
    <2>7. /\ stats.rx <= arrived /\ stats.tx <= Len(wire) /\ stats.dropped <= Cardinality(dropped)
          /\ arrived - stats.rx = RxMissed + RxDue
          /\ Len(wire) - stats.tx = TxMissed + TxDue
          /\ Cardinality(dropped) - stats.dropped = DropMissed + DropDue
      <3>1. stats.rx <= arrived /\ arrived - stats.rx = RxMissed + RxDue
        <4>1. arrived \in Nat /\ stats.rx \in Nat /\ RxDue \in Nat
          BY <2>6
        <4>2. arrived - (stats.rx + RxDue) \in Nat
          BY <2>6 DEF RxMissed
        <4>3. stats.rx <= arrived /\ arrived - stats.rx = (arrived - (stats.rx + RxDue)) + RxDue
          BY <4>1, <4>2, CounterBehind
        <4> QED
          BY <4>3 DEF RxMissed
      <3>2. stats.tx <= Len(wire) /\ Len(wire) - stats.tx = TxMissed + TxDue
        <4>1. Len(wire) \in Nat /\ stats.tx \in Nat /\ TxDue \in Nat
          BY <2>6
        <4>2. Len(wire) - (stats.tx + TxDue) \in Nat
          BY <2>6 DEF TxMissed
        <4>3. stats.tx <= Len(wire) /\ Len(wire) - stats.tx = (Len(wire) - (stats.tx + TxDue)) + TxDue
          BY <4>1, <4>2, CounterBehind
        <4> QED
          BY <4>3 DEF TxMissed
      <3>3. /\ stats.dropped <= Cardinality(dropped)
            /\ Cardinality(dropped) - stats.dropped = DropMissed + DropDue
        <4>1. Cardinality(dropped) \in Nat /\ stats.dropped \in Nat /\ DropDue \in Nat
          BY <2>6
        <4>2. Cardinality(dropped) - (stats.dropped + DropDue) \in Nat
          BY <2>6 DEF DropMissed
        <4>3. stats.dropped <= Cardinality(dropped) /\ Cardinality(dropped) - stats.dropped = (Cardinality(dropped) - (stats.dropped + DropDue)) + DropDue
          BY <4>1, <4>2, CounterBehind
        <4> QED
          BY <4>3 DEF DropMissed
      <3> QED
        BY <3>1, <3>2, <3>3
    <2>u. Uncounted = (RxMissed + RxDue) + (TxMissed + TxDue) + (DropMissed + DropDue)
      BY <2>7 DEF Uncounted
    <2>8. Uncounted <= Behind(crashes) + (RxDue + TxDue + DropDue)
      <3>2. Behind(crashes) \in Nat
        <4>1. crashes \in Nat
          BY <2>i DEF BridgeInv, BufferTypes
        <4> QED
          BY <4>1, BehindOneMore
      <3> QED
        BY <2>6, <2>u, <3>2
    <2>9. Uncounted <= MAX_PKT_BURST *
            (crashes + IF pc \in {"received", "sent", "refused"} THEN 1 ELSE 0)
      <3>0. /\ crashes \in Nat /\ MAX_PKT_BURST \in Nat /\ Uncounted \in Int
            /\ Behind(crashes) \in Nat /\ Behind(crashes + 1) = Behind(crashes) + MAX_PKT_BURST
        <4>1. crashes \in Nat /\ MAX_PKT_BURST \in Nat
          BY <2>i, BridgeAssumption DEF BridgeInv, BufferTypes
        <4>2. Uncounted \in Int
          BY <2>6, <2>u
        <4> QED
          BY <4>1, <4>2, BehindOneMore
      <3>1. CASE pc \in {"received", "sent", "refused"}
        <4>1. Uncounted <= Behind(crashes + 1)
          BY <2>6, <2>8, <3>0
        <4> QED
          BY <3>1, <4>1 DEF Behind
      <3>2. CASE pc \notin {"received", "sent", "refused"}
        <4>1. RxDue = 0 /\ TxDue = 0 /\ DropDue = 0
          BY <3>2 DEF RxDue, TxDue, DropDue
        <4>2. Uncounted <= Behind(crashes)
          BY <2>8, <3>0, <4>1
        <4>3. crashes + 0 = crashes
          BY <3>0
        <4> QED
          BY <3>2, <4>2, <4>3 DEF Behind
      <3> QED
        BY <3>1, <3>2
    <2>10. 1 .. arrived = Range(wire) \cup filtered \cup dropped \cup lost \cup Held
      BY <2>3 DEF OneFate
    <2> QED
      BY <2>i, <2>5, <2>7, <2>9, <2>10 DEF PacketsAccounted, CountedInv
  <1> QED
    BY FlowInductive, <1>1, PTL

\* As long as no slave has died, every byte received is filtered, dropped, sent, in
\* the transmit buffer or in the group at hand.
THEOREM BytesAreBalanced == Spec => []BytesBalance
  <1>1. FlowInv => BytesBalance
    BY DEF FlowInv
  <1> QED
    BY FlowInductive, <1>1, PTL

=============================================================================
