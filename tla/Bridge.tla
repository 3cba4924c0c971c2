------------------------------- MODULE Bridge -------------------------------
(***************************************************************************)
(* The datapath of one slave: bridge_main_loop (bridge.c) and              *)
(* bridge_loop_optimized (bridge_optimized.c).  The loop drains the        *)
(* transmit buffer, receives a burst, asks the engine about each packet    *)
(* and counts what becomes of it in port_statistics, which lives in shared *)
(* memory and outlives the slave process.                                  *)
(*                                                                         *)
(* The two loops differ in how a burst is cut up: packet by packet         *)
(* (Group = 1, bridge.c), or in groups of four with the rest one by one    *)
(* (Group = 4, bridge_optimized.c).  A packet is its arrival number; its   *)
(* length is LenOf of that number, and whether the engine matches it is a  *)
(* free choice of the initial state.  The transmit buffer and the burst    *)
(* are private to the process, so a slave that dies takes them with it.    *)
(***************************************************************************)
EXTENDS Naturals, Sequences, FiniteSets, FiniteSetsExt, SequencesExt

CONSTANTS
    MAX_PKT_BURST,  \* capacity of mbuf_tx and of a received burst
    Group,          \* packets given to the engine at once
    NbMbufs,        \* mbufs of the port's pool
    MaxPackets,     \* bound: packets that ever arrive
    DrainTsc,       \* drain_tsc: BURST_TX_DRAIN_US in clock ticks
    MaxTsc,         \* bound: the clock saturates here
    MaxCrashes      \* bound: how often the slave dies

Packets == 1 .. MaxPackets

\* rte_pktmbuf_data_len: any assignment that tells packets apart will do.
LenOf(p) == p

ASSUME BridgeAssumption ==
    /\ MAX_PKT_BURST \in Nat \ {0}
    /\ Group \in 1 .. MAX_PKT_BURST
    /\ NbMbufs \in Nat
    /\ MaxPackets \in Nat
    /\ DrainTsc \in Nat
    /\ MaxTsc \in Nat /\ MaxTsc > DrainTsc
    /\ MaxCrashes \in Nat

VARIABLES
    pc,         \* where the slave is; "dead" between two processes
    back,       \* where bridge_send_burst returns to
    mbuf_tx,    \* slave_conf.mbuf_tx
    return_value,   \* bridge_send_burst: packets of mbuf_tx dealt with
    burst,      \* packets_burst, what is left of it
    ready,      \* packets of the current group still to be filtered
    cur_tsc,    \* the time stamp counter
    stats,      \* port_statistics[conf_id]
    match,      \* the packets that the engine matches
    arrived,    \* number of packets received so far
    pool,       \* free mbufs
    nic,        \* mbufs that the device has yet to send and give back
    wire,       \* history: the packets that were transmitted, in order
    filtered,   \* history: the packets that the engine matched
    dropped,    \* history: the packets that the device refused
    lost,       \* history: the packets that died with a slave
    crashes

slaveVars == <<pc, back, mbuf_tx, return_value, burst, ready>>
history == <<wire, filtered, dropped, lost>>
vars == <<pc, back, mbuf_tx, return_value, burst, ready, cur_tsc, stats, match,
          arrived, pool, nic, wire, filtered, dropped, lost, crashes>>

\* The bytes of a set of packets: each is a packet and a place in it.
BytesOf(S) == UNION {{p} \X (1 .. LenOf(p)) : p \in S}

\* The sum of the lengths of a set of packets.
Bytes(S) == Cardinality(BytesOf(S))

\* prev_tsc of both loops: set to 0 before the loop and never again.
prev_tsc == 0

Init ==
    /\ pc = "top" /\ back = "rx"
    /\ mbuf_tx = <<>> /\ return_value = 0 /\ burst = <<>> /\ ready = 0
    /\ cur_tsc = 0
    /\ stats = [tx |-> 0, rx |-> 0, filtered |-> 0, dropped |-> 0,
                rx_b |-> 0, filtered_b |-> 0, dropped_b |-> 0]
    /\ match \in SUBSET Packets
    /\ arrived = 0
    /\ pool = NbMbufs /\ nic = 0
    /\ wire = <<>> /\ filtered = {} /\ dropped = {} /\ lost = {}
    /\ crashes = 0

-----------------------------------------------------------------------------
(* The top of the loop: read the clock, drain mbuf_tx if it is time to.      *)

\* The clock moves on from one iteration to the next.
Tick == cur_tsc' = IF cur_tsc < MaxTsc THEN cur_tsc + 1 ELSE cur_tsc

\* A loop that sends only what fills the buffer.
LoopTopFullOnly ==
    /\ pc = "top"
    /\ Tick
    /\ pc' = "rx"
    /\ UNCHANGED <<back, mbuf_tx, return_value, burst, ready, stats, match,
                   arrived, pool, nic, history, crashes>>

LoopTop ==
    /\ pc = "top"
    /\ Tick
    /\ IF cur_tsc' - prev_tsc > DrainTsc /\ mbuf_tx # <<>>
       THEN pc' = "send" /\ back' = "rx"
       ELSE pc' = "rx" /\ UNCHANGED back
    /\ UNCHANGED <<mbuf_tx, return_value, burst, ready, stats, match, arrived,
                   pool, nic, history, crashes>>

\* The packets of the transmit buffer that are not dealt with yet.
Unsent == SubSeq(mbuf_tx, return_value + 1, Len(mbuf_tx))

\* bridge_send_burst: the device takes the first k packets of the buffer.
SendBurst ==
    /\ pc = "send"
    /\ \E k \in 0 .. Len(mbuf_tx) :
          /\ return_value' = k
          /\ wire' = wire \o SubSeq(mbuf_tx, 1, k)
          /\ dropped' = dropped \cup Range(SubSeq(mbuf_tx, k + 1, Len(mbuf_tx)))
          /\ nic' = nic + k
    /\ pc' = "sent"
    /\ UNCHANGED <<back, mbuf_tx, burst, ready, cur_tsc, stats, match, arrived,
                   pool, filtered, lost, crashes>>

\* ... which count as transmitted ...
CountSent ==
    /\ pc = "sent"
    /\ stats' = [stats EXCEPT !.tx = @ + return_value]
    /\ pc' = "refused"
    /\ UNCHANGED <<back, mbuf_tx, return_value, burst, ready, cur_tsc, match,
                   arrived, pool, nic, history, crashes>>

\* A bridge_send_burst that does not count what the device refused.
CountRefusedNot ==
    /\ pc = "refused"
    /\ pc' = "free"
    /\ UNCHANGED <<back, mbuf_tx, return_value, burst, ready, cur_tsc, stats,
                   match, arrived, pool, nic, history, crashes>>

\* ... and the others as dropped.
CountRefused ==
    /\ pc = "refused"
    /\ stats' = [stats EXCEPT !.dropped = @ + (Len(mbuf_tx) - return_value)]
    /\ pc' = "free"
    /\ UNCHANGED <<back, mbuf_tx, return_value, burst, ready, cur_tsc, match,
                   arrived, pool, nic, history, crashes>>

\* A loop of bridge_send_burst that counts the bytes and keeps the mbuf.
FreeRefusedLeak ==
    /\ pc = "free"
    /\ return_value < Len(mbuf_tx)
    /\ stats' = [stats EXCEPT !.dropped_b = @ + LenOf(mbuf_tx[return_value + 1])]
    /\ return_value' = return_value + 1
    /\ UNCHANGED <<pc, back, mbuf_tx, burst, ready, cur_tsc, match, arrived,
                   pool, nic, history, crashes>>

\* bridge_send_burst, the loop over the packets that were not taken.
FreeRefused ==
    /\ pc = "free"
    /\ return_value < Len(mbuf_tx)
    /\ stats' = [stats EXCEPT !.dropped_b = @ + LenOf(mbuf_tx[return_value + 1])]
    /\ pool' = pool + 1
    /\ return_value' = return_value + 1
    /\ UNCHANGED <<pc, back, mbuf_tx, burst, ready, cur_tsc, match, arrived, nic,
                   history, crashes>>

\* bridge_send_burst returns; its caller sets mbuf_tx.length to 0.
SendReturns ==
    /\ pc = "free"
    /\ return_value = Len(mbuf_tx)
    /\ mbuf_tx' = <<>>
    /\ return_value' = 0
    /\ pc' = back
    /\ UNCHANGED <<back, burst, ready, cur_tsc, stats, match, arrived, pool, nic,
                   history, crashes>>

-----------------------------------------------------------------------------
(* Receive a burst and look at its packets.                                  *)

\* rte_eth_rx_burst returns n packets, as many mbufs as the pool has at most.
RxBurst ==
    /\ pc = "rx"
    /\ \E n \in 0 .. Min({MAX_PKT_BURST, pool, MaxPackets - arrived}) :
          /\ burst' = [i \in 1 .. n |-> arrived + i]
          /\ arrived' = arrived + n
          /\ pool' = pool - n
          /\ pc' = IF n = 0 THEN "top" ELSE "received"
    /\ UNCHANGED <<back, mbuf_tx, return_value, ready, cur_tsc, stats, match, nic,
                   history, crashes>>

CountReceived ==
    /\ pc = "received"
    /\ stats' = [stats EXCEPT !.rx = @ + Len(burst)]
    /\ pc' = "group"
    /\ UNCHANGED <<back, mbuf_tx, return_value, burst, ready, cur_tsc, match,
                   arrived, pool, nic, history, crashes>>

\* "dont forget forget for 4 pkts": a group of which only one packet is counted.
NextGroupFirstOnly ==
    /\ pc = "group"
    /\ IF burst = <<>>
       THEN pc' = "top" /\ UNCHANGED <<ready, stats>>
       ELSE LET g == IF Len(burst) >= Group THEN Group ELSE 1
            IN  /\ stats' = [stats EXCEPT !.rx_b = @ + LenOf(Head(burst))]
                /\ ready' = g
                /\ pc' = "filter"
    /\ UNCHANGED <<back, mbuf_tx, return_value, burst, cur_tsc, match, arrived,
                   pool, nic, history, crashes>>

\* The next packets of the burst: a full group while there is one, then one by
\* one (RTE_ALIGN_FLOOR).  Their bytes are counted before they are filtered.
NextGroup ==
    /\ pc = "group"
    /\ IF burst = <<>>
       THEN pc' = "top" /\ UNCHANGED <<ready, stats>>
       ELSE LET g == IF Len(burst) >= Group THEN Group ELSE 1
            IN  /\ stats' = [stats EXCEPT
                        !.rx_b = @ + Bytes(Range(SubSeq(burst, 1, g)))]
                /\ ready' = g
                /\ pc' = "filter"
    /\ UNCHANGED <<back, mbuf_tx, return_value, burst, cur_tsc, match, arrived,
                   pool, nic, history, crashes>>

GroupDone ==
    /\ pc = "filter"
    /\ ready = 0
    /\ pc' = "group"
    /\ UNCHANGED <<back, mbuf_tx, return_value, burst, ready, cur_tsc, stats,
                   match, arrived, pool, nic, history, crashes>>

\* bridge_filter on a packet that the engine matches: count it ...
FilterMatch ==
    /\ pc = "filter"
    /\ ready > 0
    /\ Head(burst) \in match
    /\ stats' = [stats EXCEPT !.filtered = @ + 1]
    /\ filtered' = filtered \cup {Head(burst)}
    /\ pc' = "match"
    /\ UNCHANGED <<back, mbuf_tx, return_value, burst, ready, cur_tsc, match,
                   arrived, pool, nic, wire, dropped, lost, crashes>>

\* A matched packet that is freed again when it comes back to the caller.
FilterFreeTwice ==
    /\ pc = "match"
    /\ stats' = [stats EXCEPT !.filtered_b = @ + LenOf(Head(burst))]
    /\ pool' = pool + 2
    /\ burst' = Tail(burst)
    /\ ready' = ready - 1
    /\ pc' = "filter"
    /\ UNCHANGED <<back, mbuf_tx, return_value, cur_tsc, match, arrived, nic,
                   history, crashes>>

\* ... and its bytes, and free it.
FilterFree ==
    /\ pc = "match"
    /\ stats' = [stats EXCEPT !.filtered_b = @ + LenOf(Head(burst))]
    /\ pool' = pool + 1
    /\ burst' = Tail(burst)
    /\ ready' = ready - 1
    /\ pc' = "filter"
    /\ UNCHANGED <<back, mbuf_tx, return_value, cur_tsc, match, arrived, nic,
                   history, crashes>>

\* A bridge_add_packet that notices the full buffer one packet too late.
FilterForwardLate ==
    /\ pc = "filter"
    /\ ready > 0
    /\ Head(burst) \notin match
    /\ mbuf_tx' = Append(mbuf_tx, Head(burst))
    /\ burst' = Tail(burst)
    /\ ready' = ready - 1
    /\ IF Len(mbuf_tx) = MAX_PKT_BURST
       THEN pc' = "send" /\ back' = "filter"
       ELSE UNCHANGED <<pc, back>>
    /\ UNCHANGED <<return_value, cur_tsc, stats, match, arrived, pool, nic,
                   history, crashes>>

\* bridge_add_packet that puts the packet in front of the buffer.
FilterForwardFront ==
    /\ pc = "filter"
    /\ ready > 0
    /\ Head(burst) \notin match
    /\ mbuf_tx' = <<Head(burst)>> \o mbuf_tx
    /\ burst' = Tail(burst)
    /\ ready' = ready - 1
    /\ IF Len(mbuf_tx') = MAX_PKT_BURST
       THEN pc' = "send" /\ back' = "filter"
       ELSE UNCHANGED <<pc, back>>
    /\ UNCHANGED <<return_value, cur_tsc, stats, match, arrived, pool, nic,
                   history, crashes>>

\* bridge_filter on any other packet: bridge_add_packet, which sends the buffer
\* when it is full.
FilterForward ==
    /\ pc = "filter"
    /\ ready > 0
    /\ Head(burst) \notin match
    /\ mbuf_tx' = Append(mbuf_tx, Head(burst))
    /\ burst' = Tail(burst)
    /\ ready' = ready - 1
    /\ IF Len(mbuf_tx') = MAX_PKT_BURST
       THEN pc' = "send" /\ back' = "filter"
       ELSE UNCHANGED <<pc, back>>
    /\ UNCHANGED <<return_value, cur_tsc, stats, match, arrived, pool, nic,
                   history, crashes>>

SlaveStep ==
    \/ LoopTop \/ SendBurst \/ CountSent \/ CountRefused \/ FreeRefused
    \/ SendReturns \/ RxBurst \/ CountReceived \/ NextGroup \/ GroupDone
    \/ FilterMatch \/ FilterFree \/ FilterForward

-----------------------------------------------------------------------------
(* The device, and the death of the slave.                                   *)

\* The device has sent a packet and gives its mbuf back.
NicDone ==
    /\ nic > 0
    /\ nic' = nic - 1
    /\ pool' = pool + 1
    /\ UNCHANGED <<slaveVars, cur_tsc, stats, match, arrived, history, crashes>>

\* bridge_send_burst is past rte_eth_tx_burst.
Sending == pc \in {"sent", "refused", "free"}

\* The packets that the process holds and whose fate is open.
Held == Range(IF pc = "match" THEN Tail(burst) ELSE burst)
            \cup (IF Sending THEN {} ELSE Range(mbuf_tx))

\* The slave dies.  Its buffers are gone, the mbufs in them do not go back to
\* the pool, and what it has not counted yet is never counted.
SlaveCrash ==
    /\ pc # "dead"
    /\ crashes < MaxCrashes
    /\ crashes' = crashes + 1
    /\ lost' = lost \cup Held
    /\ pc' = "dead"
    /\ mbuf_tx' = <<>> /\ return_value' = 0 /\ burst' = <<>> /\ ready' = 0
    /\ UNCHANGED <<back, cur_tsc, stats, match, arrived, pool, nic, wire,
                   filtered, dropped>>

\* The slave of the same configuration starts again (SlaveControl): a new
\* process with an empty buffer, and the statistics of the old one.
SlaveRestart ==
    /\ pc = "dead"
    /\ pc' = "top"
    /\ UNCHANGED <<back, mbuf_tx, return_value, burst, ready, cur_tsc, stats,
                   match, arrived, pool, nic, history, crashes>>

Next == SlaveStep \/ NicDone \/ SlaveCrash \/ SlaveRestart

\* The slave polls for ever and the device makes progress.
Fairness == WF_vars(SlaveStep) /\ WF_vars(NicDone) /\ WF_vars(SlaveRestart)

Spec == Init /\ [][Next]_vars

FairSpec == Spec /\ Fairness

-----------------------------------------------------------------------------
(* Properties.                                                              *)

\* The types; also, the clock, the pool and the bounds stay in their ranges: in
\* particular no path of bridge_filter or bridge_send_burst frees an mbuf that
\* is already in the pool.
TypeOK ==
    /\ pc \in {"top", "send", "sent", "refused", "free", "rx", "received",
              "group", "filter", "match", "dead"}
    /\ back \in {"rx", "filter"}
    /\ mbuf_tx \in Seq(Nat)
    /\ return_value \in 0 .. Len(mbuf_tx)
    /\ burst \in Seq(Nat)
    /\ ready \in 0 .. Group
    /\ cur_tsc \in 0 .. MaxTsc
    /\ stats \in [tx : Nat, rx : Nat, filtered : Nat, dropped : Nat,
                  rx_b : Nat, filtered_b : Nat, dropped_b : Nat]
    /\ match \in SUBSET Packets
    /\ arrived \in 0 .. MaxPackets
    /\ pool \in 0 .. NbMbufs
    /\ nic \in Nat
    /\ wire \in Seq(Nat)
    /\ filtered \in SUBSET Nat /\ dropped \in SUBSET Nat /\ lost \in SUBSET Nat
    /\ crashes \in 0 .. MaxCrashes

\* The packets of which a counter of port_statistics does not know yet, or never
\* will: rx, tx and dropped are written after the device was called.
Uncounted ==
    (arrived - stats.rx) + (Len(wire) - stats.tx)
        + (Cardinality(dropped) - stats.dropped)

\* Every packet has one fate: it is transmitted, filtered, dropped, still in the
\* slave, or died with one.  The packet counters of port_statistics tell these
\* fates, never too high; they are short of at most the burst that is being
\* counted and of one burst for each slave that died.
PacketsAccounted ==
    /\ 1 .. arrived = Range(wire) \cup filtered \cup dropped \cup lost \cup Held
    /\ arrived = Len(wire) + Cardinality(filtered) + Cardinality(dropped)
                    + Cardinality(lost) + Cardinality(Held)
    /\ stats.filtered = Cardinality(filtered)
    /\ stats.rx <= arrived
    /\ stats.tx <= Len(wire)
    /\ stats.dropped <= Cardinality(dropped)
    /\ Uncounted <= MAX_PKT_BURST *
            (crashes + IF pc \in {"received", "sent", "refused"} THEN 1 ELSE 0)

\* As long as no slave has died, the byte counters balance too: the bytes sent
\* are rx_b - dropped_b - filtered_b, less those still in the transmit buffer
\* or in the group at hand.
BytesBalance ==
    crashes = 0 =>
        stats.rx_b = stats.filtered_b + stats.dropped_b + Bytes(Range(wire))
                        + Bytes(Range(Unsent))
                        + Bytes(Range(SubSeq(burst, 1, ready)))

\* bridge_add_packet never writes past mbufs[MAX_PKT_BURST - 1], and the buffer
\* has room for one more packet whenever a packet is filtered.
BufferBounded ==
    /\ Len(mbuf_tx) <= MAX_PKT_BURST
    /\ pc = "send" \/ Sending \/ Len(mbuf_tx) < MAX_PKT_BURST

\* The bridge transmits packets in the order in which it received them, however
\* bursts, groups, refused packets and restarts fall.
OrderKept ==
    \A i, j \in 1 .. Len(wire) : i < j => wire[i] < wire[j]

\* Mbufs are neither freed twice nor kept: as long as no slave has died, all are
\* in the pool, in the device or in the slave; each death costs at most a burst
\* and a transmit buffer that is not full.
MbufsAccounted ==
    LET known == pool + nic + Len(burst) + (Len(mbuf_tx) - return_value)
    IN  /\ known <= NbMbufs
        /\ NbMbufs <= known + crashes * (2 * MAX_PKT_BURST - 1)

\* A packet does not stay in the transmit buffer for want of others to fill it.
Drained == mbuf_tx # <<>> ~> mbuf_tx = <<>>

=============================================================================
