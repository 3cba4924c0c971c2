----------------------------- MODULE IpcChannel -----------------------------
(***************************************************************************)
(* send_cmd and get_cmd (ipc.c), one step per access to memory that the    *)
(* processes share: a message is copied into a buffer of message_pool,     *)
(* the buffer goes through a ring, the message is copied out and the       *)
(* buffer goes back.  All lcores draw on the one pool.  Each lcore has two *)
(* rings: ring 0 from the master to the slave, ring 1 back.  A slave may   *)
(* die between any two steps; the master then drains both of its rings     *)
(* (init_slave_res, dpdk_mp.c) and starts another.                         *)
(*                                                                         *)
(* rte_ring and rte_mempool are DPDK's and taken to be atomic.  A get_cmd  *)
(* on an empty ring changes nothing and is not a step.                     *)
(***************************************************************************)
EXTENDS Naturals, Sequences, FiniteSets

CONSTANTS
    Lcores,
    Master,
    Bufs,           \* message_pool
    Msgs,
    RingSize,       \* usable entries of a ring
    None,
    MaxCrashes      \* bound: slaves that die

Actors == Lcores \cup {Master}
Rings == Lcores \X {0, 1}

ASSUME IpcAssumption ==
    /\ Master \notin Lcores
    /\ IsFiniteSet(Bufs)
    /\ None \notin Bufs
    /\ None \notin Msgs
    /\ None \notin Rings \X Msgs
    /\ RingSize \in Nat \ {0}
    /\ MaxCrashes \in Nat

VARIABLES
    pool,       \* free buffers
    ring,       \* the buffers in each ring
    content,    \* the message in each buffer
    at,         \* where an actor is in send_cmd or get_cmd
    hand,       \* bridge_msg_void: the buffer that an actor holds
    asked,      \* ring and *msg2send of the send that an actor is in
    got,        \* *msg2rcv, until get_cmd returns it to the caller
    alive,      \* slaves that run
    lost,       \* history: buffers that a slave held when it died
    crashes

vars == <<pool, ring, content, at, hand, asked, got, alive, lost, crashes>>

Init ==
    /\ pool = Bufs
    /\ ring = [r \in Rings |-> <<>>]
    /\ content = [b \in Bufs |-> None]
    /\ at = [a \in Actors |-> "idle"]
    /\ hand = [a \in Actors |-> None]
    /\ asked = [a \in Actors |-> None]
    /\ got = [a \in Actors |-> None]
    /\ alive = Lcores
    /\ lost = {}
    /\ crashes = 0

Running(a) == a = Master \/ a \in alive

\* fd = !is_master: the ring on which an actor sends for lcore l.
SendRing(a, l) == IF a = Master THEN <<l, 0>> ELSE <<l, 1>>

\* fd = !!is_master: the ring from which it receives.  The master reads the
\* other one as well to drain the rings of a dead slave.
ReceiveRings(a, l) ==
    CASE a # Master             -> {<<l, 0>>}
      [] a = Master /\ l \in alive    -> {<<l, 1>>}
      [] a = Master /\ l \notin alive -> {<<l, 0>>, <<l, 1>>}

-----------------------------------------------------------------------------
(* send_cmd                                                                  *)

SendCall(a, l, m) ==
    /\ Running(a)
    /\ a \in {l, Master}
    /\ at[a] = "idle"
    /\ asked' = [asked EXCEPT ![a] = <<SendRing(a, l), m>>]
    /\ at' = [at EXCEPT ![a] = "get"]
    /\ UNCHANGED <<pool, ring, content, hand, got, alive, lost, crashes>>

\* rte_mempool_get fails, for want of a free buffer or because the free ones
\* are in the caches of other lcores: return -1.
SendNoBuffer(a) ==
    /\ at[a] = "get"
    /\ at' = [at EXCEPT ![a] = "idle"]
    /\ asked' = [asked EXCEPT ![a] = None]
    /\ UNCHANGED <<pool, ring, content, hand, got, alive, lost, crashes>>

\* A pool that hands out a buffer which it keeps.
SendGetBufferShared(a) ==
    /\ at[a] = "get"
    /\ \E b \in pool : hand' = [hand EXCEPT ![a] = b]
    /\ at' = [at EXCEPT ![a] = "copy_in"]
    /\ UNCHANGED <<pool, ring, content, asked, got, alive, lost, crashes>>

SendGetBuffer(a) ==
    /\ at[a] = "get"
    /\ \E b \in pool :
          /\ pool' = pool \ {b}
          /\ hand' = [hand EXCEPT ![a] = b]
    /\ at' = [at EXCEPT ![a] = "copy_in"]
    /\ UNCHANGED <<ring, content, asked, got, alive, lost, crashes>>

SendCopy(a) ==
    /\ at[a] = "copy_in"
    /\ content' = [content EXCEPT ![hand[a]] = asked[a][2]]
    /\ at' = [at EXCEPT ![a] = "enqueue"]
    /\ UNCHANGED <<pool, ring, hand, asked, got, alive, lost, crashes>>

SendEnqueue(a) ==
    /\ at[a] = "enqueue"
    /\ Len(ring[asked[a][1]]) < RingSize
    /\ ring' = [ring EXCEPT ![asked[a][1]] = Append(@, hand[a])]
    /\ at' = [at EXCEPT ![a] = "idle"]
    /\ hand' = [hand EXCEPT ![a] = None]
    /\ asked' = [asked EXCEPT ![a] = None]
    /\ UNCHANGED <<pool, content, got, alive, lost, crashes>>

\* A send_cmd that returns from a full ring and keeps the buffer.
SendRingFullLeak(a) ==
    /\ at[a] = "enqueue"
    /\ Len(ring[asked[a][1]]) = RingSize
    /\ at' = [at EXCEPT ![a] = "idle"]
    /\ hand' = [hand EXCEPT ![a] = None]
    /\ asked' = [asked EXCEPT ![a] = None]
    /\ UNCHANGED <<pool, ring, content, got, alive, lost, crashes>>

\* rte_ring_enqueue fails: put the buffer back and return -1.
SendRingFull(a) ==
    /\ at[a] = "enqueue"
    /\ Len(ring[asked[a][1]]) = RingSize
    /\ pool' = pool \cup {hand[a]}
    /\ at' = [at EXCEPT ![a] = "idle"]
    /\ hand' = [hand EXCEPT ![a] = None]
    /\ asked' = [asked EXCEPT ![a] = None]
    /\ UNCHANGED <<ring, content, got, alive, lost, crashes>>

-----------------------------------------------------------------------------
(* get_cmd                                                                   *)

\* A get_cmd that gives the buffer back before it copies the message.
GetDequeueEarlyPut(a, r) ==
    /\ at[a] = "idle"
    /\ ring[r] # <<>>
    /\ hand' = [hand EXCEPT ![a] = Head(ring[r])]
    /\ pool' = pool \cup {Head(ring[r])}
    /\ ring' = [ring EXCEPT ![r] = Tail(@)]
    /\ at' = [at EXCEPT ![a] = "copy_out"]
    /\ UNCHANGED <<content, asked, got, alive, lost, crashes>>

GetDequeue(a, r) ==
    /\ at[a] = "idle"
    /\ ring[r] # <<>>
    /\ hand' = [hand EXCEPT ![a] = Head(ring[r])]
    /\ ring' = [ring EXCEPT ![r] = Tail(@)]
    /\ at' = [at EXCEPT ![a] = "copy_out"]
    /\ UNCHANGED <<pool, content, asked, got, alive, lost, crashes>>

GetCopy(a) ==
    /\ at[a] = "copy_out"
    /\ got' = [got EXCEPT ![a] = content[hand[a]]]
    /\ at' = [at EXCEPT ![a] = "put"]
    /\ UNCHANGED <<pool, ring, content, hand, asked, alive, lost, crashes>>

\* A get_cmd that clears its pointer before it gives the buffer back.
GetPutCleared(a) ==
    /\ at[a] = "put"
    /\ hand' = [hand EXCEPT ![a] = None]
    /\ pool' = pool \cup {hand'[a]}
    /\ got' = [got EXCEPT ![a] = None]
    /\ at' = [at EXCEPT ![a] = "idle"]
    /\ UNCHANGED <<ring, content, asked, alive, lost, crashes>>

GetPut(a) ==
    /\ at[a] = "put"
    /\ pool' = pool \cup {hand[a]}
    /\ hand' = [hand EXCEPT ![a] = None]
    /\ got' = [got EXCEPT ![a] = None]
    /\ at' = [at EXCEPT ![a] = "idle"]
    /\ UNCHANGED <<ring, content, asked, alive, lost, crashes>>

-----------------------------------------------------------------------------
(* Death and restart of a slave.                                             *)

SlaveDies(l) ==
    /\ l \in alive
    /\ crashes < MaxCrashes
    /\ alive' = alive \ {l}
    /\ crashes' = crashes + 1
    /\ lost' = lost \cup ({hand[l]} \ {None})
    /\ at' = [at EXCEPT ![l] = "idle"]
    /\ hand' = [hand EXCEPT ![l] = None]
    /\ asked' = [asked EXCEPT ![l] = None]
    /\ got' = [got EXCEPT ![l] = None]
    /\ UNCHANGED <<pool, ring, content>>

\* The two loops of init_slave_res end when get_cmd finds the rings empty.
SlaveRestarts(l) ==
    /\ l \in Lcores \ alive
    /\ at[Master] = "idle"
    /\ ring[<<l, 0>>] = <<>> /\ ring[<<l, 1>>] = <<>>
    /\ alive' = alive \cup {l}
    /\ UNCHANGED <<pool, ring, content, at, hand, asked, got, lost, crashes>>

Next ==
    \/ \E a \in Actors :
          \/ \E l \in Lcores, m \in Msgs : SendCall(a, l, m)
          \/ SendNoBuffer(a) \/ SendGetBuffer(a) \/ SendCopy(a)
          \/ SendEnqueue(a) \/ SendRingFull(a)
          \/ \E l \in Lcores :
                /\ Running(a) /\ a \in {l, Master}
                /\ \E r \in ReceiveRings(a, l) : GetDequeue(a, r)
          \/ GetCopy(a) \/ GetPut(a)
    \/ \E l \in Lcores : SlaveDies(l) \/ SlaveRestarts(l)

Spec == Init /\ [][Next]_vars

-----------------------------------------------------------------------------
(* Properties.                                                               *)

Steps == {"idle", "get", "copy_in", "enqueue", "copy_out", "put"}

TypeOK ==
    /\ pool \in SUBSET Bufs
    /\ ring \in [Rings -> Seq(Bufs)]
    /\ content \in [Bufs -> Msgs \cup {None}]
    /\ at \in [Actors -> Steps]
    /\ hand \in [Actors -> Bufs \cup {None}]
    /\ asked \in [Actors -> (Rings \X Msgs) \cup {None}]
    /\ got \in [Actors -> Msgs \cup {None}]
    /\ alive \in SUBSET Lcores
    /\ lost \in SUBSET Bufs
    /\ crashes \in 0 .. MaxCrashes

InRing(r) == {ring[r][i] : i \in 1 .. Len(ring[r])}

HandsApart ==
    /\ \A a \in Actors : hand[a] # None => hand[a] \notin pool \cup lost
    /\ \A a, b \in Actors : hand[a] # None /\ hand[a] = hand[b] => a = b

RingsApart ==
    /\ \A r \in Rings : \A i \in 1 .. Len(ring[r]) :
          /\ ring[r][i] \notin pool \cup lost
          /\ \A a \in Actors : hand[a] # ring[r][i]
    /\ \A r, s \in Rings : \A i \in 1 .. Len(ring[r]), j \in 1 .. Len(ring[s]) :
          ring[r][i] = ring[s][j] => r = s /\ i = j

\* Nobody reads or writes a buffer that somebody else may hold: a buffer is in
\* the pool, in one place of one ring, in the hands of one process, or lost.
OneHolder == HandsApart /\ RingsApart /\ pool \cap lost = {}

\* Every early return of send_cmd and get_cmd gives the buffer back: buffers
\* are missing only because slaves died, at most one for each death, so the pool
\* outlives as many deaths as it has buffers.
BuffersAccounted ==
    /\ Bufs = pool \cup lost \cup ({hand[a] : a \in Actors} \ {None})
                   \cup UNION {InRing(r) : r \in Rings}
    /\ Cardinality(lost) <= crashes

\* The messages of a sequence of buffers.
MessagesIn(s) == [i \in 1 .. Len(s) |-> content[s[i]]]

Messages == [r \in Rings |-> MessagesIn(ring[r])]

\* A message that is being copied out counts as taken.
Taken == [a \in Actors |-> IF at[a] = "copy_out" THEN content[hand[a]] ELSE got[a]]

Channel == INSTANCE MsgChannel WITH
    Mortal <- Lcores, Capacity <- RingSize, queue <- Messages, got <- Taken

\* send_cmd and get_cmd implement bounded queues of messages, whatever way the
\* processes interleave and die: no message is overwritten in its buffer, lost,
\* repeated or taken out of order.
ImplementsChannel == Channel!Spec

=============================================================================
