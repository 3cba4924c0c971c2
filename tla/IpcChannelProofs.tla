-------------------------- MODULE IpcChannelProofs --------------------------
(***************************************************************************)
(* Proofs about IpcChannel, for every number of lcores, buffers, messages, *)
(* ring sizes and deaths: a buffer has one holder, none disappears except  *)
(* with a slave, and send_cmd and get_cmd implement the bounded queues of  *)
(* MsgChannel.                                                             *)
(***************************************************************************)
EXTENDS IpcChannel, FiniteSetTheorems, TLAPS

\* Which variables mean something at which step of the two functions.
StepInv ==
    \A a \in Actors :
        /\ hand[a] # None <=> at[a] \in {"copy_in", "enqueue", "copy_out", "put"}
        /\ asked[a] # None <=> at[a] \in {"get", "copy_in", "enqueue"}
        /\ got[a] # None <=> at[a] = "put"

\* A buffer that was filled holds the message until it is copied out.
FilledInv ==
    /\ \A a \in Actors :
          /\ at[a] = "enqueue" => content[hand[a]] = asked[a][2]
          /\ at[a] = "copy_out" => content[hand[a]] \in Msgs
    /\ \A r \in Rings : \A i \in 1 .. Len(ring[r]) : content[ring[r][i]] \in Msgs

RingInv == \A r \in Rings : Len(ring[r]) <= RingSize

ChannelInv == TypeOK /\ StepInv /\ FilledInv /\ RingInv /\ OneHolder

-----------------------------------------------------------------------------
(* Sequences.                                                                *)

\* What a ring holds after rte_ring_enqueue.
LEMMA Appended ==
    ASSUME NEW S, NEW q \in Seq(S), NEW b \in S
    PROVE  /\ Append(q, b) \in Seq(S)
           /\ Len(Append(q, b)) = Len(q) + 1
           /\ \A i \in 1 .. Len(q) : Append(q, b)[i] = q[i]
           /\ Append(q, b)[Len(q) + 1] = b
  OBVIOUS

\* What it holds after rte_ring_dequeue.
LEMMA Removed ==
    ASSUME NEW S, NEW q \in Seq(S), q # <<>>
    PROVE  /\ Head(q) \in S
           /\ Head(q) = q[1]
           /\ Tail(q) \in Seq(S)
           /\ Len(q) \in Nat \ {0}
           /\ Len(Tail(q)) = Len(q) - 1
           /\ \A i \in 1 .. Len(q) - 1 : Tail(q)[i] = q[i + 1]
  OBVIOUS

\* All buffers are in the pool at the start.
LEMMA InitInv == Init => ChannelInv
  <1> SUFFICES ASSUME Init PROVE ChannelInv
    OBVIOUS
  <1>1. TypeOK
    BY IpcAssumption DEF Init, TypeOK, Steps
  <1>2. StepInv /\ FilledInv
    BY DEF Init, StepInv, FilledInv
  <1>3. RingInv
    BY IpcAssumption DEF Init, RingInv
  <1>4. OneHolder
    BY DEF Init, OneHolder, HandsApart, RingsApart
  <1> QED
    BY <1>1, <1>2, <1>3, <1>4 DEF ChannelInv

-----------------------------------------------------------------------------
(* One lemma for each move of a buffer.                                      *)

\* SendCall, SendNoBuffer, SendCopy, GetCopy, SlaveRestarts: none moves.
LEMMA StayApart ==
    ASSUME OneHolder, UNCHANGED <<pool, ring, hand, lost>>
    PROVE  OneHolder'
  BY DEF OneHolder, HandsApart, RingsApart

\* SendGetBuffer: from the pool into a hand.
LEMMA TakenApart ==
    ASSUME TypeOK, OneHolder, NEW a \in Actors, NEW b \in pool,
           pool' = pool \ {b}, hand' = [hand EXCEPT ![a] = b],
           UNCHANGED <<ring, lost>>
    PROVE  OneHolder'
  <1>1. HandsApart'
    BY IpcAssumption DEF TypeOK, OneHolder, HandsApart
  <1>2. RingsApart'
    BY DEF TypeOK, OneHolder, HandsApart, RingsApart
  <1> QED
    BY <1>1, <1>2 DEF OneHolder

\* SendRingFull, GetPut: from a hand into the pool.
LEMMA PutApart ==
    ASSUME TypeOK, OneHolder, NEW a \in Actors, hand[a] # None,
           pool' = pool \cup {hand[a]}, hand' = [hand EXCEPT ![a] = None],
           UNCHANGED <<ring, lost>>
    PROVE  OneHolder'
  <1>1. HandsApart'
    BY IpcAssumption DEF TypeOK, OneHolder, HandsApart
  <1>2. RingsApart'
    BY IpcAssumption DEF TypeOK, OneHolder, HandsApart, RingsApart
  <1> QED
    BY <1>1, <1>2 DEF OneHolder, HandsApart

\* SlaveDies: from a hand into nowhere.
LEMMA LostApart ==
    ASSUME TypeOK, OneHolder, NEW a \in Actors,
           lost' = lost \cup ({hand[a]} \ {None}),
           hand' = [hand EXCEPT ![a] = None],
           UNCHANGED <<ring, pool>>
    PROVE  OneHolder'
  <1>1. HandsApart'
    BY IpcAssumption DEF TypeOK, OneHolder, HandsApart
  <1>2. RingsApart'
    BY IpcAssumption DEF TypeOK, OneHolder, HandsApart, RingsApart
  <1> QED
    BY <1>1, <1>2 DEF OneHolder, HandsApart

\* SendEnqueue: from a hand to the end of a ring.
LEMMA EnqueuedApart ==
    ASSUME TypeOK, OneHolder, NEW a \in Actors, NEW r \in Rings, hand[a] # None,
           ring' = [ring EXCEPT ![r] = Append(@, hand[a])],
           hand' = [hand EXCEPT ![a] = None],
           UNCHANGED <<pool, lost>>
    PROVE  OneHolder'
  <1>1. HandsApart'
    BY IpcAssumption DEF TypeOK, OneHolder, HandsApart
  <1>2. /\ Len(ring'[r]) = Len(ring[r]) + 1
        /\ \A i \in 1 .. Len(ring[r]) : ring'[r][i] = ring[r][i]
        /\ ring'[r][Len(ring[r]) + 1] = hand[a]
        /\ \A s \in Rings \ {r} : ring'[s] = ring[s]
        /\ Len(ring[r]) \in Nat
    BY Appended DEF TypeOK
  <1>3. ASSUME NEW s \in Rings, NEW i \in 1 .. Len(ring'[s])
        PROVE  \/ i \in 1 .. Len(ring[s]) /\ ring'[s][i] = ring[s][i]
               \/ s = r /\ i = Len(ring[r]) + 1 /\ ring'[s][i] = hand[a]
    BY <1>2
  <1>4. ASSUME NEW s \in Rings, NEW i \in 1 .. Len(ring'[s])
        PROVE  /\ ring'[s][i] \notin pool \cup lost
               /\ \A b \in Actors : hand'[b] # ring'[s][i]
    BY <1>3, IpcAssumption DEF TypeOK, OneHolder, HandsApart, RingsApart
  <1>5. ASSUME NEW s \in Rings, NEW t \in Rings,
               NEW i \in 1 .. Len(ring'[s]), NEW j \in 1 .. Len(ring'[t]),
               ring'[s][i] = ring'[t][j]
        PROVE  s = t /\ i = j
    BY <1>3, <1>5 DEF OneHolder, RingsApart
  <1> QED
    BY <1>1, <1>4, <1>5 DEF OneHolder, RingsApart

\* GetDequeue: from the front of a ring into a hand.
LEMMA DequeuedApart ==
    ASSUME TypeOK, OneHolder, NEW a \in Actors, NEW r \in Rings, ring[r] # <<>>,
           ring' = [ring EXCEPT ![r] = Tail(@)],
           hand' = [hand EXCEPT ![a] = Head(ring[r])],
           UNCHANGED <<pool, lost>>
    PROVE  OneHolder'
  <1>1. /\ Head(ring[r]) = ring[r][1]
        /\ Len(ring[r]) \in Nat \ {0}
        /\ Len(ring'[r]) = Len(ring[r]) - 1
        /\ \A i \in 1 .. Len(ring[r]) - 1 : ring'[r][i] = ring[r][i + 1]
        /\ \A s \in Rings \ {r} : ring'[s] = ring[s]
        /\ \A s \in Rings : Len(ring[s]) \in Nat
    BY Removed DEF TypeOK
  <1>2. HandsApart'
    <2>1. 1 \in 1 .. Len(ring[r])
      BY <1>1
    <2>2. /\ Head(ring[r]) \notin pool \cup lost
          /\ \A b \in Actors : hand[b] # Head(ring[r])
      BY <1>1, <2>1 DEF OneHolder, RingsApart
    <2>3. \A b \in Actors : hand'[b] = IF b = a THEN Head(ring[r]) ELSE hand[b]
      BY DEF TypeOK
    <2> QED
      BY <2>2, <2>3 DEF OneHolder, HandsApart
  <1> DEFINE before(s, i) == IF s = r THEN i + 1 ELSE i
  <1>3. ASSUME NEW s \in Rings, NEW i \in 1 .. Len(ring'[s])
        PROVE  /\ before(s, i) \in 1 .. Len(ring[s])
               /\ ring'[s][i] = ring[s][before(s, i)]
               /\ s = r => before(s, i) # 1
    BY <1>1
  <1>4. ASSUME NEW s \in Rings, NEW i \in 1 .. Len(ring'[s])
        PROVE  /\ ring'[s][i] \notin pool \cup lost
               /\ \A b \in Actors : hand'[b] # ring'[s][i]
    <2>1. /\ before(s, i) \in 1 .. Len(ring[s])
          /\ ring'[s][i] = ring[s][before(s, i)]
          /\ s = r => before(s, i) # 1
      BY <1>3, <1>4
    <2> HIDE DEF before
    <2>2. /\ ring[s][before(s, i)] \notin pool \cup lost
          /\ \A b \in Actors : hand[b] # ring[s][before(s, i)]
      BY <1>4, <2>1 DEF OneHolder, RingsApart
    <2>3. 1 \in 1 .. Len(ring[r])
      BY <1>1
    <2>4. ring[s][before(s, i)] # ring[r][1]
      BY <1>4, <2>1, <2>3 DEF OneHolder, RingsApart
    <2>5. \A b \in Actors : hand'[b] = IF b = a THEN Head(ring[r]) ELSE hand[b]
      BY DEF TypeOK
    <2> QED
      BY <1>1, <2>1, <2>2, <2>4, <2>5
  <1>5. ASSUME NEW s \in Rings, NEW t \in Rings,
               NEW i \in 1 .. Len(ring'[s]), NEW j \in 1 .. Len(ring'[t]),
               ring'[s][i] = ring'[t][j]
        PROVE  s = t /\ i = j
    <2>1. s = t /\ before(s, i) = before(t, j)
      BY <1>3, <1>5 DEF OneHolder, RingsApart
    <2>2. i \in Int /\ j \in Int
      BY <1>1
    <2> QED
      BY <2>1, <2>2
  <1> QED
    BY <1>2, <1>4, <1>5 DEF OneHolder, RingsApart

-----------------------------------------------------------------------------
(* Each action preserves the invariant.                                      *)

\* The ring of a call under way is a ring of the system.
LEMMA RingsOfCalls ==
    ASSUME NEW a \in Actors, NEW l \in Lcores, a \in {l, Master}
    PROVE  SendRing(a, l) \in Rings /\ ReceiveRings(a, l) \subseteq Rings
  <1>1. SendRing(a, l) \in Rings
    BY DEF SendRing, Rings
  <1>2. \A i \in {0, 1} : <<l, i>> \in Rings
    BY DEF Rings
  <1>3. CASE a # Master
    BY <1>1, <1>2, <1>3 DEF ReceiveRings
  <1>4. CASE a = Master /\ l \in alive
    BY <1>1, <1>2, <1>4 DEF ReceiveRings
  <1>5. CASE a = Master /\ l \notin alive
    BY <1>1, <1>2, <1>5 DEF ReceiveRings
  <1> QED
    BY <1>3, <1>4, <1>5

\* send_cmd is called: nothing is held yet.
LEMMA SendCallInv ==
    ASSUME ChannelInv, NEW a \in Actors, NEW l \in Lcores, NEW m \in Msgs,
           SendCall(a, l, m)
    PROVE  ChannelInv'
  <1>1. SendRing(a, l) \in Rings
    BY RingsOfCalls DEF SendCall
  <1>2. TypeOK' /\ asked'[a] # None
    BY <1>1, IpcAssumption DEF ChannelInv, TypeOK, SendCall, Steps
  <1>3. StepInv'
    BY <1>2 DEF ChannelInv, TypeOK, StepInv, SendCall
  <1>4. FilledInv' /\ RingInv'
    BY DEF ChannelInv, TypeOK, StepInv, FilledInv, RingInv, SendCall
  <1>5. OneHolder'
    BY StayApart DEF ChannelInv, SendCall
  <1> QED
    BY <1>2, <1>3, <1>4, <1>5 DEF ChannelInv

\* rte_mempool_get fails, and send_cmd returns.
LEMMA SendNoBufferInv ==
    ASSUME ChannelInv, NEW a \in Actors, SendNoBuffer(a)
    PROVE  ChannelInv'
  <1>1. TypeOK'
    BY DEF ChannelInv, TypeOK, SendNoBuffer, Steps
  <1>2. StepInv'
    BY DEF ChannelInv, TypeOK, StepInv, SendNoBuffer
  <1>3. FilledInv' /\ RingInv'
    BY DEF ChannelInv, TypeOK, StepInv, FilledInv, RingInv, SendNoBuffer
  <1>4. OneHolder'
    BY StayApart DEF ChannelInv, SendNoBuffer
  <1> QED
    BY <1>1, <1>2, <1>3, <1>4 DEF ChannelInv

\* rte_mempool_get moves a buffer from the pool into one hand.
LEMMA SendGetBufferInv ==
    ASSUME ChannelInv, NEW a \in Actors, SendGetBuffer(a)
    PROVE  ChannelInv'
  <1>1. PICK b \in pool : pool' = pool \ {b} /\ hand' = [hand EXCEPT ![a] = b]
    BY DEF SendGetBuffer
  <1>2. TypeOK' /\ b # None
    BY <1>1, IpcAssumption DEF ChannelInv, TypeOK, SendGetBuffer, Steps
  <1>3. StepInv'
    BY <1>1, <1>2 DEF ChannelInv, TypeOK, StepInv, SendGetBuffer
  <1>4. FilledInv' /\ RingInv'
    BY <1>1 DEF ChannelInv, TypeOK, FilledInv, RingInv, SendGetBuffer
  <1>5. OneHolder'
    BY <1>1, TakenApart DEF ChannelInv, SendGetBuffer
  <1> QED
    BY <1>2, <1>3, <1>4, <1>5 DEF ChannelInv

\* The message is written to a buffer that only the sender holds.
LEMMA SendCopyInv ==
    ASSUME ChannelInv, NEW a \in Actors, SendCopy(a)
    PROVE  ChannelInv'
  <1>1. hand[a] \in Bufs /\ asked[a] \in Rings \X Msgs
    BY DEF ChannelInv, TypeOK, StepInv, SendCopy
  <1>2. asked[a][2] \in Msgs
    BY <1>1
  <1>3. TypeOK'
    BY <1>1, <1>2 DEF ChannelInv, TypeOK, SendCopy, Steps
  <1>4. StepInv' /\ RingInv'
    BY DEF ChannelInv, TypeOK, StepInv, RingInv, SendCopy
  <1>5. /\ \A c \in Actors \ {a} : hand[c] # hand[a]
        /\ \A r \in Rings : \A i \in 1 .. Len(ring[r]) : ring[r][i] # hand[a]
    BY <1>1, IpcAssumption DEF ChannelInv, TypeOK, OneHolder, HandsApart, RingsApart
  <1>6. /\ content'[hand[a]] = asked[a][2]
        /\ \A b \in Bufs \ {hand[a]} : content'[b] = content[b]
    BY <1>1 DEF ChannelInv, TypeOK, SendCopy
  <1>7. \A c \in Actors : at'[c] \in {"enqueue", "copy_out"} => hand[c] \in Bufs
    BY <1>1 DEF ChannelInv, TypeOK, StepInv, SendCopy
  <1>8. FilledInv'
    BY <1>2, <1>5, <1>6, <1>7 DEF ChannelInv, TypeOK, FilledInv, SendCopy
  <1>9. OneHolder'
    BY StayApart DEF ChannelInv, SendCopy
  <1> QED
    BY <1>3, <1>4, <1>8, <1>9 DEF ChannelInv

\* The buffer goes from the hand to the end of one ring.
LEMMA SendEnqueueInv ==
    ASSUME ChannelInv, NEW a \in Actors, SendEnqueue(a)
    PROVE  ChannelInv'
  <1> DEFINE r == asked[a][1]
  <1>1. hand[a] \in Bufs /\ asked[a] \in Rings \X Msgs
    BY DEF ChannelInv, TypeOK, StepInv, SendEnqueue
  <1>2. r \in Rings /\ asked[a][2] \in Msgs
    BY <1>1
  <1>3. hand[a] # None
    BY <1>1, IpcAssumption
  <1> HIDE DEF r
  <1>4. ring' = [ring EXCEPT ![r] = Append(@, hand[a])] /\ Len(ring[r]) < RingSize
    BY DEF SendEnqueue, r
  <1>5. /\ ring' \in [Rings -> Seq(Bufs)]
        /\ Len(ring'[r]) = Len(ring[r]) + 1
        /\ \A i \in 1 .. Len(ring[r]) : ring'[r][i] = ring[r][i]
        /\ ring'[r][Len(ring[r]) + 1] = hand[a]
        /\ \A s \in Rings \ {r} : ring'[s] = ring[s]
        /\ Len(ring[r]) \in Nat
    BY <1>1, <1>2, <1>4, Appended DEF ChannelInv, TypeOK
  <1>6. TypeOK'
    BY <1>5 DEF ChannelInv, TypeOK, SendEnqueue, Steps
  <1>7. StepInv'
    BY DEF ChannelInv, TypeOK, StepInv, SendEnqueue
  <1>8. RingInv'
    BY <1>2, <1>4, <1>5, IpcAssumption DEF ChannelInv, RingInv
  <1>9. content[hand[a]] \in Msgs
    BY <1>2 DEF ChannelInv, FilledInv, SendEnqueue
  <1>10. FilledInv'
    <2>1. \A s \in Rings : \A i \in 1 .. Len(ring'[s]) : content[ring'[s][i]] \in Msgs
      BY <1>5, <1>9 DEF ChannelInv, FilledInv
    <2> QED
      BY <2>1 DEF ChannelInv, TypeOK, FilledInv, SendEnqueue
  <1>11. OneHolder'
    BY <1>2, <1>3, <1>4, EnqueuedApart DEF ChannelInv, SendEnqueue
  <1> QED
    BY <1>6, <1>7, <1>8, <1>10, <1>11 DEF ChannelInv

\* The ring is full, and the buffer goes back to the pool.
LEMMA SendRingFullInv ==
    ASSUME ChannelInv, NEW a \in Actors, SendRingFull(a)
    PROVE  ChannelInv'
  <1>1. hand[a] \in Bufs /\ hand[a] # None
    BY DEF ChannelInv, TypeOK, StepInv, SendRingFull
  <1>2. TypeOK'
    BY <1>1 DEF ChannelInv, TypeOK, SendRingFull, Steps
  <1>3. StepInv'
    BY DEF ChannelInv, TypeOK, StepInv, SendRingFull
  <1>4. FilledInv' /\ RingInv'
    BY DEF ChannelInv, TypeOK, FilledInv, RingInv, SendRingFull
  <1>5. OneHolder'
    BY <1>1, PutApart DEF ChannelInv, SendRingFull
  <1> QED
    BY <1>2, <1>3, <1>4, <1>5 DEF ChannelInv

\* The first buffer of a ring goes into the hand of the receiver.
LEMMA GetDequeueInv ==
    ASSUME ChannelInv, NEW a \in Actors, NEW r \in Rings, GetDequeue(a, r)
    PROVE  ChannelInv'
  <1>1. /\ Head(ring[r]) \in Bufs
        /\ Head(ring[r]) = ring[r][1]
        /\ ring' \in [Rings -> Seq(Bufs)]
        /\ Len(ring[r]) \in Nat \ {0}
        /\ Len(ring'[r]) = Len(ring[r]) - 1
        /\ \A i \in 1 .. Len(ring[r]) - 1 : ring'[r][i] = ring[r][i + 1]
        /\ \A s \in Rings \ {r} : ring'[s] = ring[s]
    BY Removed DEF ChannelInv, TypeOK, GetDequeue
  <1>2. TypeOK' /\ Head(ring[r]) # None
    BY <1>1, IpcAssumption DEF ChannelInv, TypeOK, GetDequeue, Steps
  <1>3. StepInv'
    BY <1>2 DEF ChannelInv, TypeOK, StepInv, GetDequeue
  <1>4. RingInv'
    BY <1>1, IpcAssumption DEF ChannelInv, RingInv
  <1>5. FilledInv'
    <2>1. ASSUME NEW s \in Rings, NEW i \in 1 .. Len(ring'[s])
          PROVE  content[ring'[s][i]] \in Msgs
      <3>1. CASE s = r
        <4>1. i \in 1 .. Len(ring[r]) - 1 /\ i + 1 \in 1 .. Len(ring[r])
          BY <1>1, <2>1, <3>1
        <4>2. content[ring[r][i + 1]] \in Msgs
          BY <4>1 DEF ChannelInv, FilledInv
        <4> QED
          BY <1>1, <3>1, <4>1, <4>2
      <3>2. CASE s # r
        BY <1>1, <2>1, <3>2 DEF ChannelInv, FilledInv
      <3> QED
        BY <3>1, <3>2
    <2>2. content[Head(ring[r])] \in Msgs
      BY <1>1 DEF ChannelInv, FilledInv
    <2> QED
      BY <2>1, <2>2 DEF ChannelInv, TypeOK, FilledInv, GetDequeue
  <1>6. OneHolder'
    BY DequeuedApart DEF ChannelInv, GetDequeue
  <1> QED
    BY <1>2, <1>3, <1>4, <1>5, <1>6 DEF ChannelInv

\* The message is read from a buffer that only the receiver holds.
LEMMA GetCopyInv ==
    ASSUME ChannelInv, NEW a \in Actors, GetCopy(a)
    PROVE  ChannelInv'
  <1>1. content[hand[a]] \in Msgs
    BY DEF ChannelInv, FilledInv, GetCopy
  <1>2. TypeOK'
    BY <1>1 DEF ChannelInv, TypeOK, GetCopy, Steps
  <1>3. StepInv'
    BY <1>1, IpcAssumption DEF ChannelInv, TypeOK, StepInv, GetCopy
  <1>4. FilledInv' /\ RingInv'
    BY DEF ChannelInv, TypeOK, FilledInv, RingInv, GetCopy
  <1>5. OneHolder'
    BY StayApart DEF ChannelInv, GetCopy
  <1> QED
    BY <1>2, <1>3, <1>4, <1>5 DEF ChannelInv

\* The buffer goes back to the pool.
LEMMA GetPutInv ==
    ASSUME ChannelInv, NEW a \in Actors, GetPut(a)
    PROVE  ChannelInv'
  <1>1. hand[a] \in Bufs /\ hand[a] # None
    BY DEF ChannelInv, TypeOK, StepInv, GetPut
  <1>2. TypeOK'
    BY <1>1 DEF ChannelInv, TypeOK, GetPut, Steps
  <1>3. StepInv'
    BY DEF ChannelInv, TypeOK, StepInv, GetPut
  <1>4. FilledInv' /\ RingInv'
    BY DEF ChannelInv, TypeOK, FilledInv, RingInv, GetPut
  <1>5. OneHolder'
    BY <1>1, PutApart DEF ChannelInv, GetPut
  <1> QED
    BY <1>2, <1>3, <1>4, <1>5 DEF ChannelInv

\* A slave dies and takes the buffer in its hand with it.
LEMMA SlaveDiesInv ==
    ASSUME ChannelInv, NEW l \in Lcores, SlaveDies(l)
    PROVE  ChannelInv'
  <1>1. l \in Actors
    BY DEF Actors
  <1>2. TypeOK'
    BY <1>1, IpcAssumption DEF ChannelInv, TypeOK, SlaveDies, Steps
  <1>3. StepInv'
    BY <1>1 DEF ChannelInv, TypeOK, StepInv, SlaveDies
  <1>4. FilledInv' /\ RingInv'
    BY <1>1 DEF ChannelInv, TypeOK, FilledInv, RingInv, SlaveDies
  <1>5. OneHolder'
    BY <1>1, LostApart DEF ChannelInv, SlaveDies
  <1> QED
    BY <1>2, <1>3, <1>4, <1>5 DEF ChannelInv

\* A slave is started again with empty hands.
LEMMA SlaveRestartsInv ==
    ASSUME ChannelInv, NEW l \in Lcores, SlaveRestarts(l)
    PROVE  ChannelInv'
  <1>1. TypeOK'
    BY DEF ChannelInv, TypeOK, SlaveRestarts
  <1>2. StepInv' /\ FilledInv' /\ RingInv'
    BY DEF ChannelInv, StepInv, FilledInv, RingInv, SlaveRestarts
  <1>3. OneHolder'
    BY StayApart DEF ChannelInv, SlaveRestarts
  <1> QED
    BY <1>1, <1>2, <1>3 DEF ChannelInv

\* Steps of nobody.
LEMMA StutterInv == ChannelInv /\ UNCHANGED vars => ChannelInv'
  BY DEF vars, ChannelInv, TypeOK, StepInv, FilledInv, RingInv, OneHolder,
         HandsApart, RingsApart

\* What a step of the system is, with the rings of get_cmd resolved.
LEMMA StepCases ==
    ASSUME Next
    PROVE  \/ \E a \in Actors :
                 \/ \E l \in Lcores, m \in Msgs : SendCall(a, l, m)
                 \/ SendNoBuffer(a)
                 \/ SendGetBuffer(a)
                 \/ SendCopy(a)
                 \/ SendEnqueue(a)
                 \/ SendRingFull(a)
                 \/ \E r \in Rings : GetDequeue(a, r)
                 \/ GetCopy(a)
                 \/ GetPut(a)
           \/ \E l \in Lcores : SlaveDies(l) \/ SlaveRestarts(l)
  <1>1. ASSUME NEW a \in Actors, NEW l \in Lcores, a \in {l, Master},
               NEW r \in ReceiveRings(a, l), GetDequeue(a, r)
        PROVE  \E s \in Rings : GetDequeue(a, s)
    BY <1>1, RingsOfCalls
  <1> QED
    BY <1>1 DEF Next

\* Every step of every actor keeps the invariant.
LEMMA NextInv == ChannelInv /\ [Next]_vars => ChannelInv'
  <1> SUFFICES ASSUME ChannelInv, Next PROVE ChannelInv'
    BY StutterInv
  <1> QED
    BY StepCases, SendCallInv, SendNoBufferInv, SendGetBufferInv, SendCopyInv,
       SendEnqueueInv, SendRingFullInv, GetDequeueInv, GetCopyInv, GetPutInv,
       SlaveDiesInv, SlaveRestartsInv

\* The rings, the pool and the hands of send_cmd and get_cmd stay consistent.
LEMMA Invariance == Spec => []ChannelInv
  BY InitInv, NextInv, PTL DEF Spec

\* send_cmd and get_cmd are type correct: in particular, they give back only
\* buffers of the pool.
THEOREM TypeCorrect == Spec => []TypeOK
  <1>1. ChannelInv => TypeOK
    BY DEF ChannelInv
  <1> QED
    BY <1>1, Invariance, PTL

\* Nobody touches a buffer that another process, a ring or the pool holds.
THEOREM BuffersHaveOneHolder == Spec => []OneHolder
  <1>1. ChannelInv => OneHolder
    BY DEF ChannelInv
  <1> QED
    BY <1>1, Invariance, PTL

-----------------------------------------------------------------------------
(* No buffer disappears.                                                     *)

Placed(b) ==
    \/ b \in pool \cup lost
    \/ \E a \in Actors : hand[a] = b
    \/ \E r \in Rings : \E i \in 1 .. Len(ring[r]) : ring[r][i] = b

AllPlaced == \A b \in Bufs : Placed(b)

FewLost == IsFiniteSet(lost) /\ Cardinality(lost) <= crashes

\* If every buffer is somewhere, those that are missing are the lost ones.
LEMMA PlacedMeansAccounted ==
    ASSUME TypeOK, AllPlaced, FewLost
    PROVE  BuffersAccounted
  <1> DEFINE Somewhere == pool \cup lost \cup ({hand[a] : a \in Actors} \ {None})
                               \cup UNION {InRing(r) : r \in Rings}
  <1>1. ASSUME NEW b \in Bufs PROVE b \in Somewhere
    <2>1. CASE b \in pool \cup lost
      BY <2>1
    <2>2. CASE \E a \in Actors : hand[a] = b
      BY <2>2, IpcAssumption
    <2>3. CASE \E r \in Rings : \E i \in 1 .. Len(ring[r]) : ring[r][i] = b
      BY <2>3 DEF InRing
    <2> QED
      BY <2>1, <2>2, <2>3 DEF AllPlaced, Placed
  <1>2. ASSUME NEW r \in Rings PROVE InRing(r) \subseteq Bufs
    BY DEF TypeOK, InRing
  <1>3. Somewhere \subseteq Bufs
    BY <1>2 DEF TypeOK
  <1> QED
    BY <1>1, <1>3 DEF BuffersAccounted, FewLost

\* At the start every buffer is in the pool and none is lost.
LEMMA InitPlaced == Init => AllPlaced /\ FewLost
  BY FS_EmptySet DEF Init, AllPlaced, Placed, FewLost

\* Each buffer is where it was, or where the action puts it.
LEMMA NextPlaced ==
    ASSUME ChannelInv, AllPlaced, Next
    PROVE  AllPlaced'
  <1> SUFFICES ASSUME NEW b \in Bufs PROVE Placed(b)'
    BY DEF AllPlaced
  <1>0. Placed(b) /\ b # None
    BY IpcAssumption DEF AllPlaced
  <1>1. CASE UNCHANGED <<pool, hand, ring, lost>>
    BY <1>0, <1>1 DEF Placed
  <1>2. ASSUME NEW a \in Actors, SendGetBuffer(a) PROVE Placed(b)'
    <2>1. PICK c \in pool : pool' = pool \ {c} /\ hand' = [hand EXCEPT ![a] = c]
      BY <1>2 DEF SendGetBuffer
    <2>2. hand[a] = None /\ hand'[a] = c /\ \A d \in Actors \ {a} : hand'[d] = hand[d]
      BY <1>2, <2>1 DEF ChannelInv, TypeOK, StepInv, SendGetBuffer
    <2> QED
      BY <1>0, <1>2, <2>1, <2>2 DEF SendGetBuffer, Placed
  <1>3. ASSUME NEW a \in Actors, pool' = pool \cup {hand[a]},
               hand' = [hand EXCEPT ![a] = None], UNCHANGED <<ring, lost>>
        PROVE  Placed(b)'
    <2>1. \A d \in Actors \ {a} : hand'[d] = hand[d]
      BY <1>3 DEF ChannelInv, TypeOK
    <2> QED
      BY <1>0, <1>3, <2>1 DEF Placed
  <1>4. ASSUME NEW a \in Actors, SendEnqueue(a) PROVE Placed(b)'
    <2> DEFINE q == asked[a][1]
    <2>1. hand[a] \in Bufs /\ asked[a] \in Rings \X Msgs
      BY <1>4 DEF ChannelInv, TypeOK, StepInv, SendEnqueue
    <2>2. q \in Rings
      BY <2>1
    <2> HIDE DEF q
    <2>3. ring' = [ring EXCEPT ![q] = Append(@, hand[a])]
      BY <1>4 DEF SendEnqueue, q
    <2>4. /\ Len(ring[q]) \in Nat
          /\ Len(ring'[q]) = Len(ring[q]) + 1
          /\ \A i \in 1 .. Len(ring[q]) : ring'[q][i] = ring[q][i]
          /\ ring'[q][Len(ring[q]) + 1] = hand[a]
          /\ \A s \in Rings \ {q} : ring'[s] = ring[s]
      BY <2>1, <2>2, <2>3, Appended DEF ChannelInv, TypeOK
    <2>5. \A d \in Actors \ {a} : hand'[d] = hand[d]
      BY <1>4 DEF ChannelInv, TypeOK, SendEnqueue
    <2>6. CASE hand[a] = b
      BY <2>2, <2>4, <2>6 DEF Placed
    <2>7. CASE \E r \in Rings : \E i \in 1 .. Len(ring[r]) : ring[r][i] = b
      <3>0. PICK r \in Rings : \E i \in 1 .. Len(ring[r]) : ring[r][i] = b
        BY <2>7
      <3>1. PICK i \in 1 .. Len(ring[r]) : ring[r][i] = b
        BY <3>0
      <3>2. i \in 1 .. Len(ring'[r])
        BY <2>4, <3>1
      <3>3. ring'[r][i] = b
        BY <2>4, <3>1
      <3> QED
        BY <3>2, <3>3 DEF Placed
    <2> QED
      BY <1>0, <1>4, <2>5, <2>6, <2>7 DEF Placed, SendEnqueue
  <1>5. ASSUME NEW a \in Actors, NEW r \in Rings, GetDequeue(a, r) PROVE Placed(b)'
    <2>1. /\ Head(ring[r]) = ring[r][1]
          /\ Len(ring[r]) \in Nat \ {0}
          /\ Len(ring'[r]) = Len(ring[r]) - 1
          /\ \A i \in 1 .. Len(ring[r]) - 1 : ring'[r][i] = ring[r][i + 1]
          /\ \A s \in Rings \ {r} : ring'[s] = ring[s]
      BY <1>5, Removed DEF ChannelInv, TypeOK, GetDequeue
    <2>2. /\ hand[a] = None /\ hand'[a] = ring[r][1]
          /\ \A d \in Actors \ {a} : hand'[d] = hand[d]
      BY <1>5, <2>1 DEF ChannelInv, TypeOK, StepInv, GetDequeue
    <2>3. ASSUME NEW i \in 1 .. Len(ring[r]), ring[r][i] = b PROVE Placed(b)'
      <3>1. CASE i = 1
        BY <2>2, <2>3, <3>1 DEF Placed
      <3>2. CASE i # 1
        <4>1. i - 1 \in 1 .. Len(ring'[r]) /\ ring'[r][i - 1] = b
          BY <2>1, <2>3, <3>2
        <4> QED
          BY <4>1 DEF Placed
      <3> QED
        BY <3>1, <3>2
    <2>4. ASSUME NEW s \in Rings \ {r}, NEW i \in 1 .. Len(ring[s]), ring[s][i] = b
          PROVE  Placed(b)'
      BY <2>1, <2>4 DEF Placed
    <2> QED
      BY <1>0, <1>5, <2>2, <2>3, <2>4 DEF Placed, GetDequeue
  <1>6. ASSUME NEW l \in Lcores, SlaveDies(l) PROVE Placed(b)'
    <2>1. l \in Actors /\ \A d \in Actors \ {l} : hand'[d] = hand[d]
      BY <1>6 DEF ChannelInv, TypeOK, SlaveDies, Actors
    <2> QED
      BY <1>0, <1>6, <2>1 DEF Placed, SlaveDies
  <1> QED
    BY <1>1, <1>2, <1>3, <1>4, <1>5, <1>6, StepCases
    DEF SendCall, SendNoBuffer, SendCopy, SendRingFull, GetCopy, GetPut, SlaveRestarts

\* A death loses at most the buffer that the slave had in its hand.
LEMMA NextLost ==
    ASSUME ChannelInv, FewLost, Next
    PROVE  FewLost'
  <1>1. CASE UNCHANGED <<lost, crashes>>
    BY <1>1 DEF FewLost
  <1>2. ASSUME NEW l \in Lcores, SlaveDies(l) PROVE FewLost'
    <2>1. crashes \in Nat /\ crashes' = crashes + 1
      BY <1>2, IpcAssumption DEF ChannelInv, TypeOK, SlaveDies
    <2>2. Cardinality(lost) \in Nat
      BY FS_CardinalityType DEF FewLost
    <2>3. CASE lost' = lost
      BY <2>1, <2>2, <2>3 DEF FewLost
    <2>4. CASE lost' = lost \cup {hand[l]}
      <3>1. /\ IsFiniteSet(lost')
            /\ Cardinality(lost') = Cardinality(lost)
               \/ Cardinality(lost') = Cardinality(lost) + 1
        BY <2>4, FS_AddElement DEF FewLost
      <3> QED
        BY <2>1, <2>2, <3>1 DEF FewLost
    <2>5. lost' = lost \/ lost' = lost \cup {hand[l]}
      BY <1>2 DEF SlaveDies
    <2> QED
      BY <2>3, <2>4, <2>5
  <1> QED
    BY <1>1, <1>2, StepCases
    DEF SendCall, SendNoBuffer, SendGetBuffer, SendCopy, SendEnqueue, SendRingFull,
        GetDequeue, GetCopy, GetPut, SlaveRestarts

\* Every buffer of message_pool is free, in a ring, in use, or was in the hand of
\* a slave that died, and there are no more of the last kind than deaths.
THEOREM BuffersAreAccounted == Spec => []BuffersAccounted
  <1> DEFINE Inv == ChannelInv /\ AllPlaced /\ FewLost
  <1>1. Init => Inv
    BY InitInv, InitPlaced
  <1>2. Inv /\ [Next]_vars => Inv'
    <2>1. Inv /\ UNCHANGED vars => Inv'
      BY StutterInv DEF vars, AllPlaced, Placed, FewLost
    <2> QED
      BY <2>1, NextInv, NextPlaced, NextLost
  <1>3. Inv => BuffersAccounted
    BY PlacedMeansAccounted DEF ChannelInv
  <1> QED
    BY <1>1, <1>2, <1>3, PTL DEF Spec

-----------------------------------------------------------------------------
(* send_cmd and get_cmd implement MsgChannel.                                *)

\* An enqueued buffer adds its message to the queue.
LEMMA MessagesAppended ==
    ASSUME NEW q \in Seq(Bufs), NEW b \in Bufs, content \in [Bufs -> Msgs \cup {None}]
    PROVE  MessagesIn(Append(q, b)) = Append(MessagesIn(q), content[b])
  <1> DEFINE M == Msgs \cup {None}
             p == Append(q, b)
  <1>1. MessagesIn(q) \in Seq(M) /\ Len(MessagesIn(q)) = Len(q)
    BY DEF MessagesIn
  <1>2. MessagesIn(p) \in Seq(M) /\ Len(MessagesIn(p)) = Len(q) + 1
    BY Appended DEF MessagesIn
  <1>3. /\ Append(MessagesIn(q), content[b]) \in Seq(M)
        /\ Len(Append(MessagesIn(q), content[b])) = Len(q) + 1
    BY <1>1
  <1>4. ASSUME NEW i \in 1 .. Len(q) + 1
        PROVE  MessagesIn(p)[i] = Append(MessagesIn(q), content[b])[i]
    <2>1. Len(q) \in Nat /\ MessagesIn(p)[i] = content[p[i]]
      BY Appended DEF MessagesIn
    <2>2. CASE i = Len(q) + 1
      BY <1>1, <2>1, <2>2, Appended
    <2>3. CASE i \in 1 .. Len(q)
      <3>1. MessagesIn(q)[i] = content[q[i]]
        BY <2>3 DEF MessagesIn
      <3> QED
        BY <1>1, <2>1, <2>3, <3>1, Appended
    <2>4. i = Len(q) + 1 \/ i \in 1 .. Len(q)
      BY <2>1
    <2> QED
      BY <2>2, <2>3, <2>4
  <1> QED
    BY <1>2, <1>3, <1>4

\* A dequeued buffer takes its message from the front of the queue.
LEMMA MessagesRemoved ==
    ASSUME NEW q \in Seq(Bufs), q # <<>>, content \in [Bufs -> Msgs \cup {None}]
    PROVE  /\ MessagesIn(q) # <<>>
           /\ Head(MessagesIn(q)) = content[Head(q)]
           /\ MessagesIn(Tail(q)) = Tail(MessagesIn(q))
  <1> DEFINE M == Msgs \cup {None}
  <1>1. MessagesIn(q) \in Seq(M) /\ Len(MessagesIn(q)) = Len(q) /\ Len(q) # 0
    BY Removed DEF MessagesIn
  <1>2. MessagesIn(q) # <<>> /\ Head(MessagesIn(q)) = content[Head(q)]
    BY <1>1, Removed DEF MessagesIn
  <1>3. MessagesIn(Tail(q)) \in Seq(M) /\ Len(MessagesIn(Tail(q))) = Len(q) - 1
    BY Removed DEF MessagesIn
  <1>4. /\ Tail(MessagesIn(q)) \in Seq(M)
        /\ Len(Tail(MessagesIn(q))) = Len(q) - 1
        /\ \A i \in 1 .. Len(q) - 1 : Tail(MessagesIn(q))[i] = MessagesIn(q)[i + 1]
    BY <1>1, <1>2
  <1>5. \A i \in 1 .. Len(q) - 1 : MessagesIn(Tail(q))[i] = MessagesIn(q)[i + 1]
    BY Removed DEF MessagesIn
  <1> QED
    BY <1>2, <1>3, <1>4, <1>5

\* Writing a buffer that no ring holds changes no queue.
LEMMA MessagesKept ==
    ASSUME TypeOK, ring' = ring,
           \A r \in Rings : \A i \in 1 .. Len(ring[r]) :
               content'[ring[r][i]] = content[ring[r][i]]
    PROVE  Messages' = Messages
  <1>1. ASSUME NEW r \in Rings PROVE MessagesIn(ring[r])' = MessagesIn(ring[r])
    BY DEF MessagesIn
  <1> QED
    BY <1>1 DEF Messages

\* The empty rings are empty queues.
LEMMA InitImplements == Init => Channel!Init
  <1> SUFFICES ASSUME Init PROVE Channel!Init
    OBVIOUS
  <1>1. Messages = [r \in Rings |-> <<>>]
    BY DEF Init, Messages, MessagesIn
  <1>2. Taken = [a \in Actors |-> None]
    BY DEF Init, Taken
  <1> QED
    BY <1>1, <1>2 DEF Init, Channel!Init

\* A call of send_cmd, its two refusals and its success.
LEMMA SendImplements ==
    ASSUME ChannelInv, NEW a \in Actors,
           \/ \E l \in Lcores, m \in Msgs : SendCall(a, l, m)
           \/ SendNoBuffer(a)
           \/ SendEnqueue(a)
           \/ SendRingFull(a)
    PROVE  Channel!Next
  <1>1. ASSUME NEW l \in Lcores, NEW m \in Msgs, SendCall(a, l, m)
        PROVE  Channel!Ask(a, SendRing(a, l), m) /\ SendRing(a, l) \in Rings
    <2>1. SendRing(a, l) \in Rings
      BY <1>1, RingsOfCalls DEF SendCall
    <2>2. Messages' = Messages
      BY <1>1, MessagesKept DEF ChannelInv, SendCall
    <2>3. Taken' = Taken
      BY <1>1 DEF ChannelInv, TypeOK, SendCall, Taken
    <2>4. asked[a] = None
      BY <1>1 DEF ChannelInv, StepInv, SendCall
    <2> QED
      BY <1>1, <2>1, <2>2, <2>3, <2>4 DEF Channel!Ask, SendCall
  <1>2. ASSUME SendNoBuffer(a) \/ SendRingFull(a)
        PROVE  Channel!Refuse(a)
    <2>1. Messages' = Messages
      BY <1>2, MessagesKept DEF ChannelInv, SendNoBuffer, SendRingFull
    <2>2. Taken' = Taken
      BY <1>2 DEF ChannelInv, TypeOK, SendNoBuffer, SendRingFull, Taken
    <2>3. asked[a] # None
      BY <1>2 DEF ChannelInv, StepInv, SendNoBuffer, SendRingFull
    <2> QED
      BY <1>2, <2>1, <2>2, <2>3 DEF Channel!Refuse, SendNoBuffer, SendRingFull
  <1>3. ASSUME SendEnqueue(a) PROVE Channel!Accept(a)
    <2> DEFINE q == asked[a][1]
    <2>1. /\ hand[a] \in Bufs /\ asked[a] \in Rings \X Msgs /\ asked[a] # None
          /\ content[hand[a]] = asked[a][2]
      BY <1>3 DEF ChannelInv, TypeOK, StepInv, FilledInv, SendEnqueue
    <2>2. q \in Rings
      BY <2>1
    <2>3. Len(Messages[q]) < RingSize
      <3>1. Len(Messages[q]) = Len(ring[q])
        BY <2>2 DEF ChannelInv, TypeOK, Messages, MessagesIn
      <3> QED
        BY <1>3, <3>1 DEF SendEnqueue
    <2>4. Messages' = [Messages EXCEPT ![q] = Append(@, asked[a][2])]
      <3>1. MessagesIn(Append(ring[q], hand[a])) = Append(MessagesIn(ring[q]), asked[a][2])
        BY <2>1, <2>2, MessagesAppended DEF ChannelInv, TypeOK
      <3>2. ASSUME NEW s \in Rings
            PROVE  MessagesIn(ring[s])' = IF s = q THEN Append(MessagesIn(ring[s]), asked[a][2])
                                                   ELSE MessagesIn(ring[s])
        BY <1>3, <2>2, <3>1 DEF ChannelInv, TypeOK, SendEnqueue, MessagesIn
      <3> QED
        BY <2>2, <3>2 DEF Messages
    <2>5. Taken' = Taken
      BY <1>3 DEF ChannelInv, TypeOK, SendEnqueue, Taken
    <2> QED
      BY <1>3, <2>1, <2>3, <2>4, <2>5 DEF Channel!Accept, SendEnqueue
  <1> QED
    BY <1>1, <1>2, <1>3 DEF Channel!Next

\* What get_cmd does to the ring and to the caller's message.
LEMMA GetImplements ==
    ASSUME ChannelInv, NEW a \in Actors,
           GetPut(a) \/ \E r \in Rings : GetDequeue(a, r)
    PROVE  Channel!Next
  <1>1. ASSUME GetPut(a) PROVE Channel!Return(a)
    <2>1. Messages' = Messages
      BY <1>1, MessagesKept DEF ChannelInv, GetPut
    <2>2. Taken' = [Taken EXCEPT ![a] = None] /\ Taken[a] # None
      BY <1>1 DEF ChannelInv, TypeOK, StepInv, GetPut, Taken
    <2> QED
      BY <1>1, <2>1, <2>2 DEF Channel!Return, GetPut
  <1>2. ASSUME NEW r \in Rings, GetDequeue(a, r) PROVE Channel!Take(a, r)
    <2>1. /\ MessagesIn(ring[r]) # <<>>
          /\ Head(MessagesIn(ring[r])) = content[Head(ring[r])]
          /\ MessagesIn(Tail(ring[r])) = Tail(MessagesIn(ring[r]))
      BY <1>2, MessagesRemoved DEF ChannelInv, TypeOK, GetDequeue
    <2>2. Messages[r] # <<>> /\ Head(Messages[r]) = content[Head(ring[r])]
      BY <2>1 DEF Messages
    <2>3. Messages' = [Messages EXCEPT ![r] = Tail(@)]
      <3>1. ASSUME NEW s \in Rings
            PROVE  MessagesIn(ring[s])' = IF s = r THEN Tail(MessagesIn(ring[s]))
                                                   ELSE MessagesIn(ring[s])
        BY <1>2, <2>1 DEF ChannelInv, TypeOK, GetDequeue, MessagesIn
      <3> QED
        BY <3>1 DEF Messages
    <2>4. Taken[a] = None /\ Taken' = [Taken EXCEPT ![a] = content[Head(ring[r])]]
      BY <1>2 DEF ChannelInv, TypeOK, StepInv, GetDequeue, Taken
    <2> QED
      BY <1>2, <2>2, <2>3, <2>4 DEF Channel!Take, GetDequeue
  <1> QED
    BY <1>1, <1>2 DEF Channel!Next

\* A death is the Forget of the channel.
LEMMA DeathImplements ==
    ASSUME ChannelInv, NEW l \in Lcores, SlaveDies(l)
    PROVE  Channel!Next
  <1>1. Messages' = Messages
    BY MessagesKept DEF ChannelInv, SlaveDies
  <1>2. l \in Actors
    BY DEF Actors
  <1>3. Taken' = [Taken EXCEPT ![l] = None]
    BY <1>2 DEF ChannelInv, TypeOK, SlaveDies, Taken
  <1>4. Channel!Forget(l)
    BY <1>1, <1>3 DEF Channel!Forget, SlaveDies
  <1> QED
    BY <1>2, <1>4 DEF Channel!Next

\* The steps inside of a call that nobody outside sees.
LEMMA HiddenSteps ==
    ASSUME ChannelInv,
           \/ \E a \in Actors : SendGetBuffer(a) \/ SendCopy(a) \/ GetCopy(a)
           \/ \E l \in Lcores : SlaveRestarts(l)
           \/ UNCHANGED vars
    PROVE  UNCHANGED <<Messages, asked, Taken>>
  <1>1. ASSUME NEW a \in Actors, SendCopy(a) PROVE UNCHANGED <<Messages, asked, Taken>>
    <2>1. hand[a] \in Bufs
      BY <1>1 DEF ChannelInv, TypeOK, StepInv, SendCopy
    <2>2. /\ \A c \in Actors \ {a} : hand[c] # hand[a]
          /\ \A r \in Rings : \A i \in 1 .. Len(ring[r]) : ring[r][i] # hand[a]
      BY <2>1, IpcAssumption DEF ChannelInv, TypeOK, OneHolder, HandsApart, RingsApart
    <2>3. \A b \in Bufs \ {hand[a]} : content'[b] = content[b]
      BY <1>1 DEF ChannelInv, TypeOK, SendCopy
    <2>4. Messages' = Messages
      <3>1. \A r \in Rings : \A i \in 1 .. Len(ring[r]) : ring[r][i] \in Bufs
        BY DEF ChannelInv, TypeOK
      <3> QED
        BY <1>1, <2>2, <2>3, <3>1, MessagesKept DEF ChannelInv, SendCopy
    <2>5. Taken' = Taken
      <3>1. \A c \in Actors : at[c] = "copy_out" => c # a /\ hand[c] \in Bufs \ {hand[a]}
        BY <1>1, <2>2 DEF ChannelInv, TypeOK, StepInv, SendCopy
      <3> QED
        BY <1>1, <2>3, <3>1 DEF ChannelInv, TypeOK, SendCopy, Taken
    <2> QED
      BY <1>1, <2>4, <2>5 DEF SendCopy
  <1>2. ASSUME NEW a \in Actors, SendGetBuffer(a) \/ GetCopy(a)
        PROVE  UNCHANGED <<Messages, asked, Taken>>
    <2>1. Messages' = Messages
      BY <1>2, MessagesKept DEF ChannelInv, SendGetBuffer, GetCopy
    <2>2. Taken' = Taken
      BY <1>2 DEF ChannelInv, TypeOK, SendGetBuffer, GetCopy, Taken
    <2> QED
      BY <1>2, <2>1, <2>2 DEF SendGetBuffer, GetCopy
  <1>3. ASSUME UNCHANGED vars \/ \E l \in Lcores : SlaveRestarts(l)
        PROVE  UNCHANGED <<Messages, asked, Taken>>
    <2>1. UNCHANGED <<ring, content, at, hand, asked, got>>
      BY <1>3 DEF vars, SlaveRestarts
    <2> QED
      BY <2>1 DEF Messages, MessagesIn, Taken
  <1> QED
    BY <1>1, <1>2, <1>3

\* send_cmd and get_cmd implement the bounded queues of MsgChannel, whatever the
\* number of slaves and buffers, the interleaving and the deaths.
THEOREM ChannelImplemented == Spec => ImplementsChannel
  <1>1. ChannelInv /\ [Next]_vars => [Channel!Next]_(Channel!vars)
    <2> SUFFICES ASSUME ChannelInv, [Next]_vars PROVE [Channel!Next]_(Channel!vars)
      OBVIOUS
    <2>1. CASE Next
      BY <2>1, StepCases, SendImplements, GetImplements, DeathImplements, HiddenSteps
      DEF Channel!vars
    <2>2. CASE UNCHANGED vars
      BY <2>2, HiddenSteps DEF Channel!vars
    <2> QED
      BY <2>1, <2>2
  <1> QED
    BY <1>1, InitImplements, Invariance, PTL DEF Spec, ImplementsChannel, Channel!Spec

=============================================================================
