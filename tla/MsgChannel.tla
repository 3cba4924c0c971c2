----------------------------- MODULE MsgChannel -----------------------------
(***************************************************************************)
(* What send_cmd and get_cmd (ipc.c) promise to their callers: each ring   *)
(* is a bounded queue of messages.  A message that was accepted is taken   *)
(* unchanged, once, and in order; one that was not accepted leaves no      *)
(* trace.  Buffers and their pool do not appear here.                      *)
(***************************************************************************)
EXTENDS Naturals, Sequences

CONSTANTS
    Actors,     \* the master and the slaves
    Mortal,     \* the actors that may die: the slaves
    Rings,
    Capacity,   \* messages that a ring holds
    Msgs,
    None        \* no message, no call

VARIABLES
    queue,      \* the messages in each ring
    asked,      \* the ring and the message of the send that an actor is in
    got         \* the message that an actor has taken and not yet returned with

vars == <<queue, asked, got>>

Init ==
    /\ queue = [r \in Rings |-> <<>>]
    /\ asked = [a \in Actors |-> None]
    /\ got = [a \in Actors |-> None]

\* An actor calls send_cmd.
Ask(a, r, m) ==
    /\ asked[a] = None
    /\ asked' = [asked EXCEPT ![a] = <<r, m>>]
    /\ UNCHANGED <<queue, got>>

\* send_cmd returns 0: the message is the last one of the ring.
Accept(a) ==
    /\ asked[a] # None
    /\ Len(queue[asked[a][1]]) < Capacity
    /\ queue' = [queue EXCEPT ![asked[a][1]] = Append(@, asked[a][2])]
    /\ asked' = [asked EXCEPT ![a] = None]
    /\ UNCHANGED got

\* send_cmd returns -1.
Refuse(a) ==
    /\ asked[a] # None
    /\ asked' = [asked EXCEPT ![a] = None]
    /\ UNCHANGED <<queue, got>>

\* get_cmd takes the first message of the ring ...
Take(a, r) ==
    /\ got[a] = None
    /\ queue[r] # <<>>
    /\ got' = [got EXCEPT ![a] = Head(queue[r])]
    /\ queue' = [queue EXCEPT ![r] = Tail(@)]
    /\ UNCHANGED asked

\* ... and returns 0 with it.
Return(a) ==
    /\ got[a] # None
    /\ got' = [got EXCEPT ![a] = None]
    /\ UNCHANGED <<queue, asked>>

\* An actor dies.
Forget(a) ==
    /\ a \in Mortal
    /\ asked' = [asked EXCEPT ![a] = None]
    /\ got' = [got EXCEPT ![a] = None]
    /\ UNCHANGED queue

Next ==
    \E a \in Actors :
        \/ \E r \in Rings : Take(a, r) \/ \E m \in Msgs : Ask(a, r, m)
        \/ Accept(a) \/ Refuse(a) \/ Return(a) \/ Forget(a)

Spec == Init /\ [][Next]_vars

=============================================================================
