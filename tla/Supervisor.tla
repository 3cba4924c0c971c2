----------------------------- MODULE Supervisor -----------------------------
(***************************************************************************)
(* What the control plane promises for each slave lcore.  A slave that has *)
(* exited is noticed and started again, one process at a time.  Each slave *)
(* asks for a configuration once and is given the answer to its own        *)
(* question, which is also what the master keeps on record.  Threads,      *)
(* rings, flags and the lock do not appear here.                           *)
(***************************************************************************)

CONSTANTS
    Slaves,     \* the lcores that run a slave
    Configs,    \* the configurations that may be given
    Ids,        \* what the record of an lcore may hold
    None        \* no configuration

VARIABLES
    phase,      \* the life of the slave process of each lcore
    dialog,     \* how far it has come in asking for a configuration
    given,      \* the configuration that it is given
    record      \* the configuration that the master has on record

vars == <<phase, dialog, given, record>>

Init ==
    /\ phase = [l \in Slaves |-> "starting"]
    /\ dialog = [l \in Slaves |-> "idle"]
    /\ given = [l \in Slaves |-> None]
    /\ record \in [Slaves -> Ids]

\* The life of a slave process.
Moves(l, from, to) ==
    /\ phase[l] = from
    /\ phase' = [phase EXCEPT ![l] = to]

Fork(l) == Moves(l, "starting", "alive") /\ UNCHANGED <<dialog, given, record>>

\* Nothing starts the slave of this lcore again.
ForkFails(l) == Moves(l, "starting", "failed") /\ UNCHANGED <<dialog, given, record>>

\* A slave exits or is killed.  A question that it leaves behind is an orphan.
Exit(l) ==
    /\ Moves(l, "alive", "exited")
    /\ dialog' = [dialog EXCEPT ![l] = IF @ = "asked" THEN "orphan" ELSE "idle"]
    /\ given' = [given EXCEPT ![l] = None]
    /\ UNCHANGED record

Notice(l) == Moves(l, "exited", "noticed") /\ UNCHANGED <<dialog, given, record>>

\* Not before the orphan is gone.
Relaunch(l) ==
    /\ dialog[l] = "idle"
    /\ Moves(l, "noticed", "starting")
    /\ UNCHANGED <<dialog, given, record>>

\* The dialog of a live slave with the master.
Says(l, from, to) ==
    /\ phase[l] = "alive" /\ dialog[l] = from
    /\ dialog' = [dialog EXCEPT ![l] = to]

Ask(l) == Says(l, "idle", "asked") /\ UNCHANGED <<phase, given, record>>

Answer(l, c) ==
    /\ Says(l, "asked", "answered")
    /\ given' = [given EXCEPT ![l] = c]
    /\ record' = [record EXCEPT ![l] = c]
    /\ UNCHANGED phase

\* No configuration is free: the slave waits for ever.
Refuse(l) == Says(l, "asked", "refused") /\ UNCHANGED <<phase, given, record>>

Configure(l) == Says(l, "answered", "configured") /\ UNCHANGED <<phase, given, record>>

\* An orphan is answered, on the record and to nobody ...
AnswerLate(l, c) ==
    /\ dialog[l] = "orphan"
    /\ dialog' = [dialog EXCEPT ![l] = "idle"]
    /\ record' = [record EXCEPT ![l] = c]
    /\ UNCHANGED <<phase, given>>

\* ... or refused, or thrown away.
Drop(l) ==
    /\ dialog[l] = "orphan"
    /\ dialog' = [dialog EXCEPT ![l] = "idle"]
    /\ UNCHANGED <<phase, given, record>>

Next ==
    \E l \in Slaves :
        \/ Fork(l) \/ ForkFails(l) \/ Exit(l) \/ Notice(l) \/ Relaunch(l)
        \/ Ask(l) \/ Refuse(l) \/ Configure(l) \/ Drop(l)
        \/ \E c \in Configs : Answer(l, c) \/ AnswerLate(l, c)

Spec == Init /\ [][Next]_vars

=============================================================================
