---------------------------- MODULE StatsReader -----------------------------
(***************************************************************************)
(* print_stats of the master (main.c) next to the slave whose counters it  *)
(* prints.  The counters are in shared memory and nothing orders the reads *)
(* of the master and the writes of the slave; the compiler is free to read *)
(* the operands of rx_b - filtered_b - dropped_b in any order.             *)
(***************************************************************************)
EXTENDS Bridge

CONSTANT CounterRange   \* 2^64: the counters and their differences wrap here

VARIABLES
    reading,    \* print_stats is evaluating the bytes sent
    seen,       \* the operands that it has read
    printed     \* the bytes sent that it printed last

readerVars == <<reading, seen, printed>>

Operands == {"rx_b", "filtered_b", "dropped_b"}

\* The timer of main_loop expires.
PrintStats ==
    /\ ~reading
    /\ reading' = TRUE
    /\ seen' = <<>>
    /\ UNCHANGED printed

ReadOperand(f) ==
    /\ reading
    /\ f \notin DOMAIN seen
    /\ seen' = [g \in DOMAIN seen \cup {f} |->
                    IF g = f THEN stats[f] ELSE seen[g]]
    /\ UNCHANGED <<reading, printed>>

\* Unsigned arithmetic: the difference wraps around.
PrintSent ==
    /\ reading
    /\ DOMAIN seen = Operands
    /\ printed' = (seen["rx_b"] + 2 * CounterRange - seen["filtered_b"]
                        - seen["dropped_b"]) % CounterRange
    /\ reading' = FALSE
    /\ UNCHANGED seen

ReaderInit == Init /\ reading = FALSE /\ seen = <<>> /\ printed = 0

ReaderNext ==
    \/ Next /\ UNCHANGED readerVars
    \/ /\ PrintStats \/ (\E f \in Operands : ReadOperand(f)) \/ PrintSent
       /\ UNCHANGED vars

ReaderSpec == ReaderInit /\ [][ReaderNext]_<<vars, readerVars>>

\* bridge_port_statistics: "tx_b = rx_b - dropped_b - filtered_b".  The bytes
\* that print_stats reports as sent never exceed the bytes received.
SentPlausible == printed <= stats.rx_b

=============================================================================
