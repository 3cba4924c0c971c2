------------------------------ MODULE Engines -------------------------------
(***************************************************************************)
(* The filter engine of one slave: bridge_init_engine (bridge.c) starts    *)
(* the engine that the configuration names, ignores what its init function *)
(* returns and enters the loop that calls it for every packet.  A slave    *)
(* that dies is started again with the same configuration; only shared     *)
(* memory is kept.                                                         *)
(***************************************************************************)
EXTENDS HashEngine, ModuloEngine, FastStrstr

CONSTANTS MaxCrashes    \* bound: deaths of the slave

ASSUME EnginesAssumption == MaxCrashes \in Nat

VARIABLES
    engine,         \* engine of the configuration
    life,           \* "init", "loop" or "dead"
    program,        \* the BPF program was compiled
    crashes

vars == <<engine, life, program, crashes, hashVars, moduloVars, strstrVars>>

Names == {"default", "bpf", "bpf_pcap", "fast_strstr", "hash", "modulo"}

Init ==
    /\ engine \in Names
    /\ life = "init" /\ program = FALSE /\ crashes = 0
    /\ HashInit /\ ModuloInit /\ StrstrInit

\* The init functions.
InitHash ==
    /\ life = "init" /\ engine = "hash"
    /\ HashCreate \/ HashAddKey \/ HashInitDone
    /\ life' = IF HashReady THEN "loop" ELSE life
    /\ UNCHANGED <<engine, program, crashes, moduloVars, strstrVars>>

\* init_hash cannot read its file: -1, and the loop starts without a table.
InitHashNoFile ==
    /\ life = "init" /\ engine = "hash" /\ adding = 0
    /\ life' = "loop"
    /\ UNCHANGED <<engine, program, crashes, hashVars, moduloVars, strstrVars>>

InitModulo ==
    /\ life = "init" /\ engine = "modulo"
    /\ modulo_init
    /\ life' = "loop"
    /\ UNCHANGED <<engine, program, crashes, hashVars, strstrVars>>

\* fast_str_init leaves with exit(1) when a line does not compile.
InitStrstr ==
    /\ life = "init" /\ engine = "fast_strstr"
    /\ \/ CompileLine /\ UNCHANGED life
       \/ strings # <<>> /\ life' = "loop" /\ UNCHANGED strstrVars
       \/ (\E line \in Lines : ~Compiles(line)) /\ life' = "dead" /\ UNCHANGED strstrVars
    /\ UNCHANGED <<engine, program, crashes, hashVars, moduloVars>>

\* l2fwd_init does nothing.
InitDefault ==
    /\ life = "init" /\ engine = "default"
    /\ life' = "loop"
    /\ UNCHANGED <<engine, program, crashes, hashVars, moduloVars, strstrVars>>

\* The JIT compiler succeeds, or the slave exits.
compile_bpf_program == program' = TRUE

InitBpf ==
    /\ life = "init" /\ engine = "bpf"
    /\ compile_bpf_program
    /\ life' = "loop"
    /\ UNCHANGED <<engine, crashes, hashVars, moduloVars, strstrVars>>

\* BPF_pcap_init may return -1 before it comes to compile, and the loop starts
\* without a program.
InitBpfPcap ==
    /\ life = "init" /\ engine = "bpf_pcap"
    /\ compile_bpf_program \/ UNCHANGED program
    /\ life' = "loop"
    /\ UNCHANGED <<engine, crashes, hashVars, moduloVars, strstrVars>>

\* One packet, or one burst, in the loop.  The default engine forwards and a BPF
\* program decides on its own: they keep no state.
FilterHash ==
    /\ life = "loop" /\ engine = "hash" /\ burst = <<>>
    /\ \E packets \in Bursts : HashFilter(packets)
    /\ UNCHANGED <<engine, life, program, crashes, moduloVars, strstrVars>>

FilterModulo ==
    /\ life = "loop" /\ engine = "modulo"
    /\ modulo_engine
    /\ UNCHANGED <<engine, life, program, crashes, hashVars, strstrVars>>

FilterStrstr ==
    /\ life = "loop" /\ engine = "fast_strstr" /\ pkt_len = 0
    /\ \E s \in Memories, len \in 1 .. MaxPacket :
          len < Len(s) /\ len >= Len(s) - 2 /\ StrstrFilter(s, len)
    /\ UNCHANGED <<engine, life, program, crashes, hashVars, moduloVars>>

\* The packets were forwarded or freed, and the loop comes round.
LoopAgain ==
    /\ life = "loop" /\ (burst # <<>> \/ pkt_len > 0)
    /\ burst' = <<>> /\ filtered' = <<>>
    /\ memory' = <<0>> /\ pkt_len' = 0 /\ found' = FALSE
    /\ UNCHANGED <<engine, life, program, crashes, table, created, socket, lookup4,
                   lookup1, adding, moduloVars, strings, keys>>

\* The slave dies: a signal, a failed allocation, a file it cannot use (exit(1),
\* rte_exit), a division by 0, a missing BPF program.
SlaveDies ==
    /\ life # "dead" /\ crashes < MaxCrashes
    /\ life' = "dead" /\ crashes' = crashes + 1
    /\ UNCHANGED <<engine, program, hashVars, moduloVars, strstrVars>>

SlaveRestarts ==
    /\ life = "dead"
    /\ life' = "init" /\ program' = FALSE
    /\ HashForget /\ ModuloForget /\ StrstrForget
    /\ UNCHANGED <<engine, crashes>>

Next ==
    \/ InitHash \/ InitHashNoFile \/ InitModulo \/ InitStrstr \/ InitDefault
    \/ InitBpf \/ InitBpfPcap
    \/ FilterHash \/ FilterModulo \/ FilterStrstr \/ LoopAgain
    \/ SlaveDies \/ SlaveRestarts

Spec == Init /\ [][Next]_vars

-----------------------------------------------------------------------------
TypeOK ==
    /\ engine \in Names /\ life \in {"init", "loop", "dead"}
    /\ program \in BOOLEAN /\ crashes \in 0 .. MaxCrashes
    /\ created \in BOOLEAN /\ socket \in {0, 1}
    /\ lookup4 \subseteq {0, 1} /\ lookup1 \in BOOLEAN
    /\ adding \in 0 .. Len(Rules) + 1
    /\ Len(table) <= Len(Rules)
    /\ modulo \in Moduli \cup {0} /\ n \in -IntMax - 1 .. IntMax /\ dropped \in Nat
    /\ Len(strings) <= MaxStrings /\ Len(keys) = Len(strings)
    /\ pkt_len \in 0 .. MaxPacket /\ found \in BOOLEAN

=============================================================================
