---------------------------- MODULE ModuloEngine ----------------------------
(***************************************************************************)
(* The modulo engine (engine_misc.c): it forwards the packets whose number *)
(* is a multiple of the argument.  The number is an int that wraps around. *)
(***************************************************************************)
EXTENDS Integers

CONSTANTS
    IntMax,         \* largest int: 2^31 - 1 in the code
    Moduli          \* what atoi makes of the argument

ASSUME ModuloAssumption == IntMax \in Nat \ {0} /\ Moduli \subseteq Int

VARIABLES
    modulo,
    n,
    dropped         \* history: packets dropped since the last one was forwarded

moduloVars == <<modulo, n, dropped>>

ModuloInit == modulo = 0 /\ n = 0 /\ dropped = 0

ModuloForget == modulo' = 0 /\ n' = 0 /\ dropped' = 0

\* A negative argument is complained about and kept; 0 is taken as it is.
modulo_init ==
    /\ modulo' \in Moduli
    /\ UNCHANGED <<n, dropped>>

\* A counter that restarts at the wrong end.
PlusPlusStuck(i) == IF i = IntMax THEN i ELSE i + 1

PlusPlus(i) == IF i = IntMax THEN -IntMax - 1 ELSE i + 1

Abs(i) == IF i < 0 THEN -i ELSE i

\* Division by 0 ends the process.
ModuloDivides == modulo # 0

modulo_engine ==
    /\ ModuloDivides
    /\ n' = PlusPlus(n)
    /\ dropped' = IF n' % Abs(modulo) = 0 THEN 0 ELSE dropped + 1
    /\ UNCHANGED modulo

-----------------------------------------------------------------------------
\* One packet in |modulo| is forwarded; around the overflow of n, when the count
\* starts anew at a number that need not be a multiple, at most twice as many
\* are dropped in a row.
ModuloSpacing == modulo # 0 => dropped <= 2 * (Abs(modulo) - 1)

=============================================================================
