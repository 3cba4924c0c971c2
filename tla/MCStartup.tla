----------------------------- MODULE MCStartup ------------------------------
(* Instances of Startup for TLC.                                             *)
EXTENDS Startup

\* With ints up to 7 and three milliseconds to a second: -3 seconds overflow, -1 is
\* also what is no number, 2 is MAX_TIMER_PERIOD and 17 is 1 as an int.
MCNumbers == {-3, -1, 2, 17}

=============================================================================
