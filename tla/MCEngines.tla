----------------------------- MODULE MCEngines ------------------------------
(* Instances of Engines for TLC.                                             *)
EXTENDS Engines

MCRules == <<[ip_dst |-> 1, ip_src |-> 2], [ip_dst |-> 2, ip_src |-> 2]>>

\* With digits below 4: "", the bytes 1 2, 2 1, 1 1 2, 1 0 1, 1 9 and 1 2 0, and
\* the values 1 17, of bytes 1 1; then lines that are refused: an odd one, one with
\* a negative value and one that is too long.
MCLines == {<<>>, <<0, 1, 0, 2>>, <<0, 2, 0, 1>>, <<0, 1, 0, 1, 0, 2>>,
            <<0, 1, 0, 0, 0, 1>>, <<0, 1, 2, 1>>, <<0, 1, 0, 2, 0, 0>>, <<0, 1, 3, 5>>,
            <<0, 1, 2>>, <<0, -2>>, <<0, 1, 0, 1, 0, 1, 0, 1>>}

MCModuli == {-2, 0, 1, 3, 5}

=============================================================================
