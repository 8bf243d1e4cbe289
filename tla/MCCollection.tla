---------------------------- MODULE MCCollection ----------------------------
(* Small instances of Collection: which job is for which source.           *)
EXTENDS Collection

CONSTANTS s1, s2

\* Two jobs compete for one source; a third runs beside them on another.
TwoSources == [j \in Jobs |-> IF j = 3 THEN s2 ELSE s1]

\* All jobs compete for one source.
OneSource == [j \in Jobs |-> s1]
=============================================================================
