---------------------------- MODULE MCLogFactory ----------------------------
(* Instances of LogFactory for TLC: one sink takes every source, as the file *)
(* sink does, the other takes the source "console" only.                     *)
EXTENDS LogFactory

CONSTANTS console, gsmake, consoleSink, fileSink

AppliesTo == [s \in {consoleSink, fileSink} |->
                IF s = fileSink THEN {console, gsmake} ELSE {console}]
AppliesToOne == [s \in {fileSink} |-> {console}]

=============================================================================
