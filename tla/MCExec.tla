------------------------------- MODULE MCExec -------------------------------
(* Instances of Exec for TLC: a command with two pipes. *)
EXTENDS Exec

CONSTANTS out, err, outBuffer, errBuffer

TwoBuffers == [s \in {out, err} |-> IF s = out THEN outBuffer ELSE errBuffer]

=============================================================================
