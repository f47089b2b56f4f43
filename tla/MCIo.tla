-------------------------------- MODULE MCIo --------------------------------
(* The two io services for TLC, used in ways the commands do not use them:   *)
(* two reads of a stream at a time, two threads that open, read and close.   *)
(* A program has one of the two, the other is not there.                     *)
EXTENDS Reactor, Iocp

CONSTANTS pipe1, memory, main, t1, t2, s1, s2, h1, o1, o2

OneBuffer == [s \in {pipe1} |-> memory]

VARIABLE system   \* which one the program is built for

allVars == <<system, vars, iocpVars>>

IoInit == system \in {"posix", "windows"} /\ IocpInit /\ Init

Posix   == system = "posix" /\ Next /\ UNCHANGED <<system, iocpVars>>
Windows == system = "windows" /\ IocpNext /\ UNCHANGED <<system, vars>>

IoSpec == IoInit /\ [][Posix \/ Windows]_allVars

=============================================================================
