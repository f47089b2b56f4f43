---------------------------- MODULE MCTaskRunner ----------------------------
(***************************************************************************)
(* A small instance of TaskRunner: three task names, the package and one   *)
(* plugin, which is attached from the start or between two runs.           *)
(***************************************************************************)
EXTENDS TaskRunner

CONSTANTS a, b, c, lua

\* The package declares its tasks in every way: every graph of Prev links on
\* three names, links to missing tasks included.  The plugin adds a second task
\* to the groups b and c, with Prev a or none.
EveryPackage ==
  {d \in [Owner -> [Name -> Name \cup {NoPrev, Absent}]] :
     d[lua][a] = Absent /\ \A n \in {b, c} : d[lua][n] \in {NoPrev, Absent, a}}
=============================================================================
