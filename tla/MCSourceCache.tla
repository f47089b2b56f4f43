--------------------------- MODULE MCSourceCache ---------------------------
(* Instances of SourceCache for TLC: the versions are interchangeable, and so *)
(* are the processes where no liveness is checked.                           *)
EXTENDS SourceCache, TLC

Interchangeable == Permutations(Proc) \cup Permutations(Version)

=============================================================================
