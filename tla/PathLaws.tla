------------------------------ MODULE PathLaws ------------------------------
(* What callers may expect of the operations on paths, for every pair of paths *)
(* up to a length; the paths grow name by name.                                *)
EXTENDS FilePath

CONSTANTS
  LawsName,  \* names other than the two dots and the drive
  MaxFirst,  \* bound: separators and names of the first path
  MaxSecond  \* bound: of the second

ASSUME PathLawsAssumption ==
  /\ LawsName \cap {Slash, Dot, DotDot, Drive} = {}
  /\ MaxFirst \in Nat /\ MaxSecond \in Nat

VARIABLES path, other

\* Two names do not meet, except that one follows a drive; no network names.
Extends(p, t) ==
  IF p = <<>> THEN TRUE
  ELSE IF t = Slash THEN p # <<Slash>>
  ELSE t # Drive /\ (Last(p) = Slash \/ p = <<Drive>>)

Tokens == LawsName \cup {Slash, Dot, DotDot, Drive}

LawsInit == path = <<>> /\ other = <<>>

Longer ==
  /\ Len(path) < MaxFirst /\ other = <<>> /\ UNCHANGED other
  /\ \E t \in Tokens : Extends(path, t) /\ path' = Append(path, t)

OtherLonger ==
  /\ Len(other) < MaxSecond /\ UNCHANGED path
  /\ \E t \in Tokens : Extends(other, t) /\ other' = Append(other, t)

LawsNext == Longer \/ OtherLonger

lawsVars == <<path, other>>
LawsSpec == LawsInit /\ [][LawsNext]_lawsVars

-----------------------------------------------------------------------------
(* Properties. *)

\* A directory deep enough for every path to be led up from.
LawsCwd == [i \in 1..MaxFirst + MaxSecond |-> "u"]

\* The path leads more than one directory up from where it starts, if only on its way.
ClimbsTwice(p) ==
  ~Rooted(p) /\ \E k \in 1..Len(p) : Len(Place(LawsCwd, SubSeq(p, 1, k))) < Len(LawsCwd) - 1

\* What holds of it: clean and join keep what a path names, unless it leads up more than
\* once, when one .. takes the other away (filepath.lua:183-186, 208-215).
CleanKeepsPlace ==
  /\ ClimbsTwice(path) \/ Place(LawsCwd, Clean(path)) = Place(LawsCwd, path)
  /\ LET joined == path \o <<Slash>> \o other IN
       path # <<>> /\ Volume(other) = <<>> =>
         ClimbsTwice(joined) \/ Place(LawsCwd, Join(path, other)) = Place(LawsCwd, joined)

=============================================================================
