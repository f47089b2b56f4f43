------------------------------ MODULE FilePath ------------------------------
(***************************************************************************)
(* Path names, which the two halves of gsmake treat on their own: clean,   *)
(* join, base and dir of lemoon/filepath.lua, and the class filepath of    *)
(* lemon/fs/filepath.hpp.                                                  *)
(*                                                                         *)
(* A path is the sequence of its separators and of the names between them; *)
(* both kinds of separator are one.  A drive counts only at the beginning. *)
(* Paths that begin with two separators, the network names of Windows, are *)
(* left out.                                                               *)
(***************************************************************************)
EXTENDS Naturals, Sequences, SequencesExt

Slash  == "/"
Dot    == "."
DotDot == ".."
Drive  == "c:"

\* The first or last of an empty list was asked for.
Undefined == [volume |-> <<>>, nodes |-> <<"undefined">>]

Volume(path) == IF path # <<>> /\ path[1] = Drive THEN <<Drive>> ELSE <<>>
Body(path)   == SubSeq(path, Len(Volume(path)) + 1, Len(path))
Rooted(path) == Body(path) # <<>> /\ Body(path)[1] = Slash
Names(path)  == SelectSeq(Body(path), LAMBDA t : t # Slash)

\* Nodes with a separator between each two.
Joined(nodes) ==
  [i \in 1..2 * Len(nodes) - 1 |-> IF i % 2 = 1 THEN nodes[(i + 1) \div 2] ELSE Slash]

-----------------------------------------------------------------------------
(* Where a path leads from a directory, without links: the names below the root. *)

Enter(place, name) ==
  IF name = Dot THEN place
  ELSE IF name = DotDot THEN (IF place = <<>> THEN <<>> ELSE Front(place))
  ELSE Append(place, name)

Place(cwd, path) == FoldLeft(Enter, IF Rooted(path) THEN <<>> ELSE cwd, Names(path))

-----------------------------------------------------------------------------
(* filepath.lua *)

FaultyCleanStep(nodes, name) ==   \* a name after .. replaces the one before it
  IF name = Dot THEN nodes
  ELSE IF nodes # <<>> /\ (name = DotDot \/ Last(nodes) = DotDot) THEN Front(nodes)
  ELSE Append(nodes, name)

CleanStep(nodes, name) ==
  IF name = Dot THEN nodes
  ELSE IF name = DotDot /\ nodes # <<>> THEN Front(nodes)
  ELSE Append(nodes, name)

Clean(path) ==
  IF Body(path) = <<>> THEN path \o <<Dot>>
  ELSE LET nodes == FoldLeft(CleanStep, <<>>, Names(path))
       IN  Volume(path) \o (IF Rooted(path) THEN <<Slash>> ELSE <<>>)
             \o Joined(IF nodes = <<>> THEN <<Dot>> ELSE nodes)

Join(path, other) == Clean(path \o <<Slash>> \o other)

-----------------------------------------------------------------------------
(* filepath.hpp: a volume and a list of nodes, of which the root is one. *)

\* A path that ends in a separator has a last node of its own.
Parse(path) ==
  [volume |-> Volume(path),
   nodes  |-> (IF Rooted(path) THEN <<Slash>> ELSE <<>>) \o Names(path)
                \o (IF Body(path) # <<>> /\ Last(path) = Slash THEN <<Dot>> ELSE <<>>)]

IsEmpty(p) == p.nodes = <<>> /\ p.volume = <<>>

\* Roots after the first node do not print, and the last node not when it is a dot.
String(p) ==
  IF p.nodes = <<>> THEN p.volume
  ELSE IF p.nodes = <<Slash>> THEN p.volume \o <<Slash>>
  ELSE LET head == IF Head(p.nodes) = Slash THEN <<>> ELSE <<Head(p.nodes)>>
           rest == SelectSeq(Tail(p.nodes), LAMBDA t : t # Slash)
           all  == p.volume \o head \o FlattenSeq([i \in DOMAIN rest |-> <<Slash, rest[i]>>])
       IN  IF Last(p.nodes) = Dot /\ Len(p.nodes) > 1 THEN Front(all) ELSE all

ParentPath(p) ==
  IF IsEmpty(p) THEN p
  ELSE IF p.nodes = <<>> THEN Undefined
  ELSE [p EXCEPT !.nodes = Front(p.nodes)]

=============================================================================
