------------------------------ MODULE MakeDirs ------------------------------
(***************************************************************************)
(* Making a directory and what is missing above it (create_directories of  *)
(* fs/os.hpp): every loader, the log, the plugins and the downloaders      *)
(* begin with it, and two runs of gsmake in one workspace do so at once.   *)
(*                                                                         *)
(* The function asks whether the parent exists, calls itself for it, asks  *)
(* whether the path exists, and makes it: every question and every mkdir   *)
(* is a step of its own, and what another program does comes between.      *)
(***************************************************************************)
EXTENDS FilePath, FiniteSets

CONSTANTS
  MkProgram,  \* programs that make directories
  Paths,      \* paths they ask for, as FilePath has them
  MkCwd,      \* the directory they run in
  MkLayouts,  \* the trees to start from: directories and files
  MaxCalls,   \* bound: calls of each program
  MaxLosses   \* bound: directories removed by others

ASSUME MakeDirsAssumption ==
  /\ MaxCalls \in Nat /\ MaxLosses \in Nat
  /\ \A path \in Paths : path # <<>> /\ path # <<Drive>>
  /\ \A l \in MkLayouts :
       /\ l.dirs \cup l.files \subseteq Seq(STRING) \ {<<>>} /\ MkCwd \in {<<>>} \cup l.dirs
       /\ \A place \in l.dirs \cup l.files : Front(place) \in {<<>>} \cup l.dirs

VARIABLES
  mkDirs,    \* the directories, as names from the root; the root is not among them
  mkFiles,   \* the files
  mkStack,   \* mkStack[p]: the paths create_directories is called with, outermost first
  at,        \* at[p]: what the innermost call does next
  asked,     \* asked[p]: the path of the outermost call
  mkAnswer,  \* mkAnswer[p]: how that call ended
  calls, losses,
  disturbed  \* history: programs that another came between

mkVars == <<mkDirs, mkFiles, mkStack, at, asked, mkAnswer, calls, losses, disturbed>>

MkExists(place) == place = <<>> \/ place \in mkDirs \cup mkFiles

\* The paths that calls get, and for each the places the system walks through, where it
\* leads, and the names it is walked by before the last.
Known == UNION {LET parsed == Parse(path) IN
                  {[parsed EXCEPT !.nodes = SubSeq(@, 1, k)] : k \in 0..Len(parsed.nodes)} :
                path \in Paths}
LastName(path) == SelectLastInSeq(path, LAMBDA t : t # Slash)
Walk(path)     == {Place(MkCwd, SubSeq(path, 1, k)) : k \in 1..Len(path)}
Way == [p \in Known |->
          LET path == String(p) IN
            [end |-> Place(MkCwd, path), all |-> Walk(path),
             above |-> IF path = <<>> THEN {} ELSE Walk(SubSeq(path, 1, LastName(path) - 1)),
             named |-> Names(path) # <<>> /\ path[LastName(path)] \notin {Dot, DotDot}]]

\* What a path adds to its parent's way, from which errors are reasoned about: it goes
\* where the parent has been, then to one place more, into which the last name is made, or
\* which is there already when that is a dot.  All paths do so, by induction along their
\* names; it is evaluated for those asked for.
MkBefore(p) == {<<>>, MkCwd} \cup Way[ParentPath(p)].all
LeadsOn(p) ==
  LET way == Way[p] IN
    /\ ParentPath(p) \in Known /\ Way[ParentPath(p)].all \subseteq way.all
    /\ way.end \in way.all /\ way.above \cup (way.all \ {way.end}) \subseteq MkBefore(p)
    /\ IF way.named
         THEN /\ way.all \ {way.end} \subseteq way.above
              /\ way.end \in Seq(STRING) \ {<<>>}
              /\ Front(way.end) \in {<<>>, MkCwd} \cup way.above
         ELSE way.end \in MkBefore(p) \cup {Front(place) : place \in MkBefore(p) \ {<<>>}}

ASSUME WaysAssumption ==
  /\ \A path \in Paths : Parse(path) \in Known /\ Parse(path).nodes # <<>>
  /\ \A p \in Known :
       IF p.nodes = <<>>
         THEN Way[p].end = MkCwd /\ Way[p].all = IF IsEmpty(p) THEN {} ELSE {MkCwd}
         ELSE LeadsOn(p)

MkIsDirectory(place) == place = <<>> \/ place \in mkDirs

\* stat(2): through directories to something.
Reached(p) == /\ Way[p].all # {} /\ MkExists(Way[p].end)
              /\ \A place \in Way[p].all \ {Way[p].end} : MkIsDirectory(place)

MkTop(p)  == Last(mkStack[p])
Busy(p)   == mkStack[p] # <<>>
Disturb(p) == disturbed' = disturbed \cup {q \in MkProgram \ {p} : Busy(q)}

MkInit ==
  /\ \E l \in MkLayouts : mkDirs = l.dirs /\ mkFiles = l.files
  /\ mkStack = [p \in MkProgram |-> <<>>] /\ at = [p \in MkProgram |-> "idle"]
  /\ asked = [p \in MkProgram |-> Parse(<<>>)] /\ mkAnswer = [p \in MkProgram |-> "none"]
  /\ calls = [p \in MkProgram |-> 0] /\ losses = 0 /\ disturbed = {}

MkCall(p) ==
  /\ ~Busy(p) /\ calls[p] < MaxCalls
  /\ \E path \in Paths :
       /\ mkStack' = [mkStack EXCEPT ![p] = <<Parse(path)>>]
       /\ asked' = [asked EXCEPT ![p] = Parse(path)]
  /\ at' = [at EXCEPT ![p] = "parent"] /\ mkAnswer' = [mkAnswer EXCEPT ![p] = "none"]
  /\ calls' = [calls EXCEPT ![p] = @ + 1] /\ disturbed' = disturbed \ {p}
  /\ UNCHANGED <<mkDirs, mkFiles, losses>>

\* has_parent() and exists(parent): the call for the parent comes first.
LookParent(p) ==
  /\ at[p] = "parent"
  /\ LET parent == ParentPath(MkTop(p)) IN
       IF ~IsEmpty(parent) /\ ~Reached(parent)
         THEN mkStack' = [mkStack EXCEPT ![p] = Append(@, parent)] /\ UNCHANGED at
         ELSE at' = [at EXCEPT ![p] = "self"] /\ UNCHANGED mkStack
  /\ UNCHANGED <<mkDirs, mkFiles, asked, mkAnswer, calls, losses, disturbed>>

\* The innermost call returns; the one around it looks at its own path next.
MkReturn(p) ==
  /\ mkStack' = [mkStack EXCEPT ![p] = Front(@)]
  /\ at' = [at EXCEPT ![p] = IF Len(mkStack[p]) = 1 THEN "idle" ELSE "self"]
  /\ mkAnswer' = IF Len(mkStack[p]) = 1 THEN [mkAnswer EXCEPT ![p] = "made"] ELSE mkAnswer
  /\ UNCHANGED <<asked, calls, losses>>

FaultyLook(p) ==   \* makes it without a look
  /\ at[p] = "self" /\ at' = [at EXCEPT ![p] = "mkdir"]
  /\ UNCHANGED <<mkDirs, mkFiles, mkStack, asked, mkAnswer, calls, losses, disturbed>>

Look(p) ==
  /\ at[p] = "self"
  /\ IF Reached(MkTop(p))
       THEN MkReturn(p)
       ELSE /\ at' = [at EXCEPT ![p] = "mkdir"]
            /\ UNCHANGED <<mkStack, asked, mkAnswer, calls, losses>>
  /\ UNCHANGED <<mkDirs, mkFiles, disturbed>>

\* mkdir(2) makes the last name in the directory that the names before it lead to.
CanMake(p) == /\ Way[p].named /\ ~MkExists(Way[p].end)
              /\ \A place \in Way[p].above : MkIsDirectory(place)

MkMkdir(p) ==
  /\ at[p] = "mkdir" /\ CanMake(MkTop(p))
  /\ mkDirs' = mkDirs \cup {Way[MkTop(p)].end}
  /\ Disturb(p) /\ MkReturn(p) /\ UNCHANGED mkFiles

\* The error ends every call.
MkdirFails(p) ==
  /\ at[p] = "mkdir" /\ ~CanMake(MkTop(p))
  /\ mkStack' = [mkStack EXCEPT ![p] = <<>>] /\ at' = [at EXCEPT ![p] = "idle"]
  /\ mkAnswer' = [mkAnswer EXCEPT ![p] = "error"]
  /\ UNCHANGED <<mkDirs, mkFiles, asked, calls, losses, disturbed>>

\* Another program removes an empty directory.
Lose(place) ==
  /\ losses < MaxLosses /\ losses' = losses + 1
  /\ place \in mkDirs /\ ~IsPrefix(place, MkCwd)
  /\ ~\E other \in mkDirs \cup mkFiles : other # place /\ IsPrefix(place, other)
  /\ mkDirs' = mkDirs \ {place}
  /\ disturbed' = disturbed \cup {p \in MkProgram : Busy(p) \/ mkAnswer[p] = "made"}
  /\ UNCHANGED <<mkFiles, mkStack, at, asked, mkAnswer, calls>>

Step(p) == LookParent(p) \/ Look(p) \/ MkMkdir(p) \/ MkdirFails(p)

MkNext ==
  \/ \E p \in MkProgram : MkCall(p) \/ Step(p)
  \/ \E place \in mkDirs : Lose(place)

MkSpec == MkInit /\ [][MkNext]_mkVars

-----------------------------------------------------------------------------
(* Properties. *)

\* Without an error the directory is there, or a file of its name, which exists() takes for
\* it (os.hpp:108, os_posix.cpp:34-40).
MadeIsThere ==
  \A p \in MkProgram \ disturbed : mkAnswer[p] = "made" => MkExists(Way[asked[p]].end)

\* With an error a file is in the way.
ErrorHasFile ==
  \A p \in MkProgram \ disturbed : mkAnswer[p] = "error" => Way[asked[p]].all \cap mkFiles # {}

\* A call that no other program disturbs answers truly.  It is disturbed when another makes
\* or removes a directory meanwhile, as when two runs of gsmake make the log directory at
\* once: then one of them fails (os.hpp:94-112).
AnswerIsTrue == MadeIsThere /\ ErrorHasFile

=============================================================================
