----------------------------- MODULE RemoveTree -----------------------------
(***************************************************************************)
(* Removing a directory with all it holds (remove_directories of fs/os.hpp *)
(* and rm of lemoon/fs.cpp), as the git downloader does before it clones.  *)
(*                                                                         *)
(* A node of the file system is a directory, a file or a symbolic link to  *)
(* a directory; a path is the sequence of entries that lead to it and is   *)
(* resolved anew at every call.  is_symlink asks stat, which follows links *)
(* and so never sees one: a link to a directory is entered.  Several       *)
(* programs may remove at once.                                            *)
(***************************************************************************)
EXTENDS Naturals, Sequences, FiniteSets, SequencesExt

CONSTANTS
  Node,        \* files, directories and links below the root
  Root,        \* the directory that holds what is removed; it stays
  RmProgram,   \* programs that remove
  RmLayouts,   \* the file systems to start from
  MaxLinks,    \* links that the system follows in one path (ELOOP)
  RmMaxFaults  \* bound: directories that cannot be read

NoNode == Root

ASSUME RemoveTreeAssumption ==
  /\ Root \notin Node /\ MaxLinks \in Nat /\ RmMaxFaults \in Nat
  /\ \A l \in RmLayouts : l.parent \in [Node -> Node \cup {Root}]
                        /\ l.link \in [Node -> Node \cup {Root}]
                        /\ l.dirs \subseteq Node /\ l.top \in Node

VARIABLES
  rmLayout,  \* the file system as it was: parent, link targets, directories
  there,     \* the nodes that there are
  rmStack,   \* rmStack[p]: the calls of remove_directories, innermost last
  rmAnswer,  \* rmAnswer[p]: running, then the error of the outermost call
  rmFaults   \* bound: failures so far

rmVars == <<rmLayout, there, rmStack, rmAnswer, rmFaults>>

\* A link has a target; the root, as a target, stands for none.
IsLink(n)  == n # Root /\ rmLayout.link[n] # Root
IsDir(n)   == n = Root \/ n \in rmLayout.dirs
RmEntries(n) == {m \in there : rmLayout.parent[m] = n}

\* A path resolves when every entry is in the directory that the entry before it
\* leads to, and not too many of them are links.
Target(e)   == IF IsLink(e) THEN rmLayout.link[e] ELSE e
Leads(path) == IF path = <<>> THEN Root ELSE Target(Last(path))
Resolves(path) ==
  /\ \A k \in 1..Len(path) : path[k] \in RmEntries(Leads(SubSeq(path, 1, k - 1)))
  /\ \A k \in 1..Len(path) - 1 : Target(path[k]) \in there /\ IsDir(Target(path[k]))
  /\ Cardinality({k \in 1..Len(path) : IsLink(path[k])}) <= MaxLinks

\* stat: the node a path leads to, when there is one.
Stat(path) == IF Resolves(path) /\ Leads(path) \in there THEN Leads(path) ELSE NoNode
RmIsDirectory(path) == Stat(path) # NoNode /\ IsDir(Stat(path))

Removable(path) ==
  /\ Resolves(Front(path)) /\ Leads(Front(path)) \in there \cup {Root}
  /\ Last(path) \in RmEntries(Leads(Front(path)))
  /\ IsDir(Last(path)) => RmEntries(Last(path)) = {}

-----------------------------------------------------------------------------
FaultyGone(path) == IF Removable(path) THEN there \ {Leads(path)} ELSE there   \* links are followed
\* What there is after remove(path).
Gone(path) == IF Removable(path) THEN there \ {Last(path)} ELSE there

RmInit ==
  /\ rmLayout \in RmLayouts /\ there = Node
  /\ rmStack = [p \in RmProgram |-> <<>>]
  /\ rmAnswer = [p \in RmProgram |-> "no"]
  /\ rmFaults = 0

RmCall(path) == [path |-> path, at |-> "open", todo |-> {}, error |-> FALSE]
RmTop(p)     == Last(rmStack[p])
SetTop(p, frame) == rmStack' = [rmStack EXCEPT ![p] = Append(Front(@), frame)]

\* rm(path, true): a directory is emptied first, a file is only removed.
Rm(p) ==
  /\ rmAnswer[p] = "no" /\ rmStack[p] = <<>>
  /\ LET path == <<rmLayout.top>> IN
       IF RmIsDirectory(path)
         THEN /\ rmStack' = [rmStack EXCEPT ![p] = <<RmCall(path)>>]
              /\ rmAnswer' = [rmAnswer EXCEPT ![p] = "running"]
              /\ UNCHANGED there
         ELSE /\ there' = Gone(path)
              /\ rmAnswer' = [rmAnswer EXCEPT ![p] = IF Removable(path) THEN "removed" ELSE "error"]
              /\ UNCHANGED rmStack
  /\ UNCHANGED <<rmLayout, rmFaults>>

\* What readdir gives, without "." and "..".
RmListed(n) == RmEntries(n)

\* opendir; when it throws, the error is kept and the directory is removed as it is.
OpenDir(p) ==
  /\ rmStack[p] # <<>> /\ RmTop(p).at = "open"
  /\ \/ /\ RmIsDirectory(RmTop(p).path)
        /\ SetTop(p, [RmTop(p) EXCEPT !.at = "list", !.todo = RmListed(Stat(RmTop(p).path))])
        /\ UNCHANGED rmFaults
     \/ /\ ~RmIsDirectory(RmTop(p).path)
        /\ SetTop(p, [RmTop(p) EXCEPT !.at = "remove", !.error = TRUE])
        /\ UNCHANGED rmFaults
     \/ /\ rmFaults < RmMaxFaults /\ rmFaults' = rmFaults + 1
        /\ SetTop(p, [RmTop(p) EXCEPT !.at = "remove", !.error = TRUE])
  /\ UNCHANGED <<rmLayout, there, rmAnswer>>

\* is_directory(child) && !is_symlink(child), both by stat.
Enters(path) == RmIsDirectory(path)

\* An entry: a directory is entered.
RmEnter(p) ==
  /\ rmStack[p] # <<>> /\ RmTop(p).at = "list"
  /\ \E e \in RmTop(p).todo :
       /\ Enters(Append(RmTop(p).path, e))
       /\ rmStack' = [rmStack EXCEPT ![p] =
                     Append(Append(Front(@), [RmTop(p) EXCEPT !.todo = @ \ {e}]),
                            RmCall(Append(RmTop(p).path, e)))]
  /\ UNCHANGED <<rmLayout, there, rmAnswer, rmFaults>>

\* Back to the caller, which gives up when there was an error.
Back(p, error) ==
  IF Len(rmStack[p]) = 1
    THEN /\ rmStack' = [rmStack EXCEPT ![p] = <<>>]
         /\ rmAnswer' = [rmAnswer EXCEPT ![p] = IF error THEN "error" ELSE "removed"]
    ELSE LET rest == Front(rmStack[p]) IN
         /\ rmStack' = [rmStack EXCEPT ![p] =
                        Append(Front(rest), IF error THEN [Last(rest) EXCEPT !.at = "return"]
                                            ELSE Last(rest))]
         /\ UNCHANGED rmAnswer

\* Anything else is removed; the first failure ends the call.
RemoveEntry(p) ==
  /\ rmStack[p] # <<>> /\ RmTop(p).at = "list"
  /\ \E e \in RmTop(p).todo :
       LET path == Append(RmTop(p).path, e) IN
         /\ ~Enters(path)
         /\ there' = Gone(path)
         /\ SetTop(p, IF Removable(path) THEN [RmTop(p) EXCEPT !.todo = @ \ {e}]
                                         ELSE [RmTop(p) EXCEPT !.at = "return"])
  /\ UNCHANGED <<rmLayout, rmAnswer, rmFaults>>

\* An error below: the call returns with it, its directory stays.
ReturnError(p) ==
  /\ rmStack[p] # <<>> /\ RmTop(p).at = "return"
  /\ Back(p, TRUE)
  /\ UNCHANGED <<rmLayout, there, rmFaults>>

EndList(p) ==
  /\ rmStack[p] # <<>> /\ RmTop(p).at = "list" /\ RmTop(p).todo = {}
  /\ SetTop(p, [RmTop(p) EXCEPT !.at = "remove"])
  /\ UNCHANGED <<rmLayout, there, rmAnswer, rmFaults>>

\* remove_file(path) at the end, also after opendir has failed.
RemoveSelf(p) ==
  /\ rmStack[p] # <<>> /\ RmTop(p).at = "remove"
  /\ LET path == RmTop(p).path IN
       /\ there' = Gone(path)
       /\ Back(p, RmTop(p).error \/ ~Removable(path))
  /\ UNCHANGED <<rmLayout, rmFaults>>

Work(p) ==
  \/ Rm(p) \/ OpenDir(p) \/ RmEnter(p) \/ RemoveEntry(p) \/ ReturnError(p) \/ EndList(p)
  \/ RemoveSelf(p)

RmNext == \E p \in RmProgram : Work(p)

RmSpec == RmInit /\ [][RmNext]_rmVars

-----------------------------------------------------------------------------
(* Properties. *)

\* What is below a directory, in it and behind the links in it; and all that a removal
\* can come to in this way.
RmBelow(n) ==
  {m \in Node : rmLayout.parent[m] = n} \cup (IF IsLink(n) THEN {rmLayout.link[n]} ELSE {})
RmClosed(set) == \A n \in set : RmBelow(n) \subseteq set
RmReached ==
  {n \in Node : \A set \in SUBSET Node : rmLayout.top \in set /\ RmClosed(set) => n \in set}

\* What is removed is the directory itself, or it is below it or below a link in it: the
\* target of a link stays when it is elsewhere (os.hpp:179-204, os_posix.cpp:73-79).
OutsideIsKept ==
  LET reached == RmReached IN
    \A n \in Node \ there : n = rmLayout.top \/ {n, rmLayout.parent[n]} \subseteq reached

\* The removal ends, also when links lead back into the tree (os.hpp:181).
RemovalEnds == \A p \in RmProgram : rmAnswer[p] = "running" ~> rmAnswer[p] # "running"

=============================================================================
