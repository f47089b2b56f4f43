------------------------------ MODULE CopyTree ------------------------------
(***************************************************************************)
(* Copying a directory with all it holds (copy_dir of lemoon/fs.lua), as   *)
(* the install tasks of the plugins do.                                    *)
(*                                                                         *)
(* A path is a sequence of names.  The function calls itself for           *)
(* directories and looks at the target anew each time; what it lists is    *)
(* the directory as it is then, with what the copy itself has put there.   *)
(* Nothing keeps source and target apart: one may be inside of the other.  *)
(* A single file is copied in one step (module FileCopy looks into it), a  *)
(* tree is removed in one (module RemoveTree), directories are made in one *)
(* (module MakeDirs); there are no links and no other programs here.       *)
(*                                                                         *)
(* Calls of the system may fail.  Most of these failures are errors that   *)
(* end the copy; two are not: a read or a write that fails ends the copy   *)
(* of a file as if it were through, and a readdir that fails ends the list *)
(* of a directory as if there were no more entries.  The variable failed   *)
(* remembers where that happened; no action reads it but for its bound.    *)
(* Left out: a removal that fails half-way, and a question (exists, isdir) *)
(* that the system does not answer.                                        *)
(***************************************************************************)
EXTENDS Naturals, Sequences, SequencesExt, FiniteSets

CONSTANTS
  TreeName,     \* names in a directory
  TreeLayouts,  \* what there is, as dirs and files, and the directories to copy from and to
  MaxPath,      \* the longest path that the system takes
  TreeMaxFaults \* bound: failures that nobody is told of

Flags == {"none", "skip_existing", "overwrite_existing", "update_existing"}

ASSUME CopyTreeAssumption ==
  /\ MaxPath \in Nat /\ TreeMaxFaults \in Nat
  /\ \A l \in TreeLayouts :
       /\ l.dirs \cup l.files \cup {l.from, l.to} \subseteq Seq(TreeName) \ {<<>>}
       /\ l.dirs \cap l.files = {}
       /\ \A q \in l.dirs \cup l.files : \A k \in 1..Len(q) - 1 : SubSeq(q, 1, k) \in l.dirs

VARIABLES
  treeLayout,  \* what there was before
  flags,       \* how to copy
  treeDirs,    \* directories
  treeFiles,   \* files, each with what it holds
  treeStack,   \* calls of copy_dir, innermost last
  outcome,
  failed       \* targets at which a read, a write or a readdir failed without an error

treeVars == <<treeLayout, flags, treeDirs, treeFiles, treeStack, outcome, failed>>

\* A file holds what the file at a path held before: all of it, or a beginning.
Holds(path, whole) == [of |-> path, whole |-> whole]

There(path) == path \in treeDirs \/ path \in DOMAIN treeFiles
TreeBelow(path) == {q \in treeDirs \cup DOMAIN treeFiles : IsStrictPrefix(path, q)}
TreeEntries(path) == {Last(q) : q \in {q \in TreeBelow(path) : Len(q) = Len(path) + 1}}

TreeCall(from, to) == [from |-> from, to |-> to, at |-> "target", must |-> {}, done |-> {}]

TreeInit ==
  /\ treeLayout \in TreeLayouts /\ flags \in Flags
  /\ treeDirs = treeLayout.dirs /\ treeFiles = [f \in treeLayout.files |-> Holds(f, TRUE)]
  /\ treeStack = <<>> /\ outcome = "idle" /\ failed = {}

TreeTop   == Last(treeStack)
At(place) == outcome = "none" /\ treeStack # <<>> /\ TreeTop.at = place
Go(place) == treeStack' = Append(Front(treeStack), [TreeTop EXCEPT !.at = place])

Without(set) ==
  /\ treeDirs' = treeDirs \ set
  /\ treeFiles' = [f \in DOMAIN treeFiles \ set |-> treeFiles[f]]

-----------------------------------------------------------------------------
CopyDir ==
  /\ outcome = "idle" /\ outcome' = "none"
  /\ treeStack' = <<TreeCall(treeLayout.from, treeLayout.to)>>
  /\ UNCHANGED <<treeLayout, flags, treeDirs, treeFiles, failed>>

\* The call is through; the caller goes on to its next entry.
TreeReturn ==
  /\ treeStack' = Front(treeStack)
  /\ outcome' = IF Len(treeStack) = 1 THEN "done" ELSE outcome

\* An error goes up through list's pcall to the outermost caller.
Throw(why) == outcome' = why /\ treeStack' = <<>>

\* if module.exists(to): what the flags say about a target that is there.
KeepTarget ==
  /\ At("target") /\ There(TreeTop.to) /\ flags = "skip_existing"
  /\ TreeReturn
  /\ UNCHANGED <<treeLayout, flags, treeDirs, treeFiles, failed>>

RemoveTarget ==
  /\ At("target") /\ There(TreeTop.to) /\ flags = "overwrite_existing"
  /\ Without({TreeTop.to} \cup TreeBelow(TreeTop.to))
  /\ Go("mkdir")
  /\ UNCHANGED <<treeLayout, flags, outcome, failed>>

TargetExists ==
  /\ At("target") /\ There(TreeTop.to) /\ flags = "none"
  /\ Throw("already exists")
  /\ UNCHANGED <<treeLayout, flags, treeDirs, treeFiles, failed>>

UseTarget ==
  /\ At("target")
  /\ There(TreeTop.to) => flags = "update_existing"
  /\ Go("mkdir")
  /\ UNCHANGED <<treeLayout, flags, treeDirs, treeFiles, outcome, failed>>

\* mkdir(to, true) unless it is there: with the directories above it, none of them a file.
TreeMkdir ==
  /\ At("mkdir")
  /\ LET above == {SubSeq(TreeTop.to, 1, k) : k \in 1..Len(TreeTop.to)} IN
       IF There(TreeTop.to) THEN Go("open") /\ UNCHANGED <<treeDirs, outcome>>
       ELSE IF Len(TreeTop.to) > MaxPath THEN Throw("name too long") /\ UNCHANGED treeDirs
       ELSE IF above \cap DOMAIN treeFiles # {} THEN Throw("no directory") /\ UNCHANGED treeDirs
       ELSE treeDirs' = treeDirs \cup above /\ Go("open") /\ UNCHANGED outcome
  /\ UNCHANGED <<treeLayout, flags, treeFiles, failed>>

\* list: what is no directory has no entries, and that is no error.
TreeOpen ==
  /\ At("open")
  /\ treeStack' = Append(Front(treeStack), [TreeTop EXCEPT !.at = "list",
                !.must = IF TreeTop.from \in treeDirs THEN TreeEntries(TreeTop.from) ELSE {}])
  /\ UNCHANGED <<treeLayout, flags, treeDirs, treeFiles, outcome, failed>>

\* readdir gives every entry that was there from the beginning, and may give later ones.
TreeListed ==
  (IF TreeTop.from \in treeDirs THEN TreeEntries(TreeTop.from) ELSE {}) \ TreeTop.done
Handled(e) == [TreeTop EXCEPT !.done = @ \cup {e}]

FaultyEnter(e) ==   \* into the same target
  /\ At("list") /\ e \in TreeListed
  /\ Append(TreeTop.from, e) \in treeDirs
  /\ treeStack' = Append(Append(Front(treeStack), Handled(e)),
                         TreeCall(Append(TreeTop.from, e), TreeTop.to))
  /\ UNCHANGED <<treeLayout, flags, treeDirs, treeFiles, outcome, failed>>
FaultyHandled(e) ==   \* a directory is entered again
  /\ At("list") /\ e \in TreeListed
  /\ Append(TreeTop.from, e) \in treeDirs
  /\ treeStack' = Append(treeStack, TreeCall(Append(TreeTop.from, e), Append(TreeTop.to, e)))
  /\ UNCHANGED <<treeLayout, flags, treeDirs, treeFiles, outcome, failed>>

TreeEnter(e) ==
  /\ At("list") /\ e \in TreeListed
  /\ Append(TreeTop.from, e) \in treeDirs
  /\ treeStack' = Append(Append(Front(treeStack), Handled(e)),
                     TreeCall(Append(TreeTop.from, e), Append(TreeTop.to, e)))
  /\ UNCHANGED <<treeLayout, flags, treeDirs, treeFiles, outcome, failed>>

\* A failure that nobody is told of may come yet.
MayFail == Cardinality(failed) < TreeMaxFaults

\* copy_file: a target that is there is removed first, and it may be the source.  When a read
\* or a write fails, the file stays as far as it is written, and the copy goes on.
CopyFile(e) ==
  /\ At("list") /\ e \in TreeListed
  /\ LET src == Append(TreeTop.from, e)
         obj == Append(TreeTop.to, e)
     IN
       /\ src \in DOMAIN treeFiles
       /\ IF There(obj) /\ flags = "skip_existing"
            THEN /\ treeStack' = Append(Front(treeStack), Handled(e))
                 /\ UNCHANGED <<treeDirs, treeFiles, outcome, failed>>
          ELSE IF There(obj) /\ flags = "none"
            THEN Throw("file exists") /\ UNCHANGED <<treeDirs, treeFiles, failed>>
          ELSE IF TreeBelow(obj) # {}
            THEN Throw("not empty") /\ UNCHANGED <<treeDirs, treeFiles, failed>>
          ELSE IF src = obj THEN Without({obj}) /\ Throw("no source") /\ UNCHANGED failed
          ELSE IF TreeTop.to \notin treeDirs \/ Len(obj) > MaxPath
            THEN Without({obj}) /\ Throw("no directory") /\ UNCHANGED failed
          ELSE /\ treeDirs' = treeDirs \ {obj}
               /\ \E through \in BOOLEAN :
                    /\ ~through => MayFail
                    /\ treeFiles' = [f \in DOMAIN treeFiles \cup {obj} |->
                          IF f = obj
                            THEN Holds(treeFiles[src].of, treeFiles[src].whole /\ through)
                            ELSE treeFiles[f]]
                    /\ failed' = IF through THEN failed ELSE failed \cup {obj}
               /\ treeStack' = Append(Front(treeStack), Handled(e)) /\ UNCHANGED outcome
  /\ UNCHANGED <<treeLayout, flags>>

TreeClose ==
  /\ At("list") /\ TreeTop.must \cap TreeListed = {}
  /\ TreeReturn
  /\ UNCHANGED <<treeLayout, flags, treeDirs, treeFiles, failed>>

\* readdir fails: has_next says that there are no more entries.
ListEndsEarly ==
  /\ At("list") /\ TreeTop.from \in treeDirs /\ MayFail
  /\ TreeReturn
  /\ failed' = failed \cup {TreeTop.to}
  /\ UNCHANGED <<treeLayout, flags, treeDirs, treeFiles>>

\* Failures that are errors: of mkdir, of opendir, and of copy_file before it writes, when
\* the target is gone or still there.
TreeOpenFails ==
  /\ (At("mkdir") /\ ~There(TreeTop.to)) \/ (At("open") /\ TreeTop.from \in treeDirs)
  /\ Throw("system error")
  /\ UNCHANGED <<treeLayout, flags, treeDirs, treeFiles, failed>>

CopyFileFails(e) ==
  /\ At("list") /\ e \in TreeListed /\ Append(TreeTop.from, e) \in DOMAIN treeFiles
  /\ LET obj == Append(TreeTop.to, e) IN
       /\ ~There(obj) \/ flags \in {"overwrite_existing", "update_existing"}
       /\ (TreeBelow(obj) = {} /\ Without({obj})) \/ UNCHANGED <<treeDirs, treeFiles>>
  /\ Throw("system error")
  /\ UNCHANGED <<treeLayout, flags, failed>>

TreeNext ==
  \/ CopyDir \/ KeepTarget \/ RemoveTarget \/ TargetExists \/ UseTarget
  \/ TreeMkdir \/ TreeOpen \/ TreeClose \/ ListEndsEarly \/ TreeOpenFails
  \/ \E e \in TreeName : TreeEnter(e) \/ CopyFile(e) \/ CopyFileFails(e)

TreeSpec == TreeInit /\ [][TreeNext]_treeVars

-----------------------------------------------------------------------------
(* Properties. *)

TreeBefore == treeLayout.dirs \cup treeLayout.files
Under(path) == {q \in TreeBefore : IsPrefix(path, q)}
\* Where a path below the source is copied to.
Image(q)  == treeLayout.to \o SubSeq(q, Len(treeLayout.from) + 1, Len(q))
Separate  ==
  ~IsPrefix(treeLayout.from, treeLayout.to) /\ ~IsPrefix(treeLayout.to, treeLayout.from)

\* What a copy must bring to the target.  A file may break off where a read or a write failed
\* (os_posix.cpp:124-135).  A directory that meets a file is left out without a word if it is
\* empty, or if its list failed before the first entry.
IsCopied(q) ==
  IF q \in treeLayout.files
    THEN /\ Image(q) \in DOMAIN treeFiles
         /\ \/ treeFiles[Image(q)] = Holds(q, TRUE)
            \/ treeFiles[Image(q)] = Holds(q, FALSE) /\ Image(q) \in failed
    ELSE \/ Image(q) \in treeDirs
         \/ Image(q) \in treeLayout.files /\ (Under(q) = {q} \/ Image(q) \in failed)

\* A directory on the way to q was not listed to its end (dir_iterator_posix.hpp:39-50).
Unlisted(q) == \E place \in failed : IsStrictPrefix(place, Image(q))

Arrives(q) == IsCopied(q) \/ Unlisted(q)

\* A copy between directories that are apart, with a target that is not skipped.
Copies == Separate /\ ~(flags = "skip_existing" /\ treeLayout.to \in TreeBefore)

\* When copy_dir returns without an error, all of the source is at the target, with its
\* content, unless the target was there and is skipped, or one is inside of the other
\* (fs.lua:19-53).  It returns so too after failures that copy_file and list do not tell of:
\* then a file breaks off only where its own read or write failed, and only what is in a
\* directory whose readdir failed is missing (os_posix.cpp:124-135, dir_iterator_posix.hpp:39-50).
AllIsCopied ==
  outcome = "done" /\ Copies =>
    \A q \in Under(treeLayout.from) : q # treeLayout.from => Arrives(q)

\* copy_dir returns or throws, also when it copies a directory into itself: then the names
\* get too long at last (fs.lua:41-52).
CopyEnds == outcome = "none" ~> outcome # "none"

=============================================================================
