------------------------------ MODULE MCFiles ------------------------------
(* The operations on the disk for TLC: one of them is under way, the others  *)
(* rest in a state to begin with.  Each works on a file system of its own.   *)
EXTENDS RemoveTree, FileCopy, MakeDirs, CopyTree, FileSink, PathLaws

CONSTANTS s, t, a, b, first, second

\* Every file system of four nodes in which the first is the directory to be removed:
\* parents come before their children, and links lead to directories.
nodes == 1..4
root  == 0

trees ==
  {l \in [parent : {f \in [nodes -> {root} \cup nodes] :
                      \A n \in nodes : f[n] < n /\ f[1] = root},
          link : {f \in [nodes -> {root} \cup nodes] : f[1] = root},
          dirs : {d \in SUBSET nodes : 1 \in d}, top : {1}] :
     \A n \in nodes :
       /\ l.link[n] # root => n \notin l.dirs /\ l.link[n] \in l.dirs
       /\ l.parent[n] # root => l.parent[n] \in l.dirs}

\* Directories to be made: relative, absolute, with dots, with a separator at the end.
cwd == <<"u", "v">>
wanted == {<<"a">>, <<"a", Slash, "b", Slash>>, <<Dot, Slash, "a", Slash, DotDot, Slash, "b">>,
           <<Slash, "u", Slash, "a", Slash, "b">>, <<DotDot, Slash, "v", Slash, "a", Slash, "b">>,
           <<Dot>>, <<Slash>>}
above == {<<"u">>, <<"u", "v">>}
places ==
  {[dirs |-> above, files |-> {}],
   [dirs |-> above \cup {<<"u", "v", "a">>}, files |-> {}],
   [dirs |-> above, files |-> {<<"u", "v", "a">>}]}

\* Every tree of these paths, where what is in something is in a directory.
paths == {<<s>>, <<s, a>>, <<s, b>>, <<s, a, b>>, <<t>>, <<t, a>>, <<t, b>>, <<t, a, b>>}
kinds == {k \in [paths -> {"none", "file", "directory"}] :
            \A p \in paths : k[p] # "none" /\ Len(p) > 1 => k[Front(p)] = "directory"}
copied == {[dirs  |-> {p \in paths : k[p] = "directory"},
            files |-> {p \in paths : k[p] = "file"}, from |-> f, to |-> g] :
             k \in kinds, f \in {<<s>>, <<s, a>>, <<t>>},
             g \in {<<s>>, <<t>>, <<s, a>>, <<t, a>>, <<t, a, b>>}}

-----------------------------------------------------------------------------
VARIABLE operation   \* which one is under way

allVars == <<operation, rmVars, cpVars, mkVars, treeVars, sinkVars, lawsVars>>

\* States to rest in.
RmRests   == rmLayout = [parent |-> [n \in nodes |-> root], link |-> [n \in nodes |-> root],
                         dirs |-> {1}, top |-> 1] /\ RmInit
CpRests   == copies = [p \in CpProgram |-> [options |-> "none", at |-> "exists", out |-> CpNoFile,
                                            read |-> 0, pending |-> 0, error |-> "none"]]
             /\ inodes = <<>> /\ CpInit
MkRests   == mkDirs = above /\ mkFiles = {} /\ MkInit
TreeRests == /\ treeLayout = [dirs |-> {<<s>>}, files |-> {}, from |-> <<s>>, to |-> <<t>>]
             /\ flags = "none" /\ TreeInit
SinkRests == suffix = TRUE /\ SinkInit

Init ==
  /\ LawsInit
  /\ \/ operation = "remove" /\ CpRests /\ MkRests /\ TreeRests /\ SinkRests /\ RmInit
     \/ operation = "copy" /\ RmRests /\ MkRests /\ TreeRests /\ SinkRests /\ CpInit
     \/ operation = "mkdir" /\ RmRests /\ CpRests /\ TreeRests /\ SinkRests /\ MkInit
     \/ operation = "copy_dir" /\ RmRests /\ CpRests /\ MkRests /\ SinkRests /\ TreeInit
     \/ operation = "log" /\ RmRests /\ CpRests /\ MkRests /\ TreeRests /\ SinkInit
     \/ operation = "name" /\ RmRests /\ CpRests /\ MkRests /\ TreeRests /\ SinkRests

Removing == operation = "remove" /\ RmNext
            /\ UNCHANGED <<operation, cpVars, mkVars, treeVars, sinkVars, lawsVars>>
Copying  == operation = "copy" /\ CpNext
            /\ UNCHANGED <<operation, rmVars, mkVars, treeVars, sinkVars, lawsVars>>
Making   == operation = "mkdir" /\ MkNext
            /\ UNCHANGED <<operation, rmVars, cpVars, treeVars, sinkVars, lawsVars>>
CopyingTree == operation = "copy_dir" /\ TreeNext
               /\ UNCHANGED <<operation, rmVars, cpVars, mkVars, sinkVars, lawsVars>>
Logging  == operation = "log" /\ SinkNext
            /\ UNCHANGED <<operation, rmVars, cpVars, mkVars, treeVars, lawsVars>>
Naming   == operation = "name" /\ LawsNext
            /\ UNCHANGED <<operation, rmVars, cpVars, mkVars, treeVars, sinkVars>>

Next == Removing \/ Copying \/ Making \/ CopyingTree \/ Logging \/ Naming

\* The calls of the system that a removal or a copy waits for return.
Spec == Init /\ [][Next]_allVars /\ WF_allVars(Removing) /\ WF_allVars(CopyingTree)

\* Removing and copying a directory end, with links that lead in a circle and with a target
\* inside of the source (os.hpp:171-204, fs.lua:19-53).
OperationsEnd == RemovalEnds /\ CopyEnds

=============================================================================
