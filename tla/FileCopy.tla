------------------------------ MODULE FileCopy ------------------------------
(***************************************************************************)
(* copy_file of lemon::fs on POSIX (fs/os.hpp, fs/os_posix.cpp): several   *)
(* programs copy files of their own to one target.  Every call of the      *)
(* operating system is a step.  A file that is removed while it is being   *)
(* written lives on without a name.                                        *)
(***************************************************************************)
EXTENDS Naturals, Sequences, FiniteSets

CONSTANTS
  CpProgram,   \* programs that copy
  SourceSize,  \* length of every source file
  BuffSize,    \* length of the buffer
  CpMaxFaults  \* bound: calls that fail for other reasons than the target

ASSUME FileCopyAssumption ==
  /\ {SourceSize, BuffSize} \subseteq Nat \ {0} /\ CpMaxFaults \in Nat /\ CpProgram # {}

Options == {"none", "skip_existing", "overwrite_existing", "update_existing"}

VARIABLES
  target,   \* the file that the target's name stands for
  inodes,   \* the content of every file ever made at the target
  copies,   \* copies[p]: the call of program p
  cpFaults  \* bound: failures so far

cpVars == <<target, inodes, copies, cpFaults>>

CpNoFile == 0

\* The bytes of a source are told apart by the program whose file it is.
Source(p) == [i \in 1..SourceSize |-> <<p, i>>]

-----------------------------------------------------------------------------
\* The target is there from before, or not.
CpInit ==
  /\ inodes \in {<<>>, <<(<<>>)>>} /\ target = Len(inodes)
  /\ copies \in [CpProgram -> [options : Options, at : {"exists"}, out : {CpNoFile},
                             read : {0}, pending : {0}, error : {"none"}]]
  /\ cpFaults = 0

Goto(p, place)   == copies' = [copies EXCEPT ![p].at = place]
CpReturn(p, error) == copies' = [copies EXCEPT ![p].at = "done", ![p].error = error]
Fault            == cpFaults < CpMaxFaults /\ cpFaults' = cpFaults + 1

\* if(exists(to)) and what the options say about it.
CpExists(p) ==
  /\ copies[p].at = "exists"
  /\ IF target = CpNoFile THEN Goto(p, "open")
     ELSE CASE copies[p].options = "skip_existing" -> CpReturn(p, "none")
            [] copies[p].options = "none"          -> CpReturn(p, "file_exists")
            [] OTHER                               -> Goto(p, "remove")
  /\ UNCHANGED <<target, inodes, cpFaults>>

\* remove_file(to): it fails when another program was faster.
Unlink(p) ==
  /\ copies[p].at = "remove"
  /\ target' = CpNoFile
  /\ IF target = CpNoFile THEN CpReturn(p, "no_such_file") ELSE Goto(p, "open")
  /\ UNCHANGED <<inodes, cpFaults>>

\* open and stat of the source.
OpenSource(p) ==
  copies[p].at = "open" /\ Goto(p, "create") /\ UNCHANGED <<target, inodes, cpFaults>>
OpenFails(p) ==
  copies[p].at = "open" /\ CpReturn(p, "io") /\ Fault /\ UNCHANGED <<target, inodes>>

FaultyCreate(p) ==   \* without O_EXCL
  /\ copies[p].at = "create"
  /\ inodes' = IF target = CpNoFile THEN Append(inodes, <<>>)
                                    ELSE [inodes EXCEPT ![target] = <<>>]
  /\ target' = IF target = CpNoFile THEN Len(inodes) + 1 ELSE target
  /\ copies' = [copies EXCEPT ![p].at = "read", ![p].out = target']
  /\ UNCHANGED cpFaults

\* open of the target with O_CREAT and O_EXCL.
Create(p) ==
  /\ copies[p].at = "create"
  /\ IF target # CpNoFile
       THEN CpReturn(p, "file_exists") /\ UNCHANGED <<target, inodes>>
       ELSE /\ inodes' = Append(inodes, <<>>) /\ target' = Len(inodes) + 1
            /\ copies' = [copies EXCEPT ![p].at = "read", ![p].out = target']
  /\ UNCHANGED cpFaults

CreateFails(p) ==
  /\ copies[p].at = "create" /\ CpReturn(p, "io") /\ Fault
  /\ UNCHANGED <<target, inodes>>

\* A whole buffer, or what is left.
Chunk(p) == IF SourceSize - copies[p].read < BuffSize
              THEN SourceSize - copies[p].read ELSE BuffSize

Read(p) ==
  LET n == Chunk(p) IN
    /\ copies[p].at = "read"
    /\ copies' = [copies EXCEPT ![p].read = @ + n, ![p].pending = n,
                                ![p].at = IF n = 0 THEN "close" ELSE "write"]
    /\ UNCHANGED <<target, inodes, cpFaults>>

\* The first byte of the source that is not written.
From(k) == k.read - k.pending + 1

\* ::write takes any part of what it is given.
WriteSome(p) ==
  /\ copies[p].at = "write"
  /\ \E n \in 1..copies[p].pending :
       /\ inodes' = [inodes EXCEPT ![copies[p].out] =
                       @ \o SubSeq(Source(p), From(copies[p]), From(copies[p]) + n - 1)]
       /\ copies' = [copies EXCEPT ![p].pending = @ - n,
                                   ![p].at = IF n = copies[p].pending THEN "read" ELSE "write"]
  /\ UNCHANGED <<target, cpFaults>>

\* The loop ends when ::read or ::write fails; errc is left as it is.
BreakOff(p) ==
  /\ copies[p].at \in {"read", "write"} /\ Goto(p, "close") /\ Fault
  /\ UNCHANGED <<target, inodes>>

CpClose(p) ==
  /\ copies[p].at = "close" /\ CpReturn(p, "none")
  /\ UNCHANGED <<target, inodes, cpFaults>>

Copy(p) ==
  \/ CpExists(p) \/ Unlink(p) \/ OpenSource(p) \/ OpenFails(p) \/ Create(p) \/ CreateFails(p)
  \/ Read(p) \/ WriteSome(p) \/ BreakOff(p) \/ CpClose(p)

CpNext == \E p \in CpProgram : Copy(p)

CpSpec == CpInit /\ [][CpNext]_cpVars

-----------------------------------------------------------------------------
(* Properties. *)

\* A file holds the beginning of one source: two programs never write into one file, and
\* no byte is left out or doubled by a short write (os_posix.cpp:104-132).
FilesAreNotMixed ==
  \A i \in DOMAIN inodes :
    \E p \in CpProgram : inodes[i] = SubSeq(Source(p), 1, Len(inodes[i]))

\* "cause read loop termination and error reported after closes" (os_posix.cpp:126-127):
\* a copy whose loop was broken off answers with an error.
ErrorIsReported ==
  \A p \in CpProgram :
    copies[p].at = "done" /\ copies[p].error = "none" /\ copies[p].out # CpNoFile
      => inodes[copies[p].out] = Source(p)

=============================================================================
