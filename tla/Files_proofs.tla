---------------------------- MODULE Files_proofs ----------------------------
(***************************************************************************)
(* Theorems about what gsmake does with files: copying one, writing the    *)
(* log, removing and copying a tree, for every number of programs, every   *)
(* size, every limit and every file system.                                *)
(***************************************************************************)
EXTENDS FileCopy, FileSink, MakeDirs, RemoveTree, CopyTree, TLAPS, SequenceTheorems

-----------------------------------------------------------------------------
(* Copying a file. *)

Byte == CpProgram \X Nat

CpPlace == {"exists", "remove", "open", "create", "read", "write", "close", "done"}
Error == {"none", "file_exists", "no_such_file", "io"}
Call  == [options : Options, at : CpPlace, out : Nat, read : 0..SourceSize,
          pending : 0..SourceSize, error : Error]

CpTypeOK ==
  /\ inodes \in Seq(Seq(Byte)) /\ target \in 0..Len(inodes)
  /\ copies \in [CpProgram -> Call]

\* A file that a program writes holds what it has read and written, and is no other's.
Writes(p) ==
  /\ copies[p].at \in {"exists", "remove", "open", "create"} =>
       copies[p].out = CpNoFile /\ copies[p].read = 0 /\ copies[p].pending = 0
  /\ copies[p].out \in 0..Len(inodes)
  /\ copies[p].at \in {"read", "write"} =>
       /\ copies[p].out # CpNoFile /\ copies[p].pending <= copies[p].read
       /\ inodes[copies[p].out] = SubSeq(Source(p), 1, copies[p].read - copies[p].pending)
  /\ copies[p].at = "read" => copies[p].pending = 0
Apart ==
  \A p, q \in CpProgram : p # q /\ copies[p].out = copies[q].out => copies[p].out = CpNoFile

CpInv == CpTypeOK /\ Apart /\ FilesAreNotMixed /\ \A p \in CpProgram : Writes(p)

LEMMA SourceIs ==
  ASSUME NEW p \in CpProgram
  PROVE  /\ Source(p) \in Seq(Byte) /\ Len(Source(p)) = SourceSize
         /\ \A n \in 0..SourceSize : /\ SubSeq(Source(p), 1, n) \in Seq(Byte)
                                     /\ Len(SubSeq(Source(p), 1, n)) = n
  <1>1. SourceSize \in Nat
    BY FileCopyAssumption
  <1>2. Source(p) \in Seq(Byte) /\ Len(Source(p)) = SourceSize
    BY <1>1 DEF Source, Byte
  <1>3. ASSUME NEW n \in 0..SourceSize
        PROVE  SubSeq(Source(p), 1, n) \in Seq(Byte) /\ Len(SubSeq(Source(p), 1, n)) = n
    <2>1. \A i \in 1..n : Source(p)[i] \in Byte
      BY <1>1, <1>2, ElementOfSeq
    <2> QED
      BY <1>1, <1>2, <2>1, SubSeqProperties
  <1> QED
    BY <1>2, <1>3

LEMMA CpInitInv == CpInit => CpInv
  <1> SUFFICES ASSUME CpInit PROVE CpInv
    OBVIOUS
  <1> DEFINE e == <<>>
  <1>1. e \in Seq(Byte) /\ Len(e) = 0
    BY EmptySeq
  <1>2. \A p \in CpProgram : e = SubSeq(Source(p), 1, 0)
    BY SubSeqEmpty
  <1>3. /\ inodes = <<>> \/ inodes = <<e>>
        /\ target = Len(inodes)
        /\ copies \in [CpProgram -> [options : Options, at : {"exists"}, out : {CpNoFile},
                                     read : {0}, pending : {0}, error : {"none"}]]
    BY DEF CpInit
  <1> HIDE DEF e
  <1>4. inodes \in Seq(Seq(Byte)) /\ Len(inodes) \in Nat /\ \A i \in 1..Len(inodes) : inodes[i] = e
    <2>1. CASE inodes = <<>>
      BY <2>1, EmptySeq
    <2>2. CASE inodes = <<e>>
      BY <1>1, <2>2
    <2> QED
      BY <1>3, <2>1, <2>2
  <1>5. CpTypeOK
    <2>1. SourceSize \in Nat
      BY FileCopyAssumption
    <2> QED
      BY <1>3, <1>4, <2>1 DEF CpTypeOK, CpNoFile, Call, CpPlace, Error
  <1>6. Apart /\ \A p \in CpProgram : Writes(p)
    BY <1>3, <1>4 DEF Apart, Writes, CpNoFile
  <1>7. FilesAreNotMixed
    <2>1. PICK p : p \in CpProgram
      BY FileCopyAssumption
    <2>2. DOMAIN inodes = 1..Len(inodes)
      BY <1>4
    <2> QED
      BY <1>1, <1>2, <1>4, <2>1, <2>2 DEF FilesAreNotMixed
  <1> QED
    BY <1>5, <1>6, <1>7 DEF CpInv

\* A step of p that writes into no file.
LEMMA CopyGoesOn ==
  ASSUME CpInv, NEW p \in CpProgram, UNCHANGED inodes, CpTypeOK',
         \A q \in CpProgram \ {p} : copies'[q] = copies[q],
         copies'[p].out = copies[p].out, Writes(p)'
  PROVE  CpInv'
  <1>1. ASSUME NEW q \in CpProgram \ {p} PROVE Writes(q)'
    BY DEF CpInv, Writes
  <1>2. Apart'
    BY DEF CpInv, Apart
  <1> QED
    BY <1>1, <1>2 DEF CpInv, FilesAreNotMixed

LEMMA CpNextInv == CpInv /\ [CpNext]_cpVars => CpInv'
  <1> SUFFICES ASSUME CpInv, [CpNext]_cpVars PROVE CpInv'
    OBVIOUS
  <1>1. CpTypeOK /\ Apart /\ FilesAreNotMixed /\ \A p \in CpProgram : Writes(p)
    BY DEF CpInv
  <1>2. inodes \in Seq(Seq(Byte)) /\ Len(inodes) \in Nat /\ DOMAIN inodes = 1..Len(inodes)
    BY <1>1 DEF CpTypeOK
  <1>3. SourceSize \in Nat \ {0} /\ BuffSize \in Nat \ {0}
    BY FileCopyAssumption
  <1>4. CASE UNCHANGED cpVars
    BY <1>1, <1>4 DEF cpVars, CpInv, CpTypeOK, Apart, FilesAreNotMixed, Writes
  <1>5. ASSUME NEW p \in CpProgram,
               \/ CpExists(p) \/ Unlink(p) \/ OpenSource(p) \/ OpenFails(p) \/ CreateFails(p)
               \/ BreakOff(p) \/ CpClose(p) \/ (Create(p) /\ target # CpNoFile)
        PROVE  CpInv'
    <2>1. /\ UNCHANGED inodes /\ target' \in {target, CpNoFile}
          /\ \/ \E place \in {"open", "remove", "create"} :
                  /\ Goto(p, place) /\ copies[p].at \in {"exists", "remove", "open"}
             \/ Goto(p, "close")
             \/ \E error \in {"none", "file_exists", "no_such_file", "io"} : CpReturn(p, error)
      BY <1>5 DEF CpExists, Unlink, OpenSource, OpenFails, CreateFails, BreakOff, CpClose,
                  Create
    <2>2. copies \in [CpProgram -> Call] /\ copies[p] \in Call
      BY <1>1 DEF CpTypeOK
    <2>3. \/ \E place \in CpPlace : copies' = [copies EXCEPT ![p].at = place]
          \/ \E error \in Error : copies' = [copies EXCEPT ![p].at = "done", ![p].error = error]
      BY <2>1 DEF Goto, CpReturn, CpPlace, Error
    <2>4. copies' \in [CpProgram -> Call]
      <3>1. CASE \E place \in CpPlace : copies' = [copies EXCEPT ![p].at = place]
        BY <2>2, <3>1 DEF Call
      <3>2. CASE \E error \in Error :
                   copies' = [copies EXCEPT ![p].at = "done", ![p].error = error]
        <4>1. PICK error \in Error : copies' = [copies EXCEPT ![p].at = "done", ![p].error = error]
          BY <3>2
        <4> DEFINE c == [copies[p] EXCEPT !.at = "done", !.error = error]
        <4>2. c \in Call
          BY <2>2 DEF Call, CpPlace
        <4>3. copies' = [copies EXCEPT ![p] = c]
          BY <2>2, <4>1 DEF Call
        <4> HIDE DEF c
        <4> QED
          BY <2>2, <4>2, <4>3
      <3> QED
        BY <2>3, <3>1, <3>2
    <2>5. CpTypeOK'
      BY <1>1, <1>2, <2>1, <2>4 DEF CpTypeOK, CpNoFile
    <2>6. \A q \in CpProgram \ {p} : copies'[q] = copies[q]
      BY <2>2, <2>3
    <2>7. copies'[p].out = copies[p].out /\ Writes(p)'
      BY <1>1, <2>2, <2>1 DEF Goto, CpReturn, Writes, Call
    <2> QED
      BY <2>1, <2>5, <2>6, <2>7, CopyGoesOn
  <1>6. ASSUME NEW p \in CpProgram, Create(p), target = CpNoFile PROVE CpInv'
    <2> DEFINE e == <<>>  n == Len(inodes) + 1
    <2>1. /\ copies[p].at = "create" /\ inodes' = Append(inodes, e) /\ target' = n
          /\ copies' = [copies EXCEPT ![p].at = "read", ![p].out = n]
      BY <1>6 DEF Create
    <2>2. e \in Seq(Byte) /\ Len(e) = 0
      BY EmptySeq
    <2>3. e = SubSeq(Source(p), 1, 0)
      BY SubSeqEmpty
    <2> HIDE DEF e
    <2>4. /\ inodes' \in Seq(Seq(Byte)) /\ Len(inodes') = n /\ inodes'[n] = e
          /\ \A i \in 1..Len(inodes) : inodes'[i] = inodes[i]
      BY <1>2, <2>1, <2>2, AppendProperties
    <2>5. /\ copies'[p].at = "read" /\ copies'[p].out = n
          /\ copies'[p].read = copies[p].read /\ copies'[p].pending = copies[p].pending
          /\ \A q \in CpProgram \ {p} : copies'[q] = copies[q]
      BY <1>1, <2>1 DEF CpTypeOK
    <2>6. CpTypeOK'
      <3>1. copies' \in [CpProgram -> Call]
        <4> DEFINE c == [copies[p] EXCEPT !.at = "read", !.out = n]
        <4>1. copies \in [CpProgram -> Call] /\ copies[p] \in Call /\ n \in Nat
          BY <1>1, <1>2 DEF CpTypeOK
        <4>2. c \in Call
          BY <4>1 DEF Call, CpPlace
        <4>3. copies' = [copies EXCEPT ![p] = c]
          BY <2>1, <4>1 DEF Call
        <4> HIDE DEF c
        <4> QED
          BY <4>1, <4>2, <4>3
      <3> QED
        BY <1>2, <2>1, <2>4, <3>1 DEF CpTypeOK
    <2>7. copies[p].read = 0 /\ copies[p].pending = 0
      BY <1>1, <2>1 DEF Writes
    <2>8. Writes(p)'
      BY <1>2, <2>3, <2>4, <2>5, <2>7 DEF Writes, CpNoFile
    <2>9. ASSUME NEW q \in CpProgram \ {p} PROVE Writes(q)' /\ copies'[q].out # n
      <3>1. copies'[q] = copies[q] /\ copies[q].out \in 0..Len(inodes) /\ Writes(q)
        BY <1>1, <2>5 DEF Writes
      <3> QED
        BY <1>2, <2>4, <3>1 DEF Writes, CpNoFile
    <2>10. Apart'
      <3> SUFFICES ASSUME NEW q \in CpProgram, NEW r \in CpProgram, q # r,
                          copies'[q].out = copies'[r].out
                   PROVE  copies'[q].out = CpNoFile
        BY DEF Apart
      <3>1. q # p /\ r # p
        BY <2>5, <2>9
      <3> QED
        BY <1>1, <2>5, <3>1 DEF Apart
    <2>11. FilesAreNotMixed'
      <3> SUFFICES ASSUME NEW i \in DOMAIN inodes'
                   PROVE  \E r \in CpProgram : inodes'[i] = SubSeq(Source(r), 1, Len(inodes'[i]))
        BY DEF FilesAreNotMixed, Source
      <3>1. i \in 1..n
        BY <1>2, <2>4
      <3>2. CASE i = n
        BY <2>2, <2>3, <2>4, <3>2
      <3>3. CASE i # n
        <4>1. i \in 1..Len(inodes)
          BY <1>2, <3>1, <3>3
        <4> QED
          BY <1>1, <1>2, <2>4, <4>1 DEF FilesAreNotMixed
      <3> QED
        BY <3>2, <3>3
    <2> QED
      BY <2>6, <2>8, <2>9, <2>10, <2>11 DEF CpInv
  <1>7. ASSUME NEW p \in CpProgram, Read(p) PROVE CpInv'
    <2> DEFINE n == Chunk(p)
    <2>1. /\ copies[p].at = "read" /\ UNCHANGED <<target, inodes>>
          /\ copies' = [copies EXCEPT ![p].read = @ + n, ![p].pending = n,
                                      ![p].at = IF n = 0 THEN "close" ELSE "write"]
      BY <1>7 DEF Read
    <2>2. copies \in [CpProgram -> Call] /\ copies[p] \in Call
      BY <1>1 DEF CpTypeOK
    <2>3. n \in 0..SourceSize /\ copies[p].read + n \in 0..SourceSize
      BY <1>3, <2>2 DEF Chunk, Call
    <2> HIDE DEF n
    <2>4. copies' \in [CpProgram -> Call]
      BY <2>1, <2>2, <2>3 DEF Call, CpPlace
    <2>5. /\ \A q \in CpProgram \ {p} : copies'[q] = copies[q]
          /\ copies'[p].out = copies[p].out /\ copies'[p].read = copies[p].read + n
          /\ copies'[p].pending = n /\ copies'[p].at \in {"close", "write"}
      BY <2>1, <2>2 DEF Call
    <2>6. CpTypeOK'
      BY <1>1, <2>1, <2>4 DEF CpTypeOK
    <2>7. /\ copies[p].pending = 0 /\ copies[p].out # CpNoFile
          /\ copies[p].out \in 0..Len(inodes) /\ copies[p].read \in Nat
          /\ inodes[copies[p].out] = SubSeq(Source(p), 1, copies[p].read - 0)
      BY <1>1, <2>1, <2>2 DEF Writes, Call
    <2>8. copies'[p].read - copies'[p].pending = copies[p].read - 0
      BY <2>3, <2>5, <2>7
    <2>9. Writes(p)'
      <3>1. /\ copies'[p].pending <= copies'[p].read
            /\ copies'[p].at \notin {"exists", "remove", "open", "create", "read"}
        BY <2>3, <2>5, <2>7
      <3>2. inodes'[copies'[p].out] = SubSeq(Source(p), 1, copies'[p].read - copies'[p].pending)
        BY <2>1, <2>5, <2>7, <2>8 DEF Source
      <3> QED
        BY <2>1, <2>5, <2>7, <3>1, <3>2 DEF Writes, CpNoFile
    <2> QED
      BY <2>1, <2>5, <2>6, <2>9, CopyGoesOn
  <1>8. ASSUME NEW p \in CpProgram, WriteSome(p) PROVE CpInv'
    <2> DEFINE src == Source(p)
               k   == copies[p].read - copies[p].pending
    <2>1. PICK o : o = copies[p].out
      OBVIOUS
    <2>2. /\ copies \in [CpProgram -> Call] /\ copies[p] \in Call /\ copies[p].at = "write"
          /\ o \in 1..Len(inodes) /\ o # CpNoFile /\ k \in Nat
          /\ inodes[o] = SubSeq(src, 1, k)
      <3>1. copies \in [CpProgram -> Call] /\ copies[p] \in Call /\ copies[p].at = "write"
        BY <1>1, <1>8 DEF CpTypeOK, WriteSome
      <3>2. Writes(p) /\ copies[p].read \in Nat /\ copies[p].pending \in Nat
        BY <1>1, <1>3, <3>1 DEF Call
      <3>3. /\ o \in 0..Len(inodes) /\ o # CpNoFile /\ inodes[o] = SubSeq(src, 1, k)
            /\ copies[p].pending <= copies[p].read
        BY <2>1, <3>1, <3>2 DEF Writes
      <3> QED
        BY <1>2, <3>1, <3>2, <3>3 DEF CpNoFile
    <2>3. PICK n \in 1..copies[p].pending :
            /\ inodes' = [inodes EXCEPT ![o] =
                            @ \o SubSeq(src, From(copies[p]), From(copies[p]) + n - 1)]
            /\ copies' = [copies EXCEPT ![p].pending = @ - n,
                                        ![p].at = IF n = copies[p].pending THEN "read" ELSE "write"]
            /\ UNCHANGED target
      BY <1>8, <2>1 DEF WriteSome
    <2>4. /\ copies[p].read \in 0..SourceSize /\ copies[p].pending \in 0..SourceSize
          /\ n \in Nat \ {0} /\ n <= copies[p].pending
      BY <1>3, <2>2, <2>3 DEF Call
    <2>5. /\ k \in 0..SourceSize /\ k + n \in 0..SourceSize /\ k <= k + n
          /\ From(copies[p]) = k + 1 /\ From(copies[p]) + n - 1 = k + n
      BY SMTT(30), <1>3, <2>2, <2>4 DEF From
    <2>6. SubSeq(src, 1, k) \o SubSeq(src, k + 1, k + n) = SubSeq(src, 1, k + n)
      <3>1. src \in Seq(Byte) /\ Len(src) = SourceSize
        BY SourceIs
      <3> HIDE DEF src, k
      <3> QED
        BY <1>3, <2>4, <2>5, <3>1, ConcatAdjacentSubSeq
    <2>7. SubSeq(src, 1, k + n) \in Seq(Byte) /\ Len(SubSeq(src, 1, k + n)) = k + n
      BY <2>5, SourceIs
    <2> DEFINE s == SubSeq(src, 1, k + n)
    <2>8. inodes' = [inodes EXCEPT ![o] = s]
      BY <2>2, <2>3, <2>5, <2>6
    <2> HIDE DEF s
    <2>9. /\ inodes' \in Seq(Seq(Byte)) /\ Len(inodes') = Len(inodes) /\ inodes'[o] = s
          /\ DOMAIN inodes' = 1..Len(inodes)
          /\ \A i \in 1..Len(inodes) : i # o => inodes'[i] = inodes[i]
      <3>1. s \in Seq(Byte)
        BY <2>7 DEF s
      <3> QED
        BY <1>2, <2>2, <2>8, <3>1
    <2> DEFINE c == [copies[p] EXCEPT !.pending = @ - n,
                                      !.at = IF n = copies[p].pending THEN "read" ELSE "write"]
    <2>10. c \in Call /\ copies' = [copies EXCEPT ![p] = c]
      <3>1. copies[p].pending - n \in 0..SourceSize
        BY <1>3, <2>4
      <3>2. c \in Call
        BY <2>2, <3>1 DEF Call, CpPlace
      <3>3. copies' = [copies EXCEPT ![p] = c]
        BY <2>2, <2>3 DEF Call
      <3> QED
        BY <3>2, <3>3
    <2>11. /\ c.out = o /\ c.read = copies[p].read /\ c.pending = copies[p].pending - n
           /\ c.at = IF n = copies[p].pending THEN "read" ELSE "write"
      BY <2>1, <2>2 DEF Call
    <2> HIDE DEF c
    <2>12. /\ copies' \in [CpProgram -> Call] /\ copies'[p] = c
           /\ \A q \in CpProgram \ {p} : copies'[q] = copies[q]
      BY <2>2, <2>10
    <2>13. CpTypeOK'
      BY <1>1, <2>3, <2>9, <2>12 DEF CpTypeOK
    <2>14. Apart'
      BY <1>1, <2>1, <2>11, <2>12 DEF Apart
    <2>15. FilesAreNotMixed'
      <3> SUFFICES ASSUME NEW i \in 1..Len(inodes)
                   PROVE  \E q \in CpProgram : inodes'[i] = SubSeq(Source(q), 1, Len(inodes'[i]))
        BY <2>9 DEF FilesAreNotMixed, Source
      <3>1. CASE i = o
        BY <2>7, <2>9, <3>1 DEF s
      <3>2. CASE i # o
        BY <1>1, <1>2, <2>9, <3>2 DEF FilesAreNotMixed
      <3> QED
        BY <3>1, <3>2
    <2>16. Writes(p)'
      <3>1. /\ c.pending <= c.read /\ c.read - c.pending = k + n
            /\ c.at = "read" => c.pending = 0
            /\ c.at \in {"read", "write"}
        <4>1. /\ c.pending \in Nat /\ c.read \in Nat
              /\ c.pending = copies[p].pending - n /\ c.read = copies[p].read
          BY <1>3, <2>4, <2>11
        <4>2. copies[p].pending <= copies[p].read
          BY <1>1, <2>2 DEF Writes
        <4>3. c.pending <= c.read /\ c.read - c.pending = k + n
          BY <1>3, <2>4, <4>1, <4>2
        <4>4. c.at \in {"read", "write"} /\ (c.at = "read" => c.pending = 0)
          BY <1>3, <2>4, <2>11
        <4> QED
          BY <4>3, <4>4
      <3>2. inodes'[c.out] = SubSeq(src, 1, c.read - c.pending)
        BY <2>9, <2>11, <3>1 DEF s
      <3>3. copies'[p] = c /\ c.out = o /\ o \in 0..Len(inodes') /\ o # CpNoFile
        BY <1>2, <2>2, <2>9, <2>11, <2>12
      <3>4. c.at \notin {"exists", "remove", "open", "create"}
        BY <3>1
      <3> QED
        BY <3>1, <3>2, <3>3, <3>4 DEF Writes, Source
    <2>17. ASSUME NEW q \in CpProgram \ {p} PROVE Writes(q)'
      <3>1. copies'[q] = copies[q] /\ Writes(q) /\ (copies[q].out # CpNoFile => copies[q].out # o)
        BY <1>1, <2>1, <2>2, <2>12 DEF Apart
      <3>2. copies[q].out # CpNoFile /\ copies[q].out \in 0..Len(inodes) =>
              inodes'[copies[q].out] = inodes[copies[q].out]
        BY <1>2, <2>9, <3>1 DEF CpNoFile
      <3> QED
        BY <1>2, <2>9, <3>1, <3>2 DEF Writes, Source
    <2> QED
      BY <2>13, <2>14, <2>15, <2>16, <2>17 DEF CpInv
  <1> QED
    <2>1. ASSUME NEW p \in CpProgram, Copy(p) PROVE CpInv'
      BY <1>5, <1>6, <1>7, <1>8, <2>1 DEF Copy
    <2> QED
      BY <1>4, <2>1 DEF CpNext

\* A file that is copied to holds the beginning of one source, however many programs
\* copy to its name at once and whatever part of a buffer ::write takes
\* (os_posix.cpp:104-132).
THEOREM FilesStayApart == CpSpec => []FilesAreNotMixed
  <1>1. CpInv => FilesAreNotMixed
    BY DEF CpInv
  <1> QED
    BY CpInitInv, CpNextInv, <1>1, PTL DEF CpSpec

-----------------------------------------------------------------------------
(* The log files. *)

File == Nat \X Nat
Line == Nat \X Nat
Sink == [run : Nat, filename : Nat \X {0}, blocks : Nat, stream : File, lines : Nat,
         at : {"off", "open", "write"}]

SinkTypeOK ==
  /\ suffix \in BOOLEAN /\ today \in Nat \ {0} /\ runs \in Nat
  /\ DOMAIN sinkFiles \subseteq File
  /\ \A f \in DOMAIN sinkFiles : sinkFiles[f] \in Seq(Line)
  /\ sinks \in [SinkProgram -> Sink]

\* What a sink keeps in memory goes together, and its date has come.
SinkHolds(p) ==
  /\ sinks[p].run <= runs
  /\ sinks[p].filename[1] <= SinkName[1]
  /\ sinks[p].stream = Block(sinks[p], sinks[p].blocks)
  /\ sinks[p].at = "write" => sinks[p].stream \in DOMAIN sinkFiles
  /\ sinks[p].at # "off" => sinks[p].run # 0

RunsOfTheirOwn ==
  \A p, q \in SinkProgram : p # q /\ sinks[p].run = sinks[q].run => sinks[p].run = 0

\* No line of a run comes after the place its program writes to.
LineIs(p, f, line) ==
  sinks[p].run = line[1] => line[2] <= sinks[p].lines /\ ~SinkBefore(sinks[p].stream, f)
LinesAre ==
  \A f \in DOMAIN sinkFiles : \A i \in DOMAIN sinkFiles[f] :
    /\ sinkFiles[f][i][1] \in 1..runs
    /\ \A p \in SinkProgram : LineIs(p, f, sinkFiles[f][i])

SinkInv ==
  /\ SinkTypeOK /\ RunsOfTheirOwn /\ LinesAre /\ RunsAreInOrder
  /\ \A p \in SinkProgram : SinkHolds(p)

LEMMA NotBefore ==
  ASSUME NEW f \in File, NEW g \in File, NEW h \in File, ~SinkBefore(f, g), ~SinkBefore(g, h)
  PROVE  ~SinkBefore(f, h)
  BY DEF SinkBefore, File

LEMMA SinkInitInv == SinkInit => SinkInv
  <1> SUFFICES ASSUME SinkInit PROVE SinkInv
    OBVIOUS
  <1>1. Closed \in Sink
    BY DEF Closed, Sink, File, SinkNoFile
  <1>2. SinkTypeOK
    <2>1. DOMAIN sinkFiles = {}
      BY DEF SinkInit
    <2> QED
      BY <1>1, <2>1 DEF SinkInit, SinkTypeOK
  <1>3. LinesAre /\ RunsAreInOrder
    BY DEF SinkInit, LinesAre, RunsAreInOrder
  <1>4. RunsOfTheirOwn
    BY DEF SinkInit, RunsOfTheirOwn, Closed
  <1>5. ASSUME NEW p \in SinkProgram PROVE SinkHolds(p)
    BY DEF SinkInit, SinkHolds, Closed, SinkNoFile, SinkName, Block
  <1> QED
    BY <1>2, <1>3, <1>4, <1>5 DEF SinkInv

\* A step that writes no line: it makes files without lines, and a program begins a run,
\* leaves its run, or goes on to a later file.
LEMMA NoLineIsWritten ==
  ASSUME SinkInv, runs' \in Nat, runs <= runs', SinkTypeOK',
         \A f \in DOMAIN sinkFiles : f \in DOMAIN sinkFiles' /\ sinkFiles'[f] = sinkFiles[f],
         \A f \in DOMAIN sinkFiles' : f \notin DOMAIN sinkFiles => sinkFiles'[f] = <<>>,
         \A p \in SinkProgram :
           \/ sinks'[p].run \notin 1..runs
           \/ /\ sinks'[p].run = sinks[p].run /\ sinks'[p].lines = sinks[p].lines
              /\ ~SinkBefore(sinks'[p].stream, sinks[p].stream)
  PROVE  LinesAre' /\ RunsAreInOrder'
  <1>1. SinkTypeOK /\ LinesAre /\ RunsAreInOrder
    BY DEF SinkInv
  <1>2. ASSUME NEW f \in DOMAIN sinkFiles', NEW i \in DOMAIN sinkFiles'[f]
        PROVE  f \in DOMAIN sinkFiles /\ i \in DOMAIN sinkFiles[f] /\ sinkFiles'[f] = sinkFiles[f]
    <2>1. CASE f \in DOMAIN sinkFiles
      BY <2>1
    <2>2. CASE f \notin DOMAIN sinkFiles
      <3>1. sinkFiles'[f] = <<>> /\ i \in DOMAIN <<>>
        BY <2>2
      <3> QED
        BY <3>1
    <2> QED
      BY <2>1, <2>2
  <1>3. RunsAreInOrder'
    BY <1>1, <1>2 DEF RunsAreInOrder, SinkBefore
  <1>4. LinesAre'
    <2> SUFFICES ASSUME NEW f \in DOMAIN sinkFiles', NEW i \in DOMAIN sinkFiles'[f]
                 PROVE  /\ sinkFiles'[f][i][1] \in 1..runs'
                        /\ \A p \in SinkProgram : LineIs(p, f, sinkFiles[f][i])'
      BY DEF LinesAre
    <2> DEFINE line == sinkFiles[f][i]
    <2>1. f \in DOMAIN sinkFiles /\ i \in DOMAIN sinkFiles[f] /\ sinkFiles'[f][i] = line
      BY <1>2
    <2>2. line[1] \in 1..runs /\ runs \in Nat /\ \A p \in SinkProgram : LineIs(p, f, line)
      BY <1>1, <2>1 DEF LinesAre, SinkTypeOK
    <2>3. ASSUME NEW p \in SinkProgram, sinks'[p].run = line[1]
          PROVE  line[2] <= sinks'[p].lines /\ ~SinkBefore(sinks'[p].stream, f)
      <3>1. /\ sinks'[p].run = sinks[p].run /\ sinks'[p].lines = sinks[p].lines
            /\ ~SinkBefore(sinks'[p].stream, sinks[p].stream)
        BY <2>2, <2>3
      <3>2. line[2] <= sinks[p].lines /\ ~SinkBefore(sinks[p].stream, f)
        BY <2>2, <2>3, <3>1 DEF LineIs
      <3>3. sinks'[p].stream \in File /\ sinks[p].stream \in File /\ f \in File
        BY <1>1, <2>1 DEF SinkTypeOK, Sink
      <3> QED
        BY <3>1, <3>2, <3>3, NotBefore
    <2>4. ASSUME NEW p \in SinkProgram PROVE LineIs(p, f, sinkFiles[f][i])'
      BY <2>1, <2>3 DEF LineIs, SinkBefore
    <2> QED
      BY <2>1, <2>2, <2>4
  <1> QED
    BY <1>3, <1>4

LEMMA MidnightInv == SinkInv /\ Midnight => SinkInv'
  <1> SUFFICES ASSUME SinkInv, Midnight PROVE SinkInv'
    OBVIOUS
  <1>1. SinkTypeOK /\ RunsOfTheirOwn /\ \A p \in SinkProgram : SinkHolds(p)
    BY DEF SinkInv
  <1>2. today' = today + 1 /\ UNCHANGED <<suffix, sinkFiles, sinks, runs>>
    BY DEF Midnight
  <1>3. SinkTypeOK'
    BY <1>1, <1>2 DEF SinkTypeOK
  <1>4. LinesAre' /\ RunsAreInOrder'
    BY <1>2, <1>3 DEF SinkInv, LinesAre, LineIs, RunsAreInOrder, SinkBefore
  <1>5. SinkName[1] \in Nat /\ SinkName'[1] \in Nat /\ SinkName[1] <= SinkName'[1]
    BY <1>1, <1>2 DEF SinkTypeOK, SinkName
  <1>6. ASSUME NEW p \in SinkProgram PROVE SinkHolds(p)'
    <2>1. SinkHolds(p) /\ sinks[p].filename[1] \in Nat
      BY <1>1 DEF SinkTypeOK, Sink
    <2> QED
      BY <1>2, <1>5, <2>1 DEF SinkHolds, Block
  <1> QED
    BY <1>1, <1>2, <1>3, <1>4, <1>6 DEF SinkInv, RunsOfTheirOwn

\* The constructor or the destructor.
LEMMA SinkSetInv ==
  ASSUME SinkInv, NEW p \in SinkProgram, SinkOpen(p) \/ Quit(p)
  PROVE  SinkInv'
  <1>1. SinkTypeOK /\ RunsOfTheirOwn /\ \A q \in SinkProgram : SinkHolds(q)
    BY DEF SinkInv
  <1>2. PICK k : /\ sinks' = [sinks EXCEPT ![p] = k] /\ UNCHANGED <<suffix, today, sinkFiles>>
                 /\ \/ k = [Closed EXCEPT !.run = runs + 1, !.at = "open"] /\ runs' = runs + 1
                    \/ k = Closed /\ runs' = runs
    BY DEF SinkOpen, Quit
  <1>3. /\ k.filename = SinkNoFile /\ k.blocks = 0 /\ k.stream = SinkNoFile /\ k \in Sink
        /\ k.at # "write" /\ (k.at # "off" => k.run # 0)
        /\ (k.run = 0 /\ runs' = runs) \/ (k.run = runs + 1 /\ runs' = runs + 1)
    <2>1. Closed \in Sink /\ runs \in Nat
      BY <1>1 DEF SinkTypeOK, Closed, SinkNoFile, Sink, File
    <2>2. CASE k = Closed /\ runs' = runs
      BY <2>1, <2>2 DEF Closed
    <2>3. CASE k = [Closed EXCEPT !.run = runs + 1, !.at = "open"] /\ runs' = runs + 1
      <3>1. k \in Sink
        <4>1. k = [Closed EXCEPT !.run = runs + 1, !.at = "open"] /\ runs + 1 \in Nat
          BY <2>1, <2>3
        <4>2. k = [run |-> runs + 1, filename |-> SinkNoFile, blocks |-> 0,
                   stream |-> SinkNoFile, lines |-> 0, at |-> "open"]
          BY <4>1 DEF Closed
        <4>3. SinkNoFile \in Nat \X {0} /\ SinkNoFile \in File
          BY DEF SinkNoFile, File
        <4> QED
          BY <4>1, <4>2, <4>3 DEF Sink
      <3> QED
        BY <2>1, <2>3, <3>1 DEF Closed
    <2> QED
      BY <1>2, <2>2, <2>3
  <1>4. /\ sinks'[p] = k /\ \A q \in SinkProgram \ {p} : sinks'[q] = sinks[q]
        /\ sinks \in [SinkProgram -> Sink] /\ sinks' \in [SinkProgram -> Sink] /\ runs \in Nat
    BY <1>1, <1>2, <1>3 DEF SinkTypeOK
  <1>5. SinkTypeOK'
    BY <1>1, <1>2, <1>3, <1>4 DEF SinkTypeOK
  <1>6. LinesAre' /\ RunsAreInOrder'
    <2>1. sinks'[p].run \notin 1..runs
      BY <1>3, <1>4
    <2>2. ASSUME NEW q \in SinkProgram \ {p}
          PROVE  /\ sinks'[q].run = sinks[q].run /\ sinks'[q].lines = sinks[q].lines
                 /\ ~SinkBefore(sinks'[q].stream, sinks[q].stream)
      <3>1. sinks[q].stream \in File
        BY <1>4 DEF Sink
      <3> QED
        BY <1>4, <3>1 DEF SinkBefore, File
    <2>3. runs' \in Nat /\ runs <= runs'
      BY <1>2, <1>4
    <2> QED
      BY <1>2, <1>5, <2>1, <2>2, <2>3, NoLineIsWritten
  <1>7. RunsOfTheirOwn'
    <2>1. \A q \in SinkProgram : sinks[q].run \in Nat /\ sinks[q].run <= runs
      BY <1>1, <1>4 DEF SinkHolds, Sink
    <2> QED
      BY <1>1, <1>3, <1>4, <2>1 DEF RunsOfTheirOwn
  <1>8. SinkHolds(p)'
    <2>1. SinkName'[1] \in Nat
      BY <1>5 DEF SinkTypeOK, SinkName
    <2> QED
      BY <1>3, <1>4, <2>1 DEF SinkHolds, SinkNoFile, Block
  <1>9. ASSUME NEW q \in SinkProgram \ {p} PROVE SinkHolds(q)'
    <2>1. SinkHolds(q) /\ sinks[q].run \in Nat
      BY <1>1, <1>4 DEF Sink
    <2> QED
      BY <1>2, <1>3, <1>4, <2>1 DEF SinkHolds, SinkName, Block
  <1> QED
    BY <1>5, <1>6, <1>7, <1>8, <1>9 DEF SinkInv

\* openfile goes on to the file of the date, or to the next block of it, or stays.
LEMMA OpenFileInv ==
  ASSUME SinkInv, NEW p \in SinkProgram, OpenFile(p)
  PROVE  SinkInv'
  <1>1. SinkTypeOK /\ RunsOfTheirOwn /\ \A q \in SinkProgram : SinkHolds(q)
    BY DEF SinkInv
  <1>2. /\ sinks \in [SinkProgram -> Sink] /\ sinks[p] \in Sink /\ SinkName \in Nat \X {0}
        /\ SinkHolds(p)
    BY <1>1 DEF SinkTypeOK, SinkName
  <1>3. PICK k, d, n :
          /\ k = Reopened(sinks[p]) /\ d = Touch(sinkFiles, k.stream) /\ n = Advanced(k, d)
          /\ sinks' = [sinks EXCEPT ![p] = [n EXCEPT !.at = "write"]]
          /\ sinkFiles' = Touch(d, n.stream) /\ UNCHANGED <<suffix, today, runs>>
          /\ sinks[p].at = "open"
    BY DEF OpenFile
  <1>4. /\ k \in Sink /\ k.run = sinks[p].run /\ k.lines = sinks[p].lines
        /\ k.filename = SinkName /\ k.stream = Block(k, k.blocks)
        /\ ~SinkBefore(k.stream, sinks[p].stream)
    <2>1. CASE sinks[p].filename = SinkName
      <3>1. k = sinks[p]
        BY <1>3, <2>1 DEF Reopened
      <3>2. sinks[p].stream \in File
        BY <1>2 DEF Sink
      <3>3. ~SinkBefore(sinks[p].stream, sinks[p].stream)
        BY <3>2 DEF SinkBefore, File
      <3> QED
        BY <1>2, <2>1, <3>1, <3>3 DEF SinkHolds
    <2>2. CASE sinks[p].filename # SinkName
      <3>1. k = [sinks[p] EXCEPT !.filename = SinkName, !.blocks = 0, !.stream = SinkName]
        BY <1>3, <2>2 DEF Reopened
      <3>2. k \in Sink
        <4>1. SinkName \in File
          BY <1>2 DEF File
        <4> QED
          BY <1>2, <3>1, <4>1 DEF Sink
      <3>3. /\ k.run = sinks[p].run /\ k.lines = sinks[p].lines /\ k.filename = SinkName
            /\ k.blocks = 0 /\ k.stream = SinkName
        BY <1>2, <3>1 DEF Sink
      <3>4. SinkName = <<SinkName[1], 0>>
        BY <1>2
      <3>5. sinks[p].stream[1] = sinks[p].filename[1] /\ sinks[p].filename[1] < SinkName[1]
        BY SMTT(30), <1>2, <2>2 DEF SinkHolds, Block, Sink
      <3> QED
        BY <1>2, <3>2, <3>3, <3>4, <3>5 DEF Block, SinkBefore, Sink
    <2> QED
      BY <2>1, <2>2
  <1>5. /\ n \in Sink /\ n.run = k.run /\ n.lines = k.lines /\ n.filename = SinkName
        /\ n.stream = Block(n, n.blocks) /\ ~SinkBefore(n.stream, k.stream)
    <2>1. CASE n = k
      <3>1. k.stream \in File
        BY <1>4 DEF Sink
      <3> QED
        BY <1>4, <2>1, <3>1 DEF SinkBefore, File
    <2>2. CASE n = [k EXCEPT !.blocks = @ + 1, !.stream = Block(k, k.blocks + 1)]
      <3>1. Block(k, k.blocks + 1) \in File /\ k.blocks + 1 \in Nat
        BY <1>4 DEF Block, Sink, File
      <3>2. n \in Sink
        BY <1>4, <2>2, <3>1 DEF Sink
      <3>3. /\ n.run = k.run /\ n.lines = k.lines /\ n.filename = SinkName
            /\ n.blocks = k.blocks + 1 /\ n.stream = Block(k, k.blocks + 1)
        BY <1>4, <2>2 DEF Sink
      <3>4. k.blocks \in Nat /\ k.filename[1] \in Nat
        BY <1>4 DEF Sink
      <3> QED
        BY <1>4, <3>2, <3>3, <3>4 DEF Block, SinkBefore
    <2> QED
      BY <1>3, <2>1, <2>2 DEF Advanced
  <1> DEFINE m == [n EXCEPT !.at = "write"]
  <1>6. /\ m \in Sink /\ m.run = sinks[p].run /\ m.lines = sinks[p].lines /\ m.at = "write"
        /\ m.filename = SinkName /\ m.stream = n.stream /\ m.stream = Block(m, m.blocks)
    BY <1>4, <1>5 DEF Sink, Block
  <1> HIDE DEF m
  <1>7. /\ sinks' \in [SinkProgram -> Sink] /\ sinks'[p] = m
        /\ \A q \in SinkProgram \ {p} : sinks'[q] = sinks[q]
    BY <1>2, <1>3, <1>6 DEF m
  <1>8. /\ DOMAIN sinkFiles' = DOMAIN sinkFiles \cup {k.stream, n.stream}
        /\ \A f \in DOMAIN sinkFiles : sinkFiles'[f] = sinkFiles[f]
        /\ \A f \in DOMAIN sinkFiles' : f \notin DOMAIN sinkFiles => sinkFiles'[f] = <<>>
    BY <1>3 DEF Touch
  <1>9. SinkTypeOK'
    <2>1. k.stream \in File /\ n.stream \in File
      BY <1>4, <1>5 DEF Sink
    <2>2. \A f \in DOMAIN sinkFiles' : sinkFiles'[f] \in Seq(Line)
      <3>1. <<>> \in Seq(Line)
        BY EmptySeq
      <3> QED
        BY <1>1, <1>8, <3>1 DEF SinkTypeOK
    <2> QED
      BY <1>1, <1>3, <1>7, <1>8, <2>1, <2>2 DEF SinkTypeOK
  <1>10. LinesAre' /\ RunsAreInOrder'
    <2>1. ASSUME NEW q \in SinkProgram
          PROVE  /\ sinks'[q].run = sinks[q].run /\ sinks'[q].lines = sinks[q].lines
                 /\ ~SinkBefore(sinks'[q].stream, sinks[q].stream)
      <3>1. sinks[q].stream \in File /\ k.stream \in File /\ n.stream \in File
        BY <1>2, <1>4, <1>5 DEF Sink
      <3>2. CASE q = p
        BY <1>4, <1>5, <1>6, <1>7, <3>1, <3>2, NotBefore
      <3>3. CASE q # p
        BY <1>7, <3>1, <3>3 DEF SinkBefore, File
      <3> QED
        BY <3>2, <3>3
    <2>2. runs' \in Nat /\ runs <= runs'
      BY <1>1, <1>3 DEF SinkTypeOK
    <2> QED
      BY <1>8, <1>9, <2>1, <2>2, NoLineIsWritten
  <1>11. RunsOfTheirOwn'
    BY <1>1, <1>6, <1>7 DEF RunsOfTheirOwn
  <1>12. SinkName' = SinkName /\ runs' = runs
    BY <1>3 DEF SinkName
  <1>13. SinkHolds(p)'
    <2>1. sinks[p].run <= runs /\ sinks[p].run # 0 /\ SinkName[1] <= SinkName[1]
      BY <1>2, <1>3 DEF SinkHolds
    <2> QED
      BY <1>6, <1>7, <1>8, <1>12, <2>1 DEF SinkHolds, Block
  <1>14. ASSUME NEW q \in SinkProgram \ {p} PROVE SinkHolds(q)'
    BY <1>1, <1>7, <1>8, <1>12 DEF SinkHolds, Block
  <1> QED
    BY <1>9, <1>10, <1>11, <1>13, <1>14 DEF SinkInv

\* The line goes behind all the lines of its run.
LEMMA WriteInv ==
  ASSUME SinkInv, NEW p \in SinkProgram, Write(p)
  PROVE  SinkInv'
  <1>1. SinkTypeOK /\ RunsOfTheirOwn /\ LinesAre /\ RunsAreInOrder
    BY DEF SinkInv
  <1>2. /\ sinks \in [SinkProgram -> Sink] /\ sinks[p] \in Sink /\ runs \in Nat
        /\ \A q \in SinkProgram : SinkHolds(q)
    BY <1>1 DEF SinkInv, SinkTypeOK
  <1>3. PICK f, e, s :
          /\ f = sinks[p].stream /\ e = <<sinks[p].run, sinks[p].lines + 1>> /\ s = sinkFiles[f]
          /\ sinkFiles' = [sinkFiles EXCEPT ![f] = Append(s, e)]
          /\ sinks' = [sinks EXCEPT ![p].lines = @ + 1, ![p].at = "open"]
          /\ UNCHANGED <<suffix, today, runs>> /\ sinks[p].at = "write"
    BY DEF Write
  <1>4. /\ f \in DOMAIN sinkFiles /\ f \in File /\ s \in Seq(Line) /\ e \in Line
        /\ e[1] = sinks[p].run /\ e[2] = sinks[p].lines + 1 /\ e[1] \in 1..runs
    <2>1. /\ f \in DOMAIN sinkFiles /\ sinks[p].run <= runs /\ sinks[p].run # 0
      BY <1>2, <1>3 DEF SinkHolds
    <2>2. sinks[p].run \in Nat /\ sinks[p].lines + 1 \in Nat
      BY <1>2 DEF Sink
    <2>3. f \in File /\ s \in Seq(Line)
      BY <1>1, <1>3, <2>1 DEF SinkTypeOK
    <2> QED
      BY <1>2, <1>3, <2>1, <2>2, <2>3 DEF Line
  <1> DEFINE n == Len(s) + 1
  <1>5. /\ Len(s) \in Nat /\ DOMAIN s = 1..Len(s)
        /\ Append(s, e) \in Seq(Line) /\ DOMAIN Append(s, e) = 1..n /\ Append(s, e)[n] = e
        /\ \A i \in 1..Len(s) : Append(s, e)[i] = s[i]
    BY <1>4, AppendProperties
  <1>6. /\ DOMAIN sinkFiles' = DOMAIN sinkFiles /\ sinkFiles'[f] = Append(s, e)
        /\ \A g \in DOMAIN sinkFiles : g # f => sinkFiles'[g] = sinkFiles[g]
    BY <1>3, <1>4
  <1>7. /\ sinks' \in [SinkProgram -> Sink]
        /\ \A q \in SinkProgram \ {p} : sinks'[q] = sinks[q]
        /\ sinks'[p].run = sinks[p].run /\ sinks'[p].stream = f
        /\ sinks'[p].lines = sinks[p].lines + 1 /\ sinks'[p].blocks = sinks[p].blocks
        /\ sinks'[p].filename = sinks[p].filename /\ sinks'[p].at = "open"
    <2> DEFINE c == [sinks[p] EXCEPT !.lines = @ + 1, !.at = "open"]
    <2>1. sinks' = [sinks EXCEPT ![p] = c]
      BY <1>2, <1>3 DEF Sink
    <2>2. /\ c.run = sinks[p].run /\ c.stream = f /\ c.lines = sinks[p].lines + 1
          /\ c.blocks = sinks[p].blocks /\ c.filename = sinks[p].filename /\ c.at = "open"
      BY <1>2, <1>3 DEF Sink
    <2>3. c \in Sink
      <3>1. sinks[p].lines + 1 \in Nat
        BY <1>2 DEF Sink
      <3> QED
        BY <1>2, <3>1 DEF Sink
    <2> HIDE DEF c
    <2> QED
      BY <1>2, <2>1, <2>2, <2>3
  \* Every line was there, or is the new one at the end of its file.
  <1>8. ASSUME NEW g \in DOMAIN sinkFiles, NEW i \in DOMAIN sinkFiles'[g]
        PROVE  \/ /\ i \in DOMAIN sinkFiles[g] /\ sinkFiles'[g][i] = sinkFiles[g][i]
                  /\ g = f => i < n
               \/ g = f /\ i = n /\ sinkFiles'[g][i] = e
    <2>1. CASE g # f
      BY <1>6, <2>1
    <2>2. CASE g = f
      <3>1. i \in 1..n
        BY <1>5, <1>6, <2>2
      <3> QED
        BY SMTT(30), <1>3, <1>5, <1>6, <2>2, <3>1
    <2> QED
      BY <2>1, <2>2
  \* What is known of a line that was there.
  <1>9. ASSUME NEW g \in DOMAIN sinkFiles, NEW i \in DOMAIN sinkFiles[g]
        PROVE  /\ sinkFiles[g][i] \in Line /\ sinkFiles[g][i][1] \in 1..runs
               /\ sinkFiles[g][i][1] = e[1] =>
                    sinkFiles[g][i][2] <= sinks[p].lines /\ ~SinkBefore(f, g)
    <2>1. sinkFiles[g] \in Seq(Line)
      BY <1>1 DEF SinkTypeOK
    <2>2. sinkFiles[g][i] \in Line
      BY <2>1, ElementOfSeq
    <2> QED
      BY <1>1, <1>3, <1>4, <2>2 DEF LinesAre, LineIs
  <1>10. SinkTypeOK'
    <2>1. \A g \in DOMAIN sinkFiles' : sinkFiles'[g] \in Seq(Line)
      BY <1>1, <1>5, <1>6 DEF SinkTypeOK
    <2> QED
      BY <1>1, <1>3, <1>6, <1>7, <2>1 DEF SinkTypeOK
  <1>11. RunsAreInOrder'
    <2> SUFFICES ASSUME NEW g \in DOMAIN sinkFiles, NEW h \in DOMAIN sinkFiles,
                        NEW i \in DOMAIN sinkFiles'[g], NEW j \in DOMAIN sinkFiles'[h],
                        sinkFiles'[g][i][1] = sinkFiles'[h][j][1],
                        SinkBefore(g, h) \/ (g = h /\ i < j)
                 PROVE  sinkFiles'[g][i][2] < sinkFiles'[h][j][2]
      BY <1>6 DEF RunsAreInOrder, SinkBefore
    <2>1. CASE i \in DOMAIN sinkFiles[g] /\ sinkFiles'[g][i] = sinkFiles[g][i]
      <3>1. CASE j \in DOMAIN sinkFiles[h] /\ sinkFiles'[h][j] = sinkFiles[h][j]
        BY <1>1, <2>1, <3>1 DEF RunsAreInOrder
      <3>2. CASE h = f /\ j = n /\ sinkFiles'[h][j] = e
        <4>1. sinkFiles[g][i] \in Line /\ sinkFiles[g][i][2] <= sinks[p].lines
          BY <1>9, <2>1, <3>2
        <4>2. sinkFiles[g][i][2] \in Nat /\ sinks[p].lines \in Nat
          BY <1>2, <4>1 DEF Line, Sink
        <4> QED
          BY <1>4, <2>1, <3>2, <4>1, <4>2
      <3> QED
        BY <1>8, <3>1, <3>2
    <2>2. CASE g = f /\ i = n /\ sinkFiles'[g][i] = e
      <3>1. ~SinkBefore(f, h)
        <4>1. CASE j \in DOMAIN sinkFiles[h] /\ sinkFiles'[h][j] = sinkFiles[h][j]
          BY <1>9, <2>2, <4>1
        <4>2. CASE h = f
          BY <1>4, <4>2 DEF SinkBefore, File
        <4> QED
          BY <1>8, <4>1, <4>2
      <3>2. h = f /\ n < j
        BY <2>2, <3>1
      <3>3. j \in 1..n
        BY <1>5, <1>6, <3>2
      <3> QED
        BY <1>5, <3>2, <3>3
    <2> QED
      BY <1>8, <2>1, <2>2
  <1>12. LinesAre'
    <2> SUFFICES ASSUME NEW g \in DOMAIN sinkFiles, NEW i \in DOMAIN sinkFiles'[g]
                 PROVE  /\ sinkFiles'[g][i][1] \in 1..runs'
                        /\ \A q \in SinkProgram : LineIs(q, g, sinkFiles[g][i])'
      BY <1>6 DEF LinesAre
    <2>1. CASE i \in DOMAIN sinkFiles[g] /\ sinkFiles'[g][i] = sinkFiles[g][i]
      <3> DEFINE line == sinkFiles[g][i]
      <3>1. /\ line \in Line /\ line[1] \in 1..runs /\ \A q \in SinkProgram : LineIs(q, g, line)
            /\ sinkFiles'[g][i] = line /\ line[2] \in Nat
        BY <1>1, <1>9, <2>1 DEF LinesAre, Line
      <3>2. ASSUME NEW q \in SinkProgram, sinks'[q].run = line[1]
            PROVE  line[2] <= sinks'[q].lines /\ ~SinkBefore(sinks'[q].stream, g)
        <4>1. CASE q = p
          <5>1. line[2] <= sinks[p].lines /\ ~SinkBefore(f, g) /\ sinks[p].lines \in Nat
            BY <1>2, <1>4, <1>7, <1>9, <2>1, <3>2, <4>1 DEF Sink
          <5> QED
            BY <1>7, <3>1, <4>1, <5>1
        <4>2. CASE q # p
          BY <1>7, <3>1, <3>2, <4>2 DEF LineIs
        <4> QED
          BY <4>1, <4>2
      <3>3. ASSUME NEW q \in SinkProgram PROVE LineIs(q, g, sinkFiles[g][i])'
        BY <3>1, <3>2 DEF LineIs, SinkBefore
      <3> QED
        BY <1>3, <3>1, <3>3
    <2>2. CASE g = f /\ i = n /\ sinkFiles'[g][i] = e
      <3>1. ASSUME NEW q \in SinkProgram, sinks'[q].run = e[1]
            PROVE  e[2] <= sinks'[q].lines /\ ~SinkBefore(sinks'[q].stream, f)
        <4>1. q = p
          BY <1>1, <1>2, <1>4, <1>7, <3>1 DEF RunsOfTheirOwn
        <4>2. sinks[p].lines \in Nat
          BY <1>2 DEF Sink
        <4> QED
          BY <1>4, <1>7, <4>1, <4>2 DEF SinkBefore, File
      <3>2. ASSUME NEW q \in SinkProgram PROVE LineIs(q, g, sinkFiles[g][i])'
        BY <2>2, <3>1 DEF LineIs, SinkBefore
      <3> QED
        BY <1>3, <1>4, <2>2, <3>2
    <2> QED
      BY <1>8, <2>1, <2>2
  <1>13. RunsOfTheirOwn'
    BY <1>1, <1>7 DEF RunsOfTheirOwn
  <1>14. SinkName' = SinkName /\ runs' = runs
    BY <1>3 DEF SinkName
  <1>15. ASSUME NEW q \in SinkProgram PROVE SinkHolds(q)'
    <2>1. /\ SinkHolds(q) /\ sinks'[q].run = sinks[q].run
          /\ sinks'[q].filename = sinks[q].filename
          /\ sinks'[q].blocks = sinks[q].blocks /\ sinks'[q].stream = sinks[q].stream
          /\ sinks'[q].at # "off" => sinks[q].at # "off"
          /\ sinks'[q].at = "write" => sinks[q].at = "write"
      BY <1>2, <1>3, <1>7
    <2> QED
      BY <1>6, <1>14, <2>1 DEF SinkHolds, Block
  <1> QED
    BY <1>10, <1>11, <1>12, <1>13, <1>15 DEF SinkInv

LEMMA SinkNextInv == SinkInv /\ [SinkNext]_sinkVars => SinkInv'
  <1>1. ASSUME SinkInv, UNCHANGED sinkVars PROVE SinkInv'
    BY <1>1 DEF sinkVars, SinkInv, SinkTypeOK, RunsOfTheirOwn, LinesAre, LineIs, SinkBefore,
                RunsAreInOrder, SinkHolds, SinkName, Block
  <1> QED
    BY <1>1, MidnightInv, SinkSetInv, OpenFileInv, WriteInv DEF SinkNext

\* The lines of one run are in order over its files, whatever other programs append to
\* them, however the date changes and wherever a run ends (file_sink.cpp:36-95).
THEOREM LinesOfARunAreInOrder == SinkSpec => []RunsAreInOrder
  <1>1. SinkInv => RunsAreInOrder
    BY DEF SinkInv
  <1> QED
    BY SinkInitInv, SinkNextInv, <1>1, PTL DEF SinkSpec

-----------------------------------------------------------------------------
(* Removing a tree. *)

\* A call of remove_directories is for a path that ends at a node that can be reached, and
\* what it still has to look at is below a node that can be.
Within(n) == n \in RmReached /\ (n = rmLayout.top \/ rmLayout.parent[n] \in RmReached)
RmCallOK(f) ==
  /\ f.path # <<>> /\ Within(Last(f.path))
  /\ \A e \in f.todo : rmLayout.parent[e] \in RmReached
RmCalls ==
  {f \in [path : Seq(Node), at : {"open", "list", "return", "remove"}, todo : SUBSET Node,
          error : BOOLEAN] : RmCallOK(f)}

RmInv ==
  /\ rmLayout \in RmLayouts /\ there \subseteq Node
  /\ rmStack \in [RmProgram -> Seq(RmCalls)]
  /\ \A n \in Node \ there : Within(n)

LEMMA ReachedIs ==
  ASSUME rmLayout \in RmLayouts
  PROVE  /\ RmReached \subseteq Node /\ rmLayout.top \in RmReached
         /\ \A n \in RmReached : RmBelow(n) \subseteq RmReached
  <1>1. rmLayout.top \in Node
    BY RemoveTreeAssumption
  <1>2. ASSUME NEW n \in RmReached, NEW m \in RmBelow(n)
        PROVE  m \in RmReached
    <2>1. m \in Node
      BY <1>2, RemoveTreeAssumption DEF RmBelow, IsLink, RmReached
    <2>2. ASSUME NEW set \in SUBSET Node, rmLayout.top \in set, RmClosed(set)
          PROVE  m \in set
      BY <1>2, <2>2 DEF RmReached, RmClosed
    <2> QED
      BY <2>1, <2>2 DEF RmReached
  <1> QED
    BY <1>1, <1>2 DEF RmReached

LEMMA EntryIsWithin ==
  ASSUME RmInv, NEW f \in RmCalls, NEW e \in f.todo
  PROVE  /\ e \in Node /\ Within(e)
         /\ Append(f.path, e) \in Seq(Node) /\ Append(f.path, e) # <<>>
         /\ Last(Append(f.path, e)) = e
  <1>1. f.path \in Seq(Node) /\ e \in Node /\ rmLayout.parent[e] \in RmReached
    BY DEF RmCalls, RmCallOK
  <1>2. e \in RmBelow(rmLayout.parent[e])
    BY <1>1 DEF RmBelow
  <1>3. Within(e)
    BY <1>1, <1>2, ReachedIs DEF Within, RmInv
  <1> QED
    BY <1>1, <1>3 DEF Last

LEMMA StatIsReached ==
  ASSUME RmInv, NEW path \in Seq(Node), path # <<>>, Within(Last(path)), RmIsDirectory(path)
  PROVE  /\ RmListed(Stat(path)) \subseteq Node
         /\ \A e \in RmListed(Stat(path)) : rmLayout.parent[e] \in RmReached
  <1>1. Stat(path) = Target(Last(path))
    BY DEF RmIsDirectory, Stat, Leads, NoNode
  <1>2. Target(Last(path)) \in RmReached
    BY ReachedIs DEF RmInv, Within, Target, RmBelow
  <1> QED
    BY <1>1, <1>2 DEF RmListed, RmEntries, RmInv

LEMMA TopCall ==
  ASSUME RmInv, NEW p \in RmProgram, rmStack[p] # <<>>
  PROVE  /\ rmStack[p] \in Seq(RmCalls) /\ RmTop(p) \in RmCalls
         /\ Front(rmStack[p]) \in Seq(RmCalls)
         /\ Len(rmStack[p]) # 1 => Front(rmStack[p]) # <<>>
  <1>1. rmStack[p] \in Seq(RmCalls) /\ Len(rmStack[p]) \in Nat \ {0}
    BY EmptySeq DEF RmInv
  <1>2. RmTop(p) \in RmCalls
    BY <1>1, ElementOfSeq DEF RmTop, Last
  <1>3. Front(rmStack[p]) \in Seq(RmCalls) /\ Len(Front(rmStack[p])) = Len(rmStack[p]) - 1
    BY <1>1, SubSeqProperties DEF Front
  <1>4. Len(rmStack[p]) # 1 => Len(Front(rmStack[p])) # 0
    BY <1>1, <1>3
  <1> QED
    BY <1>1, <1>2, <1>3, <1>4, EmptySeq

\* What is removed by one call of remove is within reach.
LEMMA GoneIsWithin ==
  ASSUME RmInv, NEW path \in Seq(Node), path # <<>>, Within(Last(path)), there' = Gone(path)
  PROVE  there' \subseteq Node /\ \A n \in Node \ there' : Within(n)
  BY DEF Gone, RmInv

LEMMA SetTopInv ==
  ASSUME RmInv, NEW p \in RmProgram, rmStack[p] # <<>>, NEW f \in RmCalls, SetTop(p, f)
  PROVE  rmStack' \in [RmProgram -> Seq(RmCalls)]
  <1>1. Append(Front(rmStack[p]), f) \in Seq(RmCalls)
    BY TopCall
  <1> QED
    BY <1>1 DEF SetTop, RmInv

LEMMA BackInv ==
  ASSUME RmInv, NEW p \in RmProgram, rmStack[p] # <<>>, NEW error \in BOOLEAN, Back(p, error)
  PROVE  rmStack' \in [RmProgram -> Seq(RmCalls)]
  <1>1. CASE Len(rmStack[p]) = 1
    <2>1. rmStack' = [rmStack EXCEPT ![p] = <<>>] /\ <<>> \in Seq(RmCalls)
      BY <1>1, EmptySeq DEF Back
    <2> QED
      BY <2>1 DEF RmInv
  <1>2. CASE Len(rmStack[p]) # 1
    <2> DEFINE rest == Front(rmStack[p])
               last == IF error THEN [Last(rest) EXCEPT !.at = "return"] ELSE Last(rest)
    <2>1. rest \in Seq(RmCalls) /\ rest # <<>>
      BY <1>2, TopCall
    <2>2. Len(rest) \in Nat \ {0}
      BY <2>1, EmptySeq
    <2>3. Last(rest) \in RmCalls
      BY <2>1, <2>2, ElementOfSeq DEF Last
    <2>4. last \in RmCalls
      BY <2>3 DEF RmCalls, RmCallOK
    <2>5. Front(rest) \in Seq(RmCalls)
      BY <2>1, <2>2, SubSeqProperties DEF Front
    <2>6. Append(Front(rest), last) \in Seq(RmCalls)
      BY <2>4, <2>5
    <2>7. rmStack' = [rmStack EXCEPT ![p] = Append(Front(rest), last)]
      BY <1>2 DEF Back
    <2> HIDE DEF rest, last
    <2> QED
      BY <2>6, <2>7 DEF RmInv
  <1> QED
    BY <1>1, <1>2

\* The parts of RmInv that depend on the layout alone stay as they are.
LEMMA SameLayout ==
  ASSUME RmInv, rmLayout' = rmLayout,
         rmStack' \in [RmProgram -> Seq(RmCalls)],
         there' \subseteq Node /\ \A n \in Node \ there' : Within(n)
  PROVE  RmInv'
  <1>1. RmReached' = RmReached
    BY DEF RmReached, RmClosed, RmBelow, IsLink
  <1>2. \A n : Within(n)' <=> Within(n)
    BY <1>1 DEF Within
  <1>3. RmCalls' = RmCalls
    BY <1>1, <1>2 DEF RmCalls, RmCallOK
  <1> QED
    BY <1>2, <1>3 DEF RmInv

LEMMA NewCall ==
  ASSUME RmInv, NEW path \in Seq(Node), path # <<>>, Within(Last(path))
  PROVE  RmCall(path) \in RmCalls
  BY DEF RmCall, RmCalls, RmCallOK

LEMMA RmInitInv == RmInit => RmInv
  <1> SUFFICES ASSUME RmInit PROVE RmInv
    OBVIOUS
  <1>1. <<>> \in Seq(RmCalls)
    BY EmptySeq
  <1> QED
    BY <1>1 DEF RmInit, RmInv

LEMMA RmNextInv == RmInv /\ [RmNext]_rmVars => RmInv'
  <1> SUFFICES ASSUME RmInv, [RmNext]_rmVars PROVE RmInv'
    OBVIOUS
  <1>s. rmStack \in [RmProgram -> Seq(RmCalls)] /\ there \subseteq Node
        /\ \A n \in Node \ there : Within(n)
    BY DEF RmInv
  <1>1. CASE UNCHANGED rmVars
    BY <1>1, <1>s, SameLayout DEF rmVars
  <1>2. ASSUME NEW p \in RmProgram, Work(p) PROVE RmInv'
    <2> DEFINE top == RmTop(p)
    <2>l. rmLayout' = rmLayout
      BY <1>2 DEF Work, Rm, OpenDir, RmEnter, RemoveEntry, ReturnError, EndList, RemoveSelf
    <2>t. rmStack[p] # <<>> => /\ top \in RmCalls /\ top.path \in Seq(Node)
                               /\ top.path # <<>> /\ Within(Last(top.path))
                               /\ top.error \in BOOLEAN /\ top.todo \subseteq Node
      BY TopCall DEF RmCalls, RmCallOK
    <2>1. CASE Rm(p)
      <3> DEFINE path == <<rmLayout.top>>
      <3>1. path \in Seq(Node) /\ path # <<>> /\ Last(path) = rmLayout.top
        BY RemoveTreeAssumption DEF RmInv, Last
      <3>2. Within(Last(path))
        BY <3>1, ReachedIs DEF Within, RmInv
      <3>3. RmCall(path) \in RmCalls
        BY <3>1, <3>2, NewCall
      <3>4. <<RmCall(path)>> \in Seq(RmCalls)
        BY <3>3
      <3>5. rmStack' \in [RmProgram -> Seq(RmCalls)]
        BY <2>1, <1>s, <3>4 DEF Rm
      <3>6. there' = there \/ there' = Gone(path)
        BY <2>1 DEF Rm
      <3> QED
        BY <1>s, <2>l, <3>1, <3>2, <3>5, <3>6, GoneIsWithin, SameLayout
    <2>2. CASE OpenDir(p)
      <3> DEFINE listed == RmListed(Stat(top.path))
      <3>1. [top EXCEPT !.at = "remove", !.error = TRUE] \in RmCalls
        BY <2>2, <2>t DEF OpenDir, RmCalls, RmCallOK
      <3>2. ASSUME RmIsDirectory(top.path)
            PROVE  [top EXCEPT !.at = "list", !.todo = listed] \in RmCalls
        <4>1. listed \subseteq Node /\ \A e \in listed : rmLayout.parent[e] \in RmReached
          BY <2>2, <2>t, <3>2, StatIsReached DEF OpenDir
        <4> HIDE DEF listed
        <4> QED
          BY <2>2, <2>t, <4>1 DEF OpenDir, RmCalls, RmCallOK
      <3>3. rmStack' \in [RmProgram -> Seq(RmCalls)]
        BY <2>2, <3>1, <3>2, SetTopInv DEF OpenDir
      <3>4. there' = there
        BY <2>2 DEF OpenDir
      <3> QED
        BY <1>s, <2>l, <3>3, <3>4, SameLayout
    <2>3. CASE RmEnter(p)
      <3>1. PICK e \in top.todo :
              rmStack' = [rmStack EXCEPT ![p] =
                Append(Append(Front(@), [top EXCEPT !.todo = @ \ {e}]),
                       RmCall(Append(top.path, e)))]
        BY <2>3 DEF RmEnter
      <3>2. RmCall(Append(top.path, e)) \in RmCalls
        BY <2>3, <2>t, EntryIsWithin, NewCall DEF RmEnter
      <3>3. [top EXCEPT !.todo = @ \ {e}] \in RmCalls
        BY <2>3, <2>t DEF RmEnter, RmCalls, RmCallOK
      <3>4. Front(rmStack[p]) \in Seq(RmCalls)
        BY <2>3, TopCall DEF RmEnter
      <3>5. Append(Append(Front(rmStack[p]), [top EXCEPT !.todo = @ \ {e}]),
                   RmCall(Append(top.path, e))) \in Seq(RmCalls)
        BY <3>2, <3>3, <3>4
      <3>6. rmStack' \in [RmProgram -> Seq(RmCalls)] /\ there' = there
        BY <1>s, <2>3, <3>1, <3>5 DEF RmEnter
      <3> QED
        BY <1>s, <2>l, <3>6, SameLayout
    <2>4. CASE RemoveEntry(p)
      <3>1. PICK e \in top.todo :
              /\ there' = Gone(Append(top.path, e))
              /\ SetTop(p, IF Removable(Append(top.path, e)) THEN [top EXCEPT !.todo = @ \ {e}]
                                                             ELSE [top EXCEPT !.at = "return"])
        BY <2>4 DEF RemoveEntry
      <3>2. there' \subseteq Node /\ \A n \in Node \ there' : Within(n)
        BY <2>4, <2>t, <3>1, EntryIsWithin, GoneIsWithin DEF RemoveEntry
      <3>3. /\ [top EXCEPT !.todo = @ \ {e}] \in RmCalls
            /\ [top EXCEPT !.at = "return"] \in RmCalls
        BY <2>4, <2>t DEF RemoveEntry, RmCalls, RmCallOK
      <3>4. rmStack' \in [RmProgram -> Seq(RmCalls)]
        BY <2>4, <3>1, <3>3, SetTopInv DEF RemoveEntry
      <3> QED
        BY <2>l, <3>2, <3>4, SameLayout
    <2>5. CASE ReturnError(p)
      BY <1>s, <2>5, <2>l, BackInv, SameLayout DEF ReturnError
    <2>6. CASE EndList(p)
      <3>1. [top EXCEPT !.at = "remove"] \in RmCalls
        BY <2>6, <2>t DEF EndList, RmCalls, RmCallOK
      <3>2. rmStack' \in [RmProgram -> Seq(RmCalls)] /\ there' = there
        BY <2>6, <3>1, SetTopInv DEF EndList
      <3> QED
        BY <1>s, <2>l, <3>2, SameLayout
    <2>7. CASE RemoveSelf(p)
      <3>1. there' \subseteq Node /\ \A n \in Node \ there' : Within(n)
        BY <2>7, <2>t, GoneIsWithin DEF RemoveSelf
      <3>2. (top.error \/ ~Removable(top.path)) \in BOOLEAN
        OBVIOUS
      <3>3. rmStack' \in [RmProgram -> Seq(RmCalls)]
        BY <2>7, <3>2, BackInv DEF RemoveSelf
      <3> QED
        BY <2>l, <3>1, <3>3, SameLayout
    <2> QED
      BY <1>2, <2>1, <2>2, <2>3, <2>4, <2>5, <2>6, <2>7 DEF Work
  <1> QED
    BY <1>1, <1>2 DEF RmNext

\* remove_directories takes nothing away but the directory itself and what is below it or
\* below a link in it: what a link leads to stays, unless it is reached in another way
\* (os.hpp:171-204).
THEOREM RemovalStaysInside == RmSpec => []OutsideIsKept
  <1>1. RmInv => OutsideIsKept
    BY DEF RmInv, OutsideIsKept, Within
  <1> QED
    BY <1>1, RmInitInv, RmNextInv, PTL DEF RmSpec


-----------------------------------------------------------------------------
(* Copying a tree. *)

Route == Seq(TreeName)
TreePath == Route \ {<<>>}

LEMMA PrefixIs ==
  ASSUME NEW s \in Route, NEW t \in Route
  PROVE  IsPrefix(s, t) <=> Len(s) <= Len(t) /\ \A i \in 1..Len(s) : s[i] = t[i]
  <1>1. Len(s) \in Nat /\ Len(t) \in Nat
    BY DEF Route
  <1>2. SubSeq(s, 1, Len(s)) = s
    BY SubSeqFull DEF Route
  <1>3. CASE Len(s) <= Len(t)
    <2> DEFINE start == SubSeq(t, 1, Len(s))
    <2>1. \A i \in 1..Len(s) : t[i] \in TreeName
      BY <1>1, <1>3, ElementOfSeq DEF Route
    <2>2. /\ start \in Route /\ Len(start) = Len(s)
          /\ \A i \in 1..Len(s) : start[i] = t[i]
      BY <1>1, <2>1, SubSeqProperties DEF Route
    <2> HIDE DEF start
    <2>3. s = start <=> \A i \in 1..Len(s) : s[i] = t[i]
      <3>1. (\A i \in 1..Len(s) : s[i] = t[i]) => s = start
        BY <2>2, SeqEqual DEF Route
      <3> QED
        BY <3>1, <2>2
    <2> QED
      BY <1>2, <1>3, <2>3 DEF IsPrefix, start
  <1>4. CASE ~(Len(s) <= Len(t))
    BY <1>4 DEF IsPrefix
  <1> QED
    BY <1>3, <1>4

LEMMA PrefixOfAppend ==
  ASSUME NEW s \in Route, NEW e \in TreeName
  PROVE  /\ Append(s, e) \in TreePath /\ Len(Append(s, e)) = Len(s) + 1
         /\ IsPrefix(s, Append(s, e))
         /\ \A t \in Route : IsPrefix(Append(s, e), t)
              <=> IsPrefix(s, t) /\ Len(s) < Len(t) /\ t[Len(s) + 1] = e
  <1> DEFINE u == Append(s, e)
  <1>1. /\ u \in TreePath /\ Len(u) = Len(s) + 1 /\ u[Len(s) + 1] = e
        /\ \A i \in 1..Len(s) : u[i] = s[i]
    BY AppendProperties DEF Route, TreePath
  <1>2. Len(s) \in Nat /\ u \in Route
    BY <1>1 DEF Route, TreePath
  <1> HIDE DEF u
  <1>3. ASSUME NEW t \in Route
        PROVE  IsPrefix(u, t) <=> IsPrefix(s, t) /\ Len(s) < Len(t) /\ t[Len(s) + 1] = e
    <2>1. Len(t) \in Nat
      BY DEF Route
    <2>2. IsPrefix(u, t) <=> Len(s) + 1 <= Len(t) /\ \A i \in 1..Len(s) + 1 : u[i] = t[i]
      BY <1>1, <1>2, PrefixIs
    <2>3. IsPrefix(s, t) <=> Len(s) <= Len(t) /\ \A i \in 1..Len(s) : s[i] = t[i]
      BY PrefixIs
    <2>4. (\A i \in 1..Len(s) + 1 : u[i] = t[i])
          <=> t[Len(s) + 1] = e /\ \A i \in 1..Len(s) : s[i] = t[i]
      BY <1>1, <1>2
    <2> QED
      BY <1>2, <2>1, <2>2, <2>3, <2>4
  <1>4. IsPrefix(s, u)
    BY <1>1, <1>2, PrefixIs
  <1> QED
    BY <1>1, <1>3, <1>4 DEF u

\* Prefixes are ordered; two of the same path are by their lengths.
LEMMA PrefixOrder ==
  ASSUME NEW s \in Route, NEW t \in Route
  PROVE  /\ IsPrefix(s, s)
         /\ IsPrefix(s, t) => Len(s) <= Len(t)
         /\ IsPrefix(s, t) /\ Len(s) = Len(t) => s = t
         /\ \A u \in Route :
              /\ IsPrefix(s, t) /\ IsPrefix(t, u) => IsPrefix(s, u)
              /\ IsPrefix(s, u) /\ IsPrefix(t, u) /\ Len(s) <= Len(t) => IsPrefix(s, t)
  <1>1. Len(s) \in Nat /\ Len(t) \in Nat
    BY DEF Route
  <1>2. IsPrefix(s, s) /\ (IsPrefix(s, t) => Len(s) <= Len(t))
    BY <1>1, PrefixIs
  <1>3. ASSUME IsPrefix(s, t), Len(s) = Len(t)
        PROVE  s = t
    BY <1>3, PrefixIs, SeqEqual DEF Route
  <1>4. ASSUME NEW u \in Route
        PROVE  /\ IsPrefix(s, t) /\ IsPrefix(t, u) => IsPrefix(s, u)
               /\ IsPrefix(s, u) /\ IsPrefix(t, u) /\ Len(s) <= Len(t) => IsPrefix(s, t)
    <2>1. Len(u) \in Nat
      BY DEF Route
    <2> QED
      BY <1>1, <2>1, PrefixIs
  <1> QED
    BY <1>2, <1>3, <1>4

LEMMA StartOfPath ==
  ASSUME NEW t \in Route, NEW k \in 0..Len(t)
  PROVE  /\ SubSeq(t, 1, k) \in Route /\ Len(SubSeq(t, 1, k)) = k
         /\ IsPrefix(SubSeq(t, 1, k), t)
         /\ \A s \in Route : IsPrefix(s, t) /\ Len(s) = k => s = SubSeq(t, 1, k)
         /\ k # 0 => SubSeq(t, 1, k) \in TreePath
  <1> DEFINE start == SubSeq(t, 1, k)
  <1>1. Len(t) \in Nat /\ k \in Nat
    BY DEF Route
  <1>2. \A i \in 1..k : t[i] \in TreeName
    BY <1>1, ElementOfSeq DEF Route
  <1>3. start \in Route /\ Len(start) = k /\ \A i \in 1..k : start[i] = t[i]
    BY <1>1, <1>2, SubSeqProperties DEF Route
  <1> HIDE DEF start
  <1>4. IsPrefix(start, t)
    BY <1>1, <1>3, PrefixIs
  <1>5. ASSUME NEW s \in Route, IsPrefix(s, t), Len(s) = k
        PROVE  s = start
    BY <1>3, <1>5, PrefixIs, SeqEqual DEF Route
  <1>6. k # 0 => start # <<>>
    BY <1>3, EmptySeq
  <1> QED
    BY <1>3, <1>4, <1>5, <1>6 DEF start, TreePath

LEMMA EndOfPath ==
  ASSUME NEW q \in Route, NEW m \in 0..Len(q)
  PROVE  /\ SubSeq(q, m + 1, Len(q)) \in Route
         /\ Len(SubSeq(q, m + 1, Len(q))) = Len(q) - m
         /\ \A i \in 1..Len(q) - m : SubSeq(q, m + 1, Len(q))[i] = q[m + i]
  <1>1. Len(q) \in Nat /\ m \in Nat /\ m <= Len(q)
    BY DEF Route
  <1>2. \A i \in m + 1..Len(q) : q[i] \in TreeName
    BY <1>1, ElementOfSeq DEF Route
  <1>3. PICK k \in Nat : k = m + 1
    BY <1>1
  <1>4. /\ SubSeq(q, k, Len(q)) \in Seq(TreeName)
        /\ Len(SubSeq(q, k, Len(q))) = IF k <= Len(q) THEN Len(q) - k + 1 ELSE 0
        /\ \A i \in 1..Len(q) - k + 1 : SubSeq(q, k, Len(q))[i] = q[k + i - 1]
    <2>1. \A i \in k..Len(q) : q[i] \in TreeName
      BY <1>2, <1>3
    <2> QED
      BY <1>1, <1>3, <2>1, SubSeqProperties
  <1> QED
    BY <1>1, <1>3, <1>4 DEF Route

LEMMA ImageIs ==
  ASSUME treeLayout.from \in TreePath, treeLayout.to \in TreePath,
         NEW q \in Route, IsPrefix(treeLayout.from, q)
  PROVE  /\ Image(q) \in TreePath
         /\ Len(Image(q)) = Len(treeLayout.to) + Len(q) - Len(treeLayout.from)
         /\ \A i \in 1..Len(Image(q)) :
              Image(q)[i] = IF i <= Len(treeLayout.to) THEN treeLayout.to[i]
                            ELSE q[i - Len(treeLayout.to) + Len(treeLayout.from)]
         /\ IsPrefix(treeLayout.to, Image(q))
  <1> DEFINE m == Len(treeLayout.from)  n == Len(treeLayout.to)
             rest == SubSeq(q, m + 1, Len(q))
  <1>1. m \in Nat /\ n \in Nat \ {0} /\ Len(q) \in Nat /\ m <= Len(q)
    BY PrefixOrder, EmptySeq DEF Route, TreePath
  <1>3. /\ rest \in Route /\ Len(rest) = Len(q) - m
        /\ \A i \in 1..Len(q) - m : rest[i] = q[m + i]
    <2>1. m \in 0..Len(q)
      BY <1>1
    <2> HIDE DEF m
    <2> QED
      BY <2>1, EndOfPath
  <1>4. Image(q) = treeLayout.to \o rest
    BY DEF Image
  <1> HIDE DEF rest, m
  <1>5. /\ Image(q) \in Route /\ Len(Image(q)) = n + Len(rest)
        /\ \A i \in 1..n + Len(rest) :
             Image(q)[i] = IF i <= n THEN treeLayout.to[i] ELSE rest[i - n]
    <2>1. treeLayout.to \in Seq(TreeName) /\ rest \in Seq(TreeName)
      BY <1>3 DEF Route, TreePath
    <2> QED
      BY <1>4, <2>1, ConcatProperties DEF Route
  <1>6. Len(Image(q)) = n + Len(q) - m
    BY <1>1, <1>3, <1>5
  <1>7. \A i \in 1..Len(Image(q)) :
          Image(q)[i] = IF i <= n THEN treeLayout.to[i] ELSE q[i - n + m]
    <2> SUFFICES ASSUME NEW i \in 1..Len(Image(q)), ~(i <= n)
                 PROVE  Image(q)[i] = q[i - n + m]
      BY <1>5
    <2>1. i - n \in 1..Len(q) - m /\ m + (i - n) = i - n + m
      BY <1>1, <1>6
    <2> QED
      BY <1>3, <1>5, <2>1
  <1>8. Image(q) # <<>>
    BY <1>1, <1>6, EmptySeq
  <1>9. IsPrefix(treeLayout.to, Image(q))
    <2> HIDE DEF n
    <2>1. n <= Len(Image(q)) /\ \A i \in 1..n : treeLayout.to[i] = Image(q)[i]
      BY <1>1, <1>6, <1>7
    <2> QED
      BY <1>5, <2>1, PrefixIs DEF TreePath, n
  <1> QED
    BY <1>5, <1>6, <1>7, <1>8, <1>9 DEF TreePath, m

\* What is in another directory in the source is so at the target.
LEMMA ImagePrefix ==
  ASSUME treeLayout.from \in TreePath, treeLayout.to \in TreePath,
         NEW q \in Route, NEW r \in Route,
         IsPrefix(treeLayout.from, q), IsPrefix(treeLayout.from, r)
  PROVE  /\ IsPrefix(Image(q), Image(r)) <=> IsPrefix(q, r)
         /\ Image(q) = Image(r) => q = r
  <1> DEFINE m == Len(treeLayout.from)  n == Len(treeLayout.to)
  <1>1. /\ m \in Nat /\ n \in Nat /\ Len(q) \in Nat /\ Len(r) \in Nat
        /\ m <= Len(q) /\ m <= Len(r)
    BY PrefixOrder DEF Route, TreePath
  <1>2. /\ Image(q) \in Route /\ Len(Image(q)) = n + Len(q) - m
        /\ \A i \in 1..Len(Image(q)) :
              Image(q)[i] = IF i <= n THEN treeLayout.to[i] ELSE q[i - n + m]
    BY ImageIs DEF TreePath
  <1>3. /\ Image(r) \in Route /\ Len(Image(r)) = n + Len(r) - m
        /\ \A i \in 1..Len(Image(r)) :
              Image(r)[i] = IF i <= n THEN treeLayout.to[i] ELSE r[i - n + m]
    BY ImageIs DEF TreePath
  <1>4. \A i \in 1..m : q[i] = r[i]
    BY PrefixIs DEF TreePath
  <1> HIDE DEF m, n
  <1>5. ASSUME IsPrefix(q, r)
        PROVE  IsPrefix(Image(q), Image(r))
    <2>1. Len(q) <= Len(r) /\ \A i \in 1..Len(q) : q[i] = r[i]
      BY <1>5, PrefixIs
    <2>2. ASSUME NEW i \in 1..Len(Image(q)) PROVE Image(q)[i] = Image(r)[i]
      <3>1. i \in 1..Len(Image(r))
        BY <1>1, <1>2, <1>3, <2>1
      <3>2. ~(i <= n) => i - n + m \in 1..Len(q)
        BY <1>1, <1>2
      <3> QED
        BY <1>2, <1>3, <2>1, <3>1, <3>2
    <2> QED
      BY <1>1, <1>2, <1>3, <2>1, <2>2, PrefixIs
  <1>6. ASSUME IsPrefix(Image(q), Image(r))
        PROVE  IsPrefix(q, r)
    <2>1. n + Len(q) - m <= n + Len(r) - m /\ \A i \in 1..Len(Image(q)) : Image(q)[i] = Image(r)[i]
      BY <1>2, <1>3, <1>6, PrefixIs
    <2>2. ASSUME NEW i \in 1..Len(q), ~(i <= m) PROVE q[i] = r[i]
      <3> DEFINE j == i - m + n
      <3>1. /\ j \in 1..Len(Image(q)) /\ j \in 1..Len(Image(r)) /\ ~(j <= n) /\ j - n + m = i
        BY <1>1, <1>2, <1>3, <2>1, <2>2
      <3> HIDE DEF j
      <3>2. Image(q)[j] = q[i] /\ Image(r)[j] = r[i]
        BY <1>2, <1>3, <3>1
      <3> QED
        BY <2>1, <3>1, <3>2
    <2>3. \A i \in 1..Len(q) : q[i] = r[i]
      BY <1>1, <1>4, <2>2
    <2> QED
      BY <1>1, <2>1, <2>3, PrefixIs
  <1>7. ASSUME Image(q) = Image(r)
        PROVE  q = r
    <2>1. IsPrefix(Image(q), Image(r))
      BY <1>2, <1>7, PrefixOrder
    <2>2. Len(q) = Len(r)
      BY <1>1, <1>2, <1>3, <1>7
    <2> QED
      BY <1>6, <2>1, <2>2, PrefixOrder
  <1> QED
    BY <1>5, <1>6, <1>7

LEMMA ImageOfEntry ==
  ASSUME treeLayout.from \in TreePath, treeLayout.to \in TreePath,
         NEW q \in Route, IsPrefix(treeLayout.from, q), NEW e \in TreeName
  PROVE  /\ Append(q, e) \in TreePath /\ IsPrefix(treeLayout.from, Append(q, e))
         /\ Image(Append(q, e)) = Append(Image(q), e)
  <1> DEFINE m == Len(treeLayout.from)  n == Len(treeLayout.to)  u == Append(q, e)
  <1>1. m \in Nat /\ n \in Nat /\ Len(q) \in Nat /\ m <= Len(q)
    BY PrefixOrder DEF Route, TreePath
  <1>2. /\ u \in TreePath /\ Len(u) = Len(q) + 1
        /\ \A i \in 1..Len(q) : u[i] = q[i]
        /\ u[Len(q) + 1] = e
    BY AppendProperties DEF Route, TreePath
  <1>3. IsPrefix(treeLayout.from, u)
    BY PrefixOfAppend, PrefixOrder DEF TreePath
  <1>4. /\ Image(q) \in Route /\ Len(Image(q)) = n + Len(q) - m
        /\ \A i \in 1..Len(Image(q)) :
              Image(q)[i] = IF i <= n THEN treeLayout.to[i] ELSE q[i - n + m]
    BY ImageIs DEF TreePath
  <1>5. u \in Route
    BY <1>2 DEF TreePath
  <1> HIDE DEF u
  <1>6. /\ Image(u) \in Route /\ Len(Image(u)) = n + Len(u) - m
        /\ \A i \in 1..Len(Image(u)) :
              Image(u)[i] = IF i <= n THEN treeLayout.to[i] ELSE u[i - n + m]
    BY <1>3, <1>5, ImageIs DEF TreePath
  <1> DEFINE v == Append(Image(q), e)
  <1>7. /\ v \in Route /\ Len(v) = Len(Image(q)) + 1 /\ v[Len(Image(q)) + 1] = e
        /\ \A i \in 1..Len(Image(q)) : v[i] = Image(q)[i]
    <2>1. Image(q) \in Seq(TreeName)
      BY <1>4 DEF Route
    <2> QED
      BY <2>1, AppendProperties DEF Route
  <1> HIDE DEF m, n, v
  <1>8. Len(Image(u)) = Len(v)
    BY <1>1, <1>2, <1>4, <1>6, <1>7
  <1>9. ASSUME NEW i \in 1..Len(v) PROVE Image(u)[i] = v[i]
    <2>1. CASE i = Len(Image(q)) + 1
      <3>1. ~(i <= n) /\ i - n + m = Len(q) + 1 /\ i \in 1..Len(Image(u))
        BY <1>1, <1>4, <1>8, <2>1
      <3> QED
        BY <1>2, <1>6, <1>7, <2>1, <3>1
    <2>2. CASE i # Len(Image(q)) + 1
      <3>1. i \in 1..Len(Image(q)) /\ i \in 1..Len(Image(u))
        BY <1>1, <1>4, <1>7, <1>8, <2>2
      <3>2. ~(i <= n) => i - n + m \in 1..Len(q)
        BY <1>1, <1>4, <3>1
      <3> QED
        BY <1>2, <1>4, <1>6, <1>7, <3>1, <3>2
    <2> QED
      BY <2>1, <2>2
  <1>10. Image(u) = v
    BY <1>6, <1>7, <1>8, <1>9, SeqEqual DEF Route
  <1> QED
    BY <1>2, <1>3, <1>10 DEF u, v

\* Nothing on the way to the target is in the source.
LEMMA ImageIsApart ==
  ASSUME treeLayout.from \in TreePath, treeLayout.to \in TreePath, Separate,
         NEW x \in Route
  PROVE  /\ IsPrefix(treeLayout.to, x) => ~IsPrefix(treeLayout.from, x)
         /\ \A y \in Route : IsPrefix(x, y) /\ IsPrefix(treeLayout.to, y)
              => ~IsPrefix(treeLayout.from, x)
  <1>1. treeLayout.from \in Route /\ treeLayout.to \in Route
        /\ Len(treeLayout.from) \in Nat /\ Len(treeLayout.to) \in Nat
    BY DEF TreePath, Route
  <1>2. ASSUME NEW y \in Route, IsPrefix(treeLayout.to, y), IsPrefix(treeLayout.from, y)
        PROVE  FALSE
    <2>1. Len(treeLayout.from) <= Len(treeLayout.to) \/ Len(treeLayout.to) <= Len(treeLayout.from)
      BY <1>1
    <2> QED
      BY <1>1, <1>2, <2>1, PrefixOrder DEF Separate
  <1> QED
    BY <1>1, <1>2, PrefixOrder

\* Of two entries that are on the way to the same path, one leads to the other; entries of
\* the same directory are the same.
LEMMA OneWay ==
  ASSUME NEW p \in Route, NEW e \in TreeName, NEW q \in Route, NEW r \in Route, IsPrefix(q, r)
  PROVE  /\ IsPrefix(Append(p, e), q) => IsPrefix(Append(p, e), r) /\ IsPrefix(p, r)
         /\ IsPrefix(Append(p, e), r) /\ Len(p) < Len(q) => IsPrefix(Append(p, e), q)
         /\ ~IsPrefix(Append(p, e), p)
         /\ IsPrefix(Append(p, e), r) /\ Len(q) = Len(p) + 1 => Append(p, e) = q
         /\ \A d \in TreeName : IsPrefix(Append(p, e), r) /\ IsPrefix(Append(p, d), r) => d = e
  <1>1. /\ Append(p, e) \in Route /\ Len(Append(p, e)) = Len(p) + 1
        /\ IsPrefix(p, Append(p, e)) /\ Len(p) \in Nat /\ Len(q) \in Nat
    BY PrefixOfAppend DEF TreePath, Route
  <1>2. IsPrefix(Append(p, e), q) => IsPrefix(Append(p, e), r)
    BY <1>1, PrefixOrder
  <1>3. IsPrefix(Append(p, e), r) => IsPrefix(p, r)
    BY <1>1, PrefixOrder
  <1>4. IsPrefix(Append(p, e), r) /\ Len(p) < Len(q) => IsPrefix(Append(p, e), q)
    <2>1. Len(p) < Len(q) => Len(Append(p, e)) <= Len(q)
      BY <1>1
    <2> QED
      BY <1>1, <2>1, PrefixOrder
  <1>5. ~IsPrefix(Append(p, e), p)
    <2>1. ~(Len(Append(p, e)) <= Len(p))
      BY <1>1
    <2> QED
      BY <1>1, <2>1, PrefixOrder
  <1>6. IsPrefix(Append(p, e), r) /\ Len(q) = Len(p) + 1 => Append(p, e) = q
    <2> SUFFICES ASSUME IsPrefix(Append(p, e), r), Len(q) = Len(p) + 1
                 PROVE  Append(p, e) = q
      OBVIOUS
    <2>1. Len(Append(p, e)) = Len(q) /\ Len(Append(p, e)) <= Len(q)
      BY <1>1
    <2>2. IsPrefix(Append(p, e), q)
      BY <1>1, <2>1, PrefixOrder
    <2> QED
      BY <1>1, <2>1, <2>2, PrefixOrder
  <1>7. \A d \in TreeName : IsPrefix(Append(p, e), r) /\ IsPrefix(Append(p, d), r) => d = e
    BY PrefixOfAppend
  <1> QED
    BY <1>2, <1>3, <1>4, <1>5, <1>6, <1>7

-----------------------------------------------------------------------------

TreeCalls ==
  [from : TreePath, to : TreePath, at : {"target", "mkdir", "open", "list"},
   must : SUBSET TreeName, done : SUBSET TreeName]

TreeTypeOK ==
  /\ treeLayout \in TreeLayouts /\ flags \in Flags
  /\ treeDirs \subseteq TreePath /\ DOMAIN treeFiles \subseteq TreePath
  /\ treeStack \in Seq(TreeCalls)
  /\ treeStack # <<>> <=> outcome = "none"
  /\ failed \subseteq TreePath

\* What is there is in directories.
FileSystem ==
  /\ treeDirs \cap DOMAIN treeFiles = {}
  /\ \A q \in treeDirs \cup DOMAIN treeFiles, p \in TreePath :
       IsPrefix(p, q) /\ p # q => p \in treeDirs

AsBefore ==
  outcome = "idle" =>
    treeDirs = treeLayout.dirs /\ treeFiles = [f \in treeLayout.files |-> Holds(f, TRUE)]

\* The source stays as it is, and what it has no file for gets none.
SourceIsKept ==
  \A q \in TreePath : IsPrefix(treeLayout.from, q) =>
    /\ q \in treeDirs <=> q \in treeLayout.dirs
    /\ q \in DOMAIN treeFiles <=> q \in treeLayout.files
    /\ q \in treeLayout.files => treeFiles[q] = Holds(q, TRUE)
NoNewFile ==
  \A q \in Under(treeLayout.from) \ treeLayout.files :
    Image(q) \in DOMAIN treeFiles => Image(q) \in treeLayout.files

\* The calls are for the directories that lead to the path of the innermost one.
OnTheWay(f, j, path) ==
  /\ IsPrefix(treeLayout.from, f.from) /\ IsPrefix(f.from, path)
  /\ Len(f.from) = Len(treeLayout.from) + j - 1
  /\ f.to = Image(f.from)
  /\ j > 1 => f.from \in treeLayout.dirs
  /\ f.from # path => f.at = "list"
  /\ f.at # "list" => f.done = {}
  /\ \A e \in TreeName : IsPrefix(Append(f.from, e), path) => e \in f.done

\* What a call is through with is copied, but for the entry that the path goes on with, and
\* for what is in a directory that was not listed to its end.
AllCopied(p) == \A q \in Under(p) : Arrives(q)
DoneIsCopied(f, path) ==
  \A e \in f.done : IsPrefix(Append(f.from, e), path) \/ AllCopied(Append(f.from, e))
MustIsAll(f) ==
  f.at = "list" => \A e \in TreeName : Append(f.from, e) \in TreeBefore => e \in f.must
TargetIs(f) == f.at \in {"open", "list"} => There(f.to)
\* With a target that was not there, nothing is where a call has still to write.
TargetIsNew(f) ==
  flags = "skip_existing" =>
    /\ f.at = "target" => ~There(f.to)
    /\ \A e \in TreeName \ f.done : ~There(Append(f.to, e))

CallOK(f, path) ==
  DoneIsCopied(f, path) /\ MustIsAll(f) /\ TargetIs(f) /\ TargetIsNew(f)

CallsAre ==
  \A j \in 1..Len(treeStack) :
    OnTheWay(treeStack[j], j, TreeTop.from) /\ CallOK(treeStack[j], TreeTop.from)

LEMMA LayoutIs ==
  ASSUME TreeTypeOK
  PROVE  /\ treeLayout.from \in TreePath /\ treeLayout.to \in TreePath
         /\ treeLayout.dirs \subseteq TreePath /\ treeLayout.files \subseteq TreePath
         /\ treeLayout.dirs \cap treeLayout.files = {}
         /\ \A q \in TreeBefore, p \in TreePath :
              IsPrefix(p, q) /\ p # q => p \in treeLayout.dirs
         /\ \A p \in TreePath : TreePath \subseteq Route /\ Len(p) \in Nat \ {0}
  <1>1. /\ treeLayout.from \in TreePath /\ treeLayout.to \in TreePath
        /\ treeLayout.dirs \subseteq TreePath /\ treeLayout.files \subseteq TreePath
        /\ treeLayout.dirs \cap treeLayout.files = {}
        /\ \A q \in TreeBefore : \A k \in 1..Len(q) - 1 : SubSeq(q, 1, k) \in treeLayout.dirs
    BY CopyTreeAssumption DEF TreeTypeOK, TreePath, Route, TreeBefore
  <1>2. \A p \in TreePath : p \in Route /\ Len(p) \in Nat \ {0}
    BY EmptySeq DEF TreePath, Route
  <1>3. ASSUME NEW q \in TreeBefore, NEW p \in TreePath, IsPrefix(p, q), p # q
        PROVE  p \in treeLayout.dirs
    <2>1. q \in Route /\ p \in Route /\ Len(p) \in Nat \ {0} /\ Len(q) \in Nat
      BY <1>1, <1>2 DEF TreeBefore
    <2>2. Len(p) < Len(q)
      BY <1>3, <2>1, PrefixOrder
    <2>3. p = SubSeq(q, 1, Len(p))
      <3>1. Len(p) \in 0..Len(q)
        BY <2>1, <2>2
      <3> QED
        BY <1>3, <2>1, <3>1, StartOfPath
    <2>4. Len(p) \in 1..Len(q) - 1
      BY <2>1, <2>2
    <2>5. SubSeq(q, 1, Len(p)) \in treeLayout.dirs
      BY <1>1, <2>4
    <2> QED
      BY <2>3, <2>5
  <1> QED
    BY <1>1, <1>2, <1>3

LEMMA AboveIs ==
  ASSUME NEW t \in TreePath
  PROVE  {SubSeq(t, 1, k) : k \in 1..Len(t)} = {p \in TreePath : IsPrefix(p, t)}
  <1>1. t \in Route /\ Len(t) \in Nat
    BY DEF TreePath, Route
  <1>2. ASSUME NEW k \in 1..Len(t)
        PROVE  SubSeq(t, 1, k) \in TreePath /\ IsPrefix(SubSeq(t, 1, k), t)
    BY <1>1, StartOfPath
  <1>3. ASSUME NEW p \in TreePath, IsPrefix(p, t)
        PROVE  \E k \in 1..Len(t) : p = SubSeq(t, 1, k)
    <2>1. p \in Route /\ Len(p) \in Nat \ {0} /\ Len(p) <= Len(t)
      BY <1>1, <1>3, EmptySeq, PrefixOrder DEF TreePath, Route
    <2>2. Len(p) \in 1..Len(t) /\ Len(p) \in 0..Len(t)
      BY <1>1, <2>1
    <2>3. p = SubSeq(t, 1, Len(p))
      BY <1>1, <1>3, <2>1, <2>2, StartOfPath
    <2> QED
      BY <2>2, <2>3
  <1> QED
    BY <1>2, <1>3

LEMMA TreeTopIs ==
  ASSUME TreeTypeOK, treeStack # <<>>
  PROVE  /\ Len(treeStack) \in Nat \ {0} /\ TreeTop \in TreeCalls
         /\ TreeTop = treeStack[Len(treeStack)]
         /\ Front(treeStack) \in Seq(TreeCalls) /\ Len(Front(treeStack)) = Len(treeStack) - 1
         /\ \A j \in 1..Len(treeStack) - 1 : Front(treeStack)[j] = treeStack[j]
         /\ \A j \in 1..Len(treeStack) : treeStack[j] \in TreeCalls
  <1>1. treeStack \in Seq(TreeCalls) /\ Len(treeStack) \in Nat \ {0}
    BY EmptySeq DEF TreeTypeOK
  <1>2. \A j \in 1..Len(treeStack) : treeStack[j] \in TreeCalls
    BY <1>1, ElementOfSeq
  <1>3. /\ Front(treeStack) \in Seq(TreeCalls) /\ Len(Front(treeStack)) = Len(treeStack) - 1
        /\ \A j \in 1..Len(treeStack) - 1 : Front(treeStack)[j] = treeStack[j]
    <2>1. PICK n \in Nat : n = Len(treeStack) - 1
      BY <1>1
    <2>2. /\ SubSeq(treeStack, 1, n) \in Seq(TreeCalls)
          /\ Len(SubSeq(treeStack, 1, n)) = IF 1 <= n THEN n - 1 + 1 ELSE 0
          /\ \A j \in 1..n - 1 + 1 : SubSeq(treeStack, 1, n)[j] = treeStack[1 + j - 1]
      <3>1. \A j \in 1..n : treeStack[j] \in TreeCalls
        BY <1>1, <1>2, <2>1
      <3> QED
        BY <2>1, <3>1, SubSeqProperties
    <2> QED
      BY <1>1, <2>1, <2>2 DEF Front
  <1> QED
    BY <1>1, <1>2, <1>3 DEF TreeTop, Last

\* The innermost call goes on as f.
LEMMA GoesOn ==
  ASSUME TreeTypeOK, treeStack # <<>>, NEW f \in TreeCalls,
         treeStack' = Append(Front(treeStack), f)
  PROVE  /\ treeStack' \in Seq(TreeCalls) /\ treeStack' # <<>>
         /\ Len(treeStack') = Len(treeStack)
         /\ treeStack'[Len(treeStack)] = f /\ TreeTop' = f
         /\ \A j \in 1..Len(treeStack) - 1 : treeStack'[j] = treeStack[j]
  <1>1. /\ Len(treeStack) \in Nat \ {0}
        /\ Front(treeStack) \in Seq(TreeCalls) /\ Len(Front(treeStack)) = Len(treeStack) - 1
        /\ \A j \in 1..Len(treeStack) - 1 : Front(treeStack)[j] = treeStack[j]
    BY TreeTopIs
  <1>2. /\ treeStack' \in Seq(TreeCalls) /\ treeStack' # <<>>
        /\ Len(treeStack') = Len(treeStack) - 1 + 1
        /\ treeStack'[Len(treeStack) - 1 + 1] = f
        /\ \A j \in 1..Len(treeStack) - 1 : treeStack'[j] = treeStack[j]
    BY <1>1, AppendProperties
  <1>3. Len(treeStack) - 1 + 1 = Len(treeStack)
    BY <1>1
  <1> QED
    BY <1>2, <1>3 DEF TreeTop, Last

\* Each step leaves directories and files that are in directories.
LEMMA PathsAre ==
  ASSUME TreeTypeOK, treeStack # <<>>
  PROVE  /\ TreeTop.to \in TreePath /\ TreeTop.from \in TreePath
         /\ TreeTop.to \in Route /\ TreeTop.from \in Route
         /\ \A e \in TreeName : /\ Append(TreeTop.to, e) \in TreePath
                                /\ Append(TreeTop.from, e) \in TreePath
                                /\ TreeCall(Append(TreeTop.from, e), Append(TreeTop.to, e))
                                     \in TreeCalls
                                /\ Handled(e) \in TreeCalls
         /\ \A place \in {"target", "mkdir", "open", "list"} :
              [TreeTop EXCEPT !.at = place] \in TreeCalls
  <1>1. TreeTop \in TreeCalls
    BY TreeTopIs
  <1>2. TreeTop.to \in TreePath /\ TreeTop.from \in TreePath
    BY <1>1 DEF TreeCalls
  <1>3. TreeTop.to \in Route /\ TreeTop.from \in Route
    BY <1>2 DEF TreePath
  <1>4. ASSUME NEW e \in TreeName
        PROVE  Append(TreeTop.to, e) \in TreePath /\ Append(TreeTop.from, e) \in TreePath
    BY <1>3, PrefixOfAppend
  <1>5. ASSUME NEW e \in TreeName
        PROVE  TreeCall(Append(TreeTop.from, e), Append(TreeTop.to, e)) \in TreeCalls
    BY <1>4 DEF TreeCall, TreeCalls
  <1>6. ASSUME NEW e \in TreeName
        PROVE  Handled(e) \in TreeCalls
    BY <1>1 DEF Handled, TreeCalls
  <1>7. \A place \in {"target", "mkdir", "open", "list"} :
          [TreeTop EXCEPT !.at = place] \in TreeCalls
    BY <1>1 DEF TreeCalls
  <1> QED
    BY <1>2, <1>3, <1>4, <1>5, <1>6, <1>7

LEMMA RemovalOK ==
  ASSUME TreeTypeOK, FileSystem, NEW to \in TreePath, Without({to} \cup TreeBelow(to))
  PROVE  /\ treeDirs' \subseteq TreePath /\ DOMAIN treeFiles' \subseteq TreePath /\ FileSystem'
         /\ treeDirs' \subseteq treeDirs /\ DOMAIN treeFiles' \subseteq DOMAIN treeFiles
         /\ \A x \in treeDirs : IsPrefix(to, x) \/ x \in treeDirs'
         /\ \A x \in DOMAIN treeFiles :
              IsPrefix(to, x) \/ (x \in DOMAIN treeFiles' /\ treeFiles'[x] = treeFiles[x])
  <1> DEFINE set == {to} \cup TreeBelow(to)
  <1>1. /\ treeDirs' = treeDirs \ set
        /\ treeFiles' = [f \in DOMAIN treeFiles \ set |-> treeFiles[f]]
    BY DEF Without
  <1>2. /\ treeDirs \subseteq TreePath /\ DOMAIN treeFiles \subseteq TreePath
        /\ TreePath \subseteq Route
    BY DEF TreeTypeOK, TreePath
  <1>3. \A x \in treeDirs \cup DOMAIN treeFiles : x \in set <=> IsPrefix(to, x)
    BY <1>2, PrefixOrder DEF TreeBelow, IsStrictPrefix
  <1> HIDE DEF set
  <1>4. DOMAIN treeFiles' = DOMAIN treeFiles \ set
        /\ \A x \in DOMAIN treeFiles \ set : treeFiles'[x] = treeFiles[x]
    BY <1>1
  <1>5. ASSUME NEW q \in treeDirs' \cup DOMAIN treeFiles', NEW p \in TreePath,
               IsPrefix(p, q), p # q
        PROVE  p \in treeDirs'
    <2>1. q \in treeDirs \cup DOMAIN treeFiles /\ q \notin set
      BY <1>1, <1>4
    <2>2. p \in treeDirs
      BY <1>5, <2>1 DEF FileSystem
    <2>3. ~IsPrefix(to, p)
      BY <1>2, <1>3, <1>5, <2>1, PrefixOrder
    <2> QED
      BY <1>1, <1>3, <2>2, <2>3
  <1>6. FileSystem'
    BY <1>1, <1>4, <1>5 DEF FileSystem
  <1> QED
    BY <1>1, <1>2, <1>3, <1>4, <1>6

LEMMA MkdirOK ==
  ASSUME TreeTypeOK, FileSystem, NEW to \in TreePath,
         {SubSeq(to, 1, k) : k \in 1..Len(to)} \cap DOMAIN treeFiles = {},
         treeDirs' = treeDirs \cup {SubSeq(to, 1, k) : k \in 1..Len(to)},
         treeFiles' = treeFiles
  PROVE  /\ treeDirs' \subseteq TreePath /\ FileSystem' /\ to \in treeDirs'
         /\ \A x \in treeDirs' : x \in treeDirs \/ IsPrefix(x, to)
  <1>1. {SubSeq(to, 1, k) : k \in 1..Len(to)} = {p \in TreePath : IsPrefix(p, to)}
    BY AboveIs
  <1>2. to \in Route /\ TreePath \subseteq Route /\ treeDirs \subseteq TreePath
    BY DEF TreePath, TreeTypeOK
  <1>3. /\ treeDirs' = treeDirs \cup {p \in TreePath : IsPrefix(p, to)}
        /\ \A p \in TreePath : IsPrefix(p, to) => p \notin DOMAIN treeFiles
    BY <1>1
  <1>4. ASSUME NEW q \in treeDirs' \cup DOMAIN treeFiles', NEW p \in TreePath,
               IsPrefix(p, q), p # q
        PROVE  p \in treeDirs'
    BY <1>2, <1>3, <1>4, PrefixOrder DEF FileSystem
  <1>5. treeDirs' \cap DOMAIN treeFiles' = {}
    BY <1>3 DEF FileSystem
  <1>6. to \in treeDirs'
    BY <1>2, <1>3, PrefixOrder
  <1> QED
    BY <1>2, <1>3, <1>4, <1>5, <1>6 DEF FileSystem

LEMMA RemoveFileOK ==
  ASSUME TreeTypeOK, FileSystem, NEW obj \in TreePath, TreeBelow(obj) = {}, Without({obj})
  PROVE  treeDirs' \subseteq TreePath /\ DOMAIN treeFiles' \subseteq TreePath /\ FileSystem'
  <1>1. {obj} = {obj} \cup TreeBelow(obj)
    OBVIOUS
  <1> QED
    BY <1>1, RemovalOK

LEMMA PutFileOK ==
  ASSUME TreeTypeOK, FileSystem, NEW to \in treeDirs, NEW e \in TreeName, NEW content,
         TreeBelow(Append(to, e)) = {},
         treeDirs' = treeDirs \ {Append(to, e)},
         treeFiles' = [f \in DOMAIN treeFiles \cup {Append(to, e)} |->
                         IF f = Append(to, e) THEN content ELSE treeFiles[f]]
  PROVE  /\ treeDirs' \subseteq TreePath /\ DOMAIN treeFiles' \subseteq TreePath /\ FileSystem'
  <1> DEFINE obj == Append(to, e)
  <1>1. /\ to \in TreePath /\ to \in Route /\ TreePath \subseteq Route
        /\ treeDirs \subseteq TreePath /\ DOMAIN treeFiles \subseteq TreePath
    BY DEF TreeTypeOK, TreePath
  <1>2. /\ obj \in TreePath /\ Len(obj) = Len(to) + 1 /\ Len(to) \in Nat
        /\ IsPrefix(to, obj)
    BY <1>1, PrefixOfAppend DEF Route
  <1>3. \A q \in treeDirs \cup DOMAIN treeFiles : IsPrefix(obj, q) => q = obj
    BY DEF TreeBelow, IsStrictPrefix
  <1>4. treeDirs' = treeDirs \ {obj} /\ DOMAIN treeFiles' = DOMAIN treeFiles \cup {obj}
    OBVIOUS
  <1> HIDE DEF obj
  <1>5. ASSUME NEW q \in treeDirs' \cup DOMAIN treeFiles', NEW p \in TreePath,
               IsPrefix(p, q), p # q
        PROVE  p \in treeDirs'
    <2>1. CASE q = obj
      <3>1. Len(p) \in Nat /\ Len(p) <= Len(obj) /\ Len(p) # Len(obj)
        BY <1>1, <1>2, <1>5, <2>1, PrefixOrder DEF Route
      <3>2. Len(p) <= Len(to)
        BY <1>2, <3>1
      <3>3. IsPrefix(p, to)
        BY <1>1, <1>2, <1>5, <2>1, <3>2, PrefixOrder
      <3>4. p \in treeDirs
        BY <3>3 DEF FileSystem
      <3> QED
        BY <1>4, <1>5, <2>1, <3>4
    <2>2. CASE q # obj
      BY <1>3, <1>4, <1>5, <2>2 DEF FileSystem
    <2> QED
      BY <2>1, <2>2
  <1>6. treeDirs' \cap DOMAIN treeFiles' = {}
    BY <1>4 DEF FileSystem
  <1> QED
    BY <1>1, <1>2, <1>4, <1>5, <1>6 DEF FileSystem

TreeBase == TreeTypeOK /\ FileSystem /\ AsBefore

LEMMA ReturnOK ==
  ASSUME TreeTypeOK, outcome = "none", TreeReturn
  PROVE  /\ treeStack' \in Seq(TreeCalls) /\ (treeStack' # <<>> <=> outcome' = "none")
         /\ outcome' # "idle"
  <1>1. treeStack # <<>>
    BY DEF TreeTypeOK
  <1>2. /\ Len(treeStack) \in Nat \ {0}
        /\ Front(treeStack) \in Seq(TreeCalls) /\ Len(Front(treeStack)) = Len(treeStack) - 1
    BY <1>1, TreeTopIs
  <1>3. Front(treeStack) # <<>> <=> Len(treeStack) # 1
    <2>1. Front(treeStack) # <<>> <=> Len(Front(treeStack)) # 0
      BY <1>2, EmptySeq
    <2> QED
      BY <1>2, <2>1
  <1> QED
    BY <1>2, <1>3 DEF TreeReturn

LEMMA ThrowOK ==
  ASSUME NEW why, why \notin {"none", "idle", "done"}, Throw(why)
  PROVE  /\ treeStack' \in Seq(TreeCalls) /\ (treeStack' # <<>> <=> outcome' = "none")
         /\ outcome' # "idle" /\ outcome' # "done" /\ treeStack' = <<>>
  BY EmptySeq DEF Throw

LEMMA TreeBaseInit == TreeInit => TreeBase
  <1> SUFFICES ASSUME TreeInit PROVE TreeBase
    OBVIOUS
  <1>1. TreeTypeOK
    <2>1. treeLayout.dirs \subseteq TreePath /\ treeLayout.files \subseteq TreePath
      BY CopyTreeAssumption DEF TreeInit, TreePath, Route
    <2> QED
      BY <2>1, EmptySeq DEF TreeInit, TreeTypeOK
  <1>2. FileSystem
    BY <1>1, LayoutIs DEF FileSystem, TreeInit, TreeBefore
  <1> QED
    BY <1>1, <1>2 DEF TreeBase, AsBefore, TreeInit

LEMMA TreeBaseNext == TreeBase /\ [TreeNext]_treeVars => TreeBase'
  <1> SUFFICES ASSUME TreeBase, [TreeNext]_treeVars PROVE TreeBase'
    OBVIOUS
  <1>t. TreeTypeOK /\ FileSystem /\ AsBefore
    BY DEF TreeBase
  <1>s. outcome = "none" => treeStack # <<>>
    BY <1>t DEF TreeTypeOK
  \* It is enough to look at what changes.
  <1>e. ASSUME /\ treeLayout' = treeLayout /\ flags' = flags /\ outcome' # "idle"
               /\ treeStack' \in Seq(TreeCalls) /\ (treeStack' # <<>> <=> outcome' = "none"),
               /\ treeDirs' \subseteq TreePath /\ DOMAIN treeFiles' \subseteq TreePath
               /\ FileSystem' /\ (failed' # failed => failed' \subseteq TreePath)
        PROVE  TreeBase'
    BY <1>t, <1>e DEF TreeBase, TreeTypeOK, AsBefore
  <1>f. ASSUME treeDirs' = treeDirs, treeFiles' = treeFiles
        PROVE  /\ treeDirs' \subseteq TreePath /\ DOMAIN treeFiles' \subseteq TreePath
               /\ FileSystem'
    BY <1>t, <1>f DEF TreeTypeOK, FileSystem
  <1>g. ASSUME NEW f \in TreeCalls, treeStack' = Append(Front(treeStack), f), outcome' = "none",
               treeStack # <<>>
        PROVE  treeStack' \in Seq(TreeCalls) /\ (treeStack' # <<>> <=> outcome' = "none")
    BY <1>t, <1>g, GoesOn
  <1>1. CASE UNCHANGED treeVars
    BY <1>t, <1>1 DEF treeVars, TreeBase, TreeTypeOK, FileSystem, AsBefore, There
  <1>2. CASE CopyDir
    <2>1. TreeCall(treeLayout.from, treeLayout.to) \in TreeCalls
      BY <1>t, LayoutIs DEF TreeCall, TreeCalls
    <2>2. /\ <<TreeCall(treeLayout.from, treeLayout.to)>> \in Seq(TreeCalls)
          /\ <<TreeCall(treeLayout.from, treeLayout.to)>> # <<>>
      BY <2>1
    <2> QED
      BY <1>2, <1>e, <1>f, <2>2 DEF CopyDir
  <1>3. CASE KeepTarget
    BY <1>3, <1>t, <1>e, <1>f, ReturnOK DEF KeepTarget, At
  <1>4. CASE RemoveTarget
    <2>1. [TreeTop EXCEPT !.at = "mkdir"] \in TreeCalls /\ TreeTop.to \in TreePath
      BY <1>4, <1>t, <1>s, PathsAre DEF RemoveTarget, At
    <2> QED
      BY <1>4, <1>t, <1>e, <1>g, <2>1, RemovalOK DEF RemoveTarget, At, Go
  <1>5. CASE TargetExists
    BY <1>5, <1>e, <1>f, ThrowOK DEF TargetExists
  <1>6. CASE UseTarget
    <2>1. [TreeTop EXCEPT !.at = "mkdir"] \in TreeCalls
      BY <1>6, <1>t, <1>s, PathsAre DEF UseTarget, At
    <2> QED
      BY <1>6, <1>e, <1>f, <1>g, <2>1 DEF UseTarget, At, Go
  <1>7. CASE TreeMkdir
    <2>1. [TreeTop EXCEPT !.at = "open"] \in TreeCalls /\ TreeTop.to \in TreePath
      BY <1>7, <1>t, <1>s, PathsAre DEF TreeMkdir, At
    <2>2. /\ treeLayout' = treeLayout /\ flags' = flags /\ treeFiles' = treeFiles
          /\ outcome = "none" /\ treeStack # <<>> /\ failed' = failed
      BY <1>7 DEF TreeMkdir, At
    <2>3. CASE Throw("name too long") /\ treeDirs' = treeDirs
      BY <1>e, <1>f, <2>2, <2>3, ThrowOK
    <2>4. CASE Throw("no directory") /\ treeDirs' = treeDirs
      BY <1>e, <1>f, <2>2, <2>4, ThrowOK
    <2>5. CASE Go("open") /\ treeDirs' = treeDirs /\ outcome' = outcome
      BY <1>e, <1>f, <1>g, <2>1, <2>2, <2>5 DEF Go
    <2>6. CASE LET above == {SubSeq(TreeTop.to, 1, k) : k \in 1..Len(TreeTop.to)} IN
                 /\ above \cap DOMAIN treeFiles = {} /\ treeDirs' = treeDirs \cup above
                 /\ Go("open") /\ outcome' = outcome
      <3>1. treeDirs' \subseteq TreePath /\ FileSystem'
        BY <1>t, <2>1, <2>2, <2>6, MkdirOK
      <3>2. DOMAIN treeFiles' \subseteq TreePath
        BY <1>t, <2>2 DEF TreeTypeOK
      <3> QED
        BY <1>e, <1>g, <2>1, <2>2, <2>6, <3>1, <3>2 DEF Go
    <2> QED
      BY <1>7, <2>3, <2>4, <2>5, <2>6 DEF TreeMkdir
  <1>8. CASE TreeOpen
    <2> DEFINE f == [TreeTop EXCEPT !.at = "list",
                       !.must = IF TreeTop.from \in treeDirs THEN TreeEntries(TreeTop.from) ELSE {}]
    <2>1. TreeEntries(TreeTop.from) \subseteq TreeName
      <3> SUFFICES ASSUME NEW q \in treeDirs \cup DOMAIN treeFiles PROVE Last(q) \in TreeName
        BY DEF TreeEntries, TreeBelow
      <3>1. q \in Seq(TreeName) /\ q # <<>>
        BY <1>t DEF TreeTypeOK, TreePath, Route
      <3>2. Len(q) \in 1..Len(q)
        BY <3>1, EmptySeq
      <3> QED
        BY <3>1, <3>2, ElementOfSeq DEF Last
    <2>2. TreeTop \in TreeCalls
      BY <1>8, <1>t, TreeTopIs DEF TreeOpen, At
    <2>3. f \in TreeCalls
      BY <2>1, <2>2 DEF TreeCalls
    <2>4. treeStack' = Append(Front(treeStack), f)
      BY <1>8 DEF TreeOpen
    <2> HIDE DEF f
    <2> QED
      BY <1>8, <1>e, <1>f, <1>g, <2>3, <2>4 DEF TreeOpen, At
  <1>9. CASE TreeClose
    BY <1>9, <1>t, <1>e, <1>f, ReturnOK DEF TreeClose, At
  <1>10. ASSUME NEW e \in TreeName, TreeEnter(e)
         PROVE  TreeBase'
    <2>1. /\ Handled(e) \in TreeCalls
          /\ TreeCall(Append(TreeTop.from, e), Append(TreeTop.to, e)) \in TreeCalls
      BY <1>10, <1>t, <1>s, PathsAre DEF TreeEnter, At
    <2>2. Front(treeStack) \in Seq(TreeCalls)
      BY <1>10, <1>t, TreeTopIs DEF TreeEnter, At
    <2>3. Append(Front(treeStack), Handled(e)) \in Seq(TreeCalls)
      BY <2>1, <2>2
    <2>4. treeStack' \in Seq(TreeCalls) /\ treeStack' # <<>>
      BY <1>10, <2>1, <2>3, AppendProperties DEF TreeEnter
    <2> QED
      BY <1>10, <1>e, <1>f, <2>4 DEF TreeEnter, At
  <1>11. ASSUME NEW e \in TreeName, CopyFile(e)
         PROVE  TreeBase'
    <2> DEFINE src == Append(TreeTop.from, e)
               obj == Append(TreeTop.to, e)
    <2>1. obj \in TreePath /\ Handled(e) \in TreeCalls /\ TreeTop.to \in TreePath
      BY <1>11, <1>t, <1>s, PathsAre DEF CopyFile, At
    <2>2. treeLayout' = treeLayout /\ flags' = flags /\ outcome = "none" /\ treeStack # <<>>
      BY <1>11 DEF CopyFile, At
    <2>3. CASE /\ treeStack' = Append(Front(treeStack), Handled(e))
               /\ UNCHANGED <<treeDirs, treeFiles, outcome, failed>>
      BY <1>e, <1>f, <1>g, <2>1, <2>2, <2>3
    <2>4. CASE Throw("file exists") /\ UNCHANGED <<treeDirs, treeFiles, failed>>
      BY <1>e, <1>f, <2>2, <2>4, ThrowOK
    <2>5. CASE Throw("not empty") /\ UNCHANGED <<treeDirs, treeFiles, failed>>
      BY <1>e, <1>f, <2>2, <2>5, ThrowOK
    <2>6. CASE TreeBelow(obj) = {} /\ Without({obj}) /\ Throw("no source") /\ failed' = failed
      BY <1>t, <1>e, <2>1, <2>2, <2>6, ThrowOK, RemoveFileOK
    <2>7. CASE TreeBelow(obj) = {} /\ Without({obj}) /\ Throw("no directory") /\ failed' = failed
      BY <1>t, <1>e, <2>1, <2>2, <2>7, ThrowOK, RemoveFileOK
    <2>8. ASSUME NEW content,
                 TreeBelow(obj) = {}, TreeTop.to \in treeDirs,
                 treeDirs' = treeDirs \ {obj},
                 treeFiles' = [f \in DOMAIN treeFiles \cup {obj} |->
                                 IF f = obj THEN content ELSE treeFiles[f]],
                 failed' \subseteq failed \cup {obj},
                 treeStack' = Append(Front(treeStack), Handled(e)), outcome' = outcome
          PROVE  TreeBase'
      <3>1. treeDirs' \subseteq TreePath /\ DOMAIN treeFiles' \subseteq TreePath /\ FileSystem'
        BY <1>t, <2>8, PutFileOK
      <3>2. failed' \subseteq TreePath
        BY <1>t, <2>1, <2>8 DEF TreeTypeOK
      <3> QED
        BY <1>e, <1>g, <2>1, <2>2, <2>8, <3>1, <3>2
    <2> HIDE DEF obj
    <2> QED
      BY <1>11, <2>3, <2>4, <2>5, <2>6, <2>7, <2>8 DEF CopyFile, obj
  <1>12. CASE ListEndsEarly
    <2>1. TreeTop.to \in TreePath
      BY <1>12, <1>t, <1>s, PathsAre DEF ListEndsEarly, At
    <2>2. failed' \subseteq TreePath
      BY <1>12, <1>t, <2>1 DEF ListEndsEarly, TreeTypeOK
    <2> QED
      BY <1>12, <1>t, <1>e, <1>f, <2>2, ReturnOK DEF ListEndsEarly, At
  <1>13. CASE TreeOpenFails
    BY <1>13, <1>e, <1>f, ThrowOK DEF TreeOpenFails
  <1>14. ASSUME NEW e \in TreeName, CopyFileFails(e)
         PROVE  TreeBase'
    <2> DEFINE obj == Append(TreeTop.to, e)
    <2>1. obj \in TreePath
      BY <1>14, <1>t, <1>s, PathsAre DEF CopyFileFails, At
    <2>2. treeLayout' = treeLayout /\ flags' = flags /\ failed' = failed /\ Throw("system error")
      BY <1>14 DEF CopyFileFails
    <2>3. CASE TreeBelow(obj) = {} /\ Without({obj})
      BY <1>t, <1>e, <2>1, <2>2, <2>3, ThrowOK, RemoveFileOK
    <2>4. CASE UNCHANGED <<treeDirs, treeFiles>>
      BY <1>e, <1>f, <2>2, <2>4, ThrowOK
    <2> QED
      BY <1>14, <2>3, <2>4 DEF CopyFileFails
  <1> QED
    BY <1>1, <1>2, <1>3, <1>4, <1>5, <1>6, <1>7, <1>8, <1>9, <1>10, <1>11, <1>12, <1>13, <1>14
       DEF TreeNext

\* A step that changes nothing but at a path and below it, and makes directories above it.
Around(to) ==
  /\ failed \subseteq failed'
  /\ \A x \in TreePath : ~IsPrefix(to, x) =>
       /\ x \in treeDirs => x \in treeDirs'
       /\ x \in treeDirs' => x \in treeDirs \/ IsPrefix(x, to)
       /\ x \in DOMAIN treeFiles <=> x \in DOMAIN treeFiles'
       /\ x \in DOMAIN treeFiles => treeFiles'[x] = treeFiles[x]

\* What has arrived stays so, unless it is changed.
LEMMA ArrivesKept ==
  ASSUME treeLayout' = treeLayout, failed \subseteq failed', NEW q, Arrives(q),
         Image(q) \in treeDirs => Image(q) \in treeDirs',
         Image(q) \in DOMAIN treeFiles =>
           Image(q) \in DOMAIN treeFiles' /\ treeFiles'[Image(q)] = treeFiles[Image(q)]
  PROVE  Arrives(q)'
  <1>1. Unlisted(q) => Unlisted(q)'
    BY DEF Unlisted, Image
  <1>2. IsCopied(q) => IsCopied(q)'
    BY DEF IsCopied, Image, Under, TreeBefore
  <1> QED
    BY <1>1, <1>2 DEF Arrives

LEMMA SourceKept ==
  ASSUME TreeTypeOK, Separate, SourceIsKept, treeLayout' = treeLayout,
         NEW path \in TreePath, IsPrefix(treeLayout.from, path), Around(Image(path))
  PROVE  SourceIsKept'
  <1>1. /\ treeLayout.from \in TreePath /\ treeLayout.to \in TreePath /\ TreePath \subseteq Route
        /\ path \in Route
    BY LayoutIs DEF TreePath
  <1>2. Image(path) \in TreePath /\ IsPrefix(treeLayout.to, Image(path))
    BY <1>1, ImageIs
  <1>3. ASSUME NEW q \in TreePath, IsPrefix(treeLayout.from, q)
        PROVE  ~IsPrefix(Image(path), q) /\ ~IsPrefix(q, Image(path))
    <2>1. q \in Route /\ Image(path) \in Route /\ treeLayout.to \in Route
      BY <1>1, <1>2
    <2>2. ~IsPrefix(treeLayout.to, q)
      BY <1>1, <1>3, <2>1, ImageIsApart
    <2>3. ~IsPrefix(q, Image(path))
      BY <1>1, <1>2, <1>3, <2>1, ImageIsApart
    <2> QED
      BY <1>2, <2>1, <2>2, <2>3, PrefixOrder
  <1>4. ASSUME NEW q \in TreePath, IsPrefix(treeLayout.from, q)
        PROVE  /\ q \in treeDirs' <=> q \in treeLayout.dirs
               /\ q \in DOMAIN treeFiles' <=> q \in treeLayout.files
               /\ q \in treeLayout.files => treeFiles'[q] = Holds(q, TRUE)
    BY <1>3, <1>4 DEF Around, SourceIsKept
  <1> QED
    BY <1>4 DEF SourceIsKept

LEMMA CopiedKept ==
  ASSUME TreeTypeOK, treeLayout' = treeLayout,
         NEW path \in TreePath, IsPrefix(treeLayout.from, path), Around(Image(path)),
         NEW q \in TreePath, IsPrefix(treeLayout.from, q), ~IsPrefix(path, q), Arrives(q)
  PROVE  Arrives(q)'
  <1>1. /\ treeLayout.from \in TreePath /\ treeLayout.to \in TreePath /\ q \in Route
        /\ path \in Route
    BY LayoutIs DEF TreePath
  <1>2. Image(q) \in TreePath /\ ~IsPrefix(Image(path), Image(q))
    BY <1>1, ImageIs, ImagePrefix
  <1> QED
    BY <1>2, ArrivesKept DEF Around

LEMMA OuterCallKept ==
  ASSUME TreeTypeOK, treeLayout' = treeLayout, flags' = flags,
         NEW path \in TreePath, IsPrefix(treeLayout.from, path), Around(Image(path)),
         NEW f \in TreeCalls, NEW j, OnTheWay(f, j, path), f.from # path, CallOK(f, path)
  PROVE  CallOK(f, path)'
  <1>1. /\ treeLayout.from \in TreePath /\ treeLayout.to \in TreePath /\ path \in Route
        /\ treeLayout.from \in Route /\ TreeBefore \subseteq TreePath /\ TreePath \subseteq Route
    BY LayoutIs DEF TreePath, TreeBefore
  <1>2. /\ f.from \in TreePath /\ f.from \in Route /\ f.done \subseteq TreeName
        /\ IsPrefix(treeLayout.from, f.from) /\ IsPrefix(f.from, path) /\ f.to = Image(f.from)
        /\ f.to \in TreePath
    BY DEF OnTheWay, TreeCalls, TreePath
  <1>3. /\ Len(f.from) < Len(path)
        /\ \A e \in TreeName : Len(Append(f.from, e)) = Len(f.from) + 1
        /\ Len(f.from) \in Nat /\ Len(path) \in Nat
    BY <1>1, <1>2, PrefixOrder, PrefixOfAppend DEF Route
  <1>4. ASSUME NEW e \in TreeName
        PROVE  /\ Append(f.from, e) \in TreePath /\ Append(f.from, e) \in Route
               /\ IsPrefix(treeLayout.from, Append(f.from, e))
               /\ Image(Append(f.from, e)) = Append(f.to, e)
    BY <1>1, <1>2, ImageOfEntry
  <1>5. DoneIsCopied(f, path)'
    <2> SUFFICES ASSUME NEW e \in f.done, ~IsPrefix(Append(f.from, e), path),
                        NEW q \in Under(Append(f.from, e))
                 PROVE  Arrives(q)'
      BY DEF DoneIsCopied, AllCopied, Under, TreeBefore
    <2>1. Arrives(q) /\ q \in TreePath /\ q \in Route /\ IsPrefix(Append(f.from, e), q)
      BY <1>1 DEF CallOK, DoneIsCopied, AllCopied, Under
    <2>2. IsPrefix(treeLayout.from, q)
      BY <1>1, <1>2, <1>4, <2>1, PrefixOrder
    <2>3. ~IsPrefix(path, q)
      BY <1>1, <1>2, <1>3, <2>1, OneWay
    <2> QED
      BY <2>1, <2>2, <2>3, CopiedKept
  <1>6. MustIsAll(f)'
    BY DEF CallOK, MustIsAll, TreeBefore
  <1>7. TargetIs(f)'
    <2>1. ~IsPrefix(Image(path), f.to)
      <3>1. ~IsPrefix(path, f.from)
        BY <1>1, <1>2, <1>3, PrefixOrder
      <3> QED
        BY <1>1, <1>2, <3>1, ImagePrefix
    <2> QED
      BY <1>2, <2>1 DEF CallOK, TargetIs, There, Around
  <1>8. TargetIsNew(f)'
    <2> SUFFICES ASSUME flags = "skip_existing", NEW e \in TreeName, e \notin f.done
                 PROVE  ~There(Append(f.to, e))'
      BY DEF TargetIsNew, OnTheWay
    <2>1. ~There(Append(f.to, e))
      BY DEF CallOK, TargetIsNew
    <2>2. ~IsPrefix(Append(f.from, e), path)
      BY DEF OnTheWay
    <2>3. ~IsPrefix(path, Append(f.from, e))
      <3> SUFFICES ASSUME IsPrefix(path, Append(f.from, e)) PROVE FALSE
        OBVIOUS
      <3>1. Len(path) <= Len(Append(f.from, e))
        BY <1>1, <1>4, PrefixOrder
      <3>2. Len(path) = Len(Append(f.from, e))
        BY <1>3, <3>1
      <3>3. path = Append(f.from, e)
        BY <1>1, <1>4, <3>2, PrefixOrder
      <3> QED
        BY <1>1, <2>2, <3>3, PrefixOrder
    <2>4. /\ ~IsPrefix(Append(f.to, e), Image(path)) /\ ~IsPrefix(Image(path), Append(f.to, e))
          /\ Append(f.to, e) \in TreePath
      <3> DEFINE a == Append(f.from, e)
      <3>1. a \in Route /\ IsPrefix(treeLayout.from, a) /\ ~IsPrefix(a, path) /\ ~IsPrefix(path, a)
            /\ Image(a) = Append(f.to, e)
        BY <1>4, <2>2, <2>3
      <3> HIDE DEF a
      <3>2. Image(a) \in TreePath
        BY <1>1, <3>1, ImageIs
      <3>3. ~IsPrefix(Image(a), Image(path)) /\ ~IsPrefix(Image(path), Image(a))
        BY <1>1, <3>1, ImagePrefix
      <3> QED
        BY <3>1, <3>2, <3>3
    <2> QED
      BY <2>1, <2>4 DEF Around, There
  <1> QED
    BY <1>5, <1>6, <1>7, <1>8 DEF CallOK

\* What is said of the calls in the next state.
LEMMA CallsNow ==
  ASSUME \A j \in 1..Len(treeStack') : \E f, path :
           /\ f = treeStack'[j] /\ path = TreeTop'.from
           /\ OnTheWay(f, j, path)' /\ CallOK(f, path)'
  PROVE  CallsAre'
  <1> SUFFICES ASSUME NEW j \in 1..Len(treeStack')
               PROVE  /\ OnTheWay(treeStack[j], j, TreeTop.from)'
                      /\ CallOK(treeStack[j], TreeTop.from)'
    BY DEF CallsAre
  <1>1. PICK f, path : /\ f = treeStack'[j] /\ path = TreeTop'.from
                       /\ OnTheWay(f, j, path)' /\ CallOK(f, path)'
    OBVIOUS
  <1>2. OnTheWay(treeStack[j], j, TreeTop.from)'
    BY <1>1 DEF OnTheWay
  <1>3. CallOK(treeStack[j], TreeTop.from)'
    BY <1>1 DEF CallOK, DoneIsCopied, MustIsAll, TargetIs, TargetIsNew
  <1> QED
    BY <1>2, <1>3

LEMMA Innermost ==
  ASSUME TreeTypeOK, CallsAre, treeStack # <<>>
  PROVE  /\ TreeTop.from \in TreePath /\ TreeTop.from \in Route /\ TreeTop \in TreeCalls
         /\ IsPrefix(treeLayout.from, TreeTop.from) /\ TreeTop.to = Image(TreeTop.from)
         /\ TreeTop.to \in TreePath /\ TreeTop.to \in Route
         /\ IsPrefix(treeLayout.to, TreeTop.to)
         /\ Len(TreeTop.from) = Len(treeLayout.from) + Len(treeStack) - 1
         /\ OnTheWay(TreeTop, Len(treeStack), TreeTop.from) /\ CallOK(TreeTop, TreeTop.from)
         /\ TreeTop.at # "list" => TreeTop.done = {}
         /\ \A j \in 1..Len(treeStack) - 1 :
              /\ treeStack[j].from # TreeTop.from
              /\ treeStack[j].from \in TreePath /\ treeStack[j].from \in Route
              /\ IsPrefix(treeStack[j].from, TreeTop.from)
              /\ IsPrefix(treeLayout.from, treeStack[j].from)
              /\ Len(treeStack[j].from) = Len(treeLayout.from) + j - 1
  <1>1. /\ Len(treeStack) \in Nat \ {0} /\ TreeTop \in TreeCalls
        /\ TreeTop = treeStack[Len(treeStack)]
        /\ \A j \in 1..Len(treeStack) : treeStack[j] \in TreeCalls
    BY TreeTopIs
  <1>2. /\ TreeTop.from \in TreePath /\ TreeTop.from \in Route
        /\ treeLayout.from \in TreePath /\ treeLayout.to \in TreePath
        /\ treeLayout.from \in Route /\ Len(treeLayout.from) \in Nat
    BY <1>1, LayoutIs DEF TreeCalls, TreePath, Route
  <1>3. OnTheWay(TreeTop, Len(treeStack), TreeTop.from) /\ CallOK(TreeTop, TreeTop.from)
    BY <1>1 DEF CallsAre
  <1>4. /\ IsPrefix(treeLayout.from, TreeTop.from) /\ TreeTop.to = Image(TreeTop.from)
        /\ Len(TreeTop.from) = Len(treeLayout.from) + Len(treeStack) - 1
        /\ TreeTop.at # "list" => TreeTop.done = {}
    BY <1>3 DEF OnTheWay
  <1>5. /\ TreeTop.to \in TreePath /\ TreeTop.to \in Route
        /\ IsPrefix(treeLayout.to, TreeTop.to)
    BY <1>2, <1>4, ImageIs DEF TreePath
  <1>6. ASSUME NEW j \in 1..Len(treeStack) - 1
        PROVE  /\ treeStack[j].from # TreeTop.from
               /\ treeStack[j].from \in TreePath /\ treeStack[j].from \in Route
               /\ IsPrefix(treeStack[j].from, TreeTop.from)
               /\ IsPrefix(treeLayout.from, treeStack[j].from)
               /\ Len(treeStack[j].from) = Len(treeLayout.from) + j - 1
    <2>1. treeStack[j] \in TreeCalls /\ j \in 1..Len(treeStack)
      BY <1>1
    <2>2. /\ IsPrefix(treeStack[j].from, TreeTop.from)
          /\ IsPrefix(treeLayout.from, treeStack[j].from)
          /\ Len(treeStack[j].from) = Len(treeLayout.from) + j - 1
      BY <2>1 DEF CallsAre, OnTheWay
    <2>3. treeStack[j].from \in TreePath /\ treeStack[j].from \in Route
      BY <2>1 DEF TreeCalls, TreePath
    <2>4. Len(treeStack[j].from) # Len(TreeTop.from)
      BY <1>1, <1>2, <1>4, <2>2
    <2> QED
      BY <2>2, <2>3, <2>4
  <1> QED
    BY <1>1, <1>2, <1>3, <1>4, <1>5, <1>6

\* The innermost call goes on, and changes nothing but at its target.
LEMMA SameCall ==
  ASSUME TreeTypeOK, Separate, SourceIsKept, CallsAre, treeStack # <<>>,
         treeLayout' = treeLayout, flags' = flags, Around(TreeTop.to),
         NEW g \in TreeCalls, treeStack' = Append(Front(treeStack), g),
         g.from = TreeTop.from, g.to = TreeTop.to, g.at # "list" => g.done = {},
         CallOK(g, g.from)'
  PROVE  SourceIsKept' /\ CallsAre'
  <1>1. PICK path \in TreePath : path = TreeTop.from
    BY Innermost
  <1>2. /\ path \in Route /\ IsPrefix(treeLayout.from, path) /\ TreeTop.to = Image(path)
        /\ Around(Image(path)) /\ Len(treeStack) \in Nat \ {0}
    BY <1>1, Innermost, TreeTopIs
  <1>3. SourceIsKept'
    BY <1>1, <1>2, SourceKept
  <1>4. /\ Len(treeStack') = Len(treeStack) /\ treeStack'[Len(treeStack)] = g /\ TreeTop' = g
        /\ \A j \in 1..Len(treeStack) - 1 : treeStack'[j] = treeStack[j]
    BY GoesOn
  <1>5. ASSUME NEW j \in 1..Len(treeStack) - 1
        PROVE  \E f, p : /\ f = treeStack'[j] /\ p = TreeTop'.from
                         /\ OnTheWay(f, j, p)' /\ CallOK(f, p)'
    <2>1. PICK f \in TreeCalls : f = treeStack[j]
      BY <1>2, TreeTopIs
    <2>2. OnTheWay(f, j, path) /\ CallOK(f, path) /\ f.from # path
      BY <1>1, <2>1, Innermost DEF CallsAre
    <2>3. OnTheWay(f, j, path)'
      BY <2>2 DEF OnTheWay, Image
    <2>4. CallOK(f, path)'
      BY <1>1, <1>2, <2>2, OuterCallKept
    <2> QED
      BY <1>1, <1>4, <2>1, <2>3, <2>4
  <1>6. /\ OnTheWay(TreeTop, Len(treeStack), path)
    BY <1>1, Innermost
  <1>7. ASSUME NEW e \in TreeName
        PROVE  ~IsPrefix(Append(path, e), path)
    BY <1>2, OneWay, PrefixOrder
  <1>8. ASSUME NEW n \in Nat, n = Len(treeStack)
        PROVE  OnTheWay(g, n, path)'
    BY <1>1, <1>6, <1>7, <1>8 DEF OnTheWay, Image
  <1>9. \A j \in 1..Len(treeStack') : \E f, p :
           /\ f = treeStack'[j] /\ p = TreeTop'.from
           /\ OnTheWay(f, j, p)' /\ CallOK(f, p)'
    <2> SUFFICES ASSUME NEW j \in 1..Len(treeStack), j \notin 1..Len(treeStack) - 1
                 PROVE  \E f, p : /\ f = treeStack'[j] /\ p = TreeTop'.from
                                  /\ OnTheWay(f, j, p)' /\ CallOK(f, p)'
      BY <1>4, <1>5
    <2>1. j = Len(treeStack) /\ j \in Nat
      BY <1>2
    <2> QED
      BY <1>1, <1>4, <1>8, <2>1
  <1> QED
    BY <1>3, <1>9, CallsNow

LEMMA AroundSame ==
  \A to : treeDirs' = treeDirs /\ treeFiles' = treeFiles /\ failed' = failed => Around(to)
  BY DEF Around

\* An error ends all calls.
LEMMA CallsEnd == treeStack' = <<>> => CallsAre'
  <1> SUFFICES ASSUME treeStack' = <<>> PROVE CallsAre'
    OBVIOUS
  <1>1. Len(treeStack') = 0
    BY EmptySeq
  <1>2. 1..Len(treeStack') = {}
    BY <1>1
  <1> QED
    BY <1>2 DEF CallsAre

LEMMA SameSource ==
  ASSUME SourceIsKept, treeLayout' = treeLayout, treeDirs' = treeDirs, treeFiles' = treeFiles
  PROVE  SourceIsKept'
  BY DEF SourceIsKept

\* No new file, when none is written.
LEMMA NoFileIsNew ==
  ASSUME NoNewFile, treeLayout' = treeLayout, DOMAIN treeFiles' \subseteq DOMAIN treeFiles
  PROVE  NoNewFile'
  BY DEF NoNewFile, Under, TreeBefore, Image

CopyOK == SourceIsKept /\ NoNewFile /\ CallsAre

LEMMA EntryOnTheWay ==
  ASSUME NEW p \in Route, NEW q \in Route, IsPrefix(p, q), p # q
  PROVE  \E e \in TreeName : IsPrefix(Append(p, e), q)
  <1>1. Len(p) \in Nat /\ Len(q) \in Nat /\ Len(p) < Len(q)
    BY PrefixOrder DEF Route
  <1>2. Len(p) + 1 \in 1..Len(q)
    BY <1>1
  <1>3. q[Len(p) + 1] \in TreeName
    BY <1>2, ElementOfSeq DEF Route
  <1> QED
    BY <1>1, <1>3, PrefixOfAppend

LEMMA CopyDirOK ==
  ASSUME TreeBase, Copies, SourceIsKept, NoNewFile, CopyDir
  PROVE  CopyOK'
  <1> DEFINE new == TreeCall(treeLayout.from, treeLayout.to)
  <1>1. /\ treeLayout.from \in TreePath /\ treeLayout.to \in TreePath
        /\ treeLayout.from \in Route /\ treeLayout.to \in Route
        /\ Len(treeLayout.from) \in Nat
    BY LayoutIs DEF TreeBase, TreePath, Route
  <1>2. /\ treeStack' = <<new>> /\ treeDirs' = treeDirs /\ treeFiles' = treeFiles
        /\ treeLayout' = treeLayout /\ flags' = flags /\ outcome = "idle"
    BY DEF CopyDir
  <1>3. PICK f : f = new
    OBVIOUS
  <1>4. /\ f.from = treeLayout.from /\ f.to = treeLayout.to /\ f.at = "target" /\ f.done = {}
    BY <1>3 DEF TreeCall
  <1>5. Len(treeStack') = 1 /\ treeStack'[1] = f /\ TreeTop' = f
    BY <1>2, <1>3 DEF TreeTop, Last
  <1>6. Image(treeLayout.from) = treeLayout.to
    <2>1. IsPrefix(treeLayout.from, treeLayout.from)
      BY <1>1, PrefixOrder
    <2>2. /\ Image(treeLayout.from) \in Route /\ IsPrefix(treeLayout.to, Image(treeLayout.from))
          /\ Len(Image(treeLayout.from))
               = Len(treeLayout.to) + Len(treeLayout.from) - Len(treeLayout.from)
      BY <1>1, <2>1, ImageIs DEF TreePath
    <2>3. Len(Image(treeLayout.from)) = Len(treeLayout.to)
      BY <1>1, <2>2 DEF Route
    <2> QED
      BY <1>1, <2>2, <2>3, PrefixOrder
  <1>7. OnTheWay(f, 1, f.from)'
    <2>1. IsPrefix(f.from, f.from)
      BY <1>1, <1>4, PrefixOrder
    <2>2. \A e \in TreeName : ~IsPrefix(Append(f.from, e), f.from)
      BY <1>1, <1>4, <2>1, OneWay
    <2>3. Len(f.from) = Len(treeLayout.from) + 1 - 1
      BY <1>1, <1>4
    <2>4. Image(f.from)' = f.to
      BY <1>2, <1>4, <1>6 DEF Image
    <2> QED
      BY <1>2, <1>4, <2>1, <2>2, <2>3, <2>4 DEF OnTheWay
  <1>8. TargetIsNew(f)'
    <2> SUFFICES ASSUME flags = "skip_existing"
                 PROVE  ~There(f.to)' /\ \A e \in TreeName : ~There(Append(f.to, e))'
      BY <1>2 DEF TargetIsNew
    <2>1. f.to \notin TreeBefore
      BY <1>4 DEF Copies
    <2>2. treeDirs = treeLayout.dirs /\ DOMAIN treeFiles = treeLayout.files
      BY <1>2 DEF TreeBase, AsBefore
    <2>3. ASSUME NEW e \in TreeName PROVE Append(f.to, e) \notin TreeBefore
      <3>1. IsPrefix(f.to, Append(f.to, e)) /\ f.to # Append(f.to, e)
        BY <1>1, <1>4, PrefixOfAppend DEF Route
      <3> QED
        BY <1>1, <1>4, <2>1, <3>1, LayoutIs DEF TreeBase, TreeBefore
    <2> QED
      BY <1>2, <2>1, <2>2, <2>3 DEF There, TreeBefore
  <1>9. CallOK(f, f.from)'
    BY <1>4, <1>8 DEF CallOK, DoneIsCopied, MustIsAll, TargetIs
  <1>10. CallsAre'
    BY <1>5, <1>7, <1>9, CallsNow
  <1> QED
    BY <1>2, <1>10, SameSource, NoFileIsNew DEF CopyOK

LEMMA KeepTargetNot ==
  ASSUME TreeBase, CopyOK, KeepTarget
  PROVE  FALSE
  <1>1. CallOK(TreeTop, TreeTop.from)
    BY Innermost DEF CopyOK, TreeBase, KeepTarget, At
  <1> QED
    BY <1>1 DEF KeepTarget, At, CallOK, TargetIsNew

LEMMA RemoveTargetOK ==
  ASSUME TreeBase, Copies, CopyOK, RemoveTarget
  PROVE  CopyOK'
  <1>1. /\ TreeTypeOK /\ FileSystem /\ treeStack # <<>> /\ TreeTop.at = "target"
        /\ treeLayout' = treeLayout /\ flags' = flags /\ failed' = failed
        /\ flags = "overwrite_existing"
        /\ SourceIsKept /\ NoNewFile /\ CallsAre /\ Separate
    BY DEF RemoveTarget, At, TreeBase, CopyOK, Copies
  <1>2. TreeTop.to \in TreePath /\ TreeTop.done = {} /\ TreeTop \in TreeCalls
    BY <1>1, Innermost
  <1>3. PICK g \in TreeCalls : g = [TreeTop EXCEPT !.at = "mkdir"]
    BY <1>1, PathsAre
  <1>4. /\ treeStack' = Append(Front(treeStack), g) /\ g.at = "mkdir" /\ g.done = {}
        /\ g.from = TreeTop.from /\ g.to = TreeTop.to
    BY <1>2, <1>3 DEF RemoveTarget, Go, TreeCalls
  <1>5. Around(TreeTop.to) /\ DOMAIN treeFiles' \subseteq DOMAIN treeFiles
    BY <1>1, <1>2, RemovalOK DEF RemoveTarget, Around
  <1>6. CallOK(g, g.from)'
    BY <1>1, <1>4 DEF CallOK, DoneIsCopied, MustIsAll, TargetIs, TargetIsNew
  <1> QED
    BY <1>1, <1>4, <1>5, <1>6, SameCall, NoFileIsNew DEF CopyOK

LEMMA UseTargetOK ==
  ASSUME TreeBase, Copies, CopyOK, UseTarget
  PROVE  CopyOK'
  <1>1. /\ TreeTypeOK /\ FileSystem /\ treeStack # <<>> /\ TreeTop.at = "target"
        /\ treeLayout' = treeLayout /\ flags' = flags /\ failed' = failed
        /\ treeDirs' = treeDirs /\ treeFiles' = treeFiles
        /\ SourceIsKept /\ NoNewFile /\ CallsAre /\ Separate
    BY DEF UseTarget, At, TreeBase, CopyOK, Copies
  <1>2. /\ TreeTop.to \in TreePath /\ TreeTop.done = {} /\ TreeTop \in TreeCalls
        /\ CallOK(TreeTop, TreeTop.from)
    BY <1>1, Innermost
  <1>3. PICK g \in TreeCalls : g = [TreeTop EXCEPT !.at = "mkdir"]
    BY <1>1, PathsAre
  <1>4. /\ treeStack' = Append(Front(treeStack), g) /\ g.at = "mkdir" /\ g.done = {}
        /\ g.from = TreeTop.from /\ g.to = TreeTop.to
    BY <1>2, <1>3 DEF UseTarget, Go, TreeCalls
  <1>5. Around(TreeTop.to)
    BY <1>1, AroundSame
  <1>6. TargetIsNew(g)'
    BY <1>1, <1>2, <1>4 DEF CallOK, TargetIsNew, There
  <1>7. CallOK(g, g.from)'
    BY <1>4, <1>6 DEF CallOK, DoneIsCopied, MustIsAll, TargetIs
  <1> QED
    BY <1>1, <1>4, <1>5, <1>7, SameCall, NoFileIsNew DEF CopyOK

LEMMA TreeMkdirOK ==
  ASSUME TreeBase, Copies, CopyOK, TreeMkdir
  PROVE  CopyOK'
  <1>1. /\ TreeTypeOK /\ FileSystem /\ treeStack # <<>> /\ TreeTop.at = "mkdir"
        /\ treeLayout' = treeLayout /\ flags' = flags /\ failed' = failed /\ treeFiles' = treeFiles
        /\ SourceIsKept /\ NoNewFile /\ CallsAre /\ Separate
    BY DEF TreeMkdir, At, TreeBase, CopyOK, Copies
  <1>2. /\ TreeTop.to \in TreePath /\ TreeTop.to \in Route /\ TreeTop.done = {}
        /\ TreeTop \in TreeCalls /\ CallOK(TreeTop, TreeTop.from)
    BY <1>1, Innermost
  <1>3. NoNewFile'
    BY <1>1, NoFileIsNew
  <1>4. ASSUME NEW why, Throw(why), treeDirs' = treeDirs
        PROVE  CopyOK'
    BY <1>1, <1>3, <1>4, CallsEnd, SameSource DEF Throw, CopyOK
  <1>5. ASSUME Go("open"),
               \A x \in treeDirs : x \in treeDirs',
               \A x \in treeDirs' : x \in treeDirs \/ IsPrefix(x, TreeTop.to),
               TreeTop.to \in treeDirs' \cup DOMAIN treeFiles'
        PROVE  CopyOK'
    <2>1. PICK g \in TreeCalls : g = [TreeTop EXCEPT !.at = "open"]
      BY <1>1, PathsAre
    <2>2. /\ treeStack' = Append(Front(treeStack), g) /\ g.at = "open" /\ g.done = {}
          /\ g.from = TreeTop.from /\ g.to = TreeTop.to
      BY <1>2, <1>5, <2>1 DEF Go, TreeCalls
    <2>3. Around(TreeTop.to)
      BY <1>1, <1>5 DEF Around
    <2>4. TargetIsNew(g)'
      <3> SUFFICES ASSUME flags = "skip_existing", NEW e \in TreeName
                   PROVE  ~There(Append(g.to, e))'
        BY <1>1, <2>2 DEF TargetIsNew
      <3>1. ~There(Append(g.to, e))
        BY <1>2, <2>2 DEF CallOK, TargetIsNew
      <3>2. ~IsPrefix(Append(g.to, e), TreeTop.to)
        BY <1>2, <2>2, OneWay, PrefixOrder
      <3> QED
        BY <1>1, <1>5, <3>1, <3>2 DEF There
    <2>5. TargetIs(g)'
      BY <1>5, <2>2 DEF TargetIs, There
    <2>6. CallOK(g, g.from)'
      BY <2>2, <2>4, <2>5 DEF CallOK, DoneIsCopied, MustIsAll
    <2> QED
      BY <1>1, <1>3, <2>2, <2>3, <2>6, SameCall DEF CopyOK
  <1>6. CASE There(TreeTop.to) /\ Go("open") /\ treeDirs' = treeDirs
    BY <1>1, <1>5, <1>6 DEF There
  <1>7. CASE LET above == {SubSeq(TreeTop.to, 1, k) : k \in 1..Len(TreeTop.to)} IN
               above \cap DOMAIN treeFiles = {} /\ treeDirs' = treeDirs \cup above /\ Go("open")
    <2>1. TreeTop.to \in treeDirs' /\ \A x \in treeDirs' : x \in treeDirs \/ IsPrefix(x, TreeTop.to)
      BY <1>1, <1>2, <1>7, MkdirOK
    <2>2. \A x \in treeDirs : x \in treeDirs'
      BY <1>7
    <2> QED
      BY <1>5, <1>7, <2>1, <2>2 DEF There
  <1> QED
    BY <1>4, <1>6, <1>7 DEF TreeMkdir

LEMMA TreeOpenOK ==
  ASSUME TreeBase, TreeBase', Copies, CopyOK, TreeOpen
  PROVE  CopyOK'
  <1>1. /\ TreeTypeOK /\ FileSystem /\ treeStack # <<>> /\ TreeTop.at = "open"
        /\ treeLayout' = treeLayout /\ flags' = flags /\ failed' = failed
        /\ treeDirs' = treeDirs /\ treeFiles' = treeFiles
        /\ SourceIsKept /\ NoNewFile /\ CallsAre /\ Separate
    BY DEF TreeOpen, At, TreeBase, CopyOK, Copies
  <1>2. /\ TreeTop.to \in TreePath /\ TreeTop.done = {} /\ TreeTop \in TreeCalls
        /\ CallOK(TreeTop, TreeTop.from) /\ TreeTop.from \in TreePath /\ TreeTop.from \in Route
        /\ IsPrefix(treeLayout.from, TreeTop.from)
        /\ treeLayout.from \in TreePath /\ treeLayout.to \in TreePath
    BY <1>1, Innermost, LayoutIs
  <1>3. PICK g : g = [TreeTop EXCEPT !.at = "list",
                       !.must = IF TreeTop.from \in treeDirs THEN TreeEntries(TreeTop.from) ELSE {}]
    OBVIOUS
  <1>4. /\ treeStack' = Append(Front(treeStack), g) /\ g.at = "list" /\ g.done = {}
        /\ g.from = TreeTop.from /\ g.to = TreeTop.to
        /\ g.must = IF TreeTop.from \in treeDirs THEN TreeEntries(TreeTop.from) ELSE {}
    BY <1>2, <1>3 DEF TreeOpen, TreeCalls
  <1>5. ASSUME NEW e \in TreeName, Append(g.from, e) \in TreeBefore
        PROVE  e \in TreeEntries(g.from) /\ g.from \in treeDirs
    <2> DEFINE a == Append(g.from, e)
    <2>1. /\ a \in TreePath /\ IsPrefix(g.from, a) /\ Len(a) = Len(g.from) + 1 /\ g.from # a
          /\ Last(a) = e /\ IsPrefix(treeLayout.from, a)
      <3>1. a \in TreePath /\ IsPrefix(g.from, a) /\ Len(a) = Len(g.from) + 1
        BY <1>2, <1>4, PrefixOfAppend
      <3>2. IsPrefix(treeLayout.from, a)
        BY <1>2, <1>4, ImageOfEntry
      <3>3. a[Len(g.from) + 1] = e
        BY <1>2, <1>4, AppendProperties DEF Route
      <3>4. Len(g.from) # Len(g.from) + 1
        BY <1>2, <1>4 DEF Route
      <3> QED
        BY <3>1, <3>2, <3>3, <3>4 DEF Last
    <2> HIDE DEF a
    <2>2. g.from \in treeLayout.dirs
      BY <1>1, <1>2, <1>4, <1>5, <2>1, LayoutIs DEF a
    <2>3. g.from \in treeDirs /\ a \in treeDirs \cup DOMAIN treeFiles
      BY <1>1, <1>2, <1>4, <1>5, <2>1, <2>2 DEF SourceIsKept, TreeBefore, a
    <2> QED
      BY <2>1, <2>3 DEF TreeEntries, TreeBelow, IsStrictPrefix
  <1>6. MustIsAll(g)'
    BY <1>1, <1>4, <1>5 DEF MustIsAll, TreeBefore
  <1>7. TargetIs(g)'
    BY <1>1, <1>2, <1>4 DEF CallOK, TargetIs, There
  <1>8. TargetIsNew(g)'
    BY <1>1, <1>2, <1>4 DEF CallOK, TargetIsNew, There
  <1>9. CallOK(g, g.from)'
    BY <1>4, <1>6, <1>7, <1>8 DEF CallOK, DoneIsCopied
  <1>10. g \in TreeCalls
    <2>1. TreeTypeOK' /\ Len(treeStack') \in Nat \ {0} /\ treeStack' \in Seq(TreeCalls)
      BY <1>4, <1>1, TreeTopIs, EmptySeq DEF TreeBase, TreeTypeOK
    <2>2. treeStack'[Len(treeStack')] \in TreeCalls
      BY <2>1, ElementOfSeq
    <2>3. /\ Front(treeStack) \in Seq(TreeCalls)
      BY <1>1, TreeTopIs
    <2>4. Append(Front(treeStack), g)[Len(Front(treeStack)) + 1] = g
          /\ Len(Append(Front(treeStack), g)) = Len(Front(treeStack)) + 1
      BY <2>3
    <2> QED
      BY <1>4, <2>2, <2>4
  <1> QED
    BY <1>1, <1>4, <1>9, <1>10, AroundSame, SameCall, NoFileIsNew DEF CopyOK

LEMMA TreeEnterOK ==
  ASSUME TreeBase, Copies, CopyOK, NEW e \in TreeName, TreeEnter(e)
  PROVE  CopyOK'
  <1>1. /\ TreeTypeOK /\ FileSystem /\ treeStack # <<>> /\ TreeTop.at = "list"
        /\ treeLayout' = treeLayout /\ flags' = flags /\ failed' = failed
        /\ treeDirs' = treeDirs /\ treeFiles' = treeFiles
        /\ SourceIsKept /\ NoNewFile /\ CallsAre /\ Separate
        /\ e \notin TreeTop.done /\ Append(TreeTop.from, e) \in treeDirs
    BY DEF TreeEnter, At, TreeBase, CopyOK, Copies, TreeListed
  <1>2. /\ TreeTop.to \in TreePath /\ TreeTop.to \in Route /\ TreeTop \in TreeCalls
        /\ CallOK(TreeTop, TreeTop.from)
        /\ OnTheWay(TreeTop, Len(treeStack), TreeTop.from)
        /\ TreeTop.to = Image(TreeTop.from)
        /\ Len(TreeTop.from) = Len(treeLayout.from) + Len(treeStack) - 1
        /\ treeLayout.from \in TreePath /\ treeLayout.to \in TreePath
        /\ Len(treeLayout.from) \in Nat
    BY <1>1, Innermost, LayoutIs DEF TreePath, Route
  <1>3. PICK path \in TreePath : path = TreeTop.from
    BY <1>1, Innermost
  <1>4. PICK p2 : p2 = Append(path, e)
    OBVIOUS
  <1>5. /\ p2 \in TreePath /\ p2 \in Route /\ path \in Route /\ Len(p2) = Len(path) + 1
        /\ IsPrefix(path, p2) /\ IsPrefix(treeLayout.from, path) /\ IsPrefix(treeLayout.from, p2)
        /\ Image(p2) = Append(TreeTop.to, e) /\ Append(TreeTop.to, e) \in TreePath
        /\ Append(TreeTop.to, e) \in Route
        /\ Len(path) \in Nat
    <2>1. path \in Route /\ IsPrefix(treeLayout.from, path)
      BY <1>1, <1>3, Innermost
    <2>2. p2 \in TreePath /\ Len(p2) = Len(path) + 1 /\ IsPrefix(path, p2)
      BY <1>4, <2>1, PrefixOfAppend
    <2>3. IsPrefix(treeLayout.from, p2) /\ Image(p2) = Append(TreeTop.to, e)
      BY <1>2, <1>3, <1>4, <2>1, ImageOfEntry
    <2>4. Append(TreeTop.to, e) \in TreePath
      BY <1>2, PrefixOfAppend
    <2> QED
      BY <2>1, <2>2, <2>3, <2>4 DEF TreePath, Route
  <1>6. PICK g \in TreeCalls : g = Handled(e)
    BY <1>1, PathsAre
  <1>7. PICK new \in TreeCalls : new = TreeCall(p2, Append(TreeTop.to, e))
    BY <1>1, <1>3, <1>4, PathsAre
  <1>8. /\ g.from = path /\ g.to = TreeTop.to /\ g.at = "list" /\ g.must = TreeTop.must
        /\ g.done = TreeTop.done \cup {e}
        /\ new.from = p2 /\ new.to = Image(p2) /\ new.at = "target" /\ new.done = {}
    BY <1>1, <1>2, <1>3, <1>5, <1>6, <1>7 DEF Handled, TreeCall, TreeCalls
  <1>9. PICK n \in Nat \ {0} : n = Len(treeStack)
    BY <1>1, TreeTopIs
  <1>10. /\ Len(treeStack') = n + 1 /\ treeStack'[n + 1] = new /\ treeStack'[n] = g
         /\ TreeTop' = new
         /\ \A j \in 1..n - 1 : treeStack'[j] = treeStack[j]
    <2> DEFINE s1 == Append(Front(treeStack), g)
    <2>1. /\ Front(treeStack) \in Seq(TreeCalls) /\ Len(Front(treeStack)) = n - 1
          /\ \A j \in 1..n - 1 : Front(treeStack)[j] = treeStack[j]
      BY <1>1, <1>9, TreeTopIs
    <2>2. s1 \in Seq(TreeCalls) /\ Len(s1) = n /\ s1[n] = g
          /\ \A j \in 1..n - 1 : s1[j] = treeStack[j]
      <3>1. /\ s1 \in Seq(TreeCalls) /\ Len(s1) = n - 1 + 1 /\ s1[n - 1 + 1] = g
            /\ \A j \in 1..n - 1 : s1[j] = treeStack[j]
        BY <2>1, AppendProperties
      <3> HIDE DEF s1
      <3> QED
        BY <3>1
    <2>3. treeStack' = Append(s1, new)
      BY <1>3, <1>4, <1>6, <1>7 DEF TreeEnter
    <2> HIDE DEF s1
    <2>4. /\ Len(treeStack') = n + 1 /\ treeStack'[n + 1] = new
          /\ \A j \in 1..n : treeStack'[j] = s1[j]
      BY <2>2, <2>3, AppendProperties
    <2> QED
      BY <2>2, <2>4 DEF TreeTop, Last
  \* An entry is on the way to the new path when it was on the way, or is the one entered.
  <1>11. ASSUME NEW q \in Route, IsPrefix(q, path), NEW d \in TreeName
         PROVE  /\ IsPrefix(Append(q, d), path) => IsPrefix(Append(q, d), p2)
                /\ IsPrefix(Append(q, d), p2) => IsPrefix(Append(q, d), path) \/ (q = path /\ d = e)
    <2>1. IsPrefix(Append(q, d), path) => IsPrefix(Append(q, d), p2)
      BY <1>5, OneWay
    <2>2. q # path => Len(q) < Len(path)
      BY <1>5, <1>11, PrefixOrder DEF Route
    <2>3. IsPrefix(Append(q, d), p2) /\ q # path => IsPrefix(Append(q, d), path)
      BY <1>5, <2>2, OneWay
    <2>4. IsPrefix(Append(path, d), p2) => d = e
      <3>1. IsPrefix(Append(path, e), p2)
        BY <1>4, <1>5, PrefixOrder
      <3>2. IsPrefix(p2, p2)
        BY <1>5, PrefixOrder
      <3> QED
        BY <1>5, <3>1, <3>2, OneWay
    <2> QED
      BY <2>1, <2>3, <2>4
  <1>12. ASSUME NEW j \in 1..n - 1
         PROVE  \E f, p : /\ f = treeStack'[j] /\ p = TreeTop'.from
                          /\ OnTheWay(f, j, p)' /\ CallOK(f, p)'
    <2>1. PICK f \in TreeCalls : f = treeStack[j]
      BY <1>1, <1>9, TreeTopIs
    <2>2. OnTheWay(f, j, path) /\ CallOK(f, path) /\ f.from # path
      <3>1. j \in 1..Len(treeStack) /\ j \in 1..Len(treeStack) - 1
        BY <1>9
      <3>2. f.from # path
        BY <1>1, <1>3, <2>1, <3>1, Innermost
      <3>3. OnTheWay(treeStack[j], j, TreeTop.from) /\ CallOK(treeStack[j], TreeTop.from)
        BY <1>1, <3>1 DEF CallsAre
      <3> QED
        BY <1>3, <2>1, <3>2, <3>3
    <2>3. f.from \in Route /\ IsPrefix(f.from, path) /\ f.done \subseteq TreeName
      BY <2>2 DEF TreeCalls, TreePath, OnTheWay
    <2>4. IsPrefix(f.from, p2)
      BY <1>5, <2>3, PrefixOrder
    <2>5. \A d \in TreeName : IsPrefix(Append(f.from, d), p2) => d \in f.done
      BY <1>11, <2>2, <2>3 DEF OnTheWay
    <2>6. OnTheWay(f, j, p2)'
      BY <1>1, <2>2, <2>4, <2>5 DEF OnTheWay, Image
    <2>7. DoneIsCopied(f, p2)'
      <3> SUFFICES ASSUME NEW d \in f.done, ~IsPrefix(Append(f.from, d), p2),
                          NEW q \in Under(Append(f.from, d))
                   PROVE  Arrives(q)'
        BY <1>1 DEF DoneIsCopied, AllCopied, Under, TreeBefore
      <3>1. Arrives(q)
        BY <1>11, <2>2, <2>3 DEF CallOK, DoneIsCopied, AllCopied
      <3> QED
        BY <1>1, <3>1, ArrivesKept
    <2>8. CallOK(f, p2)'
      BY <1>1, <2>2, <2>7
         DEF CallOK, MustIsAll, TargetIs, TargetIsNew, There, TreeBefore
    <2> QED
      BY <1>8, <1>10, <2>1, <2>6, <2>8
  <1>13. OnTheWay(g, n, p2)'
    <2>1. \A d \in TreeName : IsPrefix(Append(path, d), p2) => d \in g.done
      <3>1. IsPrefix(path, path)
        BY <1>5, PrefixOrder
      <3> QED
        BY <1>2, <1>3, <1>5, <1>8, <1>11, <3>1 DEF OnTheWay
    <2> QED
      BY <1>1, <1>2, <1>3, <1>5, <1>8, <1>9, <2>1 DEF OnTheWay, Image
  <1>14. CallOK(g, p2)'
    <2>1. DoneIsCopied(g, p2)'
      <3> SUFFICES ASSUME NEW d \in g.done, ~IsPrefix(Append(path, d), p2),
                          NEW q \in Under(Append(path, d))
                   PROVE  Arrives(q)'
        BY <1>1, <1>8 DEF DoneIsCopied, AllCopied, Under, TreeBefore
      <3>1. d # e
        BY <1>4, <1>5, PrefixOrder
      <3>2. d \in TreeTop.done /\ d \in TreeName
        BY <1>2, <1>8, <3>1 DEF TreeCalls
      <3>3. ~IsPrefix(Append(path, d), path)
        BY <1>5, <3>2, OneWay
      <3>4. Arrives(q)
        BY <1>2, <1>3, <3>2, <3>3 DEF CallOK, DoneIsCopied, AllCopied
      <3> QED
        BY <1>1, <3>4, ArrivesKept
    <2>2. TargetIsNew(g)'
      BY <1>1, <1>2, <1>8 DEF CallOK, TargetIsNew, There
    <2> QED
      BY <1>1, <1>2, <1>3, <1>8, <2>1, <2>2 DEF CallOK, MustIsAll, TargetIs, There, TreeBefore
  <1>15. OnTheWay(new, n + 1, p2)'
    <2>1. p2 \in treeLayout.dirs
      BY <1>1, <1>3, <1>4, <1>5 DEF SourceIsKept
    <2>2. Len(p2) = Len(treeLayout.from) + (n + 1) - 1
      BY <1>2, <1>3, <1>5, <1>9
    <2>3. IsPrefix(p2, p2) /\ \A d \in TreeName : ~IsPrefix(Append(p2, d), p2)
      BY <1>5, OneWay, PrefixOrder
    <2> QED
      BY <1>1, <1>5, <1>8, <2>1, <2>2, <2>3 DEF OnTheWay, Image
  <1>16. CallOK(new, p2)'
    <2> SUFFICES ASSUME flags = "skip_existing"
                 PROVE  /\ ~There(new.to)'
                        /\ \A d \in TreeName : ~There(Append(new.to, d))'
      BY <1>1, <1>8 DEF CallOK, DoneIsCopied, MustIsAll, TargetIs, TargetIsNew
    <2>1. ~There(new.to)
      BY <1>1, <1>2, <1>5, <1>8 DEF CallOK, TargetIsNew
    <2>2. ASSUME NEW d \in TreeName, There(Append(new.to, d))
          PROVE  FALSE
      <3>1. new.to \in TreePath /\ new.to \in Route
        BY <1>5, <1>8
      <3>2. IsPrefix(new.to, Append(new.to, d)) /\ new.to # Append(new.to, d)
        BY <3>1, PrefixOfAppend DEF Route
      <3>3. new.to \in treeDirs
        BY <1>1, <2>2, <3>1, <3>2 DEF FileSystem, There
      <3> QED
        BY <2>1, <3>3 DEF There
    <2> QED
      BY <1>1, <2>1, <2>2 DEF There
  <1>17. \A j \in 1..Len(treeStack') : \E f, p :
           /\ f = treeStack'[j] /\ p = TreeTop'.from
           /\ OnTheWay(f, j, p)' /\ CallOK(f, p)'
    <2> SUFFICES ASSUME NEW j \in 1..n + 1
                 PROVE  \E f, p : /\ f = treeStack'[j] /\ p = TreeTop'.from
                                  /\ OnTheWay(f, j, p)' /\ CallOK(f, p)'
      BY <1>10
    <2>1. CASE j \in 1..n - 1
      BY <1>12, <2>1
    <2>2. CASE j = n
      BY <1>8, <1>10, <1>13, <1>14, <2>2
    <2>3. CASE j = n + 1
      BY <1>8, <1>10, <1>15, <1>16, <2>3
    <2> QED
      BY <2>1, <2>2, <2>3
  <1> QED
    BY <1>1, <1>17, CallsNow, SameSource, NoFileIsNew DEF CopyOK

LEMMA CopyFileOK ==
  ASSUME TreeBase, Copies, CopyOK, NEW e \in TreeName, CopyFile(e)
  PROVE  CopyOK'
  <1> DEFINE obj == Append(TreeTop.to, e)
  <1>1. /\ TreeTypeOK /\ FileSystem /\ treeStack # <<>> /\ TreeTop.at = "list"
        /\ treeLayout' = treeLayout /\ flags' = flags
        /\ SourceIsKept /\ NoNewFile /\ CallsAre /\ Separate
        /\ e \notin TreeTop.done /\ Append(TreeTop.from, e) \in DOMAIN treeFiles
    BY DEF CopyFile, At, TreeBase, CopyOK, Copies, TreeListed
  <1>2. /\ TreeTop.to \in TreePath /\ TreeTop.to \in Route /\ TreeTop \in TreeCalls
        /\ CallOK(TreeTop, TreeTop.from)
        /\ OnTheWay(TreeTop, Len(treeStack), TreeTop.from)
        /\ TreeTop.to = Image(TreeTop.from) /\ IsPrefix(treeLayout.to, TreeTop.to)
        /\ treeLayout.from \in TreePath /\ treeLayout.to \in TreePath
        /\ treeLayout.to \in Route
    BY <1>1, Innermost, LayoutIs DEF TreePath
  <1>3. PICK path \in TreePath : path = TreeTop.from
    BY <1>1, Innermost
  <1>4. path \in Route /\ IsPrefix(treeLayout.from, path)
    BY <1>1, <1>3, Innermost
  <1>5. PICK src \in TreePath : /\ src = Append(path, e) /\ IsPrefix(treeLayout.from, src)
                                /\ Image(src) = obj
    <2>1. /\ Append(path, e) \in TreePath /\ IsPrefix(treeLayout.from, Append(path, e))
          /\ Image(Append(path, e)) = Append(Image(path), e)
      BY <1>2, <1>4, ImageOfEntry
    <2> QED
      BY <1>2, <1>3, <2>1
  <1>6. /\ src \in Route /\ src \in treeLayout.files
        /\ treeFiles[src] = Holds(src, TRUE) /\ src \in DOMAIN treeFiles
    BY <1>1, <1>3, <1>5 DEF SourceIsKept, TreePath
  <1>7. /\ obj \in TreePath /\ obj \in Route /\ IsPrefix(TreeTop.to, obj)
        /\ IsPrefix(treeLayout.to, obj) /\ src # obj
    <2>1. obj \in TreePath /\ obj \in Route /\ IsPrefix(TreeTop.to, obj)
      BY <1>2, PrefixOfAppend DEF TreePath
    <2>2. IsPrefix(treeLayout.to, obj)
      BY <1>2, <2>1, PrefixOrder
    <2>3. ~IsPrefix(treeLayout.from, obj)
      BY <1>1, <1>2, <2>1, <2>2, ImageIsApart
    <2> QED
      BY <1>5, <2>1, <2>2, <2>3
  <1>8. PICK g \in TreeCalls : g = Handled(e)
    BY <1>1, PathsAre
  <1>9. /\ g.from = path /\ g.to = TreeTop.to /\ g.at = "list" /\ g.must = TreeTop.must
        /\ g.done = TreeTop.done \cup {e}
    BY <1>1, <1>2, <1>3, <1>8 DEF Handled, TreeCalls
  <1>e. ASSUME NEW why, Throw(why), treeDirs' = treeDirs, treeFiles' = treeFiles
        PROVE  CopyOK'
    BY <1>1, <1>e, CallsEnd, SameSource, NoFileIsNew DEF Throw, CopyOK
  <1>10. CASE There(obj) /\ flags = "skip_existing"
    BY <1>1, <1>2, <1>10 DEF CallOK, TargetIsNew
  <1>11. CASE Throw("file exists") /\ UNCHANGED <<treeDirs, treeFiles>>
    BY <1>e, <1>11
  <1>12. CASE Throw("not empty") /\ UNCHANGED <<treeDirs, treeFiles>>
    BY <1>e, <1>12
  <1>13. CASE Without({obj}) /\ Throw("no directory") /\ failed' = failed
    <2>1. /\ treeDirs' = treeDirs \ {obj} /\ DOMAIN treeFiles' = DOMAIN treeFiles \ {obj}
          /\ \A x \in DOMAIN treeFiles' : treeFiles'[x] = treeFiles[x]
      BY <1>13 DEF Without
    <2>2. Around(TreeTop.to)
      BY <1>7, <1>13, <2>1 DEF Around
    <2>3. SourceIsKept'
      BY <1>1, <1>2, <1>3, <1>4, <2>2, SourceKept
    <2> QED
      BY <1>1, <1>13, <2>1, <2>3, CallsEnd, NoFileIsNew DEF Throw, CopyOK
  \* The file is written: all of it, or a beginning.
  <1>14. ASSUME NEW through \in BOOLEAN,
                treeDirs' = treeDirs \ {obj},
                treeFiles' = [f \in DOMAIN treeFiles \cup {obj} |->
                                IF f = obj
                                  THEN Holds(treeFiles[src].of, treeFiles[src].whole /\ through)
                                  ELSE treeFiles[f]],
                failed' = IF through THEN failed ELSE failed \cup {obj},
                treeStack' = Append(Front(treeStack), g)
         PROVE  CopyOK'
    <2>1. /\ treeDirs' = treeDirs \ {obj} /\ DOMAIN treeFiles' = DOMAIN treeFiles \cup {obj}
          /\ treeFiles'[obj] = Holds(src, through) /\ failed \subseteq failed'
          /\ ~through => obj \in failed'
          /\ \A x \in DOMAIN treeFiles : x # obj => treeFiles'[x] = treeFiles[x]
      <3>1. treeFiles[src].of = src /\ treeFiles[src].whole = TRUE
        BY <1>6 DEF Holds
      <3>2. treeFiles'[obj] = Holds(src, TRUE /\ through)
        BY <1>14, <3>1
      <3>3. (TRUE /\ through) = through
        OBVIOUS
      <3> QED
        BY <1>14, <3>2, <3>3
    <2> HIDE DEF obj
    <2>2. Around(TreeTop.to)
      BY <1>7, <2>1 DEF Around
    <2>3. NoNewFile'
      <3> SUFFICES ASSUME NEW q \in Under(treeLayout.from) \ treeLayout.files,
                          Image(q) \in DOMAIN treeFiles'
                   PROVE  Image(q) \in treeLayout.files
        BY <1>1 DEF NoNewFile, Under, TreeBefore, Image
      <3>1. q \in Route /\ IsPrefix(treeLayout.from, q)
        BY <1>1, LayoutIs DEF Under, TreeBefore, TreePath
      <3>2. Image(q) # obj
        BY <1>2, <1>5, <1>6, <3>1, ImagePrefix
      <3> QED
        BY <1>1, <2>1, <3>2 DEF NoNewFile
    <2>4. DoneIsCopied(g, path)'
      <3> SUFFICES ASSUME NEW d \in g.done, NEW q \in Under(Append(path, d))
                   PROVE  Arrives(q)'
        BY <1>1, <1>9 DEF DoneIsCopied, AllCopied, Under, TreeBefore
      <3>1. /\ q \in TreePath /\ q \in Route /\ q \in TreeBefore /\ IsPrefix(Append(path, d), q)
            /\ d \in TreeName
        BY <1>1, <1>2, <1>9, LayoutIs DEF Under, TreeBefore, TreePath, TreeCalls
      <3>2. CASE d = e
        <4>1. q = src
          BY <1>1, <1>5, <1>6, <3>1, <3>2, LayoutIs
        <4> QED
          BY <1>1, <1>5, <1>6, <2>1, <4>1 DEF Arrives, IsCopied, Image
      <3>3. CASE d # e
        <4>1. ~IsPrefix(Append(path, d), path)
          BY <1>4, <3>1, OneWay, PrefixOrder
        <4>2. Arrives(q)
          BY <1>2, <1>3, <1>9, <3>3, <4>1 DEF CallOK, DoneIsCopied, AllCopied
        <4>3. IsPrefix(treeLayout.from, q)
          <5>1. Append(path, d) \in Route /\ IsPrefix(treeLayout.from, Append(path, d))
            BY <1>2, <1>4, <3>1, ImageOfEntry DEF TreePath
          <5> QED
            BY <1>2, <3>1, <5>1, PrefixOrder DEF TreePath
        <4>4. q # src
          <5> SUFFICES ASSUME q = src PROVE FALSE
            OBVIOUS
          <5>1. IsPrefix(Append(path, d), src) /\ IsPrefix(Append(path, e), src)
                /\ IsPrefix(src, src)
            BY <1>5, <1>6, <3>1, PrefixOrder
          <5> QED
            BY <1>4, <1>6, <3>1, <3>3, <5>1, OneWay
        <4>5. Image(q) # obj
          BY <1>2, <1>5, <1>6, <3>1, <4>3, <4>4, ImagePrefix
        <4> QED
          BY <1>1, <2>1, <4>2, <4>5, ArrivesKept
      <3> QED
        BY <3>2, <3>3
    <2>5. TargetIs(g)'
      <3>1. TreeTop.to # obj
        BY <1>2, PrefixOfAppend DEF Route, obj
      <3> QED
        BY <1>1, <1>2, <1>9, <2>1, <3>1 DEF CallOK, TargetIs, There
    <2>6. TargetIsNew(g)'
      <3> SUFFICES ASSUME flags = "skip_existing", NEW d \in TreeName, d \notin g.done
                   PROVE  ~There(Append(g.to, d))'
        BY <1>1, <1>9 DEF TargetIsNew
      <3>1. ~There(Append(g.to, d)) /\ d # e
        BY <1>2, <1>9 DEF CallOK, TargetIsNew
      <3>2. Append(g.to, d) # obj
        BY <1>2, <1>9, <3>1, AppendInjective DEF Route, obj
      <3> QED
        BY <2>1, <3>1, <3>2 DEF There
    <2>7. MustIsAll(g)'
      BY <1>1, <1>2, <1>3, <1>9 DEF CallOK, MustIsAll, TreeBefore
    <2>8. CallOK(g, g.from)'
      BY <1>9, <2>4, <2>5, <2>6, <2>7 DEF CallOK
    <2> QED
      BY <1>1, <1>3, <1>9, <1>14, <2>2, <2>3, <2>8, SameCall DEF CopyOK
  <1> QED
    BY <1>1, <1>3, <1>5, <1>7, <1>8, <1>10, <1>11, <1>12, <1>13, <1>14 DEF CopyFile

\* When a call has met all entries, all that is below its directory has arrived.
LEMMA BelowArrives ==
  ASSUME TreeTypeOK, SourceIsKept, CallsAre, treeStack # <<>>, TreeTop.at = "list",
         TreeTop.must \cap TreeListed = {}, NEW q \in Under(TreeTop.from), q # TreeTop.from
  PROVE  Arrives(q) /\ TreeTop.from \in treeLayout.dirs
  <1>1. /\ TreeTop.from \in TreePath /\ TreeTop.from \in Route /\ TreeTop \in TreeCalls
        /\ CallOK(TreeTop, TreeTop.from) /\ IsPrefix(treeLayout.from, TreeTop.from)
        /\ treeLayout.from \in TreePath /\ treeLayout.to \in TreePath
    BY Innermost, LayoutIs
  <1>2. /\ q \in TreePath /\ q \in Route /\ q \in TreeBefore /\ IsPrefix(TreeTop.from, q)
    BY LayoutIs DEF Under, TreeBefore, TreePath
  <1>3. TreeTop.from \in treeLayout.dirs
    BY <1>1, <1>2, LayoutIs
  <1>4. PICK e \in TreeName : IsPrefix(Append(TreeTop.from, e), q)
    BY <1>1, <1>2, EntryOnTheWay
  <1> DEFINE a == Append(TreeTop.from, e)
  <1>5. /\ a \in TreePath /\ IsPrefix(TreeTop.from, a) /\ TreeTop.from # a
        /\ Len(a) = Len(TreeTop.from) + 1 /\ Last(a) = e
        /\ IsPrefix(treeLayout.from, a)
    <2>1. a \in TreePath /\ IsPrefix(TreeTop.from, a) /\ Len(a) = Len(TreeTop.from) + 1
      BY <1>1, PrefixOfAppend
    <2>2. IsPrefix(treeLayout.from, a)
      BY <1>1, ImageOfEntry
    <2>3. a[Len(TreeTop.from) + 1] = e
      BY <1>1, AppendProperties DEF Route
    <2>4. Len(TreeTop.from) # Len(TreeTop.from) + 1
      BY <1>1 DEF Route
    <2> QED
      BY <2>1, <2>2, <2>3, <2>4 DEF Last
  <1>6. a \in TreeBefore
    BY <1>2, <1>4, <1>5, LayoutIs DEF TreeBefore
  <1>7. e \in TreeTop.must
    BY <1>1, <1>6 DEF CallOK, MustIsAll
  <1> HIDE DEF a
  <1>8. TreeTop.from \in treeDirs /\ a \in treeDirs \cup DOMAIN treeFiles
    BY <1>1, <1>3, <1>5, <1>6 DEF SourceIsKept, TreeBefore
  <1>9. e \in TreeEntries(TreeTop.from)
    BY <1>5, <1>8 DEF TreeEntries, TreeBelow, IsStrictPrefix
  <1>10. e \in TreeTop.done
    BY <1>7, <1>8, <1>9 DEF TreeListed
  <1>11. ~IsPrefix(Append(TreeTop.from, e), TreeTop.from)
    BY <1>1, OneWay, PrefixOrder
  <1>12. q \in Under(Append(TreeTop.from, e))
    BY <1>2, <1>4 DEF Under
  <1> QED
    BY <1>1, <1>3, <1>10, <1>11, <1>12 DEF CallOK, DoneIsCopied, AllCopied

\* So has the directory itself: it is there, or it met a file and nothing of it was listed,
\* being empty or not listed to its end.
LEMMA ItselfArrives ==
  ASSUME TreeTypeOK, FileSystem, SourceIsKept, NoNewFile, CallsAre,
         treeStack # <<>>, TreeTop.at = "list", TreeTop.must \cap TreeListed = {},
         TreeTop.from \in treeLayout.dirs
  PROVE  Arrives(TreeTop.from)
  <1>1. /\ TreeTop.from \in TreePath /\ TreeTop.from \in Route /\ TreeTop \in TreeCalls
        /\ TreeTop.to = Image(TreeTop.from) /\ TreeTop.to \in TreePath /\ TreeTop.to \in Route
        /\ CallOK(TreeTop, TreeTop.from) /\ IsPrefix(treeLayout.from, TreeTop.from)
        /\ treeLayout.from \in TreePath /\ treeLayout.to \in TreePath
        /\ treeLayout.dirs \cap treeLayout.files = {}
    BY Innermost, LayoutIs
  <1>2. There(TreeTop.to)
    BY <1>1 DEF CallOK, TargetIs
  <1>3. CASE TreeTop.to \in treeDirs
    BY <1>1, <1>3 DEF Arrives, IsCopied
  <1>4. CASE TreeTop.to \in DOMAIN treeFiles
    <2>1. TreeTop.to \in treeLayout.files
      BY <1>1, <1>4 DEF NoNewFile, Under, TreeBefore
    <2>2. ASSUME NEW q \in Under(TreeTop.from), q # TreeTop.from
          PROVE  Arrives(TreeTop.from)
      <3>1. q \in TreeBefore /\ q \in Route /\ IsPrefix(TreeTop.from, q)
        BY LayoutIs DEF Under, TreeBefore, TreePath
      <3>2. PICK e \in TreeName : IsPrefix(Append(TreeTop.from, e), q)
        BY <1>1, <2>2, <3>1, EntryOnTheWay
      <3> DEFINE a == Append(TreeTop.from, e)
      <3>3. /\ a \in TreePath /\ a \in Route /\ IsPrefix(TreeTop.from, a) /\ TreeTop.from # a
            /\ IsPrefix(treeLayout.from, a) /\ Image(a) = Append(TreeTop.to, e)
        <4>1. a \in TreePath /\ IsPrefix(TreeTop.from, a) /\ Len(a) = Len(TreeTop.from) + 1
          BY <1>1, PrefixOfAppend
        <4>2. IsPrefix(treeLayout.from, a) /\ Image(a) = Append(TreeTop.to, e)
          BY <1>1, ImageOfEntry
        <4> QED
          BY <1>1, <4>1, <4>2 DEF TreePath, Route
      <3>4. a \in TreeBefore
        BY <3>1, <3>2, <3>3, LayoutIs DEF TreeBefore
      <3> HIDE DEF a
      <3>5. Arrives(a)
        BY <3>3, <3>4, BelowArrives DEF Under
      <3>6. IsPrefix(TreeTop.to, Image(a)) /\ TreeTop.to # Image(a)
        BY <1>1, <3>3, PrefixOfAppend DEF Route
      <3>7. ~IsCopied(a)
        <4>1. Image(a) \notin treeDirs \cup DOMAIN treeFiles
          BY <1>1, <1>4, <3>6 DEF FileSystem
        <4>2. Image(a) \notin treeLayout.files
          BY <1>1, <2>1, <3>6, LayoutIs DEF TreeBefore
        <4> QED
          BY <4>1, <4>2 DEF IsCopied
      <3>8. PICK place \in failed : IsStrictPrefix(place, Image(a))
        BY <3>5, <3>7 DEF Arrives, Unlisted
      <3>9. PICK b \in Route : b = Append(TreeTop.to, e)
        BY <1>1, PrefixOfAppend DEF TreePath
      <3>10. IsPrefix(place, TreeTop.to)
        <4>1. place \in Route /\ IsPrefix(place, b) /\ place # b
          BY <3>3, <3>8, <3>9 DEF TreeTypeOK, TreePath, IsStrictPrefix
        <4>2. /\ Len(b) = Len(TreeTop.to) + 1 /\ IsPrefix(TreeTop.to, b)
              /\ Len(TreeTop.to) \in Nat /\ Len(place) \in Nat
          BY <1>1, <3>9, <4>1, PrefixOfAppend DEF Route
        <4>3. Len(place) <= Len(b) /\ Len(place) # Len(b)
          BY <4>1, PrefixOrder
        <4>4. Len(place) <= Len(TreeTop.to)
          BY <4>2, <4>3
        <4> QED
          BY <1>1, <4>1, <4>2, <4>4, PrefixOrder
      <3>11. CASE place = TreeTop.to
        BY <1>1, <2>1, <3>8, <3>11 DEF Arrives, IsCopied
      <3>12. CASE place # TreeTop.to
        BY <1>1, <3>8, <3>10, <3>12 DEF Arrives, Unlisted, IsStrictPrefix
      <3> QED
        BY <3>11, <3>12
    <2>3. TreeTop.from \in Under(TreeTop.from)
      BY <1>1, PrefixOrder DEF Under, TreeBefore
    <2>4. Under(TreeTop.from) = {TreeTop.from} => Arrives(TreeTop.from)
      BY <1>1, <2>1 DEF Arrives, IsCopied
    <2> QED
      BY <2>2, <2>3, <2>4
  <1> QED
    BY <1>2, <1>3, <1>4 DEF There

\* A call returns, and what it was for has arrived.
LEMMA TreeReturnOK ==
  ASSUME TreeBase, Copies, CopyOK, At("list"), TreeReturn,
         treeLayout' = treeLayout, flags' = flags, treeDirs' = treeDirs, treeFiles' = treeFiles,
         failed \subseteq failed',
         \A q \in Under(TreeTop.from) :
           q # TreeTop.from \/ TreeTop.from \in treeLayout.dirs => Arrives(q)'
  PROVE  CopyOK' /\ AllIsCopied'
  <1>1. /\ TreeTypeOK /\ FileSystem /\ treeStack # <<>> /\ TreeTop.at = "list"
        /\ outcome = "none"
        /\ SourceIsKept /\ NoNewFile /\ CallsAre /\ Separate
        /\ treeStack' = Front(treeStack)
        /\ outcome' = IF Len(treeStack) = 1 THEN "done" ELSE outcome
    BY DEF TreeReturn, At, TreeBase, CopyOK, Copies
  <1>2. PICK n \in Nat \ {0} : n = Len(treeStack)
    BY <1>1, TreeTopIs
  <1>3. /\ Len(treeStack') = n - 1 /\ \A j \in 1..n - 1 : treeStack'[j] = treeStack[j]
    BY <1>1, <1>2, TreeTopIs
  <1>4. SourceIsKept' /\ NoNewFile'
    BY <1>1, SameSource, NoFileIsNew
  <1>5. PICK path \in TreePath : path = TreeTop.from
    BY <1>1, Innermost
  <1>6. /\ path \in Route /\ IsPrefix(treeLayout.from, path) /\ Len(path) \in Nat
        /\ Len(path) = Len(treeLayout.from) + n - 1 /\ Len(treeLayout.from) \in Nat
        /\ treeLayout.from \in TreePath /\ treeLayout.from \in Route
        /\ treeLayout.to \in TreePath
    BY <1>1, <1>2, <1>5, Innermost, LayoutIs DEF TreePath, Route
  <1>7. \A q : Arrives(q) => Arrives(q)'
    BY ArrivesKept
  <1>8. CASE n = 1
    <2>1. Len(treeStack') = 0
      BY <1>3, <1>8
    <2>2. CallsAre'
      <3>1. 1..Len(treeStack') = {}
        BY <2>1
      <3> QED
        BY <3>1 DEF CallsAre
    <2>3. path = treeLayout.from
      <3>1. Len(path) = Len(treeLayout.from)
        BY <1>6, <1>8
      <3> QED
        BY <1>6, <3>1, PrefixOrder
    <2>4. \A q \in Under(treeLayout.from) : q # treeLayout.from => Arrives(q)'
      BY <1>5, <2>3
    <2>5. AllIsCopied'
      BY <2>4 DEF AllIsCopied, Under, TreeBefore
    <2> QED
      BY <1>4, <2>2, <2>5 DEF CopyOK
  <1>9. CASE n # 1
    <2>1. n - 1 \in Nat \ {0} /\ n - 1 \in 1..n - 1 /\ n - 1 \in 1..n
      BY <1>9
    <2>2. PICK p2 \in TreePath : p2 = treeStack[n - 1].from
      BY <1>1, <1>2, <2>1, Innermost
    <2>3. TreeTop' = treeStack[n - 1]
      BY <1>3, <2>1 DEF TreeTop, Last
    <2>4. /\ p2 \in Route /\ IsPrefix(p2, path) /\ Len(p2) \in Nat /\ Len(path) = Len(p2) + 1
          /\ Len(p2) = Len(treeLayout.from) + (n - 1) - 1
      <3>1. /\ p2 \in Route /\ IsPrefix(p2, path)
            /\ Len(p2) = Len(treeLayout.from) + (n - 1) - 1
        BY <1>1, <1>2, <1>5, <2>1, <2>2, Innermost
      <3> QED
        BY <1>6, <2>1, <3>1 DEF Route
    \* The directory that the call was for is copied, with all below it.
    <2>5. \A q \in Under(path) : Arrives(q)'
      <3>1. OnTheWay(TreeTop, n, TreeTop.from)
        BY <1>1, <1>2, Innermost
      <3>2. path \in treeLayout.dirs
        BY <1>5, <1>9, <3>1 DEF OnTheWay
      <3> QED
        BY <1>5, <3>2
    <2>6. ASSUME NEW j \in 1..n - 1
          PROVE  \E f, p : /\ f = treeStack'[j] /\ p = TreeTop'.from
                           /\ OnTheWay(f, j, p)' /\ CallOK(f, p)'
      <3>1. PICK f \in TreeCalls : f = treeStack[j]
        BY <1>1, <1>2, TreeTopIs
      <3>2. /\ OnTheWay(f, j, path) /\ CallOK(f, path)
            /\ f.from # path /\ Len(f.from) = Len(treeLayout.from) + j - 1
        <4>1. j \in 1..Len(treeStack)
          BY <1>2
        <4>2. OnTheWay(f, j, path) /\ CallOK(f, path)
          BY <1>1, <1>5, <3>1, <4>1 DEF CallsAre
        <4> QED
          BY <1>1, <1>2, <1>5, <3>1, <4>2, Innermost
      <3>3. /\ f.from \in Route /\ IsPrefix(f.from, path) /\ f.done \subseteq TreeName
            /\ Len(f.from) \in Nat /\ f.at = "list"
        BY <3>2 DEF TreeCalls, TreePath, OnTheWay, Route
      <3>4. Len(f.from) <= Len(p2)
        BY <1>6, <2>4, <3>2
      <3>5. IsPrefix(f.from, p2)
        BY <1>6, <2>4, <3>3, <3>4, PrefixOrder
      <3>6. \A d \in TreeName : IsPrefix(Append(f.from, d), p2) => d \in f.done
        BY <1>6, <2>4, <3>2, <3>3, OneWay DEF OnTheWay
      <3>7. OnTheWay(f, j, p2)'
        BY <1>1, <3>2, <3>3, <3>5, <3>6 DEF OnTheWay, Image
      <3>8. ASSUME NEW d \in f.done, IsPrefix(Append(f.from, d), path)
            PROVE  IsPrefix(Append(f.from, d), p2) \/ Append(f.from, d) = path
        <4>1. CASE Len(f.from) < Len(p2)
          BY <1>6, <2>4, <3>3, <3>8, <4>1, OneWay
        <4>2. CASE Len(f.from) = Len(p2)
          <5>1. IsPrefix(path, path) /\ Len(path) = Len(f.from) + 1
            BY <1>6, <2>4, <4>2, PrefixOrder
          <5> QED
            BY <1>6, <3>3, <3>8, <5>1, OneWay
        <4> QED
          BY <2>4, <3>3, <3>4, <4>1, <4>2
      <3>9. ASSUME NEW d \in f.done, ~IsPrefix(Append(f.from, d), p2),
                   NEW q \in Under(Append(f.from, d))
            PROVE  Arrives(q)'
        <4>1. CASE IsPrefix(Append(f.from, d), path)
          BY <2>5, <3>8, <3>9, <4>1
        <4>2. CASE ~IsPrefix(Append(f.from, d), path)
          <5>1. Arrives(q)
            BY <3>2, <3>9, <4>2 DEF CallOK, DoneIsCopied, AllCopied
          <5> QED
            BY <1>7, <5>1
        <4> QED
          BY <4>1, <4>2
      <3>10. DoneIsCopied(f, p2)'
        BY <3>9 DEF DoneIsCopied, AllCopied, Under, TreeBefore
      <3>11. CallOK(f, p2)'
        BY <1>1, <3>2, <3>10
           DEF CallOK, MustIsAll, TargetIs, TargetIsNew, There, TreeBefore
      <3> QED
        BY <1>3, <2>2, <2>3, <3>1, <3>7, <3>11
    <2>7. CallsAre'
      BY <1>3, <2>6, CallsNow
    <2>8. AllIsCopied'
      BY <1>1, <1>2, <1>9 DEF AllIsCopied
    <2> QED
      BY <1>4, <2>7, <2>8 DEF CopyOK
  <1> QED
    BY <1>8, <1>9

LEMMA TreeCloseOK ==
  ASSUME TreeBase, Copies, CopyOK, TreeClose
  PROVE  CopyOK' /\ AllIsCopied'
  <1>1. /\ TreeTypeOK /\ FileSystem /\ treeStack # <<>> /\ TreeTop.at = "list"
        /\ TreeTop.must \cap TreeListed = {} /\ SourceIsKept /\ NoNewFile /\ CallsAre
        /\ treeLayout' = treeLayout /\ treeDirs' = treeDirs /\ treeFiles' = treeFiles
        /\ failed' = failed
    BY DEF TreeClose, At, TreeBase, CopyOK
  <1>2. ASSUME NEW q \in Under(TreeTop.from), q # TreeTop.from \/ TreeTop.from \in treeLayout.dirs
        PROVE  Arrives(q)'
    <2>1. Arrives(q)
      BY <1>1, <1>2, BelowArrives, ItselfArrives
    <2> QED
      BY <1>1, <2>1, ArrivesKept
  <1> QED
    BY <1>1, <1>2, TreeReturnOK DEF TreeClose

\* What is below a directory that was not listed to its end may be missing.
LEMMA ListEndsEarlyOK ==
  ASSUME TreeBase, Copies, CopyOK, ListEndsEarly
  PROVE  CopyOK' /\ AllIsCopied'
  <1>1. /\ TreeTypeOK /\ treeStack # <<>> /\ TreeTop.at = "list" /\ NoNewFile /\ CallsAre
        /\ treeLayout' = treeLayout /\ treeDirs' = treeDirs /\ treeFiles' = treeFiles
        /\ failed \subseteq failed' /\ TreeTop.to \in failed'
    BY DEF ListEndsEarly, At, TreeBase, CopyOK
  <1>2. /\ TreeTop.from \in TreePath /\ TreeTop.from \in Route
        /\ TreeTop.to = Image(TreeTop.from) /\ TreeTop.to \in Route
        /\ CallOK(TreeTop, TreeTop.from) /\ IsPrefix(treeLayout.from, TreeTop.from)
        /\ treeLayout.from \in TreePath /\ treeLayout.to \in TreePath
        /\ treeLayout.from \in Route
        /\ treeLayout.dirs \cap treeLayout.files = {}
    BY <1>1, Innermost, LayoutIs DEF TreePath
  <1>3. ASSUME NEW q \in Under(TreeTop.from), q # TreeTop.from
        PROVE  Arrives(q)'
    <2>1. q \in Route /\ IsPrefix(TreeTop.from, q)
      BY <1>1, LayoutIs DEF Under, TreeBefore, TreePath
    <2>2. IsPrefix(treeLayout.from, q)
      BY <1>2, <2>1, PrefixOrder
    <2>3. IsPrefix(TreeTop.to, Image(q)) /\ TreeTop.to # Image(q)
      BY <1>2, <1>3, <2>1, <2>2, ImagePrefix
    <2>4. Image(q)' = Image(q)
      BY <1>1 DEF Image
    <2> QED
      BY <1>1, <2>3, <2>4 DEF Arrives, Unlisted, IsStrictPrefix
  <1>4. ASSUME NEW p, p = TreeTop.from, TreeTop.from \in treeLayout.dirs
        PROVE  Arrives(p)'
    <2>1. TreeTop.to \in treeDirs \/ TreeTop.to \in DOMAIN treeFiles
      BY <1>1, <1>2 DEF CallOK, TargetIs, There
    <2>2. TreeTop.to \in treeDirs \/ TreeTop.to \in treeLayout.files
      <3>1. TreeTop.from \in Under(treeLayout.from) \ treeLayout.files
        BY <1>2, <1>4 DEF Under, TreeBefore
      <3> QED
        BY <1>1, <1>2, <2>1, <3>1 DEF NoNewFile
    <2>3. Image(p)' = TreeTop.to /\ p \notin treeLayout.files'
      BY <1>1, <1>2, <1>4 DEF Image
    <2>4. IsCopied(p)'
      BY <1>1, <2>2, <2>3 DEF IsCopied
    <2> QED
      BY <2>4 DEF Arrives
  <1> QED
    BY <1>1, <1>3, <1>4, TreeReturnOK DEF ListEndsEarly

\* An error ends the copy, with the target of a file gone or still there.
LEMMA CopyFileFailsOK ==
  ASSUME TreeBase, Copies, CopyOK, NEW e \in TreeName, CopyFileFails(e)
  PROVE  CopyOK'
  <1> DEFINE obj == Append(TreeTop.to, e)
  <1>1. /\ TreeTypeOK /\ treeStack # <<>> /\ treeLayout' = treeLayout /\ failed' = failed
        /\ SourceIsKept /\ NoNewFile /\ CallsAre /\ Separate /\ treeStack' = <<>>
    BY DEF CopyFileFails, At, TreeBase, CopyOK, Copies, Throw
  <1>2. CASE UNCHANGED <<treeDirs, treeFiles>>
    BY <1>1, <1>2, CallsEnd, SameSource, NoFileIsNew DEF CopyOK
  <1>3. CASE Without({obj})
    <2>1. PICK path \in TreePath : path = TreeTop.from
      BY <1>1, Innermost
    <2>2. /\ IsPrefix(treeLayout.from, path) /\ TreeTop.to = Image(path)
          /\ IsPrefix(TreeTop.to, obj)
      BY <1>1, <2>1, Innermost, PrefixOfAppend
    <2>3. /\ treeDirs' = treeDirs \ {obj} /\ DOMAIN treeFiles' = DOMAIN treeFiles \ {obj}
          /\ \A x \in DOMAIN treeFiles' : treeFiles'[x] = treeFiles[x]
      BY <1>3 DEF Without
    <2>4. Around(TreeTop.to)
      BY <1>1, <2>2, <2>3 DEF Around
    <2>5. SourceIsKept'
      BY <1>1, <2>1, <2>2, <2>4, SourceKept
    <2> QED
      BY <1>1, <2>3, <2>5, CallsEnd, NoFileIsNew DEF CopyOK
  <1> QED
    BY <1>2, <1>3 DEF CopyFileFails

TreeInv == TreeBase /\ AllIsCopied /\ (Copies => CopyOK)

LEMMA TreeInitInv == TreeInit => TreeInv
  <1> SUFFICES ASSUME TreeInit PROVE TreeInv
    OBVIOUS
  <1>1. TreeBase /\ TreeTypeOK
    BY TreeBaseInit DEF TreeBase
  <1>2. treeDirs = treeLayout.dirs /\ treeFiles = [f \in treeLayout.files |-> Holds(f, TRUE)]
    BY DEF TreeInit
  <1>3. SourceIsKept
    BY <1>2 DEF SourceIsKept
  <1>4. NoNewFile
    BY <1>2 DEF NoNewFile
  <1>5. CallsAre
    <2>1. Len(treeStack) = 0
      BY EmptySeq DEF TreeInit
    <2>2. 1..Len(treeStack) = {}
      BY <2>1
    <2> QED
      BY <2>2 DEF CallsAre
  <1>6. AllIsCopied
    BY DEF TreeInit, AllIsCopied
  <1> QED
    BY <1>1, <1>3, <1>4, <1>5, <1>6 DEF TreeInv, CopyOK

LEMMA TreeNextInv == TreeInv /\ [TreeNext]_treeVars => TreeInv'
  <1> SUFFICES ASSUME TreeInv, [TreeNext]_treeVars PROVE TreeInv'
    OBVIOUS
  <1>1. TreeBase /\ TreeBase' /\ AllIsCopied /\ (Copies => CopyOK)
    BY TreeBaseNext DEF TreeInv
  <1>2. CASE UNCHANGED treeVars
    <2>1. AllIsCopied'
      BY <1>1, <1>2
         DEF treeVars, AllIsCopied, Copies, Separate, TreeBefore, Under, Arrives, IsCopied,
             Unlisted, Image
    <2>2. Copies' => Copies
      BY <1>2 DEF treeVars, Copies, Separate, TreeBefore
    <2>3. Copies => SourceIsKept' /\ NoNewFile'
      BY <1>1, <1>2, SameSource, NoFileIsNew DEF treeVars, CopyOK
    <2>4. Copies => CallsAre'
      <3> SUFFICES ASSUME Copies PROVE CallsAre'
        OBVIOUS
      <3>1. CallsAre
        BY <1>1 DEF CopyOK
      <3>2. /\ treeStack' = treeStack /\ treeLayout' = treeLayout /\ flags' = flags
            /\ treeDirs' = treeDirs /\ treeFiles' = treeFiles /\ TreeTop' = TreeTop
            /\ failed' = failed
        BY <1>2 DEF treeVars, TreeTop, Last
      <3>3. ASSUME NEW f, NEW j, NEW p
            PROVE  /\ OnTheWay(f, j, p) => OnTheWay(f, j, p)'
                   /\ CallOK(f, p) => CallOK(f, p)'
        <4>1. OnTheWay(f, j, p) => OnTheWay(f, j, p)'
          BY <3>2 DEF OnTheWay, Image
        <4>2. DoneIsCopied(f, p) => DoneIsCopied(f, p)'
          BY <3>2, ArrivesKept DEF DoneIsCopied, AllCopied, Under, TreeBefore
        <4> QED
          BY <3>2, <4>1, <4>2
             DEF CallOK, MustIsAll, TargetIs, TargetIsNew, There, TreeBefore
      <3>4. \A j \in 1..Len(treeStack') : \E f, p :
              /\ f = treeStack'[j] /\ p = TreeTop'.from
              /\ OnTheWay(f, j, p)' /\ CallOK(f, p)'
        <4> SUFFICES ASSUME NEW j \in 1..Len(treeStack)
                     PROVE  \E f, p : /\ f = treeStack'[j] /\ p = TreeTop'.from
                                      /\ OnTheWay(f, j, p)' /\ CallOK(f, p)'
          BY <3>2
        <4>1. PICK f : f = treeStack[j]
          OBVIOUS
        <4>2. PICK p : p = TreeTop.from
          OBVIOUS
        <4>3. OnTheWay(f, j, p) /\ CallOK(f, p)
          BY <3>1, <4>1, <4>2 DEF CallsAre
        <4> QED
          BY <3>2, <3>3, <4>1, <4>2, <4>3
      <3> QED
        BY <3>4, CallsNow
    <2> QED
      BY <1>1, <2>1, <2>2, <2>3, <2>4 DEF TreeInv, CopyOK
  <1>3. CASE TreeNext
    <2>1. /\ treeLayout' = treeLayout /\ flags' = flags /\ (Copies' <=> Copies)
      <3>1. treeLayout' = treeLayout /\ flags' = flags
        BY <1>3 DEF TreeNext, CopyDir, KeepTarget, RemoveTarget, TargetExists, UseTarget, TreeMkdir,
                    TreeOpen, TreeClose, TreeEnter, CopyFile, ListEndsEarly, TreeOpenFails,
                    CopyFileFails
      <3> QED
        BY <3>1 DEF Copies, Separate, TreeBefore
    <2>2. ASSUME outcome' # "done"
          PROVE  AllIsCopied'
      BY <2>2 DEF AllIsCopied
    <2>3. ASSUME ~Copies
          PROVE  TreeInv'
      BY <1>1, <2>1, <2>3 DEF TreeInv, AllIsCopied
    <2>4. ASSUME Copies
          PROVE  CopyOK' /\ AllIsCopied'
      <3>1. CopyOK /\ SourceIsKept /\ NoNewFile
        BY <1>1, <2>4 DEF CopyOK
      <3>2. CASE CopyDir
        BY <1>1, <2>2, <2>4, <3>1, <3>2, CopyDirOK DEF CopyDir
      <3>3. CASE KeepTarget
        BY <1>1, <3>1, <3>3, KeepTargetNot
      <3>4. CASE RemoveTarget
        BY <1>1, <2>2, <2>4, <3>1, <3>4, RemoveTargetOK DEF RemoveTarget, At
      <3>5. CASE TargetExists
        BY <1>1, <2>1, <2>2, <3>1, <3>5, CallsEnd, SameSource, NoFileIsNew
           DEF TargetExists, Throw, CopyOK
      <3>6. CASE UseTarget
        BY <1>1, <2>2, <2>4, <3>1, <3>6, UseTargetOK DEF UseTarget, At
      <3>7. CASE TreeMkdir
        <4>1. outcome' # "done"
          BY <3>7 DEF TreeMkdir, At, Throw
        <4> QED
          BY <1>1, <2>2, <2>4, <3>1, <3>7, <4>1, TreeMkdirOK
      <3>8. CASE TreeOpen
        BY <1>1, <2>2, <2>4, <3>1, <3>8, TreeOpenOK DEF TreeOpen, At
      <3>9. CASE TreeClose
        BY <1>1, <2>4, <3>1, <3>9, TreeCloseOK
      <3>10. ASSUME NEW e \in TreeName, TreeEnter(e)
             PROVE  CopyOK' /\ AllIsCopied'
        BY <1>1, <2>2, <2>4, <3>1, <3>10, TreeEnterOK DEF TreeEnter, At
      <3>11. ASSUME NEW e \in TreeName, CopyFile(e)
             PROVE  CopyOK' /\ AllIsCopied'
        <4>1. outcome' # "done"
          BY <3>11 DEF CopyFile, At, Throw
        <4> QED
          BY <1>1, <2>2, <2>4, <3>1, <3>11, <4>1, CopyFileOK
      <3>12. CASE ListEndsEarly
        BY <1>1, <2>4, <3>1, <3>12, ListEndsEarlyOK
      <3>13. CASE TreeOpenFails
        BY <1>1, <2>1, <2>2, <3>1, <3>13, CallsEnd, SameSource, NoFileIsNew
           DEF TreeOpenFails, Throw, CopyOK
      <3>14. ASSUME NEW e \in TreeName, CopyFileFails(e)
             PROVE  CopyOK' /\ AllIsCopied'
        <4>1. outcome' # "done"
          BY <3>14 DEF CopyFileFails, Throw
        <4> QED
          BY <1>1, <2>2, <2>4, <3>1, <3>14, <4>1, CopyFileFailsOK
      <3> QED
        BY <1>3, <3>2, <3>3, <3>4, <3>5, <3>6, <3>7, <3>8, <3>9, <3>10, <3>11, <3>12, <3>13,
           <3>14
           DEF TreeNext
    <2> QED
      BY <1>1, <2>3, <2>4 DEF TreeInv
  <1> QED
    BY <1>2, <1>3

\* When copy_dir returns without an error, all that was below the source is at the target,
\* for every tree, every set of flags and every limit of the system, provided that source
\* and target are apart and a target that was there is not skipped (fs.lua:19-53).  What
\* copy_file and list do not tell of is excepted, however often it happens, and no more: a
\* file may break off where its own read or write failed, and what is in a directory whose
\* readdir failed may be missing (os_posix.cpp:124-135, dir_iterator_posix.hpp:39-50).
THEOREM CopyIsComplete == TreeSpec => []AllIsCopied
  <1>1. TreeInv => AllIsCopied
    BY DEF TreeInv
  <1> QED
    BY <1>1, TreeInitInv, TreeNextInv, PTL DEF TreeSpec

\* Nothing that is copied is changed, and nothing is put beside it, whatever fails
\* (fs.lua:19-53).
THEOREM CopyKeepsSource == TreeSpec => [](Copies => SourceIsKept)
  <1>1. TreeInv => (Copies => SourceIsKept)
    BY DEF TreeInv, CopyOK
  <1> QED
    BY <1>1, TreeInitInv, TreeNextInv, PTL DEF TreeSpec

-----------------------------------------------------------------------------
(* Making directories. *)

\* The outermost call is for the path that was asked for, and it has no answer yet.
MkCallIs(p) ==
  /\ \E Entry : mkStack[p] \in Seq(Entry)
  /\ Busy(p) <=> at[p] # "idle"
  /\ Busy(p) => mkStack[p][1] = asked[p] /\ mkAnswer[p] = "none"

MkInv ==
  /\ mkStack = [p \in MkProgram |-> mkStack[p]] /\ asked = [p \in MkProgram |-> asked[p]]
  /\ at = [p \in MkProgram |-> at[p]] /\ mkAnswer = [p \in MkProgram |-> mkAnswer[p]]
  /\ (\A p \in MkProgram : MkCallIs(p)) /\ MadeIsThere

LEMMA MkInitInv == MkInit => MkInv
  <1> SUFFICES ASSUME MkInit PROVE MkInv
    OBVIOUS
  <1>1. <<>> \in Seq({})
    BY EmptySeq
  <1>2. \A p \in MkProgram : MkCallIs(p)
    BY <1>1 DEF MkInit, MkCallIs, Busy
  <1> QED
    BY <1>2 DEF MkInit, MkInv, MadeIsThere

\* A step of one program leaves the calls of the others.
LEMMA OthersCall ==
  ASSUME MkInv, NEW p \in MkProgram, NEW q \in MkProgram, q # p,
         mkStack'[q] = mkStack[q], at'[q] = at[q], asked'[q] = asked[q], mkAnswer'[q] = mkAnswer[q]
  PROVE  MkCallIs(q)'
  BY DEF MkInv, MkCallIs, Busy

\* A call that is called from another returns to that.
LEMMA MkReturnOK ==
  ASSUME MkInv, NEW p \in MkProgram, at[p] # "idle", MkReturn(p)
  PROVE  /\ \A q \in MkProgram : MkCallIs(q)'
         /\ asked' = asked
         /\ mkAnswer' = [r \in MkProgram |-> mkAnswer'[r]]
         /\ mkStack' = [r \in MkProgram |-> mkStack'[r]]
         /\ at' = [r \in MkProgram |-> at'[r]]
         /\ \A q \in MkProgram : mkAnswer'[q] = mkAnswer[q] \/ q = p
         /\ mkAnswer'[p] = "made" => MkTop(p) = asked[p]
  <1>1. PICK Entry : mkStack[p] \in Seq(Entry)
    BY DEF MkInv, MkCallIs
  <1>2. mkStack[p] # <<>> /\ mkStack[p][1] = asked[p] /\ mkAnswer[p] = "none"
    BY DEF MkInv, MkCallIs, Busy
  <1>3. Len(mkStack[p]) \in Nat \ {0}
    BY <1>1, <1>2, EmptySeq
  <1>4. PICK n \in Nat : n = Len(mkStack[p]) - 1
    <2>1. PICK length \in Nat \ {0} : length = Len(mkStack[p])
      BY <1>3
    <2>2. length - 1 \in Nat
      OBVIOUS
    <2> QED
      BY <2>1, <2>2
  <1>5. /\ Front(mkStack[p]) \in Seq(Entry) /\ Len(Front(mkStack[p])) = n
        /\ n # 0 => Front(mkStack[p])[1] = mkStack[p][1]
    <2>1. \A i \in 1..n : mkStack[p][i] \in Entry
      BY <1>1, <1>3, <1>4, ElementOfSeq
    <2>2. /\ SubSeq(mkStack[p], 1, n) \in Seq(Entry)
          /\ Len(SubSeq(mkStack[p], 1, n)) = IF 1 <= n THEN n - 1 + 1 ELSE 0
          /\ \A i \in 1..n - 1 + 1 : SubSeq(mkStack[p], 1, n)[i] = mkStack[p][1 + i - 1]
      BY <1>4, <2>1, SubSeqProperties
    <2>3. Front(mkStack[p]) = SubSeq(mkStack[p], 1, n)
      BY <1>4 DEF Front
    <2>4. Len(SubSeq(mkStack[p], 1, n)) = n
      BY <2>2
    <2>5. n # 0 => SubSeq(mkStack[p], 1, n)[1] = mkStack[p][1]
      BY <2>2
    <2> QED
      BY <2>2, <2>3, <2>4, <2>5
  <1>6. Front(mkStack[p]) = <<>> <=> n = 0
    BY <1>5, EmptySeq
  <1>7. /\ mkStack' = [mkStack EXCEPT ![p] = Front(@)] /\ asked' = asked
        /\ at' = [at EXCEPT ![p] = IF n = 0 THEN "idle" ELSE "self"]
        /\ mkAnswer' = IF n = 0 THEN [mkAnswer EXCEPT ![p] = "made"] ELSE mkAnswer
    BY <1>3, <1>4 DEF MkReturn
  <1>8. /\ mkStack'[p] = Front(mkStack[p])
        /\ at'[p] = IF n = 0 THEN "idle" ELSE "self"
        /\ mkAnswer'[p] = IF n = 0 THEN "made" ELSE "none"
        /\ \A q \in MkProgram : q # p => /\ mkStack'[q] = mkStack[q] /\ at'[q] = at[q]
                                         /\ mkAnswer'[q] = mkAnswer[q]
    BY <1>2, <1>7 DEF MkInv
  <1>9. MkCallIs(p)'
    <2>1. \E E : mkStack'[p] \in Seq(E)
      BY <1>5, <1>8
    <2> QED
      BY <1>2, <1>5, <1>6, <1>7, <1>8, <2>1 DEF MkCallIs, Busy
  <1>10. \A q \in MkProgram : MkCallIs(q)'
    BY <1>7, <1>8, <1>9, OthersCall
  <1>11. mkAnswer'[p] = "made" => MkTop(p) = asked[p]
    <2>1. n = 0 => Len(mkStack[p]) = 1
      BY <1>3, <1>4
    <2> QED
      BY <1>2, <1>8, <2>1 DEF MkTop, Last
  <1> QED
    BY <1>7, <1>8, <1>10, <1>11 DEF MkInv

LEMMA MkNextInv == MkInv /\ [MkNext]_mkVars => MkInv'
  <1> SUFFICES ASSUME MkInv, [MkNext]_mkVars PROVE MkInv'
    OBVIOUS
  <1>1. CASE UNCHANGED mkVars
    BY <1>1 DEF mkVars, MkInv, MkCallIs, Busy, MadeIsThere, MkExists
  <1>2. ASSUME NEW p \in MkProgram, MkCall(p)
        PROVE  MkInv'
    <2>1. PICK path \in Paths :
            /\ mkStack' = [mkStack EXCEPT ![p] = <<Parse(path)>>]
            /\ asked' = [asked EXCEPT ![p] = Parse(path)]
      BY <1>2 DEF MkCall
    <2>2. /\ at' = [at EXCEPT ![p] = "parent"] /\ mkAnswer' = [mkAnswer EXCEPT ![p] = "none"]
          /\ disturbed' = disturbed \ {p} /\ mkDirs' = mkDirs /\ mkFiles' = mkFiles
      BY <1>2 DEF MkCall
    <2>3. PICK parsed : parsed = Parse(path)
      OBVIOUS
    <2>4. <<parsed>> \in Seq({parsed}) /\ <<parsed>> # <<>> /\ <<parsed>>[1] = parsed
      OBVIOUS
    <2>5. /\ mkStack'[p] = <<parsed>> /\ asked'[p] = parsed /\ at'[p] = "parent"
          /\ mkAnswer'[p] = "none"
          /\ \A q \in MkProgram : q # p =>
               /\ mkStack'[q] = mkStack[q] /\ asked'[q] = asked[q] /\ at'[q] = at[q]
               /\ mkAnswer'[q] = mkAnswer[q]
      BY <2>1, <2>2, <2>3 DEF MkInv
    <2>6. MkCallIs(p)'
      BY <2>4, <2>5 DEF MkCallIs, Busy
    <2>7. \A q \in MkProgram : MkCallIs(q)'
      BY <2>5, <2>6, OthersCall
    <2>8. MadeIsThere'
      BY <2>2, <2>5 DEF MkInv, MadeIsThere, MkExists
    <2> QED
      BY <2>1, <2>2, <2>7, <2>8 DEF MkInv
  <1>3. ASSUME NEW p \in MkProgram, LookParent(p)
        PROVE  MkInv'
    <2>1. /\ asked' = asked /\ mkAnswer' = mkAnswer /\ mkDirs' = mkDirs /\ mkFiles' = mkFiles
          /\ disturbed' = disturbed /\ at[p] = "parent"
      BY <1>3 DEF LookParent
    <2>2. MadeIsThere'
      BY <2>1 DEF MkInv, MadeIsThere, MkExists
    <2>3. CASE at' = [at EXCEPT ![p] = "self"] /\ mkStack' = mkStack
      <3>1. \A q \in MkProgram : MkCallIs(q)'
        BY <2>1, <2>3 DEF MkInv, MkCallIs, Busy
      <3> QED
        BY <2>1, <2>2, <2>3, <3>1 DEF MkInv
    <2>4. CASE mkStack' = [mkStack EXCEPT ![p] = Append(@, ParentPath(MkTop(p)))] /\ at' = at
      <3>1. PICK parent : parent = ParentPath(MkTop(p))
        OBVIOUS
      <3>2. PICK Entry : mkStack[p] \in Seq(Entry)
        BY DEF MkInv, MkCallIs
      <3>3. mkStack[p] # <<>> /\ mkStack[p][1] = asked[p] /\ mkAnswer[p] = "none"
        BY <2>1 DEF MkInv, MkCallIs, Busy
      <3>4. PICK Wider : Wider = Entry \cup {parent}
        OBVIOUS
      <3>5. mkStack[p] \in Seq(Wider) /\ parent \in Wider /\ 1 \in 1..Len(mkStack[p])
        <4>1. Len(mkStack[p]) \in Nat \ {0}
          BY <3>2, <3>3, EmptySeq
        <4>2. mkStack[p] \in Seq(Wider)
          BY <3>2, <3>4, SeqMonotonic
        <4> QED
          BY <3>4, <4>1, <4>2
      <3>6. /\ Append(mkStack[p], parent) \in Seq(Wider)
            /\ Append(mkStack[p], parent) # <<>>
            /\ Append(mkStack[p], parent)[1] = mkStack[p][1]
        BY <3>5, AppendProperties
      <3>7. /\ mkStack'[p] = Append(mkStack[p], parent)
            /\ \A q \in MkProgram : q # p => mkStack'[q] = mkStack[q]
        BY <2>4, <3>1 DEF MkInv
      <3>8. MkCallIs(p)'
        BY <2>1, <2>4, <3>3, <3>6, <3>7 DEF MkCallIs, Busy
      <3>9. \A q \in MkProgram : MkCallIs(q)'
        BY <2>1, <2>4, <3>7, <3>8, OthersCall
      <3> QED
        BY <2>1, <2>2, <2>4, <3>9 DEF MkInv
    <2> QED
      BY <1>3, <2>3, <2>4 DEF LookParent
  <1>4. ASSUME NEW p \in MkProgram, Look(p)
        PROVE  MkInv'
    <2>1. mkDirs' = mkDirs /\ mkFiles' = mkFiles /\ disturbed' = disturbed /\ at[p] = "self"
      BY <1>4 DEF Look
    <2>2. CASE Reached(MkTop(p)) /\ MkReturn(p)
      <3>1. at[p] # "idle"
        BY <2>1
      <3>2. \A q \in MkProgram : mkAnswer'[q] = mkAnswer[q] \/ q = p
        BY <2>2, <3>1, MkReturnOK
      <3>3. mkAnswer'[p] = "made" => MkExists(Way[asked[p]].end)
        <4>1. mkAnswer'[p] = "made" => MkTop(p) = asked[p]
          BY <2>2, <3>1, MkReturnOK
        <4>2. MkExists(Way[MkTop(p)].end)
          BY <2>2 DEF Reached
        <4> QED
          BY <4>1, <4>2
      <3>4. asked' = asked
        BY <2>2 DEF MkReturn
      <3>5. MadeIsThere'
        BY <2>1, <3>2, <3>3, <3>4 DEF MkInv, MadeIsThere, MkExists
      <3> QED
        BY <2>2, <3>1, <3>5, MkReturnOK DEF MkInv
    <2>3. CASE at' = [at EXCEPT ![p] = "mkdir"] /\ UNCHANGED <<mkStack, asked, mkAnswer>>
      BY <2>1, <2>3 DEF MkInv, MkCallIs, Busy, MadeIsThere, MkExists
    <2> QED
      BY <1>4, <2>2, <2>3 DEF Look
  <1>5. ASSUME NEW p \in MkProgram, MkMkdir(p)
        PROVE  MkInv'
    <2>1. /\ mkDirs' = mkDirs \cup {Way[MkTop(p)].end} /\ mkFiles' = mkFiles
          /\ disturbed \subseteq disturbed' /\ at[p] # "idle" /\ MkReturn(p)
      BY <1>5 DEF MkMkdir, Disturb
    <2>2. \A q \in MkProgram : mkAnswer'[q] = mkAnswer[q] \/ q = p
      BY <2>1, MkReturnOK
    <2>3. mkAnswer'[p] = "made" => Way[asked[p]].end \in mkDirs'
      <3>1. mkAnswer'[p] = "made" => MkTop(p) = asked[p]
        BY <2>1, MkReturnOK
      <3> QED
        BY <2>1, <3>1
    <2>4. asked' = asked
      BY <2>1 DEF MkReturn
    <2>5. MadeIsThere'
      BY <2>1, <2>2, <2>3, <2>4 DEF MkInv, MadeIsThere, MkExists
    <2> QED
      BY <2>1, <2>5, MkReturnOK DEF MkInv
  <1>6. ASSUME NEW p \in MkProgram, MkdirFails(p)
        PROVE  MkInv'
    <2>1. /\ mkStack' = [mkStack EXCEPT ![p] = <<>>] /\ at' = [at EXCEPT ![p] = "idle"]
          /\ mkAnswer' = [mkAnswer EXCEPT ![p] = "error"]
          /\ mkDirs' = mkDirs /\ mkFiles' = mkFiles /\ asked' = asked /\ disturbed' = disturbed
      BY <1>6 DEF MkdirFails
    <2>2. <<>> \in Seq({})
      BY EmptySeq
    <2>3. /\ mkStack'[p] = <<>> /\ at'[p] = "idle" /\ mkAnswer'[p] = "error"
          /\ \A q \in MkProgram : q # p => /\ mkStack'[q] = mkStack[q] /\ at'[q] = at[q]
                                           /\ mkAnswer'[q] = mkAnswer[q]
      BY <2>1 DEF MkInv
    <2>4. \A q \in MkProgram : MkCallIs(q)'
      <3>1. MkCallIs(p)'
        BY <2>2, <2>3 DEF MkCallIs, Busy
      <3> QED
        BY <2>1, <2>3, <3>1, OthersCall
    <2>5. MadeIsThere'
      BY <2>1, <2>3 DEF MkInv, MadeIsThere, MkExists
    <2> QED
      BY <2>1, <2>4, <2>5 DEF MkInv
  <1>7. ASSUME NEW place \in mkDirs, Lose(place)
        PROVE  MkInv'
    <2>1. /\ mkFiles' = mkFiles /\ mkStack' = mkStack /\ at' = at /\ asked' = asked
          /\ mkAnswer' = mkAnswer
          /\ disturbed' = disturbed \cup {p \in MkProgram : Busy(p) \/ mkAnswer[p] = "made"}
      BY <1>7 DEF Lose
    <2>2. MadeIsThere'
      BY <2>1 DEF MadeIsThere
    <2> QED
      BY <2>1, <2>2 DEF MkInv, MkCallIs, Busy
  <1> QED
    BY <1>1, <1>2, <1>3, <1>4, <1>5, <1>6, <1>7 DEF MkNext, Step

\* When create_directories returns without an error and no other program came between, what
\* was asked for is there, for every number of programs and every way that the paths lead
\* (os.hpp:94-112).
THEOREM WhatIsMadeIsThere == MkSpec => []MadeIsThere
  <1>1. MkInv => MadeIsThere
    BY DEF MkInv
  <1> QED
    BY <1>1, MkInitInv, MkNextInv, PTL DEF MkSpec

\* Errors.  The directories make a tree, in which the programs run.
MkTree ==
  /\ mkDirs \subseteq Seq(STRING) \ {<<>>} /\ MkIsDirectory(MkCwd)
  /\ \A place \in mkDirs : MkIsDirectory(Front(place))

\* What a program is called for, from the outside to the inside, is each the parent of the
\* one before.
MkOnWay(p) ==
  \A i \in 1..Len(mkStack[p]) :
    /\ mkStack[p][i] \in Known /\ mkStack[p][i].nodes # <<>>
    /\ Way[mkStack[p][i]].all \subseteq Way[asked[p]].all
    /\ \A j \in 1..Len(mkStack[p]) : j = i + 1 => mkStack[p][j] = ParentPath(mkStack[p][i])

\* What the innermost call has found out, or made, is still so.
ParentThere(q) == IsEmpty(ParentPath(q)) \/ Reached(ParentPath(q))
MkKnows(p) ==
  /\ at[p] \in {"self", "mkdir"} => ParentThere(MkTop(p))
  /\ at[p] = "mkdir" => ~Reached(MkTop(p))

ErrInv ==
  /\ MkInv /\ MkTree
  /\ \A p \in MkProgram : MkOnWay(p)
  /\ \A p \in MkProgram \ disturbed : MkKnows(p)
  /\ ErrorHasFile

\* When the parent is there and no file is on the way to it, what the way of a path leads
\* through is all directories.
LEMMA BeforeAreDirectories ==
  ASSUME MkTree, NEW q \in Known, q.nodes # <<>>, ParentThere(q),
         Way[ParentPath(q)].all \cap mkFiles = {}
  PROVE  \A place \in MkBefore(q) : MkIsDirectory(place)
  <1> DEFINE r == ParentPath(q)
  <1>1. r \in Known
    BY WaysAssumption DEF LeadsOn
  <1>2. IsEmpty(r) => Way[r].all = {}
    BY <1>1, WaysAssumption DEF IsEmpty
  <1>3. ASSUME Reached(r), NEW place \in Way[r].all
        PROVE  MkIsDirectory(place)
    BY <1>3 DEF Reached, MkExists, MkIsDirectory
  <1> QED
    BY <1>2, <1>3 DEF MkBefore, MkTree, MkIsDirectory, ParentThere

\* mkdir fails under these circumstances only when there is a file on the way.
LEMMA FailureHasFile ==
  ASSUME MkTree, NEW q \in Known, q.nodes # <<>>, ParentThere(q), ~Reached(q), ~CanMake(q)
  PROVE  Way[q].all \cap mkFiles # {}
  <1> SUFFICES ASSUME Way[q].all \cap mkFiles = {} PROVE FALSE
    OBVIOUS
  <1>1. LeadsOn(q)
    BY WaysAssumption
  <1>2. Way[ParentPath(q)].all \cap mkFiles = {}
    BY <1>1 DEF LeadsOn
  <1>3. \A place \in MkBefore(q) : MkIsDirectory(place)
    BY <1>2, BeforeAreDirectories
  <1>4. \A place \in Way[q].above \cup (Way[q].all \ {Way[q].end}) : MkIsDirectory(place)
    BY <1>1, <1>3 DEF LeadsOn
  <1>5. MkExists(Way[q].end)
    <2>1. CASE Way[q].named
      BY <1>4, <2>1 DEF CanMake
    <2>2. CASE ~Way[q].named
      <3>1. ASSUME NEW place \in MkBefore(q), place # <<>>
            PROVE  MkIsDirectory(Front(place))
        BY <1>3, <3>1 DEF MkTree, MkIsDirectory
      <3>2. Way[q].end \in MkBefore(q) \cup {Front(place) : place \in MkBefore(q) \ {<<>>}}
        BY <1>1, <2>2 DEF LeadsOn
      <3>3. MkIsDirectory(Way[q].end)
        BY <1>3, <3>1, <3>2
      <3> QED
        BY <3>3 DEF MkIsDirectory, MkExists
    <2> QED
      BY <2>1, <2>2
  <1> QED
    BY <1>1, <1>4, <1>5 DEF LeadsOn, Reached

\* What mkdir has made can be reached, and leaves a tree.
LEMMA MadeIsReached ==
  ASSUME MkTree, NEW q \in Known, q.nodes # <<>>, CanMake(q),
         mkDirs' = mkDirs \cup {Way[q].end}, mkFiles' = mkFiles
  PROVE  Reached(q)' /\ MkTree'
  <1>1. LeadsOn(q) /\ Way[q].named
    BY WaysAssumption DEF CanMake
  <1>2. \A place : MkIsDirectory(place) => MkIsDirectory(place)'
    BY DEF MkIsDirectory
  <1>3. \A place \in Way[q].above : MkIsDirectory(place)
    BY DEF CanMake
  <1>4. MkExists(Way[q].end)'
    BY DEF MkExists
  <1>5. Reached(q)'
    <2>1. \A place \in Way[q].all \ {Way[q].end} : MkIsDirectory(place)'
      BY <1>1, <1>2, <1>3 DEF LeadsOn
    <2> QED
      BY <1>1, <1>4, <2>1 DEF LeadsOn, Reached
  <1>6. MkTree'
    <2>1. MkIsDirectory(Front(Way[q].end))
      BY <1>1, <1>3 DEF LeadsOn, MkTree, MkIsDirectory
    <2>2. Way[q].end \in Seq(STRING) \ {<<>>}
      BY <1>1 DEF LeadsOn
    <2> QED
      BY <1>2, <2>1, <2>2 DEF MkTree
  <1> QED
    BY <1>5, <1>6

LEMMA ErrInitInv == MkInit => ErrInv
  <1> SUFFICES ASSUME MkInit PROVE ErrInv
    OBVIOUS
  <1>1. MkTree
    <2>1. PICK l \in MkLayouts : mkDirs = l.dirs /\ mkFiles = l.files
      BY DEF MkInit
    <2> QED
      BY <2>1, MakeDirsAssumption DEF MkTree, MkIsDirectory
  <1>2. \A p \in MkProgram : mkStack[p] = <<>> /\ at[p] = "idle" /\ mkAnswer[p] = "none"
    BY DEF MkInit
  <1>3. Len(<<>>) = 0
    OBVIOUS
  <1> QED
    BY <1>1, <1>2, <1>3, MkInitInv DEF ErrInv, MkOnWay, MkKnows, ErrorHasFile

\* A program that has a call under way has an innermost one.
LEMMA MkTopIs ==
  ASSUME ErrInv, NEW p \in MkProgram, at[p] # "idle"
  PROVE  /\ Len(mkStack[p]) \in Nat \ {0} /\ MkTop(p) = mkStack[p][Len(mkStack[p])]
         /\ MkTop(p) \in Known /\ MkTop(p).nodes # <<>>
         /\ Way[MkTop(p)].all \subseteq Way[asked[p]].all
  <1>1. PICK Entry : mkStack[p] \in Seq(Entry)
    BY DEF ErrInv, MkInv, MkCallIs
  <1>2. mkStack[p] # <<>>
    BY DEF ErrInv, MkInv, MkCallIs, Busy
  <1>3. Len(mkStack[p]) \in Nat \ {0}
    BY <1>1, <1>2, EmptySeq
  <1>4. MkTop(p) = mkStack[p][Len(mkStack[p])]
    BY DEF MkTop, Last
  <1>5. Len(mkStack[p]) \in 1..Len(mkStack[p])
    BY <1>3
  <1>6. MkOnWay(p)
    BY DEF ErrInv
  <1> QED
    BY <1>3, <1>4, <1>5, <1>6 DEF MkOnWay

\* Programs that rest, or whose calls and directories stay as they are, know the same.
LEMMA MkSame ==
  ASSUME ErrInv, NEW p \in MkProgram,
         mkStack'[p] = mkStack[p], asked'[p] = asked[p], at'[p] = at[p]
  PROVE  /\ MkOnWay(p)'
         /\ at[p] = "idle" => MkKnows(p)'
         /\ MkKnows(p) /\ mkDirs' = mkDirs /\ mkFiles' = mkFiles => MkKnows(p)'
  <1>1. MkOnWay(p)'
    BY DEF ErrInv, MkOnWay
  <1>2. at[p] = "idle" => MkKnows(p)'
    BY DEF MkKnows
  <1>3. ASSUME MkKnows(p), mkDirs' = mkDirs, mkFiles' = mkFiles
        PROVE  MkKnows(p)'
    <2>1. MkTop(p)' = MkTop(p)
      BY DEF MkTop
    <2>2. \A q : Reached(q)' <=> Reached(q)
      BY <1>3 DEF Reached, MkExists, MkIsDirectory
    <2> QED
      BY <1>3, <2>1, <2>2 DEF MkKnows, ParentThere
  <1> QED
    BY <1>1, <1>2, <1>3

\* The call that the one which returns was made from knows that its parent is there.
LEMMA MkReturnKnows ==
  ASSUME ErrInv, NEW p \in MkProgram, at[p] # "idle", MkReturn(p),
         NEW top \in Known, top = MkTop(p), Reached(top)'
  PROVE  /\ \A q \in MkProgram : MkOnWay(q)'
         /\ MkKnows(p)'
         /\ \A q \in MkProgram \ {p} : /\ mkStack'[q] = mkStack[q] /\ at'[q] = at[q]
                                       /\ asked'[q] = asked[q] /\ mkAnswer'[q] = mkAnswer[q]
         /\ mkAnswer'[p] \in {"none", "made"}
  <1>1. PICK Entry : mkStack[p] \in Seq(Entry)
    BY DEF ErrInv, MkInv, MkCallIs
  <1>2. PICK n \in Nat : Len(mkStack[p]) = n + 1
    <2>1. PICK length \in Nat \ {0} : length = Len(mkStack[p])
      BY MkTopIs
    <2>2. length - 1 \in Nat /\ length = (length - 1) + 1
      OBVIOUS
    <2> QED
      BY <2>1, <2>2
  <1>3. /\ Len(Front(mkStack[p])) = n
        /\ \A i \in 1..n : Front(mkStack[p])[i] = mkStack[p][i]
    <2>1. \A i \in 1..n : mkStack[p][i] \in Entry
      BY <1>1, <1>2, ElementOfSeq
    <2>2. /\ Len(SubSeq(mkStack[p], 1, n)) = IF 1 <= n THEN n - 1 + 1 ELSE 0
          /\ \A i \in 1..n - 1 + 1 : SubSeq(mkStack[p], 1, n)[i] = mkStack[p][1 + i - 1]
      BY <1>2, <2>1, SubSeqProperties
    <2>3. Front(mkStack[p]) = SubSeq(mkStack[p], 1, n)
      BY <1>2 DEF Front
    <2> QED
      BY <2>2, <2>3
  <1>4. /\ mkStack' = [mkStack EXCEPT ![p] = Front(@)] /\ asked' = asked
        /\ at' = [at EXCEPT ![p] = IF n = 0 THEN "idle" ELSE "self"]
        /\ mkAnswer' = IF n = 0 THEN [mkAnswer EXCEPT ![p] = "made"] ELSE mkAnswer
    <2>1. Len(mkStack[p]) = 1 <=> n = 0
      BY <1>2
    <2>2. CASE n = 0
      BY <2>1, <2>2 DEF MkReturn
    <2>3. CASE n # 0
      BY <2>1, <2>3 DEF MkReturn
    <2> QED
      BY <2>2, <2>3
  <1>5. /\ mkStack'[p] = Front(mkStack[p]) /\ at'[p] = IF n = 0 THEN "idle" ELSE "self"
        /\ \A q \in MkProgram \ {p} : /\ mkStack'[q] = mkStack[q] /\ at'[q] = at[q]
                                      /\ asked'[q] = asked[q] /\ mkAnswer'[q] = mkAnswer[q]
    BY <1>4 DEF ErrInv, MkInv
  <1>6. mkAnswer'[p] \in {"none", "made"}
    <2>1. mkAnswer[p] = "none"
      BY DEF ErrInv, MkInv, MkCallIs, Busy
    <2> QED
      BY <1>4, <2>1 DEF ErrInv, MkInv
  <1>7. MkOnWay(p)'
    <2>1. MkOnWay(p) /\ asked'[p] = asked[p]
      BY <1>4 DEF ErrInv
    <2>2. Len(mkStack'[p]) = n /\ \A i \in 1..n : mkStack'[p][i] = mkStack[p][i]
      BY <1>3, <1>5
    <2>3. \A i \in 1..n : i \in 1..Len(mkStack[p])
      BY <1>2
    <2> QED
      BY <2>1, <2>2, <2>3 DEF MkOnWay
  <1>8. MkKnows(p)'
    <2>1. CASE n = 0
      BY <1>5, <2>1 DEF MkKnows
    <2>2. CASE n # 0
      <3>1. n \in 1..Len(mkStack[p]) /\ n + 1 \in 1..Len(mkStack[p])
        BY <1>2, <2>2
      <3>2. top = ParentPath(mkStack[p][n])
        BY <1>2, <3>1, MkTopIs DEF ErrInv, MkOnWay
      <3>3. MkTop(p)' = mkStack[p][n]
        BY <1>3, <1>5, <3>1, <2>2 DEF MkTop, Last
      <3>4. PICK q : q = mkStack[p][n]
        OBVIOUS
      <3>5. ParentPath(q) = top /\ MkTop(p)' = q
        BY <3>2, <3>3, <3>4
      <3>6. ParentThere(q)'
        BY <3>5 DEF ParentThere
      <3>7. ParentThere(MkTop(p))'
        BY <3>5, <3>6 DEF ParentThere
      <3> QED
        BY <1>5, <2>2, <3>7 DEF MkKnows
    <2> QED
      BY <2>1, <2>2
  <1>9. \A q \in MkProgram : MkOnWay(q)'
    BY <1>5, <1>7, MkSame
  <1> QED
    BY <1>5, <1>6, <1>8, <1>9

LEMMA FrontIsPrefix ==
  ASSUME NEW s \in Seq(STRING) \ {<<>>}
  PROVE  IsPrefix(Front(s), s)
  <1>1. PICK n \in Nat : Len(s) = n + 1
    <2>1. Len(s) \in Nat \ {0}
      BY EmptySeq
    <2>2. Len(s) - 1 \in Nat /\ Len(s) = (Len(s) - 1) + 1
      BY <2>1
    <2> QED
      BY <2>2
  <1> DEFINE f == SubSeq(s, 1, n)
  <1>2. \A i \in 1..n : s[i] \in STRING
    BY <1>1, ElementOfSeq
  <1>3. f \in Seq(STRING) /\ Len(f) = n
    <2>1. f \in Seq(STRING) /\ Len(f) = IF 1 <= n THEN n - 1 + 1 ELSE 0
      BY <1>1, <1>2, SubSeqProperties
    <2> QED
      BY <2>1
  <1>4. Front(s) = f
    BY <1>1 DEF Front
  <1> HIDE DEF f
  <1>5. SubSeq(f, 1, Len(f)) = f
    BY <1>3, SubSeqFull
  <1>6. SubSeq(s, 1, Len(f)) = f
    BY <1>3 DEF f
  <1> QED
    BY <1>1, <1>3, <1>4, <1>5, <1>6 DEF IsPrefix

LEMMA ErrNextInv == ErrInv /\ [MkNext]_mkVars => ErrInv'
  <1> SUFFICES ASSUME ErrInv, [MkNext]_mkVars PROVE ErrInv'
    OBVIOUS
  <1>0. MkInv'
    BY MkNextInv DEF ErrInv
  <1>1. CASE UNCHANGED mkVars
    <2>1. MkTree' /\ ErrorHasFile'
      BY <1>1 DEF mkVars, ErrInv, MkTree, MkIsDirectory, ErrorHasFile
    <2>2. \A p \in MkProgram : MkOnWay(p)' /\ (MkKnows(p) => MkKnows(p)')
      BY <1>1, MkSame DEF mkVars
    <2> QED
      BY <1>0, <1>1, <2>1, <2>2 DEF ErrInv, mkVars
  <1>2. ASSUME NEW p \in MkProgram, MkCall(p)
        PROVE  ErrInv'
    <2>1. PICK path \in Paths :
            /\ mkStack' = [mkStack EXCEPT ![p] = <<Parse(path)>>]
            /\ asked' = [asked EXCEPT ![p] = Parse(path)]
      BY <1>2 DEF MkCall
    <2>2. /\ at' = [at EXCEPT ![p] = "parent"] /\ mkAnswer' = [mkAnswer EXCEPT ![p] = "none"]
          /\ disturbed' = disturbed \ {p} /\ mkDirs' = mkDirs /\ mkFiles' = mkFiles
      BY <1>2 DEF MkCall
    <2>3. PICK parsed : parsed = Parse(path) /\ parsed \in Known /\ parsed.nodes # <<>>
      BY WaysAssumption
    <2>4. /\ mkStack'[p] = <<parsed>> /\ asked'[p] = parsed /\ at'[p] = "parent"
          /\ mkAnswer'[p] = "none"
          /\ \A q \in MkProgram \ {p} :
               /\ mkStack'[q] = mkStack[q] /\ asked'[q] = asked[q] /\ at'[q] = at[q]
               /\ mkAnswer'[q] = mkAnswer[q]
      BY <2>1, <2>2, <2>3 DEF ErrInv, MkInv
    <2>5. MkOnWay(p)' /\ MkKnows(p)'
      <3>1. Len(<<parsed>>) = 1 /\ <<parsed>>[1] = parsed
        OBVIOUS
      <3>2. \A i, j \in 1..1 : i = 1 /\ j # i + 1
        OBVIOUS
      <3> QED
        BY <2>3, <2>4, <3>1, <3>2 DEF MkOnWay, MkKnows
    <2>6. \A q \in MkProgram \ {p} : MkOnWay(q)' /\ (MkKnows(q) => MkKnows(q)')
      BY <2>2, <2>4, MkSame
    <2>7. \A q \in MkProgram \ disturbed' : MkKnows(q)'
      BY <2>2, <2>5, <2>6 DEF ErrInv
    <2>8. ErrorHasFile'
      BY <2>2, <2>4 DEF ErrInv, ErrorHasFile
    <2>9. MkTree'
      BY <2>2 DEF ErrInv, MkTree, MkIsDirectory
    <2> QED
      BY <1>0, <2>5, <2>6, <2>7, <2>8, <2>9 DEF ErrInv
  <1>3. ASSUME NEW p \in MkProgram, LookParent(p)
        PROVE  ErrInv'
    <2>1. /\ asked' = asked /\ mkAnswer' = mkAnswer /\ mkDirs' = mkDirs /\ mkFiles' = mkFiles
          /\ disturbed' = disturbed /\ at[p] = "parent"
      BY <1>3 DEF LookParent
    <2>2. MkTree' /\ ErrorHasFile'
      BY <2>1 DEF ErrInv, MkTree, MkIsDirectory, ErrorHasFile
    <2>3. \A q : Reached(q)' <=> Reached(q)
      BY <2>1 DEF Reached, MkExists, MkIsDirectory
    <2> DEFINE parent == ParentPath(MkTop(p))
    <2>4. CASE at' = [at EXCEPT ![p] = "self"] /\ mkStack' = mkStack /\ ParentThere(MkTop(p))
      <3>1. at'[p] = "self" /\ \A q \in MkProgram \ {p} : at'[q] = at[q]
        BY <2>4 DEF ErrInv, MkInv
      <3>2. \A q \in MkProgram \ {p} : MkOnWay(q)' /\ (MkKnows(q) => MkKnows(q)')
        BY <2>1, <2>4, <3>1, MkSame
      <3>3. MkOnWay(p)'
        BY <2>1, <2>4 DEF ErrInv, MkOnWay
      <3>4. MkKnows(p)'
        <4>1. MkTop(p)' = MkTop(p)
          BY <2>4 DEF MkTop
        <4> QED
          BY <2>3, <2>4, <3>1, <4>1 DEF MkKnows, ParentThere
      <3> QED
        BY <1>0, <2>1, <2>2, <3>2, <3>3, <3>4 DEF ErrInv
    <2>5. CASE /\ mkStack' = [mkStack EXCEPT ![p] = Append(@, parent)] /\ at' = at
               /\ ~IsEmpty(parent) /\ ~Reached(parent)
      <3>1. at[p] # "idle"
        BY <2>1
      <3>2. /\ MkTop(p) = mkStack[p][Len(mkStack[p])] /\ MkTop(p) \in Known
            /\ MkTop(p).nodes # <<>> /\ Way[MkTop(p)].all \subseteq Way[asked[p]].all
        BY <3>1, MkTopIs
      <3>3. parent \in Known /\ Way[parent].all \subseteq Way[asked[p]].all
        BY <3>2, WaysAssumption DEF LeadsOn
      <3>4. parent.nodes # <<>>
        <4> SUFFICES ASSUME parent.nodes = <<>> PROVE FALSE
          OBVIOUS
        <4>1. Way[parent].end = MkCwd /\ Way[parent].all = {MkCwd}
          BY <2>5, <3>3, WaysAssumption
        <4> QED
          BY <2>5, <4>1 DEF Reached, ErrInv, MkTree, MkExists, MkIsDirectory
      <3>5. PICK Entry : mkStack[p] \in Seq(Entry)
        BY DEF ErrInv, MkInv, MkCallIs
      <3>6. PICK top : top = parent
        OBVIOUS
      <3>7. PICK Wider : Wider = Entry \cup {top}
        OBVIOUS
      <3>8. mkStack[p] \in Seq(Wider) /\ top \in Wider /\ Len(mkStack[p]) \in Nat
        <4>1. mkStack[p] \in Seq(Wider)
          BY <3>5, <3>7, SeqMonotonic
        <4> QED
          BY <3>5, <3>7, <4>1
      <3>9. /\ Len(Append(mkStack[p], top)) = Len(mkStack[p]) + 1
            /\ Append(mkStack[p], top)[Len(mkStack[p]) + 1] = top
            /\ \A i \in 1..Len(mkStack[p]) : Append(mkStack[p], top)[i] = mkStack[p][i]
        BY <3>8, AppendProperties
      <3>10. /\ mkStack'[p] = Append(mkStack[p], top)
             /\ \A q \in MkProgram \ {p} : mkStack'[q] = mkStack[q]
        BY <2>5, <3>6 DEF ErrInv, MkInv
      <3>11. MkOnWay(p)'
        <4> SUFFICES ASSUME NEW i \in 1..Len(mkStack[p]) + 1, NEW j \in 1..Len(mkStack[p]) + 1
                     PROVE  /\ mkStack'[p][i] \in Known /\ mkStack'[p][i].nodes # <<>>
                            /\ Way[mkStack'[p][i]].all \subseteq Way[asked[p]].all
                            /\ j = i + 1 => mkStack'[p][j] = ParentPath(mkStack'[p][i])
          BY <2>1, <3>9, <3>10 DEF MkOnWay
        <4>1. CASE i = Len(mkStack[p]) + 1
          <5>1. j # i + 1
            BY <3>8, <4>1
          <5> QED
            BY <3>3, <3>4, <3>6, <3>9, <3>10, <4>1, <5>1
        <4>2. CASE i \in 1..Len(mkStack[p])
          <5>1. /\ mkStack'[p][i] = mkStack[p][i] /\ mkStack[p][i] \in Known
                /\ mkStack[p][i].nodes # <<>> /\ Way[mkStack[p][i]].all \subseteq Way[asked[p]].all
            BY <3>9, <3>10, <4>2 DEF ErrInv, MkOnWay
          <5>2. CASE j \in 1..Len(mkStack[p])
            <6>1. mkStack'[p][j] = mkStack[p][j]
              BY <3>9, <3>10, <5>2
            <6>2. j = i + 1 => mkStack[p][j] = ParentPath(mkStack[p][i])
              BY <4>2, <5>2 DEF ErrInv, MkOnWay
            <6> QED
              BY <5>1, <6>1, <6>2
          <5>3. CASE j = Len(mkStack[p]) + 1
            <6>1. j = i + 1 => i = Len(mkStack[p])
              BY <3>8, <5>3
            <6>2. mkStack'[p][j] = ParentPath(MkTop(p))
              BY <3>6, <3>9, <3>10, <5>3
            <6> QED
              BY <3>2, <5>1, <6>1, <6>2
          <5> QED
            BY <3>8, <5>2, <5>3
        <4> QED
          BY <3>8, <4>1, <4>2
      <3>12. MkKnows(p)'
        BY <2>1, <2>5 DEF MkKnows
      <3>13. \A q \in MkProgram \ {p} : MkOnWay(q)' /\ (MkKnows(q) => MkKnows(q)')
        BY <2>1, <2>5, <3>10, MkSame
      <3> QED
        BY <1>0, <2>1, <2>2, <3>11, <3>12, <3>13 DEF ErrInv
    <2> QED
      BY <1>3, <2>4, <2>5 DEF LookParent, ParentThere
  <1>4. ASSUME NEW p \in MkProgram, Look(p)
        PROVE  ErrInv'
    <2>1. mkDirs' = mkDirs /\ mkFiles' = mkFiles /\ disturbed' = disturbed /\ at[p] = "self"
      BY <1>4 DEF Look
    <2>2. \A q : Reached(q)' <=> Reached(q)
      BY <2>1 DEF Reached, MkExists, MkIsDirectory
    <2>3. MkTree'
      BY <2>1 DEF ErrInv, MkTree, MkIsDirectory
    <2>4. CASE Reached(MkTop(p)) /\ MkReturn(p)
      <3>1. at[p] # "idle"
        BY <2>1
      <3>2. PICK top \in Known : top = MkTop(p)
        BY <3>1, MkTopIs
      <3>3. Reached(top)'
        BY <2>2, <2>4, <3>2
      <3>4. /\ \A q \in MkProgram : MkOnWay(q)'
            /\ MkKnows(p)'
            /\ \A q \in MkProgram \ {p} : /\ mkStack'[q] = mkStack[q] /\ at'[q] = at[q]
                                          /\ asked'[q] = asked[q] /\ mkAnswer'[q] = mkAnswer[q]
            /\ mkAnswer'[p] \in {"none", "made"}
        BY <2>4, <3>1, <3>2, <3>3, MkReturnKnows
      <3>5. \A q \in MkProgram \ {p} : MkKnows(q) => MkKnows(q)'
        BY <2>1, <3>4, MkSame
      <3>6. ErrorHasFile'
        BY <2>1, <3>4 DEF ErrInv, ErrorHasFile
      <3> QED
        BY <1>0, <2>1, <2>3, <3>4, <3>5, <3>6 DEF ErrInv
    <2>5. CASE at' = [at EXCEPT ![p] = "mkdir"] /\ UNCHANGED <<mkStack, asked, mkAnswer>>
               /\ ~Reached(MkTop(p))
      <3>1. at'[p] = "mkdir" /\ \A q \in MkProgram \ {p} : at'[q] = at[q]
        BY <2>5 DEF ErrInv, MkInv
      <3>2. \A q \in MkProgram \ {p} : MkOnWay(q)' /\ (MkKnows(q) => MkKnows(q)')
        BY <2>1, <2>5, <3>1, MkSame
      <3>3. MkOnWay(p)'
        BY <2>5 DEF ErrInv, MkOnWay
      <3>4. MkKnows(p) => MkKnows(p)'
        <4>1. MkTop(p)' = MkTop(p)
          BY <2>5 DEF MkTop
        <4> QED
          BY <2>1, <2>2, <2>5, <3>1, <4>1 DEF MkKnows, ParentThere
      <3>5. ErrorHasFile'
        BY <2>1, <2>5 DEF ErrInv, ErrorHasFile
      <3> QED
        BY <1>0, <2>1, <2>3, <3>2, <3>3, <3>4, <3>5 DEF ErrInv
    <2> QED
      BY <1>4, <2>4, <2>5 DEF Look
  <1>5. ASSUME NEW p \in MkProgram, MkMkdir(p)
        PROVE  ErrInv'
    <2>1. /\ at[p] # "idle" /\ CanMake(MkTop(p)) /\ MkReturn(p)
          /\ mkDirs' = mkDirs \cup {Way[MkTop(p)].end} /\ mkFiles' = mkFiles
          /\ disturbed' = disturbed \cup {q \in MkProgram \ {p} : Busy(q)}
      BY <1>5 DEF MkMkdir, Disturb
    <2>2. PICK top \in Known : top = MkTop(p) /\ top.nodes # <<>>
      BY <2>1, MkTopIs
    <2>3. Reached(top)' /\ MkTree'
      BY <2>1, <2>2, MadeIsReached DEF ErrInv
    <2>4. /\ \A q \in MkProgram : MkOnWay(q)'
          /\ MkKnows(p)'
          /\ \A q \in MkProgram \ {p} : /\ mkStack'[q] = mkStack[q] /\ at'[q] = at[q]
                                        /\ asked'[q] = asked[q] /\ mkAnswer'[q] = mkAnswer[q]
          /\ mkAnswer'[p] \in {"none", "made"}
      BY <2>1, <2>2, <2>3, MkReturnKnows
    <2>5. \A q \in (MkProgram \ disturbed') \ {p} : MkKnows(q)'
      <3> SUFFICES ASSUME NEW q \in MkProgram \ {p}, q \notin disturbed'
                   PROVE  MkKnows(q)'
        OBVIOUS
      <3>1. at[q] = "idle"
        BY <2>1 DEF ErrInv, MkInv, MkCallIs
      <3> QED
        BY <2>4, <3>1, MkSame
    <2>6. ErrorHasFile'
      BY <2>1, <2>4 DEF ErrInv, ErrorHasFile
    <2> QED
      BY <1>0, <2>3, <2>4, <2>5, <2>6 DEF ErrInv
  <1>6. ASSUME NEW p \in MkProgram, MkdirFails(p)
        PROVE  ErrInv'
    <2>1. /\ at[p] = "mkdir" /\ ~CanMake(MkTop(p))
          /\ mkStack' = [mkStack EXCEPT ![p] = <<>>] /\ at' = [at EXCEPT ![p] = "idle"]
          /\ mkAnswer' = [mkAnswer EXCEPT ![p] = "error"]
          /\ mkDirs' = mkDirs /\ mkFiles' = mkFiles /\ asked' = asked /\ disturbed' = disturbed
      BY <1>6 DEF MkdirFails
    <2>2. /\ mkStack'[p] = <<>> /\ at'[p] = "idle" /\ mkAnswer'[p] = "error"
          /\ \A q \in MkProgram \ {p} : /\ mkStack'[q] = mkStack[q] /\ at'[q] = at[q]
                                        /\ mkAnswer'[q] = mkAnswer[q]
      BY <2>1 DEF ErrInv, MkInv
    <2>3. MkOnWay(p)' /\ MkKnows(p)'
      <3>1. Len(<<>>) = 0
        OBVIOUS
      <3> QED
        BY <2>2, <3>1 DEF MkOnWay, MkKnows
    <2>4. \A q \in MkProgram \ {p} : MkOnWay(q)' /\ (MkKnows(q) => MkKnows(q)')
      BY <2>1, <2>2, MkSame
    <2>5. p \notin disturbed => Way[asked[p]].all \cap mkFiles # {}
      <3> SUFFICES ASSUME p \notin disturbed PROVE Way[asked[p]].all \cap mkFiles # {}
        OBVIOUS
      <3>1. at[p] # "idle"
        BY <2>1
      <3>2. /\ MkTop(p) \in Known /\ MkTop(p).nodes # <<>>
            /\ Way[MkTop(p)].all \subseteq Way[asked[p]].all
        BY <3>1, MkTopIs
      <3>3. ParentThere(MkTop(p)) /\ ~Reached(MkTop(p))
        BY <2>1 DEF ErrInv, MkKnows
      <3>4. Way[MkTop(p)].all \cap mkFiles # {}
        BY <2>1, <3>2, <3>3, FailureHasFile DEF ErrInv
      <3> QED
        BY <3>2, <3>4
    <2>6. ErrorHasFile'
      BY <2>1, <2>2, <2>5 DEF ErrInv, ErrorHasFile
    <2>7. MkTree'
      BY <2>1 DEF ErrInv, MkTree, MkIsDirectory
    <2> QED
      BY <1>0, <2>1, <2>3, <2>4, <2>6, <2>7 DEF ErrInv
  <1>7. ASSUME NEW place \in mkDirs, Lose(place)
        PROVE  ErrInv'
    <2>1. /\ mkDirs' = mkDirs \ {place} /\ ~IsPrefix(place, MkCwd)
          /\ \A other \in mkDirs \cup mkFiles : other # place => ~IsPrefix(place, other)
          /\ mkFiles' = mkFiles /\ mkStack' = mkStack /\ at' = at /\ asked' = asked
          /\ mkAnswer' = mkAnswer
          /\ disturbed' = disturbed \cup {p \in MkProgram : Busy(p) \/ mkAnswer[p] = "made"}
      BY <1>7 DEF Lose
    <2>2. MkTree'
      <3>1. IsPrefix(place, place)
        BY DEF IsPrefix, ErrInv, MkTree
      <3>2. MkIsDirectory(MkCwd)'
        BY <2>1, <3>1 DEF ErrInv, MkTree, MkIsDirectory
      <3>3. ASSUME NEW other \in mkDirs, other # place
            PROVE  MkIsDirectory(Front(other))'
        <4>1. other \in Seq(STRING) \ {<<>>}
          BY DEF ErrInv, MkTree
        <4>2. IsPrefix(Front(other), other)
          BY <4>1, FrontIsPrefix
        <4>3. Front(other) # place
          BY <2>1, <3>3, <4>2
        <4>4. MkIsDirectory(Front(other))
          BY DEF ErrInv, MkTree
        <4> QED
          BY <2>1, <4>3, <4>4 DEF MkIsDirectory
      <3> QED
        BY <2>1, <3>2, <3>3 DEF ErrInv, MkTree
    <2>3. \A p \in MkProgram \ disturbed' : MkKnows(p)'
      <3>1. \A p \in MkProgram \ disturbed' : at[p] = "idle"
        BY <2>1 DEF ErrInv, MkInv, MkCallIs
      <3> QED
        BY <2>1, <3>1, MkSame
    <2>4. \A p \in MkProgram : MkOnWay(p)'
      BY <2>1, MkSame
    <2>5. ErrorHasFile'
      BY <2>1 DEF ErrInv, ErrorHasFile
    <2> QED
      BY <1>0, <2>2, <2>3, <2>4, <2>5 DEF ErrInv
  <1> QED
    BY <1>1, <1>2, <1>3, <1>4, <1>5, <1>6, <1>7 DEF MkNext, Step

\* create_directories answers truly when no other program came between: without an error
\* what was asked for is there, and with one there is a file on the way to it; for every
\* number of programs and all directories and files to begin with (os.hpp:94-112).
THEOREM AnswersAreTrue == MkSpec => []AnswerIsTrue
  <1>1. ErrInv => AnswerIsTrue
    BY DEF ErrInv, MkInv, AnswerIsTrue
  <1> QED
    BY <1>1, ErrInitInv, ErrNextInv, PTL DEF MkSpec

=============================================================================
