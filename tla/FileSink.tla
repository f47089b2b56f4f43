------------------------------ MODULE FileSink ------------------------------
(***************************************************************************)
(* The log files (lemon/log/file_sink.cpp).  A sink writes each line to    *)
(* the file of the day and to its next block when that has grown past the  *)
(* limit.  The block number is kept in memory and starts at 0 with every   *)
(* run of the program, while the files stay; several programs may append   *)
(* to the same files.                                                      *)
(*                                                                         *)
(* openfile looks at the disk and write appends: two steps, between which  *)
(* other programs run.  A size is counted in lines.                        *)
(***************************************************************************)
EXTENDS Naturals, Sequences, FiniteSets

CONSTANTS
  SinkProgram,  \* programs that log into one directory under one name
  MaxSize,      \* file_sink._maxsize
  Days,         \* bound: days
  MaxRuns,      \* bound: runs of the programs altogether
  MaxLines      \* bound: lines of one run

ASSUME FileSinkAssumption == {MaxSize, Days, MaxRuns, MaxLines} \subseteq Nat

VARIABLES
  suffix,     \* file_sink._time_suffix
  today,      \* the date
  sinkFiles,  \* the disk: the lines of each file
  sinks,      \* sinks[p]: what the sink of program p holds
  runs        \* runs of programs so far

sinkVars == <<suffix, today, sinkFiles, sinks, runs>>

\* A file is named by a date (0 when names have none) and a block (0: no number).
SinkNoFile == <<0, 0>>
SinkName   == <<IF suffix THEN today ELSE 1, 0>>

SinkExists(f) == f \in DOMAIN sinkFiles
Size(f)   == Len(sinkFiles[f])

\* _filename, _blocks, the file that _stream has open, and where the program is.
Closed == [run |-> 0, filename |-> SinkNoFile, blocks |-> 0, stream |-> SinkNoFile,
           lines |-> 0, at |-> "off"]

-----------------------------------------------------------------------------
SinkInit ==
  /\ suffix \in BOOLEAN /\ today = 1
  /\ sinkFiles = [f \in {} |-> <<>>]
  /\ sinks = [p \in SinkProgram |-> Closed]
  /\ runs = 0

Midnight ==
  /\ today < Days /\ today' = today + 1
  /\ UNCHANGED <<suffix, sinkFiles, sinks, runs>>

\* The constructor.
SinkOpen(p) ==
  /\ sinks[p].at = "off" /\ runs < MaxRuns
  /\ runs' = runs + 1
  /\ sinks' = [sinks EXCEPT ![p] = [Closed EXCEPT !.run = runs + 1, !.at = "open"]]
  /\ UNCHANGED <<suffix, today, sinkFiles>>

\* The destructor, or the end of the program at any point.
Quit(p) ==
  /\ sinks[p].at # "off"
  /\ sinks' = [sinks EXCEPT ![p] = Closed]
  /\ UNCHANGED <<suffix, today, sinkFiles, runs>>

\* The stream opens a file to append to it.
Touch(disk, f) == [g \in DOMAIN disk \cup {f} |-> IF g \in DOMAIN disk THEN disk[g] ELSE <<>>]

\* A new name, by the first line or a new date: back to block 0.
Reopened(k) ==
  IF k.filename = SinkName THEN k
  ELSE [k EXCEPT !.filename = SinkName, !.blocks = 0, !.stream = SinkName]

Block(k, n) == <<k.filename[1], n>>

FaultyRewind(k, disk) ==   \* back to the first block
  LET f == Block(k, k.blocks) IN
    IF f \in DOMAIN disk /\ Len(disk[f]) > MaxSize
      THEN [k EXCEPT !.blocks = 1 - @, !.stream = Block(k, 1 - k.blocks)]
      ELSE k

\* The current block is past the limit: on to the next, whatever its size.
Advanced(k, disk) ==
  LET f == Block(k, k.blocks) IN
    IF f \in DOMAIN disk /\ Len(disk[f]) > MaxSize
      THEN [k EXCEPT !.blocks = @ + 1, !.stream = Block(k, k.blocks + 1)]
      ELSE k

\* openfile.
OpenFile(p) ==
  /\ sinks[p].at = "open" /\ sinks[p].lines < MaxLines
  /\ LET k == Reopened(sinks[p])
         d == Touch(sinkFiles, k.stream)
         n == Advanced(k, d)
     IN /\ sinks' = [sinks EXCEPT ![p] = [n EXCEPT !.at = "write"]]
        /\ sinkFiles' = Touch(d, n.stream)
  /\ UNCHANGED <<suffix, today, runs>>

\* The line goes to the stream, which is flushed.
Write(p) ==
  /\ sinks[p].at = "write"
  /\ LET k == sinks[p] IN
       /\ sinkFiles' = [sinkFiles EXCEPT ![k.stream] = Append(@, <<k.run, k.lines + 1>>)]
       /\ sinks' = [sinks EXCEPT ![p].lines = @ + 1, ![p].at = "open"]
  /\ UNCHANGED <<suffix, today, runs>>

SinkNext ==
  \/ Midnight
  \/ \E p \in SinkProgram : SinkOpen(p) \/ Quit(p) \/ OpenFile(p) \/ Write(p)

SinkSpec == SinkInit /\ [][SinkNext]_sinkVars

-----------------------------------------------------------------------------
(* Properties. *)

SinkBefore(f, g) == f[1] < g[1] \/ (f[1] = g[1] /\ f[2] < g[2])

\* The lines of one run are found in their order by reading the days one after the other
\* and the blocks of each by number.  Those of two runs are not, since each run passes
\* over the full blocks anew (file_sink.cpp:48, 67-79).
RunsAreInOrder ==
  \A f, g \in DOMAIN sinkFiles :
    \A i \in DOMAIN sinkFiles[f], j \in DOMAIN sinkFiles[g] :
      LET line == sinkFiles[f][i]  that == sinkFiles[g][j] IN
        line[1] = that[1] /\ (SinkBefore(f, g) \/ (f = g /\ i < j)) => line[2] < that[2]

=============================================================================
