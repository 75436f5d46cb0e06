----------------------------- MODULE LineReader -----------------------------
(***************************************************************************)
(* How the mock stream node reads the lines of its test file (csv.h).      *)
(*                                                                         *)
(* The buffer holds three blocks.  Lines are taken from the first two; a   *)
(* second thread fills the third one ahead of time.  When the first block  *)
(* is used up the second takes its place, the third the place of the       *)
(* second, and the thread is asked for the next block.  A file that does   *)
(* not fill two blocks is read without the thread.                         *)
(*                                                                         *)
(* A byte is a member of a small set: newline, carriage return or another. *)
(* A waiting thread is a guard: every condition is changed under the lock  *)
(* and notified afterwards.  next_line tests buffer[data_end] before it    *)
(* compares the position with data_end; that byte has never been written,  *)
(* or has been read for an earlier block.                                  *)
(***************************************************************************)
EXTENDS Integers, FiniteSets, Sequences

CONSTANTS
    BlockLen,      \* block_len, 2^24 in the code
    Files          \* the files that may have to be read, sequences of bytes

ASSUME BlockAssumption == BlockLen \in Nat \ {0, 1}
ASSUME FilesAssumption == \A f \in Files : f \in Seq({f[i] : i \in DOMAIN f})

NL == "newline"
CR == "return"
Unset == "unset"   \* memory the program has not written
Bom == <<"EF", "BB", "BF">>

VARIABLES
    file,          \* the file
    pos,           \* how much of it has been read
    buffer,
    data_begin, data_end,
    file_line,
    line,          \* the line next_line returned last
    at,            \* where the reading thread is
    worker,        \* "none" (no second thread), "waiting" or "gone"
    requested,     \* desired_byte_count # -1
    read_byte_count,
    termination_requested

lineVars == <<buffer, data_begin, data_end, file_line, line>>
asyncVars == <<pos, requested, read_byte_count>>
vars == <<file, lineVars, asyncVars, at, worker, termination_requested>>

Smaller(a, b) == IF a < b THEN a ELSE b

\* What byte_source->read leaves at `from` in a buffer, and how much it reads.
Count(start, size) == Smaller(size, Len(file) - start)
Filled(old, from, start, size) ==
    [i \in DOMAIN old |->
        IF i - from \in 0 .. Count(start, size) - 1 THEN file[start + i - from + 1] ELSE old[i]]

Cells == 0 .. 3 * BlockLen - 1

SecondBlockMutant == BlockLen
\* Where the second thread reads to.
ThirdBlock == 2 * BlockLen

\* The constructor: two blocks are read at once, and the thread is created and asked
\* for the third one if they are full.
Init ==
    /\ file \in Files
    /\ pos = Count(0, 2 * BlockLen)
    /\ buffer = Filled([i \in Cells |-> Unset], 0, 0, 2 * BlockLen)
    /\ data_begin = IF pos >= 3 /\ SubSeq(file, 1, 3) = Bom THEN 3 ELSE 0
    /\ data_end = pos
    /\ file_line = 0
    /\ line = <<>>
    /\ at = "ready"
    /\ requested = (pos = 2 * BlockLen)
    /\ worker = IF requested THEN "waiting" ELSE "none"
    /\ read_byte_count = -1
    /\ termination_requested = FALSE

-----------------------------------------------------------------------------
(* next_line                                                                 *)

\* memcpy of the second block to the first, and of the third to the second.
FirstFromSecond(old) ==
    [i \in Cells |-> IF i < BlockLen THEN old[i + BlockLen] ELSE old[i]]
SecondFromThird(old) ==
    [i \in Cells |-> IF i \in BlockLen .. 2 * BlockLen - 1 THEN old[i + BlockLen] ELSE old[i]]

\* The assertions abort the program: the build file of the mock stream node leaves
\* them on unless CMake is told to build for release.
NextLine ==
    /\ at = "ready"
    /\ \/ /\ data_begin = data_end
          /\ at' = "end"
          /\ UNCHANGED lineVars
       \/ /\ data_begin # data_end
          /\ data_begin > data_end \/ data_end > 2 * BlockLen
          /\ at' = "aborted"
          /\ file_line' = file_line + 1
          /\ UNCHANGED <<buffer, data_begin, data_end, line>>
       \/ /\ data_begin < data_end /\ data_end <= 2 * BlockLen
          /\ file_line' = file_line + 1
          /\ IF data_begin >= BlockLen
             THEN /\ buffer' = FirstFromSecond(buffer)
                  /\ data_begin' = data_begin - BlockLen
                  /\ data_end' = data_end - BlockLen
                  /\ at' = IF worker = "none" THEN "scan" ELSE "finish"
             ELSE at' = "scan" /\ UNCHANGED <<buffer, data_begin, data_end>>
          /\ UNCHANGED line
    /\ UNCHANGED <<file, asyncVars, worker, termination_requested>>

FinishRead ==
    /\ at = "finish"
    /\ read_byte_count # -1
    /\ data_end' = data_end + read_byte_count
    /\ at' = "start"
    /\ UNCHANGED <<file, buffer, data_begin, file_line, line, asyncVars, worker,
                   termination_requested>>

NoCopyMutant ==
    /\ at = "start"
    /\ requested' = TRUE
    /\ read_byte_count' = -1
    /\ at' = "scan"
    /\ UNCHANGED <<file, pos, lineVars, worker, termination_requested>>
StartRead ==
    /\ at = "start"
    /\ buffer' = SecondFromThird(buffer)
    /\ requested' = TRUE
    /\ read_byte_count' = -1
    /\ at' = "scan"
    /\ UNCHANGED <<file, pos, data_begin, data_end, file_line, line, worker,
                   termination_requested>>

\* The loop stops at the first newline, or at data_end; the byte at data_end is
\* tested as well, and if nobody has written it, it may be a newline.  (The zeros
\* that end the lines are written in front of data_begin and not read again.)
IsEnd(i) == i = data_end \/ buffer[i] = NL
IsLineEnd(i) == IsEnd(i) /\ \A j \in data_begin .. i - 1 : ~IsEnd(j)

\* One carriage return at the end of a line is cut off.
Stripped(bytes) ==
    IF bytes # <<>> /\ bytes[Len(bytes)] = CR
    THEN SubSeq(bytes, 1, Len(bytes) - 1) ELSE bytes

LimitMutant(end) == end - data_begin > BlockLen
TooLong(end) == end - data_begin + 1 > BlockLen

Scan ==
    /\ at = "scan"
    /\ \E end \in data_begin .. data_end :
          /\ IsLineEnd(end)
          /\ \/ /\ TooLong(end)
                /\ at' = "limit"
                /\ UNCHANGED lineVars
             \/ /\ ~TooLong(end)
                /\ at' = "ready"
                /\ line' = Stripped([k \in 1 .. end - data_begin |-> buffer[data_begin + k - 1]])
                /\ data_begin' = end + 1
                /\ \/ buffer[end] \in {NL, Unset} /\ UNCHANGED data_end
                   \/ buffer[end] # NL /\ data_end' = data_end + 1
                /\ UNCHANGED <<buffer, file_line>>
    /\ UNCHANGED <<file, asyncVars, worker, termination_requested>>

-----------------------------------------------------------------------------
(* The destructor and the second thread                                      *)

NoTerminationMutant ==
    /\ at \in {"ready", "end", "limit"}
    /\ at' = "join"
    /\ UNCHANGED <<file, lineVars, asyncVars, worker, termination_requested>>
Destroy ==
    /\ at \in {"ready", "end", "limit"}
    /\ at' = "join"
    /\ termination_requested' = TRUE
    /\ UNCHANGED <<file, lineVars, asyncVars, worker>>

Join ==
    /\ at = "join"
    /\ worker \in {"none", "gone"}
    /\ at' = "closed"
    /\ UNCHANGED <<file, lineVars, asyncVars, worker, termination_requested>>

\* The thread ends after it has found the end of the file.
Fetch ==
    /\ worker = "waiting"
    /\ requested /\ ~termination_requested
    /\ read_byte_count' = Count(pos, BlockLen)
    /\ pos' = pos + Count(pos, BlockLen)
    /\ buffer' = Filled(buffer, ThirdBlock, pos, BlockLen)
    /\ requested' = FALSE
    /\ worker' = IF read_byte_count' = 0 THEN "gone" ELSE "waiting"
    /\ UNCHANGED <<file, data_begin, data_end, file_line, line, at, termination_requested>>

Leave ==
    /\ worker = "waiting"
    /\ termination_requested
    /\ worker' = "gone"
    /\ UNCHANGED <<file, lineVars, asyncVars, at, termination_requested>>

Worker == Fetch \/ Leave

-----------------------------------------------------------------------------
(* Properties                                                                *)

\* Every variable stays in its range; a line is never as long as a block.
TypeOK ==
    /\ pos \in 0 .. Len(file)
    /\ DOMAIN buffer = Cells
    /\ data_begin \in 0 .. 2 * BlockLen + 1
    /\ data_end \in 0 .. 2 * BlockLen + 1
    /\ file_line \in 0 .. Len(file) + 1
    /\ Len(line) < BlockLen
    /\ at \in {"ready", "finish", "start", "scan", "limit", "end", "aborted", "join", "closed"}
    /\ worker \in {"none", "waiting", "gone"}
    /\ requested \in BOOLEAN
    /\ read_byte_count \in -1 .. BlockLen
    /\ termination_requested \in BOOLEAN

\* The lines of the file by their definition, without the byte order mark.
Text == IF Len(file) >= 3 /\ SubSeq(file, 1, 3) = Bom THEN SubSeq(file, 4, Len(file)) ELSE file
Whole == Text = <<>> \/ Text[Len(Text)] = NL
Ends == {i \in DOMAIN Text : Text[i] = NL} \cup IF Whole THEN {} ELSE {Len(Text) + 1}
EndOf(n) == CHOOSE i \in Ends : Cardinality({j \in Ends : j <= i}) = n
RawLine(n) == SubSeq(Text, IF n = 1 THEN 1 ELSE EndOf(n - 1) + 1, EndOf(n) - 1)

\* next_line returns the lines of the file, each once and in order, refuses exactly
\* those as long as a block, and says "no more" after the last one - or does not get
\* so far, if the last line has no newline.
LinesOfTheFile ==
    /\ at = "ready" /\ file_line > 0 => line = Stripped(RawLine(file_line))
    /\ at = "limit" => Len(RawLine(file_line)) >= BlockLen
    /\ at = "end" => file_line = Cardinality(Ends)
    /\ at = "aborted" => file_line = Cardinality(Ends) + 1 /\ ~Whole

\* What is still to be scanned is always the next part of the file: the second
\* thread never overwrites it, whatever the two threads do in which order.
WindowIsFile ==
    at \in {"ready", "scan"} =>
        LET ahead == IF read_byte_count = -1 THEN 0 ELSE read_byte_count
            first == pos - ahead - data_end
        IN \A i \in data_begin .. data_end - 1 : first + i + 1 \in DOMAIN file =>
               buffer[i] = file[first + i + 1]
=============================================================================
