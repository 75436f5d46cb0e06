--------------------------- MODULE StreamNodeProofs ---------------------------
(***************************************************************************)
(* That the two threads of the line reader never get in each other's way,  *)
(* for every length of the block and every file: what is still to be       *)
(* scanned is the next part of the file.                                   *)
(*                                                                         *)
(* The invariant follows the bytes through the buffer.  The window lies in *)
(* the first two blocks, and a byte of it at place i is byte Base + i of   *)
(* the file; what the second thread has fetched lies in the third block    *)
(* and follows the window.  The window ends with the second block, or with *)
(* the first while it is shifted, unless the file has been read to its     *)
(* end; only then may a missing newline move data_end.                     *)
(***************************************************************************)
EXTENDS StreamNode, TLAPS

Ahead == IF read_byte_count = -1 THEN 0 ELSE read_byte_count

\* At "start" data_end counts what was fetched already.
Base == pos - (IF at = "start" THEN 0 ELSE Ahead) - data_end
WindowEnd == data_end - (IF at = "start" THEN Ahead ELSE 0)

NumbersInv ==
    /\ pos \in Nat /\ pos <= Len(file) /\ Len(file) \in Nat
    /\ data_begin \in Nat /\ data_end \in Nat
    /\ read_byte_count \in Int /\ -1 <= read_byte_count /\ read_byte_count <= BlockLen
    /\ DOMAIN buffer = Cells

\* The file has been read, and nothing of it waits in the third block.
AllRead == pos = Len(file) /\ read_byte_count <= 0

PlacesInv ==
    /\ at \in {"ready", "scan"} => data_end <= 2 * BlockLen
    /\ at \in {"scan", "finish", "start"} => data_begin < BlockLen
    /\ at \in {"finish", "start"} => WindowEnd <= BlockLen
    /\ at = "start" => read_byte_count # -1

FullInv ==
    /\ at \in {"ready", "scan"} => data_end = 2 * BlockLen \/ AllRead
    /\ at \in {"finish", "start"} => WindowEnd = BlockLen \/ AllRead
    /\ worker = "none" => AllRead
    /\ 0 <= read_byte_count /\ read_byte_count < BlockLen => pos = Len(file)
    /\ requested => read_byte_count = -1

WindowInv ==
    at \in {"ready", "scan", "finish", "start"} =>
        \A i \in Cells :
            /\ data_begin <= i /\ i < WindowEnd
            /\ 1 <= Base + i + 1 /\ Base + i + 1 <= Len(file)
            => buffer[i] = file[Base + i + 1]

ThirdInv ==
    \A i \in Cells :
        2 * BlockLen <= i /\ i < 2 * BlockLen + read_byte_count =>
            buffer[i] = file[pos - read_byte_count + (i - 2 * BlockLen) + 1]

Reader == NumbersInv /\ PlacesInv /\ FullInv /\ WindowInv /\ ThirdInv

LEMMA CellsAreNumbers ==
    /\ BlockLen \in Nat /\ BlockLen >= 2
    /\ \A i : i \in Cells <=> i \in Nat /\ i < 3 * BlockLen
  BY BlockAssumption DEF Cells

\* What a read gives.
LEMMA CountIsBounded ==
    ASSUME NEW start \in Nat, NEW size \in Nat, Len(file) \in Nat, start <= Len(file)
    PROVE  /\ Count(start, size) \in Nat
           /\ Count(start, size) <= size
           /\ start + Count(start, size) <= Len(file)
           /\ Count(start, size) < size => start + Count(start, size) = Len(file)
  BY DEF Count, Smaller

-----------------------------------------------------------------------------

LEMMA ReaderInit == Init => Reader
<1> SUFFICES ASSUME Init
             PROVE  Reader
  OBVIOUS
<1>1. BlockLen \in Nat /\ BlockLen >= 2 /\ Len(file) \in Nat /\ DOMAIN file = 1 .. Len(file)
  BY CellsAreNumbers, FilesAssumption DEF Init
<1>2. /\ pos = Count(0, 2 * BlockLen) /\ pos \in Nat /\ pos <= 2 * BlockLen /\ pos <= Len(file)
      /\ pos < 2 * BlockLen => pos = Len(file)
  BY <1>1, CountIsBounded DEF Init
<1>3. /\ DOMAIN buffer = Cells
      /\ \A i \in Cells : i < pos => buffer[i] = file[i + 1]
  <2>1. buffer = [i \in Cells |->
                     IF i - 0 \in 0 .. pos - 1 THEN file[0 + i - 0 + 1] ELSE Unset]
    BY DEF Init, Filled
  <2>2. \A i \in Cells : i \in Nat
    BY CellsAreNumbers
  <2> QED
    BY <1>2, <2>1, <2>2
<1>4. /\ data_begin \in {0, 3} /\ data_end = pos /\ read_byte_count = -1 /\ at = "ready"
      /\ worker = "none" => pos # 2 * BlockLen
  BY DEF Init
<1>5. NumbersInv
  BY <1>1, <1>2, <1>3, <1>4 DEF NumbersInv
<1>6. PlacesInv /\ FullInv
  BY <1>1, <1>2, <1>4 DEF PlacesInv, FullInv, AllRead
<1>7. Base = 0 /\ WindowEnd = pos
  BY <1>2, <1>4 DEF Base, WindowEnd, Ahead
<1>8. WindowInv
  BY <1>2, <1>3, <1>7, CellsAreNumbers DEF WindowInv
<1>9. ThirdInv
  BY <1>1, <1>4, CellsAreNumbers DEF ThirdInv
<1> QED
  BY <1>5, <1>6, <1>8, <1>9 DEF Reader

\* next_line as far as the scan: the window may be shifted by a block.
LEMMA NextLineKeepsReader ==
    ASSUME Reader, NextLine
    PROVE  Reader'
<1> USE DEF asyncVars, lineVars
<1>1. NumbersInv /\ BlockLen \in Nat /\ BlockLen >= 2
  BY CellsAreNumbers DEF Reader
<1>2. CASE at' \in {"end", "aborted"}
  <2>1. UNCHANGED <<file, pos, buffer, data_begin, data_end, requested, read_byte_count, worker>>
    BY <1>2 DEF NextLine
  <2> QED
    BY <1>2, <2>1
    DEF Reader, NumbersInv, PlacesInv, FullInv, WindowInv, ThirdInv, AllRead
<1>3. CASE data_begin < data_end /\ data_begin < BlockLen /\ at' = "scan"
           /\ UNCHANGED <<file, pos, buffer, data_begin, data_end, requested, read_byte_count, worker>>
  <2>1. at = "ready"
    BY DEF NextLine
  <2>2. Base' = Base /\ WindowEnd' = WindowEnd
    BY <1>3, <2>1 DEF Base, WindowEnd, Ahead
  <2> QED
    BY <1>3, <2>1, <2>2
    DEF Reader, NumbersInv, PlacesInv, FullInv, WindowInv, ThirdInv, AllRead
<1>4. CASE /\ data_begin < data_end /\ data_end <= 2 * BlockLen /\ data_begin >= BlockLen
           /\ buffer' = FirstFromSecond(buffer)
           /\ data_begin' = data_begin - BlockLen
           /\ data_end' = data_end - BlockLen
           /\ at' = IF worker = "none" THEN "scan" ELSE "finish"
  <2>1. at = "ready" /\ UNCHANGED <<file, pos, requested, read_byte_count, worker>>
    BY DEF NextLine
  <2>2. /\ DOMAIN buffer' = Cells
        /\ \A i \in Cells : buffer'[i] = IF i < BlockLen THEN buffer[i + BlockLen] ELSE buffer[i]
    BY <1>4 DEF FirstFromSecond
  <2>3. NumbersInv'
    BY <1>1, <1>4, <2>1, <2>2 DEF NumbersInv, Cells
  <2>4. /\ at' \in {"scan", "finish"}
        /\ Base' = Base + BlockLen /\ WindowEnd = data_end /\ WindowEnd' = data_end - BlockLen
        /\ Base \in Int
    BY <1>1, <1>4, <2>1 DEF Base, WindowEnd, Ahead, NumbersInv
  <2>5. PlacesInv'
    BY <1>1, <1>4, <2>1, <2>4 DEF PlacesInv, NumbersInv
  <2>6. FullInv'
    BY <1>1, <1>4, <2>1, <2>4 DEF Reader, FullInv, AllRead, NumbersInv
  <2>7. WindowInv'
    <3> SUFFICES ASSUME NEW i \in Cells, data_begin - BlockLen <= i, i < data_end - BlockLen,
                        1 <= Base + BlockLen + i + 1, Base + BlockLen + i + 1 <= Len(file)
                 PROVE  buffer'[i] = file[Base + BlockLen + i + 1]
      BY <1>4, <2>1, <2>4 DEF WindowInv, Cells
    <3>1. i < BlockLen /\ i \in Nat /\ i + BlockLen \in Cells
      BY <1>1, <1>4, CellsAreNumbers DEF NumbersInv
    <3>2. buffer'[i] = buffer[i + BlockLen]
      BY <2>2, <3>1
    <3>3. data_begin <= i + BlockLen /\ i + BlockLen < data_end
      BY <1>1, <3>1 DEF NumbersInv
    <3>4. Base + (i + BlockLen) + 1 = Base + BlockLen + i + 1
      BY <1>1, <2>4, <3>1
    <3>5. buffer[i + BlockLen] = file[Base + (i + BlockLen) + 1]
      BY <2>1, <2>4, <3>1, <3>3, <3>4 DEF Reader, WindowInv
    <3> QED
      BY <3>2, <3>4, <3>5
  <2>8. ThirdInv'
    <3> SUFFICES ASSUME NEW i \in Cells, 2 * BlockLen <= i, i < 2 * BlockLen + read_byte_count
                 PROVE  buffer'[i] = file[pos - read_byte_count + (i - 2 * BlockLen) + 1]
      BY <2>1 DEF ThirdInv, Cells
    <3>1. ~(i < BlockLen)
      BY <1>1, CellsAreNumbers
    <3> QED
      BY <2>2, <3>1 DEF Reader, ThirdInv
  <2> QED
    BY <2>3, <2>5, <2>6, <2>7, <2>8 DEF Reader
<1> QED
  BY <1>1, <1>2, <1>3, <1>4 DEF NextLine, NumbersInv

LEMMA FinishKeepsReader ==
    ASSUME Reader, FinishRead
    PROVE  Reader'
<1> USE DEF asyncVars
<1>1. NumbersInv /\ BlockLen \in Nat /\ BlockLen >= 2
  BY CellsAreNumbers DEF Reader
<1>2. /\ at = "finish" /\ at' = "start" /\ read_byte_count # -1
      /\ data_end' = data_end + read_byte_count
      /\ UNCHANGED <<file, pos, buffer, data_begin, requested, read_byte_count, worker>>
  BY DEF FinishRead
<1>3. read_byte_count \in Nat
  BY <1>1, <1>2 DEF NumbersInv
<1>4. Base' = Base /\ WindowEnd' = WindowEnd /\ WindowEnd = data_end
  BY <1>1, <1>2, <1>3 DEF Base, WindowEnd, Ahead, NumbersInv
<1>5. NumbersInv'
  BY <1>1, <1>2, <1>3 DEF NumbersInv, Cells
<1>6. PlacesInv' /\ FullInv'
  BY <1>2, <1>4 DEF Reader, PlacesInv, FullInv, AllRead
<1>7. WindowInv' /\ ThirdInv'
  BY <1>2, <1>4 DEF Reader, WindowInv, ThirdInv, Cells
<1> QED
  BY <1>5, <1>6, <1>7 DEF Reader

\* The third block takes its place behind the window.
LEMMA StartKeepsReader ==
    ASSUME Reader, StartRead
    PROVE  Reader'
<1>1. NumbersInv /\ BlockLen \in Nat /\ BlockLen >= 2
  BY CellsAreNumbers DEF Reader
<1>2. /\ at = "start" /\ at' = "scan" /\ read_byte_count' = -1
      /\ buffer' = SecondFromThird(buffer)
      /\ UNCHANGED <<file, pos, data_begin, data_end, worker>>
  BY DEF StartRead
<1>3. read_byte_count \in Nat
  BY <1>1, <1>2 DEF Reader, NumbersInv, PlacesInv
<1>4. /\ DOMAIN buffer' = Cells
      /\ \A i \in Cells : buffer'[i] = IF i \in BlockLen .. 2 * BlockLen - 1
                                       THEN buffer[i + BlockLen] ELSE buffer[i]
  BY <1>2 DEF SecondFromThird
<1>5. /\ Base' = Base /\ Base = pos - data_end /\ Base \in Int
      /\ WindowEnd = data_end - read_byte_count /\ WindowEnd' = data_end
  BY <1>1, <1>2, <1>3 DEF Base, WindowEnd, Ahead, NumbersInv
<1>6. NumbersInv'
  BY <1>1, <1>2, <1>4 DEF NumbersInv, Cells
<1>7. /\ WindowEnd <= BlockLen
      /\ WindowEnd = BlockLen \/ (pos = Len(file) /\ read_byte_count = 0)
  <2>1. WindowEnd <= BlockLen /\ (WindowEnd = BlockLen \/ AllRead)
    BY <1>2 DEF Reader, PlacesInv, FullInv
  <2>2. AllRead => pos = Len(file) /\ read_byte_count = 0
    BY <1>3 DEF AllRead
  <2> QED
    BY <2>1, <2>2
<1>beginning. data_begin < BlockLen
  BY <1>2 DEF Reader, PlacesInv
<1>8. PlacesInv'
  BY <1>1, <1>2, <1>3, <1>5, <1>7, <1>beginning DEF PlacesInv, NumbersInv
<1>9. FullInv'
  <2>1. data_end = 2 * BlockLen \/ pos = Len(file)
    BY <1>1, <1>2, <1>3, <1>5, <1>7 DEF Reader, FullInv, NumbersInv
  <2>2. worker # "none" \/ pos = Len(file)
    BY DEF Reader, FullInv, AllRead
  <2> QED
    BY <1>2, <2>1, <2>2 DEF FullInv, AllRead
<1>10. WindowInv'
  <2> SUFFICES ASSUME NEW i \in Cells, data_begin <= i, i < data_end,
                      1 <= Base + i + 1, Base + i + 1 <= Len(file)
               PROVE  buffer'[i] = file[Base + i + 1]
    BY <1>2, <1>5 DEF WindowInv, Cells
  <2>1. i \in Nat /\ i < 3 * BlockLen
    BY CellsAreNumbers
  <2>2. CASE i < WindowEnd
    <3>1. i \notin BlockLen .. 2 * BlockLen - 1
      BY <1>1, <1>5, <1>7, <2>1, <2>2 DEF NumbersInv
    <3>2. buffer[i] = file[Base + i + 1]
      BY <1>2, <2>2 DEF Reader, WindowInv
    <3> QED
      BY <1>4, <3>1, <3>2
  <2>3. CASE ~(i < WindowEnd)
    <3>1. WindowEnd = BlockLen /\ data_end = BlockLen + read_byte_count
      BY <1>1, <1>3, <1>5, <1>7, <2>1, <2>3 DEF NumbersInv
    <3>2. /\ i \in BlockLen .. 2 * BlockLen - 1
          /\ i + BlockLen \in Nat /\ i + BlockLen < 3 * BlockLen
          /\ 2 * BlockLen <= i + BlockLen /\ i + BlockLen < 2 * BlockLen + read_byte_count
      BY <1>1, <1>3, <2>1, <2>3, <3>1 DEF NumbersInv
    <3>3. i + BlockLen \in Cells
      BY <3>2, CellsAreNumbers
    <3>4. buffer[i + BlockLen] =
             file[pos - read_byte_count + ((i + BlockLen) - 2 * BlockLen) + 1]
      BY <3>2, <3>3 DEF Reader, ThirdInv
    <3>5. pos - read_byte_count + ((i + BlockLen) - 2 * BlockLen) + 1 = Base + i + 1
      BY <1>1, <1>3, <1>5, <2>1, <3>1 DEF NumbersInv
    <3> QED
      BY <1>4, <3>2, <3>4, <3>5
  <2> QED
    BY <2>2, <2>3
<1>11. ThirdInv'
  BY <1>1, <1>2, CellsAreNumbers DEF ThirdInv, Cells
<1> QED
  BY <1>6, <1>8, <1>9, <1>10, <1>11 DEF Reader

\* A line is taken out of the window; data_end moves only behind the file's end.
LEMMA ScanKeepsReader ==
    ASSUME Reader, Scan
    PROVE  Reader'
<1> USE DEF asyncVars, lineVars
<1>1. NumbersInv /\ BlockLen \in Nat /\ BlockLen >= 2
  BY CellsAreNumbers DEF Reader
<1>2. /\ at = "scan" /\ UNCHANGED <<file, pos, buffer, requested, read_byte_count, worker>>
  BY DEF Scan
<1>3. data_end <= 2 * BlockLen /\ data_begin < BlockLen /\ (data_end = 2 * BlockLen \/ AllRead)
  BY <1>2 DEF Reader, PlacesInv, FullInv
<1>4. ThirdInv'
  BY <1>2 DEF Reader, ThirdInv, Cells
<1>5. CASE at' = "limit" /\ UNCHANGED <<data_begin, data_end>>
  BY <1>2, <1>4, <1>5 DEF Reader, NumbersInv, PlacesInv, FullInv, WindowInv, AllRead, Cells
<1>6. ASSUME NEW end \in data_begin .. data_end, IsLineEnd(end), ~TooLong(end), at' = "ready",
             data_begin' = end + 1,
             data_end' = data_end \/ (buffer[end] # NL /\ data_end' = data_end + 1)
      PROVE  Reader'
  <2>1. end \in Nat /\ data_begin <= end /\ end <= data_end /\ end + 1 < 2 * BlockLen
    BY <1>1, <1>3, <1>6 DEF NumbersInv, TooLong
  <2>2. CASE data_end' = data_end
    <3>1. Base' = Base /\ WindowEnd' = WindowEnd
      BY <1>2, <1>6, <2>2 DEF Base, WindowEnd, Ahead
    <3>2. NumbersInv' /\ PlacesInv' /\ FullInv'
      BY <1>1, <1>2, <1>3, <1>6, <2>1, <2>2
      DEF Reader, NumbersInv, PlacesInv, FullInv, AllRead, Cells
    <3>3. WindowInv'
      <4> SUFFICES ASSUME NEW i \in Cells, end + 1 <= i, i < WindowEnd,
                          1 <= Base + i + 1, Base + i + 1 <= Len(file)
                   PROVE  buffer[i] = file[Base + i + 1]
        BY <1>2, <1>6, <3>1 DEF WindowInv, Cells
      <4>1. data_begin <= i
        BY <1>1, <2>1, CellsAreNumbers DEF NumbersInv
      <4> QED
        BY <1>2, <4>1 DEF Reader, WindowInv
    <3> QED
      BY <1>4, <3>2, <3>3 DEF Reader
  <2>3. CASE buffer[end] # NL /\ data_end' = data_end + 1
    <3>1. end = data_end
      BY <1>6, <2>3 DEF IsLineEnd, IsEnd
    <3>2. AllRead
      BY <1>1, <1>3, <2>1, <3>1 DEF NumbersInv
    <3>3. NumbersInv' /\ PlacesInv' /\ FullInv'
      BY <1>1, <1>2, <1>6, <2>1, <2>3, <3>1, <3>2
      DEF Reader, NumbersInv, PlacesInv, FullInv, AllRead, Cells
    <3>4. WindowEnd' = data_begin'
      BY <1>6, <2>3, <3>1 DEF WindowEnd
    <3>5. WindowInv'
      BY <1>1, <1>6, <2>1, <3>4, CellsAreNumbers DEF WindowInv, NumbersInv, Cells
    <3> QED
      BY <1>4, <3>3, <3>5 DEF Reader
  <2> QED
    BY <1>6, <2>2, <2>3
<1> QED
  BY <1>5, <1>6 DEF Scan

\* The second thread writes to the third block alone.
LEMMA FetchKeepsReader ==
    ASSUME Reader, Fetch
    PROVE  Reader'
<1> DEFINE n == Count(pos, BlockLen)
<1>1. NumbersInv /\ BlockLen \in Nat /\ BlockLen >= 2
  BY CellsAreNumbers DEF Reader
<1>2. /\ read_byte_count' = n /\ pos' = pos + n
      /\ buffer' = Filled(buffer, ThirdBlock, pos, BlockLen)
      /\ requested /\ ~requested' /\ worker' \in {"waiting", "gone"}
      /\ UNCHANGED <<file, data_begin, data_end, at>>
  BY DEF Fetch
<1>3. /\ n \in Nat /\ n <= BlockLen /\ pos + n <= Len(file)
      /\ n < BlockLen => pos + n = Len(file)
  BY <1>1, CountIsBounded DEF NumbersInv
<1>4. read_byte_count = -1 /\ at # "start"
  BY <1>2 DEF Reader, FullInv, PlacesInv
<1>5. /\ DOMAIN buffer' = Cells
      /\ \A i \in Cells : buffer'[i] = IF i - 2 * BlockLen \in 0 .. n - 1
                                       THEN file[pos + i - 2 * BlockLen + 1] ELSE buffer[i]
  BY <1>1, <1>2 DEF Filled, ThirdBlock, NumbersInv
<1> HIDE DEF n
<1>6. NumbersInv'
  BY <1>1, <1>2, <1>3, <1>5 DEF NumbersInv, Cells
<1>7. Base' = Base /\ WindowEnd' = WindowEnd /\ WindowEnd = data_end
  BY <1>1, <1>2, <1>3, <1>4 DEF Base, WindowEnd, Ahead, NumbersInv
<1>8. PlacesInv'
  BY <1>2, <1>4, <1>7 DEF Reader, PlacesInv
<1>9. FullInv'
  <2>1. AllRead => n = 0
    BY <1>1, <1>3 DEF AllRead, NumbersInv
  <2>2. AllRead => AllRead'
    BY <1>1, <1>2, <2>1 DEF AllRead, NumbersInv
  <2> QED
    BY <1>2, <1>3, <1>7, <2>2 DEF Reader, FullInv
<1>10. WindowInv'
  <2> SUFFICES ASSUME at \in {"ready", "scan", "finish", "start"},
                      NEW i \in Cells, data_begin <= i, i < WindowEnd,
                      1 <= Base + i + 1, Base + i + 1 <= Len(file)
               PROVE  buffer'[i] = file[Base + i + 1]
    BY <1>2, <1>7 DEF WindowInv, Cells
  <2>1. buffer[i] = file[Base + i + 1]
    BY DEF Reader, WindowInv
  <2>2. i \in Nat /\ i < 2 * BlockLen
    BY <1>1, <1>4, <1>7, CellsAreNumbers DEF Reader, PlacesInv, NumbersInv
  <2>3. i - 2 * BlockLen \notin 0 .. n - 1
    BY <1>1, <2>2
  <2> QED
    BY <1>5, <2>1, <2>3
<1>11. ThirdInv'
  <2>1. ASSUME NEW i \in Cells, 2 * BlockLen <= i, i < 2 * BlockLen + n
        PROVE  buffer'[i] = file[pos + i - 2 * BlockLen + 1]
    <3>1. i \in Nat
      BY CellsAreNumbers
    <3>2. i - 2 * BlockLen \in 0 .. n - 1
      BY <1>1, <1>3, <2>1, <3>1
    <3> QED
      BY <1>5, <3>2
  <2>2. ASSUME NEW i \in Cells
        PROVE  pos' - read_byte_count' + (i - 2 * BlockLen) + 1 = pos + i - 2 * BlockLen + 1
    <3>1. i \in Nat
      BY CellsAreNumbers
    <3> QED
      BY <1>1, <1>2, <1>3, <3>1 DEF NumbersInv
  <2>3. Cells' = Cells
    BY DEF Cells
  <2> QED
    BY <1>2, <2>1, <2>2, <2>3 DEF ThirdInv
<1> QED
  BY <1>6, <1>8, <1>9, <1>10, <1>11 DEF Reader

\* The destructor ends both threads and leaves the buffer alone.
LEMMA EndKeepsReader ==
    ASSUME Reader, Destroy \/ Join \/ Leave \/ UNCHANGED vars
    PROVE  Reader'
<1>1. /\ UNCHANGED <<file, pos, buffer, data_begin, data_end, requested, read_byte_count>>
      /\ at' = at \/ at' \in {"join", "closed"}
      /\ worker' = "none" => worker = "none"
  BY DEF Destroy, Join, Leave, vars, lineVars, asyncVars
<1>2. at' = at => Base' = Base /\ WindowEnd' = WindowEnd
  BY <1>1 DEF Base, WindowEnd, Ahead
<1>3. NumbersInv' /\ ThirdInv'
  BY <1>1 DEF Reader, NumbersInv, ThirdInv, Cells
<1>4. PlacesInv' /\ FullInv'
  BY <1>1, <1>2 DEF Reader, PlacesInv, FullInv, AllRead
<1>5. WindowInv'
  BY <1>1, <1>2 DEF Reader, WindowInv, Cells
<1> QED
  BY <1>3, <1>4, <1>5 DEF Reader

LEMMA ReaderStep == Reader /\ [NodeNext]_<<vars, nodeVars>> => Reader'
<1>1. ASSUME [NodeNext]_<<vars, nodeVars>>
      PROVE  \/ NextLine \/ FinishRead \/ StartRead \/ Scan \/ Fetch
             \/ Destroy \/ Join \/ Leave \/ UNCHANGED vars
  BY <1>1 DEF NodeNext, Main, CallNextLine, InNextLine, ReadHeader, ReadRow, NoLine, LeaveTry,
              JoinReader, StartNode, ReadAhead, Worker
<1> QED
  BY <1>1, NextLineKeepsReader, FinishKeepsReader, StartKeepsReader, ScanKeepsReader,
     FetchKeepsReader, EndKeepsReader

LEMMA ReaderAlways == NodeSpec => []Reader
<1>1. NodeInit => Reader
  BY ReaderInit DEF NodeInit
<1> QED
  BY <1>1, ReaderStep, PTL DEF NodeSpec

\* For every length of the block and every file, and however the two threads run, what
\* next_line has not scanned yet is the next part of the file.
THEOREM ThreadsDoNotMeet == NodeSpec => []WindowIsFile
<1>1. Reader => WindowIsFile
  <2> SUFFICES ASSUME Reader, at \in {"ready", "scan"}
               PROVE  \A i \in data_begin .. data_end - 1 :
                         Base + i + 1 \in DOMAIN file => buffer[i] = file[Base + i + 1]
    BY DEF WindowIsFile, Base, Ahead
  <2> QED
    BY CellsAreNumbers DEF Reader, NumbersInv, PlacesInv, WindowInv, WindowEnd, Base, Ahead
<1> QED
  BY <1>1, ReaderAlways, PTL

\* next_line does not hold the lock when it uses the buffer.  While the second thread
\* may write to the third block, next_line does not copy it, and of what it scans only
\* the byte behind the first two blocks lies there: that byte is tested before the
\* position is (csv.h:458), but whatever is read, a line that gets so far is refused.
THEOREM ThirdBlockIsNotShared ==
    NodeSpec => [](requested =>
                      /\ at # "start"
                      /\ at = "scan" => /\ data_end <= ThirdBlock
                                        /\ data_end = ThirdBlock => TooLong(data_end))
<1>1. Reader => (requested =>
                    /\ at # "start"
                    /\ at = "scan" => /\ data_end <= ThirdBlock
                                      /\ data_end = ThirdBlock => TooLong(data_end))
  <2> SUFFICES ASSUME Reader, requested
               PROVE  /\ at # "start"
                      /\ at = "scan" => /\ data_end <= ThirdBlock
                                        /\ data_end = ThirdBlock => TooLong(data_end)
    OBVIOUS
  <2>1. at # "start"
    BY DEF Reader, PlacesInv, FullInv
  <2>2. ASSUME at = "scan"
        PROVE  /\ data_end <= ThirdBlock
               /\ data_end = ThirdBlock => TooLong(data_end)
    <3>1. data_end <= 2 * BlockLen /\ data_begin < BlockLen /\ data_begin \in Nat
      BY <2>2 DEF Reader, PlacesInv, NumbersInv
    <3> QED
      BY <3>1, CellsAreNumbers DEF ThirdBlock, TooLong
  <2> QED
    BY <2>1, <2>2
<1> QED
  BY <1>1, ReaderAlways, PTL
=============================================================================
