--------------------------- MODULE StreamNodeLines ----------------------------
(***************************************************************************)
(* That next_line returns the lines of the file, each once and in order,   *)
(* and that the nodes are the rows in front of the first bad one, for      *)
(* every length of the block and every file.                               *)
(***************************************************************************)
EXTENDS StreamNodeProofs, FiniteSetTheorems, SequenceTheorems, WellFoundedInduction

-----------------------------------------------------------------------------
(* Counting the elements of a set of numbers                                 *)

LEMMA LeastOfNumbers ==
    ASSUME NEW T, T \subseteq Nat, T # {}
    PROVE  \E x \in T : \A y \in T : x <= y
<1>1. IsWellFoundedOn({ss \in Nat \X Nat : ss[1] < ss[2]}, Nat)
  BY NatLessThanWellFounded DEF OpToRel
<1>2. PICK x \in T : \A y \in T : <<y, x>> \notin {ss \in Nat \X Nat : ss[1] < ss[2]}
  BY <1>1, WFMin
<1>3. ASSUME NEW y \in T
      PROVE  x <= y
  <2>1. <<y, x>> \in Nat \X Nat /\ ~(y < x)
    BY <1>2
  <2> QED
    BY <2>1
<1> QED
  BY <1>3

LEMMA PartIsFinite ==
    ASSUME NEW S, IsFiniteSet(S), NEW p
    PROVE  /\ IsFiniteSet({j \in S : j <= p})
           /\ Cardinality({j \in S : j <= p}) \in Nat
           /\ Cardinality({j \in S : j <= p}) <= Cardinality(S)
           /\ Cardinality(S) \in Nat
  BY FS_Subset, FS_CardinalityType

\* The next element is one more.
LEMMA NextCount ==
    ASSUME NEW S, S \subseteq Nat, IsFiniteSet(S), NEW p \in Nat, NEW e \in S, p < e,
           \A j \in S : ~(p < j /\ j < e)
    PROVE  Cardinality({j \in S : j <= e}) = Cardinality({j \in S : j <= p}) + 1
<1> DEFINE P == {j \in S : j <= p}
<1>1. {j \in S : j <= e} = P \cup {e}
  <2>1. ASSUME NEW j \in S
        PROVE  j <= e <=> j <= p \/ j = e
    <3>1. j \in Nat /\ e \in Nat /\ ~(p < j /\ j < e)
      OBVIOUS
    <3> QED
      BY <3>1
  <2> QED
    BY <2>1
<1>2. e \notin P
  OBVIOUS
<1>3. IsFiniteSet(P)
  BY PartIsFinite
<1> HIDE DEF P
<1>4. Cardinality(P \cup {e}) = Cardinality(P) + 1
  BY <1>2, <1>3, FS_AddElement
<1> QED
  BY <1>1, <1>4 DEF P

LEMMA LaterCountsMore ==
    ASSUME NEW S, S \subseteq Nat, IsFiniteSet(S), NEW a \in S, NEW b \in S, a < b
    PROVE  Cardinality({j \in S : j <= a}) < Cardinality({j \in S : j <= b})
<1> DEFINE A == {j \in S : j <= a}
           B == {j \in S : j <= b}
<1>1. A \subseteq B /\ b \in B /\ b \notin A
  <2>1. \A j \in S : j <= a => j <= b
    OBVIOUS
  <2>2. b <= b /\ ~(b <= a)
    OBVIOUS
  <2> QED
    BY <2>1, <2>2
<1>2. IsFiniteSet(B) /\ Cardinality(A) \in Nat /\ Cardinality(B) \in Nat
  BY PartIsFinite
<1> HIDE DEF A, B
<1>3. Cardinality(A) <= Cardinality(B) /\ (Cardinality(B) = Cardinality(A) => B = A)
  BY <1>1, <1>2, FS_Subset
<1>4. Cardinality(A) < Cardinality(B)
  BY <1>1, <1>2, <1>3
<1> QED
  BY <1>4 DEF A, B

\* An element is found again by its count.
LEMMA FoundByCount ==
    ASSUME NEW S, S \subseteq Nat, IsFiniteSet(S), NEW e \in S,
           NEW n, n = Cardinality({j \in S : j <= e})
    PROVE  (CHOOSE k \in S : Cardinality({j \in S : j <= k}) = n) = e
<1> DEFINE i == CHOOSE k \in S : Cardinality({j \in S : j <= k}) = n
<1>1. i \in S /\ Cardinality({j \in S : j <= i}) = n
  <2>1. \E k \in S : Cardinality({j \in S : j <= k}) = n
    OBVIOUS
  <2> QED
    BY <2>1, Zenon
<1> HIDE DEF i
<1>2. ~(i < e) /\ ~(e < i)
  <2>1. ASSUME i < e
        PROVE  FALSE
    <3>1. n < n
      BY <1>1, <2>1, LaterCountsMore
    <3> QED
      BY <3>1, PartIsFinite
  <2>2. ASSUME e < i
        PROVE  FALSE
    <3>1. n < n
      BY <1>1, <2>2, LaterCountsMore
    <3> QED
      BY <3>1, PartIsFinite
  <2> QED
    BY <2>1, <2>2
<1>3. i = e
  BY <1>1, <1>2
<1> QED
  BY <1>3 DEF i
-----------------------------------------------------------------------------
(* The lines of the file                                                     *)

\* What the byte order mark takes of the file.
Skip == IF Len(file) >= 3 /\ SubSeq(file, 1, 3) = Bom THEN 3 ELSE 0

EndsUpTo(p) == {j \in Ends : j <= p}

LEMMA TextIsFile ==
    ASSUME file \in Files
    PROVE  /\ Len(file) \in Nat /\ Len(Text) \in Nat /\ Len(Text) = Len(file) - Skip
           /\ Skip \in Nat /\ Skip <= Len(file) /\ Skip \in {0, 3}
           /\ DOMAIN Text = 1 .. Len(Text) /\ (Text = <<>> <=> Len(Text) = 0)
           /\ \A i \in 1 .. Len(Text) : Text[i] = file[i + Skip]
<1> DEFINE B == {file[i] : i \in DOMAIN file}
<1>1. file \in Seq(B)
  BY FilesAssumption
<1> HIDE DEF B
<1>2. /\ Len(file) \in Nat /\ DOMAIN file = 1 .. Len(file)
      /\ \A i \in 1 .. Len(file) : file[i] \in B
  BY <1>1
<1>3. CASE Len(file) >= 3 /\ SubSeq(file, 1, 3) = Bom
  <2>1. Skip = 3 /\ Text = SubSeq(file, 4, Len(file))
    BY <1>3 DEF Skip, Text
  <2>2. /\ SubSeq(file, 4, Len(file)) \in Seq(B)
        /\ Len(SubSeq(file, 4, Len(file))) = IF 4 <= Len(file) THEN Len(file) - 4 + 1 ELSE 0
        /\ \A i \in 1 .. Len(file) - 4 + 1 : SubSeq(file, 4, Len(file))[i] = file[4 + i - 1]
    BY <1>2, SubSeqProperties
  <2>3. /\ Text \in Seq(B) /\ Len(Text) = Len(file) - 3
        /\ \A i \in 1 .. Len(file) - 3 : Text[i] = file[i + 3]
    BY <1>2, <1>3, <2>1, <2>2
  <2>4. DOMAIN Text = 1 .. Len(Text) /\ (Text = <<>> <=> Len(Text) = 0)
    BY <2>3
  <2> QED
    BY <1>2, <1>3, <2>1, <2>3, <2>4
<1>4. CASE ~(Len(file) >= 3 /\ SubSeq(file, 1, 3) = Bom)
  <2>1. Skip = 0 /\ Text = file
    BY <1>4 DEF Skip, Text
  <2>2. file = <<>> <=> Len(file) = 0
    BY <1>1
  <2> QED
    BY <1>2, <2>1, <2>2
<1> QED
  BY <1>3, <1>4

\* There is an end for every newline, and one behind the text if the last line has
\* no newline: never more than the text has bytes.
LEMMA EndsFacts ==
    ASSUME file \in Files
    PROVE  /\ Ends \subseteq Nat /\ IsFiniteSet(Ends)
           /\ Cardinality(Ends) \in Nat /\ Cardinality(Ends) <= Len(Text)
           /\ \A e \in Ends : e \in 1 .. Len(Text) + 1 /\ (e = Len(Text) + 1 => ~Whole)
           /\ \A i \in 1 .. Len(Text) : i \in Ends <=> Text[i] = NL
           /\ ~Whole => Len(Text) > 0 /\ Len(Text) + 1 \in Ends /\ Len(Text) \notin Ends
           /\ Whole /\ Len(Text) > 0 => Len(Text) \in Ends
<1> DEFINE L == Len(Text)
<1>1. L \in Nat /\ DOMAIN Text = 1 .. L /\ (Text = <<>> <=> L = 0)
  BY TextIsFile
<1> HIDE DEF L
<1>2. /\ \A e \in Ends : e \in 1 .. L + 1 /\ (e = L + 1 => ~Whole)
      /\ \A i \in 1 .. L : i \in Ends <=> Text[i] = NL
      /\ ~Whole => L + 1 \in Ends
  BY <1>1 DEF Ends, L
<1>3. Whole <=> L = 0 \/ Text[L] = NL
  BY <1>1 DEF Whole, L
<1>4. /\ ~Whole => L > 0 /\ L \notin Ends
      /\ Whole /\ L > 0 => L \in Ends
  BY <1>1, <1>2, <1>3
<1>5. IsFiniteSet(1 .. L) /\ Cardinality(1 .. L) = L
  BY <1>1, FS_Interval
<1>6. CASE Whole
  <2>1. Ends \subseteq 1 .. L
    BY <1>1, <1>2, <1>6
  <2>2. IsFiniteSet(Ends) /\ Cardinality(Ends) <= L /\ Cardinality(Ends) \in Nat
    BY <1>5, <2>1, FS_Subset, FS_CardinalityType
  <2> QED
    BY <1>1, <1>2, <1>4, <2>2 DEF L
<1>7. CASE ~Whole
  <2> DEFINE M == 1 .. (L - 1)
  <2>1. Ends \subseteq M \cup {L + 1}
    BY <1>1, <1>2, <1>4, <1>7
  <2>2. IsFiniteSet(M) /\ Cardinality(M) = L - 1 /\ L + 1 \notin M
    BY <1>1, <1>4, <1>7, FS_Interval
  <2> HIDE DEF M
  <2>3. IsFiniteSet(M \cup {L + 1}) /\ Cardinality(M \cup {L + 1}) = (L - 1) + 1
    BY <2>2, FS_AddElement
  <2>4. IsFiniteSet(Ends) /\ Cardinality(Ends) <= (L - 1) + 1 /\ Cardinality(Ends) \in Nat
    BY <2>1, <2>3, FS_Subset, FS_CardinalityType
  <2> QED
    BY <1>1, <1>2, <1>4, <2>4 DEF L
<1> QED
  BY <1>6, <1>7

\* A line lies between two ends that have none between them.
LEMMA RawLineIs ==
    ASSUME file \in Files, NEW p \in Nat, p = 0 \/ p \in Ends,
           NEW e \in Ends, p < e, \A j \in Ends : ~(p < j /\ j < e),
           NEW n, n = Cardinality(EndsUpTo(p)) + 1
    PROVE  /\ n \in Nat /\ n > 0 /\ n <= Cardinality(Ends)
           /\ Cardinality(EndsUpTo(e)) = n
           /\ RawLine(n) = SubSeq(Text, p + 1, e - 1)
           /\ Len(RawLine(n)) = e - p - 1
           /\ RawLine(n) = [k \in 1 .. e - p - 1 |-> Text[p + k]]
<1>1. /\ Ends \subseteq Nat /\ IsFiniteSet(Ends) /\ e \in Nat /\ e <= Len(Text) + 1
      /\ Len(Text) \in Nat /\ DOMAIN Text = 1 .. Len(Text)
  BY EndsFacts, TextIsFile
<1>2. /\ Cardinality(EndsUpTo(p)) \in Nat
      /\ Cardinality(EndsUpTo(e)) <= Cardinality(Ends)
      /\ Cardinality(Ends) \in Nat
  BY <1>1, PartIsFinite DEF EndsUpTo
<1>3. Cardinality(EndsUpTo(e)) = n
  BY <1>1, NextCount DEF EndsUpTo
<1>4. EndOf(n) = e
  BY <1>1, <1>3, FoundByCount DEF EndOf, EndsUpTo
<1>5. (IF n = 1 THEN 1 ELSE EndOf(n - 1) + 1) = p + 1
  <2>1. CASE p = 0
    <3>1. EndsUpTo(p) = {}
      <4>1. \A j \in Ends : j \in 1 .. Len(Text) + 1
        BY EndsFacts
      <4>2. \A j \in Ends : ~(j <= p)
        BY <1>1, <2>1, <4>1
      <4> QED
        BY <4>2 DEF EndsUpTo
    <3>2. n = 1
      BY <3>1, FS_EmptySet
    <3> QED
      BY <2>1, <3>2
  <2>2. CASE p \in Ends
    <3>1. p \in EndsUpTo(p) /\ IsFiniteSet(EndsUpTo(p))
      <4>1. p <= p
        OBVIOUS
      <4> QED
        BY <1>1, <2>2, <4>1, PartIsFinite DEF EndsUpTo
    <3>2. Cardinality(EndsUpTo(p)) # 0
      BY <3>1, FS_EmptySet
    <3>3. n # 1 /\ n - 1 = Cardinality(EndsUpTo(p))
      BY <1>2, <3>2
    <3>4. EndOf(n - 1) = p
      BY <1>1, <2>2, <3>3, FoundByCount DEF EndOf, EndsUpTo
    <3> QED
      BY <3>3, <3>4
  <2> QED
    BY <2>1, <2>2
<1>6. RawLine(n) = SubSeq(Text, p + 1, e - 1)
  BY <1>4, <1>5 DEF RawLine
<1> DEFINE B == {Text[i] : i \in DOMAIN Text}
<1>7. \A i \in p + 1 .. e - 1 : Text[i] \in B
  BY <1>1
<1> HIDE DEF B
<1>8. /\ SubSeq(Text, p + 1, e - 1) \in Seq(B)
      /\ Len(SubSeq(Text, p + 1, e - 1)) =
            IF p + 1 <= e - 1 THEN (e - 1) - (p + 1) + 1 ELSE 0
      /\ \A i \in 1 .. (e - 1) - (p + 1) + 1 :
            SubSeq(Text, p + 1, e - 1)[i] = Text[(p + 1) + i - 1]
  BY <1>1, <1>7, SubSeqProperties
<1>9. /\ Len(SubSeq(Text, p + 1, e - 1)) = e - p - 1
      /\ SubSeq(Text, p + 1, e - 1) = [k \in 1 .. e - p - 1 |-> Text[p + k]]
  <2> DEFINE raw == SubSeq(Text, p + 1, e - 1)
  <2>1. Len(raw) = e - p - 1 /\ \A k \in 1 .. e - p - 1 : raw[k] = Text[p + k]
    BY <1>1, <1>8
  <2>2. raw \in Seq(B)
    BY <1>8
  <2> HIDE DEF raw
  <2>3. raw = [k \in 1 .. e - p - 1 |-> Text[p + k]]
    BY <2>1, <2>2
  <2> QED
    BY <2>1, <2>3 DEF raw
<1>10. n \in Nat /\ n > 0 /\ n <= Cardinality(Ends)
  BY <1>2, <1>3
<1> QED
  BY <1>3, <1>6, <1>9, <1>10
-----------------------------------------------------------------------------
(* The lines as they are read                                                *)

\* How much of the text has been scanned: up to here all lines were returned.
Scanned == (Base + data_begin) - Skip

Behind(n) ==
    /\ Scanned \in Nat
    /\ Scanned = 0 \/ Scanned \in Ends
    /\ n = Cardinality(EndsUpTo(Scanned))

\* Between two calls: in the text, or behind a last line without newline.
Between ==
    /\ data_begin <= data_end
    /\ data_begin < 2 * BlockLen \/ AllRead
    /\ Behind(file_line)
LastLine ==
    /\ AllRead /\ ~Whole
    /\ file_line = Cardinality(Ends)
    /\ data_begin \in {data_end, data_end + 1}

\* In the middle of a call there is something to be scanned.
Within == data_begin < WindowEnd /\ Behind(file_line - 1)

LinesInv ==
    /\ file \in Files /\ file_line \in Nat
    /\ at = "ready" => Between \/ LastLine
    /\ at = "ready" /\ file_line > 0 => line = Stripped(RawLine(file_line)) /\ Fine(file_line)
    /\ at \in {"finish", "start", "scan"} => Within
    /\ at = "limit" =>
          file_line \in Lines /\ ~Fine(file_line) /\ Len(RawLine(file_line)) >= BlockLen
    /\ at = "end" => file_line = Cardinality(Ends)
    /\ at = "aborted" => file_line = Cardinality(Ends) + 1 /\ ~Whole

LEMMA SameFile ==
    ASSUME file' = file
    PROVE  /\ Text' = Text /\ Skip' = Skip /\ (Whole' <=> Whole) /\ Ends' = Ends /\ Lines' = Lines
           /\ \A p : EndsUpTo(p)' = EndsUpTo(p)
           /\ \A n : RawLine(n)' = RawLine(n) /\ (Fine(n)' <=> Fine(n))
<1>1. Text' = Text /\ Skip' = Skip
  BY DEF Text, Skip
<1>2. (Whole' <=> Whole) /\ Ends' = Ends
  BY <1>1 DEF Whole, Ends
<1>3. \A n : EndOf(n)' = EndOf(n)
  BY <1>2 DEF EndOf
<1>4. \A n : RawLine(n)' = RawLine(n)
  BY <1>1, <1>3 DEF RawLine
<1> QED
  BY <1>1, <1>2, <1>4 DEF EndsUpTo, Fine, Lines

\* A step that scans nothing stays behind the same line.
LEMMA SameLine ==
    ASSUME file' = file, Scanned' = Scanned
    PROVE  \A n : Behind(n)' <=> Behind(n)
  BY SameFile DEF Behind

LEMMA LinesInit == Init => LinesInv
<1> SUFFICES ASSUME Init
             PROVE  LinesInv
  OBVIOUS
<1>1. /\ file \in Files /\ file_line = 0 /\ at = "ready" /\ data_end = pos
      /\ read_byte_count = -1
      /\ data_begin = IF pos >= 3 /\ SubSeq(file, 1, 3) = Bom THEN 3 ELSE 0
  BY DEF Init
<1>2. NumbersInv /\ BlockLen \in Nat /\ BlockLen >= 2
  BY ReaderInit, CellsAreNumbers DEF Reader
<1>3. pos >= 3 <=> Len(file) >= 3
  BY <1>1, <1>2 DEF NumbersInv, Init, Count, Smaller
<1>4. data_begin = Skip /\ data_begin <= data_end /\ data_begin < 2 * BlockLen
  BY <1>1, <1>2, <1>3 DEF Skip, NumbersInv
<1>5. Base = 0 /\ Scanned = 0
  BY <1>1, <1>2, <1>4 DEF Base, Ahead, Scanned, NumbersInv
<1>6. Cardinality(EndsUpTo(0)) = 0
  <2>1. \A e \in Ends : e \in 1 .. Len(Text) + 1 /\ Len(Text) \in Nat
    BY <1>1, EndsFacts, TextIsFile
  <2>2. EndsUpTo(0) = {}
    BY <2>1 DEF EndsUpTo
  <2> QED
    BY <2>2, FS_EmptySet
<1>7. Between
  BY <1>1, <1>4, <1>5, <1>6 DEF Between, Behind
<1> QED
  BY <1>1, <1>7 DEF LinesInv

LEMMA AsideKeepsLines ==
    ASSUME Reader, LinesInv, FinishRead \/ StartRead \/ Fetch
    PROVE  LinesInv'
<1>1. NumbersInv /\ BlockLen \in Nat /\ BlockLen >= 2 /\ Skip \in Nat
  BY CellsAreNumbers, TextIsFile DEF Reader, LinesInv
<1>2. file' = file /\ file_line' = file_line /\ line' = line /\ data_begin' = data_begin
  BY DEF FinishRead, StartRead, Fetch, asyncVars
<1>3. CASE FinishRead
  <2>1. /\ at = "finish" /\ at' = "start" /\ read_byte_count \in Nat
        /\ data_end' = data_end + read_byte_count /\ UNCHANGED <<pos, read_byte_count>>
    BY <1>1, <1>3 DEF FinishRead, asyncVars, NumbersInv
  <2>2. Base' = Base /\ WindowEnd' = WindowEnd
    BY <1>1, <2>1 DEF Base, WindowEnd, Ahead, NumbersInv
  <2>3. Scanned' = Scanned
    BY <1>2, <2>2, SameFile DEF Scanned
  <2>4. Within'
    BY <1>2, <2>1, <2>2, <2>3, SameLine DEF LinesInv, Within
  <2> QED
    BY <1>2, <2>1, <2>4 DEF LinesInv
<1>4. CASE StartRead
  <2>1. /\ at = "start" /\ at' = "scan" /\ read_byte_count \in Nat /\ read_byte_count' = -1
        /\ UNCHANGED <<pos, data_end>>
    BY <1>1, <1>4 DEF StartRead, Reader, NumbersInv, PlacesInv
  <2>2. Base' = Base /\ WindowEnd <= WindowEnd' /\ WindowEnd \in Int /\ WindowEnd' \in Int
    BY <1>1, <2>1 DEF Base, WindowEnd, Ahead, NumbersInv
  <2>3. Scanned' = Scanned
    BY <1>2, <2>2, SameFile DEF Scanned
  <2>4. data_begin < WindowEnd /\ Behind(file_line - 1)
    BY <2>1 DEF LinesInv, Within
  <2>5. data_begin < WindowEnd'
    BY <1>1, <2>2, <2>4 DEF NumbersInv
  <2>6. Within'
    BY <1>2, <2>3, <2>4, <2>5, SameLine DEF Within
  <2> QED
    BY <1>2, <2>1, <2>6 DEF LinesInv
<1>5. CASE Fetch
  <2> DEFINE n == Count(pos, BlockLen)
  <2>1. /\ at' = at /\ data_end' = data_end /\ pos' = pos + n /\ read_byte_count' = n
        /\ requested
    BY <1>5 DEF Fetch
  <2>2. read_byte_count = -1 /\ at # "start"
    BY <2>1 DEF Reader, FullInv, PlacesInv
  <2>3. n \in Nat /\ n <= BlockLen /\ pos + n <= Len(file)
    BY <1>1, CountIsBounded DEF NumbersInv
  <2> HIDE DEF n
  <2>4. Base' = Base /\ WindowEnd' = WindowEnd
    BY <1>1, <2>1, <2>2, <2>3 DEF Base, WindowEnd, Ahead, NumbersInv
  <2>5. Scanned' = Scanned
    BY <1>2, <2>4, SameFile DEF Scanned
  <2>6. AllRead => AllRead'
    BY <1>1, <1>2, <2>1, <2>3 DEF AllRead, NumbersInv
  <2>7. (Between => Between') /\ (LastLine => LastLine') /\ (Within => Within')
    BY <1>2, <2>1, <2>4, <2>5, <2>6, SameFile, SameLine DEF Between, LastLine, Within
  <2> QED
    BY <1>2, <2>1, <2>7, SameFile DEF LinesInv
<1> QED
  BY <1>3, <1>4, <1>5

LEMMA EndKeepsLines ==
    ASSUME LinesInv, Destroy \/ Join \/ Leave \/ UNCHANGED vars
    PROVE  LinesInv'
<1>1. /\ UNCHANGED <<file, pos, data_begin, data_end, file_line, line, read_byte_count>>
      /\ at' = at \/ at' \in {"join", "closed"}
  BY DEF Destroy, Join, Leave, vars, lineVars, asyncVars
<1>2. CASE at' = at
  <2>1. Base' = Base /\ WindowEnd' = WindowEnd /\ (AllRead' <=> AllRead)
    BY <1>1, <1>2 DEF Base, WindowEnd, Ahead, AllRead
  <2>2. Scanned' = Scanned
    BY <1>1, <2>1, SameFile DEF Scanned
  <2>3. (Between => Between') /\ (LastLine => LastLine') /\ (Within => Within')
    BY <1>1, <2>1, <2>2, SameFile, SameLine DEF Between, LastLine, Within
  <2> QED
    BY <1>1, <1>2, <2>3, SameFile DEF LinesInv
<1>3. CASE at' \in {"join", "closed"}
  BY <1>1, <1>3 DEF LinesInv
<1> QED
  BY <1>1, <1>2, <1>3

\* Where the window ends with the file, the text ends.
LEMMA TextEndsWithWindow ==
    ASSUME Reader, file \in Files, AllRead, at \in {"ready", "scan"}
    PROVE  Scanned + (data_end - data_begin) = Len(Text)
<1>1. NumbersInv /\ Skip \in Nat /\ Len(Text) = Len(file) - Skip /\ Len(file) \in Nat
  BY TextIsFile DEF Reader
<1>2. Base + data_end = Len(file) /\ Base \in Int
  BY <1>1 DEF Base, Ahead, AllRead, NumbersInv
<1> QED
  BY <1>1, <1>2 DEF Scanned, NumbersInv

\* Nothing is left only if every line was returned.
LEMMA NothingLeft ==
    ASSUME Reader, LinesInv, at = "ready", data_begin = data_end
    PROVE  file_line = Cardinality(Ends)
<1>1. CASE LastLine
  BY <1>1 DEF LastLine
<1>2. CASE Between
  <2>1. file \in Files /\ NumbersInv /\ BlockLen \in Nat
    BY CellsAreNumbers DEF LinesInv, Reader
  <2>2. data_end = 2 * BlockLen \/ AllRead
    BY DEF Reader, FullInv
  <2>3. AllRead
    BY <1>2, <2>1, <2>2 DEF Between, NumbersInv
  <2>4. Scanned \in Nat /\ Scanned = Len(Text)
    BY <1>2, <2>1, <2>3, TextEndsWithWindow DEF Between, Behind, NumbersInv
  <2>5. /\ \A e \in Ends : e \in 1 .. Len(Text) + 1 /\ (e = Len(Text) + 1 => ~Whole)
        /\ ~Whole => Len(Text) > 0 /\ Len(Text) \notin Ends
    BY <2>1, EndsFacts
  <2>6. Whole
    BY <1>2, <2>4, <2>5 DEF Between, Behind
  <2>7. \A e \in Ends : e <= Scanned
    BY <2>4, <2>5, <2>6
  <2>8. EndsUpTo(Scanned) = Ends
    BY <2>7 DEF EndsUpTo
  <2> QED
    BY <1>2, <2>8 DEF Between, Behind
<1> QED
  BY <1>1, <1>2 DEF LinesInv

LEMMA NextLineKeepsLines ==
    ASSUME Reader, LinesInv, NextLine
    PROVE  LinesInv'
<1>1. /\ NumbersInv /\ BlockLen \in Nat /\ BlockLen >= 2 /\ file \in Files /\ Skip \in Nat
      /\ file_line \in Nat
  BY CellsAreNumbers, TextIsFile DEF Reader, LinesInv
<1>2. at = "ready" /\ UNCHANGED <<file, pos, read_byte_count, line>>
  BY DEF NextLine, asyncVars, lineVars
<1>3. CASE data_begin = data_end /\ at' = "end" /\ file_line' = file_line
  <2>1. file_line = Cardinality(Ends)
    BY <1>2, <1>3, NothingLeft
  <2> QED
    BY <1>1, <1>2, <1>3, <2>1, SameFile DEF LinesInv
<1>4. CASE /\ data_begin # data_end /\ (data_begin > data_end \/ data_end > 2 * BlockLen)
           /\ at' = "aborted" /\ file_line' = file_line + 1
  <2>1. data_end <= 2 * BlockLen
    BY <1>2 DEF Reader, PlacesInv
  <2>2. ~Between
    BY <1>1, <1>4, <2>1 DEF Between, NumbersInv
  <2>3. LastLine
    BY <1>2, <2>2 DEF LinesInv
  <2> QED
    BY <1>1, <1>2, <1>4, <2>3, SameFile DEF LinesInv, LastLine
<1>5. CASE /\ data_begin < data_end /\ at' \in {"scan", "finish"} /\ file_line' = file_line + 1
           /\ \/ UNCHANGED <<data_begin, data_end>>
              \/ data_begin' = data_begin - BlockLen /\ data_end' = data_end - BlockLen
  <2>1. Between
    BY <1>1, <1>2, <1>5 DEF LinesInv, LastLine, NumbersInv
  <2>2. /\ Base' + data_begin' = Base + data_begin
        /\ data_begin' < WindowEnd'
    BY <1>1, <1>2, <1>5 DEF Base, WindowEnd, Ahead, NumbersInv
  <2>3. Skip' = Skip /\ Ends' = Ends
    BY <1>2, SameFile
  <2>4. Scanned' = Scanned
    BY <2>2, <2>3 DEF Scanned
  <2>5. file_line' - 1 = file_line
    BY <1>1, <1>5
  <2>6. Behind(file_line - 1)'
    BY <2>1, <2>3, <2>4, <2>5 DEF Between, Behind, EndsUpTo
  <2> QED
    BY <1>1, <1>2, <1>5, <2>2, <2>6 DEF LinesInv, Within
<1> QED
  BY <1>1, <1>3, <1>4, <1>5 DEF NextLine, lineVars, NumbersInv

\* What lies in the window is the text behind what has been scanned.
LEMMA WindowIsText ==
    ASSUME Reader, file \in Files, at = "scan", Scanned \in Nat,
           NEW k \in Nat, data_begin + k < data_end
    PROVE  /\ Scanned + k + 1 \in 1 .. Len(Text)
           /\ buffer[data_begin + k] = Text[Scanned + k + 1]
<1>1. /\ NumbersInv /\ BlockLen \in Nat /\ BlockLen >= 2 /\ Skip \in Nat /\ Len(file) \in Nat
      /\ Len(Text) = Len(file) - Skip
  BY CellsAreNumbers, TextIsFile DEF Reader
<1>2. Base + data_end <= Len(file) /\ Base \in Int /\ WindowEnd = data_end
  BY <1>1 DEF Base, Ahead, WindowEnd, NumbersInv
<1>3. Base + data_begin = Scanned + Skip
  BY <1>1, <1>2 DEF Scanned, NumbersInv
<1>4. Scanned + k + 1 \in 1 .. Len(Text) /\ (Scanned + k + 1) + Skip = Base + (data_begin + k) + 1
  BY <1>1, <1>2, <1>3 DEF NumbersInv
<1>5. data_begin + k \in Cells
  <2>1. data_end <= 2 * BlockLen
    BY DEF Reader, PlacesInv
  <2> QED
    BY <1>1, <2>1, CellsAreNumbers DEF NumbersInv
<1>6. buffer[data_begin + k] = file[Base + (data_begin + k) + 1]
  <2>1. /\ data_begin <= data_begin + k
        /\ 1 <= Base + (data_begin + k) + 1 /\ Base + (data_begin + k) + 1 <= Len(file)
    BY <1>1, <1>2, <1>3, <1>4 DEF NumbersInv
  <2> QED
    BY <1>2, <1>5, <2>1 DEF Reader, WindowInv
<1> QED
  BY <1>4, <1>6, TextIsFile

\* Behind a place in the text there is an end, and so there is a next one.
LEMMA NextEndIs ==
    ASSUME file \in Files, NEW p \in Nat, p < Len(Text)
    PROVE  \E e \in Ends : p < e /\ \A j \in Ends : ~(p < j /\ j < e)
<1> DEFINE T == {j \in Ends : p < j}
<1>1. T \subseteq Nat /\ Ends \subseteq Nat
  BY EndsFacts
<1>2. T # {}
  <2>1. Len(Text) \in Nat /\ (Len(Text) \in Ends \/ Len(Text) + 1 \in Ends)
    BY TextIsFile, EndsFacts
  <2> QED
    BY <2>1
<1>3. PICK e \in T : \A j \in T : e <= j
  <2> HIDE DEF T
  <2> QED
    BY <1>1, <1>2, LeastOfNumbers
<1>4. ASSUME NEW j \in Ends, p < j, j < e
      PROVE  FALSE
  <2>1. j \in T /\ j \in Nat /\ e \in Nat
    BY <1>1, <1>4
  <2>2. e <= j
    BY <1>3, <2>1
  <2> QED
    BY <1>4, <2>1, <2>2
<1> QED
  BY <1>3, <1>4

\* The loop of next_line stops at the end of a line, unless the line is too long.
LEMMA ScanFindsLine ==
    ASSUME Reader, LinesInv, at = "scan",
           NEW end \in data_begin .. data_end, IsLineEnd(end)
    PROVE  LET length == end - data_begin IN
           /\ file_line \in Lines
           /\ length <= Len(RawLine(file_line)) /\ Len(RawLine(file_line)) \in Nat
           /\ ~TooLong(end) =>
                 /\ RawLine(file_line) = [k \in 1 .. length |-> buffer[data_begin + k - 1]]
                 /\ Len(RawLine(file_line)) = length
                 /\ Scanned + length + 1 \in Ends
                 /\ file_line = Cardinality(EndsUpTo(Scanned + length + 1))
                 /\ end = data_end => AllRead /\ ~Whole /\ file_line = Cardinality(Ends)
<1> DEFINE p == Scanned
           m == end - data_begin
<1>1. /\ NumbersInv /\ BlockLen \in Nat /\ BlockLen >= 2 /\ file \in Files /\ file_line \in Nat
      /\ Len(Text) \in Nat /\ Ends \subseteq Nat
  BY CellsAreNumbers, TextIsFile, EndsFacts DEF Reader, LinesInv
<1>2. /\ p \in Nat /\ (p = 0 \/ p \in Ends) /\ file_line - 1 = Cardinality(EndsUpTo(p))
      /\ data_begin < data_end
  <2>1. WindowEnd = data_end
    BY <1>1 DEF WindowEnd, NumbersInv
  <2> QED
    BY <2>1 DEF LinesInv, Within, Behind
<1>3. m \in Nat /\ data_begin + m = end /\ end <= data_end /\ end \in Nat
  BY <1>1 DEF NumbersInv
<1>4. file_line = Cardinality(EndsUpTo(p)) + 1
  BY <1>1, <1>2
<1>5. ASSUME NEW k \in Nat, data_begin + k < data_end
      PROVE  p + k + 1 \in 1 .. Len(Text) /\ buffer[data_begin + k] = Text[p + k + 1]
  BY <1>1, <1>2, <1>5, WindowIsText
<1> HIDE DEF p, m
<1>6. p < Len(Text)
  <2>1. p + 0 + 1 \in 1 .. Len(Text)
    <3>1. data_begin + 0 < data_end
      BY <1>1, <1>2 DEF NumbersInv
    <3> QED
      BY <1>5, <3>1
  <2> QED
    BY <1>1, <1>2, <2>1
<1>7. PICK e \in Ends : p < e /\ \A j \in Ends : ~(p < j /\ j < e)
  BY <1>1, <1>2, <1>6, NextEndIs
<1>8. /\ file_line \in Nat /\ file_line > 0 /\ file_line <= Cardinality(Ends)
      /\ Cardinality(EndsUpTo(e)) = file_line
      /\ Len(RawLine(file_line)) = e - p - 1
      /\ RawLine(file_line) = [k \in 1 .. e - p - 1 |-> Text[p + k]]
  BY <1>1, <1>2, <1>4, <1>7, RawLineIs
<1>9. file_line \in Lines
  BY <1>8, EndsFacts, <1>1 DEF Lines
<1>10. e >= p + m + 1
  <2>1. ASSUME NEW k \in Nat, k < m
        PROVE  p + k + 1 \notin Ends
    <3>1. data_begin + k \in data_begin .. end - 1 /\ data_begin + k < data_end
      BY <1>1, <1>3, <2>1 DEF NumbersInv
    <3>2. buffer[data_begin + k] # NL
      BY <3>1 DEF IsLineEnd, IsEnd
    <3> QED
      BY <1>1, <1>5, <3>1, <3>2, EndsFacts
  <2>2. ASSUME e < p + m + 1
        PROVE  FALSE
    <3>1. e - p - 1 \in Nat /\ e - p - 1 < m /\ p + (e - p - 1) + 1 = e
      BY <1>1, <1>2, <1>3, <1>7, <2>2
    <3> QED
      BY <2>1, <3>1
  <2> QED
    BY <1>1, <1>2, <1>3, <2>2
<1>11. m <= e - p - 1 /\ e - p - 1 \in Nat
  BY <1>1, <1>2, <1>3, <1>10
<1>12. ASSUME end = data_end, ~TooLong(end)
       PROVE  AllRead /\ p + m = Len(Text)
  <2>1. data_end <= 2 * BlockLen /\ data_begin < BlockLen /\ (data_end = 2 * BlockLen \/ AllRead)
    BY DEF Reader, PlacesInv, FullInv
  <2>2. AllRead
    BY <1>1, <1>12, <2>1 DEF NumbersInv, TooLong
  <2> QED
    BY <1>1, <1>12, <2>2, TextEndsWithWindow DEF p, m
<1>13. ASSUME ~TooLong(end)
       PROVE  e = p + m + 1
  <2>1. CASE end = data_end
    <3>1. e <= Len(Text) + 1
      BY <1>1, EndsFacts
    <3> QED
      BY <1>1, <1>2, <1>3, <1>10, <1>12, <1>13, <2>1, <3>1
  <2>2. CASE end # data_end
    <3>1. buffer[end] = NL
      BY <2>2 DEF IsLineEnd, IsEnd
    <3>2. data_begin + m < data_end
      BY <1>1, <1>3, <2>2 DEF NumbersInv
    <3>3. p + m + 1 \in 1 .. Len(Text) /\ Text[p + m + 1] = NL
      BY <1>3, <1>5, <3>1, <3>2
    <3>4. p + m + 1 \in Ends
      BY <1>1, <3>3, EndsFacts
    <3>5. ~(p < p + m + 1 /\ p + m + 1 < e)
      BY <1>7, <3>4
    <3> QED
      BY <1>1, <1>2, <1>3, <1>10, <3>5
  <2> QED
    BY <2>1, <2>2
<1>14. ASSUME ~TooLong(end)
       PROVE  RawLine(file_line) = [k \in 1 .. m |-> buffer[data_begin + k - 1]]
  <2>1. e - p - 1 = m
    BY <1>1, <1>2, <1>3, <1>13, <1>14
  <2>2. ASSUME NEW k \in 1 .. m
        PROVE  Text[p + k] = buffer[data_begin + k - 1]
    <3>1. k - 1 \in Nat /\ data_begin + (k - 1) < data_end
      BY <1>1, <1>3 DEF NumbersInv
    <3>2. buffer[data_begin + (k - 1)] = Text[p + (k - 1) + 1]
      BY <1>5, <3>1
    <3>3. data_begin + (k - 1) = data_begin + k - 1 /\ p + (k - 1) + 1 = p + k
      BY <1>1, <1>2, <1>3 DEF NumbersInv
    <3> QED
      BY <3>2, <3>3
  <2> QED
    BY <1>8, <2>1, <2>2
<1>15. ASSUME end = data_end, ~TooLong(end)
       PROVE  ~Whole /\ file_line = Cardinality(Ends)
  <2>1. e = Len(Text) + 1
    BY <1>12, <1>13, <1>15
  <2>2. ~Whole
    BY <1>1, <2>1, EndsFacts
  <2>3. \A j \in Ends : j <= e
    BY <1>1, <2>1, EndsFacts
  <2>4. EndsUpTo(e) = Ends
    BY <2>3 DEF EndsUpTo
  <2> QED
    BY <1>8, <2>2, <2>4
<1>16. m <= Len(RawLine(file_line)) /\ Len(RawLine(file_line)) \in Nat
  BY <1>8, <1>11
<1>17. ASSUME ~TooLong(end)
       PROVE  /\ Len(RawLine(file_line)) = m
              /\ p + m + 1 \in Ends
              /\ file_line = Cardinality(EndsUpTo(p + m + 1))
  BY <1>1, <1>2, <1>3, <1>8, <1>13, <1>17
<1> QED
  BY <1>9, <1>12, <1>14, <1>15, <1>16, <1>17 DEF p, m

LEMMA ScanKeepsLines ==
    ASSUME Reader, LinesInv, Scan
    PROVE  LinesInv'
<1>1. /\ NumbersInv /\ BlockLen \in Nat /\ BlockLen >= 2 /\ file \in Files /\ file_line \in Nat
      /\ Skip \in Nat
  BY CellsAreNumbers, TextIsFile DEF Reader, LinesInv
<1>2. at = "scan" /\ UNCHANGED <<file, pos, read_byte_count>>
  BY DEF Scan, asyncVars
<1>3. PICK end \in data_begin .. data_end :
         /\ IsLineEnd(end)
         /\ \/ /\ TooLong(end)
               /\ at' = "limit"
               /\ UNCHANGED lineVars
            \/ /\ ~TooLong(end)
               /\ at' = "ready"
               /\ line' = Stripped([k \in 1 .. end - data_begin |-> buffer[data_begin + k - 1]])
               /\ data_begin' = end + 1
               /\ \/ buffer[end] \in {NL, Unset} /\ UNCHANGED data_end
                  \/ buffer[end] # NL /\ data_end' = data_end + 1
               /\ UNCHANGED <<buffer, file_line>>
  BY DEF Scan
<1> DEFINE m == end - data_begin
           p == Scanned
<1>4. /\ file_line \in Lines
      /\ m <= Len(RawLine(file_line)) /\ Len(RawLine(file_line)) \in Nat
      /\ ~TooLong(end) =>
            /\ RawLine(file_line) = [k \in 1 .. m |-> buffer[data_begin + k - 1]]
            /\ Len(RawLine(file_line)) = m
            /\ p + m + 1 \in Ends
            /\ file_line = Cardinality(EndsUpTo(p + m + 1))
            /\ end = data_end => AllRead /\ ~Whole /\ file_line = Cardinality(Ends)
  BY <1>2, <1>3, ScanFindsLine
<1>5. end \in Nat /\ data_begin \in Nat /\ end <= data_end /\ m \in Nat /\ data_begin + m = end
  BY <1>1, <1>3 DEF NumbersInv
<1>6. p \in Nat
  BY <1>2 DEF LinesInv, Within, Behind
<1>7. CASE TooLong(end)
  <2>1. at' = "limit" /\ file_line' = file_line
    BY <1>3, <1>7 DEF lineVars
  <2>2. ~Fine(file_line) /\ Len(RawLine(file_line)) >= BlockLen
    BY <1>1, <1>4, <1>5, <1>7 DEF TooLong, Fine
  <2> QED
    BY <1>1, <1>2, <1>4, <2>1, <2>2, SameFile DEF LinesInv
<1>8. CASE ~TooLong(end)
  <2>1. /\ at' = "ready" /\ data_begin' = end + 1 /\ file_line' = file_line
        /\ \/ buffer[end] \in {NL, Unset} /\ data_end' = data_end
           \/ buffer[end] # NL /\ data_end' = data_end + 1
    BY <1>3, <1>8
  <2>2. line' = Stripped(RawLine(file_line))
    BY <1>3, <1>4, <1>8
  <2>3. Fine(file_line)
    BY <1>1, <1>4, <1>5, <1>8 DEF TooLong, Fine
  <2>4. Between' \/ LastLine'
    <3>1. CASE end = data_end
      <4>1. AllRead /\ ~Whole /\ file_line = Cardinality(Ends)
        BY <1>4, <1>8, <3>1
      <4>2. data_begin' = data_end' \/ data_begin' = data_end' + 1
        BY <2>1, <3>1
      <4>3. AllRead'
        BY <1>2, <4>1 DEF AllRead
      <4> QED
        BY <1>2, <2>1, <4>1, <4>2, <4>3, SameFile DEF LastLine
    <3>2. CASE end # data_end
      <4>1. buffer[end] = NL /\ data_end' = data_end
        BY <1>3, <2>1, <3>2 DEF IsLineEnd, IsEnd
      <4>2. end < data_end /\ data_begin' <= data_end' /\ data_begin' < 2 * BlockLen
        <5>1. data_begin < BlockLen
          BY <1>2 DEF Reader, PlacesInv
        <5> QED
          BY <1>1, <1>5, <1>8, <2>1, <3>2, <4>1, <5>1 DEF TooLong, NumbersInv
      <4>3. Base' = Base /\ Base \in Int
        BY <1>1, <1>2, <2>1, <4>1 DEF Base, Ahead, NumbersInv
      <4>4. Scanned' = p + m + 1
        <5>1. Skip' = Skip
          BY <1>2, SameFile
        <5>2. (Base + (end + 1)) - Skip = ((Base + data_begin) - Skip) + (end - data_begin) + 1
          BY <1>1, <1>5, <4>3
        <5> QED
          BY <2>1, <4>3, <5>1, <5>2 DEF Scanned
      <4>5. /\ p + m + 1 \in Nat /\ p + m + 1 \in Ends
            /\ file_line = Cardinality(EndsUpTo(p + m + 1))
        BY <1>4, <1>5, <1>6, <1>8
      <4>6. Behind(file_line)'
        BY <1>2, <2>1, <4>4, <4>5, SameFile DEF Behind, EndsUpTo
      <4> QED
        BY <4>2, <4>6 DEF Between
    <3> QED
      BY <3>1, <3>2
  <2> QED
    BY <1>1, <1>2, <2>1, <2>2, <2>3, <2>4, SameFile DEF LinesInv
<1> QED
  BY <1>7, <1>8

LEMMA LinesStep == Reader /\ LinesInv /\ [NodeNext]_<<vars, nodeVars>> => LinesInv'
<1>1. ASSUME [NodeNext]_<<vars, nodeVars>>
      PROVE  \/ NextLine \/ FinishRead \/ StartRead \/ Scan \/ Fetch
             \/ Destroy \/ Join \/ Leave \/ UNCHANGED vars
  BY <1>1 DEF NodeNext, Main, CallNextLine, InNextLine, ReadHeader, ReadRow, NoLine, LeaveTry,
              JoinReader, StartNode, ReadAhead, Worker
<1> QED
  BY <1>1, NextLineKeepsLines, AsideKeepsLines, ScanKeepsLines, EndKeepsLines

LEMMA LinesAlways == NodeSpec => [](Reader /\ LinesInv)
<1>1. NodeInit => Reader /\ LinesInv
  BY ReaderInit, LinesInit DEF NodeInit
<1>2. Reader /\ LinesInv /\ [NodeNext]_<<vars, nodeVars>> => (Reader /\ LinesInv)'
  BY ReaderStep, LinesStep
<1> QED
  BY <1>1, <1>2, PTL DEF NodeSpec

\* For every length of the block and every file, and however the two threads run:
\* next_line returns the lines of the file, each once and in order, refuses exactly
\* those as long as a block, says "no more" after the last one, and fails its
\* assertion only behind a last line without newline.
THEOREM ReturnsLinesInOrder == NodeSpec => []LinesOfTheFile
<1>1. LinesInv => LinesOfTheFile
  BY DEF LinesInv, LinesOfTheFile
<1> QED
  BY <1>1, LinesAlways, PTL

-----------------------------------------------------------------------------
(* The rows                                                                  *)

NodeOf(k) == Row(Order(Header), Stripped(RawLine(k + 1)))

\* While it reads, main() is at most one line behind next_line; its nodes are the rows
\* so far, all of them good, and once it has stopped those in front of the first bad one.
RowsInv ==
    /\ parsed \in Nat
    /\ Reading => at \notin {"join", "closed"}
    /\ at \in {"finish", "start", "scan", "limit", "aborted"} => file_line = parsed + 1
    /\ file_line = parsed \/ file_line = parsed + 1
    /\ at = "end" => file_line = parsed
    /\ main = "header" => parsed = 0 /\ nodes = <<>>
    /\ main = "rows" =>
         /\ parsed > 0 /\ parsed <= Cardinality(Ends)
         /\ Fine(1) /\ IsHeader(Header) /\ col_order = Order(Header)
         /\ \A k \in 2 .. parsed : GoodRow(k)
         /\ nodes = [k \in 1 .. parsed - 1 |-> NodeOf(k)]
    /\ main \in {"leave", "start", "joinAll"} =>
         nodes = [k \in 1 .. Cardinality(GoodRows) |-> NodeOf(k)]
    /\ main \in {"header", "rows", "leave", "start", "joinAll"}

LEMMA SameRows ==
    ASSUME file' = file
    PROVE  /\ Header' = Header /\ (GoodRows' = GoodRows)
           /\ \A n : (GoodRow(n)' <=> GoodRow(n)) /\ NodeOf(n)' = NodeOf(n)
<1>1. Header' = Header
  BY SameFile DEF Header
<1>2. \A n : GoodRow(n)' <=> GoodRow(n)
  BY <1>1, SameFile DEF GoodRow
<1>3. \A n : NodeOf(n)' = NodeOf(n)
  BY <1>1, SameFile DEF NodeOf
<1>4. GoodRows' = GoodRows
  BY <1>1, <1>2, SameFile DEF GoodRows
<1> QED
  BY <1>1, <1>2, <1>3, <1>4

LEMMA CountOfRange ==
    ASSUME NEW n \in Nat, n > 0
    PROVE  Cardinality(2 .. n) = n - 1
  BY FS_Interval

\* The good rows end in front of the first bad one.
LEMMA GoodRowsAre ==
    ASSUME file \in Files, NEW n \in Nat, n > 0, n <= Cardinality(Ends),
           Fine(1), IsHeader(Header), \A k \in 2 .. n : GoodRow(k),
           n = Cardinality(Ends) \/ ~GoodRow(n + 1)
    PROVE  Cardinality(GoodRows) = n - 1
<1>1. Cardinality(Ends) \in Nat /\ Ends # {}
  BY EndsFacts, FS_EmptySet
<1>2. GoodRows = {l \in Lines \ {1} : \A k \in 2 .. l : GoodRow(k)}
  BY <1>1 DEF GoodRows
<1>3. ASSUME NEW l \in 2 .. n
      PROVE  l \in GoodRows
  <2>1. l \in Lines \ {1} /\ \A k \in 2 .. l : k \in 2 .. n
    BY <1>1 DEF Lines
  <2> QED
    BY <1>2, <2>1
<1>4. ASSUME NEW l \in GoodRows
      PROVE  l \in 2 .. n
  <2>1. l \in Nat /\ l > 0 /\ l # 1 /\ l <= Cardinality(Ends) /\ \A k \in 2 .. l : GoodRow(k)
    BY <1>1, <1>2 DEF Lines
  <2>2. ~(l > n)
    <3>1. l > n => n + 1 \in 2 .. l
      BY <2>1
    <3>2. l > n => n # Cardinality(Ends)
      BY <1>1, <2>1
    <3> QED
      BY <2>1, <3>1, <3>2
  <2> QED
    BY <2>1, <2>2
<1>5. GoodRows = 2 .. n
  BY <1>3, <1>4
<1> QED
  BY <1>5, CountOfRange

\* Without a header there is no row, and no node.
LEMMA NoGoodRows ==
    ASSUME Ends = {} \/ ~Fine(1) \/ ~IsHeader(Header)
    PROVE  <<>> = [k \in 1 .. Cardinality(GoodRows) |-> NodeOf(k)]
<1>1. GoodRows = {}
  BY DEF GoodRows
<1>2. Cardinality(GoodRows) = 0
  BY <1>1, FS_EmptySet
<1> QED
  BY <1>2

LEMMA OneNodeMore ==
    ASSUME NEW n \in Nat, n > 0, nodes = [k \in 1 .. n - 1 |-> NodeOf(k)]
    PROVE  Append(nodes, NodeOf(n)) = [k \in 1 .. n |-> NodeOf(k)]
<1> DEFINE S == {NodeOf(k) : k \in 1 .. n}
           all == [k \in 1 .. n |-> NodeOf(k)]
<1>1. nodes \in Seq(S) /\ Len(nodes) = n - 1 /\ NodeOf(n) \in S /\ all \in Seq(S) /\ Len(all) = n
  OBVIOUS
<1>2. /\ Append(nodes, NodeOf(n)) \in Seq(S)
      /\ Len(Append(nodes, NodeOf(n))) = (n - 1) + 1
      /\ \A k \in 1 .. n - 1 : Append(nodes, NodeOf(n))[k] = nodes[k]
      /\ Append(nodes, NodeOf(n))[(n - 1) + 1] = NodeOf(n)
  BY <1>1, AppendProperties
<1>3. \A k \in 1 .. n : Append(nodes, NodeOf(n))[k] = all[k]
  BY <1>2
<1> DEFINE more == Append(nodes, NodeOf(n))
<1>4. Len(more) = n
  BY <1>2
<1> HIDE DEF S, all, more
<1>5. more \in Seq(S) /\ \A k \in 1 .. Len(more) : more[k] = all[k]
  BY <1>2, <1>3, <1>4 DEF more
<1>6. more = all
  BY <1>1, <1>4, <1>5, SeqEqual
<1> QED
  BY <1>6 DEF more, all

LEMMA FileStays ==
    ASSUME [NodeNext]_<<vars, nodeVars>>
    PROVE  file' = file
<1>1. NextLine \/ FinishRead \/ StartRead \/ Scan => file' = file
  BY DEF NextLine, FinishRead, StartRead, Scan
<1>2. Destroy \/ Join \/ Fetch \/ Leave \/ UNCHANGED vars => file' = file
  BY DEF Destroy, Join, Fetch, Leave, vars
<1> QED
  BY <1>1, <1>2 DEF NodeNext, Main, CallNextLine, InNextLine, ReadHeader, ReadRow, NoLine, LeaveTry,
                    JoinReader, StartNode, ReadAhead, Worker

\* A line that main() has not parsed yet is a line of the file, and it is fine.
LEMMA LineToParse ==
    ASSUME LinesInv, RowsInv, HasLine
    PROVE  /\ file_line = parsed + 1 /\ file_line <= Cardinality(Ends)
           /\ line = Stripped(RawLine(file_line)) /\ Fine(file_line)
<1>1. at = "ready" /\ parsed \in Nat /\ file_line \in Nat /\ parsed < file_line
  BY DEF HasLine, LinesInv, RowsInv
<1>2. file_line = parsed + 1
  BY <1>1 DEF RowsInv
<1>3. line = Stripped(RawLine(file_line)) /\ Fine(file_line)
  BY <1>1, <1>2 DEF LinesInv
<1>4. /\ IsFiniteSet(Ends) /\ Cardinality(Ends) \in Nat
      /\ Between \/ LastLine
  BY <1>1, EndsFacts DEF LinesInv
<1>5. file_line <= Cardinality(Ends)
  BY <1>4, PartIsFinite DEF Between, LastLine, Behind, EndsUpTo
<1> QED
  BY <1>2, <1>3, <1>5

LEMMA RowsStep ==
    ASSUME Reader, LinesInv, RowsInv, [NodeNext]_<<vars, nodeVars>>
    PROVE  RowsInv'
<1> USE DEF RowsInv
<1>0. file' = file /\ file \in Files /\ file_line \in Nat /\ parsed \in Nat
  BY FileStays DEF LinesInv
<1>1. ASSUME /\ UNCHANGED nodeVars
             /\ Reading => at' \notin {"join", "closed"}
             /\ at' \in {"finish", "start", "scan", "limit", "aborted"} => file_line' = parsed + 1
             /\ file_line' = parsed \/ file_line' = parsed + 1
             /\ at' = "end" => file_line' = parsed
      PROVE  RowsInv'
  BY <1>0, <1>1, SameFile, SameRows DEF nodeVars, Reading
<1>2. CASE CallNextLine
  <2>1. /\ UNCHANGED nodeVars /\ parsed = file_line
        /\ \/ at' = "end" /\ file_line' = file_line
           \/ at' \in {"aborted", "scan", "finish"} /\ file_line' = file_line + 1
    BY <1>2 DEF CallNextLine, NextLine, lineVars
  <2> QED
    BY <1>1, <2>1
<1>3. CASE InNextLine
  <2>1. /\ UNCHANGED nodeVars /\ file_line' = file_line
        /\ at \in {"finish", "start", "scan"} /\ at' \in {"start", "scan", "ready", "limit"}
    BY <1>3 DEF InNextLine, FinishRead, StartRead, Scan, lineVars
  <2> QED
    BY <1>1, <2>1
<1>4. CASE ReadHeader
  <2>1. /\ main = "header" /\ HasLine /\ parsed' = file_line
        /\ UNCHANGED <<at, file_line, nodes>>
        /\ \/ IsHeader(line) /\ main' = "rows" /\ col_order' = Order(line)
           \/ ~IsHeader(line) /\ main' = "leave"
    BY <1>4 DEF ReadHeader, vars, lineVars
  <2>2. /\ file_line = 1 /\ 1 <= Cardinality(Ends) /\ line = Header /\ Fine(1)
        /\ at = "ready" /\ nodes = <<>>
    BY <2>1, LineToParse DEF Header, HasLine
  <2>3. CASE IsHeader(line) /\ main' = "rows"
    <3>1. nodes' = [k \in 1 .. parsed' - 1 |-> NodeOf(k)']
      BY <2>1, <2>2
    <3>2. \A k \in 2 .. parsed' : GoodRow(k)'
      BY <2>1, <2>2
    <3> QED
      BY <1>0, <2>1, <2>2, <2>3, <3>1, <3>2, SameFile, SameRows DEF Reading
  <2>4. CASE ~IsHeader(line) /\ main' = "leave"
    BY <1>0, <2>1, <2>2, <2>4, NoGoodRows, SameFile, SameRows DEF Reading
  <2> QED
    BY <2>1, <2>3, <2>4
<1>5. CASE ReadRow
  <2>1. /\ main = "rows" /\ HasLine /\ parsed' = file_line
        /\ UNCHANGED <<at, file_line, col_order>>
        /\ \/ IsRow(col_order, line) /\ nodes' = Append(nodes, Row(col_order, line)) /\ main' = main
           \/ ~IsRow(col_order, line) /\ main' = "leave" /\ nodes' = nodes
    BY <1>5 DEF ReadRow, vars, lineVars
  <2>2. /\ file_line = parsed + 1 /\ file_line <= Cardinality(Ends) /\ at = "ready"
        /\ line = Stripped(RawLine(parsed + 1)) /\ Fine(parsed + 1)
    BY <2>1, LineToParse DEF HasLine
  <2>3. /\ parsed > 0 /\ Fine(1) /\ IsHeader(Header) /\ col_order = Order(Header)
        /\ \A k \in 2 .. parsed : GoodRow(k)
        /\ nodes = [k \in 1 .. parsed - 1 |-> NodeOf(k)]
    BY <2>1
  <2>4. CASE IsRow(col_order, line) /\ main' = main
    <3>1. GoodRow(parsed + 1) /\ Row(col_order, line) = NodeOf(parsed)
      BY <2>2, <2>3, <2>4 DEF GoodRow, NodeOf
    <3>2. nodes' = [k \in 1 .. parsed |-> NodeOf(k)]
      BY <1>0, <2>1, <2>3, <2>4, <3>1, OneNodeMore
    <3>3. \A k \in 2 .. parsed' : k \in 2 .. parsed \/ k = parsed + 1
      BY <1>0, <2>1, <2>2
    <3>4. \A k \in 2 .. parsed' : GoodRow(k)
      BY <2>3, <3>1, <3>3
    <3>5. parsed' - 1 = parsed /\ parsed' \in Nat /\ parsed' > 0
      BY <1>0, <2>1, <2>2
    <3> QED
      BY <1>0, <2>1, <2>2, <2>3, <2>4, <3>2, <3>4, <3>5, SameFile, SameRows DEF Reading
  <2>5. CASE ~IsRow(col_order, line) /\ main' = "leave" /\ nodes' = nodes
    <3>1. ~GoodRow(parsed + 1)
      BY <2>2, <2>3, <2>5 DEF GoodRow
    <3>2. parsed <= Cardinality(Ends)
      BY <2>1
    <3>3. Cardinality(GoodRows) = parsed - 1
      BY <1>0, <2>3, <3>1, <3>2, GoodRowsAre
    <3> QED
      BY <1>0, <2>1, <2>2, <2>3, <2>5, <3>3, SameFile, SameRows DEF Reading
  <2> QED
    BY <2>1, <2>4, <2>5
<1>6. CASE NoLine
  <2>1. /\ Reading /\ at \in {"end", "limit"} /\ main' = "leave"
        /\ UNCHANGED <<at, file_line, parsed, nodes>>
    BY <1>6 DEF NoLine, vars, lineVars
  <2>2. nodes = [k \in 1 .. Cardinality(GoodRows) |-> NodeOf(k)]
    <3>1. Cardinality(Ends) \in Nat /\ IsFiniteSet(Ends)
      BY <1>0, EndsFacts
    <3>2. at = "end" => parsed = Cardinality(Ends)
      BY DEF LinesInv
    <3>3. at = "limit" => ~Fine(parsed + 1)
      BY DEF LinesInv
    <3>4. CASE main = "header"
      <4>1. Ends = {} \/ ~Fine(1)
        BY <1>0, <2>1, <3>1, <3>2, <3>3, <3>4, FS_EmptySet
      <4> QED
        BY <3>4, <4>1, NoGoodRows
    <3>5. CASE main = "rows"
      <4>1. Cardinality(GoodRows) = parsed - 1
        BY <1>0, <2>1, <3>2, <3>3, <3>5, GoodRowsAre DEF GoodRow
      <4> QED
        BY <3>5, <4>1
    <3> QED
      BY <2>1, <3>4, <3>5 DEF Reading
  <2> QED
    BY <1>0, <2>1, <2>2, SameFile, SameRows DEF Reading
<1>7. CASE LeaveTry
  <2>1. main = "leave" /\ UNCHANGED nodeVars /\ at' = "join" /\ file_line' = file_line
    BY <1>7 DEF LeaveTry, Destroy, lineVars
  <2> QED
    BY <1>1, <2>1 DEF Reading
<1>8. CASE JoinReader
  <2>1. /\ at = "join" /\ at' = "closed" /\ main' = "start"
        /\ UNCHANGED <<parsed, col_order, nodes, file_line>>
    BY <1>8 DEF JoinReader, Join, lineVars
  <2>2. main \in {"leave", "start", "joinAll"}
    BY <2>1 DEF Reading
  <2> QED
    BY <1>0, <2>1, <2>2, SameRows DEF Reading
<1>9. CASE StartNode
  <2>1. /\ main = "start" /\ main' \in {"start", "joinAll"}
        /\ UNCHANGED <<at, file_line, parsed, col_order, nodes>>
    BY <1>9 DEF StartNode, vars, lineVars
  <2> QED
    BY <1>0, <2>1, SameRows DEF Reading
<1>10. CASE ReadAhead \/ UNCHANGED <<vars, nodeVars>>
  <2>1. UNCHANGED nodeVars /\ at' = at /\ file_line' = file_line
    BY <1>10 DEF ReadAhead, Worker, Fetch, Leave, vars, lineVars
  <2> QED
    BY <1>1, <2>1
<1> QED
  BY <1>2, <1>3, <1>4, <1>5, <1>6, <1>7, <1>8, <1>9, <1>10 DEF NodeNext, Main

LEMMA RowsAlways == NodeSpec => [](Reader /\ LinesInv /\ RowsInv)
<1>1. NodeInit => RowsInv
  BY DEF NodeInit, Init, RowsInv, Reading
<1>2. Reader /\ LinesInv /\ RowsInv /\ [NodeNext]_<<vars, nodeVars>> => RowsInv'
  BY RowsStep
<1> QED
  BY <1>1, <1>2, LinesAlways, PTL DEF NodeSpec

\* For every file: what main() starts are the rows in front of the first bad one, one
\* node each and in order, and nothing if there is no header; a row is never read
\* with the columns of another.
THEOREM NodesAreGoodRows ==
    NodeSpec => [](main \in {"start", "joinAll"} =>
                      nodes = [k \in 1 .. Cardinality(GoodRows) |->
                                  Row(Order(Header), Stripped(RawLine(k + 1)))])
<1>1. RowsInv => (main \in {"start", "joinAll"} =>
                      nodes = [k \in 1 .. Cardinality(GoodRows) |->
                                  Row(Order(Header), Stripped(RawLine(k + 1)))])
  BY DEF RowsInv, NodeOf
<1> QED
  BY <1>1, RowsAlways, PTL

-----------------------------------------------------------------------------
(* Types                                                                     *)

InCall == at \in {"ready", "finish", "start", "scan"}

Sizes ==
    /\ data_begin <= 2 * BlockLen + 1
    /\ data_end <= 2 * BlockLen + 1
    /\ file_line <= Len(file) + 1

LEMMA SizesInCall ==
    ASSUME Reader, LinesInv, InCall
    PROVE  Sizes /\ (at = "ready" => file_line <= Len(file))
<1>1. /\ NumbersInv /\ BlockLen \in Nat /\ BlockLen >= 2 /\ file \in Files /\ file_line \in Nat
      /\ Len(file) \in Nat /\ Len(Text) \in Nat /\ Len(Text) <= Len(file)
  BY CellsAreNumbers, TextIsFile DEF Reader, LinesInv
<1>2. /\ IsFiniteSet(Ends) /\ Cardinality(Ends) \in Nat /\ Cardinality(Ends) <= Len(Text)
      /\ Cardinality(EndsUpTo(Scanned)) \in Nat
      /\ Cardinality(EndsUpTo(Scanned)) <= Cardinality(Ends)
  BY <1>1, EndsFacts, PartIsFinite DEF EndsUpTo
<1>3. CASE at = "ready"
  <2>1. data_end <= 2 * BlockLen
    BY <1>3 DEF Reader, PlacesInv
  <2>2. data_begin <= data_end + 1
    BY <1>1, <1>3 DEF LinesInv, Between, LastLine, NumbersInv
  <2>3. file_line <= Cardinality(Ends)
    BY <1>1, <1>2, <1>3 DEF LinesInv, Between, LastLine, Behind
  <2> QED
    BY <1>1, <1>2, <2>1, <2>2, <2>3 DEF Sizes, NumbersInv
<1>4. CASE at \in {"finish", "start", "scan"}
  <2>1. data_begin < BlockLen /\ data_end <= 2 * BlockLen
    <3>1. data_begin < BlockLen
      BY <1>4 DEF Reader, PlacesInv
    <3>2. CASE at = "scan"
      BY <3>1, <3>2 DEF Reader, PlacesInv
    <3>3. CASE at = "finish"
      BY <1>1, <3>1, <3>3 DEF Reader, PlacesInv, WindowEnd, NumbersInv
    <3>4. CASE at = "start"
      <4>1. data_end - Ahead <= BlockLen /\ Ahead = read_byte_count
        BY <3>4 DEF Reader, PlacesInv, WindowEnd, Ahead
      <4> QED
        BY <1>1, <3>1, <4>1 DEF NumbersInv
    <3> QED
      BY <1>4, <3>2, <3>3, <3>4
  <2>2. file_line - 1 = Cardinality(EndsUpTo(Scanned))
    BY <1>4 DEF LinesInv, Within, Behind
  <2> QED
    BY <1>1, <1>2, <1>4, <2>1, <2>2 DEF Sizes, NumbersInv
<1> QED
  BY <1>3, <1>4 DEF InCall

LEMMA SizesStep ==
    ASSUME Reader, LinesInv, Sizes, [NodeNext]_<<vars, nodeVars>>
    PROVE  InCall' \/ Sizes'
<1> SUFFICES ASSUME ~InCall'
             PROVE  Sizes'
  OBVIOUS
<1>1. file' = file /\ file_line \in Nat /\ Len(file) \in Nat
  BY FileStays, TextIsFile DEF LinesInv
<1>2. CASE NextLine
  <2>1. /\ at = "ready" /\ UNCHANGED <<data_begin, data_end>>
        /\ file_line' = file_line \/ file_line' = file_line + 1
    BY <1>2 DEF NextLine, InCall, lineVars
  <2>2. file_line <= Len(file)
    BY <2>1, SizesInCall DEF InCall
  <2> QED
    BY <1>1, <2>1, <2>2 DEF Sizes
<1>3. CASE FinishRead \/ StartRead
  BY <1>3 DEF FinishRead, StartRead, InCall
<1>4. CASE Scan
  <2>1. UNCHANGED <<data_begin, data_end, file_line>>
    BY <1>4 DEF Scan, InCall, lineVars
  <2> QED
    BY <1>1, <2>1 DEF Sizes
<1>5. CASE Destroy \/ Join \/ Fetch \/ Leave \/ UNCHANGED vars
  <2>1. UNCHANGED <<data_begin, data_end, file_line>>
    BY <1>5 DEF Destroy, Join, Fetch, Leave, vars, lineVars
  <2> QED
    BY <1>1, <2>1 DEF Sizes
<1> QED
  BY <1>2, <1>3, <1>4, <1>5 DEF NodeNext, Main, CallNextLine, InNextLine, ReadHeader, ReadRow, NoLine,
                                LeaveTry, JoinReader, StartNode, ReadAhead, Worker

LineIsShort == Len(line) \in Nat /\ Len(line) < BlockLen

LEMMA StrippedIsShort ==
    ASSUME NEW n \in Nat, NEW b, DOMAIN b = 1 .. n, b = [k \in 1 .. n |-> b[k]]
    PROVE  Len(Stripped(b)) \in Nat /\ Len(Stripped(b)) <= n
<1> DEFINE S == {b[k] : k \in 1 .. n}
<1>1. b \in Seq(S) /\ Len(b) = n
  OBVIOUS
<1>2. \A i \in 1 .. n - 1 : b[i] \in S
  OBVIOUS
<1> HIDE DEF S
<1>3. Len(SubSeq(b, 1, n - 1)) = IF 1 <= n - 1 THEN (n - 1) - 1 + 1 ELSE 0
  BY <1>2, SubSeqProperties
<1> QED
  BY <1>1, <1>3 DEF Stripped

LEMMA LineIsShortStep ==
    ASSUME Reader, LineIsShort, [NodeNext]_<<vars, nodeVars>>
    PROVE  LineIsShort'
<1>1. CASE line' = line
  BY <1>1 DEF LineIsShort
<1>2. CASE Scan
  <2>1. PICK end \in data_begin .. data_end :
           \/ line' = line
           \/ /\ ~TooLong(end)
              /\ line' = Stripped([k \in 1 .. end - data_begin |-> buffer[data_begin + k - 1]])
    BY <1>2 DEF Scan, lineVars
  <2>2. CASE line' # line
    <3> DEFINE m == end - data_begin
               b == [k \in 1 .. m |-> buffer[data_begin + k - 1]]
    <3>1. data_begin \in Nat /\ data_end \in Nat /\ BlockLen \in Nat
      BY CellsAreNumbers DEF Reader, NumbersInv
    <3>2. m \in Nat /\ m < BlockLen
      BY <2>1, <2>2, <3>1 DEF TooLong
    <3>3. line' = Stripped(b)
      BY <2>1, <2>2
    <3>4. DOMAIN b = 1 .. m /\ b = [k \in 1 .. m |-> b[k]]
      OBVIOUS
    <3> HIDE DEF m, b
    <3>5. Len(Stripped(b)) \in Nat /\ Len(Stripped(b)) <= m
      BY <3>2, <3>4, StrippedIsShort
    <3>6. BlockLen' = BlockLen
      OBVIOUS
    <3> QED
      BY <3>1, <3>2, <3>3, <3>5 DEF LineIsShort
  <2> QED
    BY <1>1, <2>2
<1>3. ASSUME ~Scan
      PROVE  line' = line
  <2>1. NextLine \/ FinishRead \/ StartRead => line' = line
    BY DEF NextLine, FinishRead, StartRead, lineVars
  <2>2. Destroy \/ Join \/ Fetch \/ Leave \/ UNCHANGED vars => line' = line
    BY DEF Destroy, Join, Fetch, Leave, vars, lineVars
  <2> QED
    BY <1>3, <2>1, <2>2 DEF NodeNext, Main, CallNextLine, InNextLine, ReadHeader, ReadRow, NoLine,
                            LeaveTry, JoinReader, StartNode, ReadAhead, Worker
<1> QED
  BY <1>1, <1>2, <1>3

\* The variables that take one of a few values.
Kinds ==
    /\ at \in {"ready", "finish", "start", "scan", "limit", "end", "aborted", "join", "closed"}
    /\ worker \in {"none", "waiting", "gone"}
    /\ requested \in BOOLEAN
    /\ termination_requested \in BOOLEAN

LEMMA KindsInit == Init => Kinds
  BY DEF Init, Kinds

LEMMA KindsStep ==
    ASSUME Kinds, [NodeNext]_<<vars, nodeVars>>
    PROVE  Kinds'
<1>1. CASE NextLine
  BY <1>1 DEF NextLine, Kinds, asyncVars
<1>2. CASE FinishRead \/ StartRead \/ Scan
  BY <1>2 DEF FinishRead, StartRead, Scan, Kinds, asyncVars
<1>3. CASE Destroy \/ Join
  BY <1>3 DEF Destroy, Join, Kinds, asyncVars
<1>4. CASE Fetch
  <2>1. /\ requested' = FALSE /\ worker' \in {"gone", "waiting"}
        /\ at' = at /\ termination_requested' = termination_requested
    BY <1>4 DEF Fetch
  <2> QED
    BY <2>1 DEF Kinds
<1>5. CASE Leave \/ UNCHANGED vars
  BY <1>5 DEF Leave, vars, Kinds, asyncVars
<1> QED
  BY <1>1, <1>2, <1>3, <1>4, <1>5
  DEF NodeNext, Main, CallNextLine, InNextLine, ReadHeader, ReadRow, NoLine, LeaveTry, JoinReader,
      StartNode, ReadAhead, Worker

\* Every column of the file has a place among the columns main() asks for, or none.
Places == \A n \in DOMAIN col_order : col_order[n] \in 0 .. Len(ColNames)

LEMMA OrderGivesPlaces ==
    ASSUME NEW bytes, NEW n \in DOMAIN Order(bytes)
    PROVE  Order(bytes)[n] \in 0 .. Len(ColNames)
<1> DEFINE Is(i) == ColNames[i] = Columns(bytes)[n]
<1>1. DOMAIN ColNames = 1 .. Len(ColNames) /\ Len(ColNames) = 2
  BY DEF ColNames
<1>2. Order(bytes)[n] = IF \E i \in DOMAIN ColNames : Is(i)
                        THEN CHOOSE i \in DOMAIN ColNames : Is(i) ELSE 0
  BY DEF Order
<1> HIDE DEF Is
<1>3. CASE \E i \in DOMAIN ColNames : Is(i)
  <2>1. Order(bytes)[n] \in DOMAIN ColNames
    BY <1>2, <1>3
  <2> QED
    BY <1>1, <2>1
<1>4. CASE ~\E i \in DOMAIN ColNames : Is(i)
  <2>1. Order(bytes)[n] = 0
    BY <1>2, <1>4
  <2> QED
    BY <1>1, <2>1
<1> QED
  BY <1>3, <1>4

LEMMA PlacesStep ==
    ASSUME Places, [NodeNext]_<<vars, nodeVars>>
    PROVE  Places'
<1>1. col_order' = col_order \/ col_order' = Order(line)
  BY DEF NodeNext, Main, CallNextLine, InNextLine, ReadHeader, ReadRow, NoLine, LeaveTry, JoinReader,
         StartNode, ReadAhead, nodeVars
<1>2. ASSUME col_order' = Order(line)
      PROVE  Places'
  <2>1. \A n \in DOMAIN col_order' : col_order'[n] \in 0 .. Len(ColNames)
    BY <1>2, OrderGivesPlaces
  <2> QED
    BY <2>1 DEF Places, ColNames
<1>3. ASSUME col_order' = col_order
      PROVE  Places'
  BY <1>3 DEF Places, ColNames
<1> QED
  BY <1>1, <1>2, <1>3

\* There are as many nodes as good rows when the first one is started.
LEMMA NodesAreCounted ==
    ASSUME RowsInv, file \in Files
    PROVE  /\ Len(nodes) \in Nat
           /\ \A n \in DOMAIN nodes : DOMAIN nodes[n] = DOMAIN ColNames
<1>1. IsFiniteSet(Ends) /\ Cardinality(Ends) \in Nat
  BY EndsFacts
<1>2. IsFiniteSet(Lines) /\ GoodRows \subseteq Lines
  BY <1>1, FS_Interval DEF Lines, GoodRows
<1>3. Cardinality(GoodRows) \in Nat
  BY <1>2, FS_Subset, FS_CardinalityType
<1>4. \A k : DOMAIN NodeOf(k) = DOMAIN ColNames
  BY DEF NodeOf, Row
<1>5. CASE main = "header"
  BY <1>5 DEF RowsInv
<1>6. ASSUME NEW c \in Nat, nodes = [k \in 1 .. c |-> NodeOf(k)]
      PROVE  /\ Len(nodes) \in Nat
             /\ \A n \in DOMAIN nodes : DOMAIN nodes[n] = DOMAIN ColNames
  <2>1. DOMAIN nodes = 1 .. c /\ \A n \in DOMAIN nodes : nodes[n] = NodeOf(n)
    BY <1>6
  <2>2. Len(nodes) = c
    BY <1>6
  <2> QED
    BY <1>4, <2>1, <2>2
<1>7. CASE main = "rows"
  <2>1. parsed - 1 \in Nat /\ nodes = [k \in 1 .. parsed - 1 |-> NodeOf(k)]
    BY <1>7 DEF RowsInv
  <2> QED
    BY <1>6, <2>1
<1>8. CASE main \in {"leave", "start", "joinAll"}
  BY <1>3, <1>6, <1>8 DEF RowsInv
<1> QED
  BY <1>5, <1>7, <1>8 DEF RowsInv

\* The pool is doubled in time, and no node is started twice.
Pool ==
    /\ started \in Nat /\ capacity \in Nat /\ capacity > 0 /\ started <= capacity
    /\ Reading \/ main = "leave" => started = 0
    /\ main \in {"start", "joinAll"} => started <= Len(nodes)

LEMMA PoolStep ==
    ASSUME RowsInv, file \in Files, Pool, [NodeNext]_<<vars, nodeVars>>
    PROVE  Pool'
<1>1. Len(nodes) \in Nat
  BY NodesAreCounted
<1>2. CASE UNCHANGED nodeVars
  BY <1>2 DEF Pool, Reading, nodeVars
<1>3. CASE ReadHeader \/ ReadRow \/ NoLine
  <2>1. /\ Reading /\ main' \in {"header", "rows", "leave"}
        /\ UNCHANGED <<started, capacity>>
    BY <1>3 DEF ReadHeader, ReadRow, NoLine, Reading
  <2> QED
    BY <2>1 DEF Pool, Reading
<1>4. CASE JoinReader
  <2>1. at = "join" /\ main' = "start" /\ UNCHANGED <<nodes, started, capacity>>
    BY <1>4 DEF JoinReader, Join
  <2>2. main \in {"leave", "start", "joinAll"}
    BY <2>1 DEF RowsInv, Reading
  <2> QED
    BY <1>1, <2>1, <2>2 DEF Pool, Reading
<1>5. CASE StartNode
  <2>1. main = "start" /\ main' \in {"start", "joinAll"} /\ nodes' = nodes
    BY <1>5 DEF StartNode
  <2>2. \/ /\ started < Len(nodes) /\ started' = started + 1
           /\ capacity' = IF started < capacity THEN capacity ELSE 2 * capacity
        \/ UNCHANGED <<started, capacity>>
    BY <1>5 DEF StartNode
  <2> QED
    BY <1>1, <2>1, <2>2 DEF Pool, Reading
<1> QED
  BY <1>2, <1>3, <1>4, <1>5
  DEF NodeNext, Main, CallNextLine, InNextLine, LeaveTry, ReadAhead, nodeVars

TypesInv == Sizes /\ LineIsShort /\ Kinds /\ Places /\ Pool

LEMMA TypesInit == NodeInit /\ Reader /\ LinesInv => TypesInv
<1> SUFFICES ASSUME NodeInit, Reader, LinesInv
             PROVE  TypesInv
  OBVIOUS
<1>1. Kinds
  BY KindsInit DEF NodeInit
<1>2. Sizes
  BY SizesInCall DEF NodeInit, Init, InCall
<1>3. LineIsShort
  BY CellsAreNumbers DEF NodeInit, Init, LineIsShort
<1>4. Places
  BY DEF NodeInit, Places
<1>5. Pool
  BY PoolAssumption DEF NodeInit, Pool, Reading
<1> QED
  BY <1>1, <1>2, <1>3, <1>4, <1>5 DEF TypesInv

LEMMA TypesStep ==
    /\ Reader /\ LinesInv /\ RowsInv /\ TypesInv
    /\ Reader' /\ LinesInv'
    /\ (Reader /\ LinesInv /\ InCall => Sizes)'
    /\ [NodeNext]_<<vars, nodeVars>>
    => TypesInv'
<1> SUFFICES ASSUME Reader, LinesInv, RowsInv, TypesInv, Reader', LinesInv',
                    (Reader /\ LinesInv /\ InCall => Sizes)',
                    [NodeNext]_<<vars, nodeVars>>
             PROVE  TypesInv'
  OBVIOUS
<1>1. Sizes'
  <2>1. InCall' \/ Sizes'
    BY SizesStep DEF TypesInv
  <2>2. InCall' => Sizes'
    OBVIOUS
  <2> QED
    BY <2>1, <2>2
<1>2. LineIsShort'
  BY LineIsShortStep DEF TypesInv
<1>3. Kinds' /\ Places'
  BY KindsStep, PlacesStep DEF TypesInv
<1>4. Pool'
  BY PoolStep DEF TypesInv, LinesInv
<1> QED
  BY <1>1, <1>2, <1>3, <1>4 DEF TypesInv

LEMMA TypesGiveTypeOK ==
    ASSUME Reader, LinesInv, RowsInv, TypesInv
    PROVE  NodeTypeOK
<1>1. /\ NumbersInv /\ BlockLen \in Nat /\ file_line \in Nat /\ parsed \in Nat /\ file \in Files
      /\ Len(file) \in Nat
  BY CellsAreNumbers DEF Reader, NumbersInv, LinesInv, RowsInv
<1>2. /\ pos \in 0 .. Len(file) /\ DOMAIN buffer = Cells
      /\ data_begin \in 0 .. 2 * BlockLen + 1 /\ data_end \in 0 .. 2 * BlockLen + 1
      /\ file_line \in 0 .. Len(file) + 1
      /\ read_byte_count \in -1 .. BlockLen
  BY <1>1 DEF NumbersInv, TypesInv, Sizes
<1>3. TypeOK
  BY <1>2 DEF TypeOK, TypesInv, Kinds, LineIsShort
<1>4. parsed \in {file_line - 1, file_line}
  BY <1>1 DEF RowsInv
<1>5. Len(nodes) \in Nat /\ \A n \in DOMAIN nodes : DOMAIN nodes[n] = DOMAIN ColNames
  BY <1>1, NodesAreCounted
<1>6. main \in {"header", "rows", "leave", "start", "joinAll"}
  BY DEF RowsInv
<1>7. started \in 0 .. Len(nodes) /\ started <= capacity
  BY <1>5, <1>6 DEF TypesInv, Pool, Reading
<1> QED
  BY <1>3, <1>4, <1>5, <1>6, <1>7 DEF NodeTypeOK, TypesInv, Places

\* Whatever the file, the length of a block and the size of the pool: the positions
\* stay within the buffer (one place past the second block at most), a line is shorter
\* than a block, main() is at most one line behind the reader, and the pool is doubled
\* before a thread is missing.
THEOREM StreamNodeTypes == NodeSpec => []NodeTypeOK
<1>1. NodeInit /\ Reader /\ LinesInv => TypesInv
  BY TypesInit
<1>2. /\ Reader /\ LinesInv /\ RowsInv /\ TypesInv
      /\ Reader' /\ LinesInv'
      /\ (Reader /\ LinesInv /\ InCall => Sizes)'
      /\ [NodeNext]_<<vars, nodeVars>>
      => TypesInv'
  BY TypesStep
<1>3. Reader /\ LinesInv /\ RowsInv /\ TypesInv => NodeTypeOK
  BY TypesGiveTypeOK
<1>4. Reader /\ LinesInv /\ InCall => Sizes
  BY SizesInCall
<1> QED
  BY <1>1, <1>2, <1>3, <1>4, RowsAlways, PTL DEF NodeSpec
=============================================================================
