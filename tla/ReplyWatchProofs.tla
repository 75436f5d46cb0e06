-------------------------- MODULE ReplyWatchProofs ---------------------------
(***************************************************************************)
(* Theorems about ReplyWatch: its type, and its four invariants.  That a   *)
(* deadline has a read is inductive by itself; the rest follows from what  *)
(* a connection looks like before anything is left over on it (Fresh) and  *)
(* while there is one command at a time (Alone).                           *)
(***************************************************************************)
EXTENDS ReplyWatch, FiniteSetTheorems, TLAPS

\* Closing the socket ends as many reads of c as there are in the queue.
LEMMA EndedReads ==
    ASSUME NEW left \in Seq(Controllers)
    PROVE  /\ Ended(left) \in [Controllers -> Nat]
           /\ \A c \in Controllers : c \in Elements(left) => Ended(left)[c] > 0
<1> DEFINE Places(c) == {i \in DOMAIN left : left[i] = c}
<1>1. IsFiniteSet(DOMAIN left)
  <2>1. DOMAIN left = 1 .. Len(left) /\ Len(left) \in Nat
    OBVIOUS
  <2> QED
    BY <2>1, FS_Interval
<1>2. ASSUME NEW c \in Controllers
      PROVE  /\ Cardinality(Places(c)) \in Nat
             /\ Places(c) # {} => Cardinality(Places(c)) > 0
  <2>1. Places(c) \subseteq DOMAIN left
    OBVIOUS
  <2>2. IsFiniteSet(Places(c))
    BY <1>1, <2>1, FS_Subset
  <2>3. Cardinality(Places(c)) \in Nat
    BY <2>2, FS_CardinalityType
  <2>4. Cardinality(Places(c)) = 0 <=> Places(c) = {}
    BY <2>2, FS_EmptySet
  <2> HIDE DEF Places
  <2> QED
    BY <2>3, <2>4
<1>3. ASSUME NEW c \in Controllers, c \in Elements(left)
      PROVE  Places(c) # {}
  BY <1>3 DEF Elements
<1>4. Ended(left) = [c \in Controllers |-> Cardinality(Places(c))]
  BY DEF Ended
<1> HIDE DEF Places
<1> QED
  BY <1>2, <1>3, <1>4

-----------------------------------------------------------------------------
(* Types                                                                     *)

\* handleRWError keeps the types of what it changes.
LEMMA ErrorType ==
    ASSUME TypeOK,
           NEW left \in Seq(Controllers),
           NEW handled \in [Controllers -> Nat],
           HandleRWError(left, handled)
    PROVE  /\ conn' \in {"down", "up", "broken"}
           /\ m_isTimerOn' \in BOOLEAN
           /\ reads' \in Seq(Controllers)
           /\ failed' \in [Controllers -> Nat]
           /\ due' \in Seq(Controllers)
           /\ replies' \in Nat
           /\ mute' \subseteq Controllers
           /\ excuse' \subseteq {"crowded", "stale", "initAgain"}
<1>1. Ended(left) \in [Controllers -> Nat]
  BY EndedReads
<1> HIDE DEF Ended
<1>2. \A c \in Controllers : handled[c] + Ended(left)[c] \in Nat
  BY <1>1
<1>3. [c \in Controllers |-> handled[c] + Ended(left)[c]] \in [Controllers -> Nat]
  BY <1>2
<1>4. CASE m_isTimerOn
  <2>1. conn' = conn /\ m_isTimerOn' = m_isTimerOn /\ due' = due /\ replies' = replies
        /\ mute' = mute /\ reads' = left /\ failed' = handled
    BY <1>4 DEF HandleRWError
  <2>2. excuse' \subseteq {"crowded", "stale", "initAgain"}
    BY <1>4 DEF HandleRWError, Excuse, TypeOK
  <2> QED
    BY <2>1, <2>2 DEF TypeOK
<1>5. CASE ~m_isTimerOn
  <2>1. conn' = "down" /\ m_isTimerOn' = TRUE /\ due' = <<>> /\ replies' = 0
        /\ mute' = {} /\ reads' = <<>> /\ excuse' = excuse
        /\ failed' = [c \in Controllers |-> handled[c] + Ended(left)[c]]
    BY <1>5 DEF HandleRWError
  <2> QED
    BY <2>1, <1>3 DEF TypeOK
<1> QED
  BY <1>4, <1>5

LEMMA InfinityType == Infinity \in Nat /\ Deadline \in 0 .. Infinity /\ Infinity \in 0 .. Infinity
  BY ReplyAssumption DEF Infinity

LEMMA TypeInit == Init => TypeOK
<1> SUFFICES ASSUME Init
             PROVE  TypeOK
  OBVIOUS
<1>1. expires \in [Controllers -> 0 .. Infinity]
  BY InfinityType DEF Init
<1>2. failed \in [Controllers -> Nat] /\ place \in [Controllers -> {"idle", "test"}]
  BY DEF Init
<1>3. reads \in Seq(Controllers) /\ due \in Seq(Controllers)
  BY DEF Init
<1> QED
  BY <1>1, <1>2, <1>3 DEF Init, TypeOK

LEMMA TypeStep == TypeOK /\ [Next]_vars => TypeOK'
<1> SUFFICES ASSUME TypeOK, [Next]_vars
             PROVE  TypeOK'
  OBVIOUS
<1> USE InfinityType DEF TypeOK
<1>1. ASSUME NEW c \in Controllers, Write(c)
      PROVE  TypeOK'
  <2>1. due' \in Seq(Controllers) /\ mute' \subseteq Controllers
    <3>1. Append(due, c) \in Seq(Controllers)
      OBVIOUS
    <3>2. \/ due' = Append(due, c) /\ mute' = mute
          \/ due' = due /\ mute' = mute \cup {c}
      BY <1>1 DEF Write
    <3> QED
      BY <3>1, <3>2
  <2>2. excuse' \subseteq {"crowded", "stale", "initAgain"}
    BY <1>1 DEF Write, Excuse
  <2>3. place' \in [Controllers -> {"idle", "test"}]
    BY <1>1 DEF Write
  <2>4. conn' = conn /\ m_isTimerOn' = m_isTimerOn /\ reads' = reads /\ failed' = failed
        /\ replies' = replies /\ expires' = expires /\ io' = io
    BY <1>1 DEF Write
  <2> QED
    BY <2>1, <2>2, <2>3, <2>4
<1>2. ASSUME NEW c \in Controllers, WriteFails(c)
      PROVE  TypeOK'
  BY <1>2, ErrorType DEF WriteFails
<1>3. ASSUME NEW c \in Controllers, Test(c)
      PROVE  TypeOK'
  <2>1. conn' = conn /\ m_isTimerOn' = m_isTimerOn /\ due' = due /\ replies' = replies
        /\ mute' = mute /\ io' = io /\ excuse' = excuse
    BY <1>3 DEF Test
  <2>2. place' \in [Controllers -> {"idle", "test"}] /\ expires' \in [Controllers -> 0 .. Infinity]
    BY <1>3 DEF Test
  <2>3. Append(reads, c) \in Seq(Controllers)
    OBVIOUS
  <2>4. [failed EXCEPT ![c] = @ + 1] \in [Controllers -> Nat]
    OBVIOUS
  <2>5. reads' \in Seq(Controllers) /\ failed' \in [Controllers -> Nat]
    BY <1>3, <2>3, <2>4 DEF Test, StartRead
  <2> QED
    BY <2>1, <2>2, <2>5
<1>4. CASE ReadOk
  BY <1>4 DEF ReadOk, SetInfinite
<1>5. CASE ReadFails
  <2>1. Tail(reads) \in Seq(Controllers)
    BY <1>5 DEF ReadFails
  <2>2. HandleRWError(Tail(reads), failed) /\ place' = place /\ io' = io
    BY <1>5 DEF ReadFails
  <2>3. expires' \in [Controllers -> 0 .. Infinity]
    BY <1>5 DEF ReadFails, SetInfinite
  <2> QED
    BY <2>1, <2>2, <2>3, ErrorType
<1>6. CASE Reset
  BY <1>6 DEF Reset, SetInfinite, socketVars
<1>7. ASSUME NEW c \in Controllers, ReadAborted(c)
      PROVE  TypeOK'
  <2>1. [failed EXCEPT ![c] = @ - 1] \in [Controllers -> Nat]
    BY <1>7 DEF ReadAborted
  <2>2. HandleRWError(reads, [failed EXCEPT ![c] = @ - 1]) /\ place' = place /\ io' = io
    BY <1>7 DEF ReadAborted
  <2>3. expires' \in [Controllers -> 0 .. Infinity]
    BY <1>7 DEF ReadAborted, SetInfinite
  <2> QED
    BY <2>1, <2>2, <2>3, ErrorType
<1>8. ASSUME NEW c \in Controllers, Check(c)
      PROVE  TypeOK'
  <2>1. HandleRWError(reads, failed) /\ place' = place /\ expires' = expires /\ io' = c
    BY <1>8 DEF Check
  <2> QED
    BY <2>1, ErrorType
<1>9. CASE Answer
  <2>1. PICK n \in 1 .. Len(due) : due' = SubSeq(due, n + 1, Len(due))
    BY <1>9 DEF Answer
  <2>2. due' \in Seq(Controllers)
    BY <2>1
  <2>3. UNCHANGED <<conn, m_isTimerOn, reads, failed, mute, place, expires, io, excuse>>
    BY <1>9 DEF Answer
  <2>4. replies' \in Nat
    BY <1>9 DEF Answer
  <2> QED
    BY <2>2, <2>3, <2>4
<1>10. CASE StayMute
  BY <1>10 DEF StayMute
<1>11. CASE Break
  <2>1. Elements(due) \subseteq Controllers
    BY DEF Elements
  <2> QED
    BY <1>11, <2>1 DEF Break
<1>12. CASE Reconnect
  BY <1>12 DEF Reconnect
<1>13. CASE Rearm
  BY <1>13 DEF Rearm
<1>14. CASE Tick
  BY <1>14 DEF Tick, socketVars
<1>15. ASSUME NEW c \in Controllers, InitAgain(c)
       PROVE  TypeOK'
  <2>1. UNCHANGED <<conn, m_isTimerOn, reads, failed, due, replies, mute, place, io>>
    BY <1>15 DEF InitAgain, socketVars
  <2>2. expires' \in [Controllers -> 0 .. Infinity]
    BY <1>15 DEF InitAgain
  <2>3. excuse' \subseteq {"crowded", "stale", "initAgain"}
    BY <1>15 DEF InitAgain, Excuse
  <2> QED
    BY <2>1, <2>2, <2>3
<1>16. CASE UNCHANGED vars
  BY <1>16 DEF vars, socketVars
<1> QED
  BY <1>1, <1>2, <1>3, <1>4, <1>5, <1>6, <1>7, <1>8, <1>9, <1>10, <1>11, <1>12, <1>13,
     <1>14, <1>15, <1>16 DEF Next, SendData, IoThread

\* Every variable of the reply watch stays in its range, for every number of
\* controllers and every deadline.
THEOREM ReplyType == Spec => []TypeOK
  BY TypeInit, TypeStep, PTL DEF Spec

-----------------------------------------------------------------------------
(* A deadline has a read                                                     *)

\* What handleRWError leaves of a read: it waits on, or it has ended.
LEMMA ErrorKeepsReads ==
    ASSUME TypeOK,
           NEW left \in Seq(Controllers),
           NEW handled \in [Controllers -> Nat],
           HandleRWError(left, handled),
           NEW c \in Controllers
    PROVE  /\ c \in Elements(left) => c \in Elements(reads') \/ failed'[c] > 0
           /\ handled[c] > 0 => failed'[c] > 0
<1>1. Ended(left)[c] \in Nat /\ (c \in Elements(left) => Ended(left)[c] > 0)
  BY EndedReads
<1>2. CASE m_isTimerOn
  BY <1>2 DEF HandleRWError
<1>3. CASE ~m_isTimerOn
  <2>1. failed' = [d \in Controllers |-> handled[d] + Ended(left)[d]]
    BY <1>3 DEF HandleRWError
  <2>2. failed'[c] = handled[c] + Ended(left)[c]
    BY <2>1
  <2> QED
    BY <1>1, <2>2
<1> QED
  BY <1>2, <1>3

LEMMA TailElements ==
    ASSUME NEW seq \in Seq(Controllers), seq # <<>>
    PROVE  /\ Head(seq) \in Controllers
           /\ Tail(seq) \in Seq(Controllers)
           /\ Elements(seq) = {Head(seq)} \cup Elements(Tail(seq))
<1>1. Len(seq) \in Nat \ {0} /\ Head(seq) = seq[1] /\ DOMAIN seq = 1 .. Len(seq)
  OBVIOUS
<1>2. /\ Tail(seq) \in Seq(Controllers)
      /\ DOMAIN Tail(seq) = 1 .. Len(seq) - 1
      /\ \A i \in 1 .. Len(seq) - 1 : Tail(seq)[i] = seq[i + 1]
  OBVIOUS
<1>3. ASSUME NEW i \in DOMAIN seq
      PROVE  seq[i] = Head(seq) \/ \E j \in DOMAIN Tail(seq) : seq[i] = Tail(seq)[j]
  <2>1. CASE i = 1
    BY <1>1, <2>1
  <2>2. CASE i # 1
    <3>1. i - 1 \in 1 .. Len(seq) - 1 /\ (i - 1) + 1 = i
      BY <1>1, <2>2
    <3> QED
      BY <1>2, <3>1
  <2> QED
    BY <2>1, <2>2
<1>4. ASSUME NEW j \in DOMAIN Tail(seq)
      PROVE  \E i \in DOMAIN seq : seq[i] = Tail(seq)[j]
  BY <1>1, <1>2
<1>5. Head(seq) \in Elements(seq) /\ Head(seq) \in Controllers
  BY <1>1 DEF Elements
<1>6. Elements(Tail(seq)) \subseteq Elements(seq)
  BY <1>4 DEF Elements
<1>7. Elements(seq) \subseteq {Head(seq)} \cup Elements(Tail(seq))
  BY <1>3 DEF Elements
<1> QED
  BY <1>2, <1>5, <1>6, <1>7

LEMMA DeadlineInit == Init => DeadlineHasRead
  BY DEF Init, DeadlineHasRead

LEMMA DeadlineStep == TypeOK /\ DeadlineHasRead /\ [Next]_vars => DeadlineHasRead'
<1> SUFFICES ASSUME TypeOK, DeadlineHasRead, [Next]_vars
             PROVE  DeadlineHasRead'
  OBVIOUS
<1> USE InfinityType, ReplyAssumption
\* Steps that leave deadlines, reads and their ends alone.
<1>1. ASSUME expires' = expires, reads' = reads, failed' = failed, io' = io
      PROVE  DeadlineHasRead'
  BY <1>1 DEF DeadlineHasRead
<1>2. ASSUME NEW c \in Controllers, WriteFails(c)
      PROVE  DeadlineHasRead'
  <2>1. expires' = expires /\ HandleRWError(reads, failed) /\ io' = io
    BY <1>2 DEF WriteFails
  <2> QED
    BY <2>1, ErrorKeepsReads DEF DeadlineHasRead, TypeOK
<1>3. ASSUME NEW c \in Controllers, Test(c)
      PROVE  DeadlineHasRead'
  <2>1. CASE expires[c] = Infinity
    <3>1. expires' = [expires EXCEPT ![c] = Deadline] /\ io' = io /\ StartRead(c)
      BY <1>3, <2>1 DEF Test
    <3>2. \A d \in Controllers : failed[d] > 0 => failed'[d] > 0
      <4>1. failed' = failed \/ failed' = [failed EXCEPT ![c] = @ + 1]
        BY <3>1 DEF StartRead
      <4>2. failed \in [Controllers -> Nat]
        BY DEF TypeOK
      <4> QED
        BY <4>1, <4>2
    <3>3. Elements(reads) \subseteq Elements(reads')
      <4>1. reads' = reads \/ reads' = Append(reads, c)
        BY <3>1 DEF StartRead
      <4>2. reads \in Seq(Controllers)
        BY DEF TypeOK
      <4>3. \A i \in DOMAIN reads : i \in DOMAIN reads' /\ reads'[i] = reads[i]
        BY <4>1, <4>2
      <4> QED
        BY <4>3 DEF Elements
    <3>4. c \in Elements(reads') \/ failed'[c] > 0
      <4>1. CASE conn = "down"
        <5>1. failed' = [failed EXCEPT ![c] = @ + 1] /\ failed \in [Controllers -> Nat]
          BY <3>1, <4>1 DEF StartRead, TypeOK
        <5> QED
          BY <5>1
      <4>2. CASE conn # "down"
        <5>1. reads' = Append(reads, c) /\ Len(reads) + 1 \in DOMAIN reads'
              /\ reads'[Len(reads) + 1] = c
          BY <3>1, <4>2 DEF StartRead, TypeOK
        <5> QED
          BY <5>1 DEF Elements
      <4> QED
        BY <4>1, <4>2
    <3>5. ASSUME NEW d \in Controllers, d # c
          PROVE  expires'[d] = expires[d]
      BY <3>1, <3>5 DEF TypeOK
    <3> QED
      BY <3>1, <3>2, <3>3, <3>4, <3>5 DEF DeadlineHasRead
  <2>2. CASE expires[c] # Infinity
    BY <1>1, <1>3, <2>2 DEF Test
  <2> QED
    BY <2>1, <2>2
<1>4. CASE ReadOk
  <2>1. expires' = [expires EXCEPT ![Head(reads)] = Infinity]
        /\ reads' = Tail(reads) /\ failed' = failed /\ io' = io /\ reads # <<>>
    BY <1>4 DEF ReadOk, SetInfinite
  <2> QED
    BY <2>1, TailElements DEF DeadlineHasRead, TypeOK
<1>5. CASE ReadFails
  <2>1. expires' = [expires EXCEPT ![Head(reads)] = Infinity]
        /\ HandleRWError(Tail(reads), failed) /\ io' = io /\ reads # <<>>
    BY <1>5 DEF ReadFails, SetInfinite
  <2>2. Head(reads) \in Controllers /\ Tail(reads) \in Seq(Controllers)
        /\ Elements(reads) = {Head(reads)} \cup Elements(Tail(reads))
    BY <2>1, TailElements DEF TypeOK
  <2> QED
    BY <2>1, <2>2, ErrorKeepsReads DEF DeadlineHasRead, TypeOK
<1>6. ASSUME NEW c \in Controllers, ReadAborted(c)
      PROVE  DeadlineHasRead'
  <2> DEFINE handled == [failed EXCEPT ![c] = @ - 1]
  <2>1. expires' = [expires EXCEPT ![c] = Infinity] /\ HandleRWError(reads, handled)
        /\ io' = io /\ failed[c] > 0
    BY <1>6 DEF ReadAborted, SetInfinite
  <2>2. handled \in [Controllers -> Nat]
    BY <2>1 DEF TypeOK
  <2>3. \A d \in Controllers \ {c} : handled[d] = failed[d] /\ expires'[d] = expires[d]
    BY <2>1 DEF TypeOK
  <2>4. expires'[c] = Infinity
    BY <2>1 DEF TypeOK
  <2> HIDE DEF handled
  <2> QED
    BY <2>1, <2>2, <2>3, <2>4, ErrorKeepsReads DEF DeadlineHasRead, TypeOK
<1>7. ASSUME NEW c \in Controllers, Check(c)
      PROVE  DeadlineHasRead'
  <2>1. expires' = expires /\ HandleRWError(reads, failed) /\ io' = c /\ io = None
    BY <1>7 DEF Check
  <2> QED
    BY <2>1, ErrorKeepsReads DEF DeadlineHasRead, TypeOK
<1>8. CASE Reset
  <2>1. expires' = [expires EXCEPT ![io] = Infinity] /\ reads' = reads /\ failed' = failed
        /\ io \in Controllers
    BY <1>8 DEF Reset, SetInfinite, socketVars, TypeOK
  <2> QED
    BY <2>1 DEF DeadlineHasRead, TypeOK
<1>9. CASE Tick
  <2>1. reads' = reads /\ failed' = failed /\ io' = io
    BY <1>9 DEF Tick, socketVars
  <2>2. \A c \in Controllers : expires[c] = Infinity => expires'[c] = Infinity
    BY <1>9 DEF Tick
  <2> QED
    BY <2>1, <2>2 DEF DeadlineHasRead
<1>10. CASE Reconnect
  BY <1>10, <1>1 DEF Reconnect
<1>11. ASSUME NEW c \in Controllers, InitAgain(c)
       PROVE  DeadlineHasRead'
  <2>1. expires' = [expires EXCEPT ![c] = Infinity] /\ reads' = reads /\ failed' = failed
        /\ io' = io
    BY <1>11 DEF InitAgain, socketVars
  <2> QED
    BY <2>1 DEF DeadlineHasRead, TypeOK
<1> QED
  BY <1>1, <1>2, <1>3, <1>4, <1>5, <1>6, <1>7, <1>8, <1>9, <1>10, <1>11
     DEF Next, SendData, IoThread, Write, Answer, StayMute, Break, Rearm, vars, socketVars

\* A deadline never runs without a read, or the end of one, that will set it to
\* infinity again, on any number of controllers and through any error.
THEOREM DeadlinesHaveReads == Spec => []DeadlineHasRead
<1>1. TypeOK /\ DeadlineHasRead /\ [Next]_vars => (TypeOK /\ DeadlineHasRead)'
  BY TypeStep, DeadlineStep
<1> QED
  BY TypeInit, DeadlineInit, <1>1, PTL DEF Spec
-----------------------------------------------------------------------------
(* A connection with nothing left over, and one command at a time            *)

Fresh ==
    /\ conn = "down" => reads = <<>>
    /\ conn # "down" /\ "stale" \notin excuse =>
          /\ io = None
          /\ \A c \in Controllers : failed[c] = 0
    /\ conn # "down" /\ excuse \subseteq {"crowded"} =>
          /\ \A i, j \in DOMAIN reads : reads[i] = reads[j] => i = j
          /\ \A c \in Elements(reads) : expires[c] # Infinity

\* Whose command it is that is answered next, and how far the worker has come.
Owns(c) ==
    /\ \/ due = <<c>> /\ mute = {} /\ replies = 0
       \/ due = <<>> /\ mute = {c} /\ replies = 0
       \/ due = <<>> /\ mute = {} /\ replies = 1
    /\ \/ place[c] = "test" /\ reads = <<>>
       \/ place[c] = "idle" /\ reads = <<c>>
    /\ \A d \in Controllers \ {c} : place[d] = "idle"

Quiet ==
    /\ due = <<>> /\ mute = {} /\ replies = 0 /\ reads = <<>>
    /\ \A d \in Controllers : place[d] = "idle"

Alone == conn # "down" /\ excuse = {} => Quiet \/ \E c \in Controllers : Owns(c)

\* After an error the connection is closed, or something is left over on it, or it
\* was closed before.
LEMMA ErrorEffect ==
    ASSUME NEW left, NEW handled, HandleRWError(left, handled)
    PROVE  \/ conn' = "down" /\ reads' = <<>>
           \/ conn' = conn /\ conn # "down" /\ "stale" \in excuse'
           \/ conn' = "down" /\ conn = "down" /\ reads' = left
  BY DEF HandleRWError, Excuse

LEMMA FreshAfterError ==
    ASSUME Fresh, NEW left, NEW handled, HandleRWError(left, handled),
           conn = "down" => left = <<>>
    PROVE  Fresh' /\ Alone'
  BY ErrorEffect DEF Fresh, Alone

LEMMA FreshInit == Init => Fresh /\ Alone
  BY DEF Init, Fresh, Alone, Quiet, Elements

LEMMA FreshStep == TypeOK /\ Fresh /\ [Next]_vars => Fresh'
<1> SUFFICES ASSUME TypeOK, Fresh, [Next]_vars
             PROVE  Fresh'
  OBVIOUS
<1> USE InfinityType, ReplyAssumption
\* Steps that leave the reads alone.
<1>1. ASSUME conn' = conn \/ (conn # "down" /\ conn' # "down"), excuse \subseteq excuse',
             reads' = reads, failed' = failed, io' = io, expires' = expires
      PROVE  Fresh'
  BY <1>1 DEF Fresh, Elements
<1>2. ASSUME NEW c \in Controllers, Write(c)
      PROVE  Fresh'
  BY <1>1, <1>2 DEF Write, Excuse
<1>3. ASSUME NEW c \in Controllers, WriteFails(c)
      PROVE  Fresh'
  <2>1. HandleRWError(reads, failed)
    BY <1>3 DEF WriteFails
  <2> QED
    BY <2>1, FreshAfterError DEF Fresh
<1>4. ASSUME NEW c \in Controllers, Test(c)
      PROVE  Fresh'
  <2>1. CASE expires[c] # Infinity
    BY <1>1, <1>4, <2>1 DEF Test
  <2>2. CASE expires[c] = Infinity /\ conn = "down"
    BY <1>4, <2>2 DEF Test, StartRead, Fresh
  <2>3. CASE expires[c] = Infinity /\ conn # "down"
    <3>1. /\ expires' = [expires EXCEPT ![c] = Deadline] /\ reads' = Append(reads, c)
          /\ failed' = failed /\ io' = io /\ excuse' = excuse /\ conn' = conn
      BY <1>4, <2>3 DEF Test, StartRead
    <3>2. SUFFICES ASSUME excuse \subseteq {"crowded"}
                   PROVE  /\ \A i, j \in DOMAIN reads' : reads'[i] = reads'[j] => i = j
                          /\ \A d \in Elements(reads') : expires'[d] # Infinity
      BY <3>1, <2>3 DEF Fresh
    <3>3. /\ \A i, j \in DOMAIN reads : reads[i] = reads[j] => i = j
          /\ \A d \in Elements(reads) : expires[d] # Infinity
      BY <2>3, <3>2 DEF Fresh
    <3>4. /\ DOMAIN reads' = 1 .. Len(reads) + 1 /\ Len(reads) \in Nat
          /\ DOMAIN reads = 1 .. Len(reads)
          /\ reads'[Len(reads) + 1] = c
          /\ \A i \in DOMAIN reads : reads'[i] = reads[i] /\ reads[i] \in Controllers
      BY <3>1 DEF TypeOK
    <3>5. \A i \in DOMAIN reads : reads[i] # c
      BY <2>3, <3>3 DEF Elements
    <3>6. \A i, j \in DOMAIN reads' : reads'[i] = reads'[j] => i = j
      BY <3>3, <3>4, <3>5
    <3>7. ASSUME NEW i \in DOMAIN reads'
          PROVE  expires'[reads'[i]] # Infinity
      <4>1. CASE i = Len(reads) + 1
        <5>1. expires'[c] = Deadline
          BY <3>1 DEF TypeOK
        <5> QED
          BY <3>4, <4>1, <5>1 DEF Infinity
      <4>2. CASE i \in DOMAIN reads
        <5>1. expires'[reads[i]] = expires[reads[i]]
          BY <3>1, <3>4, <3>5, <4>2 DEF TypeOK
        <5> QED
          BY <3>3, <3>4, <4>2, <5>1 DEF Elements
      <4> QED
        BY <3>4, <4>1, <4>2
    <3> QED
      BY <3>6, <3>7 DEF Elements
  <2> QED
    BY <2>1, <2>2, <2>3
<1>5. CASE ReadOk
  <2>1. /\ expires' = [expires EXCEPT ![Head(reads)] = Infinity] /\ reads # <<>>
        /\ reads' = Tail(reads) /\ failed' = failed /\ io' = io
        /\ excuse' = excuse /\ conn' = conn
    BY <1>5 DEF ReadOk, SetInfinite
  <2>2. conn # "down"
    BY <2>1 DEF Fresh
  <2>3. SUFFICES ASSUME excuse \subseteq {"crowded"}
                 PROVE  /\ \A i, j \in DOMAIN reads' : reads'[i] = reads'[j] => i = j
                        /\ \A d \in Elements(reads') : expires'[d] # Infinity
    BY <2>1, <2>2 DEF Fresh
  <2>4. /\ \A i, j \in DOMAIN reads : reads[i] = reads[j] => i = j
        /\ \A d \in Elements(reads) : expires[d] # Infinity
    BY <2>2, <2>3 DEF Fresh
  <2>5. /\ Len(reads) \in Nat \ {0} /\ DOMAIN reads = 1 .. Len(reads)
        /\ DOMAIN reads' = 1 .. Len(reads) - 1 /\ Head(reads) = reads[1]
        /\ \A i \in DOMAIN reads' : reads'[i] = reads[i + 1]
        /\ \A i \in DOMAIN reads : reads[i] \in Controllers
    BY <2>1 DEF TypeOK
  <2>6. \A i, j \in DOMAIN reads' : reads'[i] = reads'[j] => i = j
    BY <2>4, <2>5
  <2>7. ASSUME NEW i \in DOMAIN reads'
        PROVE  expires'[reads'[i]] # Infinity
    <3>1. i + 1 \in DOMAIN reads /\ i + 1 # 1 /\ 1 \in DOMAIN reads
      BY <2>5
    <3>2. reads[i + 1] # reads[1]
      BY <2>4, <3>1
    <3>3. expires'[reads[i + 1]] = expires[reads[i + 1]]
      BY <2>1, <2>5, <3>1, <3>2 DEF TypeOK
    <3> QED
      BY <2>4, <2>5, <3>1, <3>3 DEF Elements
  <2> QED
    BY <2>6, <2>7 DEF Elements
<1>6. CASE ReadFails
  <2>1. HandleRWError(Tail(reads), failed) /\ reads # <<>>
    BY <1>6 DEF ReadFails
  <2> QED
    BY <2>1, FreshAfterError DEF Fresh
<1>7. ASSUME NEW c \in Controllers, ReadAborted(c)
      PROVE  Fresh'
  <2>1. HandleRWError(reads, [failed EXCEPT ![c] = @ - 1])
    BY <1>7 DEF ReadAborted
  <2> QED
    BY <2>1, FreshAfterError DEF Fresh
<1>8. ASSUME NEW c \in Controllers, Check(c)
      PROVE  Fresh'
  <2>1. HandleRWError(reads, failed)
    BY <1>8 DEF Check
  <2> QED
    BY <2>1, FreshAfterError DEF Fresh
<1>9. CASE Reset
  <2>1. conn' = conn /\ reads' = reads /\ excuse' = excuse /\ io # None
    BY <1>9 DEF Reset, socketVars
  <2> QED
    BY <2>1 DEF Fresh
<1>10. CASE Tick
  <2>1. conn' = conn /\ reads' = reads /\ failed' = failed /\ io' = io /\ excuse' = excuse
    BY <1>10 DEF Tick, socketVars
  <2>2. \A c \in Controllers : expires[c] \in 0 .. Infinity
    BY DEF TypeOK
  <2>3. \A c \in Controllers : expires[c] # Infinity => expires'[c] # Infinity
    BY <1>10, <2>2 DEF Tick
  <2>4. Elements(reads) \subseteq Controllers
    BY DEF TypeOK, Elements
  <2>5. Elements(reads') = Elements(reads) /\ DOMAIN reads' = DOMAIN reads
    BY <2>1
  <2> QED
    BY <2>1, <2>3, <2>4, <2>5 DEF Fresh
<1>11. CASE Reconnect
  <2>1. /\ conn = "down" /\ conn' = "up" /\ reads' = reads /\ failed' = failed /\ io' = io
        /\ excuse' = IF Stale THEN {"stale"} ELSE {}
    BY <1>11 DEF Reconnect
  <2>2. reads = <<>>
    BY <2>1 DEF Fresh
  <2>3. CASE Stale
    BY <2>1, <2>3 DEF Fresh
  <2>4. CASE ~Stale
    <3>1. io = None /\ \A c \in Controllers : failed[c] = 0
      BY <2>4 DEF Stale, TypeOK
    <3> QED
      BY <2>1, <2>2, <3>1 DEF Fresh, Elements
  <2> QED
    BY <2>3, <2>4
<1>12. ASSUME NEW c \in Controllers, InitAgain(c)
       PROVE  Fresh'
  <2>1. /\ conn' = conn /\ reads' = reads /\ failed' = failed /\ io' = io
        /\ expires' = [expires EXCEPT ![c] = Infinity]
        /\ excuse' = IF expires[c] # Infinity THEN excuse \cup {"initAgain"} ELSE excuse
    BY <1>12 DEF InitAgain, Excuse, socketVars
  <2>2. CASE expires[c] # Infinity
    BY <2>1, <2>2 DEF Fresh
  <2>3. CASE expires[c] = Infinity
    <3>1. expires' = expires
      BY <2>1, <2>3 DEF TypeOK
    <3> QED
      BY <1>1, <2>1, <2>3, <3>1
  <2> QED
    BY <2>2, <2>3
<1> QED
  BY <1>1, <1>2, <1>3, <1>4, <1>5, <1>6, <1>7, <1>8, <1>9, <1>10, <1>11, <1>12
     DEF Next, SendData, IoThread, Answer, StayMute, Break, Rearm, vars, socketVars

\* Closing the socket loses what is under way.
Cleared == conn = "down" => due = <<>> /\ replies = 0 /\ mute = {}

LEMMA ClearedStep == Cleared /\ [Next]_vars => Cleared'
<1> SUFFICES ASSUME Cleared, [Next]_vars
             PROVE  Cleared'
  OBVIOUS
<1>1. ASSUME NEW left, NEW handled, HandleRWError(left, handled)
      PROVE  Cleared'
  BY <1>1 DEF HandleRWError, Cleared
<1>2. ASSUME NEW c \in Controllers, WriteFails(c) \/ ReadAborted(c) \/ Check(c)
      PROVE  Cleared'
  BY <1>1, <1>2 DEF WriteFails, ReadAborted, Check
<1>3. CASE ReadFails
  BY <1>1, <1>3 DEF ReadFails
<1>4. ASSUME NEW c \in Controllers, Write(c) \/ Test(c) \/ InitAgain(c)
      PROVE  Cleared'
  BY <1>4 DEF Write, Test, InitAgain, socketVars, Cleared
<1>5. CASE ReadOk \/ Reset \/ Answer \/ StayMute \/ Break \/ Reconnect \/ Rearm \/ Tick
  BY <1>5 DEF ReadOk, Reset, Answer, StayMute, Break, Reconnect, Rearm, Tick, socketVars, Cleared
<1>6. CASE UNCHANGED vars
  BY <1>6 DEF vars, socketVars, Cleared
<1> QED
  BY <1>2, <1>3, <1>4, <1>5, <1>6 DEF Next, SendData, IoThread

LEMMA AloneStep ==
    TypeOK /\ DeadlineHasRead /\ Fresh /\ Cleared /\ Alone /\ [Next]_vars => Alone'
<1> SUFFICES ASSUME TypeOK, DeadlineHasRead, Fresh, Cleared, Alone, [Next]_vars
             PROVE  Alone'
  OBVIOUS
<1> USE InfinityType, ReplyAssumption
<1>1. ASSUME NEW c \in Controllers, Write(c)
      PROVE  Alone'
  <2>1. CASE Crowded
    BY <1>1, <2>1 DEF Write, Excuse, Alone
  <2>2. CASE ~Crowded
    <3>1. due = <<>> /\ replies = 0 /\ mute = {} /\ reads = <<>>
      BY <2>2 DEF Crowded, TypeOK
    <3>2. \A d \in Controllers : place[d] = "idle"
      BY <2>2 DEF Crowded
    <3>3. /\ place' = [place EXCEPT ![c] = "test"] /\ reads' = reads /\ replies' = replies
          /\ \/ due' = Append(due, c) /\ mute' = mute
             \/ due' = due /\ mute' = mute \cup {c}
      BY <1>1 DEF Write
    <3>4. place'[c] = "test" /\ \A d \in Controllers \ {c} : place'[d] = "idle"
      BY <3>2, <3>3 DEF TypeOK
    <3>5. \/ due' = <<c>> /\ mute' = {}
          \/ due' = <<>> /\ mute' = {c}
      BY <3>1, <3>3
    <3>6. Owns(c)'
      BY <3>1, <3>3, <3>4, <3>5 DEF Owns
    <3> QED
      BY <3>6 DEF Alone
  <2> QED
    BY <2>1, <2>2
<1>2. ASSUME NEW c \in Controllers, WriteFails(c)
      PROVE  Alone'
  <2>1. HandleRWError(reads, failed)
    BY <1>2 DEF WriteFails
  <2> QED
    BY <2>1, FreshAfterError DEF Fresh
<1>3. ASSUME NEW c \in Controllers, Test(c)
      PROVE  Alone'
  <2>1. /\ conn' = conn /\ excuse' = excuse /\ due' = due /\ replies' = replies /\ mute' = mute
        /\ place[c] = "test" /\ place' = [place EXCEPT ![c] = "idle"]
    BY <1>3 DEF Test
  <2>2. SUFFICES ASSUME conn # "down", excuse = {}
                 PROVE  Owns(c)'
    BY <2>1 DEF Alone
  <2>3. Owns(c)
    BY <2>1, <2>2 DEF Alone, Quiet, Owns
  <2>4. reads = <<>> /\ io = None /\ failed[c] = 0
    BY <2>1, <2>2, <2>3 DEF Owns, Fresh
  <2>5. expires[c] = Infinity
    BY <2>4 DEF DeadlineHasRead, Elements
  <2>6. reads' = <<c>>
    BY <1>3, <2>2, <2>4, <2>5 DEF Test, StartRead
  <2>7. place'[c] = "idle" /\ \A d \in Controllers \ {c} : place'[d] = place[d]
    BY <2>1 DEF TypeOK
  <2> QED
    BY <2>1, <2>3, <2>6, <2>7 DEF Owns
<1>4. CASE ReadOk
  <2>1. /\ conn' = conn /\ excuse' = excuse /\ due' = due /\ mute' = mute /\ place' = place
        /\ reads # <<>> /\ replies > 0 /\ reads' = Tail(reads) /\ replies' = 0
    BY <1>4 DEF ReadOk
  <2>2. SUFFICES ASSUME conn # "down", excuse = {}
                 PROVE  Quiet'
    BY <2>1 DEF Alone
  <2>3. PICK c \in Controllers : Owns(c)
    BY <2>1, <2>2 DEF Alone, Quiet
  <2>4. due = <<>> /\ mute = {} /\ reads = <<c>> /\ \A d \in Controllers : place[d] = "idle"
    BY <2>1, <2>3 DEF Owns
  <2>5. Tail(<<c>>) = <<>>
    OBVIOUS
  <2> QED
    BY <2>1, <2>4, <2>5 DEF Quiet
<1>5. CASE ReadFails
  <2>1. HandleRWError(Tail(reads), failed) /\ reads # <<>>
    BY <1>5 DEF ReadFails
  <2> QED
    BY <2>1, FreshAfterError DEF Fresh
<1>6. ASSUME NEW c \in Controllers, ReadAborted(c)
      PROVE  Alone'
  <2>1. HandleRWError(reads, [failed EXCEPT ![c] = @ - 1])
    BY <1>6 DEF ReadAborted
  <2> QED
    BY <2>1, FreshAfterError DEF Fresh
<1>7. ASSUME NEW c \in Controllers, Check(c)
      PROVE  Alone'
  <2>1. HandleRWError(reads, failed)
    BY <1>7 DEF Check
  <2> QED
    BY <2>1, FreshAfterError DEF Fresh
<1>8. CASE Answer
  <2>1. /\ conn' = conn /\ excuse' = excuse /\ reads' = reads /\ mute' = mute /\ place' = place
        /\ replies' = replies + 1
    BY <1>8 DEF Answer
  <2>2. PICK n \in 1 .. Len(due) : due' = SubSeq(due, n + 1, Len(due))
    BY <1>8 DEF Answer
  <2>3. SUFFICES ASSUME conn # "down", excuse = {}
                 PROVE  \E c \in Controllers : Owns(c)'
    BY <2>1 DEF Alone
  <2>4. due # <<>>
    BY <2>2
  <2>5. PICK c \in Controllers : Owns(c)
    BY <2>3, <2>4 DEF Alone, Quiet
  <2>6. due = <<c>> /\ mute = {} /\ replies = 0
    BY <2>4, <2>5 DEF Owns
  <2>7. Len(<<c>>) = 1
    OBVIOUS
  <2>8. n = 1
    BY <2>2, <2>6, <2>7
  <2>9. due' = <<>>
    BY <2>2, <2>6, <2>7, <2>8
  <2> QED
    BY <2>1, <2>5, <2>6, <2>9 DEF Owns
<1>9. CASE StayMute
  <2>1. /\ conn' = conn /\ excuse' = excuse /\ reads' = reads /\ replies' = replies /\ place' = place
        /\ due # <<>> /\ due' = Tail(due) /\ mute' = mute \cup {Head(due)}
    BY <1>9 DEF StayMute
  <2>2. SUFFICES ASSUME conn # "down", excuse = {}
                 PROVE  \E c \in Controllers : Owns(c)'
    BY <2>1 DEF Alone
  <2>3. PICK c \in Controllers : Owns(c)
    BY <2>1, <2>2 DEF Alone, Quiet
  <2>4. due = <<c>> /\ mute = {} /\ replies = 0
    BY <2>1, <2>3 DEF Owns
  <2>5. Tail(<<c>>) = <<>> /\ Head(<<c>>) = c
    OBVIOUS
  <2> QED
    BY <2>1, <2>3, <2>4, <2>5 DEF Owns
<1>10. CASE Break
  <2>1. /\ conn = "up" /\ excuse' = excuse /\ reads' = reads /\ replies' = replies /\ place' = place
        /\ due' = <<>> /\ mute' = mute \cup Elements(due)
    BY <1>10 DEF Break
  <2>2. Elements(<<>>) = {} /\ \A c \in Controllers : Elements(<<c>>) = {c}
    BY DEF Elements
  <2>3. ASSUME excuse = {}, Quiet
        PROVE  Quiet'
    BY <2>1, <2>2, <2>3 DEF Quiet
  <2>4. ASSUME excuse = {}, NEW c \in Controllers, Owns(c)
        PROVE  Owns(c)'
    BY <2>1, <2>2, <2>4 DEF Owns
  <2> QED
    BY <2>1, <2>3, <2>4 DEF Alone
<1>11. CASE Reconnect
  <2>1. /\ conn = "down" /\ reads' = reads /\ due' = due /\ replies' = replies /\ mute' = mute
        /\ place' = place /\ excuse' = IF Stale THEN {"stale"} ELSE {}
    BY <1>11 DEF Reconnect
  <2>2. CASE Stale
    BY <2>1, <2>2 DEF Alone
  <2>3. CASE ~Stale
    <3>1. \A d \in Controllers : place[d] = "idle"
      BY <2>3 DEF Stale
    <3> QED
      BY <2>1, <3>1 DEF Alone, Quiet, Fresh, Cleared
  <2> QED
    BY <2>2, <2>3
<1>12. ASSUME conn' = conn, excuse' = excuse, reads' = reads, due' = due, replies' = replies,
              mute' = mute, place' = place
       PROVE  Alone'
  BY <1>12 DEF Alone, Quiet, Owns
<1>13. CASE Reset
  BY <1>12, <1>13 DEF Reset, socketVars
<1>14. CASE Rearm
  BY <1>12, <1>14 DEF Rearm
<1>15. CASE Tick
  BY <1>12, <1>15 DEF Tick, socketVars
<1>16. CASE UNCHANGED vars
  BY <1>12, <1>16 DEF vars, socketVars
<1>17. ASSUME NEW c \in Controllers, InitAgain(c)
       PROVE  Alone'
  <2>1. UNCHANGED <<conn, reads, due, replies, mute, place>>
        /\ excuse' = IF expires[c] # Infinity THEN excuse \cup {"initAgain"} ELSE excuse
    BY <1>17 DEF InitAgain, Excuse, socketVars
  <2>2. CASE excuse' = {}
    BY <1>12, <2>1, <2>2
  <2>3. CASE excuse' # {}
    BY <2>3 DEF Alone
  <2> QED
    BY <2>2, <2>3
<1> QED
  BY <1>1, <1>2, <1>3, <1>4, <1>5, <1>6, <1>7, <1>8, <1>9, <1>10, <1>11, <1>13, <1>14,
     <1>15, <1>16, <1>17 DEF Next, SendData, IoThread

WatchInv == TypeOK /\ DeadlineHasRead /\ Fresh /\ Cleared /\ Alone

LEMMA WatchAlways == Spec => []WatchInv
<1>1. Init => WatchInv
  BY TypeInit, DeadlineInit, FreshInit DEF WatchInv, Cleared, Init
<1>2. WatchInv /\ [Next]_vars => WatchInv'
  BY TypeStep, DeadlineStep, FreshStep, ClearedStep, AloneStep DEF WatchInv
<1> QED
  BY <1>1, <1>2, PTL DEF Spec

\* On a connection that was made when nothing of the last one was left over, every
\* read that waits has a deadline that runs, until Init takes one away.
THEOREM ReadsHaveDeadlines == Spec => []ReadHasDeadline
<1>1. WatchInv => ReadHasDeadline
  BY DEF WatchInv, Fresh, ReadHasDeadline, Elements
<1> QED
  BY <1>1, WatchAlways, PTL

\* With one command at a time on a sound connection, the command of a deadline that
\* has passed is unanswered, or its answer lies at the socket, where only the read of
\* this controller waits; nobody has read it.
THEOREM AlarmsAreTrue == Spec => []AlarmMeansUnread
<1>1. ASSUME WatchInv, NEW c \in Controllers, conn = "up", expires[c] = 0, excuse = {}
      PROVE  c \in Elements(due) \cup mute \/ (replies > 0 /\ reads = <<c>>)
  <2>1. expires[c] # Infinity
    BY <1>1, ReplyAssumption DEF Infinity
  <2>2. c \in Elements(reads)
    BY <1>1, <2>1, ReplyAssumption DEF WatchInv, DeadlineHasRead, Fresh
  <2>3. reads # <<>>
    BY <2>2 DEF Elements
  <2>4. PICK d \in Controllers : Owns(d)
    BY <1>1, <2>3 DEF WatchInv, Alone, Quiet
  <2>5. reads = <<d>>
    BY <2>3, <2>4 DEF Owns
  <2>6. c = d
    BY <2>2, <2>5 DEF Elements
  <2>7. d \in Elements(<<d>>)
    BY DEF Elements
  <2>8. \/ due = <<c>> /\ mute = {} /\ replies = 0
        \/ due = <<>> /\ mute = {c} /\ replies = 0
        \/ due = <<>> /\ mute = {} /\ replies = 1
    BY <2>4, <2>6 DEF Owns
  <2> QED
    BY <2>5, <2>6, <2>7, <2>8
<1>2. WatchInv => AlarmMeansUnread
  BY <1>1 DEF AlarmMeansUnread
<1> QED
  BY <1>2, WatchAlways, PTL

\* With one command at a time a deadline that is infinite between two commands says
\* that every command has been answered.
THEOREM SilenceIsGood == Spec => []InfiniteMeansAnswered
<1>1. ASSUME WatchInv, NEW c \in Controllers, conn # "down", expires[c] = Infinity,
             place[c] = "idle", excuse = {}
      PROVE  c \notin Elements(due) \cup mute
  <2>1. CASE Quiet
    BY <2>1 DEF Quiet, Elements
  <2>2. ASSUME NEW d \in Controllers, Owns(d), c \in Elements(due) \cup mute
        PROVE  FALSE
    <3>1. Elements(<<>>) = {} /\ Elements(<<d>>) = {d}
      BY DEF Elements
    <3>2. c = d
      BY <2>2, <3>1 DEF Owns
    <3>3. reads = <<c>>
      BY <1>1, <2>2, <3>2 DEF Owns
    <3>4. c \in Elements(reads)
      BY <3>1, <3>2, <3>3
    <3> QED
      BY <1>1, <3>4 DEF WatchInv, Fresh
  <2> QED
    BY <1>1, <2>1, <2>2 DEF WatchInv, Alone
<1>2. WatchInv => InfiniteMeansAnswered
  BY <1>1 DEF InfiniteMeansAnswered
<1> QED
  BY <1>2, WatchAlways, PTL

=============================================================================
