--------------------------- MODULE ReconnectProofs ---------------------------
(***************************************************************************)
(* What Reconnect guarantees for any number of threads that report errors  *)
(* and for any two period constants.                                       *)
(***************************************************************************)
EXTENDS Reconnect, TLAPS

-----------------------------------------------------------------------------
(* Type correctness                                                          *)

\* The pause grows and stays within its maximum, whether or not the maximum is a
\* power of the factor.
LEMMA LongerIsBounded ==
    ASSUME NEW interval \in StartPeriod .. MaxPeriod
    PROVE  Longer(interval) \in StartPeriod .. MaxPeriod /\ interval <= Longer(interval)
  <1>1. /\ interval \in Nat /\ interval >= StartPeriod
        /\ StartPeriod \in Nat /\ StartPeriod >= 2 /\ MaxPeriod \in Nat
    BY ReconnectAssumption
  <1>2. interval * StartPeriod \in Nat /\ interval * StartPeriod >= interval
    BY <1>1, SMTT(30)
  <1> QED
    BY <1>1, <1>2 DEF Longer

\* The disjuncts of Next, as the proofs go through them.
CallerStep(r) ==
    \/ r # Network /\ (Report(r) \/ HandleRWError(r) \/ Leave(r))
    \/ StartReconnectTimer(r)
NetworkStep == CallConnect \/ ConnectGoesOn

LEMMA NextSteps ==
    [Next]_vars => \/ \E r \in Callers : CallerStep(r)
                   \/ NetworkStep
                   \/ Timer
                   \/ CloseSocket \/ Shutdown
                   \/ UNCHANGED vars
  BY ReconnectAssumption DEF Next, CallerStep, NetworkStep, Callers, Workers

LEMMA TypeInit == Init => TypeOK
  <1> SUFFICES ASSUME Init
               PROVE  TypeOK
    OBVIOUS
  <1>1. StartPeriod \in StartPeriod .. MaxPeriod
    BY ReconnectAssumption
  <1>2. PICK ok \in BOOLEAN :
           /\ socket = IF ok THEN "open" ELSE "closed"
           /\ m_isConnected = ok
           /\ m_isTimerOn = ~ok
           /\ hasCallback = ~ok
           /\ timer = IF ok THEN "off" ELSE "sleep"
    BY DEF Init
  <1>3. /\ {m_isConnected, m_isTimerOn, hasCallback} \subseteq BOOLEAN
        /\ socket \in {"closed", "open"} /\ timer \in TimerPlaces
    BY <1>2 DEF TimerPlaces
  <1>4. {wakeUp, done, missed, overlapped, unasked, late, contended} \subseteq BOOLEAN
    BY DEF Init
  <1>5. caller \in [Callers -> Places] /\ main \in MainPlaces
    BY DEF Init, Places, MainPlaces
  <1> QED
    BY <1>1, <1>3, <1>4, <1>5 DEF Init, TypeOK

LEMMA TypeStep == TypeOK /\ [Next]_vars => TypeOK'
  <1> SUFFICES ASSUME TypeOK, [Next]_vars
               PROVE  TypeOK'
    OBVIOUS
  <1> USE DEF TypeOK, flags, poco, past
  <1>start. StartPeriod \in StartPeriod .. MaxPeriod
    BY ReconnectAssumption
  <1>1. CASE NetworkStep
    <2> USE <1>1 DEF NetworkStep, CallConnect, ConnectGoesOn, MarkConnect, ReadConnect,
                     SomebodyStarts
    <2>1. caller' \in [Callers -> Places]
      BY DEF Goes, Places, Starting
    <2>2. /\ {m_isConnected', overlapped', unasked'} \subseteq BOOLEAN
          /\ socket' \in {"closed", "open"}
      OBVIOUS
    <2>3. UNCHANGED <<m_isTimerOn, m_interval, poco, main, missed, late, contended>>
      OBVIOUS
    <2> QED
      BY <2>1, <2>2, <2>3
  <1>2. ASSUME NEW r \in Callers, CallerStep(r)
        PROVE  TypeOK'
    <2> USE <1>2 DEF CallerStep, Report, HandleRWError, StartReconnectTimer, Unmark, Test,
                     Close, Arm, Stop, WaitDone, SetPeriod, Start, Leave,
                     SomebodyStarts, Succeeded, Closing
    <2>1. caller' \in [Callers -> Places]
      BY DEF Goes, Places, Starting
    <2>2. timer' \in TimerPlaces
      BY DEF TimerPlaces
    <2>3. /\ m_isConnected' \in BOOLEAN /\ m_isTimerOn' \in BOOLEAN
          /\ hasCallback' \in BOOLEAN /\ wakeUp' \in BOOLEAN /\ done' \in BOOLEAN
      OBVIOUS
    <2>4. /\ missed' \in BOOLEAN /\ overlapped' \in BOOLEAN /\ unasked' \in BOOLEAN
          /\ late' \in BOOLEAN /\ contended' \in BOOLEAN
      OBVIOUS
    <2>5. /\ socket' \in {"closed", "open"}
          /\ m_interval' \in StartPeriod .. MaxPeriod
          /\ period' \in {0} \cup StartPeriod .. MaxPeriod
          /\ main' = main
      BY <1>start
    <2> QED
      BY <2>1, <2>2, <2>3, <2>4, <2>5
  <1>3. CASE Timer
    <2> USE <1>3 DEF Timer, Wake, Ring, ConnectOk, ConnectFails, Mark, Read, Restart, Rearm,
                     BackOff, Return, End
    <2>1. timer' \in TimerPlaces
      BY DEF TimerGoes, Again, TimerPlaces
    <2>2. /\ m_interval' \in StartPeriod .. MaxPeriod
          /\ period' \in {0} \cup StartPeriod .. MaxPeriod
      BY <1>start, LongerIsBounded
    <2>3. /\ socket' \in {"closed", "open"}
          /\ m_isConnected' \in BOOLEAN /\ m_isTimerOn' \in BOOLEAN
          /\ hasCallback' \in BOOLEAN /\ wakeUp' \in BOOLEAN /\ done' \in BOOLEAN
      OBVIOUS
    <2>4. UNCHANGED <<caller, main, past>>
      OBVIOUS
    <2> QED
      BY <2>1, <2>2, <2>3, <2>4
  <1>4. CASE CloseSocket \/ Shutdown
    <2> USE <1>4 DEF CloseSocket, Shutdown, StopIo, StopTimer, TimerStopped, JoinIo,
                     JoinWorkers, SomebodyStarts
    <2>1. main' \in MainPlaces
      BY DEF MainGoes, MainPlaces
    <2>2. /\ UNCHANGED <<flags, missed, overlapped, unasked>>
          /\ socket' \in {"closed", "open"}
          /\ {hasCallback', wakeUp', done'} \subseteq BOOLEAN
      OBVIOUS
    <2>4. late' \in BOOLEAN /\ contended' \in BOOLEAN
      OBVIOUS
    <2>3. /\ m_interval' = m_interval /\ period' \in {0, period}
          /\ timer' = timer /\ caller' = caller
      OBVIOUS
    <2> QED
      BY <2>1, <2>2, <2>3, <2>4
  <1>5. CASE UNCHANGED vars
    BY <1>5 DEF vars
  <1> QED
    BY <1>1, <1>2, <1>3, <1>4, <1>5, NextSteps

\* Every variable stays in its range; in particular the pause between two attempts
\* never exceeds RECONN_MAX_PERIOD_INTERVAL.
THEOREM ReconnectType == Spec => []TypeOK
  <1> QED
    BY TypeInit, TypeStep, PTL DEF Spec

-----------------------------------------------------------------------------
(* One thread                                                                *)
(*                                                                           *)
(* A thread of the timer runs only while the callback is set, and the event  *)
(* _done is set only after the thread has ended and until the callback is    *)
(* gone.  So whoever gets past stop() has seen the last thread end.          *)

ThreadInv ==
    /\ done => timer = "off"
    /\ ~hasCallback => timer = "off" /\ ~done

LEMMA ThreadStep == TypeOK /\ ThreadInv /\ [Next]_vars => ThreadInv'
  <1> SUFFICES ASSUME TypeOK, ThreadInv, [Next]_vars
               PROVE  ThreadInv'
    OBVIOUS
  <1> USE DEF ThreadInv, flags, poco, past
  <1>1. CASE NetworkStep
    BY <1>1 DEF NetworkStep, CallConnect, ConnectGoesOn, MarkConnect, ReadConnect
  <1>2. ASSUME NEW r \in Callers, CallerStep(r)
        PROVE  ThreadInv'
    BY <1>2 DEF CallerStep, Report, HandleRWError, StartReconnectTimer, Unmark, Test, Close,
                Arm, Stop, WaitDone, SetPeriod, Start, Leave
  <1>3. CASE Timer
    BY <1>3 DEF Timer, Wake, Ring, ConnectOk, ConnectFails, Mark, Read, Restart, Rearm,
                BackOff, Return, End, TimerGoes
  <1>4. CASE CloseSocket \/ Shutdown
    <2>1. CASE TimerStopped
      BY <2>1 DEF TimerStopped
    <2>2. CASE CloseSocket \/ StopIo \/ StopTimer \/ JoinIo \/ JoinWorkers
      <3>1. done' = done /\ hasCallback' = hasCallback /\ timer' = timer
        BY <2>2 DEF CloseSocket, StopIo, StopTimer, JoinIo, JoinWorkers
      <3> QED
        BY <3>1
    <2> QED
      BY <1>4, <2>1, <2>2 DEF Shutdown
  <1>5. CASE UNCHANGED vars
    BY <1>5 DEF vars
  <1> QED
    BY <1>1, <1>2, <1>3, <1>4, <1>5, NextSteps

LEMMA ThreadInvariant == Spec => []ThreadInv
  <1>1. Init => ThreadInv
    BY DEF Init, ThreadInv
  <1> QED
    BY <1>1, ThreadStep, ReconnectType, PTL DEF Spec

\* However many errors are reported at once, and whether the handler is closed
\* meanwhile, the timer never has two threads.
THEOREM TimerHasOneThread == Spec => []OneTimerThread
  <1>1. ThreadInv => OneTimerThread
    BY DEF ThreadInv, OneTimerThread
  <1> QED
    BY <1>1, ThreadInvariant, PTL

-----------------------------------------------------------------------------
(* One thread at a time                                                      *)
(*                                                                           *)
(* While no two threads have been on the way to start() together, whoever is *)
(* past stop() finds the callback gone, and nobody else can set it again.    *)

AloneInv ==
    /\ \A r, other \in Callers :
          caller[r] \in Starting /\ caller[other] \in Starting => r = other
    /\ \A r \in Callers :
          /\ caller[r] \in {"setPeriod", "start"} => ~hasCallback
          /\ caller[r] # "dead"

InTurnInv == overlapped \/ AloneInv

\* Nothing that has been noted is forgotten.
LEMMA HistoryStays ==
    TypeOK /\ [Next]_vars => (overlapped => overlapped') /\ (unasked => unasked')
  BY DEF TypeOK, Next, vars, flags, poco, past, Report, HandleRWError, StartReconnectTimer,
         Unmark, Test, Close, Arm, Stop, WaitDone, SetPeriod, Start, Leave, CallConnect,
         ConnectGoesOn, MarkConnect, ReadConnect, Timer, Wake, Ring, ConnectOk, ConnectFails,
         Mark, Read, Restart, Rearm, BackOff, Return, End, CloseSocket, Shutdown, StopIo,
         StopTimer, TimerStopped, JoinIo, JoinWorkers, SomebodyStarts

LEMMA InTurnStep == TypeOK /\ InTurnInv /\ [Next]_vars => InTurnInv'
  <1> SUFFICES ASSUME TypeOK, InTurnInv, [Next]_vars, ~overlapped'
               PROVE  AloneInv'
    BY DEF InTurnInv
  <1>0. AloneInv
    BY HistoryStays DEF InTurnInv
  <1> USE DEF TypeOK, flags, poco, past, Starting
  <1>1. CASE NetworkStep
    <2> USE <1>0 DEF Goes, AloneInv
    <2>1. CASE CallConnect \/ MarkConnect
      BY <2>1 DEF CallConnect, MarkConnect
    <2>2. CASE ReadConnect
      <3>1. CASE m_isConnected /\ Goes(Network, "read", "idle")
        BY <2>2, <3>1 DEF ReadConnect
      <3>2. CASE ~m_isConnected /\ Goes(Network, "read", "arm")
        <4>1. \A other \in Callers : caller[other] \notin Starting
          BY <2>2, <3>2 DEF ReadConnect, SomebodyStarts
        <4>2. hasCallback' = hasCallback
          BY <2>2 DEF ReadConnect
        <4> QED
          BY <3>2, <4>1, <4>2
      <3> QED
        BY <2>2, <3>1, <3>2 DEF ReadConnect
    <2> QED
      BY <1>1, <2>1, <2>2 DEF NetworkStep, ConnectGoesOn
  <1>2. ASSUME NEW r \in Callers, CallerStep(r)
        PROVE  AloneInv'
    <2> USE <1>0 DEF Goes, AloneInv
    <2>1. CASE Report(r) \/ Unmark(r) \/ Leave(r)
      BY <2>1 DEF Report, Unmark, Leave
    <2>2. CASE Test(r)
      <3>1. CASE m_isTimerOn /\ Goes(r, "test", "idle")
        BY <2>2, <3>1 DEF Test
      <3>2. CASE ~m_isTimerOn /\ Goes(r, "test", "close")
        <4>1. \A other \in Callers : caller[other] \notin Starting
          BY <2>2, <3>2 DEF Test, SomebodyStarts
        <4>2. hasCallback' = hasCallback
          BY <2>2 DEF Test
        <4> QED
          BY <3>2, <4>1, <4>2
      <3> QED
        BY <2>2, <3>1, <3>2 DEF Test
    <2>3. CASE Close(r) \/ Arm(r)
      BY <2>3 DEF Close, Arm
    <2>4. CASE Stop(r)
      BY <2>4 DEF Stop
    <2>5. CASE WaitDone(r) \/ SetPeriod(r)
      BY <2>5 DEF WaitDone, SetPeriod
    <2>6. CASE Start(r)
      BY <2>6 DEF Start
    <2> QED
      BY <1>2, <2>1, <2>2, <2>3, <2>4, <2>5, <2>6
      DEF CallerStep, HandleRWError, StartReconnectTimer
  <1>3. CASE Timer
    <2>1. UNCHANGED <<caller, hasCallback>>
      BY <1>3 DEF Timer, Wake, Ring, ConnectOk, ConnectFails, Mark, Read, Restart, Rearm,
                  BackOff, Return, End
    <2> QED
      BY <1>0, <2>1 DEF AloneInv
  <1>4. CASE CloseSocket \/ Shutdown
    <2>1. caller' = caller /\ (hasCallback' => hasCallback)
      BY <1>4 DEF CloseSocket, Shutdown, StopIo, StopTimer, TimerStopped, JoinIo, JoinWorkers
    <2> QED
      BY <1>0, <2>1 DEF AloneInv
  <1>5. CASE UNCHANGED vars
    BY <1>0, <1>5 DEF vars, AloneInv
  <1> QED
    BY <1>1, <1>2, <1>3, <1>4, <1>5, NextSteps

LEMMA InTurnInvariant == Spec => []InTurnInv
  <1>1. Init => InTurnInv
    BY DEF Init, InTurnInv, AloneInv, Starting
  <1> QED
    BY <1>1, InTurnStep, ReconnectType, PTL DEF Spec

\* Any number of threads may report at any time and the network thread may call
\* connect() again: start() fails its assertion only after two threads were on the
\* way to it together.
THEOREM AssertedUnlessOverlapped == Spec => []StartAsserted
  <1>1. InTurnInv => StartAsserted
    BY DEF InTurnInv, AloneInv, StartAsserted
  <1> QED
    BY <1>1, InTurnInvariant, PTL

-----------------------------------------------------------------------------
(* The flag                                                                  *)
(*                                                                           *)
(* As long as connect() has not started a timer that was running, either, a  *)
(* thread on the way to start() finds the timer's thread after its success   *)
(* or gone, and nobody clears the flag it has set.                           *)

Done == {"return", "ending", "off"}
PastArm == {"stop", "waitDone", "setPeriod", "start"}

FlagInv ==
    /\ \A r \in Callers :
          /\ caller[r] \in Starting => timer \in Done /\ (timer = "return" => period = 0)
          /\ caller[r] \in PastArm => m_isTimerOn
    /\ timer \notin Done => m_isTimerOn
    /\ timer = "rearm" => period = 0
    /\ timer = "return" /\ ~m_isTimerOn => period = 0

HonestInv == overlapped \/ unasked \/ FlagInv

LEMMA HonestStep == TypeOK /\ ThreadInv /\ InTurnInv /\ HonestInv /\ [Next]_vars => HonestInv'
  <1> SUFFICES ASSUME TypeOK, ThreadInv, InTurnInv, HonestInv, [Next]_vars,
                      ~overlapped', ~unasked'
               PROVE  FlagInv'
    BY DEF HonestInv
  <1>0. AloneInv /\ FlagInv
    BY HistoryStays DEF InTurnInv, HonestInv
  <1> USE DEF TypeOK, ThreadInv, flags, poco, past, Done, PastArm, Starting
  <1>1. CASE NetworkStep
    <2>1. UNCHANGED <<timer, period, m_isTimerOn>>
      BY <1>1 DEF NetworkStep, CallConnect, ConnectGoesOn, MarkConnect, ReadConnect
    <2>2. CASE CallConnect \/ MarkConnect
      BY <1>0, <2>1, <2>2 DEF CallConnect, MarkConnect, Goes, FlagInv
    <2>3. CASE ReadConnect
      <3>1. CASE m_isConnected /\ Goes(Network, "read", "idle")
        BY <1>0, <2>1, <3>1 DEF Goes, FlagInv
      <3>2. CASE ~m_isConnected /\ Goes(Network, "read", "arm")
        <4>1. ~m_isTimerOn
          BY <2>3, <3>2 DEF ReadConnect
        <4>2. timer \in Done /\ (timer = "return" => period = 0)
          BY <1>0, <4>1 DEF FlagInv
        <4> QED
          BY <1>0, <2>1, <3>2, <4>2 DEF Goes, FlagInv
      <3> QED
        BY <2>3, <3>1, <3>2 DEF ReadConnect
    <2> QED
      BY <1>1, <2>2, <2>3 DEF NetworkStep, ConnectGoesOn
  <1>2. ASSUME NEW r \in Callers, CallerStep(r)
        PROVE  FlagInv'
    <2> USE <1>0 DEF Goes, FlagInv
    <2>1. CASE Report(r) \/ Unmark(r) \/ Leave(r)
      BY <2>1 DEF Report, Unmark, Leave
    <2>2. CASE Test(r)
      <3>1. CASE m_isTimerOn /\ Goes(r, "test", "idle")
        BY <2>2, <3>1 DEF Test
      <3>2. CASE ~m_isTimerOn /\ Goes(r, "test", "close")
        BY <2>2, <3>2 DEF Test
      <3> QED
        BY <2>2, <3>1, <3>2 DEF Test
    <2>3. CASE Close(r) \/ Arm(r)
      BY <2>3 DEF Close, Arm
    <2>4. CASE Stop(r)
      BY <2>4 DEF Stop
    <2>5. CASE WaitDone(r) \/ SetPeriod(r)
      <3>1. /\ caller[r] \in {"waitDone", "setPeriod"} /\ timer' = timer
            /\ m_isTimerOn' = m_isTimerOn /\ m_isTimerOn
            /\ caller' = [caller EXCEPT ![r] = IF caller[r] = "waitDone" THEN "setPeriod" ELSE "start"]
        BY <2>5 DEF WaitDone, SetPeriod
      <3>2. timer \in {"ending", "off"} \/ (timer = "return" /\ period = 0)
        BY <3>1
      <3>3. caller[r] = "waitDone" => timer = "off" /\ period' = period
        BY <2>5, <3>1 DEF WaitDone, SetPeriod
      <3>4. caller[r] = "setPeriod" => timer = "off"
        BY <3>1 DEF AloneInv
      <3> QED
        BY <3>1, <3>3, <3>4
    <2>6. CASE Start(r)
      <3>1. /\ ~hasCallback /\ caller[r] = "start" /\ timer' = "sleep" /\ period' = period
            /\ m_isTimerOn' = m_isTimerOn /\ m_isTimerOn
            /\ caller' = [caller EXCEPT ![r] = "idle"]
        BY <2>6 DEF Start, AloneInv
      <3>2. \A other \in Callers : caller'[other] \notin Starting
        BY <3>1 DEF AloneInv
      <3> QED
        BY <3>1, <3>2
    <2> QED
      BY <1>2, <2>1, <2>2, <2>3, <2>4, <2>5, <2>6
      DEF CallerStep, HandleRWError, StartReconnectTimer
  <1>3. CASE Timer
    BY <1>0, <1>3 DEF Timer, Wake, Ring, ConnectOk, ConnectFails, Mark, Read, Restart, Rearm,
                      BackOff, Return, End, TimerGoes, Again, FlagInv
  <1>4. CASE CloseSocket \/ Shutdown
    <2>1. UNCHANGED <<caller, timer, m_isTimerOn>>
      BY <1>4 DEF CloseSocket, Shutdown, StopIo, StopTimer, TimerStopped, JoinIo, JoinWorkers
    <2>2. period' \in {period, 0}
      BY <1>4 DEF CloseSocket, Shutdown, StopIo, StopTimer, TimerStopped, JoinIo, JoinWorkers
    <2> QED
      BY <1>0, <2>1, <2>2 DEF FlagInv
  <1>5. CASE UNCHANGED vars
    BY <1>0, <1>5 DEF vars, FlagInv
  <1> QED
    BY <1>1, <1>2, <1>3, <1>4, <1>5, NextSteps

LEMMA HonestInvariant == Spec => []HonestInv
  <1>1. Init => HonestInv
    BY DEF Init, HonestInv, FlagInv, Done, PastArm, Starting
  <1> QED
    BY <1>1, HonestStep, InTurnInvariant, ThreadInvariant, ReconnectType, PTL DEF Spec

\* As long as no two threads were on the way to start() together and connect() found
\* no timer running, m_isTimerOn is up while the timer tries.
THEOREM HonestUnlessOverlapped == Spec => []FlagIsHonest
  <1>1. HonestInv => FlagIsHonest
    BY DEF HonestInv, FlagInv, FlagIsHonest, Done
  <1> QED
    BY <1>1, HonestInvariant, PTL

-----------------------------------------------------------------------------
(* Somebody retries                                                          *)
(*                                                                           *)
(* A period of zero ends the timer's thread.  While it is still trying, only *)
(* stop() sets it and wakes the thread, for a reporter that will start the   *)
(* timer again; so a thread that ends has succeeded or is replaced, and an   *)
(* error that came after the success is on its way to the test, or was       *)
(* dismissed.                                                                *)

Trying == {"sleep", "connect", "mark", "unmark", "read", "restart", "backoff"}

\* A thread that will start the timer; one whose start() would fail its assertion
\* as things are will not.
Busy(r) ==
    \/ caller[r] \in {"close", "arm", "stop", "waitDone"}
    \/ caller[r] \in {"setPeriod", "start"} /\ ~hasCallback

AtSetPeriod == \E r \in Callers : caller[r] = "setPeriod"
SomebodyBusy == \E r \in Callers : Busy(r)

\* The timer's thread is about to end, or has.
Ends == timer \in {"off", "ending"} \/ (timer = "return" /\ period = 0)

StopInv ==
    main = "run" =>
        /\ ~hasCallback /\ period = 0 => AtSetPeriod
        /\ timer \in Trying /\ period = 0 => AtSetPeriod \/ SomebodyBusy
        /\ timer \in Trying /\ period = 0 /\ wakeUp => SomebodyBusy
        /\ m_isTimerOn /\ Ends => SomebodyBusy

RetryInv ==
    main = "run" /\ ~missed /\ ~m_isConnected /\ (Ends \/ timer \in {"restart", "rearm"}) =>
        SomebodyBusy \/ \E r \in Callers : caller[r] \in {"test", "read"}

LEMMA PeriodsArePositive ==
    ASSUME TypeOK
    PROVE  m_interval # 0 /\ Longer(m_interval) # 0
  BY LongerIsBounded, ReconnectAssumption DEF TypeOK

\* Who is busy stays busy, until somebody starts the timer.
LEMMA BusyStays ==
    ASSUME TypeOK, SomebodyBusy, NEW r \in Callers, CallerStep(r),
           hasCallback' => hasCallback
    PROVE  SomebodyBusy'
  <1>type. caller \in [Callers -> Places]
    BY DEF TypeOK
  <1>1. PICK other \in Callers : Busy(other)
    BY DEF SomebodyBusy
  <1>2. Busy(other)'
    <2> USE <1>type, <1>1 DEF Goes, Busy, flags, poco, past
    <2>1. CASE Report(r) \/ Unmark(r) \/ Test(r) \/ Close(r) \/ Arm(r) \/ Leave(r)
      BY <2>1 DEF Report, Unmark, Test, Close, Arm, Leave
    <2>2. CASE Stop(r) \/ WaitDone(r)
      BY <2>2 DEF Stop, WaitDone
    <2>3. CASE SetPeriod(r)
      BY <2>3 DEF SetPeriod
    <2>4. CASE Start(r)
      BY <2>4 DEF Start
    <2> QED
      BY <2>1, <2>2, <2>3, <2>4 DEF CallerStep, HandleRWError, StartReconnectTimer
  <1> QED
    BY <1>2 DEF SomebodyBusy

\* A thread past the test is busy.
LEMMA PastTestIsBusy ==
    ASSUME TypeOK, NEW r \in Callers,
           \/ Test(r) /\ ~m_isTimerOn
           \/ Close(r)
           \/ Arm(r)
           \/ Stop(r) /\ hasCallback
           \/ WaitDone(r)
    PROVE  SomebodyBusy'
  <1>1. caller \in [Callers -> Places]
    BY DEF TypeOK
  <1>2. Busy(r)'
    BY <1>1 DEF Test, Close, Arm, Stop, WaitDone, Goes, Busy
  <1> QED
    BY <1>2 DEF SomebodyBusy

\* What the reporters do, with the timer's thread where it was.
LEMMA ReporterKeepsRetry ==
    ASSUME TypeOK, StopInv, RetryInv, main = "run",
           NEW r \in Callers, CallerStep(r)
    PROVE  StopInv' /\ RetryInv'
  <1>type. caller \in [Callers -> Places] /\ m_interval # 0
    BY PeriodsArePositive DEF TypeOK
  <1> USE DEF flags, poco, past
  <1>busy. (hasCallback' => hasCallback) /\ SomebodyBusy => SomebodyBusy'
    BY BusyStays
  <1>1. CASE Report(r) \/ Leave(r) \/ Close(r)
    <2>1. /\ UNCHANGED <<main, timer, period, hasCallback, wakeUp, m_isTimerOn, missed>>
          /\ m_isConnected' = m_isConnected
      BY <1>1 DEF Report, Leave, Close
    <2>2. \A t \in Callers :
             /\ caller[t] = "setPeriod" => caller'[t] = "setPeriod"
             /\ caller[t] \in {"test", "read"} => caller'[t] = caller[t]
      BY <1>1, <1>type DEF Report, Leave, Close, Goes
    <2> QED
      BY <1>busy, <2>1, <2>2 DEF StopInv, RetryInv, Ends, AtSetPeriod
  <1>2. CASE Unmark(r)
    <2>1. UNCHANGED <<main, timer, period, hasCallback, wakeUp, m_isTimerOn, missed>>
      BY <1>2 DEF Unmark
    <2>2. \A t \in Callers : caller[t] = "setPeriod" => caller'[t] = "setPeriod"
      BY <1>2, <1>type DEF Unmark, Goes
    <2>3. caller'[r] = "test"
      BY <1>2, <1>type DEF Unmark, Goes
    <2> QED
      BY <1>busy, <2>1, <2>2, <2>3 DEF StopInv, RetryInv, Ends, AtSetPeriod
  <1>3. CASE Test(r)
    <2>1. UNCHANGED <<main, timer, period, hasCallback, wakeUp, m_isTimerOn, m_isConnected>>
      BY <1>3 DEF Test
    <2>2. \A t \in Callers : caller[t] = "setPeriod" => caller'[t] = "setPeriod"
      BY <1>3, <1>type DEF Test, Goes
    <2>3. StopInv'
      BY <1>busy, <2>1, <2>2 DEF StopInv, Ends, AtSetPeriod
    <2>4. CASE ~m_isTimerOn
      BY <1>3, <2>3, <2>4, PastTestIsBusy DEF RetryInv
    <2>5. CASE m_isTimerOn
      <3>1. ~missed' => timer \notin {"restart", "rearm"}
        BY <1>3, <2>5 DEF Test, Succeeded
      <3> QED
        BY <1>busy, <2>1, <2>3, <2>5, <3>1 DEF StopInv, RetryInv, Ends
    <2> QED
      BY <2>4, <2>5
  <1>4. CASE Arm(r)
    <2>1. SomebodyBusy'
      BY <1>4, PastTestIsBusy
    <2>2. UNCHANGED <<period, hasCallback>>
      BY <1>4 DEF Arm
    <2>3. \A t \in Callers : caller[t] = "setPeriod" => caller'[t] = "setPeriod"
      BY <1>4, <1>type DEF Arm, Goes
    <2> QED
      BY <2>1, <2>2, <2>3 DEF StopInv, RetryInv, AtSetPeriod
  <1>5. CASE Stop(r) /\ hasCallback
    <2>1. SomebodyBusy'
      BY <1>5, PastTestIsBusy
    <2>2. hasCallback'
      BY <1>5 DEF Stop
    <2> QED
      BY <2>1, <2>2 DEF StopInv, RetryInv
  <1>6. CASE Stop(r) /\ ~hasCallback
    <2>1. AtSetPeriod' /\ Busy(r)'
      BY <1>6, <1>type DEF Stop, Goes, AtSetPeriod, Busy
    <2>2. SomebodyBusy'
      BY <2>1 DEF SomebodyBusy
    <2> QED
      BY <2>1, <2>2 DEF StopInv, RetryInv
  <1>7. CASE WaitDone(r)
    <2>1. AtSetPeriod' /\ SomebodyBusy'
      BY <1>7, <1>type, PastTestIsBusy DEF WaitDone, Goes, AtSetPeriod
    <2> QED
      BY <2>1 DEF StopInv, RetryInv
  <1>8. CASE SetPeriod(r)
    <2>1. /\ period' # 0
          /\ UNCHANGED <<main, timer, hasCallback, wakeUp, m_isTimerOn, missed, m_isConnected>>
      BY <1>8, <1>type DEF SetPeriod
    <2>2. \A t \in Callers : caller[t] \in {"test", "read"} => caller'[t] = caller[t]
      BY <1>8, <1>type DEF SetPeriod, Goes
    <2>3. Ends' => Ends
      BY <2>1 DEF Ends
    <2> QED
      BY <1>busy, <2>1, <2>2, <2>3 DEF StopInv, RetryInv
  <1>9. CASE Start(r) /\ hasCallback
    <2>1. UNCHANGED <<main, timer, period, hasCallback, wakeUp, m_isTimerOn, missed, m_isConnected>>
      BY <1>9 DEF Start
    <2>2. \A t \in Callers :
             /\ caller[t] = "setPeriod" => caller'[t] = "setPeriod"
             /\ caller[t] \in {"test", "read"} => caller'[t] = caller[t]
      BY <1>9, <1>type DEF Start, Goes
    <2> QED
      BY <1>busy, <2>1, <2>2 DEF StopInv, RetryInv, Ends, AtSetPeriod
  <1>10. CASE Start(r) /\ ~hasCallback
    <2>1. hasCallback' /\ ~wakeUp' /\ timer' = "sleep" /\ period' = period /\ main' = main
      BY <1>10 DEF Start
    <2>2. \A t \in Callers : caller[t] = "setPeriod" => caller'[t] = "setPeriod"
      BY <1>10, <1>type DEF Start, Goes
    <2>3. period = 0 => AtSetPeriod'
      BY <1>10, <2>2 DEF StopInv, AtSetPeriod
    <2>4. ~Ends'
      BY <2>1 DEF Ends
    <2> QED
      BY <2>1, <2>3, <2>4 DEF StopInv, RetryInv
  <1> QED
    BY <1>1, <1>2, <1>3, <1>4, <1>5, <1>6, <1>7, <1>8, <1>9, <1>10
    DEF CallerStep, HandleRWError, StartReconnectTimer

\* What the timer's thread does, with the reporters where they were.
LEMMA TimerKeepsRetry ==
    ASSUME TypeOK, ThreadInv, StopInv, RetryInv, Timer
    PROVE  StopInv' /\ RetryInv'
  <1> USE DEF flags, poco, past
  <1>type. m_interval # 0 /\ Longer(m_interval) # 0
    BY PeriodsArePositive
  <1>frame. /\ UNCHANGED <<caller, main, missed, hasCallback>>
            /\ timer # "off" /\ hasCallback
    BY DEF Timer, Wake, Ring, ConnectOk, ConnectFails, Mark, Read, Restart, Rearm, BackOff,
           Return, End, TimerGoes, ThreadInv
  <1>busy. (SomebodyBusy' <=> SomebodyBusy) /\ (AtSetPeriod' <=> AtSetPeriod)
    BY <1>frame DEF SomebodyBusy, AtSetPeriod, Busy
  <1> USE <1>frame, <1>busy DEF TimerGoes
  <1>1. CASE Wake
    <2>1. /\ timer = "sleep" /\ wakeUp /\ ~wakeUp' /\ period' = period
          /\ timer' = IF period = 0 THEN "ending" ELSE "sleep"
      BY <1>1 DEF Wake, Again
    <2> QED
      BY <2>1 DEF StopInv, RetryInv, Trying, Ends
  <1>2. CASE Ring \/ ConnectOk \/ ConnectFails \/ Mark
    <2>1. /\ timer \in Trying /\ timer' \in Trying \ {"restart"}
          /\ UNCHANGED <<period, wakeUp>>
      BY <1>2 DEF Ring, ConnectOk, ConnectFails, Mark, Trying
    <2> QED
      BY <2>1 DEF StopInv, RetryInv, Trying, Ends
  <1>3. CASE Read
    <2>1. /\ timer \in Trying /\ timer' \in Trying
          /\ UNCHANGED <<period, wakeUp, m_isConnected>>
          /\ timer' = "restart" => m_isConnected
      BY <1>3 DEF Read, Trying
    <2> QED
      BY <2>1 DEF StopInv, RetryInv, Trying, Ends
  <1>4. CASE Restart
    <2>1. timer = "restart" /\ timer' = "rearm" /\ m_isConnected' = m_isConnected
      BY <1>4 DEF Restart
    <2> QED
      BY <2>1 DEF StopInv, RetryInv, Trying, Ends
  <1>5. CASE Rearm
    <2>1. timer = "rearm" /\ timer' = "return" /\ m_isConnected' = m_isConnected /\ ~m_isTimerOn'
      BY <1>5 DEF Rearm
    <2> QED
      BY <2>1 DEF StopInv, RetryInv, Trying, Ends
  <1>6. CASE BackOff
    <2>1. timer' = "return" /\ period' # 0
      BY <1>6, <1>type DEF BackOff
    <2> QED
      BY <2>1 DEF StopInv, RetryInv, Trying, Ends
  <1>7. CASE Return \/ End
    <2>1. /\ Ends' => Ends
          /\ timer' \in {"sleep", "ending", "off"} /\ (timer' = "sleep" => period' # 0)
          /\ UNCHANGED <<period, m_isTimerOn, m_isConnected>>
      BY <1>7 DEF Return, End, Again, Ends
    <2> QED
      BY <2>1 DEF StopInv, RetryInv, Trying
  <1> QED
    BY <1>1, <1>2, <1>3, <1>4, <1>5, <1>6, <1>7 DEF Timer

\* What connect() does in the network thread.
LEMMA NetworkKeepsRetry ==
    ASSUME TypeOK, StopInv, RetryInv, NetworkStep
    PROVE  StopInv' /\ RetryInv'
  <1>type. caller \in [Callers -> Places] /\ Network \in Callers
    BY DEF TypeOK, Callers
  <1>frame. UNCHANGED <<main, timer, period, hasCallback, wakeUp, m_isTimerOn, missed>>
    BY DEF NetworkStep, CallConnect, ConnectGoesOn, MarkConnect, ReadConnect, flags, poco, past
  <1>0. caller[Network] \in {"idle", "mark", "unmark", "read"}
        /\ \E to \in Places : caller' = [caller EXCEPT ![Network] = to]
    BY DEF NetworkStep, CallConnect, ConnectGoesOn, MarkConnect, ReadConnect, Goes, Places,
           Starting
  <1>others. \A t \in Callers \ {Network} : caller'[t] = caller[t]
    BY <1>type, <1>0
  <1>1. AtSetPeriod => AtSetPeriod'
    BY <1>0, <1>others DEF AtSetPeriod
  <1>2. SomebodyBusy => SomebodyBusy'
    <2>1. \A t \in Callers : Busy(t) => t # Network /\ Busy(t)'
      BY <1>0, <1>others, <1>frame DEF Busy
    <2> QED
      BY <2>1 DEF SomebodyBusy
  <1>stop. StopInv'
    BY <1>frame, <1>1, <1>2 DEF StopInv, Ends, Trying
  <1>3. CASE CallConnect
    <2>1. m_isConnected' = m_isConnected /\ caller[Network] = "idle"
      BY <1>3 DEF CallConnect, Goes, flags
    <2>2. \A t \in Callers : caller[t] \in {"test", "read"} => caller'[t] = caller[t]
      BY <2>1, <1>others
    <2> QED
      BY <1>frame, <1>2, <1>stop, <2>1, <2>2 DEF RetryInv, Ends
  <1>4. CASE MarkConnect
    <2>1. caller'[Network] = "read"
      BY <1>4, <1>type DEF MarkConnect, Goes
    <2> QED
      BY <1>type, <1>stop, <2>1 DEF RetryInv
  <1>5. CASE ReadConnect
    <2>1. m_isConnected' = m_isConnected
      BY <1>5 DEF ReadConnect, flags
    <2>2. CASE m_isConnected
      BY <1>stop, <2>1, <2>2 DEF RetryInv
    <2>3. CASE ~m_isConnected
      <3>1. caller'[Network] = "arm"
        BY <1>5, <1>type, <2>3 DEF ReadConnect, Goes
      <3>2. SomebodyBusy'
        BY <1>type, <3>1 DEF SomebodyBusy, Busy
      <3> QED
        BY <1>stop, <3>2 DEF RetryInv
    <2> QED
      BY <2>2, <2>3, <1>type
  <1> QED
    BY <1>3, <1>4, <1>5 DEF NetworkStep, ConnectGoesOn

LEMMA RetryStep ==
    TypeOK /\ ThreadInv /\ StopInv /\ RetryInv /\ [Next]_vars => StopInv' /\ RetryInv'
  <1> SUFFICES ASSUME TypeOK, ThreadInv, StopInv, RetryInv, [Next]_vars
               PROVE  StopInv' /\ RetryInv'
    OBVIOUS
  <1>1. CASE UNCHANGED vars
    BY <1>1 DEF vars, flags, poco, past, StopInv, RetryInv, Ends, SomebodyBusy,
                AtSetPeriod, Busy
  <1>2. ASSUME NEW r \in Callers, CallerStep(r)
        PROVE  StopInv' /\ RetryInv'
    <2>1. main' = main
      BY <1>2 DEF CallerStep, Report, HandleRWError, StartReconnectTimer, Unmark, Test, Close,
                  Arm, Stop, WaitDone, SetPeriod, Start, Leave
    <2>2. CASE main = "run"
      BY <1>2, <2>2, ReporterKeepsRetry
    <2>3. CASE main # "run"
      BY <2>1, <2>3 DEF StopInv, RetryInv
    <2> QED
      BY <2>2, <2>3
  <1>3. CASE CloseSocket \/ Shutdown
    <2>1. main' # "run"
      BY <1>3 DEF CloseSocket, Shutdown, StopIo, StopTimer, TimerStopped, JoinIo, JoinWorkers, MainGoes
    <2> QED
      BY <2>1 DEF StopInv, RetryInv
  <1> QED
    BY <1>1, <1>2, <1>3, TimerKeepsRetry, NetworkKeepsRetry, NextSteps

\* A switch that is marked disconnected while the server runs has a thread that works
\* on it, whatever errors are reported meanwhile and by how many threads; the one
\* exception is a report that was dismissed just before the timer gave up its flag.
THEOREM DisconnectedIsRetried == Spec => []SomebodyRetries
  <1>1. Init => StopInv /\ RetryInv
    <2> SUFFICES ASSUME Init
                 PROVE  StopInv /\ RetryInv
      OBVIOUS
    <2>1. PICK ok \in BOOLEAN :
             /\ m_isConnected = ok
             /\ m_isTimerOn = ~ok
             /\ timer = IF ok THEN "off" ELSE "sleep"
      BY DEF Init
    <2>2. period # 0
      BY ReconnectAssumption DEF Init
    <2> QED
      BY <2>1, <2>2 DEF StopInv, RetryInv, Ends
  <1>2. Spec => [](StopInv /\ RetryInv)
    BY <1>1, RetryStep, ThreadInvariant, ReconnectType, PTL DEF Spec
  <1>3. RetryInv => SomebodyRetries
    BY DEF RetryInv, SomebodyRetries, SomebodyBusy, Busy, Ends, Starting
  <1> QED
    BY <1>2, <1>3, PTL

-----------------------------------------------------------------------------
(* After close()                                                             *)

\* The network thread is through with the handler before it is closed.  Unless a
\* report is acted on during close(), nobody is on the way to start(), and the
\* callback is gone once stop() has returned to the main thread.
QuietInv ==
    /\ Closing => caller[Network] = "idle"
    /\ Closing /\ ~late =>
          /\ \A r \in Callers : caller[r] \notin Starting
          /\ main \in {"joinIo", "joinWorkers", "closed"} => ~hasCallback

LEMMA QuietStep == TypeOK /\ QuietInv /\ [Next]_vars => QuietInv'
  <1> SUFFICES ASSUME TypeOK, QuietInv, [Next]_vars
               PROVE  QuietInv'
    OBVIOUS
  <1> USE DEF TypeOK, QuietInv, Closing, flags, poco, past, Starting
  <1>network. Network \in Callers
    BY DEF Callers
  <1>1. CASE NetworkStep
    <2>1. main = "run" /\ main' = main
      BY <1>1 DEF NetworkStep, CallConnect, ConnectGoesOn, MarkConnect, ReadConnect, Goes
    <2> QED
      BY <2>1
  <1>2. ASSUME NEW r \in Callers, CallerStep(r)
        PROVE  QuietInv'
    <2>1. caller[Network] = "idle" => caller'[Network] = "idle"
      BY <1>network, <1>2 DEF CallerStep, Report, HandleRWError, StartReconnectTimer, Unmark,
         Test, Close, Arm, Stop, WaitDone, SetPeriod, Start, Leave, Goes
    <2>2. main' = main
      BY <1>2 DEF CallerStep, Report, HandleRWError, StartReconnectTimer, Unmark,
         Test, Close, Arm, Stop, WaitDone, SetPeriod, Start, Leave
    <2>3. Closing' /\ ~late' => /\ \A t \in Callers : caller'[t] \notin Starting
                               /\ hasCallback' = hasCallback /\ ~late
      BY <1>2 DEF CallerStep, Report, HandleRWError, StartReconnectTimer, Unmark, Test, Close,
                  Arm, Stop, WaitDone, SetPeriod, Start, Leave, Goes
    <2> QED
      BY <2>1, <2>2, <2>3
  <1>3. CASE Timer
    BY <1>3 DEF Timer, Wake, Ring, ConnectOk, ConnectFails, Mark, Read, Restart, Rearm,
                BackOff, Return, End
  <1>4. CASE CloseSocket \/ Shutdown
    <2>1. CASE CloseSocket
      BY <2>1 DEF CloseSocket, MainGoes, SomebodyStarts
    <2>2. CASE Shutdown
      <3>1. caller' = caller /\ (hasCallback' => hasCallback) /\ Closing
        BY <2>2 DEF Shutdown, StopIo, StopTimer, TimerStopped, JoinIo, JoinWorkers, MainGoes
      <3>2. ~late' => ~late
        BY <2>2 DEF Shutdown, StopIo, StopTimer, TimerStopped, JoinIo, JoinWorkers
      <3>3. main' \in {"joinIo", "joinWorkers", "closed"} => ~hasCallback'
              \/ main \in {"joinIo", "joinWorkers", "closed"}
        BY <2>2 DEF Shutdown, StopIo, StopTimer, TimerStopped, JoinIo, JoinWorkers, MainGoes
      <3> QED
        BY <3>1, <3>2, <3>3
    <2> QED
      BY <1>4, <2>1, <2>2
  <1>5. CASE UNCHANGED vars
    BY <1>5 DEF vars
  <1> QED
    BY <1>1, <1>2, <1>3, <1>4, <1>5, NextSteps

\* The timer does not outlive close() unless an error was acted on meanwhile.
THEOREM TimerEndsWithHandler == Spec => []TimerStaysOff
  <1>1. Init => QuietInv
    BY DEF Init, QuietInv, Closing
  <1>2. Spec => []QuietInv
    BY <1>1, QuietStep, ReconnectType, PTL DEF Spec
  <1>3. ThreadInv /\ QuietInv => TimerStaysOff
    BY DEF ThreadInv, QuietInv, Closing, TimerStaysOff
  <1> QED
    BY <1>2, <1>3, ThreadInvariant, PTL
=============================================================================
