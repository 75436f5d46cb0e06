------------------------------ MODULE Reconnect ------------------------------
(***************************************************************************)
(* How a DoorSwitchHandler gets its connection back, and how it is closed. *)
(*                                                                         *)
(* The io thread and the workers report errors to handleRWError; the first *)
(* report closes the socket and starts m_reconnTimer, whose thread tries   *)
(* to connect with growing pauses until it succeeds.  m_isTimerOn is meant *)
(* to let one report through; it is tested and set without a lock.         *)
(*                                                                         *)
(* The network thread calls connect() once for a new handler, and again on *)
(* this one when it is the last handler and another switch is asked for    *)
(* for the first time; connect() starts the timer without any test.        *)
(*                                                                         *)
(* Poco::Timer is modelled with what the protocol depends on: its callback *)
(* pointer, its period, and its two events, which reset themselves when a  *)
(* wait succeeds.  Its thread runs until it reads a period of zero.        *)
(*                                                                         *)
(* DoorSwitchHandler::close runs in the main thread while all the others   *)
(* go on; it stops the same timer.                                         *)
(***************************************************************************)
EXTENDS Integers

CONSTANTS
    Reporters,     \* the threads that use the socket: the io thread and the workers
    IoThread,      \* the one among them that runs m_io_service
    Network,       \* the thread of the proxy, which runs onRecvMqttMessage
    StartPeriod,   \* RECONN_START_PERIOD_INTERVAL
    MaxPeriod      \* RECONN_MAX_PERIOD_INTERVAL

ASSUME ReconnectAssumption ==
    /\ IoThread \in Reporters
    /\ Network \notin Reporters
    /\ StartPeriod \in Nat \ {0, 1}
    /\ MaxPeriod \in Nat
    /\ StartPeriod <= MaxPeriod

VARIABLES
    socket,          \* "closed", or "open": whether or not the switch is still there
    m_isConnected,
    m_isTimerOn,
    m_interval,      \* in seconds
    hasCallback,     \* Poco::Timer: _pCallback is set
    period,          \* Poco::Timer: _periodicInterval, in seconds
    wakeUp,          \* Poco::Timer: the event _wakeUp is set
    done,            \* Poco::Timer: the event _done is set
    timer,           \* where the timer's thread is, "off" if there is none
    caller,          \* where each thread is in handleRWError or connect()
    main,            \* where the main thread is in DoorSwitchHandler::close
    missed,          \* history: a report was dismissed when the timer had made its
                     \* last attempt, and none has been acted on since
    overlapped,      \* history: two threads were on the way to start the timer
    unasked,         \* history: connect() started the timer while m_isTimerOn was set
    late,            \* history: a report was acted on while the handler was closed
    contended        \* history: the main thread and a reporter waited in stop()
                     \* at the same time, for an event that wakes one of them

flags == <<m_isConnected, m_isTimerOn, m_interval>>
poco  == <<hasCallback, period, wakeUp, done, timer>>
past  == <<missed, overlapped, unasked, late, contended>>
vars  == <<socket, flags, poco, caller, main, past>>

Callers == Reporters \cup {Network}

\* The first connect() has returned: it succeeded, or the timer is started.
Init ==
    /\ \E ok \in BOOLEAN :
          /\ socket = IF ok THEN "open" ELSE "closed"
          /\ m_isConnected = ok
          /\ m_isTimerOn = ~ok
          /\ hasCallback = ~ok
          /\ timer = IF ok THEN "off" ELSE "sleep"
    /\ m_interval = StartPeriod
    /\ period = StartPeriod
    /\ wakeUp = FALSE
    /\ done = FALSE
    /\ caller = [r \in Callers |-> "idle"]
    /\ main = "run"
    /\ missed = FALSE
    /\ overlapped = FALSE
    /\ unasked = FALSE
    /\ late = FALSE
    /\ contended = FALSE

\* An exception in the io or the network thread ends the program.
Aborted == caller[IoThread] = "dead" \/ caller[Network] = "dead"

-----------------------------------------------------------------------------
(* handleRWError, by the io thread or a worker r                             *)

Goes(r, from, to) ==
    /\ ~Aborted
    /\ caller[r] = from
    /\ caller' = [caller EXCEPT ![r] = to]

\* On the way to the start of the timer.
Starting == {"close", "arm", "stop", "waitDone", "setPeriod", "start"}
SomebodyStarts == \E r \in Callers : caller[r] \in Starting

\* close() runs; m_io_service has been stopped.
Closing == main # "run"
IoStopped == main \in {"stopTimer", "waitDone", "joinIo", "joinWorkers", "closed"}

\* A write or a read fails, or a reply does not come in time, which may happen on
\* a sound connection, too.  A stopped io_service calls no more handlers.
Report(r) ==
    /\ Goes(r, "idle", "report")
    /\ r = IoThread => ~IoStopped
    /\ UNCHANGED <<socket, flags, poco, main, past>>

Unmark(r) ==
    /\ Goes(r, "report", "test")
    /\ m_isConnected' = FALSE
    /\ UNCHANGED <<socket, m_isTimerOn, m_interval, poco, main, past>>

\* The timer has seen that it succeeded and has not cleared m_isTimerOn yet.
Succeeded == timer \in {"restart", "rearm"}

NoTestMutant(r) ==
    /\ Goes(r, "test", "close")
    /\ UNCHANGED <<socket, flags, poco, main, past>>
Test(r) ==
    \/ /\ m_isTimerOn
       /\ Goes(r, "test", "idle")
       /\ missed' = (missed \/ Succeeded)
       /\ UNCHANGED <<socket, flags, poco, main, overlapped, unasked, late, contended>>
    \/ /\ ~m_isTimerOn
       /\ Goes(r, "test", "close")
       /\ overlapped' = (overlapped \/ SomebodyStarts)
       /\ late' = (late \/ Closing)
       /\ UNCHANGED <<socket, flags, poco, main, missed, unasked, contended>>

Close(r) ==
    /\ Goes(r, "close", "arm")
    /\ socket' = "closed"
    /\ UNCHANGED <<flags, poco, main, past>>

-----------------------------------------------------------------------------
(* startReconnectTimer, by any of the threads                                *)

NoFlagMutant(r) ==
    /\ Goes(r, "arm", "stop")
    /\ m_interval' = StartPeriod
    /\ missed' = FALSE
    /\ UNCHANGED <<socket, m_isConnected, m_isTimerOn, poco, main, overlapped, unasked, late, contended>>
Arm(r) ==
    /\ Goes(r, "arm", "stop")
    /\ m_isTimerOn' = TRUE
    /\ m_interval' = StartPeriod
    /\ missed' = FALSE
    /\ UNCHANGED <<socket, m_isConnected, poco, main, overlapped, unasked, late, contended>>

\* Timer::stop: nothing to do without a callback; else end the thread and wait.
Stop(r) ==
    \/ /\ ~hasCallback
       /\ Goes(r, "stop", "setPeriod")
       /\ UNCHANGED <<socket, flags, poco, main, past>>
    \/ /\ hasCallback
       /\ Goes(r, "stop", "waitDone")
       /\ period' = 0
       /\ wakeUp' = TRUE
       /\ contended' = (contended \/ main = "waitDone")
       /\ UNCHANGED <<socket, flags, hasCallback, done, timer, main, missed, overlapped,
                      unasked, late>>

NoWaitMutant(r) ==
    /\ Goes(r, "waitDone", "setPeriod")
    /\ hasCallback' = FALSE
    /\ UNCHANGED <<socket, flags, period, wakeUp, done, timer, main, past>>
WaitDone(r) ==
    /\ Goes(r, "waitDone", "setPeriod")
    /\ done
    /\ done' = FALSE
    /\ hasCallback' = FALSE
    /\ UNCHANGED <<socket, flags, period, wakeUp, timer, main, past>>

SetPeriod(r) ==
    /\ Goes(r, "setPeriod", "start")
    /\ period' = m_interval
    /\ UNCHANGED <<socket, flags, hasCallback, wakeUp, done, timer, main, past>>

\* Timer::start asserts that there is no callback; the exception ends a worker
\* and, in the io or the network thread, the program.
Start(r) ==
    \/ /\ hasCallback
       /\ Goes(r, "start", "dead")
       /\ UNCHANGED <<socket, flags, poco, main, past>>
    \/ /\ ~hasCallback
       /\ Goes(r, "start", "idle")
       /\ hasCallback' = TRUE
       /\ wakeUp' = FALSE
       /\ timer' = "sleep"
       /\ UNCHANGED <<socket, flags, period, done, main, past>>

StartReconnectTimer(r) ==
    Arm(r) \/ Stop(r) \/ WaitDone(r) \/ SetPeriod(r) \/ Start(r)

HandleRWError(r) ==
    Unmark(r) \/ Test(r) \/ Close(r)

-----------------------------------------------------------------------------
(* connect() on a handler that lives already, by the network thread          *)

\* reconnect(), lines 4-9.  A socket that is open already cannot be connected.
CallConnect ==
    /\ main = "run"
    /\ \/ /\ Goes(Network, "idle", "mark")
          /\ socket = "closed"
          /\ socket' = "open"
       \/ /\ Goes(Network, "idle", "unmark")
          /\ socket' = "closed"
    /\ UNCHANGED <<flags, poco, main, past>>

\* Lines 10 and 15.
MarkConnect ==
    /\ Goes(Network, "mark", "read") \/ Goes(Network, "unmark", "read")
    /\ m_isConnected' = (caller[Network] = "mark")
    /\ UNCHANGED <<socket, m_isTimerOn, m_interval, poco, main, past>>

\* Lines 17 and 22: the timer is started whether it runs or not.
ReadConnect ==
    \/ /\ m_isConnected
       /\ Goes(Network, "read", "idle")
       /\ UNCHANGED <<socket, flags, poco, main, past>>
    \/ /\ ~m_isConnected
       /\ Goes(Network, "read", "arm")
       /\ overlapped' = (overlapped \/ SomebodyStarts)
       /\ unasked' = (unasked \/ m_isTimerOn)
       /\ UNCHANGED <<socket, flags, poco, main, missed, late, contended>>

ConnectGoesOn == MarkConnect \/ ReadConnect

-----------------------------------------------------------------------------
(* The timer's thread: Timer::run, onReconnTimer and reconnect               *)

TimerGoes(from, to) ==
    /\ ~Aborted
    /\ timer = from
    /\ timer' = to

\* The thread goes on as long as the period is not zero.
Again == IF period = 0 THEN "ending" ELSE "sleep"

Wake ==
    /\ TimerGoes("sleep", Again)
    /\ wakeUp
    /\ wakeUp' = FALSE
    /\ UNCHANGED <<socket, flags, hasCallback, period, done, caller, main, past>>

Ring ==
    /\ TimerGoes("sleep", "connect")
    /\ ~wakeUp
    /\ UNCHANGED <<socket, flags, hasCallback, period, wakeUp, done, caller, main, past>>

\* reconnect(), as in CallConnect, MarkConnect and ReadConnect.
ConnectOk ==
    /\ TimerGoes("connect", "mark")
    /\ socket = "closed"
    /\ socket' = "open"
    /\ UNCHANGED <<flags, hasCallback, period, wakeUp, done, caller, main, past>>
ConnectFails ==
    /\ TimerGoes("connect", "unmark")
    /\ socket' = "closed"
    /\ UNCHANGED <<flags, hasCallback, period, wakeUp, done, caller, main, past>>

Mark ==
    /\ TimerGoes("mark", "read") \/ TimerGoes("unmark", "read")
    /\ m_isConnected' = (timer = "mark")
    /\ UNCHANGED <<socket, m_isTimerOn, m_interval, hasCallback, period, wakeUp, done,
                   caller, main, past>>

Read ==
    /\ TimerGoes("read", IF m_isConnected THEN "restart" ELSE "backoff")
    /\ UNCHANGED <<socket, flags, hasCallback, period, wakeUp, done, caller, main, past>>

\* Line 42: restart(0).
NoRestartMutant ==
    /\ TimerGoes("restart", "rearm")
    /\ UNCHANGED <<socket, flags, hasCallback, period, wakeUp, done, caller, main, past>>
Restart ==
    /\ TimerGoes("restart", "rearm")
    /\ period' = 0
    /\ wakeUp' = TRUE
    /\ UNCHANGED <<socket, flags, hasCallback, done, caller, main, past>>

\* Lines 43-44.
Rearm ==
    /\ TimerGoes("rearm", "return")
    /\ m_interval' = StartPeriod
    /\ m_isTimerOn' = FALSE
    /\ UNCHANGED <<socket, m_isConnected, hasCallback, period, wakeUp, done, caller, main, past>>

\* Lines 48-52.
LongerMutant(interval) == interval * StartPeriod
Longer(interval) ==
    IF interval * StartPeriod < MaxPeriod + 1 THEN interval * StartPeriod ELSE interval

DontRetryMutant ==
    /\ TimerGoes("backoff", "return")
    /\ m_interval' = Longer(m_interval)
    /\ period' = 0
    /\ UNCHANGED <<socket, m_isConnected, m_isTimerOn, hasCallback, wakeUp, done, caller, main, past>>
BackOff ==
    /\ TimerGoes("backoff", "return")
    /\ m_interval' = Longer(m_interval)
    /\ period' = m_interval'
    /\ UNCHANGED <<socket, m_isConnected, m_isTimerOn, hasCallback, wakeUp, done, caller, main, past>>

Return ==
    /\ TimerGoes("return", Again)
    /\ UNCHANGED <<socket, flags, hasCallback, period, wakeUp, done, caller, main, past>>

End ==
    /\ TimerGoes("ending", "off")
    /\ done' = TRUE
    /\ UNCHANGED <<socket, flags, hasCallback, period, wakeUp, caller, main, past>>

Timer ==
    \/ Wake \/ Ring \/ ConnectOk \/ ConnectFails \/ Mark \/ Read
    \/ Restart \/ Rearm \/ BackOff \/ Return \/ End

-----------------------------------------------------------------------------
(* DoorSwitchHandler::close, by the main thread                              *)

MainGoes(from, to) ==
    /\ ~Aborted
    /\ main = from
    /\ main' = to

\* The network thread has been joined before.
CloseSocket ==
    /\ MainGoes("run", "stopIo")
    /\ caller[Network] = "idle"
    /\ socket' = "closed"
    /\ late' = SomebodyStarts
    /\ UNCHANGED <<flags, poco, caller, missed, overlapped, unasked, contended>>

StopIo ==
    /\ MainGoes("stopIo", "stopTimer")
    /\ UNCHANGED <<socket, flags, poco, caller, past>>

\* m_reconnTimer.stop(), as in Stop and WaitDone.
DontStopTimerMutant ==
    /\ MainGoes("stopTimer", "joinIo")
    /\ UNCHANGED <<socket, flags, poco, caller, past>>
StopTimer ==
    \/ /\ ~hasCallback
       /\ MainGoes("stopTimer", "joinIo")
       /\ UNCHANGED <<socket, flags, poco, caller, past>>
    \/ /\ hasCallback
       /\ MainGoes("stopTimer", "waitDone")
       /\ period' = 0
       /\ wakeUp' = TRUE
       /\ contended' = (contended \/ \E r \in Reporters : caller[r] = "waitDone")
       /\ UNCHANGED <<socket, flags, hasCallback, done, timer, caller, missed,
                      overlapped, unasked, late>>

TimerStopped ==
    /\ MainGoes("waitDone", "joinIo")
    /\ done
    /\ done' = FALSE
    /\ hasCallback' = FALSE
    /\ UNCHANGED <<socket, flags, period, wakeUp, timer, caller, past>>

\* The io thread ends when it is through with the handler it runs.
JoinIo ==
    /\ MainGoes("joinIo", "joinWorkers")
    /\ caller[IoThread] = "idle"
    /\ UNCHANGED <<socket, flags, poco, caller, past>>

Workers == Reporters \ {IoThread}

\* A worker that is told to stop ends after its current task, unless it misses
\* the wake-up (CloseReturns of ChannelWorker).
Leave(r) ==
    /\ main = "joinWorkers"
    /\ Goes(r, "idle", "gone")
    /\ UNCHANGED <<socket, flags, poco, main, past>>

JoinWorkers ==
    /\ MainGoes("joinWorkers", "closed")
    /\ \A r \in Workers : caller[r] \in {"gone", "dead"}
    /\ UNCHANGED <<socket, flags, poco, caller, past>>

Shutdown == StopIo \/ StopTimer \/ TimerStopped \/ JoinIo \/ JoinWorkers

Next ==
    \/ \E r \in Reporters : Report(r) \/ HandleRWError(r)
    \/ \E r \in Callers : StartReconnectTimer(r)
    \/ CallConnect \/ ConnectGoesOn
    \/ Timer
    \/ CloseSocket \/ Shutdown
    \/ \E r \in Workers : Leave(r)

Spec == Init /\ [][Next]_vars

\* Threads run, and a switch that is tried again and again is reached some day.
\* connect() is called when a handler is created, so once for each configured switch
\* at most.  Nothing makes a worker leave: it may miss the wake-up or report for ever.
FairSpec ==
    /\ Spec
    /\ WF_vars(Timer)
    /\ SF_vars(ConnectOk)
    /\ WF_vars(Shutdown)
    /\ <>[][~CallConnect]_vars
    /\ WF_vars(ConnectGoesOn)
    /\ \A r \in Reporters : WF_vars(HandleRWError(r))
    /\ \A r \in Callers : WF_vars(StartReconnectTimer(r))

-----------------------------------------------------------------------------
(* Properties                                                                *)

Places == {"idle", "report", "test", "mark", "unmark", "read", "dead", "gone"}
              \cup Starting
MainPlaces == {"run", "stopIo", "stopTimer", "waitDone", "joinIo", "joinWorkers", "closed"}
TimerPlaces == {"off", "sleep", "connect", "mark", "unmark", "read", "restart",
                "rearm", "backoff", "return", "ending"}

\* Every variable stays in its range; the pause never exceeds its maximum.
TypeOK ==
    /\ socket \in {"closed", "open"}
    /\ m_isConnected \in BOOLEAN
    /\ m_isTimerOn \in BOOLEAN
    /\ m_interval \in StartPeriod .. MaxPeriod
    /\ hasCallback \in BOOLEAN
    /\ period \in {0} \cup StartPeriod .. MaxPeriod
    /\ wakeUp \in BOOLEAN
    /\ done \in BOOLEAN
    /\ timer \in TimerPlaces
    /\ caller \in [Callers -> Places]
    /\ main \in MainPlaces
    /\ missed \in BOOLEAN
    /\ overlapped \in BOOLEAN
    /\ unasked \in BOOLEAN
    /\ late \in BOOLEAN
    /\ contended \in BOOLEAN

\* However reports and connect() interleave, stop() has waited for the old thread
\* whenever start() is about to make a new one: the timer never has two threads.
OneTimerThread ==
    \A r \in Callers : caller[r] = "start" /\ ~hasCallback => timer = "off"

\* The assertion of start() fails only after two threads were on the way to it at
\* the same time.  m_isTimerOn keeps reports apart, as far as its test and its
\* setting are not torn apart; a connect() that starts the timer alone, even while
\* the timer runs, waits in stop() and does no harm.
StartAsserted ==
    (\E r \in Callers : caller[r] = "dead") => overlapped

\* The flag is up while the timer is trying, unless two threads were on the way to
\* start it, or connect() started it again while it was running: the old thread
\* may then clear the flag of the new one.
FlagIsHonest ==
    timer \in {"sleep", "connect", "mark", "unmark", "read", "restart", "rearm", "backoff"}
        => m_isTimerOn \/ overlapped \/ unasked

\* While the server runs, a switch that is marked disconnected has somebody who
\* works on it, except after a report that was dismissed in the moment the timer
\* gave up its flag.
SomebodyRetries ==
    main = "run" /\ ~m_isConnected /\ timer = "off" /\ ~missed =>
        \E r \in Callers : caller[r] \in Starting \cup {"test", "read"}

\* The timer outlives close(), and its callback the handler it belongs to, only if
\* an error was acted on while close() ran.
TimerStaysOff == main \in {"joinIo", "joinWorkers", "closed"} /\ ~late => timer = "off"

\* New errors without end.
Disturbed == []<>(\E r \in Reporters : caller[r] = "report")

\* A connection that is lost comes back, with the exception of SomebodyRetries.
ConnectionComesBack == []<>(m_isConnected \/ missed \/ Closing \/ Aborted)

\* A thread that stops the timer gets out of stop() again once the switch can be
\* reached; it waits for ever only if new errors keep others stopping it as well,
\* or if close() took the event it waits for.
StopReturns ==
    \A r \in Callers :
        <>[](caller[r] = "waitDone") => Disturbed \/ []<>(contended \/ Aborted)

\* close() returns, though a failing attempt of the timer may hold it until the
\* switch is reached, unless two threads waited in stop() or started the timer, a
\* worker reports errors without end, or a worker misses the wake-up.
CloseReturns ==
    <>[](Closing /\ main # "closed") =>
        \/ Disturbed
        \/ []<>(contended \/ overlapped)
        \/ \E r \in Workers : <>[](main = "joinWorkers" /\ caller[r] = "idle")
=============================================================================
