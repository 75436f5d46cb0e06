---------------------------- MODULE ChannelWorker ----------------------------
(***************************************************************************)
(* One DoorSwitchChannelController: the thread that controls one door.     *)
(*                                                                         *)
(* Three threads meet here.  The MQTT thread enqueues open-door tasks      *)
(* (addTask), the worker thread takes them one after the other (run) and   *)
(* writes an open and a close command to the relay (sendData), and the     *)
(* main thread ends the worker at shutdown (close).  The relay may be lost *)
(* behind the TCP link at any time.  A write that fails calls the handler's*)
(* handleRWError, which this module takes as it may turn out (Reconnect    *)
(* has its steps): it returns, it never returns, or it ends the worker.    *)
(*                                                                         *)
(* Time is discrete.  A queued task is represented by what is left of its  *)
(* closeAfterMs, so that getCloseAfterMs() - getElapsed() of line 92 is    *)
(* the number itself; zero stands for every value <= 0, which the code     *)
(* treats alike.                                                           *)
(***************************************************************************)
EXTENDS Integers, Sequences

CONSTANTS
    SwitchType,   \* m_switchInfo.type
    CloseAfter,   \* the "close" values requests carry, in ticks (any integer)
    MaxQueue,     \* bound: tasks the MQTT thread lets pile up
    Events        \* what happens around the worker: "link": writes may fail or
                  \* be lost; "stop": the server is shut down

SwitchTypes == {"DIRECT_CONTROL_SWITCH", "INDIRECT_CONTROL_SWITCH"}

ASSUME WorkerAssumption ==
    /\ SwitchType \in SwitchTypes
    /\ CloseAfter \subseteq Int
    /\ MaxQueue \in Nat \ {0}
    /\ Events \subseteq {"link", "stop"}

Indirect == SwitchType = "INDIRECT_CONTROL_SWITCH"

VARIABLES
    pc,          \* where the worker thread is in run()
    left,        \* what is left of the task in hand; realWait once it sleeps
    bNotiInQ,    \* "the task in hand follows another one"
    queue,       \* m_taskNotiQue: what is left of each waiting task
    door,        \* the position the relay was last brought into
    connected,   \* the handler's m_isConnected, as far as the worker touches it
    m_stop,
    closer,      \* how far the main thread is in close()
    excuse       \* history, read by properties only: what happened since the
                 \* last command that reached the relay

worker == <<pc, left, bNotiInQ>>
relay  == <<door, connected>>
vars   == <<pc, left, bNotiInQ, queue, door, connected, m_stop, closer, excuse>>

Init ==
    /\ pc = "check"
    /\ left = 0
    /\ bNotiInQ = FALSE
    /\ queue = <<>>
    /\ door = "closed"
    /\ connected = TRUE
    /\ m_stop = FALSE
    /\ closer = "idle"
    /\ excuse = {}

-----------------------------------------------------------------------------
(* Time *)

\* What is left of a task the moment it is created with closeAfterMs = c.
LeftMutant(c) == c
Left(c) == IF c <= 0 THEN 0 ELSE c

Age(t) == IF t = 0 THEN 0 ELSE t - 1

\* The stopwatch of every task runs, and so does the worker's sleep.  The value
\* of realWait is fixed while the open command is being written.
Running == pc \in {"taken", "sleeping"}

Tick ==
    /\ \/ \E i \in DOMAIN queue : queue[i] > 0
       \/ Running /\ left > 0
    /\ queue' = [i \in DOMAIN queue |-> Age(queue[i])]
    /\ left' = IF Running THEN Age(left) ELSE left
    /\ UNCHANGED <<pc, bNotiInQ, relay, m_stop, closer, excuse>>

-----------------------------------------------------------------------------
(* The MQTT thread: DoorSwitchHandler::openDoor calls addTask.  The queue    *)
(* hands a task to a waiting worker directly, without storing it.  main()    *)
(* ends the MQTT thread before it closes the handlers.                       *)

AddTask(c) ==
    /\ closer = "idle"
    /\ connected
    /\ \/ /\ pc = "waiting"
          /\ pc' = "taken"
          /\ left' = Left(c)
          /\ UNCHANGED queue
       \/ /\ pc # "waiting"
          /\ Len(queue) < MaxQueue
          /\ queue' = Append(queue, Left(c))
          /\ UNCHANGED <<pc, left>>
    /\ UNCHANGED <<bNotiInQ, relay, m_stop, closer, excuse>>

-----------------------------------------------------------------------------
(* Writing to the relay.  A write that fails calls handleRWError, whose      *)
(* first statement marks the switch disconnected; a write that succeeds may  *)
(* still be lost with the connection.  close() of the handler closes the     *)
(* socket before it stops the workers.                                       *)

MayFail == "link" \in Events \/ closer # "idle"

SendData(position, next, failed) ==
    \/ /\ pc' = next
       /\ door' = position
       /\ excuse' = {}
       /\ UNCHANGED connected
    \/ /\ MayFail
       /\ excuse' = excuse \cup {"lost"}
       /\ UNCHANGED door
       /\ \/ pc' = next /\ UNCHANGED connected
          \/ pc' = failed /\ connected' = FALSE

\* handleRWError returns to sendData, which returns to run().
ReportReturns ==
    /\ \/ /\ pc = "openFailed"
          /\ pc' = "sleeping"
          /\ UNCHANGED bNotiInQ
       \/ /\ pc = "closeFailed"
          /\ pc' = "check"
          /\ bNotiInQ' = (bNotiInQ /\ ~Indirect)
    /\ UNCHANGED <<left, queue, relay, m_stop, closer, excuse>>

\* The assertion of Timer::start fails: the exception leaves run().
ReportThrows ==
    /\ pc \in {"openFailed", "closeFailed"}
    /\ pc' = "exited"
    /\ UNCHANGED <<left, bNotiInQ, queue, relay, m_stop, closer, excuse>>

-----------------------------------------------------------------------------
(* The worker thread: run()                                                  *)

\* Lines 76-79.
CheckStop ==
    /\ pc = "check"
    /\ pc' = IF m_stop THEN "exited" ELSE "dequeue"
    /\ UNCHANGED <<left, bNotiInQ, queue, relay, m_stop, closer, excuse>>

\* Line 81: take the first task, or block until one is handed over.
Dequeue ==
    /\ pc = "dequeue"
    /\ \/ /\ queue # <<>>
          /\ pc' = "taken"
          /\ left' = Head(queue)
          /\ queue' = Tail(queue)
       \/ /\ queue = <<>>
          /\ pc' = "waiting"
          /\ UNCHANGED <<left, queue>>
    /\ UNCHANGED <<bNotiInQ, relay, m_stop, closer, excuse>>

\* Lines 93-100: the task has expired in the queue and is skipped.
DropExpired ==
    /\ pc = "taken"
    /\ left = 0
    /\ bNotiInQ' = (queue # <<>>)
    /\ pc' = "check"
    /\ excuse' = excuse \cup {"drop"}
    /\ UNCHANGED <<left, queue, relay, m_stop, closer>>

\* Lines 92, 104, 114: a directly controlled door is not opened again for a
\* task that follows another one.
InvertedTestMutant ==
    /\ pc = "taken"
    /\ left > 0
    /\ pc' = IF Indirect \/ bNotiInQ THEN "opening" ELSE "sleeping"
    /\ UNCHANGED <<left, bNotiInQ, queue, relay, m_stop, closer, excuse>>
Serve ==
    /\ pc = "taken"
    /\ left > 0
    /\ pc' = IF Indirect \/ ~bNotiInQ THEN "opening" ELSE "sleeping"
    /\ UNCHANGED <<left, bNotiInQ, queue, relay, m_stop, closer, excuse>>

\* Lines 106 and 116.
OpenDoor ==
    /\ pc = "opening"
    /\ SendData("open", "sleeping", "openFailed")
    /\ UNCHANGED <<left, bNotiInQ, queue, m_stop, closer>>

\* Lines 107 and 118-120: the sleep is over.  A directly controlled door stays
\* open when somebody else is waiting.
StaleFlagMutant ==
    /\ pc = "sleeping"
    /\ left = 0
    /\ pc' = IF Indirect \/ queue = <<>> THEN "closing" ELSE "check"
    /\ UNCHANGED <<left, bNotiInQ, queue, relay, m_stop, closer, excuse>>
NoCloseMutant ==
    /\ pc = "sleeping"
    /\ left = 0
    /\ bNotiInQ' = (queue # <<>>)
    /\ pc' = "check"
    /\ UNCHANGED <<left, queue, relay, m_stop, closer, excuse>>
EndSlot ==
    /\ pc = "sleeping"
    /\ left = 0
    /\ \/ /\ Indirect
          /\ pc' = "closing"
          /\ UNCHANGED bNotiInQ
       \/ /\ ~Indirect
          /\ bNotiInQ' = (queue # <<>>)
          /\ pc' = IF queue # <<>> THEN "check" ELSE "closing"
    /\ UNCHANGED <<left, queue, relay, m_stop, closer, excuse>>

\* Lines 108-109 and 122.
CloseDoor ==
    /\ pc = "closing"
    /\ SendData("closed", "check", "closeFailed")
    /\ bNotiInQ' = (bNotiInQ /\ (~Indirect \/ pc' = "closeFailed"))
    /\ UNCHANGED <<left, queue, m_stop, closer>>

Worker ==
    CheckStop \/ Dequeue \/ DropExpired \/ Serve \/ OpenDoor \/ EndSlot \/ CloseDoor

-----------------------------------------------------------------------------
(* The main thread: DoorSwitchHandler::close, then close() of the controller *)

CloseSocket ==
    /\ "stop" \in Events
    /\ closer = "idle"
    /\ closer' = "socketClosed"
    /\ UNCHANGED <<worker, queue, relay, m_stop, excuse>>

SetStop ==
    /\ closer = "socketClosed"
    /\ m_stop' = TRUE
    /\ closer' = "stopSet"
    /\ UNCHANGED <<worker, queue, relay, excuse>>

ClearQueue ==
    /\ closer = "stopSet"
    /\ queue' = <<>>
    /\ excuse' = IF queue = <<>> THEN excuse ELSE excuse \cup {"cleared"}
    /\ closer' = "cleared"
    /\ UNCHANGED <<worker, relay, m_stop>>

\* A worker that waits gets a null notification and leaves its loop (line 82);
\* one that does not wait yet is not reached.
NoWakeMutant ==
    /\ closer = "cleared"
    /\ closer' = "joining"
    /\ UNCHANGED <<worker, queue, relay, m_stop, excuse>>
WakeUpAll ==
    /\ closer = "cleared"
    /\ pc' = IF pc = "waiting" THEN "exited" ELSE pc
    /\ closer' = "joining"
    /\ UNCHANGED <<left, bNotiInQ, queue, relay, m_stop, excuse>>

Join ==
    /\ closer = "joining"
    /\ pc = "exited"
    /\ closer' = "closed"
    /\ UNCHANGED <<worker, queue, relay, m_stop, excuse>>

Closer == SetStop \/ ClearQueue \/ WakeUpAll \/ Join

-----------------------------------------------------------------------------
(* The handler's other threads change m_isConnected: a read error or another *)
(* channel's failed write clears it, the reconnect timer sets it again.      *)

LinkChange ==
    /\ "link" \in Events
    /\ connected' = ~connected
    /\ UNCHANGED <<worker, queue, door, m_stop, closer, excuse>>

Next ==
    \/ Tick
    \/ \E c \in CloseAfter : AddTask(c)
    \/ Worker
    \/ ReportReturns \/ ReportThrows
    \/ CloseSocket
    \/ Closer
    \/ LinkChange

\* Time passes, and the operating system runs the worker and the main thread
\* once it has begun to close.  Nobody has to send requests, and handleRWError
\* does not have to return: it may wait in Timer::stop.
Fairness == WF_vars(Tick) /\ WF_vars(Worker) /\ WF_vars(Closer)

Spec == Init /\ [][Next]_vars
FairSpec == Spec /\ Fairness

-----------------------------------------------------------------------------
(* Properties                                                                *)

PCs == {"check", "dequeue", "waiting", "taken", "opening", "sleeping",
        "closing", "openFailed", "closeFailed", "exited"}
Excuses == {"lost", "drop", "cleared"}

\* Every variable stays in its range, the queue within its bound.
TypeOK ==
    /\ pc \in PCs
    /\ left \in Nat
    /\ bNotiInQ \in BOOLEAN
    /\ queue \in Seq(Nat)
    /\ Len(queue) <= MaxQueue
    /\ door \in {"open", "closed"}
    /\ connected \in BOOLEAN
    /\ m_stop \in BOOLEAN
    /\ closer \in {"idle", "socketClosed", "stopSet", "cleared", "joining", "closed"}
    /\ excuse \subseteq Excuses

\* What may separate the door from the flag since the last command that arrived.
\* An indirectly controlled door gets both commands for every task, so only a
\* lost command matters to it.
Excused == IF Indirect THEN {"lost"} ELSE Excuses
Unexcused == excuse \cap Excused = {}

BetweenTasks == pc \in {"check", "dequeue", "waiting", "taken", "exited"}

\* bNotiInQ ("the task in hand follows another one") is what the code remembers
\* of the door.  Between two tasks the door is open exactly if the flag is set,
\* unless since the last command that reached the relay a task was dropped as
\* expired, a command was lost or shutdown discarded the followers.
FlagTracksDoor ==
    BetweenTasks /\ excuse = {} => (door = "open" <=> bNotiInQ)

\* While the worker sleeps through the time granted to a person, the door is
\* open, with the same exceptions.
ServedDoorOpen == pc = "sleeping" /\ Unexcused => door = "open"

\* A worker that waits for its next task has left the door closed, with the
\* same exceptions.
IdleDoorClosed == pc = "waiting" /\ Unexcused => door = "closed"

\* An open door in which nobody is being served is closed, serves the next
\* person, or one of the exceptions has occurred; a worker that leaves its loop
\* leaves the door as it is.
OpenIsTemporary ==
    (door = "open" /\ pc # "sleeping")
        ~> (door = "closed" \/ pc = "sleeping" \/ excuse # {} \/ pc = "exited")

\* close() returns, whatever the worker was doing when m_stop was set, provided
\* it was not between its test of m_stop (line 76) and the queue (line 81), and no
\* report of a failed write keeps it for ever.
ReportsEnd == []<>(pc \notin {"openFailed", "closeFailed"})
CloseReturns ==
    ReportsEnd => ((closer = "stopSet" /\ pc # "dequeue") ~> (closer = "closed"))

\* What the comments say without exception.  A task that has not expired in the
\* queue is not the "timed out, not handled" case of lines 95-97: its person
\* finds an open door.
InTimeTaskFindsDoorOpen == pc = "sleeping" => door = "open"

\* The request's m_closeAfter is the time after which the door is closed: it is
\* closed when the worker has nothing left to do.
DoorClosedAfterwards == pc = "waiting" => door = "closed"

-----------------------------------------------------------------------------
\* The promise of one door, kept by the worker of an indirectly controlled one.
Promise == INSTANCE DoorSlot WITH
               slot <- IF pc = "sleeping" THEN left ELSE 0
DoorPromise == Promise!Spec
=============================================================================
