------------------------- MODULE ChannelWorkerProofs -------------------------
(***************************************************************************)
(* What ChannelWorker guarantees for every set of requests, every bound of *)
(* the queue and both types of switch.                                     *)
(***************************************************************************)
EXTENDS ChannelWorker, SequenceTheorems, TLAPS

-----------------------------------------------------------------------------
(* Type correctness                                                          *)

\* The stopwatches run: the queue keeps its length and its type.
LEMMA AgedQueue ==
    ASSUME NEW q \in Seq(Nat)
    PROVE  /\ [i \in DOMAIN q |-> Age(q[i])] \in Seq(Nat)
           /\ Len([i \in DOMAIN q |-> Age(q[i])]) = Len(q)
  <1> DEFINE aged == [i \in DOMAIN q |-> Age(q[i])]
  <1>1. DOMAIN q = 1 .. Len(q) /\ Len(q) \in Nat
    BY LenProperties
  <1>2. \A i \in 1 .. Len(q) : Age(q[i]) \in Nat
    BY ElementOfSeq DEF Age
  <1>3. aged \in [1 .. Len(q) -> Nat]
    BY <1>1, <1>2
  <1> QED
    BY <1>1, <1>3

\* A worker step changes the relay by at most one command.
LEMMA SendDataType ==
    ASSUME TypeOK, NEW position \in {"open", "closed"}, NEW next \in PCs, NEW failed \in PCs,
           SendData(position, next, failed)
    PROVE  /\ pc' \in PCs
           /\ door' \in {"open", "closed"}
           /\ connected' \in BOOLEAN
           /\ excuse' \subseteq Excuses
  BY DEF TypeOK, SendData, Excuses

\* The threads start in the ranges.
LEMMA WorkerInit == Init => TypeOK
  <1>1. <<>> \in Seq(Nat) /\ Len(<<>>) = 0
    BY EmptySeq
  <1>2. MaxQueue \in Nat
    BY WorkerAssumption
  <1>3. Init => queue \in Seq(Nat) /\ Len(queue) <= MaxQueue
    BY <1>1, <1>2 DEF Init
  <1>4. Init => {bNotiInQ, connected, m_stop} \subseteq BOOLEAN
    BY DEF Init
  <1>5. Init => pc \in PCs /\ left \in Nat /\ excuse \subseteq Excuses
    BY DEF Init, PCs
  <1> QED
    BY <1>3, <1>4, <1>5, Zenon DEF Init, TypeOK

\* No step leaves the types.
LEMMA TypeStep == TypeOK /\ [Next]_vars => TypeOK'
  <1> SUFFICES ASSUME TypeOK, [Next]_vars
               PROVE  TypeOK'
    OBVIOUS
  <1> USE WorkerAssumption DEF TypeOK, PCs, worker, relay
  <1>1. CASE Tick
    <2>1. queue' \in Seq(Nat) /\ Len(queue') <= MaxQueue
      BY <1>1, AgedQueue DEF Tick
    <2> QED
      BY <1>1, <2>1 DEF Tick, Age
  <1>2. ASSUME NEW c \in CloseAfter, AddTask(c)
        PROVE  TypeOK'
    <2>1. Left(c) \in Nat
      BY DEF Left
    <2>2. queue' \in Seq(Nat) /\ Len(queue') <= MaxQueue
      BY <1>2, <2>1, AppendProperties DEF AddTask
    <2> QED
      BY <1>2, <2>1, <2>2 DEF AddTask
  <1>3. CASE CheckStop
    BY <1>3 DEF CheckStop
  <1>4. CASE Dequeue
    <2>1. CASE queue = <<>>
      BY <1>4, <2>1 DEF Dequeue
    <2>2. CASE queue # <<>>
      <3>1. /\ left' \in Nat /\ queue' \in Seq(Nat)
            /\ Len(queue') = Len(queue) - 1
        BY <1>4, <2>2, HeadTailProperties DEF Dequeue
      <3> QED
        BY <1>4, <2>2, <3>1, LenProperties DEF Dequeue
    <2> QED
      BY <2>1, <2>2
  <1>5. CASE DropExpired
    BY <1>5 DEF DropExpired, Excuses
  <1>6. CASE Serve
    BY <1>6 DEF Serve
  <1>7. CASE OpenDoor
    BY <1>7, SendDataType DEF OpenDoor
  <1>8. CASE EndSlot
    BY <1>8 DEF EndSlot
  <1>9. CASE CloseDoor
    BY <1>9, SendDataType DEF CloseDoor
  <1>10. CASE CloseSocket
    BY <1>10 DEF CloseSocket
  <1>11. CASE SetStop
    BY <1>11 DEF SetStop
  <1>12. CASE ClearQueue
    <2>1. <<>> \in Seq(Nat) /\ Len(<<>>) = 0
      BY EmptySeq
    <2> QED
      BY <1>12, <2>1 DEF ClearQueue, Excuses
  <1>13. CASE WakeUpAll
    BY <1>13 DEF WakeUpAll
  <1>14. CASE Join
    BY <1>14 DEF Join
  <1>15. CASE LinkChange
    BY <1>15 DEF LinkChange
  <1>16. CASE UNCHANGED vars
    BY <1>16 DEF vars
  <1>17. CASE ReportReturns \/ ReportThrows
    BY <1>17 DEF ReportReturns, ReportThrows
  <1> QED
    BY <1>1, <1>2, <1>3, <1>4, <1>5, <1>6, <1>7, <1>8, <1>9, <1>10, <1>11,
       <1>12, <1>13, <1>14, <1>15, <1>16, <1>17
    DEF Next, Worker, Closer

\* Every variable stays in its range, whatever integers the requests carry.
THEOREM WorkerType == Spec => []TypeOK
  <1> QED
    BY WorkerInit, TypeStep, PTL DEF Spec

-----------------------------------------------------------------------------
(* The flag and the door                                                     *)
(*                                                                           *)
(* None of the three invariants is inductive: each one is kept by what the   *)
(* worker did one step earlier.  IInv says where the door is at every point  *)
(* of the loop, which task may follow another one, and that a worker only    *)
(* goes back for a task with the flag set if that task is in the queue.      *)

\* What a directly controlled door's worker knows at each point of its loop.
DirectInv ==
    ~Indirect =>
        /\ pc \in {"opening", "closing"} => ~bNotiInQ
        /\ pc \in {"sleeping", "closing"} /\ excuse = {} => door = "open"
        /\ pc \in {"check", "dequeue"} /\ bNotiInQ /\ excuse = {} => queue # <<>>
        /\ pc = "waiting" /\ excuse = {} => ~bNotiInQ

\* An indirectly controlled door is only open while its worker sleeps or closes it.
IndirectInv ==
    Indirect /\ "lost" \notin excuse =>
        /\ BetweenTasks \/ pc = "opening" => door = "closed"
        /\ pc \in {"sleeping", "closing"} => door = "open"

IndirectFlag ==
    Indirect /\ excuse = {} /\ BetweenTasks => ~bNotiInQ

\* handleRWError is called after a write that failed.
FailedInv == pc \in {"openFailed", "closeFailed"} => "lost" \in excuse

IInv ==
    /\ TypeOK
    /\ FailedInv
    /\ DirectInv
    /\ ~Indirect => FlagTracksDoor
    /\ IndirectInv
    /\ IndirectFlag

\* The inductive invariant implies the three invariants the runs check.
LEMMA IInvImplies == IInv => FlagTracksDoor /\ ServedDoorOpen /\ IdleDoorClosed
  BY DEF IInv, TypeOK, DirectInv, FlagTracksDoor, IndirectInv, IndirectFlag,
         ServedDoorOpen, IdleDoorClosed, Unexcused, Excused, Excuses, BetweenTasks

LEMMA InitInv == Init => IInv
  <1>1. Init => TypeOK
    BY WorkerInit
  <1> QED
    BY <1>1 DEF Init, IInv, FailedInv, DirectInv, FlagTracksDoor, IndirectInv, IndirectFlag, BetweenTasks

LEMMA StepInv == IInv /\ [Next]_vars => IInv'
  <1> SUFFICES ASSUME IInv, [Next]_vars
               PROVE  IInv'
    OBVIOUS
  <1>type. TypeOK /\ TypeOK'
    BY TypeStep DEF IInv
  <1> USE <1>type DEF IInv, FailedInv, DirectInv, FlagTracksDoor, IndirectInv, IndirectFlag, BetweenTasks, worker, relay
  <1>1. CASE Tick
    <2>1. queue # <<>> => queue' # <<>>
      BY <1>1, AgedQueue, EmptySeq, LenProperties DEF Tick, TypeOK
    <2> QED
      BY <1>1, <2>1 DEF Tick
  <1>2. ASSUME NEW c \in CloseAfter, AddTask(c)
        PROVE  IInv'
    <2>1. queue' = queue \/ queue' # <<>>
      <3>1. Left(c) \in Nat
        BY WorkerAssumption DEF Left
      <3> QED
        BY <1>2, <3>1, AppendProperties, EmptySeq DEF AddTask, TypeOK
    <2> QED
      BY <1>2, <2>1 DEF AddTask
  <1>3. CASE CheckStop
    BY <1>3 DEF CheckStop
  <1>4. CASE Dequeue
    BY <1>4 DEF Dequeue
  <1>5. CASE DropExpired
    BY <1>5 DEF DropExpired
  <1>6. CASE Serve
    BY <1>6 DEF Serve
  <1>7. CASE OpenDoor
    BY <1>7 DEF OpenDoor, SendData
  <1>8. CASE EndSlot
    BY <1>8 DEF EndSlot
  <1>9. CASE CloseDoor
    BY <1>9 DEF CloseDoor, SendData
  <1>10. CASE CloseSocket
    BY <1>10 DEF CloseSocket
  <1>11. CASE SetStop
    BY <1>11 DEF SetStop
  <1>12. CASE ClearQueue
    BY <1>12 DEF ClearQueue
  <1>13. CASE WakeUpAll
    BY <1>13 DEF WakeUpAll
  <1>14. CASE Join
    BY <1>14 DEF Join
  <1>15. CASE LinkChange
    BY <1>15 DEF LinkChange
  <1>16. CASE UNCHANGED vars
    BY <1>16 DEF vars
  <1>17. CASE ReportReturns \/ ReportThrows
    BY <1>17 DEF ReportReturns, ReportThrows
  <1> QED
    BY <1>1, <1>2, <1>3, <1>4, <1>5, <1>6, <1>7, <1>8, <1>9, <1>10, <1>11, <1>12, <1>13, <1>14, <1>15, <1>16, <1>17
    DEF Next, Worker, Closer

LEMMA WorkerInv == Spec => []IInv
  <1> QED
    BY InitInv, StepInv, PTL DEF Spec

\* Between two tasks bNotiInQ says whether the door is open, unless a drop, a
\* lost command or shutdown came since the last command that arrived.
THEOREM FlagIsRight == Spec => []FlagTracksDoor
  <1> QED
    BY WorkerInv, IInvImplies, PTL

\* Nobody is being served in front of a closed door, with the same exceptions.
THEOREM ServedIsOpen == Spec => []ServedDoorOpen
  <1> QED
    BY WorkerInv, IInvImplies, PTL

\* A worker that waits for a task has closed the door, with the same exceptions.
THEOREM IdleIsClosed == Spec => []IdleDoorClosed
  <1> QED
    BY WorkerInv, IInvImplies, PTL

-----------------------------------------------------------------------------
(* The door after close()                                                    *)

\* A worker leaves with its flag set only if somebody is in the queue, and close()
\* does not empty the queue without a trace.
ShutInv ==
    /\ closer = "closed" => pc = "exited"
    /\ closer \in {"cleared", "joining", "closed"} => queue = <<>>
    /\ pc = "exited" /\ bNotiInQ /\ excuse = {} => queue # <<>>

LEMMA StepShut == IInv /\ ShutInv /\ [Next]_vars => ShutInv'
  <1> SUFFICES ASSUME IInv, ShutInv, [Next]_vars
               PROVE  ShutInv'
    OBVIOUS
  <1> USE DEF ShutInv, worker, relay
  <1>1. CASE Tick
    <2>1. queue # <<>> <=> queue' # <<>>
      BY <1>1, AgedQueue, EmptySeq, LenProperties DEF Tick, IInv, TypeOK
    <2> QED
      BY <1>1, <2>1 DEF Tick
  <1>2. ASSUME NEW c \in CloseAfter, AddTask(c)
        PROVE  ShutInv'
    <2>1. queue' = queue \/ queue' # <<>>
      <3>1. Left(c) \in Nat
        BY WorkerAssumption DEF Left
      <3> QED
        BY <1>2, <3>1, AppendProperties, EmptySeq DEF AddTask, IInv, TypeOK
    <2> QED
      BY <1>2, <2>1 DEF AddTask
  <1>3. CASE CheckStop \/ WakeUpAll
    <2>1. /\ UNCHANGED <<bNotiInQ, queue, excuse>>
          /\ closer' = closer \/ (closer = "cleared" /\ closer' = "joining")
          /\ pc' = pc \/ (pc \in {"check", "waiting"} /\ pc' \in {"dequeue", "exited"})
      BY <1>3 DEF CheckStop, WakeUpAll
    <2>2. pc \in {"check", "waiting"} /\ bNotiInQ /\ excuse = {} => queue # <<>>
      BY DEF IInv, DirectInv, IndirectFlag, BetweenTasks
    <2> QED
      BY <2>1, <2>2
  <1>7. CASE ReportReturns \/ ReportThrows
    <2>1. "lost" \in excuse /\ excuse' = excuse /\ closer' = closer /\ queue' = queue
          /\ pc # "exited"
      BY <1>7 DEF ReportReturns, ReportThrows, IInv, FailedInv
    <2> QED
      BY <2>1
  <1>4. CASE Dequeue \/ DropExpired \/ Serve \/ OpenDoor \/ EndSlot \/ CloseDoor
    <2>1. pc # "exited" /\ pc' # "exited" /\ closer' = closer
      BY <1>4 DEF Dequeue, DropExpired, Serve, OpenDoor, EndSlot, CloseDoor, SendData
    <2>2. queue = <<>> => queue' = <<>>
      BY <1>4 DEF Dequeue, DropExpired, Serve, OpenDoor, EndSlot, CloseDoor
    <2> QED
      BY <2>1, <2>2
  <1>5. CASE CloseSocket \/ SetStop \/ Join \/ LinkChange \/ UNCHANGED vars
    BY <1>5 DEF CloseSocket, SetStop, Join, LinkChange, vars
  <1>6. CASE ClearQueue
    BY <1>6 DEF ClearQueue
  <1> QED
    BY <1>1, <1>2, <1>3, <1>4, <1>5, <1>6, <1>7 DEF Next, Worker, Closer

\* After close() the door is closed, although the handler has closed the socket before
\* the worker is told to stop, with the same exceptions: a worker that leaves its loop
\* with the door open leaves somebody behind in the queue.
THEOREM ShutDoorIsClosed == Spec => [](closer = "closed" /\ Unexcused => door = "closed")
  <1>1. Init => ShutInv
    BY DEF Init, ShutInv
  <1>2. IInv /\ ShutInv => (closer = "closed" /\ Unexcused => door = "closed")
    <2> SUFFICES ASSUME IInv, ShutInv, closer = "closed", Unexcused
                 PROVE  door = "closed"
      OBVIOUS
    <2>1. pc = "exited" /\ queue = <<>>
      BY DEF ShutInv
    <2>2. CASE Indirect
      BY <2>1, <2>2 DEF IInv, IndirectInv, BetweenTasks, Unexcused, Excused
    <2>3. CASE ~Indirect
      <3>1. excuse = {}
        BY <2>3 DEF IInv, TypeOK, Unexcused, Excused
      <3> QED
        BY <2>1, <2>3, <3>1 DEF IInv, TypeOK, FlagTracksDoor, BetweenTasks, ShutInv
    <2> QED
      BY <2>2, <2>3
  <1> QED
    BY <1>1, <1>2, WorkerInv, StepShut, PTL DEF Spec

-----------------------------------------------------------------------------
(* The promise of one door                                                   *)
(*                                                                           *)
(* As long as nothing goes wrong around it, the worker of an indirectly      *)
(* controlled door implements DoorSlot: expired tasks included.  The step    *)
(* simulation needs to know that a task that is being opened for has time    *)
(* left, and IInv for the door that Close finds open.                        *)

Undisturbed ==
    /\ Events = {} => closer = "idle" /\ "lost" \notin excuse
    /\ pc = "opening" => left > 0

LEMMA StepUndisturbed == TypeOK /\ Undisturbed /\ [Next]_vars => Undisturbed'
  <1> SUFFICES ASSUME TypeOK, Undisturbed, [Next]_vars
               PROVE  Undisturbed'
    OBVIOUS
  <1> USE DEF TypeOK, Undisturbed, worker, relay
  <1>1. CASE Tick
    BY <1>1 DEF Tick, Running
  <1>2. ASSUME NEW c \in CloseAfter, AddTask(c)
        PROVE  Undisturbed'
    BY <1>2 DEF AddTask
  <1>3. CASE CheckStop
    BY <1>3 DEF CheckStop
  <1>4. CASE Dequeue
    BY <1>4 DEF Dequeue
  <1>5. CASE DropExpired
    BY <1>5 DEF DropExpired
  <1>6. CASE Serve
    BY <1>6 DEF Serve
  <1>7. CASE OpenDoor
    BY <1>7 DEF OpenDoor, SendData, MayFail
  <1>8. CASE EndSlot
    BY <1>8 DEF EndSlot
  <1>9. CASE CloseDoor
    BY <1>9 DEF CloseDoor, SendData, MayFail
  <1>10. CASE CloseSocket
    BY <1>10 DEF CloseSocket
  <1>11. CASE SetStop
    BY <1>11 DEF SetStop
  <1>12. CASE ClearQueue
    BY <1>12 DEF ClearQueue
  <1>13. CASE WakeUpAll
    BY <1>13 DEF WakeUpAll
  <1>14. CASE Join
    BY <1>14 DEF Join
  <1>15. CASE LinkChange
    BY <1>15 DEF LinkChange
  <1>16. CASE UNCHANGED vars
    BY <1>16 DEF vars
  <1>17. CASE ReportReturns \/ ReportThrows
    BY <1>17 DEF ReportReturns, ReportThrows
  <1> QED
    BY <1>1, <1>2, <1>3, <1>4, <1>5, <1>6, <1>7, <1>8, <1>9, <1>10, <1>11,
       <1>12, <1>13, <1>14, <1>15, <1>16, <1>17
    DEF Next, Worker, Closer

\* Every step of the worker, its clients and the clock is a step of the promise
\* or leaves it alone.
LEMMA StepKeepsPromise ==
    ASSUME Indirect, Events = {}, IInv, Undisturbed, [Next]_vars
    PROVE  [Promise!Next]_(Promise!vars)
  <1> DEFINE slot == IF pc = "sleeping" THEN left ELSE 0
  <1> USE DEF Promise!vars, worker, relay
  <1>same. ASSUME door' = door, slot' = slot
           PROVE  UNCHANGED Promise!vars
    BY <1>same
  <1>type. TypeOK
    BY DEF IInv
  <1>1. CASE Tick
    <2>1. CASE pc = "sleeping" /\ left > 0
      <3>1. Promise!Tick
        BY <1>1, <1>type, <2>1 DEF Tick, Running, Age, Promise!Tick, TypeOK
      <3> QED
        BY <3>1 DEF Promise!Next
    <2>2. CASE ~(pc = "sleeping" /\ left > 0)
      BY <1>1, <1>type, <1>same, <2>2 DEF Tick, Running, Age, TypeOK
    <2> QED
      BY <2>1, <2>2
  <1>2. ASSUME NEW c \in CloseAfter, AddTask(c)
        PROVE  UNCHANGED Promise!vars
    BY <1>2, <1>same DEF AddTask
  <1>3. CASE CheckStop
    BY <1>3, <1>same DEF CheckStop
  <1>4. CASE Dequeue
    BY <1>4, <1>same DEF Dequeue
  <1>5. CASE DropExpired
    BY <1>5, <1>same DEF DropExpired
  <1>6. CASE Serve
    BY <1>6, <1>same DEF Serve
  <1>7. CASE OpenDoor
    <2>1. Promise!Serve
      BY <1>7, <1>type DEF OpenDoor, SendData, MayFail, Undisturbed, TypeOK, Promise!Serve
    <2> QED
      BY <2>1 DEF Promise!Next
  <1>8. CASE EndSlot
    BY <1>8, <1>same DEF EndSlot
  <1>9. CASE CloseDoor
    <2>1. door = "open"
      BY <1>9 DEF CloseDoor, IInv, IndirectInv, Undisturbed
    <2>2. Promise!Close
      BY <1>9, <2>1 DEF CloseDoor, SendData, MayFail, Undisturbed, Promise!Close
    <2> QED
      BY <2>2 DEF Promise!Next
  <1>10. ~CloseSocket /\ ~Closer /\ ~LinkChange
    BY DEF CloseSocket, Closer, SetStop, ClearQueue, WakeUpAll, Join, LinkChange, Undisturbed
  <1>11. CASE UNCHANGED vars
    BY <1>11, <1>same DEF vars
  <1>12. ~ReportReturns /\ ~ReportThrows
    BY DEF ReportReturns, ReportThrows, IInv, FailedInv, Undisturbed
  <1> QED
    BY <1>1, <1>2, <1>3, <1>4, <1>5, <1>6, <1>7, <1>8, <1>9, <1>10, <1>11, <1>12
    DEF Next, Worker

\* The worker of an indirectly controlled door keeps the safety half of the
\* promise for every sequence of requests, expired ones included.
THEOREM WorkerKeepsPromise ==
    ASSUME Indirect, Events = {}
    PROVE  Spec => Promise!SafeSpec
  <1>1. Init => Promise!Init /\ Undisturbed
    BY DEF Init, Promise!Init, Undisturbed
  <1>2. Spec => []Undisturbed
    <2>1. IInv /\ Undisturbed /\ [Next]_vars => Undisturbed'
      BY StepUndisturbed DEF IInv
    <2> QED
      BY <1>1, <2>1, WorkerInv, PTL DEF Spec
  <1>3. IInv /\ Undisturbed /\ [Next]_vars => [Promise!Next]_(Promise!vars)
    BY StepKeepsPromise
  <1> QED
    BY <1>1, <1>2, <1>3, WorkerInv, PTL DEF Spec, Promise!SafeSpec
=============================================================================
