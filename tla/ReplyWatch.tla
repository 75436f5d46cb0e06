----------------------------- MODULE ReplyWatch ------------------------------
(***************************************************************************)
(* How the controllers of a switch notice that the relay does not answer.  *)
(*                                                                         *)
(* Every command is answered with a few bytes that name neither the        *)
(* command nor the channel, and all controllers of a switch read the same  *)
(* socket.  A worker that has written a command starts a read and a        *)
(* deadline, if its deadline is infinite; the io thread sets the deadline  *)
(* to infinity when a read ends and reports an error when one has passed.  *)
(* A new door of the switch may initialise a controller that is at work    *)
(* (the last one, see SwitchRouting): its deadline is infinite again,      *)
(* whatever its read does.                                                 *)
(*                                                                         *)
(* The socket is modelled with what boost::asio does: the reads wait in    *)
(* one queue, the first one takes all bytes that are there, and closing    *)
(* the socket ends all of them with an error their handlers still report.  *)
(* handleRWError is one step here, its interleavings are in Reconnect; of  *)
(* the reconnect timer there is the step that makes the connection and the *)
(* one that clears m_isTimerOn.  A worker writes whenever it likes.        *)
(***************************************************************************)
EXTENDS Integers, FiniteSets, Sequences

CONSTANTS
    Controllers,   \* the controllers of one switch
    Deadline,      \* the 30 seconds of set_read_ret_deadline, in ticks
    MaxDue         \* bound: commands and answers that are under way, waiting reads,
                   \* and ended reads of one controller, when a command is written

None == "none"

ASSUME ReplyAssumption ==
    /\ None \notin Controllers
    /\ Deadline \in Nat \ {0}
    /\ MaxDue \in Nat \ {0}

Infinity == Deadline + 1

VARIABLES
    conn,          \* "down", "up", or "broken": open, but the relay is gone
    m_isTimerOn,
    place,         \* where each worker is in sendData: "idle", or "test" at line 28
    expires,       \* what is left of each m_write_ret_deadline_timer
    reads,         \* the controllers whose reads wait at the socket, in order
    failed,        \* per controller, its ended reads whose handlers wait
    io,            \* the controller whose check_read_ret_deadline has reported
    due,           \* who wrote the commands the relay has not answered, in order
    replies,       \* the number of answers that wait at the socket
    mute,          \* history: whose command the relay will never answer
    excuse         \* history of this connection: "crowded" and "stale", see below,
                   \* "initAgain" after Init has reset a deadline that ran

socketVars == <<conn, m_isTimerOn, reads, failed, due, replies, mute>>
vars == <<socketVars, place, expires, io, excuse>>

Elements(seq) == {seq[i] : i \in DOMAIN seq}

Init ==
    /\ conn = "up"
    /\ m_isTimerOn = FALSE
    /\ place = [c \in Controllers |-> "idle"]
    /\ expires = [c \in Controllers |-> Infinity]
    /\ reads = <<>>
    /\ failed = [c \in Controllers |-> 0]
    /\ io = None
    /\ due = <<>>
    /\ replies = 0
    /\ mute = {}
    /\ excuse = {}

\* A command is written while the answer to another one is still to come or to be
\* read: answers can then be taken for each other's.
Crowded == due # <<>> \/ replies > 0 \/ mute # {} \/ reads # <<>>
           \/ \E c \in Controllers : place[c] # "idle"

\* Something of the last connection is still on its way when the next one is made.
Stale == io # None \/ \E c \in Controllers : failed[c] > 0 \/ place[c] # "idle"

Excuse(what, holds) == excuse' = IF holds THEN excuse \cup {what} ELSE excuse

\* The MQTT thread opens a new door: Init of the controller at the end of the map,
\* which may be another one than the new one and at work.
InitAgain(c) ==
    /\ expires' = [expires EXCEPT ![c] = Infinity]
    /\ Excuse("initAgain", expires[c] # Infinity)
    /\ UNCHANGED <<socketVars, place, io>>

-----------------------------------------------------------------------------
(* handleRWError, called when the reads in `left` wait                       *)

Ended(left) ==
    [c \in Controllers |-> Cardinality({i \in DOMAIN left : left[i] = c})]

HandleRWError(left, handled) ==
    \/ /\ m_isTimerOn
       /\ Excuse("stale", conn # "down")
       /\ reads' = left
       /\ failed' = handled
       /\ UNCHANGED <<conn, m_isTimerOn, due, replies, mute>>
    \/ /\ ~m_isTimerOn
       /\ conn' = "down"
       /\ m_isTimerOn' = TRUE
       /\ reads' = <<>>
       /\ failed' = [c \in Controllers |-> handled[c] + Ended(left)[c]]
       /\ due' = <<>>
       /\ replies' = 0
       /\ mute' = {}
       /\ UNCHANGED excuse

-----------------------------------------------------------------------------
(* sendData, by the worker of controller c                                   *)

\* On a broken connection a write may succeed, too.
Write(c) ==
    /\ place[c] = "idle"
    /\ conn # "down"
    /\ Len(due) + replies < MaxDue /\ failed[c] < MaxDue /\ Len(reads) <= MaxDue
    /\ place' = [place EXCEPT ![c] = "test"]
    /\ Excuse("crowded", Crowded)
    /\ IF conn = "up" THEN due' = Append(due, c) /\ UNCHANGED mute
                      ELSE mute' = mute \cup {c} /\ UNCHANGED due
    /\ UNCHANGED <<conn, m_isTimerOn, reads, failed, replies, expires, io>>

WriteFails(c) ==
    /\ place[c] = "idle"
    /\ conn # "up"
    /\ HandleRWError(reads, failed)
    /\ UNCHANGED <<place, expires, io>>

LostReadMutant(c) ==
    IF conn = "down" THEN UNCHANGED <<reads, failed>>
    ELSE reads' = Append(reads, c) /\ UNCHANGED failed
\* A read on a closed socket ends at once.
StartRead(c) ==
    IF conn = "down"
    THEN failed' = [failed EXCEPT ![c] = @ + 1] /\ UNCHANGED reads
    ELSE reads' = Append(reads, c) /\ UNCHANGED failed

\* Lines 28-31 and set_read_ret_deadline.
AlwaysReadMutant(c) ==
    /\ place[c] = "test"
    /\ place' = [place EXCEPT ![c] = "idle"]
    /\ expires' = [expires EXCEPT ![c] = Deadline]
    /\ Len(reads) < 3
    /\ StartRead(c)
    /\ UNCHANGED <<conn, m_isTimerOn, due, replies, mute, io, excuse>>
NoDeadlineMutant(c) ==
    /\ place[c] = "test"
    /\ place' = [place EXCEPT ![c] = "idle"]
    /\ UNCHANGED <<socketVars, expires, io, excuse>>
Test(c) ==
    /\ place[c] = "test"
    /\ place' = [place EXCEPT ![c] = "idle"]
    /\ IF expires[c] = Infinity
       THEN /\ expires' = [expires EXCEPT ![c] = Deadline]
            /\ StartRead(c)
       ELSE UNCHANGED <<expires, reads, failed>>
    /\ UNCHANGED <<conn, m_isTimerOn, due, replies, mute, io, excuse>>

SendData(c) == Write(c) \/ WriteFails(c) \/ Test(c)

-----------------------------------------------------------------------------
(* The io thread                                                             *)

KeepDeadlineMutant(c) == UNCHANGED expires
\* handle_read_ret and check_read_ret_deadline, both at the end of a wait.
SetInfinite(c) == expires' = [expires EXCEPT ![c] = Infinity]

\* handle_read_ret of a read that got an answer.
ReadOk ==
    /\ io = None
    /\ reads # <<>>
    /\ replies > 0
    /\ reads' = Tail(reads)
    /\ replies' = 0
    /\ SetInfinite(Head(reads))
    /\ UNCHANGED <<conn, m_isTimerOn, failed, due, mute, place, io, excuse>>

\* handle_read_ret of a read that ends with an error because the relay has gone.
ReadFails ==
    /\ io = None
    /\ reads # <<>>
    /\ conn = "broken"
    /\ SetInfinite(Head(reads))
    /\ HandleRWError(Tail(reads), failed)
    /\ UNCHANGED <<place, io>>

\* handle_read_ret of a read that ended because somebody closed the socket.
ReadAborted(c) ==
    /\ io = None
    /\ failed[c] > 0
    /\ SetInfinite(c)
    /\ HandleRWError(reads, [failed EXCEPT ![c] = @ - 1])
    /\ UNCHANGED <<place, io>>

\* check_read_ret_deadline of a deadline that has passed.
QuietCheckMutant(c) ==
    /\ io = None
    /\ expires[c] = 0
    /\ io' = c
    /\ UNCHANGED <<socketVars, place, expires, excuse>>
Check(c) ==
    /\ io = None
    /\ expires[c] = 0
    /\ io' = c
    /\ HandleRWError(reads, failed)
    /\ UNCHANGED <<place, expires>>

\* Its lines 112-113.
Reset ==
    /\ io # None
    /\ SetInfinite(io)
    /\ io' = None
    /\ UNCHANGED <<socketVars, place, excuse>>

IoThread ==
    \/ ReadOk \/ ReadFails \/ Reset
    \/ \E c \in Controllers : ReadAborted(c) \/ Check(c)

-----------------------------------------------------------------------------
(* The relay, the network, the reconnect timer and time                      *)

\* The relay takes the commands that have arrived and answers them at once: the
\* mock switch sends one answer for all bytes of one receive.
Answer ==
    /\ conn = "up"
    /\ \E n \in 1 .. Len(due) : due' = SubSeq(due, n + 1, Len(due))
    /\ replies' = replies + 1
    /\ UNCHANGED <<conn, m_isTimerOn, reads, failed, mute, place, expires, io, excuse>>

\* The relay never answers a command.
StayMute ==
    /\ conn = "up"
    /\ due # <<>>
    /\ due' = Tail(due)
    /\ mute' = mute \cup {Head(due)}
    /\ UNCHANGED <<conn, m_isTimerOn, reads, failed, replies, place, expires, io, excuse>>

Break ==
    /\ conn = "up"
    /\ conn' = "broken"
    /\ due' = <<>>
    /\ mute' = mute \cup Elements(due)
    /\ UNCHANGED <<m_isTimerOn, reads, failed, replies, place, expires, io, excuse>>

\* reconnect() succeeds; m_isTimerOn is cleared a step later.
Reconnect ==
    /\ conn = "down"
    /\ conn' = "up"
    /\ excuse' = IF Stale THEN {"stale"} ELSE {}
    /\ UNCHANGED <<m_isTimerOn, reads, failed, due, replies, mute, place, expires, io>>

Rearm ==
    /\ m_isTimerOn
    /\ conn # "down"
    /\ m_isTimerOn' = FALSE
    /\ UNCHANGED <<conn, reads, failed, due, replies, mute, place, expires, io, excuse>>

NoFloorMutant ==
    /\ expires' = [c \in Controllers |->
                      IF expires[c] = Infinity THEN Infinity ELSE expires[c] - 1]
    /\ UNCHANGED <<socketVars, place, io, excuse>>
\* A tick is longer than the timer needs to clear m_isTimerOn after it connected.
Tick ==
    /\ m_isTimerOn => conn = "down"
    /\ expires' = [c \in Controllers |->
                      IF expires[c] \in {0, Infinity} THEN expires[c] ELSE expires[c] - 1]
    /\ UNCHANGED <<socketVars, place, io, excuse>>

Next ==
    \/ \E c \in Controllers : SendData(c) \/ InitAgain(c)
    \/ IoThread
    \/ Answer \/ StayMute \/ Break \/ Reconnect \/ Rearm \/ Tick

Spec == Init /\ [][Next]_vars

\* Threads run and time passes; the relay and the network promise nothing.
FairSpec ==
    /\ Spec
    /\ WF_vars(IoThread)
    /\ WF_vars(Tick)
    /\ WF_vars(Rearm)
    /\ \A c \in Controllers : WF_vars(Test(c))

-----------------------------------------------------------------------------
(* Properties                                                                *)

\* Every variable stays in its range.
TypeOK ==
    /\ conn \in {"down", "up", "broken"}
    /\ m_isTimerOn \in BOOLEAN
    /\ place \in [Controllers -> {"idle", "test"}]
    /\ expires \in [Controllers -> 0 .. Infinity]
    /\ reads \in Seq(Controllers)
    /\ failed \in [Controllers -> Nat]
    /\ io \in Controllers \cup {None}
    /\ due \in Seq(Controllers)
    /\ replies \in Nat
    /\ mute \subseteq Controllers
    /\ excuse \subseteq {"crowded", "stale", "initAgain"}

\* A deadline never runs alone: its read waits at the socket, or the handler that
\* ends it waits for the io thread or is running.
DeadlineHasRead ==
    \A c \in Controllers :
        expires[c] # Infinity => c \in Elements(reads) \/ failed[c] > 0 \/ io = c

\* On a connection with nothing left over from the one before, no read waits
\* without a deadline, however the commands of the controllers mix, until Init
\* takes the deadline away.
ReadHasDeadline ==
    excuse \subseteq {"crowded"} => \A c \in Elements(reads) : expires[c] # Infinity

\* With one command at a time on a sound connection, a deadline that has passed is
\* one of a command whose answer nobody has read: the relay has not given it, or it
\* lies at the socket, where this controller's read is the one that will take it and
\* the io thread is late.  It is never the deadline of an answer that was read.
AlarmMeansUnread ==
    \A c \in Controllers :
        conn = "up" /\ expires[c] = 0 /\ excuse = {} =>
            c \in Elements(due) \cup mute \/ (replies > 0 /\ reads = <<c>>)

\* "No write needs an answer that has not come": that is what an infinite deadline
\* says, if there was one command at a time.
InfiniteMeansAnswered ==
    \A c \in Controllers :
        conn # "down" /\ expires[c] = Infinity /\ place[c] = "idle" /\ excuse = {} =>
            c \notin Elements(due) \cup mute

\* Whether an answer comes, gets lost or goes to somebody else, no read waits for
\* ever: it ends, or its deadline closes the socket, unless the connection is stale
\* or Init has taken a deadline away.
ReadEnds ==
    \A c \in Controllers :
        c \in Elements(reads) ~> c \notin Elements(reads) \/ ~(excuse \subseteq {"crowded"})
=============================================================================
