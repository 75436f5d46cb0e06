---------------------------- MODULE SwitchRouting ----------------------------
(***************************************************************************)
(* How an open-door request finds its door: DoorSwitchEngine keeps one     *)
(* DoorSwitchHandler per switch, a handler keeps one                       *)
(* DoorSwitchChannelController per channel, and both are created when the  *)
(* first request that needs them arrives.                                  *)
(*                                                                         *)
(* The maps are std::map: their keys are ordered, and crbegin() is the     *)
(* entry with the greatest key, which need not be the one just inserted.   *)
(*                                                                         *)
(* The MQTT thread creates and enqueues; the workers run meanwhile and     *)
(* read m_channel whenever they write a command.  The loop of a worker is  *)
(* that of ChannelWorker without its clock: a task may have expired when   *)
(* it is taken, and a sleep may end at any time.  Requests that name an    *)
(* unknown switch or a channel it does not have change nothing, and those  *)
(* that cannot be parsed neither.                                          *)
(*                                                                         *)
(* handleRWError changes the handler in one step here; its interleavings   *)
(* are in Reconnect.  A worker that has called it may be kept there, for   *)
(* ever or until an exception ends the worker.  What Init does to the      *)
(* reply deadline of a controller at work is in ReplyWatch.                *)
(***************************************************************************)
EXTENDS Integers

CONSTANTS
    Switches,    \* m_config.m_mapOidSwitchInfo: the oids, in the order of the map
    NbChannels,  \* SwitchInfo::channels of each switch
    SwitchType,  \* SwitchInfo::type of each switch
    BadIp,       \* the switches whose SwitchInfo::ip is no address
    MaxQueue     \* bound: tasks that pile up in one queue

SwitchTypes == {"DIRECT_CONTROL_SWITCH", "INDIRECT_CONTROL_SWITCH"}

ASSUME RoutingAssumption ==
    /\ Switches \subseteq Nat
    /\ NbChannels \in [Switches -> Nat]
    /\ SwitchType \in [Switches -> SwitchTypes]
    /\ BadIp \subseteq Switches
    /\ MaxQueue \in Nat \ {0}

Channels == UNION {1 .. NbChannels[s] : s \in Switches}
Indirect(s) == SwitchType[s] = "INDIRECT_CONTROL_SWITCH"

VARIABLES
    handlers,       \* the keys of m_mapOidSwitchHandler
    m_isConnected,  \* per switch
    retry,          \* per switch, the reconnect timer: "off", "trying", or "ending"
                    \* when it has connected and m_isTimerOn is still set
    missed,         \* history: the switches whose last report was dismissed while
                    \* the timer was ending
    controllers,    \* per switch, the keys of m_mapControllers
    m_channel,      \* per controller, the channel its commands name
    started,        \* per switch, the controllers whose thread runs
    taskQue,        \* per controller, the number of tasks that wait
    serving,        \* per switch, the controllers asleep in a task
    bNotiInQ,       \* per switch, the controllers whose next task follows another
    reporting,      \* per switch, the controllers whose worker is in handleRWError
    ended,          \* per switch, the controllers whose worker an exception ended
    open,           \* per switch, the doors that are open
    mqtt,           \* where the MQTT thread is in onRecvMqttMessage
    aborted,        \* an exception has left the MQTT thread or the io thread
    disorder,       \* history: whether a handler was inserted below another one,
                    \* and the switches where a controller was
    excused         \* history: the doors whose last close command got lost, whose
                    \* last follower was dropped, or whose worker was ended

links   == <<m_isConnected, retry, missed>>
created == <<controllers, m_channel, started>>
workers == <<taskQue, serving, bNotiInQ, reporting, ended>>
state   == <<handlers, links, created, workers, open, mqtt, disorder, excused>>
vars    == <<state, aborted>>

Idle == [at |-> "idle", handler |-> 0, channel |-> 0]

Init ==
    /\ handlers = {}
    /\ m_isConnected = [s \in Switches |-> FALSE]
    /\ retry = [s \in Switches |-> "off"]
    /\ missed = {}
    /\ controllers = [s \in Switches |-> {}]
    /\ m_channel = [s \in Switches |-> [c \in Channels |-> 1]]
    /\ started = [s \in Switches |-> {}]
    /\ taskQue = [s \in Switches |-> [c \in Channels |-> 0]]
    /\ serving = [s \in Switches |-> {}]
    /\ bNotiInQ = [s \in Switches |-> {}]
    /\ reporting = [s \in Switches |-> {}]
    /\ ended = [s \in Switches |-> {}]
    /\ open = [s \in Switches |-> {}]
    /\ mqtt = Idle
    /\ aborted = FALSE
    /\ disorder = [switch |-> FALSE, channel |-> {}]
    /\ excused = [s \in Switches |-> {}]

-----------------------------------------------------------------------------
(* The MQTT thread                                                           *)

\* k is the key crbegin() of a map with these keys points to.
IsLastMutant(k, keys) == k \in keys
IsLast(k, keys) == k \in keys /\ \A other \in keys : other <= k

\* DoorSwitchEngine::onRecvMqttMessage up to the lookup of the handler.  A switch
\* that is asked for the first time gets a handler, and the thread goes on with
\* the last handler of the map.
FoundMutant(s, c) ==
    /\ mqtt.at = "idle"
    /\ c \in 1 .. NbChannels[s]
    /\ handlers' = handlers \cup {s}
    /\ mqtt' = [at |-> "openDoor", handler |-> s, channel |-> c]
    /\ UNCHANGED <<links, created, workers, open, disorder, excused>>
Receive(s, c) ==
    /\ mqtt.at = "idle"
    /\ c \in 1 .. NbChannels[s]
    /\ \/ /\ s \in handlers
          /\ mqtt' = [at |-> "openDoor", handler |-> s, channel |-> c]
          /\ UNCHANGED <<handlers, disorder>>
       \/ /\ s \notin handlers \cup BadIp
          /\ handlers' = handlers \cup {s}
          /\ \E last \in Switches :
                /\ IsLast(last, handlers')
                /\ mqtt' = [at |-> "connect", handler |-> last, channel |-> c]
          /\ disorder' = [disorder EXCEPT !.switch = @ \/ ~IsLast(s, handlers')]
    /\ UNCHANGED <<links, created, workers, open, excused>>

\* DoorSwitchHandler::connect.  Connecting a socket that is connected already is
\* an error like any other: the socket is closed and the timer started.
Connect ==
    LET h == mqtt.handler IN
    /\ mqtt.at = "connect"
    /\ \/ /\ ~m_isConnected[h]
          /\ m_isConnected' = [m_isConnected EXCEPT ![h] = TRUE]
          /\ mqtt' = [mqtt EXCEPT !.at = "openDoor"]
          /\ UNCHANGED retry
       \/ /\ m_isConnected' = [m_isConnected EXCEPT ![h] = FALSE]
          /\ retry' = [retry EXCEPT ![h] = "trying"]
          /\ mqtt' = Idle
    /\ missed' = missed \ {h}
    /\ UNCHANGED <<handlers, created, workers, open, disorder, excused>>

\* One more task at controller c of handler h.
AddTask(h, c) ==
    /\ taskQue[h][c] < MaxQueue
    /\ taskQue' = [taskQue EXCEPT ![h][c] = @ + 1]

\* DoorSwitchHandler::openDoor up to the insertion of the controller, and all of
\* it when the switch is not connected or the channel has its controller.
OpenDoor ==
    LET h == mqtt.handler
        c == mqtt.channel
    IN
    /\ mqtt.at = "openDoor"
    /\ \/ /\ ~m_isConnected[h]
          /\ mqtt' = Idle
          /\ UNCHANGED <<controllers, taskQue, disorder>>
       \/ /\ m_isConnected[h]
          /\ c \in controllers[h]
          /\ AddTask(h, c)
          /\ mqtt' = Idle
          /\ UNCHANGED <<controllers, disorder>>
       \/ /\ m_isConnected[h]
          /\ c \notin controllers[h]
          /\ controllers' = [controllers EXCEPT ![h] = @ \cup {c}]
          /\ mqtt' = [mqtt EXCEPT !.at = "init"]
          /\ disorder' = IF IsLast(c, controllers'[h]) THEN disorder
                         ELSE [disorder EXCEPT !.channel = @ \cup {h}]
          /\ UNCHANGED taskQue
    /\ UNCHANGED <<handlers, links, m_channel, started, serving, bNotiInQ, reporting,
                   ended, open, excused>>

\* Line 78: Init of the last controller of the map.  Besides m_channel it resets
\* the reply deadline of that controller (InitAgain of ReplyWatch).
InitController ==
    /\ mqtt.at = "init"
    /\ \E last \in controllers[mqtt.handler] :
          /\ IsLast(last, controllers[mqtt.handler])
          /\ m_channel' = [m_channel EXCEPT ![mqtt.handler][last] = mqtt.channel]
    /\ mqtt' = [mqtt EXCEPT !.at = "start"]
    /\ UNCHANGED <<handlers, links, controllers, started, workers, open, disorder, excused>>

\* Lines 84-87: Start and addTask of the last controller of the map.  A thread
\* that runs is not started again, one that has ended is.
NoStartMutant ==
    /\ mqtt.at = "start"
    /\ \E last \in controllers[mqtt.handler] :
          /\ IsLast(last, controllers[mqtt.handler])
          /\ AddTask(mqtt.handler, last)
    /\ mqtt' = Idle
    /\ UNCHANGED <<handlers, links, created, serving, bNotiInQ, reporting, ended, open,
                   disorder, excused>>
StartController ==
    /\ mqtt.at = "start"
    /\ \E last \in controllers[mqtt.handler] :
          /\ IsLast(last, controllers[mqtt.handler])
          /\ started' = [started EXCEPT ![mqtt.handler] = @ \cup {last}]
          /\ ended' = [ended EXCEPT ![mqtt.handler] = @ \ {last}]
          /\ AddTask(mqtt.handler, last)
    /\ mqtt' = Idle
    /\ UNCHANGED <<handlers, links, controllers, m_channel, serving, bNotiInQ,
                   reporting, open, disorder, excused>>

Mqtt == Connect \/ OpenDoor \/ InitController \/ StartController

-----------------------------------------------------------------------------
(* handleRWError: the flag is cleared in any case, the timer started unless  *)
(* m_isTimerOn is set; if the timer is ending then, nobody retries.          *)

HandleRWError(s) ==
    /\ m_isConnected' = [m_isConnected EXCEPT ![s] = FALSE]
    /\ retry' = [retry EXCEPT ![s] = IF @ = "ending" THEN @ ELSE "trying"]
    /\ missed' = IF retry[s] = "ending" THEN missed \cup {s} ELSE missed \ {s}

-----------------------------------------------------------------------------
(* The workers                                                               *)

\* A command of controller c does not arrive: it is lost behind a write that
\* succeeds, or the write fails.
Lost(s, c) ==
    \/ UNCHANGED <<links, reporting>>
    \/ /\ HandleRWError(s)
       /\ reporting' = [reporting EXCEPT ![s] = @ \cup {c}]

Opens(s, c) ==
    /\ \/ /\ open' = [open EXCEPT ![s] = @ \cup {m_channel[s][c]}]
          /\ UNCHANGED <<links, reporting>>
       \/ Lost(s, c) /\ UNCHANGED open
    /\ UNCHANGED excused
Closes(s, c) ==
    LET d == m_channel[s][c] IN
    \/ /\ open' = [open EXCEPT ![s] = @ \ {d}]
       /\ excused' = [excused EXCEPT ![s] = @ \ {d}]
       /\ UNCHANGED <<links, reporting>>
    \/ /\ excused' = [excused EXCEPT ![s] = @ \cup {d}]
       /\ Lost(s, c) /\ UNCHANGED open

WritesNothing == UNCHANGED <<links, reporting, open, excused>>

\* The worker takes a task that waits for it.
TakesMutant(s, c) ==
    /\ c \in started[s] \ (serving[s] \cup reporting[s] \cup ended[s])
    /\ taskQue' = [taskQue EXCEPT ![s][c] = @ - 1]
Takes(s, c) ==
    /\ c \in started[s] \ (serving[s] \cup reporting[s] \cup ended[s])
    /\ taskQue[s][c] > 0
    /\ taskQue' = [taskQue EXCEPT ![s][c] = @ - 1]

SetFlag(s, c, value) ==
    bNotiInQ' = [bNotiInQ EXCEPT ![s] = IF value THEN @ \cup {c} ELSE @ \ {c}]

\* ChannelController lines 93-100.
DropExpired(s, c) ==
    /\ Takes(s, c)
    /\ SetFlag(s, c, taskQue'[s][c] > 0)
    /\ excused' = IF Indirect(s) THEN excused
                  ELSE [excused EXCEPT ![s] = @ \cup {m_channel[s][c]}]
    /\ UNCHANGED <<handlers, links, created, serving, reporting, ended, open, mqtt, disorder>>

\* Lines 104-107 and 114-118.
Serve(s, c) ==
    /\ Takes(s, c)
    /\ serving' = [serving EXCEPT ![s] = @ \cup {c}]
    /\ IF Indirect(s) \/ c \notin bNotiInQ[s] THEN Opens(s, c) ELSE WritesNothing
    /\ UNCHANGED <<handlers, created, bNotiInQ, ended, mqtt, disorder>>

\* Lines 108-109 and 119-123.
NeverCloseMutant(s, c) ==
    /\ c \in serving[s] \ reporting[s]
    /\ serving' = [serving EXCEPT ![s] = @ \ {c}]
    /\ SetFlag(s, c, FALSE)
    /\ WritesNothing
    /\ UNCHANGED <<handlers, created, taskQue, ended, mqtt, disorder>>
EndTask(s, c) ==
    /\ c \in serving[s] \ reporting[s]
    /\ serving' = [serving EXCEPT ![s] = @ \ {c}]
    /\ SetFlag(s, c, ~Indirect(s) /\ taskQue[s][c] > 0)
    /\ IF Indirect(s) \/ taskQue[s][c] = 0 THEN Closes(s, c) ELSE WritesNothing
    /\ UNCHANGED <<handlers, created, taskQue, ended, mqtt, disorder>>

Work(s, c) == DropExpired(s, c) \/ Serve(s, c) \/ EndTask(s, c)

\* handleRWError returns to the worker, or Timer::start ends it with an exception.
ReportReturns(s, c) ==
    /\ c \in reporting[s]
    /\ reporting' = [reporting EXCEPT ![s] = @ \ {c}]
    /\ UNCHANGED <<handlers, links, created, taskQue, serving, bNotiInQ, ended, open, mqtt,
                   disorder, excused>>
ReportThrows(s, c) ==
    /\ c \in reporting[s]
    /\ reporting' = [reporting EXCEPT ![s] = @ \ {c}]
    /\ ended' = [ended EXCEPT ![s] = @ \cup {c}]
    /\ serving' = [serving EXCEPT ![s] = @ \ {c}]
    /\ SetFlag(s, c, FALSE)
    /\ excused' = [excused EXCEPT ![s] = @ \cup {m_channel[s][c]}]
    /\ UNCHANGED <<handlers, links, created, taskQue, open, mqtt, disorder>>

-----------------------------------------------------------------------------
(* The connections.  The io thread notices a loss by the read of a           *)
(* controller that has written.  The timer also fires when connect() has     *)
(* succeeded meanwhile, and then undoes it; an attempt that fails changes    *)
(* nothing.                                                                  *)

LinkLost(s) ==
    /\ started[s] # {}
    /\ HandleRWError(s)
    /\ UNCHANGED <<handlers, created, workers, open, mqtt, disorder, excused>>

OnReconnTimer(s) ==
    /\ \/ /\ retry[s] = "trying"
          /\ m_isConnected' = [m_isConnected EXCEPT ![s] = ~@]
          /\ retry' = [retry EXCEPT ![s] = IF m_isConnected[s] THEN "trying" ELSE "ending"]
       \/ /\ retry[s] = "ending"
          /\ retry' = [retry EXCEPT ![s] = "off"]
          /\ UNCHANGED m_isConnected
    /\ UNCHANGED <<handlers, missed, created, workers, open, mqtt, disorder, excused>>

-----------------------------------------------------------------------------
(* The program                                                               *)

Runs(Step) == ~aborted /\ Step /\ UNCHANGED aborted

\* The constructor of a handler parses the address of its switch and throws if it
\* cannot; nothing in the MQTT thread catches that.
BadAddress(s, c) ==
    /\ ~aborted
    /\ mqtt.at = "idle"
    /\ c \in 1 .. NbChannels[s]
    /\ s \in BadIp \ handlers
    /\ aborted' = TRUE
    /\ UNCHANGED state

\* The assertion of Timer::start fails in the io thread, or in the MQTT thread that
\* connects a handler at work again: several threads use the timer of a handler that
\* has workers.
StartFails(s) ==
    /\ ~aborted
    /\ started[s] # {}
    /\ aborted' = TRUE
    /\ UNCHANGED state

Next ==
    \/ Runs(Mqtt)
    \/ \E s \in Switches, c \in Channels :
          \/ Runs(Receive(s, c)) \/ Runs(Work(s, c))
          \/ Runs(ReportReturns(s, c)) \/ Runs(ReportThrows(s, c))
          \/ BadAddress(s, c)
    \/ \E s \in Switches :
          Runs(LinkLost(s)) \/ Runs(OnReconnTimer(s)) \/ StartFails(s)

Spec == Init /\ [][Next]_vars

\* The operating system runs every worker that can go on.  Nothing makes
\* handleRWError return: it may wait in Timer::stop, in the MQTT thread, too.
FairSpec ==
    /\ Spec
    /\ \A s \in Switches, c \in Channels : WF_vars(Runs(Work(s, c)))

-----------------------------------------------------------------------------
(* Properties                                                                *)

Places == {"idle", "connect", "openDoor", "init", "start"}

MqttType ==
    /\ mqtt \in [at : Places, handler : Nat, channel : Nat]
    /\ mqtt.at # "idle" => mqtt.handler \in handlers /\ mqtt.channel \in Channels

LinksType ==
    /\ m_isConnected \in [Switches -> BOOLEAN]
    /\ retry \in [Switches -> {"off", "trying", "ending"}]
    /\ missed \subseteq Switches

ControllersType ==
    /\ controllers \in [Switches -> SUBSET Channels]
    /\ m_channel \in [Switches -> [Channels -> Nat]]
    /\ started \in [Switches -> SUBSET Channels]

WorkersType ==
    /\ taskQue \in [Switches -> [Channels -> Nat]]
    /\ serving \in [Switches -> SUBSET Channels]
    /\ bNotiInQ \in [Switches -> SUBSET Channels]
    /\ reporting \in [Switches -> SUBSET Channels]
    /\ ended \in [Switches -> SUBSET Channels]

\* Every variable stays in its range; the thread works for an existing handler.
TypeOK ==
    /\ handlers \subseteq Switches
    /\ LinksType
    /\ ControllersType
    /\ WorkersType
    /\ open \in [Switches -> SUBSET Nat]
    /\ MqttType
    /\ aborted \in BOOLEAN
    /\ disorder \in [switch : BOOLEAN, channel : SUBSET Switches]
    /\ excused \in [Switches -> SUBSET Nat]

\* The MQTT thread is about to set up controller c of switch s.
InCreation(s, c) ==
    /\ mqtt.at \in {"init", "start"}
    /\ mqtt.handler = s
    /\ IsLast(c, controllers[s])

\* If the channels of a switch were asked for in ascending order, then every one
\* of its controllers has been started and controls the door it was created for.
ControllersInOrder ==
    \A s \in Switches \ disorder.channel : \A c \in controllers[s] :
        InCreation(s, c) \/ (c \in started[s] /\ m_channel[s][c] = c)

\* A switch that somebody works on, or whose connection stands.
Linked(s) ==
    \/ m_isConnected[s] \/ retry[s] # "off"
    \/ mqtt.at = "connect" /\ mqtt.handler = s

\* If the switches were asked for in ascending order, then every handler is
\* connected or tries to be, unless a report was dismissed while its timer was
\* ending, and no controller names a channel the switch lacks.
HandlersInOrder ==
    ~disorder.switch =>
        \A s \in handlers :
            /\ Linked(s) \/ s \in missed
            /\ controllers[s] \subseteq 1 .. NbChannels[s]

\* As long as no controller was set up for another one's door, a door is only open
\* while its worker serves somebody or knows that somebody follows, unless its
\* close command was lost, its last follower dropped as expired or its worker ended
\* by an exception.
DoorsFollowWorkers ==
    \A s \in Switches \ disorder.channel :
        open[s] \subseteq serving[s] \cup bNotiInQ[s] \cup excused[s]

\* A controller whose creation set up another one is never started afterwards:
\* its tasks, accepted with ERR_OK, wait for ever.
Stranded(s, c) == c \in controllers[s] \ started[s] /\ ~InCreation(s, c)
StrandedForEver ==
    [][\A s \in Switches : \A c \in Channels : Stranded(s, c) => Stranded(s, c)']_vars

\* A handler whose creation connected another one is never connected afterwards:
\* every request for its switch fails.  It has no worker whose report could start the
\* timer.
Orphan(s) == s \in handlers /\ ~Linked(s) /\ started[s] = {}
OrphanForEver == [][\A s \in Switches : Orphan(s) => Orphan(s)']_vars

\* A task accepted for a switch whose channels came in ascending order is taken
\* by the worker of its door, unless the report of a failed write keeps or ends the
\* worker, or an exception the program.
AcceptedIsTaken ==
    \A s \in Switches : \A c \in Channels :
        []<>(c \notin reporting[s] \cup ended[s]) =>
            (taskQue[s][c] > 0
                ~> (taskQue[s][c] = 0 \/ c \in serving[s] \/ s \in disorder.channel \/ aborted))

\* What the headers say without exception.  "One DoorSwitchChannelController
\* controls one specific door": the one it was created for.
OneDoorPerController ==
    \A s \in Switches : \A c \in started[s] : m_channel[s][c] = c

\* "One DoorSwitchHandler controls one switch": once the first request for it has
\* been handled, the handler is connected to it or tries to be, a dismissed report
\* excepted.
HandlerControlsItsSwitch ==
    mqtt.at = "idle" => \A s \in handlers : Linked(s) \/ s \in missed
=============================================================================
