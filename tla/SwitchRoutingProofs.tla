------------------------- MODULE SwitchRoutingProofs -------------------------
(***************************************************************************)
(* What the maps of the engine and of its handlers guarantee for any       *)
(* number of switches and channels: where a request arrives when switches  *)
(* and channels are first asked for in ascending order, and what is lost   *)
(* for good when they are not.                                             *)
(***************************************************************************)
EXTENDS SwitchRouting, TLAPS

-----------------------------------------------------------------------------
(* Type correctness                                                          *)

LEMMA ChannelsAreNumbers ==
    /\ Channels \subseteq Nat
    /\ \A s \in Switches : 1 .. NbChannels[s] \subseteq Channels
  <1>1. ASSUME NEW c \in Channels
        PROVE  c \in Nat
    <2>1. PICK s \in Switches : c \in 1 .. NbChannels[s]
      BY DEF Channels
    <2>2. NbChannels[s] \in Nat
      BY RoutingAssumption
    <2> QED
      BY <2>1, <2>2
  <1>2. ASSUME NEW s \in Switches
        PROVE  1 .. NbChannels[s] \subseteq Channels
    BY DEF Channels
  <1> QED
    BY <1>1, <1>2

LEMMA TypeInit == Init => TypeOK
  <1> SUFFICES ASSUME Init
               PROVE  TypeOK
    OBVIOUS
  <1>1. ControllersType /\ WorkersType
    BY DEF Init, ControllersType, WorkersType
  <1>2. MqttType
    BY DEF Init, MqttType, Idle, Places
  <1>3. LinksType
    BY DEF Init, LinksType
  <1> QED
    BY <1>1, <1>2, <1>3 DEF Init, TypeOK

\* What a report does to the connections.
LEMMA ReportLinks ==
    ASSUME LinksType, NEW s \in Switches, HandleRWError(s)
    PROVE  /\ LinksType'
           /\ ~m_isConnected'[s]
           /\ retry[s] = "ending" => retry'[s] = "ending" /\ missed' = missed \cup {s}
           /\ retry[s] # "ending" => retry'[s] = "trying" /\ missed' = missed \ {s}
           /\ \A t \in Switches \ {s} :
                 m_isConnected'[t] = m_isConnected[t] /\ retry'[t] = retry[t]
  BY DEF LinksType, HandleRWError

\* A step of a worker leaves the connections alone or reports to its handler.
LEMMA WorkLinks ==
    ASSUME NEW s \in Switches, NEW c \in Channels, Work(s, c)
    PROVE  \/ UNCHANGED <<links, reporting>>
           \/ HandleRWError(s) /\ reporting' = [reporting EXCEPT ![s] = @ \cup {c}]
  <1>1. CASE DropExpired(s, c)
    BY <1>1 DEF DropExpired
  <1>2. CASE Serve(s, c)
    BY <1>2 DEF Serve, Opens, Lost, WritesNothing
  <1>3. CASE EndTask(s, c)
    BY <1>3 DEF EndTask, Closes, Lost, WritesNothing
  <1> QED
    BY <1>1, <1>2, <1>3 DEF Work

\* A step of a worker keeps the types.
LEMMA WorkKeepsType ==
    ASSUME TypeOK, UNCHANGED aborted, NEW s \in Switches, NEW c \in Channels, Work(s, c)
    PROVE  TypeOK'
  <1>d. m_channel[s][c] \in Nat
    BY DEF TypeOK, ControllersType
  <1>n. /\ taskQue[s][c] > 0 => taskQue[s][c] - 1 \in Nat
        /\ taskQue[s] \in [Channels -> Nat]
    BY DEF TypeOK, WorkersType
  <1>1. WorkersType'
    <2>1. taskQue' \in [Switches -> [Channels -> Nat]]
      <3>1. taskQue' = taskQue \/ Takes(s, c)
        BY DEF Work, DropExpired, Serve, EndTask
      <3>2. CASE Takes(s, c)
        <4>1. taskQue' = [taskQue EXCEPT ![s] = [taskQue[s] EXCEPT ![c] = taskQue[s][c] - 1]]
          BY <3>2, <1>n DEF Takes, TypeOK, WorkersType
        <4> QED
          BY <4>1, <3>2, <1>n DEF Takes, TypeOK, WorkersType
      <3> QED
        BY <3>1, <3>2 DEF TypeOK, WorkersType
    <2>2. serving' \in [Switches -> SUBSET Channels]
      BY DEF Work, DropExpired, Serve, EndTask, TypeOK, WorkersType
    <2>3. bNotiInQ' = bNotiInQ \/ SetFlag(s, c, TRUE) \/ SetFlag(s, c, FALSE)
      BY DEF Work, DropExpired, Serve, EndTask, SetFlag
    <2>4. bNotiInQ' \in [Switches -> SUBSET Channels]
      <3>1. bNotiInQ \in [Switches -> SUBSET Channels]
        BY DEF TypeOK, WorkersType
      <3> QED
        BY <2>3, <3>1 DEF SetFlag
    <2>5. reporting' \in [Switches -> SUBSET Channels]
      BY WorkLinks DEF TypeOK, WorkersType
    <2>6. ended' = ended
      BY DEF Work, DropExpired, Serve, EndTask
    <2> QED
      BY <2>1, <2>2, <2>4, <2>5, <2>6 DEF TypeOK, WorkersType
  <1>2. open' \in [Switches -> SUBSET Nat] /\ excused' \in [Switches -> SUBSET Nat]
    <2>1. CASE DropExpired(s, c)
      BY <1>d, <2>1 DEF DropExpired, TypeOK
    <2>2. CASE Serve(s, c)
      BY <1>d, <2>2 DEF Serve, Opens, WritesNothing, TypeOK
    <2>3. CASE EndTask(s, c)
      BY <1>d, <2>3 DEF EndTask, Closes, WritesNothing, TypeOK
    <2> QED
      BY <2>1, <2>2, <2>3 DEF Work
  <1>3. UNCHANGED <<handlers, created, mqtt, disorder>>
    BY DEF Work, DropExpired, Serve, EndTask
  <1>4. LinksType'
    <2>1. LinksType
      BY DEF TypeOK
    <2>2. CASE UNCHANGED links
      BY <2>1, <2>2 DEF LinksType, links
    <2> QED
      BY <2>1, <2>2, WorkLinks, ReportLinks
  <1> QED
    BY <1>1, <1>2, <1>3, <1>4 DEF TypeOK, ControllersType, MqttType, created

\* The end of a report keeps them.
LEMMA ReportKeepsType ==
    ASSUME TypeOK, UNCHANGED aborted, NEW s \in Switches, NEW c \in Channels,
           ReportReturns(s, c) \/ ReportThrows(s, c)
    PROVE  TypeOK'
  <1>1. WorkersType'
    <2>1. CASE ReportReturns(s, c)
      BY <2>1 DEF ReportReturns, TypeOK, WorkersType
    <2>2. CASE ReportThrows(s, c)
      BY <2>2 DEF ReportThrows, SetFlag, TypeOK, WorkersType
    <2> QED
      BY <2>1, <2>2
  <1>2. excused' \in [Switches -> SUBSET Nat]
    <2>1. m_channel[s][c] \in Nat
      BY DEF TypeOK, ControllersType
    <2>2. \/ excused' = excused
          \/ excused' = [excused EXCEPT ![s] = @ \cup {m_channel[s][c]}]
      BY DEF ReportReturns, ReportThrows
    <2> QED
      BY <2>1, <2>2 DEF TypeOK
  <1>3. UNCHANGED <<handlers, links, created, open, mqtt, disorder>>
    BY DEF ReportReturns, ReportThrows
  <1> QED
    BY <1>1, <1>2, <1>3 DEF TypeOK, LinksType, ControllersType, MqttType, links, created

\* A step of the MQTT thread keeps the types.
LEMMA MqttKeepsType ==
    ASSUME TypeOK, UNCHANGED aborted, Mqtt
    PROVE  TypeOK'
  <1>1. mqtt.at # "idle" /\ mqtt.handler \in Switches /\ mqtt.channel \in Channels
    BY DEF Mqtt, Connect, OpenDoor, InitController, StartController, TypeOK, MqttType
  <1>2. LinksType'
    BY DEF Mqtt, Connect, OpenDoor, InitController, StartController, TypeOK, LinksType, links
  <1>3. ControllersType'
    <2>1. controllers' \in [Switches -> SUBSET Channels]
      BY <1>1 DEF Mqtt, Connect, OpenDoor, InitController, StartController, TypeOK,
                  created, ControllersType
    <2>2. m_channel' \in [Switches -> [Channels -> Nat]]
      <3>1. CASE UNCHANGED m_channel
        BY <3>1 DEF TypeOK, ControllersType
      <3>2. CASE InitController
        <4>1. PICK last \in controllers[mqtt.handler] :
                 m_channel' = [m_channel EXCEPT ![mqtt.handler][last] = mqtt.channel]
          BY <3>2 DEF InitController
        <4>2. last \in Channels /\ mqtt.channel \in Nat
          BY <1>1, ChannelsAreNumbers DEF TypeOK, ControllersType
        <4> QED
          BY <1>1, <4>1, <4>2 DEF TypeOK, ControllersType
      <3> QED
        BY <3>1, <3>2 DEF Mqtt, Connect, OpenDoor, StartController, created
    <2>3. started' \in [Switches -> SUBSET Channels]
      <3>1. CASE UNCHANGED started
        BY <3>1 DEF TypeOK, ControllersType
      <3>2. CASE StartController
        BY <1>1, <3>2 DEF StartController, TypeOK, ControllersType
      <3> QED
        BY <3>1, <3>2 DEF Mqtt, Connect, OpenDoor, InitController, created
    <2> QED
      BY <2>1, <2>2, <2>3 DEF ControllersType
  <1>4. WorkersType'
    <2>1. UNCHANGED <<serving, bNotiInQ, reporting>>
      BY DEF Mqtt, Connect, OpenDoor, InitController, StartController, workers
    <2>4. ended' \in [Switches -> SUBSET Channels]
      BY <1>1 DEF Mqtt, Connect, OpenDoor, InitController, StartController, workers, TypeOK,
                  WorkersType
    <2>2. taskQue' = taskQue \/ \E c \in Channels : AddTask(mqtt.handler, c)
      BY <1>1 DEF Mqtt, Connect, OpenDoor, InitController, StartController, workers,
                  TypeOK, ControllersType
    <2>3. ASSUME NEW c \in Channels, AddTask(mqtt.handler, c)
          PROVE  taskQue' \in [Switches -> [Channels -> Nat]]
      BY <1>1, <2>3 DEF AddTask, TypeOK, WorkersType
    <2> QED
      BY <2>1, <2>2, <2>3, <2>4 DEF TypeOK, WorkersType
  <1>5. MqttType' /\ handlers' = handlers
    <2>1. mqtt' = Idle \/ \E at \in Places : mqtt' = [mqtt EXCEPT !.at = at]
      BY DEF Mqtt, Connect, OpenDoor, InitController, StartController, Places
    <2>2. handlers' = handlers
      BY DEF Mqtt, Connect, OpenDoor, InitController, StartController
    <2> QED
      BY <1>1, <2>1, <2>2 DEF TypeOK, MqttType, Idle, Places
  <1>6. disorder' \in [switch : BOOLEAN, channel : SUBSET Switches]
    BY <1>1 DEF Mqtt, Connect, OpenDoor, InitController, StartController, TypeOK
  <1>7. UNCHANGED <<open, excused>>
    BY DEF Mqtt, Connect, OpenDoor, InitController, StartController
  <1> QED
    BY <1>2, <1>3, <1>4, <1>5, <1>6, <1>7 DEF TypeOK

\* A request that arrives keeps the types.
LEMMA ReceiveKeepsType ==
    ASSUME TypeOK, UNCHANGED aborted, NEW s \in Switches, NEW c \in Channels, Receive(s, c)
    PROVE  TypeOK'
  <1>1. handlers' \subseteq Switches /\ MqttType'
    BY ChannelsAreNumbers, RoutingAssumption
    DEF Receive, TypeOK, MqttType, Places, IsLast
  <1>2. disorder' \in [switch : BOOLEAN, channel : SUBSET Switches]
    BY DEF Receive, TypeOK
  <1> QED
    BY <1>1, <1>2
    DEF Receive, TypeOK, LinksType, ControllersType, WorkersType, links, created, workers

\* A connection that is lost or comes back keeps the types.
LEMMA LinkKeepsType ==
    ASSUME TypeOK, UNCHANGED aborted, NEW s \in Switches, LinkLost(s) \/ OnReconnTimer(s)
    PROVE  TypeOK'
  <1>1. LinksType'
    BY ReportLinks DEF LinkLost, OnReconnTimer, TypeOK, LinksType
  <1>2. UNCHANGED <<handlers, created, workers, open, mqtt, disorder, excused>>
    BY DEF LinkLost, OnReconnTimer
  <1> QED
    BY <1>1, <1>2 DEF TypeOK, ControllersType, WorkersType, MqttType, created, workers

\* A step is one of the server, or one that ends it or stutters.
LEMMA Steps ==
    ASSUME [Next]_vars
    PROVE  \/ UNCHANGED state /\ aborted' \in {aborted, TRUE}
           \/ /\ UNCHANGED aborted
              /\ \/ Mqtt
                 \/ \E s \in Switches, c \in Channels :
                       \/ Receive(s, c) \/ Work(s, c)
                       \/ ReportReturns(s, c) \/ ReportThrows(s, c)
                 \/ \E s \in Switches : LinkLost(s) \/ OnReconnTimer(s)
  BY DEF Next, Runs, BadAddress, StartFails, vars

LEMMA TypeStep == TypeOK /\ [Next]_vars => TypeOK'
  <1>1. TypeOK /\ UNCHANGED state /\ aborted' \in BOOLEAN => TypeOK'
    BY DEF state, TypeOK, LinksType, ControllersType, WorkersType, MqttType, links, created,
           workers
  <1> QED
    BY <1>1, Steps, ReceiveKeepsType, MqttKeepsType, WorkKeepsType, ReportKeepsType,
       LinkKeepsType
    DEF TypeOK

\* Every variable stays in its range, for every set of switches and channels.
THEOREM RoutingType == Spec => []TypeOK
  <1> QED
    BY TypeInit, TypeStep, PTL DEF Spec

-----------------------------------------------------------------------------
(* The controllers of a switch                                               *)

\* A map has at most one greatest key.
LEMMA LastIsUnique ==
    ASSUME NEW keys \in SUBSET Nat, NEW x, NEW y, IsLast(x, keys), IsLast(y, keys)
    PROVE  x = y
  <1>1. x \in Nat /\ y \in Nat /\ x <= y /\ y <= x
    BY DEF IsLast
  <1> QED
    BY <1>1

\* The controller that is being created.  In order it is the last one and new.
CreationInv ==
    mqtt.at \in {"init", "start"} =>
        /\ mqtt.channel \in controllers[mqtt.handler]
        /\ mqtt.handler \notin disorder.channel =>
              /\ IsLast(mqtt.channel, controllers[mqtt.handler])
              /\ mqtt.channel \notin started[mqtt.handler]
              /\ mqtt.at = "start" =>
                    m_channel[mqtt.handler][mqtt.channel] = mqtt.channel

\* In any order the last controller of a switch runs, as soon as it is created.
LastRuns ==
    \A s \in Switches : \A c \in controllers[s] :
        IsLast(c, controllers[s]) => c \in started[s] \/ InCreation(s, c)

StartedExist ==
    \A s \in Switches :
        started[s] \subseteq controllers[s] /\ serving[s] \cup reporting[s] \subseteq started[s]

ControllersInv ==
    TypeOK /\ StartedExist /\ CreationInv /\ LastRuns /\ ControllersInOrder

LEMMA ControllersInit == Init => ControllersInv
  <1> SUFFICES ASSUME Init
               PROVE  ControllersInv
    OBVIOUS
  <1>1. TypeOK
    BY TypeInit
  <1> QED
    BY <1>1 DEF Init, Idle, ControllersInv, StartedExist, CreationInv, LastRuns, ControllersInOrder

\* Steps outside openDoor leave the controllers and their creation alone.
LEMMA ControllersElsewhere ==
    ASSUME ControllersInv, TypeOK', StartedExist',
           UNCHANGED created, disorder'.channel = disorder.channel,
           mqtt' = mqtt \/ (mqtt.at \notin {"init", "start"} /\ mqtt'.at \notin {"init", "start"})
    PROVE  ControllersInv'
  BY DEF ControllersInv, CreationInv, LastRuns, ControllersInOrder, InCreation, created

\* openDoor inserts a controller, or finds it, or gives up.
LEMMA OpenDoorKeepsControllers ==
    ASSUME ControllersInv, TypeOK', OpenDoor
    PROVE  ControllersInv'
  <1> DEFINE h == mqtt.handler
             c == mqtt.channel
  <1>type. TypeOK /\ h \in Switches /\ c \in Channels /\ controllers[h] \subseteq Nat
    BY ChannelsAreNumbers DEF ControllersInv, TypeOK, MqttType, ControllersType, OpenDoor
  <1>exist. StartedExist'
    <2>1. UNCHANGED <<started, serving, reporting>>
      BY DEF OpenDoor
    <2>2. \A s \in Switches : controllers[s] \subseteq controllers'[s]
      <3>1. CASE controllers' = controllers
        BY <3>1
      <3>2. CASE controllers' = [controllers EXCEPT ![h] = @ \cup {c}]
        BY <1>type, <3>2 DEF TypeOK, ControllersType
      <3> QED
        BY <3>1, <3>2 DEF OpenDoor
    <2> QED
      BY <2>1, <2>2 DEF ControllersInv, StartedExist
  <1>1. CASE UNCHANGED controllers /\ mqtt' = Idle
    <2>1. UNCHANGED <<m_channel, started>> /\ mqtt.at = "openDoor" /\ disorder' = disorder
      BY <1>1 DEF OpenDoor, TypeOK, ControllersType
    <2> QED
      BY <1>1, <1>exist, <2>1, ControllersElsewhere DEF created, Idle
  <1>2. CASE /\ c \notin controllers[h]
             /\ controllers' = [controllers EXCEPT ![h] = @ \cup {c}]
             /\ mqtt' = [mqtt EXCEPT !.at = "init"]
             /\ disorder' = IF IsLast(c, controllers'[h]) THEN disorder
                            ELSE [disorder EXCEPT !.channel = @ \cup {h}]
    <2>1. UNCHANGED <<m_channel, started>> /\ mqtt.at = "openDoor"
      BY DEF OpenDoor
    <2>2. mqtt'.at = "init" /\ mqtt'.handler = h /\ mqtt'.channel = c
      BY <1>2, <1>type DEF TypeOK, MqttType
    <2>3. /\ controllers'[h] = controllers[h] \cup {c}
          /\ \A s \in Switches \ {h} : controllers'[s] = controllers[s]
      BY <1>2, <1>type DEF TypeOK, ControllersType
    <2>4. /\ IsLast(c, controllers'[h]) => disorder' = disorder
          /\ ~IsLast(c, controllers'[h]) => disorder'.channel = disorder.channel \cup {h}
      BY <1>2, <1>type DEF TypeOK
    <2>5. CreationInv'
      BY <1>2, <1>type, <2>1, <2>2, <2>3, <2>4
      DEF CreationInv, ControllersInv, StartedExist
    <2>6. ASSUME NEW s \in Switches, NEW d \in controllers'[s], IsLast(d, controllers'[s])
          PROVE  d \in started'[s] \/ InCreation(s, d)'
      <3>1. CASE s = h
        BY <2>6, <3>1, <2>2 DEF InCreation
      <3>2. CASE s # h
        BY <2>6, <3>2, <2>1, <2>3 DEF ControllersInv, LastRuns, InCreation
      <3> QED
        BY <3>1, <3>2
    <2>7. ASSUME NEW s \in Switches \ disorder'.channel, NEW d \in controllers'[s]
          PROVE  InCreation(s, d)' \/ (d \in started'[s] /\ m_channel'[s][d] = d)
      <3>1. CASE s = h /\ d = c
        BY <2>2, <2>4, <2>7, <3>1 DEF InCreation
      <3>2. CASE ~(s = h /\ d = c)
        BY <2>1, <2>3, <2>4, <2>7, <3>2 DEF ControllersInv, ControllersInOrder, InCreation
      <3> QED
        BY <3>1, <3>2
    <2> QED
      BY <1>exist, <2>5, <2>6, <2>7 DEF ControllersInv, LastRuns, ControllersInOrder
  <1> QED
    BY <1>1, <1>2 DEF OpenDoor

\* Init of the last controller.
LEMMA InitKeepsControllers ==
    ASSUME ControllersInv, TypeOK', InitController
    PROVE  ControllersInv'
  <1> DEFINE h == mqtt.handler
             c == mqtt.channel
  <1>type. TypeOK /\ h \in Switches /\ controllers[h] \subseteq Nat
    BY ChannelsAreNumbers DEF ControllersInv, TypeOK, MqttType, ControllersType, InitController
  <1>1. PICK last \in controllers[h] :
           /\ IsLast(last, controllers[h])
           /\ m_channel' = [m_channel EXCEPT ![h][last] = c]
    BY DEF InitController
  <1>2. last \in Channels
    BY <1>type DEF TypeOK, ControllersType
  <1>3. UNCHANGED <<controllers, started, serving, reporting, disorder>> /\ mqtt.at = "init"
    BY DEF InitController, workers
  <1>4. mqtt'.at = "start" /\ mqtt'.handler = h /\ mqtt'.channel = c
    BY <1>type DEF InitController, TypeOK, MqttType
  <1>5. h \notin disorder.channel => last = c
    BY <1>1, <1>3, <1>type, LastIsUnique DEF ControllersInv, CreationInv
  <1>6. /\ m_channel'[h][last] = c
        /\ \A s \in Switches : \A d \in Channels :
              ~(s = h /\ d = last) => m_channel'[s][d] = m_channel[s][d]
    BY <1>1, <1>2, <1>type DEF TypeOK, ControllersType
  <1>7. CreationInv'
    BY <1>3, <1>4, <1>5, <1>6 DEF ControllersInv, CreationInv
  <1>8. StartedExist' /\ LastRuns'
    BY <1>3, <1>4 DEF ControllersInv, StartedExist, LastRuns, InCreation
  <1>9. ASSUME NEW s \in Switches \ disorder'.channel, NEW d \in controllers'[s]
        PROVE  InCreation(s, d)' \/ (d \in started'[s] /\ m_channel'[s][d] = d)
    <2>1. CASE s = h /\ d = last
      BY <1>1, <1>3, <1>4, <2>1 DEF InCreation
    <2>2. CASE ~(s = h /\ d = last)
      <3>1. d \in Channels
        BY <1>3, <1>9, <1>type DEF TypeOK, ControllersType
      <3>2. ~InCreation(s, d)
        BY <1>1, <1>type, <2>2, LastIsUnique DEF InCreation
      <3> QED
        BY <1>3, <1>6, <1>9, <2>2, <3>1, <3>2 DEF ControllersInv, ControllersInOrder
    <2> QED
      BY <2>1, <2>2
  <1> QED
    BY <1>7, <1>8, <1>9 DEF ControllersInv, ControllersInOrder

\* Start of the last controller.
LEMMA StartKeepsControllers ==
    ASSUME ControllersInv, TypeOK', StartController
    PROVE  ControllersInv'
  <1> DEFINE h == mqtt.handler
             c == mqtt.channel
  <1>type. TypeOK /\ h \in Switches /\ controllers[h] \subseteq Nat
    BY ChannelsAreNumbers DEF ControllersInv, TypeOK, MqttType, ControllersType, StartController
  <1>1. PICK last \in controllers[h] :
           /\ IsLast(last, controllers[h])
           /\ started' = [started EXCEPT ![h] = @ \cup {last}]
    BY DEF StartController
  <1>2. UNCHANGED <<controllers, m_channel, serving, reporting, disorder>> /\ mqtt.at = "start"
    BY DEF StartController
  <1>3. mqtt'.at = "idle"
    BY DEF StartController, Idle
  <1>4. /\ started'[h] = started[h] \cup {last}
        /\ \A s \in Switches \ {h} : started'[s] = started[s]
    BY <1>1, <1>type DEF TypeOK, ControllersType
  <1>5. h \notin disorder.channel => last = c /\ m_channel[h][c] = c
    BY <1>1, <1>2, <1>type, LastIsUnique DEF ControllersInv, CreationInv
  <1>6. StartedExist' /\ CreationInv'
    BY <1>2, <1>3, <1>4 DEF ControllersInv, StartedExist, CreationInv
  <1>7. \A s \in Switches : \A d \in controllers[s] :
           InCreation(s, d) => s = h /\ d = last
    BY <1>1, <1>type, LastIsUnique DEF InCreation
  <1>8. LastRuns' /\ ControllersInOrder'
    BY <1>2, <1>3, <1>4, <1>5, <1>7
    DEF ControllersInv, LastRuns, ControllersInOrder, IsLast
  <1> QED
    BY <1>6, <1>8 DEF ControllersInv

LEMMA ControllersStep == ControllersInv /\ [Next]_vars => ControllersInv'
  <1> SUFFICES ASSUME ControllersInv, [Next]_vars
               PROVE  ControllersInv'
    OBVIOUS
  <1>type. TypeOK /\ TypeOK'
    BY TypeStep DEF ControllersInv
  <1>1. ASSUME NEW s \in Switches, NEW c \in Channels, Receive(s, c)
        PROVE  ControllersInv'
    <2>1. /\ UNCHANGED <<controllers, m_channel, started, serving, reporting>>
          /\ disorder'.channel = disorder.channel
          /\ mqtt.at = "idle" /\ mqtt'.at \in {"connect", "openDoor"}
      BY <1>1, <1>type DEF Receive, created, workers, TypeOK
    <2> QED
      BY <2>1, <1>type, ControllersElsewhere DEF ControllersInv, StartedExist, created
  <1>2. CASE Connect
    <2>1. /\ UNCHANGED <<controllers, m_channel, started, serving, reporting, disorder>>
          /\ mqtt.at = "connect" /\ mqtt'.at \in {"idle", "openDoor"}
      BY <1>2, <1>type DEF Connect, created, workers, TypeOK, MqttType, Idle
    <2> QED
      BY <2>1, <1>type, ControllersElsewhere DEF ControllersInv, StartedExist, created
  <1>3. ASSUME NEW s \in Switches, NEW c \in Channels, Work(s, c)
        PROVE  ControllersInv'
    <2>1. UNCHANGED <<controllers, m_channel, started, disorder, mqtt>>
      BY <1>3 DEF Work, DropExpired, Serve, EndTask, created
    <2>2. /\ serving'[s] \subseteq serving[s] \cup {c}
          /\ \A t \in Switches \ {s} : serving'[t] = serving[t]
      BY <1>3, <1>type DEF Work, DropExpired, Serve, EndTask, TypeOK, WorkersType
    <2>5. c \in started[s]
      BY <1>3 DEF Work, DropExpired, Serve, EndTask, Takes, ControllersInv, StartedExist
    <2>3. /\ reporting'[s] \subseteq reporting[s] \cup {c}
          /\ \A t \in Switches \ {s} : reporting'[t] = reporting[t]
      <3>1. \/ reporting' = reporting
            \/ reporting' = [reporting EXCEPT ![s] = @ \cup {c}]
        BY <1>3, WorkLinks
      <3> QED
        BY <1>type, <3>1 DEF TypeOK, WorkersType
    <2>4. StartedExist'
      BY <2>1, <2>2, <2>3, <2>5 DEF ControllersInv, StartedExist
    <2> QED
      BY <2>1, <2>4, <1>type, ControllersElsewhere DEF created
  <1>6. ASSUME NEW s \in Switches, NEW c \in Channels,
               ReportReturns(s, c) \/ ReportThrows(s, c)
        PROVE  ControllersInv'
    <2>1. UNCHANGED <<controllers, m_channel, started, disorder, mqtt>>
      BY <1>6 DEF ReportReturns, ReportThrows, created
    <2>2. \A t \in Switches :
             serving'[t] \subseteq serving[t] /\ reporting'[t] \subseteq reporting[t]
      <3>1. CASE ReportReturns(s, c)
        BY <1>type, <3>1 DEF ReportReturns, TypeOK, WorkersType
      <3>2. CASE ReportThrows(s, c)
        BY <1>type, <3>2 DEF ReportThrows, TypeOK, WorkersType
      <3> QED
        BY <1>6, <3>1, <3>2
    <2>3. StartedExist'
      BY <2>1, <2>2 DEF ControllersInv, StartedExist
    <2> QED
      BY <2>1, <2>3, <1>type, ControllersElsewhere DEF created
  <1>4. ASSUME NEW s \in Switches, LinkLost(s) \/ OnReconnTimer(s)
        PROVE  ControllersInv'
    BY <1>4, <1>type, ControllersElsewhere
    DEF LinkLost, OnReconnTimer, ControllersInv, StartedExist, created, workers
  <1>5. CASE UNCHANGED state
    BY <1>5, <1>type, ControllersElsewhere
    DEF state, ControllersInv, StartedExist, created, workers
  <1> QED
    BY <1>type, <1>1, <1>2, <1>3, <1>4, <1>5, <1>6, OpenDoorKeepsControllers,
       InitKeepsControllers, StartKeepsControllers, Steps
    DEF Mqtt

LEMMA ControllersAlways == Spec => []ControllersInv
  <1> QED
    BY ControllersInit, ControllersStep, PTL DEF Spec

\* Channels asked for in ascending order get a controller that runs and controls
\* their door, whatever the workers and the links do meanwhile.
THEOREM InOrderControllers == Spec => []ControllersInOrder
  <1>1. ControllersInv => ControllersInOrder
    BY DEF ControllersInv
  <1> QED
    BY <1>1, ControllersAlways, PTL

\* Controllers are only added, and only the last one of a switch is started.
LEMMA ControllersGrow ==
    ASSUME TypeOK, [Next]_vars, NEW s \in Switches
    PROVE  /\ controllers[s] \subseteq controllers'[s]
           /\ \A c \in started'[s] \ started[s] : IsLast(c, controllers[s])
  <1>1. CASE OpenDoor
    BY <1>1 DEF OpenDoor, TypeOK, ControllersType
  <1>2. CASE StartController
    BY <1>2 DEF StartController, TypeOK, ControllersType
  <1>3. CASE UNCHANGED <<controllers, started>>
    BY <1>3
  <1> QED
    BY <1>1, <1>2, <1>3, Steps
    DEF Mqtt, Receive, Connect, InitController, Work, DropExpired, Serve, EndTask,
        ReportReturns, ReportThrows, LinkLost, OnReconnTimer, state, created

\* A controller whose creation set up another one is lost for good: no later
\* request starts it, and the tasks it accepts are never taken.
THEOREM LostForEver == Spec => StrandedForEver
  <1>1. ASSUME ControllersInv, [Next]_vars, NEW s \in Switches, NEW c \in Channels,
               Stranded(s, c)
        PROVE  Stranded(s, c)'
    <2>1. TypeOK
      BY <1>1 DEF ControllersInv
    <2>2. ~IsLast(c, controllers[s])
      BY <1>1 DEF ControllersInv, LastRuns, Stranded
    <2>3. c \in controllers'[s] \ started'[s]
      BY <1>1, <2>1, <2>2, ControllersGrow DEF Stranded
    <2>4. ~IsLast(c, controllers'[s])
      BY <1>1, <2>1, <2>2, ControllersGrow DEF IsLast, Stranded
    <2> QED
      BY <2>3, <2>4 DEF Stranded, InCreation
  <1>2. ControllersInv /\ [Next]_vars =>
            [\A s \in Switches : \A c \in Channels : Stranded(s, c) => Stranded(s, c)']_vars
    BY <1>1
  <1> QED
    BY <1>2, ControllersAlways, PTL DEF Spec, StrandedForEver

-----------------------------------------------------------------------------
(* What a report leaves behind                                               *)

\* Somebody works on the connection, or a report was dismissed.
Attended(s) == Linked(s) \/ s \in missed

\* A timer that ends has connected, unless a report came since.
EndingLinked == \A s \in Switches : retry[s] = "ending" => m_isConnected[s] \/ s \in missed

\* Only a switch with a worker reports, and only a connected one gets controllers.
MissedStarted == \A s \in missed : started[s] # {}
CreatedLinked ==
    mqtt.at \in {"init", "start"} => Linked(mqtt.handler) \/ started[mqtt.handler] # {}

ReportsInv == EndingLinked /\ MissedStarted /\ CreatedLinked

\* A report and a step of the timer keep them, and leave nobody unattended.
LEMMA LinksKept ==
    ASSUME TypeOK, ReportsInv, UNCHANGED <<mqtt, started>>, NEW s \in Switches,
           (HandleRWError(s) /\ started[s] # {}) \/ OnReconnTimer(s)
    PROVE  /\ ReportsInv'
           /\ \A t \in Switches : Attended(t) => Attended(t)'
  <1>1. CASE HandleRWError(s) /\ started[s] # {}
    <2>1. LinksType
      BY DEF TypeOK
    <2>2. ReportsInv'
      <3>1. EndingLinked'
        BY <1>1, <2>1, ReportLinks DEF ReportsInv, EndingLinked
      <3>2. MissedStarted'
        BY <1>1, <2>1, ReportLinks DEF ReportsInv, MissedStarted
      <3>3. \A t \in Switches : Linked(t) => Linked(t)' \/ started[t] # {}
        BY <1>1, <2>1, ReportLinks DEF Linked
      <3>4. CreatedLinked'
        BY <3>3 DEF ReportsInv, CreatedLinked, TypeOK, MqttType
      <3> QED
        BY <3>1, <3>2, <3>4 DEF ReportsInv
    <2>3. ASSUME NEW t \in Switches, Attended(t)
          PROVE  Attended(t)'
      <3>1. CASE t = s
        BY <1>1, <2>1, <3>1, ReportLinks DEF Attended, Linked
      <3>2. CASE t # s
        BY <1>1, <2>1, <2>3, <3>2, ReportLinks DEF Attended, Linked
      <3> QED
        BY <3>1, <3>2
    <2> QED
      BY <2>2, <2>3
  <1>2. CASE OnReconnTimer(s)
    <2>1. /\ missed' = missed
          /\ \A t \in Switches \ {s} :
                m_isConnected'[t] = m_isConnected[t] /\ retry'[t] = retry[t]
          /\ \/ m_isConnected[s] /\ retry'[s] = "trying"
             \/ ~m_isConnected[s] /\ m_isConnected'[s] /\ retry[s] = "trying"
             \/ m_isConnected'[s] = m_isConnected[s] /\ retry[s] = "ending" /\ retry'[s] = "off"
      BY <1>2 DEF OnReconnTimer, TypeOK, LinksType
    <2>2. EndingLinked' /\ MissedStarted'
      BY <2>1 DEF ReportsInv, EndingLinked, MissedStarted
    <2>3. ASSUME NEW t \in Switches, Attended(t)
          PROVE  Attended(t)'
      BY <2>1, <2>3 DEF ReportsInv, EndingLinked, Attended, Linked
    <2>4. CreatedLinked'
      <3> SUFFICES ASSUME mqtt.at \in {"init", "start"}
                   PROVE  Linked(mqtt.handler)' \/ started[mqtt.handler] # {}
        BY DEF CreatedLinked
      <3>1. mqtt.handler \in Switches
        BY DEF TypeOK, MqttType
      <3>2. Linked(mqtt.handler) => Attended(mqtt.handler)'
        BY <2>3, <3>1 DEF Attended
      <3>3. mqtt.handler \in missed' => started[mqtt.handler] # {}
        BY <2>1 DEF ReportsInv, MissedStarted
      <3> QED
        BY <3>2, <3>3 DEF ReportsInv, CreatedLinked, Attended
    <2> QED
      BY <2>2, <2>3, <2>4 DEF ReportsInv
  <1> QED
    BY <1>1, <1>2

LEMMA ReportsStep == ControllersInv /\ ReportsInv /\ [Next]_vars => ReportsInv'
  <1> SUFFICES ASSUME ControllersInv, ReportsInv, [Next]_vars
               PROVE  ReportsInv'
    OBVIOUS
  <1>type. TypeOK
    BY DEF ControllersInv
  <1>1. ASSUME UNCHANGED links, \A s \in Switches : started[s] \subseteq started'[s],
               mqtt' = mqtt \/ mqtt'.at \notin {"init", "start"}
        PROVE  ReportsInv'
    <2>1. EndingLinked' /\ MissedStarted'
      BY <1>1, <1>type DEF ReportsInv, EndingLinked, MissedStarted, links, TypeOK, LinksType
    <2>2. CreatedLinked'
      BY <1>1, <1>type DEF ReportsInv, CreatedLinked, Linked, links, TypeOK, MqttType
    <2> QED
      BY <2>1, <2>2 DEF ReportsInv
  <1>2. ASSUME NEW s \in Switches, NEW c \in Channels, Receive(s, c)
        PROVE  ReportsInv'
    BY <1>1, <1>2 DEF Receive, created
  <1>3. CASE Connect
    <2>1. mqtt.handler \in Switches /\ mqtt'.at \in {"idle", "openDoor"} /\ started' = started
      BY <1>3, <1>type DEF Connect, TypeOK, MqttType, Idle, created
    <2>2. EndingLinked' /\ MissedStarted'
      BY <1>3, <1>type, <2>1
      DEF Connect, ReportsInv, EndingLinked, MissedStarted, TypeOK, LinksType
    <2> QED
      BY <2>1, <2>2 DEF ReportsInv, CreatedLinked
  <1>4. CASE OpenDoor \/ InitController
    <2>1. /\ UNCHANGED <<links, started>>
          /\ mqtt' = Idle \/ mqtt'.handler = mqtt.handler
          /\ mqtt.at = "openDoor" /\ mqtt' # Idle => m_isConnected[mqtt.handler]
                \/ mqtt'.at \notin {"init", "start"}
          /\ mqtt.at \in {"openDoor", "init"}
      BY <1>4, <1>type DEF OpenDoor, InitController, TypeOK, MqttType
    <2>2. EndingLinked' /\ MissedStarted'
      BY <2>1 DEF ReportsInv, EndingLinked, MissedStarted, links
    <2>3. CreatedLinked'
      BY <2>1 DEF ReportsInv, CreatedLinked, Linked, links, Idle
    <2> QED
      BY <2>2, <2>3 DEF ReportsInv
  <1>5. CASE StartController
    BY <1>1, <1>5, <1>type DEF StartController, Idle, TypeOK, ControllersType
  <1>6. ASSUME NEW s \in Switches, NEW c \in Channels, Work(s, c)
        PROVE  ReportsInv'
    <2>1. UNCHANGED <<mqtt, started>>
      BY <1>6 DEF Work, DropExpired, Serve, EndTask, created
    <2>2. started[s] # {}
      BY <1>6 DEF Work, DropExpired, Serve, EndTask, Takes, ControllersInv, StartedExist
    <2> QED
      BY <1>1, <1>6, <1>type, <2>1, <2>2, WorkLinks, LinksKept
  <1>7. ASSUME NEW s \in Switches, NEW c \in Channels,
               ReportReturns(s, c) \/ ReportThrows(s, c)
        PROVE  ReportsInv'
    BY <1>1, <1>7 DEF ReportReturns, ReportThrows, created
  <1>8. ASSUME NEW s \in Switches, LinkLost(s) \/ OnReconnTimer(s)
        PROVE  ReportsInv'
    BY <1>8, <1>type, LinksKept DEF LinkLost, OnReconnTimer, created
  <1>9. CASE UNCHANGED state
    BY <1>1, <1>9 DEF state, created
  <1> QED
    BY <1>2, <1>3, <1>4, <1>5, <1>6, <1>7, <1>8, <1>9, Steps DEF Mqtt

LEMMA ReportsAlways == Spec => []ReportsInv
  <1>1. Init => ReportsInv
    BY DEF Init, Idle, ReportsInv, EndingLinked, MissedStarted, CreatedLinked
  <1> QED
    BY <1>1, ControllersAlways, ReportsStep, PTL DEF Spec

-----------------------------------------------------------------------------
(* The handlers of the engine                                                *)

\* The handler that is being connected is the last one, and in order the thread
\* works for the switch of the request.
ConnectLast == mqtt.at = "connect" => IsLast(mqtt.handler, handlers)

OwnChannel ==
    ~disorder.switch /\ mqtt.at # "idle" => mqtt.channel \in 1 .. NbChannels[mqtt.handler]

\* In any order the last handler is attended to; in order every one.
LastLinked == \A s \in handlers : IsLast(s, handlers) => Attended(s)
AllLinked == ~disorder.switch => \A s \in handlers : Attended(s)
OwnControllers ==
    ~disorder.switch => \A s \in handlers : controllers[s] \subseteq 1 .. NbChannels[s]
NoHandlerNoController == \A s \in Switches \ handlers : controllers[s] = {}

HandlersInv ==
    /\ TypeOK
    /\ ConnectLast
    /\ OwnChannel
    /\ LastLinked
    /\ AllLinked
    /\ OwnControllers
    /\ NoHandlerNoController

\* What a request that arrives does to the handlers.
LEMMA ReceiveKeepsHandlers ==
    ASSUME HandlersInv, TypeOK', NEW s \in Switches, NEW c \in Channels, Receive(s, c)
    PROVE  HandlersInv'
  <1>type. /\ TypeOK /\ Switches \subseteq Nat /\ handlers \subseteq Switches
           /\ mqtt.at = "idle" /\ c \in 1 .. NbChannels[s]
           /\ UNCHANGED <<m_isConnected, retry, missed, controllers>>
    BY RoutingAssumption DEF HandlersInv, TypeOK, Receive, links, created
  <1>1. \A t \in Switches : Attended(t) => Attended(t)'
    BY <1>type DEF Attended, Linked
  <1>2. CASE /\ mqtt'.at = "openDoor" /\ mqtt'.handler = s /\ mqtt'.channel = c
             /\ UNCHANGED <<handlers, disorder>>
    <2>2. ConnectLast' /\ OwnChannel'
      BY <1>type, <1>2 DEF ConnectLast, OwnChannel
    <2>3. LastLinked' /\ AllLinked' /\ OwnControllers' /\ NoHandlerNoController'
      BY <1>type, <1>1, <1>2
      DEF HandlersInv, LastLinked, AllLinked, OwnControllers, NoHandlerNoController
    <2> QED
      BY <2>2, <2>3 DEF HandlersInv
  <1>3. CASE /\ s \notin handlers
             /\ handlers' = handlers \cup {s}
             /\ \E last \in Switches :
                   /\ IsLast(last, handlers')
                   /\ mqtt' = [at |-> "connect", handler |-> last, channel |-> c]
             /\ disorder' = [disorder EXCEPT !.switch = @ \/ ~IsLast(s, handlers')]
    <2>1. PICK last \in Switches :
             /\ IsLast(last, handlers')
             /\ mqtt' = [at |-> "connect", handler |-> last, channel |-> c]
      BY <1>3
    <2>2. handlers' = handlers \cup {s}
      BY <1>3
    <2>3. disorder'.switch <=> (disorder.switch \/ ~IsLast(s, handlers'))
      BY <1>3, <1>type DEF TypeOK
    <2>4. \A t \in handlers' : IsLast(t, handlers') => t = last
      BY <1>type, <2>1, <2>2, LastIsUnique
    <2>5. Attended(last)' /\ mqtt'.at = "connect" /\ mqtt'.handler = last /\ mqtt'.channel = c
      BY <2>1 DEF Attended, Linked
    <2>6. ~disorder'.switch => ~disorder.switch /\ s = last
      BY <2>2, <2>3, <2>4
    <2>7. ConnectLast' /\ LastLinked'
      BY <2>1, <2>4, <2>5 DEF ConnectLast, LastLinked
    <2>8. AllLinked'
      BY <1>type, <1>1, <2>2, <2>5, <2>6 DEF HandlersInv, AllLinked
    <2>9. OwnChannel' /\ OwnControllers' /\ NoHandlerNoController'
      BY <1>type, <1>3, <2>2, <2>5, <2>6
      DEF HandlersInv, OwnChannel, OwnControllers, NoHandlerNoController
    <2> QED
      BY <2>7, <2>8, <2>9 DEF HandlersInv
  <1> QED
    BY <1>2, <1>3 DEF Receive

\* What connect does to them.
LEMMA ConnectKeepsHandlers ==
    ASSUME HandlersInv, TypeOK', Connect
    PROVE  HandlersInv'
  <1> DEFINE h == mqtt.handler
  <1>type. /\ TypeOK /\ mqtt.at = "connect" /\ h \in handlers /\ handlers \subseteq Switches
           /\ UNCHANGED <<handlers, controllers, disorder>>
    BY DEF HandlersInv, TypeOK, MqttType, Connect, created
  <1>1. /\ mqtt'.at \in {"idle", "openDoor"}
        /\ mqtt'.at # "idle" => mqtt'.handler = h /\ mqtt'.channel = mqtt.channel
    BY <1>type DEF Connect, Idle, TypeOK, MqttType
  <1>2. m_isConnected'[h] \/ retry'[h] # "off"
    BY <1>type DEF Connect, TypeOK, LinksType
  <1>3. /\ \A t \in Switches \ {h} :
              m_isConnected'[t] = m_isConnected[t] /\ retry'[t] = retry[t]
        /\ missed' = missed \ {h}
    BY <1>type DEF Connect, TypeOK, LinksType
  <1>4. \A t \in handlers : Attended(t) => Attended(t)'
    BY <1>type, <1>1, <1>2, <1>3 DEF Attended, Linked
  <1>5. ConnectLast' /\ OwnChannel'
    BY <1>type, <1>1 DEF HandlersInv, ConnectLast, OwnChannel
  <1>6. LastLinked' /\ AllLinked'
    BY <1>type, <1>4 DEF HandlersInv, LastLinked, AllLinked
  <1>7. OwnControllers' /\ NoHandlerNoController'
    BY <1>type DEF HandlersInv, OwnControllers, NoHandlerNoController
  <1> QED
    BY <1>5, <1>6, <1>7 DEF HandlersInv

\* The rest of the MQTT thread's way adds at most the controller of the request.
LEMMA OpenDoorKeepsHandlers ==
    ASSUME HandlersInv, TypeOK', OpenDoor \/ InitController \/ StartController
    PROVE  HandlersInv'
  <1> DEFINE h == mqtt.handler
  <1>type. /\ TypeOK /\ mqtt.at \in {"openDoor", "init", "start"} /\ h \in handlers
           /\ handlers \subseteq Switches
           /\ UNCHANGED <<handlers, m_isConnected, retry, missed>>
    BY DEF HandlersInv, TypeOK, MqttType, OpenDoor, InitController, StartController, links
  <1>1. /\ mqtt'.at \in {"idle", "init", "start"}
        /\ mqtt'.at # "idle" => mqtt'.handler = h /\ mqtt'.channel = mqtt.channel
    BY <1>type DEF OpenDoor, InitController, StartController, Idle, TypeOK, MqttType
  <1>2. disorder'.switch = disorder.switch
    BY <1>type DEF OpenDoor, InitController, StartController, TypeOK
  <1>3. /\ controllers'[h] \subseteq controllers[h] \cup {mqtt.channel}
        /\ \A t \in Switches \ {h} : controllers'[t] = controllers[t]
    BY <1>type DEF OpenDoor, InitController, StartController, TypeOK, ControllersType
  <1>4. \A t \in handlers : Attended(t) => Attended(t)'
    BY <1>type DEF Attended, Linked
  <1>5. ConnectLast' /\ OwnChannel'
    BY <1>type, <1>1, <1>2 DEF HandlersInv, ConnectLast, OwnChannel
  <1>6. LastLinked' /\ AllLinked'
    BY <1>type, <1>2, <1>4 DEF HandlersInv, LastLinked, AllLinked
  <1>7. OwnControllers'
    <2> SUFFICES ASSUME ~disorder'.switch, NEW t \in handlers
                 PROVE  controllers'[t] \subseteq 1 .. NbChannels[t]
      BY <1>type DEF OwnControllers
    <2>1. mqtt.channel \in 1 .. NbChannels[h]
      BY <1>type, <1>2 DEF HandlersInv, OwnChannel
    <2> QED
      BY <1>type, <1>2, <1>3, <2>1 DEF HandlersInv, OwnControllers
  <1>8. NoHandlerNoController'
    BY <1>type, <1>3 DEF HandlersInv, NoHandlerNoController
  <1> QED
    BY <1>5, <1>6, <1>7, <1>8 DEF HandlersInv

LEMMA HandlersInit == Init => HandlersInv
  <1> SUFFICES ASSUME Init
               PROVE  HandlersInv
    OBVIOUS
  <1>1. TypeOK
    BY TypeInit
  <1> QED
    BY <1>1 DEF Init, Idle, HandlersInv, ConnectLast, OwnChannel, LastLinked, AllLinked,
                OwnControllers, NoHandlerNoController

LEMMA HandlersStep == ControllersInv /\ ReportsInv /\ HandlersInv /\ [Next]_vars => HandlersInv'
  <1> SUFFICES ASSUME ControllersInv, ReportsInv, HandlersInv, [Next]_vars
               PROVE  HandlersInv'
    OBVIOUS
  <1>type. TypeOK /\ TypeOK'
    BY TypeStep DEF HandlersInv
  <1>1. ASSUME UNCHANGED <<handlers, controllers, mqtt, disorder>>,
               \A t \in Switches : Attended(t) => Attended(t)'
        PROVE  HandlersInv'
    <2>1. LastLinked' /\ AllLinked'
      BY <1>type, <1>1 DEF HandlersInv, TypeOK, LastLinked, AllLinked
    <2>2. ConnectLast' /\ OwnChannel' /\ OwnControllers' /\ NoHandlerNoController'
      BY <1>1 DEF HandlersInv, ConnectLast, OwnChannel, OwnControllers, NoHandlerNoController
    <2> QED
      BY <1>type, <2>1, <2>2 DEF HandlersInv
  <1>2. ASSUME UNCHANGED <<links, mqtt>>
        PROVE  \A t \in Switches : Attended(t) => Attended(t)'
    BY <1>2 DEF Attended, Linked, links
  <1>3. ASSUME NEW s \in Switches, LinkLost(s) \/ OnReconnTimer(s)
        PROVE  HandlersInv'
    <2>1. UNCHANGED <<handlers, created, mqtt, disorder>>
      BY <1>3 DEF LinkLost, OnReconnTimer
    <2>2. \A t \in Switches : Attended(t) => Attended(t)'
      BY <1>3, <1>type, <2>1, LinksKept DEF LinkLost, created
    <2> QED
      BY <1>1, <2>1, <2>2 DEF created
  <1>4. ASSUME NEW s \in Switches, NEW c \in Channels, Work(s, c)
        PROVE  HandlersInv'
    <2>1. UNCHANGED <<handlers, created, mqtt, disorder>>
      BY <1>4 DEF Work, DropExpired, Serve, EndTask
    <2>2. started[s] # {}
      BY <1>4 DEF Work, DropExpired, Serve, EndTask, Takes, ControllersInv, StartedExist
    <2>3. \A t \in Switches : Attended(t) => Attended(t)'
      <3>1. CASE UNCHANGED links
        BY <1>2, <2>1, <3>1
      <3>2. CASE HandleRWError(s)
        BY <1>type, <2>1, <2>2, <3>2, LinksKept DEF created
      <3> QED
        BY <1>4, <3>1, <3>2, WorkLinks
    <2> QED
      BY <1>1, <2>1, <2>3 DEF created
  <1>5. ASSUME NEW s \in Switches, NEW c \in Channels,
               ReportReturns(s, c) \/ ReportThrows(s, c)
        PROVE  HandlersInv'
    BY <1>1, <1>2, <1>5 DEF ReportReturns, ReportThrows, created
  <1>6. CASE UNCHANGED state
    BY <1>1, <1>2, <1>6 DEF state, created
  <1> QED
    BY <1>type, <1>3, <1>4, <1>5, <1>6, ReceiveKeepsHandlers, ConnectKeepsHandlers,
       OpenDoorKeepsHandlers, Steps
    DEF Mqtt

LEMMA HandlersAlways == Spec => []HandlersInv
  <1> QED
    BY HandlersInit, HandlersStep, ControllersAlways, ReportsAlways, PTL DEF Spec

\* Switches asked for in ascending order get a handler that is connected or tries to
\* be, unless a report was dismissed while its timer was ending, and whose controllers
\* are for channels the switch has.
THEOREM InOrderHandlers == Spec => []HandlersInOrder
  <1>1. HandlersInv => HandlersInOrder
    BY DEF HandlersInv, AllLinked, Attended, OwnControllers, HandlersInOrder
  <1> QED
    BY <1>1, HandlersAlways, PTL

\* A handler whose creation connected another one is lost for good: nothing connects
\* it later, and every request for its switch fails.
THEOREM OrphansStay == Spec => OrphanForEver
  <1>1. ASSUME ControllersInv, ReportsInv, HandlersInv, [Next]_vars,
               NEW s \in Switches, Orphan(s)
        PROVE  Orphan(s)'
    <2>type. TypeOK /\ handlers \subseteq Switches /\ Switches \subseteq Nat /\ s \in handlers
      BY <1>1, RoutingAssumption DEF HandlersInv, TypeOK, Orphan
    <2>1. /\ ~m_isConnected[s] /\ retry[s] = "off" /\ started[s] = {} /\ s \notin missed
          /\ mqtt.at \in {"connect", "init", "start"} => mqtt.handler # s
      BY <1>1 DEF Orphan, Linked, ReportsInv, MissedStarted, CreatedLinked
    <2>2. ~IsLast(s, handlers)
      BY <1>1, <2>1, <2>type DEF HandlersInv, LastLinked, Attended, Orphan
    <2>3. ASSUME m_isConnected'[s] = m_isConnected[s], retry'[s] = retry[s],
                 started'[s] = started[s], handlers \subseteq handlers',
                 mqtt'.at = "connect" => mqtt'.handler # s
          PROVE  Orphan(s)'
      BY <2>type, <2>1, <2>3 DEF Orphan, Linked
    <2>4. ASSUME NEW r \in Switches, NEW c \in Channels, Receive(r, c)
          PROVE  Orphan(s)'
      <3>1. handlers \subseteq handlers' /\ UNCHANGED <<links, created>>
        BY <2>4 DEF Receive
      <3>2. ~IsLast(s, handlers')
        BY <2>type, <2>2, <3>1 DEF IsLast
      <3>3. mqtt'.at = "connect" => IsLast(mqtt'.handler, handlers')
        BY <2>4 DEF Receive
      <3> QED
        BY <2>3, <3>1, <3>2, <3>3 DEF links, created
    <2>5. CASE Connect
      <3>1. mqtt.handler # s /\ mqtt'.at \in {"idle", "openDoor"} /\ UNCHANGED <<handlers, created>>
        BY <2>1, <2>5, <2>type DEF Connect, Idle, TypeOK, MqttType
      <3>2. m_isConnected'[s] = m_isConnected[s] /\ retry'[s] = retry[s]
        BY <2>5, <2>type, <3>1 DEF Connect, TypeOK, LinksType
      <3> QED
        BY <2>3, <3>1, <3>2 DEF created
    <2>6. CASE OpenDoor \/ InitController \/ StartController
      <3>1. mqtt'.at \in {"idle", "init", "start"} /\ UNCHANGED <<handlers, links>>
        BY <2>6, <2>type DEF OpenDoor, InitController, StartController, Idle, TypeOK, MqttType
      <3>2. started'[s] = started[s]
        BY <2>1, <2>6, <2>type
        DEF OpenDoor, InitController, StartController, TypeOK, ControllersType
      <3> QED
        BY <2>3, <3>1, <3>2 DEF links
    <2>7. ASSUME NEW t \in Switches, LinkLost(t) \/ OnReconnTimer(t)
          PROVE  Orphan(s)'
      <3>1. t # s /\ UNCHANGED <<handlers, created, mqtt>>
        BY <2>1, <2>7 DEF LinkLost, OnReconnTimer
      <3>2. m_isConnected'[s] = m_isConnected[s] /\ retry'[s] = retry[s]
        BY <2>7, <2>type, <3>1, ReportLinks DEF LinkLost, OnReconnTimer, TypeOK, LinksType
      <3> QED
        BY <2>1, <2>3, <3>1, <3>2 DEF created
    <2>8. ASSUME NEW t \in Switches, NEW c \in Channels, Work(t, c)
          PROVE  Orphan(s)'
      <3>1. t # s
        BY <1>1, <2>1, <2>8
        DEF Work, DropExpired, Serve, EndTask, Takes, ControllersInv, StartedExist
      <3>2. UNCHANGED <<handlers, created, mqtt>>
        BY <2>8 DEF Work, DropExpired, Serve, EndTask
      <3>3. m_isConnected'[s] = m_isConnected[s] /\ retry'[s] = retry[s]
        BY <2>8, <2>type, <3>1, WorkLinks, ReportLinks DEF TypeOK, links
      <3> QED
        BY <2>1, <2>3, <3>2, <3>3 DEF created
    <2>9. ASSUME NEW t \in Switches, NEW c \in Channels,
                 ReportReturns(t, c) \/ ReportThrows(t, c)
          PROVE  Orphan(s)'
      BY <2>1, <2>3, <2>9 DEF ReportReturns, ReportThrows, links, created
    <2>10. CASE UNCHANGED state
      BY <2>1, <2>3, <2>10 DEF state, links, created
    <2> QED
      BY <1>1, <2>4, <2>5, <2>6, <2>7, <2>8, <2>9, <2>10, Steps DEF Mqtt
  <1>2. ControllersInv /\ ReportsInv /\ HandlersInv /\ [Next]_vars =>
            [\A s \in Switches : Orphan(s) => Orphan(s)']_vars
    BY <1>1
  <1> QED
    BY <1>2, ControllersAlways, ReportsAlways, HandlersAlways, PTL DEF Spec, OrphanForEver

-----------------------------------------------------------------------------
(* The doors                                                                 *)

\* What keeps a door open.  An indirect switch closes it after every task, so that a
\* worker's knowledge of a follower is no reason there.
Reasons(s) ==
    serving[s] \cup excused[s] \cup (IF Indirect(s) THEN {} ELSE bNotiInQ[s])

DoorsInv == \A s \in Switches \ disorder.channel : open[s] \subseteq Reasons(s)

\* A controller that runs on a switch that was set up in order names its own door.
LEMMA OwnChannelRuns ==
    ASSUME ControllersInv, NEW s \in Switches \ disorder.channel, NEW c \in started[s]
    PROVE  m_channel[s][c] = c
  <1>1. c \in controllers[s] /\ controllers[s] \subseteq Nat
    BY ChannelsAreNumbers DEF ControllersInv, StartedExist, TypeOK, ControllersType
  <1>2. ~InCreation(s, c)
    <2> SUFFICES ASSUME InCreation(s, c)
                 PROVE  FALSE
      OBVIOUS
    <2>1. /\ IsLast(c, controllers[s]) /\ IsLast(mqtt.channel, controllers[s])
          /\ mqtt.channel \notin started[s]
      BY DEF InCreation, ControllersInv, CreationInv
    <2>2. c = mqtt.channel
      BY <1>1, <2>1, LastIsUnique
    <2> QED
      BY <2>1, <2>2
  <1> QED
    BY <1>1, <1>2 DEF ControllersInv, ControllersInOrder

\* A worker opens and closes only the door of its channel, and leaves a reason.
LEMMA WorkKeepsDoors ==
    ASSUME ControllersInv, DoorsInv, NEW s \in Switches, NEW c \in Channels, Work(s, c)
    PROVE  DoorsInv'
  <1>type. /\ TypeOK /\ disorder' = disorder
           /\ open \in [Switches -> SUBSET Nat] /\ excused \in [Switches -> SUBSET Nat]
           /\ serving \in [Switches -> SUBSET Channels]
           /\ bNotiInQ \in [Switches -> SUBSET Channels]
           /\ c \in started[s]
    BY DEF ControllersInv, StartedExist, TypeOK, WorkersType, Work, DropExpired, Serve, EndTask, Takes
  <1>1. ASSUME NEW t \in Switches, t # s
        PROVE  open'[t] = open[t] /\ Reasons(t)' = Reasons(t)
    <2>1. open'[t] = open[t] /\ excused'[t] = excused[t]
      BY <1>type, <1>1 DEF Work, DropExpired, Serve, EndTask, Opens, Closes, WritesNothing
    <2>2. serving'[t] = serving[t] /\ bNotiInQ'[t] = bNotiInQ[t]
      BY <1>type, <1>1 DEF Work, DropExpired, Serve, EndTask, SetFlag
    <2> QED
      BY <2>1, <2>2 DEF Reasons, Indirect
  <1>2. ASSUME s \notin disorder.channel
        PROVE  open'[s] \subseteq Reasons(s)'
    <2>1. m_channel[s][c] = c
      BY <1>2, <1>type, OwnChannelRuns
    <2>2. open[s] \subseteq Reasons(s)
      BY <1>2 DEF DoorsInv
    <2>3. CASE DropExpired(s, c)
      <3>1. /\ open' = open /\ serving' = serving
            /\ Indirect(s) => excused' = excused
            /\ ~Indirect(s) => excused'[s] = excused[s] \cup {c}
            /\ bNotiInQ[s] \ {c} \subseteq bNotiInQ'[s]
        BY <1>type, <2>1, <2>3 DEF DropExpired, SetFlag
      <3> QED
        BY <2>2, <3>1 DEF Reasons, Indirect
    <2>4. CASE Serve(s, c)
      <3>1. /\ open'[s] \subseteq open[s] \cup {c}
            /\ serving'[s] = serving[s] \cup {c}
            /\ UNCHANGED <<bNotiInQ, excused>>
        BY <1>type, <2>1, <2>4 DEF Serve, Opens, WritesNothing
      <3> QED
        BY <2>2, <3>1 DEF Reasons, Indirect
    <2>5. CASE EndTask(s, c) /\ (Indirect(s) \/ taskQue[s][c] = 0)
      <3>1. serving'[s] = serving[s] \ {c} /\ bNotiInQ[s] \ {c} \subseteq bNotiInQ'[s]
        BY <1>type, <2>5 DEF EndTask, SetFlag
      <3>2. \/ open'[s] = open[s] \ {c} /\ excused'[s] = excused[s] \ {c}
            \/ open'[s] = open[s] /\ excused'[s] = excused[s] \cup {c}
        BY <1>type, <2>1, <2>5 DEF EndTask, Closes
      <3> QED
        BY <2>2, <3>1, <3>2 DEF Reasons, Indirect
    <2>6. CASE EndTask(s, c) /\ ~(Indirect(s) \/ taskQue[s][c] = 0)
      <3>1. taskQue[s][c] > 0
        BY <1>type, <2>6 DEF TypeOK, WorkersType
      <3>2. /\ UNCHANGED <<open, excused>>
            /\ serving'[s] = serving[s] \ {c}
            /\ bNotiInQ'[s] = bNotiInQ[s] \cup {c}
        BY <1>type, <2>6, <3>1 DEF EndTask, SetFlag, WritesNothing
      <3> QED
        BY <2>2, <2>6, <3>2 DEF Reasons, Indirect
    <2> QED
      BY <2>3, <2>4, <2>5, <2>6 DEF Work
  <1> QED
    BY <1>type, <1>1, <1>2 DEF DoorsInv

\* A worker that a report ends leaves its door as it is, and excused.
LEMMA ReportKeepsDoors ==
    ASSUME ControllersInv, DoorsInv, NEW s \in Switches, NEW c \in Channels,
           ReportReturns(s, c) \/ ReportThrows(s, c)
    PROVE  DoorsInv'
  <1>type. /\ excused \in [Switches -> SUBSET Nat]
           /\ serving \in [Switches -> SUBSET Channels]
           /\ bNotiInQ \in [Switches -> SUBSET Channels]
           /\ UNCHANGED <<open, disorder>>
    BY DEF ControllersInv, TypeOK, WorkersType, ReportReturns, ReportThrows
  <1>1. CASE ReportReturns(s, c)
    BY <1>type, <1>1 DEF ReportReturns, DoorsInv, Reasons, Indirect
  <1>2. CASE ReportThrows(s, c)
    <2>1. c \in started[s]
      BY <1>2 DEF ReportThrows, ControllersInv, StartedExist
    <2>2. s \notin disorder.channel => m_channel[s][c] = c
      BY <2>1, OwnChannelRuns
    <2>3. /\ serving'[s] = serving[s] \ {c} /\ bNotiInQ'[s] = bNotiInQ[s] \ {c}
          /\ excused'[s] = excused[s] \cup {m_channel[s][c]}
          /\ \A t \in Switches \ {s} : /\ serving'[t] = serving[t]
                                      /\ bNotiInQ'[t] = bNotiInQ[t]
                                      /\ excused'[t] = excused[t]
      BY <1>2, <1>type DEF ReportThrows, SetFlag
    <2> QED
      BY <1>type, <2>2, <2>3 DEF DoorsInv, Reasons, Indirect
  <1> QED
    BY <1>1, <1>2

LEMMA DoorsStep == ControllersInv /\ DoorsInv /\ [Next]_vars => DoorsInv'
  <1> SUFFICES ASSUME ControllersInv, DoorsInv, [Next]_vars
               PROVE  DoorsInv'
    OBVIOUS
  <1>1. ASSUME UNCHANGED <<open, serving, bNotiInQ, excused>>,
               disorder.channel \subseteq disorder'.channel
        PROVE  DoorsInv'
    BY <1>1 DEF DoorsInv, Reasons, Indirect
  <1>2. ASSUME NEW s \in Switches, NEW c \in Channels, Receive(s, c)
        PROVE  DoorsInv'
    BY <1>1, <1>2 DEF Receive, workers, ControllersInv, TypeOK
  <1>3. CASE Mqtt
    <2>1. UNCHANGED <<open, serving, bNotiInQ, excused>>
      BY <1>3 DEF Mqtt, Connect, OpenDoor, InitController, StartController, workers
    <2>2. disorder.channel \subseteq disorder'.channel
      BY <1>3 DEF Mqtt, Connect, OpenDoor, InitController, StartController, ControllersInv, TypeOK
    <2> QED
      BY <1>1, <2>1, <2>2
  <1>4. ASSUME NEW s \in Switches, LinkLost(s) \/ OnReconnTimer(s)
        PROVE  DoorsInv'
    BY <1>1, <1>4 DEF LinkLost, OnReconnTimer, workers
  <1>5. CASE UNCHANGED state
    BY <1>1, <1>5 DEF state, workers
  <1> QED
    BY <1>2, <1>3, <1>4, <1>5, WorkKeepsDoors, ReportKeepsDoors, Steps

\* On a switch set up in order a door is only open while its worker serves somebody
\* or knows that somebody follows, unless a close command or a follower was lost or
\* the worker ended by an exception.
THEOREM OpenDoorsHaveWorkers == Spec => []DoorsFollowWorkers
  <1>1. Init => DoorsInv
    BY DEF Init, DoorsInv
  <1>2. DoorsInv => DoorsFollowWorkers
    BY DEF DoorsInv, DoorsFollowWorkers, Reasons
  <1> QED
    BY <1>1, <1>2, DoorsStep, ControllersAlways, PTL DEF Spec
=============================================================================
