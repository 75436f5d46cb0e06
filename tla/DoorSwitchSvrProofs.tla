------------------------- MODULE DoorSwitchSvrProofs -------------------------
(***************************************************************************)
(* Theorems about DoorSwitchSvr: its type; the network thread calls the    *)
(* engine only while there is one; a request is handled at most once and   *)
(* in order; the switches that were loaded are the collection's; what was  *)
(* accepted moves the door it names and no other; and when the proxy       *)
(* hears requests.                                                         *)
(***************************************************************************)
EXTENDS DoorSwitchSvr, RelayCommandProofs

-----------------------------------------------------------------------------
(* The engine outlives the network thread                                    *)

\* What the client can be at every place of the main thread, and the engine.
Lifetimes ==
    /\ main \in {"parse", "load", "createProxy"} => client = "none" /\ callback = NoMessage
    /\ main = "serve" => client \in {"trying", "connected", "accepted"}
    /\ main = "stopProxy" => client = "disconnecting"
    /\ main \in {"destroyEngine", "exit"} => client \in {"none", "gone"} /\ callback = NoMessage
    /\ main \in {"createProxy", "serve", "stopProxy", "destroyEngine"} => engine = "alive"
    /\ main \in {"parse", "load", "createProxy", "serve", "stopProxy", "destroyEngine", "exit"}

LEMMA LifetimesInit == Init => Lifetimes
  BY DEF Init, ProxyInit, Lifetimes

LEMMA LifetimesStep == Lifetimes /\ [Next]_vars => Lifetimes'
<1> SUFFICES ASSUME Lifetimes, [Next]_vars
             PROVE  Lifetimes'
  OBVIOUS
<1> USE DEF Lifetimes
<1>1. CASE Main
  <2>1. CASE ParseConfiguration \/ ParseFails \/ LoadFailed \/ CreateEngine
    BY <2>1 DEF ParseConfiguration, ParseFails, LoadFailed, CreateEngine, MainGoes, Exit,
                network, delivery, proxyVars
  <2>2. CASE Load
    BY <2>2 DEF Load, network, delivery, proxyVars, serverVars
  <2>3. CASE CreateProxy
    BY <2>3 DEF CreateProxy, MainGoes, Construct, delivery
  <2>4. CASE DestroyProxy
    BY <2>4 DEF DestroyProxy, MainGoes, LoopStop, delivery
  <2>5. CASE DestroyEngine
    BY <2>5 DEF DestroyEngine, MainGoes, Exit, network, delivery, proxyVars
  <2> QED
    BY <1>1, <2>1, <2>2, <2>3, <2>4, <2>5 DEF Main
<1>2. CASE Terminate
  BY <1>2 DEF Terminate, MainGoes, Disconnect
<1>3. CASE OnRecvMqttMessage
  BY <1>3 DEF OnRecvMqttMessage, CallbackReturns, network
<1>4. CASE Proxy(Retry) \/ Proxy(OnConnect) \/ Proxy(OnConnectRefused) \/ Proxy(Lose)
  BY <1>4 DEF Proxy, Retry, OnConnect, OnConnectRefused, Lose, serverVars, delivery
<1>5. CASE Proxy(Subscribe) \/ Proxy(Publish)
  BY <1>5 DEF Proxy, Subscribe, Publish, serverVars, delivery
<1>6. CASE Proxy(OnMessage)
  BY <1>6 DEF Proxy, OnMessage, serverVars
<1>7. CASE UNCHANGED vars
  BY <1>7 DEF vars, proxyVars, network, delivery, serverVars
<1> QED
  BY <1>1, <1>2, <1>3, <1>4, <1>5, <1>6, <1>7 DEF Next

\* The destructor of the proxy joins the network thread before the engine is
\* destroyed, so that no request reaches an engine that is gone, or none yet.
THEOREM EngineOutlivesCallback == Spec => []CallbackHasEngine
<1>1. Lifetimes => CallbackHasEngine
  BY DEF Lifetimes, CallbackHasEngine
<1> QED
  BY <1>1, LifetimesInit, LifetimesStep, PTL DEF Spec

-----------------------------------------------------------------------------
(* Types                                                                     *)

Message == [number : 1 .. MaxPublished, content : Contents]

LEMMA ShortType ==
    ASSUME NEW n \in Int
    PROVE  /\ Short(n) \in Int /\ 0 <= Short(n) + 32768 /\ Short(n) < 32768
           /\ UnsignedShort(n) \in Nat /\ UnsignedShort(n) < 65536
<1>1. n % 65536 \in Nat /\ n % 65536 < 65536
  OBVIOUS
<1> QED
  BY <1>1 DEF Short, UnsignedShort

\* The settings: the documents stay one of the lists, and the map holds 16 bits.
SettingsType ==
    /\ documents \in DocumentLists
    /\ read \in 0 .. Len(documents)
    /\ load \in {"reading", "loaded", "failed"}
    /\ \A oid \in DOMAIN m_mapOidSwitchInfo :
          /\ m_mapOidSwitchInfo[oid].channels \in Nat
          /\ m_mapOidSwitchInfo[oid].channels < 65536

LEMMA ListLength ==
    ASSUME NEW docs \in DocumentLists
    PROVE  /\ Len(docs) \in Nat
           /\ DOMAIN docs = 1 .. Len(docs)
           /\ \A i \in DOMAIN docs : docs[i].channels \in Int
  BY DocumentAssumption

LEMMA InfoType ==
    ASSUME NEW doc, doc.channels \in Int
    PROVE  Info(doc).channels \in Nat /\ Info(doc).channels < 65536
<1>1. Info(doc).channels = UnsignedShort(doc.channels)
  BY DEF Info
<1>2. UnsignedShort(doc.channels) \in Nat /\ UnsignedShort(doc.channels) < 65536
  BY ShortType
<1> QED
  BY <1>1, <1>2

LEMMA SettingsTypeStep ==
    ASSUME SettingsType, LoadSwitchSetting \/ UNCHANGED settings
    PROVE  SettingsType'
<1> USE DEF SettingsType
<1>0. Len(documents) \in Nat /\ DOMAIN documents = 1 .. Len(documents)
  BY ListLength
<1>1. CASE ReadDocument
  <2> DEFINE doc == documents[read + 1]
  <2>1. read + 1 \in DOMAIN documents /\ documents' = documents /\ read' \in 0 .. Len(documents)
    BY <1>0, <1>1 DEF ReadDocument
  <2>2. load' \in {"reading", "loaded", "failed"}
    BY <1>1 DEF ReadDocument
  <2>3. \/ m_mapOidSwitchInfo' = m_mapOidSwitchInfo
        \/ m_mapOidSwitchInfo' = Insert(m_mapOidSwitchInfo, doc)
    BY <1>1 DEF ReadDocument
  <2>4. Info(doc).channels \in Nat /\ Info(doc).channels < 65536
    <3>1. doc.channels \in Int
      BY <2>1, ListLength
    <3> HIDE DEF doc
    <3> QED
      BY <3>1, InfoType
  <2>5. ASSUME NEW oid \in DOMAIN m_mapOidSwitchInfo'
        PROVE  m_mapOidSwitchInfo'[oid].channels \in Nat /\ m_mapOidSwitchInfo'[oid].channels < 65536
    <3> HIDE DEF doc
    <3>1. CASE m_mapOidSwitchInfo' = m_mapOidSwitchInfo
      BY <2>5, <3>1
    <3>2. CASE m_mapOidSwitchInfo' = Insert(m_mapOidSwitchInfo, doc)
      <4>1. /\ DOMAIN m_mapOidSwitchInfo' = DOMAIN m_mapOidSwitchInfo \cup {doc.oid}
            /\ m_mapOidSwitchInfo'[oid] = IF oid \in DOMAIN m_mapOidSwitchInfo
                                         THEN m_mapOidSwitchInfo[oid] ELSE Info(doc)
        BY <2>5, <3>2 DEF Insert
      <4>2. CASE oid \in DOMAIN m_mapOidSwitchInfo
        BY <4>1, <4>2
      <4>3. CASE oid \notin DOMAIN m_mapOidSwitchInfo
        BY <2>4, <4>1, <4>3
      <4> QED
        BY <4>2, <4>3
    <3> QED
      BY <2>3, <3>1, <3>2
  <2> QED
    BY <2>1, <2>2, <2>5
<1>2. CASE CursorFails
  BY <1>2 DEF CursorFails
<1>3. CASE CursorEnds
  BY <1>3 DEF CursorEnds
<1>4. CASE UNCHANGED settings
  BY <1>4 DEF settings
<1> QED
  BY <1>1, <1>2, <1>3, <1>4 DEF LoadSwitchSetting

\* What every step does to the settings: a step of the load, or nothing.
LEMMA SettingsFrame == [Next]_vars => LoadSwitchSetting \/ UNCHANGED settings
<1> SUFFICES ASSUME [Next]_vars
             PROVE  LoadSwitchSetting \/ UNCHANGED settings
  OBVIOUS
<1>1. CASE Main
  BY <1>1 DEF Main, ParseConfiguration, ParseFails, Load, LoadFailed, CreateEngine, CreateProxy,
              DestroyProxy, DestroyEngine
<1>2. CASE Terminate \/ OnRecvMqttMessage
  BY <1>2 DEF Terminate, OnRecvMqttMessage
<1>3. CASE UNCHANGED vars
  BY <1>3 DEF vars
<1> QED
  BY <1>1, <1>2, <1>3 DEF Next, Proxy

\* The main thread's own variables.
ServerType ==
    /\ main \in {"parse", "load", "createProxy", "serve", "stopProxy", "destroyEngine", "exit"}
    /\ engine \in {"none", "alive", "destroyed"}
    /\ exitCode \in {"running", "EXIT_OK", "EXIT_CONFIG"}

LEMMA ServerTypeStep ==
    ASSUME ServerType, [Next]_vars
    PROVE  ServerType'
<1> USE DEF ServerType
<1>1. CASE Main
  BY <1>1 DEF Main, ParseConfiguration, ParseFails, Load, LoadFailed, CreateEngine, CreateProxy,
              DestroyProxy, DestroyEngine, MainGoes, Exit, serverVars
<1>2. CASE Terminate \/ OnRecvMqttMessage
  BY <1>2 DEF Terminate, OnRecvMqttMessage, MainGoes
<1>3. CASE UNCHANGED serverVars
  BY <1>3 DEF serverVars
<1> QED
  BY <1>1, <1>2, <1>3 DEF Next, Proxy, vars

\* The two flags, and the other variables of the proxy.
Flags == subscribing \in BOOLEAN /\ subscribed \in BOOLEAN

Lanes ==
    /\ m_port \in Int /\ 0 <= m_port + 32768 /\ m_port < 32768
    /\ client \in {"none", "trying", "connected", "accepted", "disconnecting", "gone"}
    /\ inFlight \in Seq(Message)
    /\ callback \in Message \cup {NoMessage}
    /\ published \in 0 .. MaxPublished
    /\ handled \in Seq(1 .. MaxPublished)

LEMMA ProxyTypeParts == ProxyTypeOK <=> Flags /\ Lanes
<1>1. ProxyTypeOK => Flags
  BY DEF ProxyTypeOK, Flags
<1>2. ProxyTypeOK => Lanes
  BY DEF ProxyTypeOK, Lanes, Message
<1>3. Flags /\ Lanes => ProxyTypeOK
  <2> SUFFICES ASSUME Flags, Lanes
               PROVE  ProxyTypeOK
    OBVIOUS
  <2>1. (subscribing \in BOOLEAN) /\ (subscribed \in BOOLEAN)
    BY DEF Flags
  <2>2. m_port \in Int /\ 0 <= m_port + 32768 /\ m_port < 32768
    BY DEF Lanes
  <2>3. /\ client \in {"none", "trying", "connected", "accepted", "disconnecting", "gone"}
        /\ inFlight \in Seq([number : 1 .. MaxPublished, content : Contents])
        /\ callback \in [number : 1 .. MaxPublished, content : Contents] \cup {NoMessage}
        /\ published \in 0 .. MaxPublished
        /\ handled \in Seq(1 .. MaxPublished)
    BY DEF Lanes, Message
  <2> QED
    BY <2>1, <2>2, <2>3 DEF ProxyTypeOK
<1> QED
  BY <1>1, <1>2, <1>3

LEMMA ProxyTypeInit == Init => ProxyTypeOK
<1> SUFFICES ASSUME Init
             PROVE  Flags /\ Lanes
  BY ProxyTypeParts
<1>1. inFlight \in Seq(Message) /\ handled \in Seq(1 .. MaxPublished)
  BY DEF Init, ProxyInit
<1>2. Flags
  BY DEF Init, ProxyInit, Flags
<1>3. Lanes
  BY <1>1, PublishedAssumption DEF Init, ProxyInit, Lanes
<1> QED
  BY <1>2, <1>3

\* Every step of the proxy and its port, whoever takes it.
ProxyStep ==
    \/ (\E port \in MqttPorts : m_port' = Short(port)) /\ UNCHANGED <<network, delivery>>
    \/ Construct \/ Retry \/ OnConnect \/ OnConnectRefused \/ Subscribe \/ Lose
    \/ Publish \/ OnMessage \/ CallbackReturns \/ Disconnect \/ LoopStop
    \/ UNCHANGED proxyVars

LEMMA ProxyFrame == [Next]_vars => ProxyStep
<1> SUFFICES ASSUME [Next]_vars
             PROVE  ProxyStep
  OBVIOUS
<1> USE DEF ProxyStep
<1>1. CASE Main
  BY <1>1 DEF Main, ParseConfiguration, ParseFails, Load, LoadFailed, CreateEngine, CreateProxy,
              DestroyProxy, DestroyEngine
<1>2. CASE Terminate \/ OnRecvMqttMessage
  BY <1>2 DEF Terminate, OnRecvMqttMessage
<1>3. CASE UNCHANGED vars
  BY <1>3 DEF vars
<1> QED
  BY <1>1, <1>2, <1>3 DEF Next, Proxy

LEMMA FlagsStep ==
    ASSUME Flags, ProxyStep
    PROVE  Flags'
  BY DEF Flags, ProxyStep, Construct, Retry, OnConnect, OnConnectRefused, Subscribe, Lose, Publish,
         OnMessage, CallbackReturns, Disconnect, LoopStop, network, proxyVars

LEMMA LanesStep ==
    ASSUME Lanes, ProxyStep
    PROVE  Lanes'
<1> USE DEF Lanes
<1>1. CASE (\E port \in MqttPorts : m_port' = Short(port)) /\ UNCHANGED <<network, delivery>>
  <2>1. PICK port \in MqttPorts : m_port' = Short(port)
    BY <1>1
  <2>2. m_port' \in Int /\ 0 <= m_port' + 32768 /\ m_port' < 32768
    BY <2>1, ShortType, PortAssumption
  <2> QED
    BY <1>1, <2>2 DEF network, delivery
<1>2. CASE Construct \/ Retry \/ OnConnect \/ OnConnectRefused
  <2>1. client' \in {"none", "trying", "connected", "accepted", "disconnecting", "gone"}
    BY <1>2 DEF Construct, Retry, OnConnect, OnConnectRefused
  <2>2. UNCHANGED <<m_port, inFlight, callback, published, handled>>
    BY <1>2 DEF Construct, Retry, OnConnect, OnConnectRefused, delivery
  <2> QED
    BY <2>1, <2>2
<1>3. CASE Subscribe
  BY <1>3 DEF Subscribe, delivery
<1>4. CASE Lose \/ Disconnect \/ LoopStop
  <2>1. client' \in {"none", "trying", "connected", "accepted", "disconnecting", "gone"}
    BY <1>4 DEF Lose, Disconnect, LoopStop
  <2>2. inFlight' = inFlight \/ inFlight' = <<>>
    BY <1>4 DEF Lose, Disconnect, LoopStop
  <2>3. <<>> \in Seq(Message) /\ inFlight \in Seq(Message)
    OBVIOUS
  <2>4. inFlight' \in Seq(Message)
    <3>1. CASE inFlight' = inFlight
      BY <2>3, <3>1
    <3>2. CASE inFlight' = <<>>
      BY <2>3, <3>2
    <3> QED
      BY <2>2, <3>1, <3>2
  <2>5. UNCHANGED <<m_port, callback, published, handled>>
    BY <1>4 DEF Lose, Disconnect, LoopStop, delivery
  <2> QED
    BY <2>1, <2>4, <2>5
<1>5. CASE Publish
  <2>1. published' \in 1 .. MaxPublished
    BY <1>5, PublishedAssumption DEF Publish
  <2>2. inFlight' \in Seq(Message)
    <3>1. PICK c \in Contents :
             inFlight' = IF subscribed
                         THEN Append(inFlight, [number |-> published', content |-> c])
                         ELSE inFlight
      BY <1>5 DEF Publish
    <3>2. [number |-> published', content |-> c] \in Message
      BY <2>1 DEF Message
    <3>3. Append(inFlight, [number |-> published', content |-> c]) \in Seq(Message)
      BY <3>2
    <3> QED
      BY <3>1, <3>3
  <2> QED
    BY <1>5, <2>1, <2>2 DEF Publish
<1>6. CASE OnMessage
  <2>1. Tail(inFlight) \in Seq(Message) /\ Head(inFlight) \in Message
    BY <1>6 DEF OnMessage
  <2>2. inFlight' \in Seq(Message) /\ callback' \in Message \cup {NoMessage}
    BY <1>6, <2>1 DEF OnMessage
  <2> QED
    BY <1>6, <2>2 DEF OnMessage
<1>7. CASE CallbackReturns
  <2>1. callback.number \in 1 .. MaxPublished
    BY <1>7 DEF CallbackReturns, Message
  <2>2. Append(handled, callback.number) \in Seq(1 .. MaxPublished)
    BY <2>1
  <2> QED
    BY <1>7, <2>2 DEF CallbackReturns, network
<1>8. CASE UNCHANGED proxyVars
  BY <1>8 DEF proxyVars, network, delivery
<1> QED
  BY <1>1, <1>2, <1>3, <1>4, <1>5, <1>6, <1>7, <1>8 DEF ProxyStep

LEMMA ProxyTypeStep ==
    ASSUME ProxyTypeOK, ProxyStep
    PROVE  ProxyTypeOK'
<1>1. Flags' /\ Lanes'
  BY ProxyTypeParts, FlagsStep, LanesStep
<1>2. (Flags /\ Lanes => ProxyTypeOK)'
  BY ProxyTypeParts, PTL
<1> QED
  BY <1>1, <1>2

TypeInv == ProxyTypeOK /\ SettingsType /\ ServerType

LEMMA TypeInvInit == Init => TypeInv
<1> SUFFICES ASSUME Init
             PROVE  TypeInv
  OBVIOUS
<1>1. SettingsType
  BY ListLength DEF Init, SettingsInit, SettingsType
<1> QED
  BY <1>1, ProxyTypeInit DEF Init, TypeInv, ServerType

LEMMA TypeInvStep == TypeInv /\ [Next]_vars => TypeInv'
  BY SettingsFrame, SettingsTypeStep, ProxyFrame, ProxyTypeStep, ServerTypeStep DEF TypeInv

\* Every variable of the server and its proxy stays in its range; in particular the
\* port fits a short and the channels of a switch an unsigned short.
THEOREM ServerTypes == Spec => []TypeOK
<1>1. TypeInv => TypeOK
  BY DEF TypeInv, TypeOK, SettingsType, ServerType
<1> QED
  BY <1>1, TypeInvInit, TypeInvStep, PTL DEF Spec

-----------------------------------------------------------------------------
(* At most once and in order                                                 *)

\* A request goes from the broker through the callback to its end: the numbers rise
\* along the way back, and none is beyond what was published.
Order ==
    /\ OnceInOrder
    /\ \A i \in DOMAIN handled : handled[i] <= published
    /\ \A i \in DOMAIN handled, k \in DOMAIN inFlight : handled[i] < inFlight[k].number
    /\ \A k \in DOMAIN inFlight : inFlight[k].number <= published
    /\ \A k, l \in DOMAIN inFlight : k < l => inFlight[k].number < inFlight[l].number
    /\ callback # NoMessage =>
         /\ callback.number <= published
         /\ \A i \in DOMAIN handled : handled[i] < callback.number
         /\ \A k \in DOMAIN inFlight : callback.number < inFlight[k].number

LEMMA ElementType ==
    ASSUME NEW S, NEW s \in Seq(S), NEW i \in DOMAIN s
    PROVE  s[i] \in S
  OBVIOUS

LEMMA OrderStep ==
    ASSUME Lanes, Order, ProxyStep
    PROVE  Order'
<1> USE DEF Order, OnceInOrder
<1>0. /\ inFlight \in Seq(Message) /\ handled \in Seq(1 .. MaxPublished) /\ published \in Nat
      /\ callback # NoMessage => callback \in Message
  BY PublishedAssumption DEF Lanes
<1>7. /\ \A i \in DOMAIN handled : handled[i] \in Nat
      /\ \A k \in DOMAIN inFlight : inFlight[k].number \in Nat
      /\ callback # NoMessage => callback.number \in Nat
  <2>1. \A m \in Message : m.number \in Nat
    BY DEF Message
  <2>2. \A k \in DOMAIN inFlight : inFlight[k] \in Message
    BY <1>0 DEF Lanes
  <2>3. \A i \in DOMAIN handled : handled[i] \in 1 .. MaxPublished
    BY <1>0, ElementType
  <2>4. \A i \in DOMAIN handled : handled[i] \in Nat
    BY <2>3
  <2> QED
    BY <1>0, <2>1, <2>2, <2>4
<1>1. CASE inFlight' = <<>> /\ UNCHANGED delivery
  <2>1. published' = published /\ callback' = callback /\ handled' = handled
    BY <1>1 DEF delivery
  <2>2. DOMAIN inFlight' = {}
    BY <1>1
  <2> QED
    BY <2>1, <2>2
<1>2. CASE UNCHANGED <<inFlight, delivery>>
  BY <1>2 DEF delivery
<1>3. CASE Publish
  <2>1. published' = published + 1 /\ callback' = callback /\ handled' = handled
    BY <1>3 DEF Publish
  <2>2. PICK c \in Contents :
           inFlight' = IF subscribed
                       THEN Append(inFlight, [number |-> published + 1, content |-> c])
                       ELSE inFlight
    BY <1>3 DEF Publish
  <2>6. CASE inFlight' = inFlight
    BY <1>0, <1>7, <2>1, <2>6
  <2>7. CASE inFlight' = Append(inFlight, [number |-> published + 1, content |-> c])
    <3>1. DOMAIN inFlight' = DOMAIN inFlight \cup {Len(inFlight) + 1}
      BY <1>0, <2>7
    <3>2. \A k \in DOMAIN inFlight : inFlight'[k] = inFlight[k] /\ k \in 1 .. Len(inFlight)
      BY <1>0, <2>7
    <3>3. inFlight'[Len(inFlight) + 1].number = published + 1
      BY <1>0, <2>7
    <3>4. \A k \in DOMAIN inFlight' :
             \/ k \in DOMAIN inFlight /\ inFlight'[k].number = inFlight[k].number
             \/ k = Len(inFlight) + 1 /\ inFlight'[k].number = published + 1
      BY <3>1, <3>2, <3>3
    <3>5. Len(inFlight) \in Nat
      BY <1>0
    <3>6. \A k, l \in DOMAIN inFlight' : k < l => inFlight'[k].number < inFlight'[l].number
      BY <1>0, <1>7, <3>2, <3>4, <3>5
    <3>7. /\ \A k \in DOMAIN inFlight' : inFlight'[k].number <= published'
          /\ \A i \in DOMAIN handled' : handled'[i] <= published'
          /\ \A i \in DOMAIN handled', k \in DOMAIN inFlight' :
                handled'[i] < inFlight'[k].number
      <4>1. \A k \in DOMAIN inFlight' : inFlight'[k].number <= published'
        BY <1>0, <1>7, <2>1, <3>4
      <4>2. \A i \in DOMAIN handled' : handled'[i] <= published'
        BY <1>0, <1>7, <2>1
      <4>3. \A i \in DOMAIN handled : handled[i] < published + 1
        BY <1>0, <1>7
      <4>4. \A i \in DOMAIN handled', k \in DOMAIN inFlight' :
               handled'[i] < inFlight'[k].number
        BY <2>1, <3>4, <4>3
      <4> QED
        BY <4>1, <4>2, <4>4
    <3>8. callback' # NoMessage =>
             /\ callback'.number <= published'
             /\ \A i \in DOMAIN handled' : handled'[i] < callback'.number
             /\ \A k \in DOMAIN inFlight' : callback'.number < inFlight'[k].number
      BY <1>0, <1>7, <2>1, <3>4
    <3> QED
      BY <2>1, <3>6, <3>7, <3>8
  <2> QED
    BY <2>2, <2>6, <2>7
<1>4. CASE OnMessage
  <2>1. published' = published /\ handled' = handled /\ inFlight # <<>>
    BY <1>4 DEF OnMessage
  <2>2. inFlight' = Tail(inFlight) /\ (callback' = NoMessage \/ callback' = inFlight[1])
    BY <1>0, <1>4 DEF OnMessage
  <2>3. 1 \in DOMAIN inFlight
    BY <1>0, <2>1
  <2>4. \A k \in DOMAIN inFlight' :
           k + 1 \in DOMAIN inFlight /\ inFlight'[k] = inFlight[k + 1] /\ k \in Nat \ {0}
    BY <1>0, <2>1, <2>2
  <2>5. \A k, l \in DOMAIN inFlight' : k < l => inFlight'[k].number < inFlight'[l].number
    BY <2>4
  <2>6. \A k \in DOMAIN inFlight' :
           /\ inFlight'[k].number <= published
           /\ inFlight[1].number < inFlight'[k].number
           /\ \A i \in DOMAIN handled : handled[i] < inFlight'[k].number
    BY <2>3, <2>4
  <2> QED
    BY <2>1, <2>2, <2>3, <2>5, <2>6
<1>5. CASE CallbackReturns
  <2>1. published' = published /\ inFlight' = inFlight /\ callback' = NoMessage
        /\ callback # NoMessage /\ handled' = Append(handled, callback.number)
    BY <1>5 DEF CallbackReturns, network
  <2>2. DOMAIN handled' = DOMAIN handled \cup {Len(handled) + 1} /\ Len(handled) \in Nat
    BY <1>0, <2>1
  <2>3. \A i \in DOMAIN handled : handled'[i] = handled[i] /\ i \in 1 .. Len(handled)
    BY <1>0, <2>1
  <2>4. handled'[Len(handled) + 1] = callback.number
    BY <1>0, <2>1
  <2>5. \A i, j \in DOMAIN handled' : i < j => handled'[i] < handled'[j]
    BY <2>1, <2>2, <2>3, <2>4
  <2> QED
    BY <2>1, <2>2, <2>3, <2>4, <2>5
<1>6. ASSUME ~Publish, ~OnMessage, ~CallbackReturns
      PROVE  (inFlight' = <<>> /\ UNCHANGED delivery) \/ UNCHANGED <<inFlight, delivery>>
  BY <1>6 DEF ProxyStep, Construct, Retry, OnConnect, OnConnectRefused, Subscribe, Lose,
              Disconnect, LoopStop, network, proxyVars
<1> QED
  BY <1>1, <1>2, <1>3, <1>4, <1>5, <1>6

\* Whatever connections are lost and made again, no request is handled twice or
\* after a later one.
THEOREM HandledOnceInOrder == Spec => []OnceInOrder
<1>1. Init => Order
  BY DEF Init, ProxyInit, Order, OnceInOrder
<1>2. TypeInv /\ Order /\ [Next]_vars => Order'
  BY OrderStep, ProxyFrame, ProxyTypeParts DEF TypeInv
<1>3. Order => OnceInOrder
  BY DEF Order
<1> QED
  BY <1>1, <1>2, <1>3, TypeInvInit, TypeInvStep, PTL DEF Spec

-----------------------------------------------------------------------------
(* The switches that were loaded                                             *)

Seen == {i \in 1 .. read : documents[i].complete}

\* SettingsRight, of the documents that were read so far.
Prefix ==
    /\ load = "loaded" => read = Len(documents)
    /\ load # "failed" =>
         /\ \A i \in Seen : ~documents[i].wide
         /\ DOMAIN m_mapOidSwitchInfo = {documents[i].oid : i \in Seen}
         /\ \A i \in Seen :
               \/ m_mapOidSwitchInfo[documents[i].oid] = Info(documents[i])
               \/ \E j \in Seen : j < i /\ documents[j].oid = documents[i].oid

LEMMA PrefixInit == Init => Prefix
<1> SUFFICES ASSUME Init
             PROVE  Prefix
  OBVIOUS
<1>1. Seen = {} /\ DOMAIN m_mapOidSwitchInfo = {}
  BY DEF Init, SettingsInit, Seen
<1> QED
  BY <1>1 DEF Init, SettingsInit, Prefix

LEMMA PrefixStep ==
    ASSUME SettingsType, Prefix, LoadSwitchSetting \/ UNCHANGED settings
    PROVE  Prefix'
<1> USE DEF Prefix
<1>0. read \in Nat /\ Len(documents) \in Nat
  BY ListLength DEF SettingsType
<1>1. CASE ReadDocument
  <2> DEFINE doc == documents[read + 1]
  <2>1. documents' = documents /\ read' = read + 1 /\ load = "reading"
    BY <1>1 DEF ReadDocument
  <2>2. \A i : i \in 1 .. read + 1 <=> i \in 1 .. read \/ i = read + 1
    BY <1>0
  <2>3. Seen' = {i \in 1 .. read + 1 : documents[i].complete}
    BY <2>1 DEF Seen
  <2>4. CASE ~doc.complete /\ UNCHANGED <<m_mapOidSwitchInfo, load>>
    <3>1. Seen' = Seen
      BY <2>2, <2>3, <2>4 DEF Seen
    <3> QED
      BY <2>1, <2>4, <3>1
  <2>5. CASE load' = "failed"
    BY <2>5
  <2>6. CASE /\ doc.complete /\ ~doc.wide
             /\ m_mapOidSwitchInfo' = Insert(m_mapOidSwitchInfo, doc)
             /\ UNCHANGED load
    <3> HIDE DEF Prefix
    <3>0. /\ \A i \in Seen : ~documents[i].wide
          /\ DOMAIN m_mapOidSwitchInfo = {documents[i].oid : i \in Seen}
          /\ \A i \in Seen :
                \/ m_mapOidSwitchInfo[documents[i].oid] = Info(documents[i])
                \/ \E j \in Seen : j < i /\ documents[j].oid = documents[i].oid
      BY <2>1 DEF Prefix
    <3>1. Seen' = Seen \cup {read + 1}
      BY <2>2, <2>3, <2>6 DEF Seen
    <3>2. /\ DOMAIN m_mapOidSwitchInfo' = DOMAIN m_mapOidSwitchInfo \cup {doc.oid}
          /\ \A oid \in DOMAIN m_mapOidSwitchInfo :
                m_mapOidSwitchInfo'[oid] = m_mapOidSwitchInfo[oid]
          /\ doc.oid \notin DOMAIN m_mapOidSwitchInfo => m_mapOidSwitchInfo'[doc.oid] = Info(doc)
      <4> HIDE DEF doc
      <4>1. m_mapOidSwitchInfo' = Insert(m_mapOidSwitchInfo, doc)
        BY <2>6
      <4> QED
        BY <4>1 DEF Insert
    <3>3. \A i \in Seen' : ~documents[i].wide
      BY <2>6, <3>0, <3>1
    <3>4. DOMAIN m_mapOidSwitchInfo' = {documents[i].oid : i \in Seen'}
      BY <3>0, <3>1, <3>2
    <3>5. ASSUME NEW i \in Seen'
          PROVE  \/ m_mapOidSwitchInfo'[documents[i].oid] = Info(documents[i])
                 \/ \E j \in Seen' : j < i /\ documents[j].oid = documents[i].oid
      <4>1. CASE i \in Seen
        <5>1. m_mapOidSwitchInfo'[documents[i].oid] = m_mapOidSwitchInfo[documents[i].oid]
          BY <3>0, <3>2, <4>1
        <5> QED
          BY <3>0, <3>1, <4>1, <5>1
      <4>2. CASE i = read + 1 /\ doc.oid \notin DOMAIN m_mapOidSwitchInfo
        BY <3>2, <4>2
      <4>3. CASE i = read + 1 /\ doc.oid \in DOMAIN m_mapOidSwitchInfo
        <5>1. PICK j \in Seen : documents[j].oid = doc.oid
          BY <3>0, <4>3
        <5>2. j < read + 1
          BY <1>0 DEF Seen
        <5> QED
          BY <3>1, <4>3, <5>1, <5>2
      <4> QED
        BY <3>1, <4>1, <4>2, <4>3
    <3> QED
      BY <2>1, <2>6, <3>3, <3>4, <3>5 DEF Prefix
  <2> QED
    BY <1>1, <2>4, <2>5, <2>6 DEF ReadDocument
<1>2. CASE CursorFails
  BY <1>2 DEF CursorFails
<1>3. CASE CursorEnds
  BY <1>3 DEF CursorEnds, Seen
<1>4. CASE UNCHANGED settings
  BY <1>4 DEF settings, Seen
<1> QED
  BY <1>1, <1>2, <1>3, <1>4 DEF LoadSwitchSetting

\* What was loaded is the collection: every complete document, the first of each
\* oid, and nothing else; one wide document fails the load.
THEOREM SettingsLoaded == Spec => []SettingsRight
<1>1. TypeInv /\ Prefix => SettingsRight
  <2> SUFFICES ASSUME SettingsType, Prefix, load = "loaded"
               PROVE  SettingsRight
    BY DEF TypeInv, SettingsRight
  <2>1. Seen = {i \in DOMAIN documents : documents[i].complete}
    BY ListLength DEF SettingsType, Prefix, Seen
  <2> QED
    BY <2>1 DEF Prefix, SettingsRight
<1>2. TypeInv /\ Prefix /\ [Next]_vars => Prefix'
  BY SettingsFrame, PrefixStep DEF TypeInv
<1> QED
  BY <1>1, <1>2, PrefixInit, TypeInvInit, TypeInvStep, PTL DEF Spec
-----------------------------------------------------------------------------
(* What becomes of an accepted request                                       *)

\* The switches are not read again once requests can come, so that a request that
\* passed the checks would pass them at any later time.
AcceptedInv ==
    /\ main \in {"parse", "load"} => accepted = {}
    /\ \A request \in accepted : request.channel \in Int /\ Passes(request)

LEMMA PassesAsBefore ==
    ASSUME NEW request, UNCHANGED settings
    PROVE  Passes(request)' <=> Passes(request)
  BY DEF Passes, settings

LEMMA AcceptedStep ==
    ASSUME Lifetimes, Lanes, AcceptedInv, [Next]_vars
    PROVE  AcceptedInv'
<1> USE DEF AcceptedInv
<1>1. CASE Load
  <2>1. main = "load" /\ main' = main /\ accepted' = accepted
    BY <1>1 DEF Load, serverVars
  <2> QED
    BY <2>1
<1>2. CASE OnRecvMqttMessage
  <2> DEFINE request == RequestOf[callback.content]
  <2>1. /\ callback # NoMessage /\ main' = main /\ UNCHANGED settings
        /\ accepted' = IF Passes(request) THEN accepted \cup {request} ELSE accepted
    BY <1>2 DEF OnRecvMqttMessage, CallbackReturns
  <2>2. callback.content \in Contents
    BY <2>1 DEF Lanes, Message
  <2>3. request.channel \in Int
    BY <2>2, RequestAssumption
  <2>4. main \notin {"parse", "load"}
    BY <2>1 DEF Lifetimes
  <2> HIDE DEF request
  <2>5. \A r \in accepted' : r.channel \in Int /\ Passes(r)
    BY <2>1, <2>3
  <2> QED
    BY <2>1, <2>4, <2>5, PassesAsBefore
<1>3. CASE Main /\ ~Load
  <2>1. /\ accepted' = accepted /\ UNCHANGED settings
        /\ main' \in {"parse", "load"} => main \in {"parse", "load"}
    BY <1>3 DEF Main, ParseConfiguration, ParseFails, LoadFailed, CreateEngine, CreateProxy,
                DestroyProxy, DestroyEngine, MainGoes, Exit
  <2> QED
    BY <2>1, PassesAsBefore
<1>4. CASE Terminate \/ UNCHANGED vars \/ UNCHANGED <<settings, serverVars>>
  <2>1. /\ accepted' = accepted /\ UNCHANGED settings
        /\ main' \in {"parse", "load"} => main \in {"parse", "load"}
    BY <1>4 DEF Terminate, MainGoes, vars, serverVars
  <2> QED
    BY <2>1, PassesAsBefore
<1> QED
  BY <1>1, <1>2, <1>3, <1>4 DEF Next, Proxy

LEMMA AcceptedAlways == Spec => []AcceptedInv
<1>1. Init => AcceptedInv
  BY DEF Init, AcceptedInv
<1>2. TypeInv => Lanes
  BY ProxyTypeParts DEF TypeInv
<1> QED
  BY <1>1, <1>2, AcceptedStep, LifetimesInit, LifetimesStep, TypeInvInit, TypeInvStep, PTL DEF Spec

\* A request that was accepted stays one the settings allow: nothing the network
\* thread relied on when it passed the checks is changed under the request.
THEOREM AcceptedStaysAllowed == Spec => [](\A request \in accepted : Passes(request))
<1>1. AcceptedInv => \A request \in accepted : Passes(request)
  BY DEF AcceptedInv
<1> QED
  BY <1>1, AcceptedAlways, PTL

\* For every request and every switch that may be configured, and whatever the build
\* does with a power that does not fit: below channel 16 the relay moves the door
\* that was asked for and no other.
THEOREM AcceptedMoveOwnDoor == Spec => []OwnDoor
<1>1. AcceptedInv => OwnDoor
  <2> SUFFICES ASSUME AcceptedInv, NEW request \in accepted, request.channel < 16
               PROVE  /\ \A frame \in make_open_command(request.channel) :
                            Sound(frame) /\ Opened(frame) = {request.channel}
                      /\ \A frame \in make_close_command(request.channel) :
                            /\ Sound(frame)
                            /\ Selected(frame) = {request.channel} /\ Opened(frame) = {}
    BY DEF OwnDoor
  <2>1. request.channel \in Int /\ request.channel > 0
    BY DEF AcceptedInv, Passes
  <2>2. request.channel \in 1 .. 15
    BY <2>1
  <2> QED
    BY <2>2, CommandsMoveOwnDoor
<1> QED
  BY <1>1, AcceptedAlways, PTL

-----------------------------------------------------------------------------
(* When the proxy hears requests                                             *)

\* A refused port is never connected, whatever came before main() read it.
Listening ==
    /\ client = "accepted" <=> subscribing \/ subscribed
    /\ PortRefused \/ main = "parse" =>
          /\ client \notin {"connected", "accepted"}
          /\ inFlight = <<>> /\ callback = NoMessage
          /\ handled = <<>> /\ accepted = {}

LEMMA ListeningStep ==
    ASSUME Lifetimes, AcceptedInv, Listening, [Next]_vars
    PROVE  Listening'
<1> USE DEF Listening, PortRefused
<1>1. CASE ParseConfiguration
  <2>1. main = "parse" /\ UNCHANGED <<network, delivery, accepted>>
    BY <1>1 DEF ParseConfiguration, MainGoes
  <2> QED
    BY <2>1 DEF network, delivery
<1>2. ASSUME UNCHANGED <<proxyVars, accepted>>, main' = "parse" => main = "parse"
      PROVE  Listening'
  BY <1>2 DEF proxyVars, network, delivery
<1>3. CASE ParseFails \/ Load \/ LoadFailed \/ CreateEngine \/ DestroyEngine \/ UNCHANGED vars
  <2>1. UNCHANGED <<proxyVars, accepted>>
    BY <1>3 DEF ParseFails, Load, LoadFailed, CreateEngine, DestroyEngine, vars, serverVars
  <2>2. main' = "parse" => main = "parse"
    BY <1>3 DEF ParseFails, Load, LoadFailed, CreateEngine, DestroyEngine, MainGoes, Exit, vars,
                serverVars
  <2> QED
    BY <1>2, <2>1, <2>2
<1>4. CASE CreateProxy \/ Terminate \/ DestroyProxy
  <2>1. /\ main \in {"createProxy", "serve", "stopProxy"} /\ main' # "parse"
        /\ UNCHANGED <<m_port, callback, handled, accepted>>
    BY <1>4 DEF CreateProxy, Terminate, DestroyProxy, MainGoes, Construct, Disconnect, LoopStop,
                delivery
  <2>2. \/ /\ client' \in IF PortRefused THEN {"trying"} ELSE {"trying", "connected"}
           /\ client = "none" /\ UNCHANGED <<subscribing, subscribed, inFlight>>
        \/ client' = "disconnecting" /\ ~subscribing' /\ ~subscribed' /\ inFlight' = inFlight
        \/ /\ client = "disconnecting" /\ client' = "gone" /\ inFlight' = <<>>
           /\ UNCHANGED <<subscribing, subscribed>>
    BY <1>4 DEF CreateProxy, Terminate, DestroyProxy, MainGoes, Construct, Disconnect, LoopStop
  <2> QED
    BY <2>1, <2>2
<1>5. CASE OnRecvMqttMessage
  <2>1. callback # NoMessage /\ UNCHANGED <<m_port, network, main>>
    BY <1>5 DEF OnRecvMqttMessage, CallbackReturns
  <2> QED
    BY <2>1 DEF network
<1>6. CASE Proxy(Retry) \/ Proxy(OnConnect) \/ Proxy(OnConnectRefused) \/ Proxy(Lose)
  <2>1. UNCHANGED <<m_port, callback, handled, accepted, main>>
    BY <1>6 DEF Proxy, Retry, OnConnect, OnConnectRefused, Lose, delivery, serverVars
  <2>2. \/ /\ client = "trying" /\ ~PortRefused /\ client' = "connected"
           /\ UNCHANGED <<subscribing, subscribed, inFlight>>
        \/ /\ client = "connected" /\ client' = "accepted" /\ subscribing'
           /\ UNCHANGED <<subscribed, inFlight>>
        \/ /\ client = "connected" /\ client' = "trying"
           /\ UNCHANGED <<subscribing, subscribed, inFlight>>
        \/ client' = "trying" /\ ~subscribing' /\ ~subscribed' /\ inFlight' = <<>>
    BY <1>6 DEF Proxy, Retry, OnConnect, OnConnectRefused, Lose
  <2>3. CASE main = "parse"
    BY <2>1, <2>2, <2>3 DEF Lifetimes
  <2>4. CASE main # "parse"
    BY <2>1, <2>2, <2>4
  <2> QED
    BY <2>3, <2>4
<1>7. CASE Proxy(Subscribe)
  <2>1. /\ UNCHANGED <<m_port, client, inFlight, callback, handled, accepted, main>>
        /\ subscribing /\ subscribed'
    BY <1>7 DEF Proxy, Subscribe, delivery, serverVars
  <2> QED
    BY <2>1
<1>8. CASE Proxy(Publish)
  <2>1. /\ UNCHANGED <<m_port, client, subscribing, subscribed, callback, handled, accepted, main>>
        /\ ~subscribed => inFlight' = inFlight
    BY <1>8 DEF Proxy, Publish, serverVars
  <2> QED
    BY <2>1
<1>9. CASE Proxy(OnMessage)
  <2>1. /\ UNCHANGED <<m_port, client, subscribing, subscribed, handled, accepted, main>>
        /\ inFlight # <<>>
    BY <1>9 DEF Proxy, OnMessage, serverVars
  <2> QED
    BY <2>1
<1> QED
  BY <1>1, <1>3, <1>4, <1>5, <1>6, <1>7, <1>8, <1>9 DEF Next, Main

LEMMA ListeningAlways == Spec => [](Lifetimes /\ Listening)
<1>1. Init => Listening
  BY DEF Init, ProxyInit, Listening
<1> QED
  BY <1>1, ListeningStep, AcceptedAlways, LifetimesInit, LifetimesStep, PTL DEF Spec

\* However often the broker refuses or loses the client: a proxy that serves has its
\* subscription, has asked for it, or is on its way to a connection; on_connect never
\* leaves it accepted and deaf.
THEOREM ServedIsSubscribed ==
    Spec => [](main = "serve" => subscribing \/ subscribed \/ client \in {"trying", "connected"})
<1>1. Lifetimes /\ Listening =>
         (main = "serve" => subscribing \/ subscribed \/ client \in {"trying", "connected"})
  BY DEF Lifetimes, Listening
<1> QED
  BY <1>1, ListeningAlways, PTL

\* The other side of the ignored result of connect(): with a port that the cast to
\* short made negative the server runs and never gets a request.
THEOREM RefusedPortIsDeaf == Spec => [](PortRefused => handled = <<>> /\ accepted = {})
<1>1. Listening => (PortRefused => handled = <<>> /\ accepted = {})
  BY DEF Listening
<1> QED
  BY <1>1, ListeningAlways, PTL
=============================================================================
