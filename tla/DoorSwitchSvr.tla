---------------------------- MODULE DoorSwitchSvr ----------------------------
(***************************************************************************)
(* The server: main() reads the configuration and the switches, creates    *)
(* the engine and the proxy, serves until it is told to terminate, and     *)
(* destroys the two in the reverse order.  The proxy's callback is the     *)
(* engine's onRecvMqttMessage; what it does with a request that passes its *)
(* checks is SwitchRouting, here it counts as the command it ends in.      *)
(***************************************************************************)
EXTENDS MqttProxy, SwitchSettings

CONSTANTS
    MqttPorts,      \* what the configuration can say for mqtt.port
    RequestOf       \* the request a content is parsed to, or NoRequest

ASSUME PortAssumption == MqttPorts \subseteq Int
ASSUME RequestAssumption == \A c \in Contents : RequestOf[c].channel \in Int

NoRequest == [oid |-> "none", channel |-> 0]

VARIABLES
    main,           \* where the main thread is
    engine,         \* "none", "alive" or "destroyed"
    exitCode,
    accepted        \* history: the requests that passed the checks

serverVars == <<main, engine, exitCode, accepted>>
vars == <<proxyVars, settings, serverVars>>

\* The configuration holds the defaults of its types.
Init ==
    /\ ProxyInit
    /\ m_port = 1883
    /\ SettingsInit
    /\ main = "parse"
    /\ engine = "none"
    /\ exitCode = "running"
    /\ accepted = {}

-----------------------------------------------------------------------------
(* The main thread                                                           *)

MainGoes(from, to) ==
    /\ main = from
    /\ main' = to

Exit(from, code) ==
    /\ MainGoes(from, "exit")
    /\ exitCode' = code

\* (short)config().getInt("mqtt.port").
ParseConfiguration ==
    /\ MainGoes("parse", "load")
    /\ \E port \in MqttPorts : m_port' = Short(port)
    /\ UNCHANGED <<network, delivery, settings, engine, exitCode, accepted>>
ParseFails ==
    /\ Exit("parse", "EXIT_CONFIG")
    /\ UNCHANGED <<proxyVars, settings, engine, accepted>>

Load ==
    /\ main = "load"
    /\ LoadSwitchSetting
    /\ UNCHANGED <<proxyVars, serverVars>>

\* A failed load ends the program with what parseConfiguration returned.
LoadFailed ==
    /\ load = "failed"
    /\ Exit("load", "EXIT_OK")
    /\ UNCHANGED <<proxyVars, settings, engine, accepted>>

CreateEngine ==
    /\ load = "loaded"
    /\ MainGoes("load", "createProxy")
    /\ engine' = "alive"
    /\ UNCHANGED <<proxyVars, settings, exitCode, accepted>>

CreateProxy ==
    /\ MainGoes("createProxy", "serve")
    /\ Construct
    /\ UNCHANGED <<settings, engine, exitCode, accepted>>

\* waitForTerminationRequest() has returned; the proxy was created last.
Terminate ==
    /\ MainGoes("serve", "stopProxy")
    /\ Disconnect
    /\ UNCHANGED <<settings, engine, exitCode, accepted>>

DestroyProxy ==
    /\ MainGoes("stopProxy", "destroyEngine")
    /\ LoopStop
    /\ UNCHANGED <<settings, engine, exitCode, accepted>>

\* The destructor closes the handlers one after the other and may wait for one of
\* them for ever: CloseReturns of Reconnect and of ChannelWorker say when it does not.
DestroyEngine ==
    /\ Exit("destroyEngine", "EXIT_OK")
    /\ engine' = "destroyed"
    /\ UNCHANGED <<proxyVars, settings, accepted>>

Main ==
    \/ ParseConfiguration \/ ParseFails \/ Load \/ LoadFailed
    \/ CreateEngine \/ CreateProxy \/ DestroyProxy \/ DestroyEngine

-----------------------------------------------------------------------------
(* The network thread and the broker                                         *)

\* The checks of onRecvMqttMessage; nothing happens to a request that fails one.
NoLowerBoundMutant(request) ==
    /\ request.oid \in DOMAIN m_mapOidSwitchInfo
    /\ request.channel <= m_mapOidSwitchInfo[request.oid].channels
Passes(request) ==
    /\ request.oid \in DOMAIN m_mapOidSwitchInfo
    /\ request.channel > 0
    /\ request.channel <= m_mapOidSwitchInfo[request.oid].channels

OnRecvMqttMessage ==
    /\ CallbackReturns
    /\ LET request == RequestOf[callback.content] IN
       accepted' = IF Passes(request) THEN accepted \cup {request} ELSE accepted
    /\ UNCHANGED <<settings, main, engine, exitCode>>

Proxy(Step) == Step /\ UNCHANGED <<settings, serverVars>>

Next ==
    \/ Main
    \/ Terminate
    \/ OnRecvMqttMessage
    \/ Proxy(Retry) \/ Proxy(OnConnect) \/ Proxy(OnConnectRefused) \/ Proxy(Subscribe)
    \/ Proxy(Lose) \/ Proxy(Publish) \/ Proxy(OnMessage)

Spec == Init /\ [][Next]_vars

\* The main thread runs, but nothing makes a handler close; the network thread runs,
\* but nothing makes its callback return, which may wait in Timer::stop; a broker
\* that is tried again and again is reached and accepts.
FairMain == Main /\ main # "destroyEngine"
FairSpec ==
    /\ Spec
    /\ WF_vars(FairMain)
    /\ WF_vars(Proxy(Retry))
    /\ SF_vars(Proxy(OnConnect))
    /\ SF_vars(Proxy(Subscribe))

-----------------------------------------------------------------------------
(* Properties                                                                *)

\* Every variable stays in its range.
TypeOK ==
    /\ ProxyTypeOK
    /\ read \in 0 .. Len(documents)
    /\ load \in {"reading", "loaded", "failed"}
    /\ main \in {"parse", "load", "createProxy", "serve", "stopProxy", "destroyEngine", "exit"}
    /\ engine \in {"none", "alive", "destroyed"}
    /\ exitCode \in {"running", "EXIT_OK", "EXIT_CONFIG"}
    /\ \A oid \in DOMAIN m_mapOidSwitchInfo :
          /\ m_mapOidSwitchInfo[oid].channels \in Nat
          /\ m_mapOidSwitchInfo[oid].channels < 65536

\* The network thread calls the engine only while there is one.
CallbackHasEngine == callback # NoMessage => engine = "alive"

\* The first fifteen channels: whatever the build, the commands of an accepted
\* request are sound and move the door of its channel and no other.
OwnDoor ==
    \A request \in accepted :
        request.channel < 16 =>
            /\ \A frame \in make_open_command(request.channel) :
                  Sound(frame) /\ Opened(frame) = {request.channel}
            /\ \A frame \in make_close_command(request.channel) :
                  Sound(frame) /\ Selected(frame) = {request.channel} /\ Opened(frame) = {}

\* The network thread comes back from its callback again and again.
CallbackReturnsAlways == []<>(callback = NoMessage)

\* A proxy that serves has its subscription again after every loss, unless the port
\* it was configured with does not fit in a short or a request keeps the thread.
SubscribedAgain ==
    CallbackReturnsAlways =>
        (main = "serve" ~> (subscribed \/ main # "serve" \/ PortRefused))

\* A server that is told to terminate gets rid of its proxy, whatever the network
\* thread is doing, unless a request keeps that thread: the messages that are still
\* under way are handled and no others come.
ProxyStops ==
    CallbackReturnsAlways => (main = "stopProxy" ~> main = "destroyEngine")
=============================================================================
