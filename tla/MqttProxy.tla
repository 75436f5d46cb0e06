------------------------------ MODULE MqttProxy ------------------------------
(***************************************************************************)
(* The proxy that brings open-door requests from the broker to the engine. *)
(*                                                                         *)
(* The network thread of libmosquitto connects again after every loss; the *)
(* session is clean, so that the broker forgets the subscription with the  *)
(* connection, and on_connect subscribes again.  Requests are published    *)
(* and subscribed to at QoS 0 and not retained: one that is published      *)
(* while there is no subscription, or is under way when the connection     *)
(* breaks, is lost.  The callback runs in the network thread, which does   *)
(* nothing else until it returns, and nothing makes it return.             *)
(***************************************************************************)
EXTENDS Integers, Sequences

CONSTANTS
    Contents,       \* what a message can carry
    Ignored,        \* the contents on_message ignores: no payload, another topic
    MaxPublished    \* bound: messages published

ASSUME PublishedAssumption == MaxPublished \in Nat

VARIABLES
    m_port,         \* MqttCfg::m_port
    client,         \* "none", "trying", "connected", "accepted" (after CONNACK),
                    \* "disconnecting", "gone"
    subscribing,    \* the SUBSCRIBE packet is under way
    subscribed,     \* the broker has the subscription
    inFlight,       \* the messages the broker has sent and the client not read
    callback,       \* the message that m_onMqttRecvCbFunc works on, or NoMessage
    published,      \* the number of messages published so far
    handled         \* history: the numbers of the messages that were handled

network  == <<client, subscribing, subscribed, inFlight>>
delivery == <<published, callback, handled>>
proxyVars == <<m_port, network, delivery>>

NoMessage == [number |-> 0, content |-> "none"]

\* Before the constructor: libmosquitto has no connection, the broker no client.
ProxyInit ==
    /\ client = "none"
    /\ subscribing = FALSE
    /\ subscribed = FALSE
    /\ inFlight = <<>>
    /\ callback = NoMessage
    /\ published = 0
    /\ handled = <<>>

\* connect() refuses a port that is not positive, and so does every attempt after it.
PortRefused == m_port <= 0

\* The constructor.  The result of connect() is ignored, the thread started anyway.
Construct ==
    /\ client = "none"
    /\ client' \in IF PortRefused THEN {"trying"} ELSE {"trying", "connected"}
    /\ UNCHANGED <<m_port, subscribing, subscribed, inFlight, delivery>>

\* The thread connects again.
Retry ==
    /\ callback = NoMessage
    /\ client = "trying"
    /\ ~PortRefused
    /\ client' = "connected"
    /\ UNCHANGED <<m_port, subscribing, subscribed, inFlight, delivery>>

\* on_connect: subscribe only if the broker accepted.
NoSubscribeMutant ==
    /\ callback = NoMessage
    /\ client = "connected"
    /\ client' = "accepted"
    /\ UNCHANGED <<m_port, subscribing, subscribed, inFlight, delivery>>
OnConnect ==
    /\ callback = NoMessage
    /\ client = "connected"
    /\ client' = "accepted"
    /\ subscribing' = TRUE
    /\ UNCHANGED <<m_port, subscribed, inFlight, delivery>>

OnConnectRefused ==
    /\ callback = NoMessage
    /\ client = "connected"
    /\ client' = "trying"
    /\ UNCHANGED <<m_port, subscribing, subscribed, inFlight, delivery>>

\* A subscription to a topic with a retained message brings that message.
RetainMutant ==
    /\ subscribing
    /\ subscribing' = FALSE
    /\ subscribed' = TRUE
    /\ inFlight' = IF published = 0 THEN inFlight
                   ELSE Append(inFlight, [number |-> published, content |-> "door"])
    /\ UNCHANGED <<m_port, client, delivery>>
\* The broker subscribes the client; there is no retained message to send.
Subscribe ==
    /\ subscribing
    /\ subscribing' = FALSE
    /\ subscribed' = TRUE
    /\ UNCHANGED <<m_port, client, inFlight, delivery>>

Lose ==
    /\ client \in {"connected", "accepted"}
    /\ client' = "trying"
    /\ subscribing' = FALSE
    /\ subscribed' = FALSE
    /\ inFlight' = <<>>
    /\ UNCHANGED <<m_port, delivery>>

\* SeetaMockStreamNode: one more request, at QoS 0 and not retained.
Publish ==
    /\ published < MaxPublished
    /\ published' = published + 1
    /\ \E c \in Contents :
          inFlight' = IF subscribed
                      THEN Append(inFlight, [number |-> published', content |-> c])
                      ELSE inFlight
    /\ UNCHANGED <<m_port, client, subscribing, subscribed, callback, handled>>

\* on_message.
OnMessage ==
    /\ client \in {"accepted", "disconnecting"}
    /\ callback = NoMessage
    /\ inFlight # <<>>
    /\ inFlight' = Tail(inFlight)
    /\ callback' = IF Head(inFlight).content \in Ignored THEN NoMessage ELSE Head(inFlight)
    /\ UNCHANGED <<m_port, client, subscribing, subscribed, published, handled>>

CallbackReturns ==
    /\ callback # NoMessage
    /\ callback' = NoMessage
    /\ handled' = Append(handled, callback.number)
    /\ UNCHANGED <<m_port, network, published>>

NoDisconnectMutant ==
    /\ client \in {"trying", "connected", "accepted"}
    /\ UNCHANGED proxyVars
\* The destructor: disconnect() and loop_stop(), which joins the thread.
Disconnect ==
    /\ client \in {"trying", "connected", "accepted"}
    /\ client' = "disconnecting"
    /\ subscribing' = FALSE
    /\ subscribed' = FALSE
    /\ UNCHANGED <<m_port, inFlight, delivery>>

DontJoinMutant ==
    /\ client = "disconnecting"
    /\ client' = "gone"
    /\ inFlight' = <<>>
    /\ UNCHANGED <<m_port, subscribing, subscribed, delivery>>
LoopStop ==
    /\ client = "disconnecting"
    /\ callback = NoMessage
    /\ client' = "gone"
    /\ inFlight' = <<>>
    /\ UNCHANGED <<m_port, subscribing, subscribed, delivery>>

ProxyTypeOK ==
    /\ m_port \in Int /\ 0 <= m_port + 32768 /\ m_port < 32768
    /\ client \in {"none", "trying", "connected", "accepted", "disconnecting", "gone"}
    /\ subscribing \in BOOLEAN
    /\ subscribed \in BOOLEAN
    /\ inFlight \in Seq([number : 1 .. MaxPublished, content : Contents])
    /\ callback \in [number : 1 .. MaxPublished, content : Contents] \cup {NoMessage}
    /\ published \in 0 .. MaxPublished
    /\ handled \in Seq(1 .. MaxPublished)

\* A request is handled at most once and never after a later one, whatever
\* connections were lost and made again in between.
OnceInOrder ==
    \A i, j \in DOMAIN handled : i < j => handled[i] < handled[j]
=============================================================================
