--------------------------- MODULE MCDoorSwitchSvr ---------------------------
(* A small instance of DoorSwitchSvr.                                        *)
EXTENDS DoorSwitchSvr

Doc(oid, channels) ==
    [oid |-> oid, complete |-> TRUE, wide |-> FALSE, port |-> 40000,
     channels |-> channels, type |-> 0]

\* A good collection; one with an incomplete document and an oid that comes twice,
\* the channels of one of them beyond 16 bits; and one with a 64-bit number.
MCDocumentLists ==
    {<<Doc("a", 2), Doc("b", 16)>>,
     <<[Doc("b", 1) EXCEPT !.complete = FALSE], Doc("a", 65537), Doc("a", 3)>>,
     <<Doc("a", 2), [Doc("b", 1) EXCEPT !.wide = TRUE]>>}

MCContents == {"door", "ninth", "last", "beyond", "garbage", "empty"}
MCIgnored == {"empty"}
MCRequestOf ==
    [c \in MCContents |->
        CASE c = "door"   -> [oid |-> "a", channel |-> 1]
          [] c = "ninth"  -> [oid |-> "b", channel |-> 9]
          [] c = "last"   -> [oid |-> "b", channel |-> 15]
          [] c = "beyond" -> [oid |-> "a", channel |-> -1]
          [] OTHER        -> NoRequest]
MCMqttPorts == {1883, 40000}
=============================================================================
