--------------------------- MODULE SwitchSettings ----------------------------
(***************************************************************************)
(* loadSwitchSetting: the switches, read from MongoDB once, before the     *)
(* server has any thread.                                                  *)
(*                                                                         *)
(* A document is incomplete if one of its four fields is missing, and wide *)
(* if one of them is not a 32-bit integer where the code asks for one.     *)
(* The batches of the cursor are invisible but for the errors of fetching  *)
(* them.                                                                   *)
(***************************************************************************)
EXTENDS RelayCommand, Sequences

CONSTANTS
    DocumentLists   \* what the collection can hold: sequences of documents

ASSUME DocumentAssumption ==
    \A docs \in DocumentLists :
        /\ Len(docs) \in Nat
        /\ DOMAIN docs = 1 .. Len(docs)
        /\ \A i \in DOMAIN docs : docs[i].channels \in Int /\ {docs[i].complete, docs[i].wide} \subseteq BOOLEAN

VARIABLES
    documents,           \* the collection, in the order of the cursor
    read,                \* the number of documents read
    m_mapOidSwitchInfo,
    load                 \* "reading", "loaded" or "failed"

settings == <<documents, read, m_mapOidSwitchInfo, load>>

SettingsInit ==
    /\ documents \in DocumentLists
    /\ read = 0
    /\ m_mapOidSwitchInfo = <<>>
    /\ load = "reading"

Info(doc) ==
    [port     |-> UnsignedShort(doc.port),
     channels |-> UnsignedShort(doc.channels),
     type     |-> doc.type]

\* std::map::insert keeps the entry that is there.
OverwriteMutant(map, doc) ==
    [oid \in DOMAIN map \cup {doc.oid} |-> IF oid = doc.oid THEN Info(doc) ELSE map[oid]]
Insert(map, doc) ==
    [oid \in DOMAIN map \cup {doc.oid} |-> IF oid \in DOMAIN map THEN map[oid] ELSE Info(doc)]

\* An exception ends the whole load.
ReadDocument ==
    LET doc == documents[read + 1] IN
    /\ load = "reading"
    /\ read < Len(documents)
    /\ read' = read + 1
    /\ \/ /\ ~doc.complete
          /\ UNCHANGED <<m_mapOidSwitchInfo, load>>
       \/ /\ doc.complete /\ doc.wide
          /\ load' = "failed"
          /\ UNCHANGED m_mapOidSwitchInfo
       \/ /\ doc.complete /\ ~doc.wide
          /\ m_mapOidSwitchInfo' = Insert(m_mapOidSwitchInfo, doc)
          /\ UNCHANGED load
    /\ UNCHANGED documents

\* The connection fails, or a fetch.
CursorFails ==
    /\ load = "reading"
    /\ load' = "failed"
    /\ UNCHANGED <<documents, read, m_mapOidSwitchInfo>>

CursorEnds ==
    /\ load = "reading"
    /\ read = Len(documents)
    /\ load' = "loaded"
    /\ UNCHANGED <<documents, read, m_mapOidSwitchInfo>>

LoadSwitchSetting == ReadDocument \/ CursorFails \/ CursorEnds

\* The load is all or nothing: every complete document is in the map with its values
\* cut to 16 bits, the first one of an oid, and nothing else.
SettingsRight ==
    load = "loaded" =>
        LET complete == {i \in DOMAIN documents : documents[i].complete} IN
        /\ \A i \in complete : ~documents[i].wide
        /\ DOMAIN m_mapOidSwitchInfo = {documents[i].oid : i \in complete}
        /\ \A i \in complete :
              \/ m_mapOidSwitchInfo[documents[i].oid] = Info(documents[i])
              \/ \E j \in complete : j < i /\ documents[j].oid = documents[i].oid
=============================================================================
