SPECIFICATION FairSpec
CONSTANTS
    Contents <- MCContents
    Ignored <- MCIgnored
    MaxPublished = 4
    DocumentLists <- MCDocumentLists
    MqttPorts <- MCMqttPorts
    RequestOf <- MCRequestOf
INVARIANTS
    TypeOK
    SettingsRight
    CallbackHasEngine
    OwnDoor
    OnceInOrder
PROPERTIES
    SubscribedAgain
    ProxyStops
CHECK_DEADLOCK FALSE
