SPECIFICATION Spec
CONSTANTS
    Adapters = {1, 2}
    Assigned <- MCAssigned
    LinkLocal = {"ll"}
    V6 = {"ll", "g6"}
    Ports = {1, 2}
    Ephemeral = {3}
    MaxSockets = 4
    Selects <- MCSelects
    Calls <- MCCalls
    ListenCalls <- MCListens
    ReplyPorts <- MCReplyPorts
    OtherHosts <- MCOtherHosts
    MaxCalls = 2
INVARIANTS
    SharedOnlyByName
    NothingLeaks
    ListensWhereAsked
    ReplyKeepsTheAddress
CHECK_DEADLOCK FALSE
