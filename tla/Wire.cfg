SPECIFICATION WireSpec
CONSTANTS
    Transitions = {"t1", "t2"}
    MaxParts = 3
    None = None
    Values <- EncodableValues
    WriteValue <- WrittenValue
    CanRead <- Decodable
    ReadValue <- json_to_value
    SameValue <- Canonical
    ServerMessages <- FewServerMessages
    DamagedMessages <- FewDamagedMessages
    ClientMessages <- FewClientMessages
INVARIANTS
    AssembledWhole
    HonestNeverRefused
    SaidAndRead
    MalformedEndsConnection
    OneHttpResult
