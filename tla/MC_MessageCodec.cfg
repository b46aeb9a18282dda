SPECIFICATION Spec
CONSTANTS
    Numbers <- MCNumbers
    Codes <- MCCodes
    Readable <- MCReadable
    PeerMessages <- MCPeerMessages
    NodeLifetimes = {10}
    MaxReports = 3
    MaxHops = 2
INVARIANTS
    CodecTypeOK
    SentIsRead
    OwedArrive
    RefusesExactly
