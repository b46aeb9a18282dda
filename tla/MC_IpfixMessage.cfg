SPECIFICATION Spec
CONSTANTS
    FieldTypes <- MCFieldTypes
    PeerTables <- MCPeerTables
    Values <- MCValues
    Flengths <- MCFlengths
    Versions = {"IPFIX","NF9"}
    Modes = {TRUE,FALSE}
    Now = 1
    BufLen = 60
    MaxShortLen = 1
    MaxTemplates = 2
    MaxFields = 2
    MaxCalls = 3
INVARIANTS
    IpfixTypeOK
    ExportCurrent
    SizesAgree
    PeerReads
    EqualOnlyTheFirstTime
CHECK_DEADLOCK FALSE
