SPECIFICATION Spec
CONSTANTS
    NetmateApps = {"NETMATE"}
    MeteringApp = "NETMATE"
    ExportDirectory = "home"
    Sessions = {"s1","s2"}
    MaxObjects = 2
    FieldTypes <- MCFieldTypes
    ConfigFiles <- MCConfigFiles
    ExportFiles <- MCExportFiles
    Messages <- MCMessages
INVARIANTS
    InstallerTypeOK
    MeterMatchesRules
    FilterFaithful
    ExportsCovered
    NothingComesBack
