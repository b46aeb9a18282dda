-------------------------- MODULE MC_IpfixMessage --------------------------
(* A port, exported as a field of variable length, and an enterprise's      *)
(* element, which a peer knows or does not know.                            *)
EXTENDS IpfixMessage

Port == FieldType(0, 7, 2, "uint")
Rate == FieldType(12325, 5, 2, "int")

MCFieldTypes == {Port, Rate}
MCPeerTables == {{Port}, {Port, Rate}}

MCValues == (Port :> {<<80, 31>>}) @@ (Rate :> {<<1, 0>>})

MCFlengths == (Port :> {VARLEN}) @@ (Rate :> {2})

============================================================================
