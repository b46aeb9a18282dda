--------------------------- MODULE MC_MessageCodec --------------------------
(* Two metering objects of different length, two lifetimes, codes with and  *)
(* without an object type; peers send up to three objects, known or not.    *)
EXTENDS MessageCodec

MCNumbers ==
    (MsgSequenceNumber :> {7}) @@ (SessionLifetime :> {0, 30})
    @@ (SelectionMeteringEntities :> {1}) @@ (MessageHopCount :> {4})

Code(severity, code, about) ==
    [severity |-> severity, code |-> code, about |-> about]

MCCodes == {Code(2, 1, 0), Code(5, 2, IpfixMessage), Code(16, 0, 0)}

MCReadable == {<<11>>, <<22, 23>>}

PeerObjects ==
    {SimpleObject(MsgSequenceNumber, 9), SimpleObject(SessionLifetime, 20),
     CodeObject(2, 1, 0), CodeObject(3, 1, SessionLifetime),
     Object(IpfixMessage, <<11>>, TRUE), Object(IpfixMessage, <<22, 23>>, TRUE),
     Object(IpfixMessage, <<24>>, TRUE), Object(250, <<5>>, TRUE)}

PeerMessage(type, objs, cut) == [type |-> type, objs |-> objs, cut |-> cut]

OneWord == {o \in PeerObjects : Len(BodyWords(o)) = 1}

MCPeerMessages ==
    {PeerMessage(type, objs, 0) :
        type \in {Configure, Refresh, Response, 9},
        objs \in BoundedSeq(PeerObjects, 3)}
    \cup {PeerMessage(Configure, <<o, p>>, 1) : o \in PeerObjects, p \in OneWord}
    \cup {PeerMessage(Refresh, <<Object(IpfixMessage, <<22, 23>>, TRUE)>>, cut) :
            cut \in 1 .. 2}

============================================================================
