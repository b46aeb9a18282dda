--------------------------- MODULE SignalingPath ---------------------------
(***************************************************************************)
(* One metering session along a path NI - NF - NR: the three session state *)
(* machines joined by GIST.  GIST delivers in order (the mapper asks for   *)
(* its reliable mode), but a message may be lost with a broken association *)
(* or a node that died.  Session ids are unique, so the user opens this    *)
(* session once.                                                           *)
(***************************************************************************)
EXTENDS Integers, Sequences

CONSTANTS LIMIT, Objects, MaxLifetime, MaxRetries, QueueBound,
          NfMaxLifetime, NrMaxLifetime, RequestSmes, RequestObjs,
          Requests,      \* what the user may ask for: lifetime, sme, objs
          Placements,    \* which objects each node may be able to meter
          InitialMsn,    \* what the NI draws as its first sequence number
          RefreshBound,  \* bound: REFRESH messages of one session
          LossBound      \* bound: messages lost

(* Configuration and bounds of the three nodes. *)
ASSUME NodesAssumption ==
    /\ LIMIT \in Nat /\ LIMIT >= 2
    /\ MaxLifetime \in Nat /\ MaxRetries \in Nat /\ QueueBound \in Nat \ {0}
    /\ NfMaxLifetime \in 0 .. MaxLifetime /\ NrMaxLifetime \in 0 .. MaxLifetime
    /\ RequestSmes \subseteq {"all", "any", "first", "last", "first_last", "other"}
    /\ RequestObjs \subseteq SUBSET Objects
    /\ "not yet" \notin Objects  \* see NotYet

ASSUME PathAssumption ==
    /\ Requests \subseteq [lifetime : 1 .. MaxLifetime, sme : RequestSmes,
                           objs : RequestObjs]
    /\ Placements \subseteq [ni : SUBSET Objects, nf : SUBSET Objects,
                             nr : SUBSET Objects]
    /\ InitialMsn \in 0 .. (2 * LIMIT - 1)
    /\ RefreshBound \in Nat /\ LossBound \in Nat

VARIABLES ni, ni_out,        \* the initiator and its queue to the NF
          nf, to_nr, to_ni,  \* the forwarder and its two queues
          nr, nr_out,        \* the responder and its queue to the NF
          meters,            \* per node, the objects it is able to meter
          requested,         \* the objects the user asked for, once he did
          placed,            \* history: objects the NF or the NR installed
          lost               \* number of messages lost

NI == INSTANCE NISession
NF == INSTANCE NFSession
NR == INSTANCE NRSession

nf_path == <<nf, to_nr, to_ni>>
path_vars == <<ni, ni_out, nf, to_nr, to_ni, nr, nr_out,
               meters, requested, placed, lost>>

NotYet == {"not yet"}

Init ==
    /\ NI!NiInit /\ NF!NfInit /\ NR!NrInit
    /\ meters \in Placements
    /\ requested = NotYet /\ placed = {} /\ lost = 0

(***************************************************************************)
(* The user, through the API.                                              *)
(***************************************************************************)
UserConfigures ==
    /\ requested = NotYet
    /\ \E r \in Requests :
          /\ NI!NiApiConfigure(InitialMsn, r.lifetime, r.sme, r.objs, meters.ni)
          /\ requested' = r.objs
    /\ UNCHANGED <<nf, to_nr, to_ni, nr, nr_out, meters, placed, lost>>

UserTearsDown ==
    /\ NI!NiApiTeardown
    /\ UNCHANGED <<nf, to_nr, to_ni, nr, nr_out, meters, requested, placed, lost>>

(***************************************************************************)
(* Timers and network notifications at each node.                          *)
(***************************************************************************)
NiTimer ==
    /\ \/ NI!NiResponseTimeout
       \/ NI!NiRefreshTimeout
          /\ (ni.msn - ni.last_configure.msn) % (2 * LIMIT) < RefreshBound
    /\ UNCHANGED <<nf, to_nr, to_ni, nr, nr_out, meters, requested, placed, lost>>

NiNotified ==
    /\ NI!NiNotification \/ NI!NiInvalidState
    /\ UNCHANGED <<nf, to_nr, to_ni, nr, nr_out, meters, requested, placed, lost>>

NfEvent ==
    /\ NF!NfTimeout \/ NF!NfNotification
    /\ UNCHANGED <<ni, ni_out, nr, nr_out, meters, requested, placed, lost>>

NrTimer ==
    /\ NR!NrStateTimeout
    /\ UNCHANGED <<ni, ni_out, nf, to_nr, to_ni, meters, requested, placed, lost>>

(***************************************************************************)
(* GIST hands over the head of a queue.                                    *)
(***************************************************************************)
DeliverFromNi ==
    /\ ni_out # <<>>
    /\ NF!NfReceive(Head(ni_out), meters.nf)
    /\ ni_out' = Tail(ni_out)
    /\ placed' = placed \cup nf'.metered
    /\ UNCHANGED <<ni, nr, nr_out, meters, requested, lost>>

DeliverFromNr ==
    /\ nr_out # <<>>
    /\ NF!NfReceive(Head(nr_out), meters.nf)
    /\ nr_out' = Tail(nr_out)
    /\ placed' = placed \cup nf'.metered
    /\ UNCHANGED <<ni, ni_out, nr, meters, requested, lost>>

DeliverToNr ==
    /\ to_nr # <<>>
    /\ NR!NrReceive(Head(to_nr), meters.nr)
    /\ to_nr' = Tail(to_nr)
    /\ placed' = placed \cup nr'.metered
    /\ UNCHANGED <<ni, ni_out, nf, to_ni, meters, requested, lost>>

DeliverToNi ==
    /\ to_ni # <<>>
    /\ NI!NiReceive(Head(to_ni)) \/ NI!NiNoSession
    /\ to_ni' = Tail(to_ni)
    /\ UNCHANGED <<nf, to_nr, nr, nr_out, meters, requested, placed, lost>>

(* A message is lost: in the network, or because the next node died. *)
Lose ==
    /\ \/ lost < LossBound /\ lost' = lost + 1
       \/ (ni.abort # "none" \/ nf.abort # "none") /\ UNCHANGED lost
    /\ \/ ni_out # <<>> /\ ni_out' = Tail(ni_out) /\ UNCHANGED <<to_nr, to_ni, nr_out>>
       \/ nr_out # <<>> /\ nr_out' = Tail(nr_out) /\ UNCHANGED <<to_nr, to_ni, ni_out>>
       \/ to_nr # <<>> /\ to_nr' = Tail(to_nr) /\ UNCHANGED <<ni_out, to_ni, nr_out>>
       \/ to_ni # <<>> /\ to_ni' = Tail(to_ni) /\ UNCHANGED <<ni_out, to_nr, nr_out>>
    /\ UNCHANGED <<ni, nf, nr, meters, requested, placed>>

Next ==
    \/ UserConfigures \/ UserTearsDown
    \/ NiTimer \/ NiNotified \/ NfEvent \/ NrTimer
    \/ DeliverFromNi \/ DeliverFromNr \/ DeliverToNr \/ DeliverToNi
    \/ Lose

(***************************************************************************)
(* Fairness.  GIST does not keep a message for ever: it delivers or loses  *)
(* it.  A state timer that runs fires, unless it is started again first;   *)
(* starting it again is what the other disjuncts of the two actions are,   *)
(* so a session that is refreshed for ever need not time out.              *)
(***************************************************************************)
NfStateTimerSettled ==
    \/ NfEvent /\ NF!NfStateTimeout
    \/ DeliverFromNi /\ NF!NfPendingResent(Head(ni_out))
    \/ DeliverFromNr /\ NF!NfRefreshSuccess(Head(nr_out))

NrStateTimerSettled ==
    \/ NrTimer
    \/ DeliverToNr /\ NR!NrRefresh(Head(to_nr))

Fairness ==
    /\ WF_path_vars(DeliverFromNi \/ (Lose /\ ni_out' # ni_out))
    /\ WF_path_vars(DeliverFromNr \/ (Lose /\ nr_out' # nr_out))
    /\ WF_path_vars(DeliverToNr \/ (Lose /\ to_nr' # to_nr))
    /\ WF_path_vars(DeliverToNi \/ (Lose /\ to_ni' # to_ni))
    /\ WF_path_vars(NfStateTimerSettled)
    /\ WF_path_vars(NrStateTimerSettled)

Spec == Init /\ [][Next]_path_vars /\ Fairness

(***************************************************************************)
(* Properties.                                                             *)
(***************************************************************************)

(* When the NI believes the session is being metered, every object the     *)
(* user asked for has been installed by some node of the path: the nodes   *)
(* split the objects among them, and a success response is only passed up  *)
(* by nodes that installed their share.                                    *)
NothingUnmetered ==
    ni.state = "METERING" /\ ni.last_configure.kind = "CONFIGURE"
        => requested \subseteq ni.metered \cup placed

(* No node is ahead of the node upstream: the sequence number a forwarder  *)
(* or responder holds was issued by the NI and passed on by the NF, so     *)
(* that the NI's next REFRESH is never mistaken for a duplicate.           *)
MsnAgreement ==
    /\ nf.state = "METERING" /\ nr.state = "METERING"
          => ~ NF!IsGreaterThan(nr.msn, nf.msn)
    /\ ni.state # "CLOSE" /\ nf.state # "CLOSE"
          => ~ NF!IsGreaterThan(nf.msn, ni.msn)

(* The responder holds its state at least as long as the NI believes, so   *)
(* that refreshing within the NI's lifetime keeps the far end alive: the   *)
(* NI takes over the lifetime that came back, whoever shortened it.  Until *)
(* the first REFRESH arrives the responder may hold less than a response   *)
(* to an earlier copy of the CONFIGURE promised, because an NF passes a    *)
(* repeated CONFIGURE on without its cap; it never holds less than that    *)
(* cap leaves of it.                                                       *)
ResponderOutlasts ==
    ni.state = "METERING" /\ nr.state = "METERING" =>
        IF nr.msn = ni.last_configure.msn
        THEN NF!Min2(ni.lifetime, NfMaxLifetime) <= nr.lifetime
        ELSE ni.lifetime <= nr.lifetime

(* Once the NI has left a session, for whatever reason and whatever was    *)
(* lost, duplicated by a retry or still under way, the other nodes stop    *)
(* metering for good.  A forwarder that died keeps its rules.              *)
NiGone == requested # NotYet /\ (ni.state = "CLOSE" \/ ni.abort # "none")

Released == nr.metered = {} /\ (nf.metered = {} \/ nf.abort # "none")

EventuallyReleased == <>[]NiGone => <>[]Released

(* The comment in the NI's success branch: the lifetime in the response is *)
(* what the path agreed on, so no node of it holds less than the NI.       *)
NegotiatedLifetime ==
    ni.state = "METERING" /\ nf.state = "METERING" => ni.lifetime <= nf.lifetime

============================================================================
