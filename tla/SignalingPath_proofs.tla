------------------------ MODULE SignalingPath_proofs ------------------------
(***************************************************************************)
(* The path NI - NF - NR, for every set of objects, every placement, every *)
(* number of retries and every size of the sequence number space.          *)
(***************************************************************************)
EXTENDS SignalingPath, Functions, TLAPS

(***************************************************************************)
(* The proofs about the three sessions on their own.  On the path an NF is *)
(* handed what the NI left over, which can be any set of objects.          *)
(***************************************************************************)
Initiator == INSTANCE NISession_proofs
Forwarder == INSTANCE NFSession_proofs WITH RequestObjs <- SUBSET Objects
Responder == INSTANCE NRSession_proofs WITH RequestObjs <- SUBSET Objects

LEMMA InitiatorAssumptions ==
    /\ Initiator!LimitAssumption /\ Initiator!MaxLifetimeAssumption
    /\ Initiator!NIAssumption
  BY NodesAssumption
  DEF Initiator!LimitAssumption, Initiator!MaxLifetimeAssumption,
      Initiator!NIAssumption

LEMMA ForwarderAssumptions ==
    /\ Forwarder!LimitAssumption /\ Forwarder!MaxLifetimeAssumption
    /\ Forwarder!NFAssumption
  BY NodesAssumption
  DEF Forwarder!LimitAssumption, Forwarder!MaxLifetimeAssumption,
      Forwarder!NFAssumption, Forwarder!Lifetimes, Forwarder!Smes

LEMMA ResponderAssumptions ==
    /\ Responder!LimitAssumption /\ Responder!MaxLifetimeAssumption
    /\ Responder!NRAssumption
  BY NodesAssumption
  DEF Responder!LimitAssumption, Responder!MaxLifetimeAssumption,
      Responder!NRAssumption, Responder!Lifetimes, Responder!Smes

(***************************************************************************)
(* The modules these theorems are about are instances of the same modules  *)
(* as the nodes of the path, so their actions are the same formulas.       *)
(***************************************************************************)
LEMMA SameInitiator ==
    /\ NI!NiInit => Initiator!NiInit
    /\ \A msn, lifetime, sme, objs, checkable :
          NI!NiApiConfigure(msn, lifetime, sme, objs, checkable)
             => Initiator!NiApiConfigure(msn, lifetime, sme, objs, checkable)
    /\ NI!NiApiTeardown => Initiator!NiApiTeardown
    /\ NI!NiResponseTimeout => Initiator!NiResponseTimeout
    /\ NI!NiRefreshTimeout => Initiator!NiRefreshTimeout
    /\ NI!NiNotification => Initiator!NiNotification
    /\ NI!NiInvalidState => Initiator!NiInvalidState
    /\ \A m : NI!NiReceive(m) => Initiator!NiReceive(m)
    /\ NI!NiNoSession => UNCHANGED <<ni, ni_out>>
    /\ NI!Message = Initiator!Message
  <1> USE DEF NI!MsnMod, NI!NextMsn, NI!Min2, NI!Participating, NI!Taken,
              NI!NoMsg, NI!Configure, NI!Refresh, NI!IsResponseTo,
              NI!NewNiSession, NI!NiClosed, NI!SetupInterval,
              NI!SetupSession, NI!BuildConfigure, NI!BuildRefresh,
              NI!NiRemoveRules, NI!NiSend, NI!NiAbort, NI!NiIn,
              Initiator!MsnMod, Initiator!NextMsn, Initiator!Min2,
              Initiator!Participating, Initiator!Taken, Initiator!NoMsg,
              Initiator!Configure, Initiator!Refresh,
              Initiator!IsResponseTo, Initiator!NewNiSession,
              Initiator!NiClosed, Initiator!SetupInterval,
              Initiator!SetupSession, Initiator!BuildConfigure,
              Initiator!BuildRefresh, Initiator!NiRemoveRules,
              Initiator!NiSend, Initiator!NiAbort, Initiator!NiIn
  <1>1. NI!NiInit => Initiator!NiInit
    BY DEF NI!NiInit, Initiator!NiInit
  <1>2. ASSUME NEW msn, NEW lifetime, NEW sme, NEW objs, NEW checkable,
               NI!NiApiConfigure(msn, lifetime, sme, objs, checkable)
        PROVE  Initiator!NiApiConfigure(msn, lifetime, sme, objs, checkable)
    BY <1>2 DEF NI!NiApiConfigure, Initiator!NiApiConfigure
  <1>3. NI!NiApiTeardown => Initiator!NiApiTeardown
    BY DEF NI!NiApiTeardown, Initiator!NiApiTeardown
  <1>4. NI!NiResponseTimeout => Initiator!NiResponseTimeout
    BY DEF NI!NiResponseTimeout, NI!NiConfigureRetry, NI!NiConfigureGiveUp,
           NI!NiRefreshRetry, NI!NiRefreshGiveUp,
           Initiator!NiResponseTimeout, Initiator!NiConfigureRetry,
           Initiator!NiConfigureGiveUp, Initiator!NiRefreshRetry,
           Initiator!NiRefreshGiveUp
  <1>5. NI!NiRefreshTimeout => Initiator!NiRefreshTimeout
    BY DEF NI!NiRefreshTimeout, NI!NiPendingRefreshTimer, NI!NiRefreshTimer,
           Initiator!NiRefreshTimeout, Initiator!NiPendingRefreshTimer,
           Initiator!NiRefreshTimer
  <1>6. NI!NiNotification => Initiator!NiNotification
    BY DEF NI!NiNotification, NI!NiPendingNoNextNode, NI!NiUnexpected,
           NI!NiPendingDiscard, NI!NiPendingNull, NI!NiMeteringDiscard,
           NI!NiMeteringNull, NI!ni_vars, Initiator!NiNotification,
           Initiator!NiPendingNoNextNode, Initiator!NiUnexpected,
           Initiator!NiPendingDiscard, Initiator!NiPendingNull,
           Initiator!NiMeteringDiscard, Initiator!NiMeteringNull,
           Initiator!ni_vars
  <1>7. NI!NiInvalidState => Initiator!NiInvalidState
    BY DEF NI!NiInvalidState, Initiator!NiInvalidState
  <1>8. ASSUME NEW m, NI!NiReceive(m) PROVE Initiator!NiReceive(m)
    BY <1>8 DEF NI!NiReceive, NI!NiConfigureAnswered, NI!NiRefreshAnswered,
           NI!NiAccepted, NI!NiInstalled, NI!NiPartlyInstalled,
           NI!NiOrClosed, NI!NiStates, NI!CalRefreshInterval, NI!Uint32Mod,
           NI!NiUnexpected, NI!NiPendingDiscard, NI!NiPendingNull,
           NI!NiMeteringDiscard, NI!NiMeteringNull, NI!ni_vars,
           Initiator!NiReceive, Initiator!NiConfigureAnswered,
           Initiator!NiRefreshAnswered, Initiator!NiAccepted,
           Initiator!NiInstalled, Initiator!NiPartlyInstalled,
           Initiator!NiOrClosed, Initiator!NiStates,
           Initiator!CalRefreshInterval, Initiator!Uint32Mod,
           Initiator!NiUnexpected, Initiator!NiPendingDiscard,
           Initiator!NiPendingNull, Initiator!NiMeteringDiscard,
           Initiator!NiMeteringNull, Initiator!ni_vars
  <1>9. NI!NiNoSession => UNCHANGED <<ni, ni_out>>
    BY DEF NI!NiNoSession, NI!ni_vars
  <1>10. NI!Message = Initiator!Message
    BY DEF NI!Message, NI!Msns, NI!Lifetimes, NI!Smes, Initiator!Message,
           Initiator!Msns, Initiator!Lifetimes, Initiator!Smes
  <1>11. QED
    BY <1>1, <1>2, <1>3, <1>4, <1>5, <1>6, <1>7, <1>8, <1>9, <1>10

LEMMA SameForwarder ==
    /\ NF!NfInit => Forwarder!NfInit
    /\ \A m, checkable :
          NF!NfReceive(m, checkable) => Forwarder!NfReceive(m, checkable)
    /\ NF!NfTimeout => Forwarder!NfTimeout
    /\ NF!NfNotification => Forwarder!NfNotification
  <1> USE DEF NF!MsnMod, NF!NextMsn, NF!Min2, NF!Participating, NF!Taken,
              NF!NoMsg, NF!Configure, NF!Refresh, NF!IsResponseTo,
              NF!CreateResponse, NF!NewNfSession, NF!NfClosed,
              NF!StartStateTimer, NF!StartResponseTimer, NF!NfRemoveRules,
              NF!NfSend, NF!NfSendBoth, NF!NfSilent, NF!NfIn, NF!NfAbort,
              NF!NfBuildConfigure, NF!NfLifetime, NF!NfNoAnswer, NF!nf_vars,
              Forwarder!MsnMod, Forwarder!NextMsn, Forwarder!Min2,
              Forwarder!Participating, Forwarder!Taken, Forwarder!NoMsg,
              Forwarder!Configure, Forwarder!Refresh,
              Forwarder!IsResponseTo, Forwarder!CreateResponse,
              Forwarder!NewNfSession, Forwarder!NfClosed,
              Forwarder!StartStateTimer, Forwarder!StartResponseTimer,
              Forwarder!NfRemoveRules, Forwarder!NfSend,
              Forwarder!NfSendBoth, Forwarder!NfSilent, Forwarder!NfIn,
              Forwarder!NfAbort, Forwarder!NfBuildConfigure,
              Forwarder!NfLifetime, Forwarder!NfNoAnswer, Forwarder!nf_vars
  <1>1. NF!NfInit => Forwarder!NfInit
    BY DEF NF!NfInit, Forwarder!NfInit
  <1>2. ASSUME NEW m, NEW checkable, NF!NfReceive(m, checkable)
        PROVE  Forwarder!NfReceive(m, checkable)
    BY <1>2 DEF NF!NfReceive, NF!NfConfigure, NF!NfPendingReplace,
           NF!ProcessStateClose, NF!ProcessStateCloseNoMri,
           NF!NfCloseDiscard, NF!NfPendingTerminate, NF!NfPendingResent,
           NF!NfPendingSuccess, NF!NfPendingInstallFails, NF!NfPendingError,
           NF!NfPendingDiscard, NF!NfRefresh, NF!IsGreaterThan,
           NF!NfRefreshDuplicate, NF!NfRefreshSuccess, NF!NfRefreshError,
           NF!NfMeteringOther, Forwarder!NfReceive, Forwarder!NfConfigure,
           Forwarder!NfPendingReplace, Forwarder!ProcessStateClose,
           Forwarder!ProcessStateCloseNoMri, Forwarder!NfCloseDiscard,
           Forwarder!NfPendingTerminate, Forwarder!NfPendingResent,
           Forwarder!NfPendingSuccess, Forwarder!NfPendingInstallFails,
           Forwarder!NfPendingError, Forwarder!NfPendingDiscard,
           Forwarder!NfRefresh, Forwarder!IsGreaterThan,
           Forwarder!NfRefreshDuplicate, Forwarder!NfRefreshSuccess,
           Forwarder!NfRefreshError, Forwarder!NfMeteringOther
  <1>3. NF!NfTimeout => Forwarder!NfTimeout
    BY DEF NF!NfTimeout, NF!NfStateTimeout, NF!NfPendingStateTimer,
           NF!NfMeteringStateTimer, NF!NfMeteringResponseTimer,
           NF!NfOutdatedTimer, Forwarder!NfTimeout,
           Forwarder!NfStateTimeout, Forwarder!NfPendingStateTimer,
           Forwarder!NfMeteringStateTimer,
           Forwarder!NfMeteringResponseTimer, Forwarder!NfOutdatedTimer
  <1>4. NF!NfNotification => Forwarder!NfNotification
    BY DEF NF!NfNotification, NF!NfPendingUnreachable,
           NF!NfMeteringUnreachable, NF!NfMeteringRouteChanged,
           Forwarder!NfNotification, Forwarder!NfPendingUnreachable,
           Forwarder!NfMeteringUnreachable, Forwarder!NfMeteringRouteChanged
  <1>5. QED
    BY <1>1, <1>2, <1>3, <1>4

LEMMA SameResponder ==
    /\ NR!NrInit => Responder!NrInit
    /\ \A m, checkable :
          NR!NrReceive(m, checkable) => Responder!NrReceive(m, checkable)
    /\ NR!NrStateTimeout => Responder!NrStateTimeout
  <1> USE DEF NR!Min2, NR!Participating, NR!Taken, NR!CreateResponse,
              NR!CreateSuccessResponse, NR!NewNrSession, NR!NrClosed,
              NR!NrLifetime, NR!NrRemoveRules, NR!NrSend, NR!nr_vars,
              NR!IsGreaterThan, Responder!Min2, Responder!Participating,
              Responder!Taken, Responder!CreateResponse,
              Responder!CreateSuccessResponse, Responder!NewNrSession,
              Responder!NrClosed, Responder!NrLifetime,
              Responder!NrRemoveRules, Responder!NrSend, Responder!nr_vars,
              Responder!IsGreaterThan
  <1>1. NR!NrInit => Responder!NrInit
    BY DEF NR!NrInit, Responder!NrInit
  <1>2. ASSUME NEW m, NEW checkable, NR!NrReceive(m, checkable)
        PROVE  Responder!NrReceive(m, checkable)
    BY <1>2 DEF NR!NrReceive, NR!NrRefuseLifetime, NR!NrRefuseObjects,
           NR!NrAccept, NR!NrInstallFails, NR!NrCloseDiscard, NR!NrRefresh,
           NR!NrTeardown, NR!NrMeteringDiscard, Responder!NrReceive,
           Responder!NrRefuseLifetime, Responder!NrRefuseObjects,
           Responder!NrAccept, Responder!NrInstallFails,
           Responder!NrCloseDiscard, Responder!NrRefresh,
           Responder!NrTeardown, Responder!NrMeteringDiscard
  <1>3. NR!NrStateTimeout => Responder!NrStateTimeout
    BY DEF NR!NrStateTimeout, Responder!NrStateTimeout
  <1>4. QED
    BY <1>1, <1>2, <1>3

(***************************************************************************)
(* Queues.                                                                 *)
(***************************************************************************)
LEMMA RangeAppend ==
    ASSUME NEW S, NEW q \in Seq(S), NEW m \in S
    PROVE  Range(Append(q, m)) = Range(q) \cup {m}
  <1> DEFINE t == Append(q, m)
             last == Len(q) + 1
  <1>1. /\ DOMAIN t = 1 .. last /\ DOMAIN q = 1 .. Len(q)
        /\ Len(q) \in Nat
        /\ \A i \in 1 .. Len(q) : t[i] = q[i]
        /\ t[last] = m
    OBVIOUS
  <1>2. DOMAIN t = DOMAIN q \cup {last}
    BY <1>1
  <1>3. \A i \in DOMAIN q : t[i] = q[i]
    BY <1>1
  <1> HIDE DEF t, last
  <1>4. Range(t) \subseteq Range(q) \cup {m}
    BY <1>1, <1>2, <1>3, Zenon DEF Range
  <1>5. Range(q) \cup {m} \subseteq Range(t)
    BY <1>1, <1>2, <1>3, Zenon DEF Range
  <1>6. QED
    BY <1>4, <1>5 DEF t

LEMMA RangeAppendTwo ==
    ASSUME NEW S, NEW q \in Seq(S), NEW a \in S, NEW b \in S
    PROVE  Range(q \o <<a, b>>) = Range(q) \cup {a, b}
  <1>1. /\ q \o <<a, b>> = Append(Append(q, a), b)
        /\ Append(q, a) \in Seq(S)
    OBVIOUS
  <1> DEFINE t == Append(q, a)
  <1>2. Range(t) = Range(q) \cup {a}
    BY RangeAppend
  <1>3. t \in Seq(S)
    BY <1>1
  <1> HIDE DEF t
  <1>4. Range(Append(t, b)) = Range(t) \cup {b}
    BY <1>3, RangeAppend
  <1>5. QED
    BY <1>1, <1>2, <1>4 DEF t

LEMMA RangeTail ==
    ASSUME NEW S, NEW q \in Seq(S), q # <<>>
    PROVE  /\ Head(q) \in Range(q) /\ Head(q) \in S
           /\ Tail(q) \in Seq(S) /\ Range(Tail(q)) \subseteq Range(q)
  <1>1. /\ DOMAIN q = 1 .. Len(q) /\ Len(q) \in Nat /\ Len(q) > 0
        /\ Head(q) = q[1] /\ Tail(q) \in Seq(S)
        /\ DOMAIN Tail(q) = 1 .. (Len(q) - 1)
        /\ \A i \in 1 .. (Len(q) - 1) : Tail(q)[i] = q[i + 1]
    OBVIOUS
  <1>2. 1 \in DOMAIN q /\ \A i \in 1 .. (Len(q) - 1) : i + 1 \in DOMAIN q
    BY <1>1
  <1>3. Head(q) \in Range(q)
    BY <1>1, <1>2, Zenon DEF Range
  <1>4. Range(Tail(q)) \subseteq Range(q)
    <2> DEFINE t == Tail(q)
    <2>1. ASSUME NEW i \in DOMAIN t
          PROVE  t[i] \in Range(q)
      <3>1. i \in 1 .. (Len(q) - 1)
        BY <1>1
      <3>2. t[i] = q[i + 1] /\ i + 1 \in DOMAIN q
        BY <1>1, <1>2, <3>1
      <3>3. QED
        BY <3>2, Zenon DEF Range
    <2> HIDE DEF t
    <2>2. Range(t) \subseteq Range(q)
      BY <2>1 DEF Range
    <2>3. QED
      BY <2>2 DEF t
  <1>5. q[1] \in S
    BY <1>1
  <1>6. QED
    BY <1>1, <1>3, <1>4, <1>5

LEMMA RangeEmpty == Range(<<>>) = {}
  BY DEF Range

(***************************************************************************)
(* The sessions keep, on the path, the invariants they have on their own.  *)
(***************************************************************************)
SessionsInv ==
    /\ Initiator!NiInv /\ Forwarder!NfInv /\ Responder!NrInv
    /\ meters \in Placements

LEMMA SessionsMessages ==
    ASSUME SessionsInv
    PROVE  /\ ni_out \in Seq(Initiator!Message) /\ nr_out \in Seq(Initiator!Message)
           /\ to_nr \in Seq(Initiator!Message) /\ to_ni \in Seq(Initiator!Message)
  BY DEF SessionsInv, Initiator!NiInv, Initiator!NiTypeOK, Forwarder!NfInv,
         Forwarder!NfTypeOK, Responder!NrInv, Responder!NrTypeOK,
         Initiator!Message, Forwarder!Message, Responder!Message,
         Initiator!Msns, Forwarder!Msns, Responder!Msns,
         Initiator!MsnMod, Forwarder!MsnMod, Responder!MsnMod,
         Initiator!Lifetimes, Forwarder!Lifetimes, Responder!Lifetimes,
         Initiator!Smes, Forwarder!Smes, Responder!Smes

LEMMA SameMessage ==
    /\ Forwarder!Message = Initiator!Message
    /\ Responder!Message = Initiator!Message
  BY DEF Initiator!Message, Forwarder!Message, Responder!Message,
         Initiator!Msns, Forwarder!Msns, Responder!Msns,
         Initiator!MsnMod, Forwarder!MsnMod, Responder!MsnMod,
         Initiator!Lifetimes, Forwarder!Lifetimes, Responder!Lifetimes,
         Initiator!Smes, Forwarder!Smes, Responder!Smes

LEMMA InitiatorKept ==
    ASSUME Initiator!NiInv, UNCHANGED <<ni, ni_out>> \/ Initiator!GistTakes
    PROVE  Initiator!NiInv'
  BY InitiatorAssumptions, Initiator!NiNextInv
  DEF Initiator!NiNext, Initiator!ni_vars

LEMMA ForwarderKept ==
    ASSUME Forwarder!NfInv,
           UNCHANGED <<nf, to_nr, to_ni>> \/ Forwarder!NfGistTakes
    PROVE  Forwarder!NfInv'
  BY ForwarderAssumptions, Forwarder!NfStep
  DEF Forwarder!NfNext, Forwarder!nf_vars

LEMMA ResponderKept ==
    ASSUME Responder!NrInv, UNCHANGED <<nr, nr_out>> \/ Responder!NrGistTakes
    PROVE  Responder!NrInv'
  BY ResponderAssumptions, Responder!NrStep
  DEF Responder!NrNext, Responder!nr_vars
LEMMA InitiatorOpens ==
    ASSUME Initiator!NiInv, NEW lifetime \in 0 .. MaxLifetime,
           NEW sme \in RequestSmes, NEW objs \in SUBSET Objects,
           NEW checkable \in SUBSET Objects,
           NI!NiApiConfigure(InitialMsn, lifetime, sme, objs, checkable)
    PROVE  Initiator!NiInv'
  <1>1. InitialMsn \in Initiator!Msns /\ lifetime \in Initiator!Lifetimes
        /\ sme \in Initiator!Smes
    BY NodesAssumption, PathAssumption
    DEF Initiator!Msns, Initiator!MsnMod, Initiator!Lifetimes, Initiator!Smes
  <1>2. Initiator!NiApiConfigure(InitialMsn, lifetime, sme, objs, checkable)
    BY SameInitiator
  <1>3. QED
    BY <1>1, <1>2, InitiatorAssumptions, Initiator!NiApiConfigureInv

LEMMA InitiatorKeptBy ==
    ASSUME Initiator!NiInv,
           \/ NI!NiApiTeardown
           \/ NI!NiResponseTimeout \/ NI!NiRefreshTimeout
           \/ NI!NiNotification \/ NI!NiInvalidState
    PROVE  Initiator!NiInv'
  <1>1. Initiator!NiNext
    BY SameInitiator DEF Initiator!NiNext, Initiator!NiUserEvent
  <1>2. QED
    BY <1>1, InitiatorAssumptions, Initiator!NiNextInv

LEMMA InitiatorReceives ==
    ASSUME Initiator!NiInv, NEW m \in Initiator!Message,
           NI!NiReceive(m) \/ NI!NiNoSession
    PROVE  Initiator!NiInv'
  <1>1. CASE NI!NiNoSession
    BY <1>1, SameInitiator, InitiatorKept
  <1>2. CASE NI!NiReceive(m)
    <2>1. Initiator!NiReceive(m)
      BY <1>2, SameInitiator
    <2>2. CASE \E result \in SUBSET ni.rule, state \in Initiator!NiStates :
                  Initiator!NiConfigureAnswered(m, result, state)
      <3>1. SUBSET ni.rule \subseteq SUBSET Objects
        BY DEF Initiator!NiInv, Initiator!NiTypeOK, Initiator!NiSession
      <3>2. QED
        BY <2>2, <3>1, InitiatorAssumptions, Initiator!NiConfigureAnsweredInv
    <2>3. CASE Initiator!NiRefreshAnswered(m)
      BY <2>3, InitiatorAssumptions, Initiator!NiRefreshAnsweredInv
    <2>4. CASE Initiator!NiUnexpected
      BY <2>4, InitiatorAssumptions, Initiator!NiUnexpectedInv
    <2>5. QED
      BY <2>1, <2>2, <2>3, <2>4 DEF Initiator!NiReceive
  <1>3. QED
    BY <1>1, <1>2

LEMMA ForwarderReceives ==
    ASSUME Forwarder!NfInv, NEW m \in Initiator!Message, NEW checkable,
           NF!NfReceive(m, checkable)
    PROVE  Forwarder!NfInv'
  BY SameForwarder, SameMessage, ForwarderAssumptions, Forwarder!NfReceiveStep

LEMMA ResponderReceives ==
    ASSUME Responder!NrInv, NEW m \in Initiator!Message, NEW checkable,
           NR!NrReceive(m, checkable)
    PROVE  Responder!NrInv'
  <1>1. Responder!NrReceive(m, checkable) /\ m \in Responder!Message
    BY SameResponder, SameMessage
  <1>2. CASE Responder!NrRefuseLifetime(m) \/ Responder!NrRefuseObjects(m, checkable)
    BY <1>1, <1>2, ResponderAssumptions, Responder!NrRefuseInv
  <1>3. CASE \E result \in SUBSET m.objs :
                Responder!NrAccept(m, checkable, result)
    BY <1>1, <1>3, ResponderAssumptions, Responder!NrAcceptInv
  <1>4. CASE \E result \in SUBSET m.objs :
                Responder!NrInstallFails(m, checkable, result)
    BY <1>1, <1>4, ResponderAssumptions, Responder!NrInstallFailsInv
  <1>5. CASE Responder!NrRefresh(m)
    BY <1>1, <1>5, ResponderAssumptions, Responder!NrRefreshInv
  <1>6. CASE Responder!NrTeardown(m)
    BY <1>1, <1>6, ResponderAssumptions, Responder!NrReleaseInv
  <1>7. CASE Responder!NrCloseDiscard(m) \/ Responder!NrMeteringDiscard(m)
    BY <1>7, ResponderKept
    DEF Responder!NrCloseDiscard, Responder!NrMeteringDiscard, Responder!nr_vars
  <1>8. QED
    BY <1>1, <1>2, <1>3, <1>4, <1>5, <1>6, <1>7 DEF Responder!NrReceive

LEMMA SessionsStep ==
    ASSUME SessionsInv, [Next]_path_vars
    PROVE  SessionsInv'
  <1>1. /\ Initiator!NiInv /\ Forwarder!NfInv /\ Responder!NrInv
        /\ meters \in Placements
    BY DEF SessionsInv
  <1>2. /\ ni_out # <<>> => Head(ni_out) \in Initiator!Message
        /\ nr_out # <<>> => Head(nr_out) \in Initiator!Message
        /\ to_nr # <<>> => Head(to_nr) \in Initiator!Message
        /\ to_ni # <<>> => Head(to_ni) \in Initiator!Message
    BY SessionsMessages, RangeTail
  <1>3. meters.ni \in SUBSET Objects
    BY <1>1, PathAssumption
  <1>4. meters' = meters
    BY DEF Next, UserConfigures, UserTearsDown, NiTimer, NiNotified, NfEvent,
           NrTimer, DeliverFromNi, DeliverFromNr, DeliverToNr, DeliverToNi,
           Lose, path_vars
  <1>5. Initiator!NiInv'
    <2>1. CASE UserConfigures
      <3>1. PICK r \in Requests :
               NI!NiApiConfigure(InitialMsn, r.lifetime, r.sme, r.objs, meters.ni)
        BY <2>1 DEF UserConfigures
      <3>2. r.lifetime \in 1 .. MaxLifetime /\ r.sme \in RequestSmes
            /\ r.objs \in RequestObjs
        BY PathAssumption
      <3>3. r.lifetime \in 0 .. MaxLifetime /\ r.objs \in SUBSET Objects
        <4>1. MaxLifetime \in Nat /\ RequestObjs \subseteq SUBSET Objects
          BY NodesAssumption
        <4>2. \A objs \in RequestObjs : objs \in SUBSET Objects
          BY <4>1, Zenon
        <4>3. QED
          BY <3>2, <4>1, <4>2
      <3>4. QED
        BY <1>1, <1>3, <3>1, <3>2, <3>3, InitiatorOpens
    <2>2. CASE UserTearsDown \/ NiTimer \/ NiNotified
      BY <1>1, <2>2, InitiatorKeptBy DEF UserTearsDown, NiTimer, NiNotified
    <2>3. CASE DeliverToNi
      BY <1>1, <1>2, <2>3, InitiatorReceives DEF DeliverToNi
    <2>4. CASE \/ NfEvent \/ NrTimer \/ DeliverFromNi \/ DeliverFromNr
               \/ DeliverToNr \/ Lose \/ UNCHANGED path_vars
      <3>1. UNCHANGED <<ni, ni_out>> \/ Initiator!GistTakes
        BY <2>4 DEF NfEvent, NrTimer, DeliverFromNi, DeliverFromNr,
                    DeliverToNr, Lose, path_vars, Initiator!GistTakes
      <3>2. QED
        BY <1>1, <3>1, InitiatorKept
    <2>5. QED
      BY <2>1, <2>2, <2>3, <2>4 DEF Next
  <1>6. Forwarder!NfInv'
    <2>1. CASE NfEvent
      <3>1. Forwarder!NfNext
        BY <2>1, SameForwarder DEF NfEvent, Forwarder!NfNext
      <3>2. QED
        BY <1>1, <3>1, ForwarderAssumptions, Forwarder!NfStep
    <2>2. CASE DeliverFromNi
      BY <1>1, <1>2, <2>2, ForwarderReceives DEF DeliverFromNi
    <2>3. CASE DeliverFromNr
      BY <1>1, <1>2, <2>3, ForwarderReceives DEF DeliverFromNr
    <2>4. CASE \/ UserConfigures \/ UserTearsDown \/ NiTimer \/ NiNotified
               \/ NrTimer \/ DeliverToNr \/ DeliverToNi \/ Lose
               \/ UNCHANGED path_vars
      <3>1. UNCHANGED <<nf, to_nr, to_ni>> \/ Forwarder!NfGistTakes
        BY <2>4 DEF UserConfigures, UserTearsDown, NiTimer, NiNotified,
                    NrTimer, DeliverToNr, DeliverToNi, Lose, path_vars,
                    Forwarder!NfGistTakes
      <3>2. QED
        BY <1>1, <3>1, ForwarderKept
    <2>5. QED
      BY <2>1, <2>2, <2>3, <2>4 DEF Next
  <1>7. Responder!NrInv'
    <2>1. CASE NrTimer
      <3>1. Responder!NrNext
        BY <2>1, SameResponder DEF NrTimer, Responder!NrNext
      <3>2. QED
        BY <1>1, <3>1, ResponderAssumptions, Responder!NrStep
    <2>2. CASE DeliverToNr
      BY <1>1, <1>2, <2>2, ResponderReceives DEF DeliverToNr
    <2>3. CASE \/ UserConfigures \/ UserTearsDown \/ NiTimer \/ NiNotified
               \/ NfEvent \/ DeliverFromNi \/ DeliverFromNr \/ DeliverToNi
               \/ Lose \/ UNCHANGED path_vars
      <3>1. UNCHANGED <<nr, nr_out>> \/ Responder!NrGistTakes
        BY <2>3 DEF UserConfigures, UserTearsDown, NiTimer, NiNotified,
                    NfEvent, DeliverFromNi, DeliverFromNr, DeliverToNi, Lose,
                    path_vars, Responder!NrGistTakes
      <3>2. QED
        BY <1>1, <3>1, ResponderKept
    <2>4. QED
      BY <2>1, <2>2, <2>3 DEF Next
  <1>8. QED
    BY <1>1, <1>4, <1>5, <1>6, <1>7 DEF SessionsInv

LEMMA SessionsInit == Init => SessionsInv
  BY SameInitiator, SameForwarder, SameResponder, InitiatorAssumptions,
     ForwarderAssumptions, ResponderAssumptions, Initiator!NiInitInv,
     Forwarder!NfInitInv, Responder!NrInitInv
  DEF Init, SessionsInv

LEMMA SessionsInvariant == Spec => []SessionsInv
  BY SessionsInit, SessionsStep, PTL DEF Spec

(***************************************************************************)
(* What the initiator knows of the path.  As long as the session object    *)
(* holds the CONFIGURE it sent, every request under way is a copy of it,   *)
(* cut by the NF, or a REFRESH of the lifetime that was agreed on; and a   *)
(* success response to the CONFIGURE is only under way when the nodes it   *)
(* came from have installed their share.  s is the initiator, f the        *)
(* forwarder, r the responder, n what each node is able to meter, want     *)
(* what the user asked for and put what the other nodes have installed.    *)
(***************************************************************************)
Min2(a, b) == Forwarder!Min2(a, b)

Opened(s) == s.last_configure.kind = "CONFIGURE"

Waits(s) == Opened(s) /\ s.state = "PENDING"

Meters(s) == Opened(s) /\ s.state = "METERING"

(* What the forwarder takes of the CONFIGURE. *)
Share(s, n) ==
    Forwarder!Taken("forwarder", s.last_configure.sme, s.last_configure.objs, n.nf)

InitiatorOK(s, want, put) ==
    /\ s.last_configure = Initiator!NoMsg \/ Opened(s)
    /\ ~Opened(s) => s.lifetime = 0
    /\ Opened(s) => /\ Waits(s) \/ Meters(s)
                    /\ want \subseteq s.rule \cup s.last_configure.objs
    /\ Waits(s) => s.last_refresh = Initiator!NoMsg
    /\ Meters(s) => /\ want \subseteq s.metered \cup put
                    /\ s.lifetime <= s.last_configure.lifetime
                    /\ s.lifetime <= NrMaxLifetime
                    /\ s.last_refresh.kind = "REFRESH"
                          => s.last_refresh.lifetime = s.lifetime

ForwarderOK(f, s, n) ==
    /\ f.state = "CLOSE" => f.rule = {}
    /\ Opened(s) /\ f.state = "PENDING" =>
          f.configure_message = s.last_configure /\ f.rule = Share(s, n)
    /\ Waits(s) => /\ f.refresh_message = Initiator!NoMsg
                   /\ f.state = "PENDING" => f.msn = s.last_configure.msn

(* Before and after the first REFRESH. *)
ResponderOK(r, s) ==
    r.state = "METERING" =>
       /\ Waits(s) =>
             /\ r.msn = s.last_configure.msn
             /\ Min2(Min2(s.last_configure.lifetime, NfMaxLifetime), NrMaxLifetime)
                   <= r.lifetime
       /\ Meters(s) =>
             /\ Min2(s.lifetime, NfMaxLifetime) <= r.lifetime
             /\ r.msn # s.last_configure.msn => s.lifetime <= r.lifetime

(* From the initiator to the forwarder. *)
SentOK(m, s) ==
    Opened(s) => \/ m = s.last_configure
                 \/ m.kind = "REFRESH" /\ Meters(s) /\ m.lifetime = s.lifetime

(* From the forwarder to the responder, the forwarder's own teardown among *)
(* them.                                                                   *)
PassedOK(m, s, want, n) ==
    /\ Opened(s) /\ m.kind = "CONFIGURE" =>
          /\ m.msn = s.last_configure.msn
          /\ Min2(s.last_configure.lifetime, NfMaxLifetime) <= m.lifetime
          /\ m.lifetime <= s.last_configure.lifetime
          /\ want \subseteq s.rule \cup Share(s, n) \cup m.objs
    /\ Waits(s) /\ m.kind = "REFRESH" =>
          m.lifetime = 0 /\ m.msn # s.last_configure.msn
    /\ Meters(s) /\ m.kind = "REFRESH" => m.lifetime \in {0, s.lifetime}

(* Towards the initiator. *)
GrantOK(m, s, want, put) ==
    Waits(s) /\ m.kind = "RESPONSE" /\ m.ok /\ m.msn = s.last_configure.msn =>
        /\ want \subseteq s.rule \cup put
        /\ m.lifetime <= s.last_configure.lifetime
        /\ m.lifetime <= NrMaxLifetime

(* Nothing happens before the user asks for something. *)
Pristine ==
    requested = NotYet =>
        Initiator!NiInit /\ Forwarder!NfInit /\ Responder!NrInit

PathInv ==
    /\ Pristine
    /\ InitiatorOK(ni, requested, placed)
    /\ ForwarderOK(nf, ni, meters)
    /\ ResponderOK(nr, ni)
    /\ \A m \in Range(ni_out) : SentOK(m, ni)
    /\ \A m \in Range(to_nr) : PassedOK(m, ni, requested, meters)
    /\ \A m \in Range(nr_out) :
          /\ m.kind = "RESPONSE"
          /\ GrantOK(m, ni, requested, Share(ni, meters) \cup placed)
    /\ \A m \in Range(to_ni) : GrantOK(m, ni, requested, placed)
(***************************************************************************)
(* Steps of the network and of the other nodes: the initiator stays as it  *)
(* is, and what is installed only grows.                                   *)
(***************************************************************************)
LEMMA GrantGrows ==
    ASSUME NEW m, NEW s, NEW want, NEW put, NEW more, put \subseteq more,
           GrantOK(m, s, want, put)
    PROVE  GrantOK(m, s, want, more)
  BY DEF GrantOK

InitiatorStays ==
    /\ ni' = ni /\ meters' = meters /\ requested' = requested
    /\ requested # NotYet
    /\ placed \subseteq placed'

QueuesKept ==
    /\ \A m \in Range(ni_out') : m \in Range(ni_out)
    /\ \A m \in Range(to_nr') :
          m \in Range(to_nr) \/ PassedOK(m, ni, requested, meters)
    /\ \A m \in Range(nr_out') :
          \/ m \in Range(nr_out)
          \/ m.kind = "RESPONSE"
             /\ GrantOK(m, ni, requested, Share(ni, meters) \cup placed')
    /\ \A m \in Range(to_ni') :
          m \in Range(to_ni) \/ GrantOK(m, ni, requested, placed')

LEMMA OthersStep ==
    ASSUME PathInv, InitiatorStays, QueuesKept,
           ForwarderOK(nf', ni, meters), ResponderOK(nr', ni)
    PROVE  PathInv'
  <1> DEFINE share == Share(ni, meters)
  <1>1. /\ ni' = ni /\ meters' = meters /\ requested' = requested
        /\ requested # NotYet /\ placed \subseteq placed'
        /\ Share(ni', meters') = share
    BY DEF InitiatorStays
  <1>2. Pristine'
    BY <1>1 DEF Pristine, NotYet
  <1>3. InitiatorOK(ni', requested', placed')
    <2>1. InitiatorOK(ni, requested, placed')
      BY <1>1 DEF PathInv, InitiatorOK
    <2>2. QED
      BY <1>1, <2>1
  <1>4. ForwarderOK(nf', ni', meters') /\ ResponderOK(nr', ni')
    BY <1>1
  <1>5. \A m \in Range(ni_out') : SentOK(m, ni')
    BY <1>1 DEF PathInv, QueuesKept
  <1>6. \A m \in Range(to_nr') : PassedOK(m, ni', requested', meters')
    BY <1>1 DEF PathInv, QueuesKept
  <1>7. ASSUME NEW m \in Range(nr_out')
        PROVE  /\ m.kind = "RESPONSE"
               /\ GrantOK(m, ni', requested', Share(ni', meters') \cup placed')
    <2>1. \/ m \in Range(nr_out)
          \/ m.kind = "RESPONSE" /\ GrantOK(m, ni, requested, share \cup placed')
      BY <1>7 DEF QueuesKept
    <2>2. ASSUME m \in Range(nr_out)
          PROVE  m.kind = "RESPONSE" /\ GrantOK(m, ni, requested, share \cup placed)
      BY <2>2 DEF PathInv
    <2>3. share \cup placed \subseteq share \cup placed'
      BY <1>1
    <2> HIDE DEF share
    <2>4. m.kind = "RESPONSE" /\ GrantOK(m, ni, requested, share \cup placed')
      BY <2>1, <2>2, <2>3, GrantGrows
    <2>5. QED
      BY <1>1, <2>4
  <1>8. ASSUME NEW m \in Range(to_ni')
        PROVE  GrantOK(m, ni', requested', placed')
    <2>1. m \in Range(to_ni) \/ GrantOK(m, ni, requested, placed')
      BY <1>8 DEF QueuesKept
    <2>2. ASSUME m \in Range(to_ni)
          PROVE  GrantOK(m, ni, requested, placed)
      BY <2>2 DEF PathInv
    <2>3. GrantOK(m, ni, requested, placed')
      BY <1>1, <2>1, <2>2, GrantGrows
    <2>4. QED
      BY <1>1, <2>3
  <1>9. QED
    BY <1>2, <1>3, <1>4, <1>5, <1>6, <1>7, <1>8 DEF PathInv

LEMMA LoseStep ==
    ASSUME SessionsInv, PathInv, requested # NotYet, Lose
    PROVE  PathInv'
  <1>1. /\ ni_out \in Seq(Initiator!Message) /\ nr_out \in Seq(Initiator!Message)
        /\ to_nr \in Seq(Initiator!Message) /\ to_ni \in Seq(Initiator!Message)
    BY SessionsMessages
  <1>2. /\ ni_out # <<>> => Range(Tail(ni_out)) \subseteq Range(ni_out)
        /\ nr_out # <<>> => Range(Tail(nr_out)) \subseteq Range(nr_out)
        /\ to_nr # <<>> => Range(Tail(to_nr)) \subseteq Range(to_nr)
        /\ to_ni # <<>> => Range(Tail(to_ni)) \subseteq Range(to_ni)
    BY <1>1, RangeTail
  <1>3. QueuesKept
    BY <1>2 DEF Lose, QueuesKept
  <1>4. InitiatorStays
    BY DEF Lose, InitiatorStays
  <1>5. ForwarderOK(nf', ni, meters) /\ ResponderOK(nr', ni)
    BY DEF Lose, PathInv
  <1>6. QED
    BY <1>3, <1>4, <1>5, OthersStep
(***************************************************************************)
(* The responder.                                                          *)
(***************************************************************************)
LEMMA MinFacts ==
    ASSUME NEW a \in Nat, NEW b \in Nat
    PROVE  /\ Min2(a, b) \in Nat /\ Min2(a, b) <= a /\ Min2(a, b) <= b
           /\ Min2(a, b) = a \/ Min2(a, b) = b
           /\ Responder!Min2(a, b) = Min2(a, b)
  BY DEF Min2, Forwarder!Min2, Responder!Min2

LEMMA LifetimeBounds ==
    /\ MaxLifetime \in Nat
    /\ NfMaxLifetime \in 0 .. MaxLifetime /\ NrMaxLifetime \in 0 .. MaxLifetime
  BY NodesAssumption

LEMMA Bounds ==
    /\ NfMaxLifetime \in Nat /\ NrMaxLifetime \in Nat
    /\ \A m \in Initiator!Message :
          m.lifetime \in 0 .. MaxLifetime /\ m.lifetime \in Nat
          /\ m.msn \in Initiator!Msns
  <1>1. NfMaxLifetime \in Nat /\ NrMaxLifetime \in Nat
    BY LifetimeBounds
  <1>2. ASSUME NEW m \in Initiator!Message
        PROVE  m.lifetime \in 0 .. MaxLifetime /\ m.msn \in Initiator!Msns
    BY DEF Initiator!Message, Initiator!Lifetimes
  <1>3. QED
    BY <1>1, <1>2, LifetimeBounds

LEMMA SessionTypes ==
    ASSUME SessionsInv
    PROVE  /\ ni \in Initiator!NiSession /\ nf \in Forwarder!NfSession
           /\ nr \in Responder!NrSession
           /\ ni.lifetime \in Nat /\ ni.last_configure \in Initiator!Message
           /\ nr.lifetime \in Nat /\ nf.lifetime \in Nat
  <1>1. /\ ni \in Initiator!NiSession /\ nf \in Forwarder!NfSession
        /\ nr \in Responder!NrSession
    BY DEF SessionsInv, Initiator!NiInv, Initiator!NiTypeOK, Forwarder!NfInv,
           Forwarder!NfTypeOK, Responder!NrInv, Responder!NrTypeOK
  <1>2. /\ ni.lifetime \in 0 .. MaxLifetime /\ ni.last_configure \in Initiator!Message
        /\ nr.lifetime \in 0 .. MaxLifetime /\ nf.lifetime \in 0 .. MaxLifetime
    BY <1>1 DEF Initiator!NiSession, Forwarder!NfSession, Responder!NrSession,
      Initiator!Lifetimes, Forwarder!Lifetimes, Responder!Lifetimes
  <1>3. QED
    BY <1>1, <1>2, LifetimeBounds

(* The responder answers, or says nothing. *)
LEMMA ResponderSends ==
    ASSUME SessionsInv, NEW a \in Initiator!Message, Responder!NrSend(a)
    PROVE  Range(nr_out') = Range(nr_out) \cup {a}
  <1>1. nr_out \in Seq(Initiator!Message) /\ nr_out' = Append(nr_out, a)
    BY SessionsMessages DEF Responder!NrSend
  <1>2. QED
    BY <1>1, RangeAppend

LEMMA NrClosedFacts ==
    ASSUME NEW s
    PROVE  Responder!NrClosed(s).state = "CLOSE"
  BY DEF Responder!NrClosed, Responder!NewNrSession

(* What a success response to a request that was passed on grants. *)
LEMMA AcceptedGrants ==
    ASSUME SessionsInv, PathInv, NEW m \in Initiator!Message,
           PassedOK(m, ni, requested, meters), m.kind = "CONFIGURE",
           NEW put, m.objs \subseteq put
    PROVE  GrantOK(Responder!CreateSuccessResponse(m, Responder!NrLifetime(m)),
                   ni, requested, Share(ni, meters) \cup put)
  <1> DEFINE a == Responder!CreateSuccessResponse(m, Responder!NrLifetime(m))
  <1>1. a.lifetime = Responder!NrLifetime(m) /\ a.msn = m.msn
    BY DEF Responder!CreateSuccessResponse, Responder!CreateResponse
  <1>2. Responder!NrLifetime(m) \in Nat /\ Responder!NrLifetime(m) <= m.lifetime
        /\ Responder!NrLifetime(m) <= NrMaxLifetime
    BY Bounds, MinFacts DEF Responder!NrLifetime
  <1>3. ni.last_configure.lifetime \in Nat /\ m.lifetime \in Nat
    BY Bounds, SessionTypes
  <1> HIDE DEF a
  <1>4. QED
    BY <1>1, <1>2, <1>3, Bounds DEF PassedOK, GrantOK, Waits, a

LEMMA ResponseTypes ==
    ASSUME NEW m \in Initiator!Message
    PROVE  /\ Responder!CreateResponse(m) \in Initiator!Message
           /\ Responder!CreateResponse(m).kind = "RESPONSE"
           /\ Responder!CreateResponse(m).ok = FALSE
           /\ \A l \in 0 .. MaxLifetime :
                 /\ Responder!CreateSuccessResponse(m, l) \in Initiator!Message
                 /\ Responder!CreateSuccessResponse(m, l).kind = "RESPONSE"
                 /\ Responder!CreateSuccessResponse(m, l).msn = m.msn
                 /\ Responder!CreateSuccessResponse(m, l).lifetime = l
  <1> DEFINE r == Responder!CreateResponse(m)
  <1>1. 0 \in 0 .. MaxLifetime
    BY LifetimeBounds
  <1>2. /\ r \in Initiator!Message /\ r.kind = "RESPONSE" /\ r.ok = FALSE
        /\ r.msn = m.msn
    BY <1>1 DEF Responder!CreateResponse, Initiator!Message,
                Initiator!Lifetimes, Initiator!Smes
  <1>3. \A l : Responder!CreateSuccessResponse(m, l)
                   = [r EXCEPT !.ok = TRUE, !.lifetime = l]
    BY DEF Responder!CreateSuccessResponse
  <1> HIDE DEF r
  <1>4. ASSUME NEW l \in 0 .. MaxLifetime
        PROVE  LET a == [r EXCEPT !.ok = TRUE, !.lifetime = l]
               IN  /\ a \in Initiator!Message /\ a.kind = "RESPONSE"
                   /\ a.msn = m.msn /\ a.lifetime = l
    BY <1>2 DEF Initiator!Message, Initiator!Lifetimes
  <1>5. QED
    BY <1>2, <1>3, <1>4 DEF r

LEMMA DeliverToNrStep ==
    ASSUME SessionsInv, PathInv, requested # NotYet, DeliverToNr
    PROVE  PathInv'
  <1> DEFINE m == Head(to_nr)
  <1>1. /\ to_nr # <<>> /\ to_nr' = Tail(to_nr)
        /\ Responder!NrReceive(m, meters.nr)
        /\ placed' = placed \cup nr'.metered
        /\ UNCHANGED <<ni, ni_out, nf, to_ni, meters, requested, lost>>
    BY SameResponder DEF DeliverToNr
  <1>2. /\ m \in Initiator!Message /\ m \in Range(to_nr)
        /\ Range(to_nr') \subseteq Range(to_nr)
    BY <1>1, SessionsMessages, RangeTail
  <1>3. PassedOK(m, ni, requested, meters)
    BY <1>2 DEF PathInv
  <1> HIDE DEF m
  <1>4. InitiatorStays
    BY <1>1 DEF InitiatorStays
  <1>5. ForwarderOK(nf', ni, meters)
    BY <1>1 DEF PathInv
  <1>6. ASSUME ResponderOK(nr', ni),
               \A a \in Range(nr_out') :
                  \/ a \in Range(nr_out)
                  \/ a.kind = "RESPONSE"
                     /\ GrantOK(a, ni, requested, Share(ni, meters) \cup placed')
        PROVE  PathInv'
    <2>1. QueuesKept
      BY <1>1, <1>2, <1>6 DEF QueuesKept
    <2>2. QED
      BY <1>4, <1>5, <1>6, <2>1, OthersStep
  <1>7. /\ nr \in Responder!NrSession /\ ResponderOK(nr, ni)
        /\ nr.lifetime \in Nat /\ ni.lifetime \in Nat
        /\ ni.last_configure.lifetime \in Nat
        /\ m.lifetime \in Nat /\ m.msn \in Initiator!Msns
    BY <1>2, SessionTypes, Bounds DEF PathInv
  <1>8. /\ Responder!NrLifetime(m) \in Nat
        /\ Responder!NrLifetime(m) = Min2(m.lifetime, NrMaxLifetime)
    BY <1>7, Bounds, MinFacts DEF Responder!NrLifetime
  <1>9. /\ Responder!CreateResponse(m) \in Initiator!Message
        /\ Responder!CreateResponse(m).kind = "RESPONSE"
        /\ Responder!CreateResponse(m).ok = FALSE
        /\ \A l \in 0 .. MaxLifetime :
              /\ Responder!CreateSuccessResponse(m, l) \in Initiator!Message
              /\ Responder!CreateSuccessResponse(m, l).kind = "RESPONSE"
              /\ Responder!CreateSuccessResponse(m, l).msn = m.msn
              /\ Responder!CreateSuccessResponse(m, l).lifetime = l
    BY <1>2, ResponseTypes
  <1>10. 0 \in 0 .. MaxLifetime /\ Responder!NrLifetime(m) \in 0 .. MaxLifetime
    BY <1>2, <1>8, Bounds, LifetimeBounds DEF Min2, Forwarder!Min2
  <1>11. CASE Responder!NrRefuseLifetime(m) \/ Responder!NrRefuseObjects(m, meters.nr)
    <2>1. nr' = nr /\ Range(nr_out') = Range(nr_out) \cup {Responder!CreateResponse(m)}
      BY <1>9, <1>11, ResponderSends
      DEF Responder!NrRefuseLifetime, Responder!NrRefuseObjects
    <2>2. GrantOK(Responder!CreateResponse(m), ni, requested,
                  Share(ni, meters) \cup placed')
      BY <1>9 DEF GrantOK
    <2>3. QED
      BY <1>6, <1>7, <1>9, <2>1, <2>2
  <1>12. CASE \E result \in SUBSET m.objs :
                 Responder!NrAccept(m, meters.nr, result)
    <2> DEFINE a == Responder!CreateSuccessResponse(m, Responder!NrLifetime(m))
    <2>1. /\ m.kind = "CONFIGURE"
          /\ Responder!NrSend(a)
          /\ nr' = [nr EXCEPT !.state = "METERING", !.msn = m.msn,
                              !.lifetime = Responder!NrLifetime(m),
                              !.state_timer = TRUE,
                              !.rule_keys = m.objs, !.metered = m.objs]
      BY <1>12 DEF Responder!NrAccept
    <2>2. /\ nr'.msn = m.msn /\ nr'.lifetime = Responder!NrLifetime(m)
          /\ nr'.metered = m.objs
      BY <1>7, <2>1 DEF Responder!NrSession
    <2>3. Range(nr_out') = Range(nr_out) \cup {a} /\ a.kind = "RESPONSE"
      BY <1>9, <1>10, <2>1, ResponderSends
    <2>4. GrantOK(a, ni, requested, Share(ni, meters) \cup placed')
      BY <1>1, <1>2, <1>3, <2>1, <2>2, AcceptedGrants
    <2>5. ResponderOK(nr', ni)
      <3>1. Meters(ni) => ni.lifetime <= NrMaxLifetime
                          /\ ni.lifetime <= ni.last_configure.lifetime
        BY DEF PathInv, InitiatorOK
      <3>2. Opened(ni) =>
               /\ m.msn = ni.last_configure.msn
               /\ Min2(ni.last_configure.lifetime, NfMaxLifetime) <= m.lifetime
        BY <1>3, <2>1 DEF PassedOK
      <3>3. QED
        BY <1>7, <1>8, <2>2, <3>1, <3>2, Bounds
        DEF ResponderOK, Waits, Meters, Min2, Forwarder!Min2
    <2> HIDE DEF a
    <2>6. QED
      BY <1>6, <2>3, <2>4, <2>5
  <1>13. CASE \E result \in SUBSET m.objs :
                 Responder!NrInstallFails(m, meters.nr, result)
    <2>1. nr'.state = "CLOSE" /\ Responder!NrSend(Responder!CreateResponse(m))
      BY <1>13, NrClosedFacts DEF Responder!NrInstallFails
    <2>2. Range(nr_out') = Range(nr_out) \cup {Responder!CreateResponse(m)}
      BY <1>9, <2>1, ResponderSends
    <2>3. GrantOK(Responder!CreateResponse(m), ni, requested,
                  Share(ni, meters) \cup placed')
      BY <1>9 DEF GrantOK
    <2>4. ResponderOK(nr', ni)
      BY <2>1 DEF ResponderOK
    <2>5. QED
      BY <1>6, <1>9, <2>2, <2>3, <2>4
  <1>14. CASE Responder!NrRefresh(m) \/ Responder!NrTeardown(m)
    <2> DEFINE l == IF Responder!NrRefresh(m) THEN Responder!NrLifetime(m) ELSE 0
               a == Responder!CreateSuccessResponse(m, l)
    <2>1. l \in 0 .. MaxLifetime /\ Responder!NrSend(a) /\ m.kind = "REFRESH"
      BY <1>10, <1>14 DEF Responder!NrRefresh, Responder!NrTeardown
    <2>2. /\ a \in Initiator!Message /\ a.kind = "RESPONSE" /\ a.msn = m.msn
      BY <1>9, <2>1
    <2>3. Range(nr_out') = Range(nr_out) \cup {a}
      BY <2>1, <2>2, ResponderSends
    <2> HIDE DEF a
    <2>4. GrantOK(a, ni, requested, Share(ni, meters) \cup placed')
      BY <1>3, <2>1, <2>2 DEF PassedOK, GrantOK
    <2>5. ResponderOK(nr', ni)
      <3>1. CASE Responder!NrTeardown(m)
        BY <3>1, NrClosedFacts DEF Responder!NrTeardown, ResponderOK
      <3>2. CASE Responder!NrRefresh(m)
        <4>1. nr'.lifetime = Responder!NrLifetime(m) /\ Responder!NrLifetime(m) > 0
          BY <1>7, <3>2 DEF Responder!NrRefresh, Responder!NrSession
        <4>2. m.lifetime > 0
          BY <1>7, <1>8, <4>1, Bounds DEF Min2, Forwarder!Min2
        <4>3. ~Waits(ni) /\ (Meters(ni) => m.lifetime = ni.lifetime)
          BY <1>3, <2>1, <4>2 DEF PassedOK
        <4>4. Meters(ni) => ni.lifetime <= NrMaxLifetime
          BY DEF PathInv, InitiatorOK
        <4>5. QED
          BY <1>7, <1>8, <4>1, <4>3, <4>4, Bounds
          DEF ResponderOK, Min2, Forwarder!Min2
      <3>3. QED
        BY <1>14, <3>1, <3>2
    <2>6. QED
      BY <1>6, <2>2, <2>3, <2>4, <2>5
  <1>15. CASE Responder!NrCloseDiscard(m) \/ Responder!NrMeteringDiscard(m)
    BY <1>6, <1>7, <1>15
    DEF Responder!NrCloseDiscard, Responder!NrMeteringDiscard, Responder!nr_vars
  <1>16. QED
    BY <1>1, <1>11, <1>12, <1>13, <1>14, <1>15 DEF Responder!NrReceive

LEMMA NrTimerStep ==
    ASSUME SessionsInv, PathInv, requested # NotYet, NrTimer
    PROVE  PathInv'
  <1>1. Responder!NrStateTimeout
        /\ UNCHANGED <<ni, ni_out, nf, to_nr, to_ni, meters, requested, placed, lost>>
    BY SameResponder DEF NrTimer
  <1>2. nr'.state = "CLOSE" /\ nr_out' = nr_out
    BY <1>1, NrClosedFacts DEF Responder!NrStateTimeout
  <1>3. ResponderOK(nr', ni) /\ ForwarderOK(nf', ni, meters)
    BY <1>1, <1>2 DEF ResponderOK, PathInv
  <1>4. InitiatorStays /\ QueuesKept
    BY <1>1, <1>2 DEF InitiatorStays, QueuesKept
  <1>5. QED
    BY <1>3, <1>4, OthersStep
(***************************************************************************)
(* The forwarder.                                                          *)
(***************************************************************************)
ForwarderSent(a, b) ==
    /\ Range(to_nr') \subseteq Range(to_nr) \cup {a, b}
    /\ Range(to_ni') \subseteq Range(to_ni) \cup {a, b}

LEMMA ForwarderSends ==
    ASSUME SessionsInv, NEW a \in Initiator!Message, Forwarder!NfSend(a)
    PROVE  ForwarderSent(a, a)
  <1>1. /\ to_nr \in Seq(Initiator!Message) /\ to_ni \in Seq(Initiator!Message)
    BY SessionsMessages
  <1>2. /\ Range(Append(to_nr, a)) = Range(to_nr) \cup {a}
        /\ Range(Append(to_ni, a)) = Range(to_ni) \cup {a}
    BY <1>1, RangeAppend
  <1>3. QED
    BY <1>2 DEF Forwarder!NfSend, ForwarderSent

LEMMA ForwarderSendsBoth ==
    ASSUME SessionsInv, NEW a \in Initiator!Message, NEW b \in Initiator!Message,
           Forwarder!NfSendBoth(a, b)
    PROVE  ForwarderSent(a, b)
  <1>1. /\ to_nr \in Seq(Initiator!Message) /\ to_ni \in Seq(Initiator!Message)
    BY SessionsMessages
  <1>2. /\ Range(Append(to_nr, a)) = Range(to_nr) \cup {a}
        /\ Range(to_nr \o <<a, b>>) = Range(to_nr) \cup {a, b}
        /\ Range(Append(to_ni, b)) = Range(to_ni) \cup {b}
    BY <1>1, RangeAppend, RangeAppendTwo
  <1>3. to_nr' = to_nr \o <<a, b>> \/ to_nr' = Append(to_nr, a)
    BY DEF Forwarder!NfSendBoth
  <1>4. to_ni' = to_ni \/ to_ni' = Append(to_ni, b)
    BY DEF Forwarder!NfSendBoth
  <1>5. QED
    BY <1>2, <1>3, <1>4 DEF ForwarderSent

LEMMA NfClosedFacts ==
    ASSUME NEW s
    PROVE  /\ Forwarder!NfClosed(s).state = "CLOSE"
           /\ \A t, n : ForwarderOK(Forwarder!NfClosed(s), t, n)
  <1> DEFINE c == Forwarder!NfClosed(s)
  <1>1. c.state = "CLOSE" /\ c.rule = {} /\ c.refresh_message = Initiator!NoMsg
    BY DEF Forwarder!NfClosed, Forwarder!NewNfSession, Forwarder!NoMsg,
           Initiator!NoMsg
  <1> HIDE DEF c
  <1>2. \A t, n : ForwarderOK(c, t, n)
    BY <1>1 DEF ForwarderOK
  <1>3. QED
    BY <1>1, <1>2 DEF c

(* What an NF may be handed, from either side. *)
HandedOK(m) ==
    /\ Opened(ni) /\ m.kind = "CONFIGURE" => m = ni.last_configure
    /\ Opened(ni) /\ m.kind = "REFRESH" => Meters(ni) /\ m.lifetime = ni.lifetime
    /\ m.kind = "RESPONSE" =>
          GrantOK(m, ni, requested, Share(ni, meters) \cup placed)

(* What an NF may send without harm, whichever way it goes. *)
Harmless(a) ==
    /\ PassedOK(a, ni, requested, meters)
    /\ GrantOK(a, ni, requested, placed')

ForwarderFrame ==
    /\ SessionsInv /\ PathInv /\ requested # NotYet
    /\ UNCHANGED <<ni, nr, meters, requested>>
    /\ \A m \in Range(ni_out') : m \in Range(ni_out)
    /\ \A m \in Range(nr_out') : m \in Range(nr_out)
    /\ placed \subseteq placed'

LEMMA ForwarderSpeaks ==
    ASSUME ForwarderFrame, ForwarderOK(nf', ni, meters),
           NEW a, NEW b, ForwarderSent(a, b), Harmless(a), Harmless(b)
    PROVE  PathInv'
  <1>1. InitiatorStays /\ ResponderOK(nr', ni)
    BY DEF ForwarderFrame, InitiatorStays, PathInv
  <1>2. QueuesKept
    BY DEF ForwarderFrame, ForwarderSent, Harmless, QueuesKept
  <1>3. QED
    BY <1>1, <1>2, OthersStep DEF ForwarderFrame

LEMMA ForwarderSilent ==
    ASSUME ForwarderFrame, ForwarderOK(nf', ni, meters),
           to_nr' = to_nr, to_ni' = to_ni
    PROVE  PathInv'
  <1>1. InitiatorStays /\ ResponderOK(nr', ni)
    BY DEF ForwarderFrame, InitiatorStays, PathInv
  <1>2. QueuesKept
    BY DEF ForwarderFrame, QueuesKept
  <1>3. QED
    BY <1>1, <1>2, OthersStep DEF ForwarderFrame

LEMMA RefusalHarmless ==
    ASSUME NEW m \in Initiator!Message
    PROVE  /\ Forwarder!CreateResponse(m) \in Initiator!Message
           /\ Harmless(Forwarder!CreateResponse(m))
  <1> DEFINE r == Forwarder!CreateResponse(m)
  <1>1. 0 \in 0 .. MaxLifetime
    BY LifetimeBounds
  <1>2. /\ r \in Initiator!Message /\ r.kind = "RESPONSE" /\ r.ok = FALSE
    BY <1>1 DEF Forwarder!CreateResponse, Initiator!Message,
                Initiator!Lifetimes, Initiator!Smes
  <1> HIDE DEF r
  <1>3. Harmless(r)
    BY <1>2 DEF Harmless, PassedOK, GrantOK
  <1>4. QED
    BY <1>2, <1>3 DEF r

(* A session object that differs only where nothing depends on it. *)
LEMMA ForwarderSameView ==
    ASSUME NEW f, NEW g, NEW s, NEW n, ForwarderOK(f, s, n),
           g.state = f.state, g.rule = f.rule,
           g.configure_message = f.configure_message,
           g.refresh_message = f.refresh_message, g.msn = f.msn
    PROVE  ForwarderOK(g, s, n)
  BY DEF ForwarderOK
LEMMA NotOpened ==
    ASSUME ~Opened(ni)
    PROVE  /\ \A a : Harmless(a)
           /\ \A f, n : (f.state = "CLOSE" => f.rule = {}) => ForwarderOK(f, ni, n)
  BY DEF Harmless, PassedOK, GrantOK, ForwarderOK, Waits, Meters

(* A CONFIGURE that opens the session, or replaces one.                    *)
LEMMA ForwarderOpens ==
    ASSUME ForwarderFrame, NEW m \in Initiator!Message, HandedOK(m),
           NEW lifetime \in 0 .. MaxLifetime,
           m.kind = "CONFIGURE",
           \/ nf.state = "CLOSE" /\ lifetime = Forwarder!NfLifetime(m)
           \/ nf.state = "PENDING" /\ ~Opened(ni),
           Forwarder!ProcessStateClose(
              [nf EXCEPT !.lifetime = lifetime, !.msn = m.msn], m, meters.nf)
    PROVE  PathInv'
  <1> DEFINE s == [nf EXCEPT !.lifetime = lifetime, !.msn = m.msn]
             taken == Forwarder!Taken("forwarder", m.sme, m.objs, meters.nf)
             t == [s EXCEPT !.state = "PENDING", !.configure_message = m,
                            !.rule = @ \cup taken]
             a == Forwarder!NfBuildConfigure(s, m, taken)
  <1>1. Forwarder!NfSend(a) /\ nf' = Forwarder!StartStateTimer(t)
    BY DEF Forwarder!ProcessStateClose
  <1>2. nf \in Forwarder!NfSession /\ m \in Forwarder!Message
    BY SessionTypes, SameMessage DEF ForwarderFrame
  <1>3. /\ s \in Forwarder!NfSession /\ s.lifetime = lifetime
        /\ s.rule = nf.rule /\ s.refresh_message = nf.refresh_message
        /\ s.msn = m.msn
    BY <1>2 DEF Forwarder!NfSession, Forwarder!Message, Forwarder!Lifetimes
  <1>4. a \in Initiator!Message
    BY <1>2, <1>3, SameMessage, ForwarderAssumptions,
       Forwarder!BuildConfigureType
  <1>5. ForwarderSent(a, a)
    BY <1>1, <1>4, ForwarderSends DEF ForwarderFrame
  <1>6. /\ a.kind = "CONFIGURE" /\ a.msn = m.msn
        /\ a.lifetime = Forwarder!Min2(lifetime, m.lifetime)
        /\ a.objs = m.objs \ taken
    BY <1>3 DEF Forwarder!NfBuildConfigure, Forwarder!Configure
  <1> HIDE DEF s, a
  <1>7. /\ nf'.state = "PENDING" /\ nf'.configure_message = m
        /\ nf'.rule = nf.rule \cup taken /\ nf'.msn = m.msn
        /\ nf'.refresh_message = nf.refresh_message
    BY <1>1, <1>3 DEF Forwarder!StartStateTimer, Forwarder!NfSession
  <1>8. CASE ~Opened(ni)
    BY <1>5, <1>7, <1>8, NotOpened, ForwarderSpeaks
  <1>9. CASE Opened(ni)
    <2>1. /\ m = ni.last_configure /\ nf.state = "CLOSE"
          /\ lifetime = Min2(m.lifetime, NfMaxLifetime)
      BY <1>9 DEF HandedOK, Forwarder!NfLifetime, Min2
    <2>2. taken = Share(ni, meters)
      BY <2>1 DEF Share
    <2>3. /\ nf.rule = {}
          /\ Waits(ni) => nf.refresh_message = Initiator!NoMsg
      BY <2>1 DEF ForwarderFrame, PathInv, ForwarderOK
    <2>4. ForwarderOK(nf', ni, meters)
      BY <1>7, <2>1, <2>2, <2>3 DEF ForwarderOK
    <2>5. requested \subseteq ni.rule \cup m.objs
      BY <1>9, <2>1 DEF ForwarderFrame, PathInv, InitiatorOK
    <2>6. a.lifetime = Min2(m.lifetime, NfMaxLifetime) /\ a.lifetime <= m.lifetime
      BY <1>6, <2>1, Bounds DEF Min2, Forwarder!Min2
    <2>7. /\ Min2(m.lifetime, NfMaxLifetime) <= a.lifetime
      BY <2>6, Bounds DEF Min2, Forwarder!Min2
    <2>8. requested \subseteq ni.rule \cup Share(ni, meters) \cup a.objs
      BY <1>6, <2>2, <2>5
    <2>9. Harmless(a)
      BY <1>6, <2>1, <2>6, <2>7, <2>8 DEF Harmless, PassedOK, GrantOK
    <2>10. QED
      BY <1>5, <2>4, <2>9, ForwarderSpeaks
  <1>10. QED
    BY <1>8, <1>9

LEMMA ForwarderReceivesOK ==
    ASSUME ForwarderFrame, NEW m \in Initiator!Message, HandedOK(m),
           Forwarder!NfReceive(m, meters.nf),
           placed' = placed \cup nf'.metered
    PROVE  PathInv'
  <1>1. /\ nf \in Forwarder!NfSession /\ m \in Forwarder!Message
        /\ ForwarderOK(nf, ni, meters)
        /\ nf.configure_message \in Initiator!Message
    <2>1. nf \in Forwarder!NfSession /\ m \in Forwarder!Message
      BY SessionTypes, SameMessage DEF ForwarderFrame
    <2>2. nf.configure_message \in Forwarder!Message
      BY <2>1 DEF Forwarder!NfSession
    <2>3. QED
      BY <2>1, <2>2, SameMessage DEF ForwarderFrame, PathInv
  <1>2. CASE Forwarder!NfConfigure(m, meters.nf, TRUE)
    <2>1. /\ m.kind = "CONFIGURE" /\ nf.state = "CLOSE"
          /\ Forwarder!ProcessStateClose(
                [nf EXCEPT !.lifetime = Forwarder!NfLifetime(m), !.msn = m.msn],
                m, meters.nf)
      BY <1>2 DEF Forwarder!NfConfigure, Forwarder!NfIn
    <2>2. Forwarder!NfLifetime(m) \in 0 .. MaxLifetime
      BY Bounds, LifetimeBounds DEF Forwarder!NfLifetime, Forwarder!Min2
    <2>3. QED
      BY <2>1, <2>2, ForwarderOpens
  <1>3. CASE Forwarder!NfPendingReplace(m, meters.nf, TRUE)
    <2>1. /\ m.kind = "CONFIGURE" /\ nf.state = "PENDING"
          /\ m.msn # nf.configure_message.msn
          /\ Forwarder!ProcessStateClose(
                [nf EXCEPT !.lifetime = m.lifetime, !.msn = m.msn],
                m, meters.nf)
      BY <1>3 DEF Forwarder!NfPendingReplace, Forwarder!NfIn
    <2>2. m.lifetime \in 0 .. MaxLifetime
      BY Bounds
    <2>3. ~Opened(ni)
      BY <1>1, <2>1 DEF HandedOK, ForwarderOK
    <2>4. QED
      BY <2>1, <2>2, <2>3, ForwarderOpens
  <1>4. CASE \/ Forwarder!NfCloseDiscard(m) \/ Forwarder!NfPendingDiscard(m)
             \/ Forwarder!NfRefreshDuplicate(m)
    <2>1. nf' = nf /\ to_nr' = to_nr /\ to_ni' = to_ni
      BY <1>4 DEF Forwarder!NfCloseDiscard, Forwarder!NfPendingDiscard,
                  Forwarder!NfRefreshDuplicate, Forwarder!nf_vars
    <2>2. QED
      BY <1>1, <2>1, ForwarderSilent
  <1>5. CASE Forwarder!NfPendingTerminate(m) \/ Forwarder!NfPendingResent(m)
    <2>1. /\ Forwarder!NfSend(m) /\ m.kind = "CONFIGURE" /\ nf.state = "PENDING"
      BY <1>5 DEF Forwarder!NfPendingTerminate, Forwarder!NfPendingResent,
                  Forwarder!NfIn
    <2>2. ForwarderSent(m, m)
      BY <2>1, ForwarderSends DEF ForwarderFrame
    <2>3. Harmless(m)
      <3>1. CASE ~Opened(ni)
        BY <3>1, NotOpened
      <3>2. CASE Opened(ni)
        <4>1. m = ni.last_configure
              /\ requested \subseteq ni.rule \cup ni.last_configure.objs
          BY <2>1, <3>2 DEF HandedOK, ForwarderFrame, PathInv, InitiatorOK
        <4>2. Min2(m.lifetime, NfMaxLifetime) <= m.lifetime /\ m.lifetime <= m.lifetime
          BY Bounds DEF Min2, Forwarder!Min2
        <4>3. QED
          BY <2>1, <4>1, <4>2 DEF Harmless, PassedOK, GrantOK
      <3>3. QED
        BY <3>1, <3>2
    <2>4. ForwarderOK(nf', ni, meters)
      <3>1. CASE Forwarder!NfPendingTerminate(m)
        BY <3>1, NfClosedFacts DEF Forwarder!NfPendingTerminate
      <3>2. CASE Forwarder!NfPendingResent(m)
        <4>1. nf' = Forwarder!StartStateTimer(nf)
          BY <3>2 DEF Forwarder!NfPendingResent
        <4>2. /\ nf'.state = nf.state /\ nf'.rule = nf.rule
              /\ nf'.configure_message = nf.configure_message
              /\ nf'.refresh_message = nf.refresh_message /\ nf'.msn = nf.msn
          BY <1>1, <4>1 DEF Forwarder!StartStateTimer, Forwarder!NfSession
        <4>3. QED
          BY <1>1, <4>2, ForwarderSameView
      <3>3. QED
        BY <1>5, <3>1, <3>2
    <2>5. QED
      BY <2>2, <2>3, <2>4, ForwarderSpeaks
  <1>6. CASE \E result \in SUBSET nf.rule : Forwarder!NfPendingSuccess(m, result)
    <2>1. /\ Forwarder!NfSend(m) /\ m.kind = "RESPONSE" /\ nf.state = "PENDING"
          /\ nf' = Forwarder!StartStateTimer(
                      [nf EXCEPT !.state = "METERING", !.rule_keys = nf.rule,
                                 !.metered = nf.rule])
      BY <1>6 DEF Forwarder!NfPendingSuccess, Forwarder!NfIn,
                  Forwarder!IsResponseTo
    <2>2. ForwarderSent(m, m)
      BY <2>1, ForwarderSends DEF ForwarderFrame
    <2>3. /\ nf'.state = "METERING" /\ nf'.metered = nf.rule
          /\ nf'.refresh_message = nf.refresh_message
      BY <1>1, <2>1 DEF Forwarder!StartStateTimer, Forwarder!NfSession
    <2>4. ForwarderOK(nf', ni, meters)
      BY <1>1, <2>3 DEF ForwarderOK
    <2>5. Opened(ni) => placed' = placed \cup Share(ni, meters)
      BY <1>1, <2>1, <2>3 DEF ForwarderOK
    <2>6. Harmless(m)
      BY <2>1, <2>5 DEF HandedOK, Harmless, PassedOK, GrantOK, Waits
    <2>7. QED
      BY <2>2, <2>4, <2>6, ForwarderSpeaks
  <1>7. CASE \E result \in SUBSET nf.rule : Forwarder!NfPendingInstallFails(m, result)
    <2> DEFINE a == Forwarder!Refresh(Forwarder!NextMsn(nf.msn), 0)
               b == Forwarder!CreateResponse(m)
    <2>1. PICK result : Forwarder!NfPendingInstallFails(m, result)
      BY <1>7
    <2>2. /\ Forwarder!NfSendBoth(a, b) /\ nf.state = "PENDING"
          /\ nf' = Forwarder!NfClosed(Forwarder!NfRemoveRules(
                      [nf EXCEPT !.rule_keys = result, !.metered = result]))
      BY <2>1 DEF Forwarder!NfPendingInstallFails, Forwarder!NfIn
    <2>3. nf.msn \in Forwarder!Msns
      BY <1>1 DEF Forwarder!NfSession
    <2>4. a \in Initiator!Message
      BY <2>3, SameMessage, ForwarderAssumptions, Forwarder!TeardownType
    <2>5. b \in Initiator!Message /\ Harmless(b)
      BY RefusalHarmless
    <2>6. /\ a.kind = "REFRESH" /\ a.lifetime = 0
          /\ a.msn = Forwarder!NextMsn(nf.msn)
      BY DEF Forwarder!Refresh
    <2>7. Forwarder!NextMsn(nf.msn) # nf.msn
      BY <2>3, ForwarderAssumptions, Forwarder!NextMsnGreater
      DEF Forwarder!IsGreaterThan
    <2> HIDE DEF a, b
    <2>8. Waits(ni) => nf.msn = ni.last_configure.msn
      BY <1>1, <2>2 DEF ForwarderOK
    <2>9. Harmless(a)
      BY <2>6, <2>7, <2>8 DEF Harmless, PassedOK, GrantOK
    <2>10. ForwarderSent(a, b) /\ ForwarderOK(nf', ni, meters)
      BY <2>2, <2>4, <2>5, ForwarderSendsBoth, NfClosedFacts DEF ForwarderFrame
    <2>11. QED
      BY <2>5, <2>9, <2>10, ForwarderSpeaks
  <1>8. CASE Forwarder!NfPendingError(m) \/ Forwarder!NfRefreshError(m)
    <2>1. /\ Forwarder!NfSend(m) /\ m.kind = "RESPONSE" /\ m.ok # TRUE
          /\ \E s : nf' = Forwarder!NfClosed(s)
      BY <1>8 DEF Forwarder!NfPendingError, Forwarder!NfRefreshError,
                  Forwarder!IsResponseTo
    <2>2. ForwarderSent(m, m) /\ ForwarderOK(nf', ni, meters)
      BY <2>1, ForwarderSends, NfClosedFacts DEF ForwarderFrame
    <2>3. Harmless(m)
      BY <2>1 DEF Harmless, PassedOK, GrantOK
    <2>4. QED
      BY <2>2, <2>3, ForwarderSpeaks
  <1>9. CASE Forwarder!NfRefresh(m)
    <2>1. /\ Forwarder!NfSend(m) /\ m.kind = "REFRESH" /\ nf.state = "METERING"
      BY <1>9 DEF Forwarder!NfRefresh, Forwarder!NfIn
    <2>2. nf'.state = "METERING"
      BY <1>1, <1>9 DEF Forwarder!NfRefresh, Forwarder!StartResponseTimer,
                        Forwarder!NfIn, Forwarder!NfSession
    <2>3. ~Waits(ni) /\ (Meters(ni) => m.lifetime = ni.lifetime)
      BY <2>1 DEF HandedOK, Waits, Meters
    <2>4. ForwarderOK(nf', ni, meters)
      BY <2>2, <2>3 DEF ForwarderOK
    <2>5. Harmless(m)
      BY <2>1, <2>3 DEF Harmless, PassedOK, GrantOK
    <2>6. QED
      BY <2>1, <2>4, <2>5, ForwarderSends, ForwarderSpeaks DEF ForwarderFrame
  <1>10. CASE Forwarder!NfRefreshSuccess(m)
    <2>1. /\ Forwarder!NfSend(m) /\ m.kind = "RESPONSE" /\ nf.state = "METERING"
          /\ nf.refresh_message # Forwarder!NoMsg
          /\ nf' = IF nf.lifetime = 0
                   THEN Forwarder!NfClosed(Forwarder!NfRemoveRules(nf))
                   ELSE Forwarder!StartStateTimer(nf)
      BY <1>10 DEF Forwarder!NfRefreshSuccess, Forwarder!NfIn,
                   Forwarder!IsResponseTo
    <2>2. ~Waits(ni)
      BY <1>1, <2>1 DEF ForwarderOK, Forwarder!NoMsg, Initiator!NoMsg
    <2>3. Harmless(m)
      BY <2>1, <2>2 DEF Harmless, PassedOK, GrantOK
    <2>4. ForwarderOK(nf', ni, meters)
      <3>1. CASE nf.lifetime = 0
        BY <2>1, <3>1, NfClosedFacts
      <3>2. CASE nf.lifetime # 0
        <4>1. /\ nf'.state = nf.state /\ nf'.rule = nf.rule
              /\ nf'.configure_message = nf.configure_message
              /\ nf'.refresh_message = nf.refresh_message /\ nf'.msn = nf.msn
          BY <1>1, <2>1, <3>2 DEF Forwarder!StartStateTimer, Forwarder!NfSession
        <4>2. QED
          BY <1>1, <4>1, ForwarderSameView
      <3>3. QED
        BY <3>1, <3>2
    <2>5. QED
      BY <2>1, <2>3, <2>4, ForwarderSends, ForwarderSpeaks DEF ForwarderFrame
  <1>11. CASE Forwarder!NfMeteringOther(m)
    <2>1. /\ to_nr' = to_nr /\ to_ni' = to_ni
          /\ nf'.state = nf.state /\ nf'.rule = nf.rule
          /\ nf'.configure_message = nf.configure_message
          /\ nf'.refresh_message = nf.refresh_message /\ nf'.msn = nf.msn
      BY <1>1, <1>11 DEF Forwarder!NfMeteringOther, Forwarder!NfAbort,
                         Forwarder!NfSilent, Forwarder!nf_vars, Forwarder!NfSession
    <2>2. QED
      BY <1>1, <2>1, ForwarderSameView, ForwarderSilent
  <1>12. QED
    BY <1>2, <1>3, <1>4, <1>5, <1>6, <1>7, <1>8, <1>9, <1>10, <1>11
    DEF Forwarder!NfReceive

LEMMA DeliverFromNiStep ==
    ASSUME SessionsInv, PathInv, requested # NotYet, DeliverFromNi
    PROVE  PathInv'
  <1> DEFINE m == Head(ni_out)
  <1>1. /\ ni_out # <<>> /\ ni_out' = Tail(ni_out)
        /\ Forwarder!NfReceive(m, meters.nf)
        /\ placed' = placed \cup nf'.metered
        /\ UNCHANGED <<ni, nr, nr_out, meters, requested, lost>>
    BY SameForwarder DEF DeliverFromNi
  <1>2. /\ m \in Initiator!Message /\ m \in Range(ni_out)
        /\ Range(ni_out') \subseteq Range(ni_out)
    BY <1>1, SessionsMessages, RangeTail
  <1> HIDE DEF m
  <1>3. SentOK(m, ni)
    BY <1>2 DEF PathInv
  <1>4. HandedOK(m)
    BY <1>3 DEF SentOK, HandedOK, GrantOK, Opened, Waits
  <1>5. ForwarderFrame
    BY <1>1, <1>2 DEF ForwarderFrame
  <1>6. QED
    BY <1>1, <1>2, <1>4, <1>5, ForwarderReceivesOK

LEMMA DeliverFromNrStep ==
    ASSUME SessionsInv, PathInv, requested # NotYet, DeliverFromNr
    PROVE  PathInv'
  <1> DEFINE m == Head(nr_out)
  <1>1. /\ nr_out # <<>> /\ nr_out' = Tail(nr_out)
        /\ Forwarder!NfReceive(m, meters.nf)
        /\ placed' = placed \cup nf'.metered
        /\ UNCHANGED <<ni, ni_out, nr, meters, requested, lost>>
    BY SameForwarder DEF DeliverFromNr
  <1>2. /\ m \in Initiator!Message /\ m \in Range(nr_out)
        /\ Range(nr_out') \subseteq Range(nr_out)
    BY <1>1, SessionsMessages, RangeTail
  <1> HIDE DEF m
  <1>3. /\ m.kind = "RESPONSE"
        /\ GrantOK(m, ni, requested, Share(ni, meters) \cup placed)
    BY <1>2 DEF PathInv
  <1>4. HandedOK(m)
    BY <1>3 DEF HandedOK
  <1>5. ForwarderFrame
    BY <1>1, <1>2 DEF ForwarderFrame
  <1>6. QED
    BY <1>1, <1>2, <1>4, <1>5, ForwarderReceivesOK

(* An NF that gives up answers for the peer that is gone.                  *)
LEMMA NfEventStep ==
    ASSUME SessionsInv, PathInv, requested # NotYet, NfEvent
    PROVE  PathInv'
  <1>1. /\ Forwarder!NfTimeout \/ Forwarder!NfNotification
        /\ UNCHANGED <<ni, ni_out, nr, nr_out, meters, requested, placed, lost>>
    BY SameForwarder DEF NfEvent
  <1>2. ForwarderFrame /\ ForwarderOK(nf, ni, meters)
    BY <1>1 DEF ForwarderFrame, PathInv
  <1>3. /\ nf \in Forwarder!NfSession
        /\ nf.configure_message \in Initiator!Message
        /\ nf.refresh_message \in Initiator!Message
    <2>1. nf \in Forwarder!NfSession
      BY SessionTypes
    <2>2. /\ nf.configure_message \in Forwarder!Message
          /\ nf.refresh_message \in Forwarder!Message
      BY <2>1 DEF Forwarder!NfSession
    <2>3. QED
      BY <2>1, <2>2, SameMessage
  <1>4. ASSUME NEW m \in Initiator!Message, NEW s,
               Forwarder!NfSend(Forwarder!CreateResponse(m)),
               nf' = Forwarder!NfClosed(s)
        PROVE  PathInv'
    <2> DEFINE a == Forwarder!CreateResponse(m)
    <2>1. a \in Initiator!Message /\ Harmless(a)
      BY RefusalHarmless
    <2>2. Forwarder!NfSend(a)
      BY <1>4
    <2> HIDE DEF a
    <2>3. ForwarderSent(a, a)
      BY <2>1, <2>2, ForwarderSends
    <2>4. ForwarderOK(nf', ni, meters)
      BY <1>4, NfClosedFacts
    <2>5. QED
      BY <1>2, <2>1, <2>3, <2>4, ForwarderSpeaks
  <1>5. ASSUME NEW s, nf' = Forwarder!NfClosed(s), Forwarder!NfSilent
        PROVE  PathInv'
    <2>1. ForwarderOK(nf', ni, meters)
      BY <1>5, NfClosedFacts
    <2>2. QED
      BY <1>2, <1>5, <2>1, ForwarderSilent DEF Forwarder!NfSilent
  <1>6. ASSUME nf'.state = nf.state, nf'.rule = nf.rule,
               nf'.configure_message = nf.configure_message,
               nf'.refresh_message = nf.refresh_message, nf'.msn = nf.msn,
               Forwarder!NfSilent
        PROVE  PathInv'
    <2>1. ForwarderOK(nf', ni, meters)
      BY <1>2, <1>6, ForwarderSameView
    <2>2. QED
      BY <1>2, <1>6, <2>1, ForwarderSilent DEF Forwarder!NfSilent
  <1>7. CASE Forwarder!NfPendingUnreachable \/ Forwarder!NfPendingStateTimer
    BY <1>3, <1>4, <1>7
    DEF Forwarder!NfPendingUnreachable, Forwarder!NfPendingStateTimer
  <1>8. CASE Forwarder!NfMeteringUnreachable \/ Forwarder!NfMeteringResponseTimer
    <2>1. Forwarder!NfNoAnswer
      BY <1>8 DEF Forwarder!NfMeteringUnreachable,
                  Forwarder!NfMeteringResponseTimer
    <2>2. CASE nf.refresh_message = Forwarder!NoMsg
      <3>1. /\ nf' = [Forwarder!NfRemoveRules(nf) EXCEPT
                        !.state_timer = FALSE, !.abort = "no_next_node"]
            /\ Forwarder!NfSilent
        BY <2>1, <2>2 DEF Forwarder!NfNoAnswer
      <3>2. /\ nf'.state = nf.state /\ nf'.rule = nf.rule
            /\ nf'.configure_message = nf.configure_message
            /\ nf'.refresh_message = nf.refresh_message /\ nf'.msn = nf.msn
        BY <1>3, <3>1 DEF Forwarder!NfRemoveRules, Forwarder!NfSession
      <3>3. QED
        BY <1>6, <3>1, <3>2
    <2>3. CASE nf.refresh_message # Forwarder!NoMsg
      BY <1>3, <1>4, <2>1, <2>3 DEF Forwarder!NfNoAnswer
    <2>4. QED
      BY <2>2, <2>3
  <1>9. CASE Forwarder!NfMeteringStateTimer \/ Forwarder!NfMeteringRouteChanged
    BY <1>5, <1>9
    DEF Forwarder!NfMeteringStateTimer, Forwarder!NfMeteringRouteChanged
  <1>10. CASE Forwarder!NfOutdatedTimer
    <2>1. /\ Forwarder!NfSilent
          /\ \/ nf' = [nf EXCEPT !.abort = "outdated_timer"]
             \/ \E more \in BOOLEAN : nf' = [nf EXCEPT !.outdated = more]
      BY <1>10 DEF Forwarder!NfOutdatedTimer, Forwarder!NfAbort
    <2>2. /\ nf'.state = nf.state /\ nf'.rule = nf.rule
          /\ nf'.configure_message = nf.configure_message
          /\ nf'.refresh_message = nf.refresh_message /\ nf'.msn = nf.msn
      BY <1>3, <2>1 DEF Forwarder!NfSession
    <2>3. QED
      BY <1>6, <2>1, <2>2
  <1>11. QED
    BY <1>1, <1>7, <1>8, <1>9, <1>10
    DEF Forwarder!NfTimeout, Forwarder!NfStateTimeout, Forwarder!NfNotification

(***************************************************************************)
(* The initiator.                                                          *)
(***************************************************************************)
InitiatorFrame ==
    /\ SessionsInv /\ PathInv /\ requested # NotYet
    /\ UNCHANGED <<nf, to_nr, nr, nr_out, meters, requested, placed>>
    /\ \A m \in Range(to_ni') : m \in Range(to_ni)

(* What the other nodes know of the initiator. *)
SameView(s, t) ==
    /\ t.state = s.state /\ t.lifetime = s.lifetime /\ t.rule = s.rule
    /\ t.last_configure = s.last_configure

LEMMA SameViewKeeps ==
    ASSUME NEW s, NEW t, SameView(s, t), NEW n
    PROVE  /\ Share(t, n) = Share(s, n)
           /\ \A f : ForwarderOK(f, s, n) => ForwarderOK(f, t, n)
           /\ \A r : ResponderOK(r, s) => ResponderOK(r, t)
           /\ \A m : SentOK(m, s) => SentOK(m, t)
           /\ \A m, want : PassedOK(m, s, want, n) => PassedOK(m, t, want, n)
           /\ \A m, want, put : GrantOK(m, s, want, put) => GrantOK(m, t, want, put)
  <1> USE DEF SameView, Opened, Waits, Meters
  <1>1. Share(t, n) = Share(s, n)
    BY DEF Share
  <1>2. \A f : ForwarderOK(f, s, n) => ForwarderOK(f, t, n)
    BY <1>1 DEF ForwarderOK
  <1>3. \A r : ResponderOK(r, s) => ResponderOK(r, t)
    BY DEF ResponderOK
  <1>4. \A m : SentOK(m, s) => SentOK(m, t)
    BY DEF SentOK
  <1>5. \A m, want : PassedOK(m, s, want, n) => PassedOK(m, t, want, n)
    BY <1>1 DEF PassedOK
  <1>6. \A m, want, put : GrantOK(m, s, want, put) => GrantOK(m, t, want, put)
    BY DEF GrantOK
  <1>7. QED
    BY <1>1, <1>2, <1>3, <1>4, <1>5, <1>6

LEMMA PathInvFrom ==
    ASSUME InitiatorFrame, InitiatorOK(ni', requested, placed),
           ForwarderOK(nf, ni', meters), ResponderOK(nr, ni'),
           \A m \in Range(ni_out') : SentOK(m, ni'),
           \A m \in Range(to_nr) : PassedOK(m, ni', requested, meters),
           \A m \in Range(nr_out) :
              GrantOK(m, ni', requested, Share(ni', meters) \cup placed),
           \A m \in Range(to_ni) : GrantOK(m, ni', requested, placed)
    PROVE  PathInv'
  <1>1. /\ UNCHANGED <<nf, to_nr, nr, nr_out, meters, requested, placed>>
        /\ requested # NotYet
        /\ \A m \in Range(to_ni') : m \in Range(to_ni)
    BY DEF InitiatorFrame
  <1>2. Pristine'
    BY <1>1 DEF Pristine, NotYet
  <1>3. \A m \in Range(nr_out) : m.kind = "RESPONSE"
    BY DEF InitiatorFrame, PathInv
  <1>4. InitiatorOK(ni', requested', placed')
    BY <1>1
  <1>5. ForwarderOK(nf', ni', meters') /\ ResponderOK(nr', ni')
    BY <1>1
  <1>6. \A m \in Range(to_nr') : PassedOK(m, ni', requested', meters')
    BY <1>1
  <1>7. \A m \in Range(nr_out') :
           /\ m.kind = "RESPONSE"
           /\ GrantOK(m, ni', requested', Share(ni', meters') \cup placed')
    BY <1>1, <1>3
  <1>8. \A m \in Range(to_ni') : GrantOK(m, ni', requested', placed')
    BY <1>1
  <1>9. QED
    BY <1>2, <1>4, <1>5, <1>6, <1>7, <1>8 DEF PathInv

(* The session goes on as before. *)
LEMMA InitiatorGoesOn ==
    ASSUME InitiatorFrame, SameView(ni, ni'),
           InitiatorOK(ni', requested, placed),
           \A m \in Range(ni_out') : m \in Range(ni_out) \/ SentOK(m, ni)
    PROVE  PathInv'
  <1>1. PathInv
    BY DEF InitiatorFrame
  <1>2. ForwarderOK(nf, ni', meters) /\ ResponderOK(nr, ni')
    BY <1>1, SameViewKeeps DEF PathInv
  <1>3. \A m \in Range(ni_out') : SentOK(m, ni')
    BY <1>1, SameViewKeeps DEF PathInv
  <1>4. \A m \in Range(to_nr) : PassedOK(m, ni', requested, meters)
    BY <1>1, SameViewKeeps DEF PathInv
  <1>5. \A m \in Range(nr_out) :
           GrantOK(m, ni', requested, Share(ni', meters) \cup placed)
    <2>1. Share(ni', meters) = Share(ni, meters)
      BY SameViewKeeps
    <2>2. \A m \in Range(nr_out) :
             GrantOK(m, ni, requested, Share(ni', meters) \cup placed)
      BY <1>1, <2>1 DEF PathInv
    <2>3. QED
      BY <2>2, SameViewKeeps
  <1>6. \A m \in Range(to_ni) : GrantOK(m, ni', requested, placed)
    BY <1>1, SameViewKeeps DEF PathInv
  <1>7. QED
    BY <1>2, <1>3, <1>4, <1>5, <1>6, PathInvFrom

(* Without its CONFIGURE the session promises nothing any more. *)
LEMMA InitiatorLeaves ==
    ASSUME InitiatorFrame, ni'.last_configure = Initiator!NoMsg, ni'.lifetime = 0
    PROVE  PathInv'
  <1>1. ~Opened(ni') /\ ~Waits(ni') /\ ~Meters(ni')
    BY DEF Initiator!NoMsg, Opened, Waits, Meters
  <1>2. InitiatorOK(ni', requested, placed)
    BY <1>1 DEF InitiatorOK
  <1>3. ForwarderOK(nf, ni', meters)
    BY <1>1 DEF InitiatorFrame, PathInv, ForwarderOK
  <1>4. ResponderOK(nr, ni')
    BY <1>1 DEF ResponderOK
  <1>5. /\ \A m : SentOK(m, ni')
        /\ \A m, want, n : PassedOK(m, ni', want, n)
        /\ \A m, want, put : GrantOK(m, ni', want, put)
    BY <1>1 DEF SentOK, PassedOK, GrantOK
  <1>6. QED
    BY <1>2, <1>3, <1>4, <1>5, PathInvFrom

LEMMA NiClosedFacts ==
    ASSUME NEW s
    PROVE  /\ Initiator!NiClosed(s).last_configure = Initiator!NoMsg
           /\ Initiator!NiClosed(s).lifetime = 0
  BY DEF Initiator!NiClosed, Initiator!NewNiSession

LEMMA InitiatorSends ==
    ASSUME SessionsInv, NEW m \in Initiator!Message, Initiator!NiSend(m)
    PROVE  Range(ni_out') = Range(ni_out) \cup {m}
  <1>1. ni_out \in Seq(Initiator!Message) /\ ni_out' = Append(ni_out, m)
    BY SessionsMessages DEF Initiator!NiSend
  <1>2. QED
    BY <1>1, RangeAppend

(* Every object was installed: the CONFIGURE's answer is taken over. *)
LEMMA InitiatorInstalls ==
    ASSUME InitiatorFrame, NEW m \in Initiator!Message,
           GrantOK(m, ni, requested, placed), m.ok,
           ni.state = "PENDING",
           Initiator!IsResponseTo(m, ni.last_configure),
           ni' = Initiator!NiInstalled(Initiator!NiAccepted(m.lifetime)),
           ni_out' = ni_out
    PROVE  PathInv'
  <1>1. /\ ni \in Initiator!NiSession /\ ni.last_configure \in Initiator!Message
        /\ ni.lifetime \in Nat /\ nr.lifetime \in Nat
        /\ ni.last_configure.lifetime \in Nat /\ m.lifetime \in Nat
    BY SessionTypes, Bounds DEF InitiatorFrame
  <1>2. /\ ni'.state = "METERING" /\ ni'.lifetime = m.lifetime
        /\ ni'.rule = ni.rule /\ ni'.metered = ni.rule
        /\ ni'.last_configure = ni.last_configure
        /\ ni'.last_refresh = ni.last_refresh
    BY <1>1 DEF Initiator!NiInstalled, Initiator!NiAccepted, Initiator!NiSession
  <1>3. InitiatorOK(ni, requested, placed)
    BY DEF InitiatorFrame, PathInv
  <1>4. Waits(ni) /\ Opened(ni) /\ m.kind = "RESPONSE"
        /\ m.msn = ni.last_configure.msn
    BY <1>3 DEF Initiator!IsResponseTo, InitiatorOK, Waits
  <1>5. Opened(ni') /\ Meters(ni') /\ ~Waits(ni')
    BY <1>2, <1>4 DEF Opened, Waits, Meters
  <1>6. /\ requested \subseteq ni.rule \cup placed
        /\ m.lifetime <= ni.last_configure.lifetime
        /\ m.lifetime <= NrMaxLifetime
    BY <1>4 DEF GrantOK
  <1>7. InitiatorOK(ni', requested, placed)
    <2>1. requested \subseteq ni'.rule \cup ni'.last_configure.objs
      BY <1>2, <1>3, <1>4 DEF InitiatorOK
    <2>2. ni'.last_refresh.kind # "REFRESH"
      BY <1>2, <1>3, <1>4 DEF InitiatorOK, Initiator!NoMsg
    <2>3. QED
      BY <1>2, <1>5, <1>6, <2>1, <2>2 DEF InitiatorOK
  <1>8. Share(ni', meters) = Share(ni, meters)
    BY <1>2 DEF Share
  <1>9. ForwarderOK(nf, ni', meters)
    BY <1>2, <1>4, <1>5, <1>8 DEF InitiatorFrame, PathInv, ForwarderOK
  <1>10. ResponderOK(nr, ni')
    <2>1. ASSUME nr.state = "METERING"
          PROVE  /\ Min2(m.lifetime, NfMaxLifetime) <= nr.lifetime
                 /\ nr.msn = ni.last_configure.msn
      <3>1. /\ nr.msn = ni.last_configure.msn
            /\ Min2(Min2(ni.last_configure.lifetime, NfMaxLifetime), NrMaxLifetime)
                  <= nr.lifetime
        BY <1>4, <2>1 DEF InitiatorFrame, PathInv, ResponderOK
      <3>2. QED
        BY <1>1, <1>6, <3>1, Bounds DEF Min2, Forwarder!Min2
    <2>2. QED
      BY <1>2, <1>5, <2>1 DEF ResponderOK
  <1>11. ASSUME NEW a \in Range(ni_out')
         PROVE  SentOK(a, ni')
    <2>1. SentOK(a, ni)
      BY <1>11 DEF InitiatorFrame, PathInv
    <2>2. a = ni.last_configure
      BY <1>4, <2>1 DEF SentOK, Waits, Meters
    <2>3. QED
      BY <1>2, <2>2 DEF SentOK
  <1>12. ASSUME NEW a \in Range(to_nr)
         PROVE  PassedOK(a, ni', requested, meters)
    <2>1. PassedOK(a, ni, requested, meters)
      BY DEF InitiatorFrame, PathInv
    <2>2. QED
      BY <1>2, <1>4, <1>5, <1>8, <2>1 DEF PassedOK
  <1>13. \A a, want, put : GrantOK(a, ni', want, put)
    BY <1>5 DEF GrantOK
  <1>14. QED
    BY <1>7, <1>9, <1>10, <1>11, <1>12, <1>13, PathInvFrom

(* A REFRESH goes out, or the CONFIGURE or the last REFRESH once more. *)
LEMMA InitiatorActs ==
    ASSUME InitiatorFrame,
           \/ Initiator!NiApiTeardown
           \/ Initiator!NiResponseTimeout \/ Initiator!NiRefreshTimeout
    PROVE  PathInv'
  <1>1. /\ SessionsInv /\ ni \in Initiator!NiSession
        /\ ni.last_configure \in Initiator!Message
        /\ ni.last_refresh \in Initiator!Message
        /\ ni.msn \in Initiator!Msns /\ ni.lifetime \in Initiator!Lifetimes
        /\ InitiatorOK(ni, requested, placed)
    <2>1. SessionsInv /\ ni \in Initiator!NiSession
          /\ InitiatorOK(ni, requested, placed)
      BY SessionTypes DEF InitiatorFrame, PathInv
    <2>2. QED
      BY <2>1 DEF Initiator!NiSession
  <1>2. ASSUME NEW s, ni' = Initiator!NiClosed(s)
        PROVE  PathInv'
    BY <1>2, NiClosedFacts, InitiatorLeaves
  <1>3. CASE Initiator!NiApiTeardown
    BY <1>2, <1>3 DEF Initiator!NiApiTeardown
  <1>4. CASE Initiator!NiConfigureGiveUp \/ Initiator!NiRefreshGiveUp
    BY <1>2, <1>4 DEF Initiator!NiConfigureGiveUp, Initiator!NiRefreshGiveUp
  <1>5. CASE Initiator!NiConfigureRetry
    <2>1. /\ Initiator!NiSend(ni.last_configure)
          /\ ni' = [ni EXCEPT !.configure_counter = ni.configure_counter + 1]
      BY <1>5 DEF Initiator!NiConfigureRetry
    <2>2. SameView(ni, ni') /\ ni'.metered = ni.metered
          /\ ni'.last_refresh = ni.last_refresh
      BY <1>1, <2>1 DEF SameView, Initiator!NiSession
    <2>3. InitiatorOK(ni', requested, placed)
      BY <1>1, <2>2 DEF InitiatorOK, SameView, Opened, Waits, Meters
    <2>4. SentOK(ni.last_configure, ni)
      BY DEF SentOK
    <2>5. Range(ni_out') = Range(ni_out) \cup {ni.last_configure}
      BY <1>1, <2>1, InitiatorSends
    <2>6. QED
      BY <2>2, <2>3, <2>4, <2>5, InitiatorGoesOn
  <1>6. CASE Initiator!NiRefreshRetry
    <2>1. /\ Initiator!NiSend(ni.last_refresh) /\ ni.state = "METERING"
          /\ ni.response_timer
          /\ ni' = [ni EXCEPT !.refresh_counter = ni.refresh_counter + 1]
      BY <1>6 DEF Initiator!NiRefreshRetry, Initiator!NiIn
    <2>2. SameView(ni, ni') /\ ni'.metered = ni.metered
          /\ ni'.last_refresh = ni.last_refresh
      BY <1>1, <2>1 DEF SameView, Initiator!NiSession
    <2>3. InitiatorOK(ni', requested, placed)
      BY <1>1, <2>2 DEF InitiatorOK, SameView, Opened, Waits, Meters
    <2>4. ni.last_refresh.kind = "REFRESH"
      BY <1>1, <2>1 DEF SessionsInv, Initiator!NiInv, Initiator!NiRetryHasMessage
    <2>5. SentOK(ni.last_refresh, ni)
      BY <1>1, <2>1, <2>4 DEF SentOK, InitiatorOK, Meters
    <2>6. Range(ni_out') = Range(ni_out) \cup {ni.last_refresh}
      BY <1>1, <2>1, InitiatorSends
    <2>7. QED
      BY <2>2, <2>3, <2>5, <2>6, InitiatorGoesOn
  <1>7. CASE Initiator!NiPendingRefreshTimer
    <2>1. /\ ni_out' = ni_out
          /\ ni' = [ni EXCEPT !.refresh_timer = FALSE]
      BY <1>7 DEF Initiator!NiPendingRefreshTimer
    <2>2. SameView(ni, ni') /\ ni'.metered = ni.metered
          /\ ni'.last_refresh = ni.last_refresh
      BY <1>1, <2>1 DEF SameView, Initiator!NiSession
    <2>3. InitiatorOK(ni', requested, placed)
      BY <1>1, <2>2 DEF InitiatorOK, SameView, Opened, Waits, Meters
    <2>4. QED
      BY <2>1, <2>2, <2>3, InitiatorGoesOn
  <1>8. CASE Initiator!NiRefreshTimer
    <2> DEFINE r == Initiator!BuildRefresh(ni)
    <2>1. /\ Initiator!NiSend(r) /\ ni.state = "METERING"
          /\ ni' = [ni EXCEPT !.msn = r.msn, !.last_refresh = r,
                              !.refresh_counter = 0,
                              !.refresh_timer = FALSE, !.response_timer = TRUE]
      BY <1>8 DEF Initiator!NiRefreshTimer, Initiator!NiIn
    <2>2. r \in Initiator!Message
      BY <1>1, InitiatorAssumptions, Initiator!NextMsnType, Initiator!RefreshType
      DEF Initiator!BuildRefresh
    <2>3. r.kind = "REFRESH" /\ r.lifetime = ni.lifetime
      BY DEF Initiator!BuildRefresh, Initiator!Refresh
    <2> HIDE DEF r
    <2>4. SameView(ni, ni') /\ ni'.metered = ni.metered /\ ni'.last_refresh = r
      BY <1>1, <2>1 DEF SameView, Initiator!NiSession
    <2>5. InitiatorOK(ni', requested, placed)
      BY <1>1, <2>1, <2>3, <2>4 DEF InitiatorOK, SameView, Opened, Waits, Meters
    <2>6. SentOK(r, ni)
      BY <1>1, <2>1, <2>3 DEF SentOK, InitiatorOK, Meters
    <2>7. Range(ni_out') = Range(ni_out) \cup {r}
      BY <1>1, <2>1, <2>2, InitiatorSends
    <2>8. QED
      BY <2>4, <2>5, <2>6, <2>7, InitiatorGoesOn
  <1>9. QED
    BY <1>3, <1>4, <1>5, <1>6, <1>7, <1>8
    DEF Initiator!NiResponseTimeout, Initiator!NiRefreshTimeout

(* The daemon ends, or what happened is discarded. *)
LEMMA InitiatorIdles ==
    ASSUME InitiatorFrame, ni_out' = ni_out,
           ni' = ni \/ \E reason : ni' = [ni EXCEPT !.abort = reason]
    PROVE  PathInv'
  <1>1. ni \in Initiator!NiSession /\ InitiatorOK(ni, requested, placed)
    BY SessionTypes DEF InitiatorFrame, PathInv
  <1>2. SameView(ni, ni') /\ ni'.metered = ni.metered
        /\ ni'.last_refresh = ni.last_refresh
    BY <1>1 DEF SameView, Initiator!NiSession
  <1>3. InitiatorOK(ni', requested, placed)
    BY <1>1, <1>2 DEF InitiatorOK, SameView, Opened, Waits, Meters
  <1>4. QED
    BY <1>2, <1>3, InitiatorGoesOn

LEMMA InitiatorSurprised ==
    ASSUME InitiatorFrame,
           Initiator!NiNotification \/ Initiator!NiInvalidState
              \/ Initiator!NiUnexpected
    PROVE  PathInv'
  <1>1. CASE Initiator!NiPendingNoNextNode
    BY <1>1, NiClosedFacts, InitiatorLeaves DEF Initiator!NiPendingNoNextNode
  <1>2. CASE Initiator!NiInvalidState \/ Initiator!NiUnexpected
    BY <1>2, InitiatorIdles
    DEF Initiator!NiInvalidState, Initiator!NiUnexpected,
        Initiator!NiPendingDiscard, Initiator!NiPendingNull,
        Initiator!NiMeteringDiscard, Initiator!NiMeteringNull,
        Initiator!NiAbort, Initiator!ni_vars
  <1>3. QED
    BY <1>1, <1>2 DEF Initiator!NiNotification

LEMMA InitiatorAnswered ==
    ASSUME InitiatorFrame, NEW m \in Initiator!Message,
           GrantOK(m, ni, requested, placed), Initiator!NiReceive(m)
    PROVE  PathInv'
  <1>1. ni \in Initiator!NiSession /\ InitiatorOK(ni, requested, placed)
    BY SessionTypes DEF InitiatorFrame, PathInv
  <1>2. CASE \E result \in SUBSET ni.rule, state \in Initiator!NiStates :
                Initiator!NiConfigureAnswered(m, result, state)
    <2>1. PICK result, state : Initiator!NiConfigureAnswered(m, result, state)
      BY <1>2
    <2> DEFINE s == Initiator!NiAccepted(m.lifetime)
    <2>2. /\ ni.state = "PENDING"
          /\ Initiator!IsResponseTo(m, ni.last_configure)
          /\ \/ m.ok /\ ni' = Initiator!NiInstalled(s) /\ ni_out' = ni_out
             \/ ni' = Initiator!NiOrClosed(
                         Initiator!NiPartlyInstalled(s, result, state))
             \/ ni' = Initiator!NiClosed(ni)
      BY <2>1 DEF Initiator!NiConfigureAnswered, Initiator!NiIn
    <2>3. CASE m.ok /\ ni' = Initiator!NiInstalled(s) /\ ni_out' = ni_out
      BY <2>2, <2>3, InitiatorInstalls
    <2>4. CASE ni' = Initiator!NiOrClosed(
                        Initiator!NiPartlyInstalled(s, result, state))
      <3> DEFINE p == Initiator!NiPartlyInstalled(s, result, state)
      <3>2. p.last_configure = Initiator!NoMsg /\ p.lifetime = 0
        BY <1>1 DEF Initiator!NiPartlyInstalled, Initiator!NiRemoveRules,
                    Initiator!NiAccepted, Initiator!NiSession
      <3> HIDE DEF p
      <3>3. ni' = p \/ ni' = Initiator!NiClosed(p)
        BY <2>4 DEF Initiator!NiOrClosed, p
      <3>4. QED
        BY <3>2, <3>3, NiClosedFacts, InitiatorLeaves
    <2>5. CASE ni' = Initiator!NiClosed(ni)
      BY <2>5, NiClosedFacts, InitiatorLeaves
    <2>6. QED
      BY <2>2, <2>3, <2>4, <2>5
  <1>3. CASE Initiator!NiRefreshAnswered(m)
    <2>1. /\ ni_out' = ni_out
          /\ \/ ni' = [ni EXCEPT !.response_timer = FALSE, !.refresh_timer = TRUE,
                                 !.refresh_counter = 0]
             \/ ni' = Initiator!NiClosed(Initiator!NiRemoveRules(ni))
      BY <1>3 DEF Initiator!NiRefreshAnswered
    <2>2. CASE ni' = [ni EXCEPT !.response_timer = FALSE, !.refresh_timer = TRUE,
                                !.refresh_counter = 0]
      <3>1. SameView(ni, ni') /\ ni'.metered = ni.metered
            /\ ni'.last_refresh = ni.last_refresh
        BY <1>1, <2>2 DEF SameView, Initiator!NiSession
      <3>2. InitiatorOK(ni', requested, placed)
        BY <1>1, <3>1 DEF InitiatorOK, SameView, Opened, Waits, Meters
      <3>3. QED
        BY <2>1, <3>1, <3>2, InitiatorGoesOn
    <2>3. CASE ni' = Initiator!NiClosed(Initiator!NiRemoveRules(ni))
      BY <2>3, NiClosedFacts, InitiatorLeaves
    <2>4. QED
      BY <2>1, <2>2, <2>3
  <1>4. CASE Initiator!NiUnexpected
    BY <1>4, InitiatorSurprised
  <1>5. QED
    BY <1>2, <1>3, <1>4 DEF Initiator!NiReceive

LEMMA InitiatorStep ==
    ASSUME SessionsInv, PathInv, requested # NotYet,
           UserTearsDown \/ NiTimer \/ NiNotified \/ DeliverToNi
    PROVE  PathInv'
  <1>1. CASE UserTearsDown \/ NiTimer \/ NiNotified
    <2>1. InitiatorFrame
      BY <1>1 DEF UserTearsDown, NiTimer, NiNotified, InitiatorFrame
    <2>2. \/ Initiator!NiApiTeardown
          \/ Initiator!NiResponseTimeout \/ Initiator!NiRefreshTimeout
          \/ Initiator!NiNotification \/ Initiator!NiInvalidState
      BY <1>1, SameInitiator DEF UserTearsDown, NiTimer, NiNotified
    <2>3. QED
      BY <2>1, <2>2, InitiatorActs, InitiatorSurprised
  <1>2. CASE DeliverToNi
    <2> DEFINE m == Head(to_ni)
    <2>1. /\ to_ni # <<>> /\ to_ni' = Tail(to_ni)
          /\ Initiator!NiReceive(m) \/ UNCHANGED <<ni, ni_out>>
          /\ UNCHANGED <<nf, to_nr, nr, nr_out, meters, requested, placed, lost>>
      BY <1>2, SameInitiator DEF DeliverToNi
    <2>2. /\ m \in Initiator!Message /\ m \in Range(to_ni)
          /\ Range(to_ni') \subseteq Range(to_ni)
      BY <2>1, SessionsMessages, RangeTail
    <2> HIDE DEF m
    <2>3. InitiatorFrame /\ GrantOK(m, ni, requested, placed)
      BY <2>1, <2>2 DEF InitiatorFrame, PathInv
    <2>4. QED
      BY <2>1, <2>2, <2>3, InitiatorAnswered, InitiatorIdles
  <1>3. QED
    BY <1>1, <1>2

(***************************************************************************)
(* Before the user asks, only the user can act.                            *)
(***************************************************************************)
LEMMA QuietBefore ==
    ASSUME PathInv, requested = NotYet, [Next]_path_vars
    PROVE  UserConfigures \/ UNCHANGED path_vars
  <1>1. /\ ni = Initiator!NewNiSession(0) /\ nf = Forwarder!NewNfSession
        /\ nr = Responder!NewNrSession
        /\ ni_out = <<>> /\ nr_out = <<>> /\ to_nr = <<>> /\ to_ni = <<>>
    BY DEF PathInv, Pristine, Initiator!NiInit, Forwarder!NfInit, Responder!NrInit
  <1>2. ni.state = "CLOSE" /\ nf.state = "CLOSE" /\ nr.state = "CLOSE"
        /\ nf.outdated = FALSE
    BY <1>1 DEF Initiator!NewNiSession, Forwarder!NewNfSession,
                Responder!NewNrSession
  <1>3. ~UserTearsDown /\ ~NiTimer /\ ~NiNotified
    BY <1>2, SameInitiator
    DEF UserTearsDown, NiTimer, NiNotified, Initiator!NiApiTeardown,
        Initiator!NiResponseTimeout, Initiator!NiConfigureRetry,
        Initiator!NiConfigureGiveUp, Initiator!NiRefreshRetry,
        Initiator!NiRefreshGiveUp, Initiator!NiRefreshTimeout,
        Initiator!NiPendingRefreshTimer, Initiator!NiRefreshTimer,
        Initiator!NiNotification, Initiator!NiPendingNoNextNode,
        Initiator!NiUnexpected, Initiator!NiPendingDiscard,
        Initiator!NiPendingNull, Initiator!NiMeteringDiscard,
        Initiator!NiMeteringNull, Initiator!NiInvalidState, Initiator!NiIn
  <1>4. ~NfEvent
    BY <1>2, SameForwarder
    DEF NfEvent, Forwarder!NfTimeout, Forwarder!NfStateTimeout,
        Forwarder!NfPendingStateTimer, Forwarder!NfMeteringStateTimer,
        Forwarder!NfMeteringResponseTimer, Forwarder!NfOutdatedTimer,
        Forwarder!NfNotification, Forwarder!NfPendingUnreachable,
        Forwarder!NfMeteringUnreachable, Forwarder!NfMeteringRouteChanged,
        Forwarder!NfIn
  <1>5. ~NrTimer
    BY <1>2, SameResponder DEF NrTimer, Responder!NrStateTimeout
  <1>6. ~DeliverFromNi /\ ~DeliverFromNr /\ ~DeliverToNr /\ ~DeliverToNi /\ ~Lose
    BY <1>1 DEF DeliverFromNi, DeliverFromNr, DeliverToNr, DeliverToNi, Lose
  <1>7. QED
    BY <1>3, <1>4, <1>5, <1>6 DEF Next

LEMMA UserConfiguresStep ==
    ASSUME SessionsInv, PathInv, UserConfigures
    PROVE  PathInv'
  <1>1. /\ ni = Initiator!NewNiSession(0) /\ nf = Forwarder!NewNfSession
        /\ nr = Responder!NewNrSession
        /\ ni_out = <<>> /\ nr_out = <<>> /\ to_nr = <<>> /\ to_ni = <<>>
    BY DEF UserConfigures, PathInv, Pristine, Initiator!NiInit,
           Forwarder!NfInit, Responder!NrInit
  <1>2. PICK r \in Requests :
           /\ Initiator!NiApiConfigure(InitialMsn, r.lifetime, r.sme, r.objs,
                                       meters.ni)
           /\ requested' = r.objs
    BY SameInitiator DEF UserConfigures
  <1>3. UNCHANGED <<nf, to_nr, to_ni, nr, nr_out, meters, placed, lost>>
    BY DEF UserConfigures
  <1>4. requested' # NotYet
    <2>1. RequestObjs \subseteq SUBSET Objects /\ "not yet" \notin Objects
      BY NodesAssumption
    <2>2. r.objs \in RequestObjs
      BY PathAssumption
    <2>3. r.objs \subseteq Objects
      BY <2>1, <2>2, Zenon
    <2>4. QED
      BY <1>2, <2>1, <2>3 DEF NotYet
  <1> DEFINE s == Initiator!SetupSession(
                     [Initiator!NewNiSession(InitialMsn) EXCEPT
                        !.metered = ni.metered],
                     r.lifetime, r.sme, r.objs, meters.ni)
             c == Initiator!BuildConfigure(s, r.lifetime, r.sme, r.objs)
  <1>5. /\ Initiator!NiSend(c)
        /\ ni' = [s EXCEPT !.state = "PENDING", !.msn = c.msn,
                           !.last_configure = c, !.response_timer = TRUE]
    BY <1>2 DEF Initiator!NiApiConfigure
  <1>6. /\ s.last_refresh = Initiator!NoMsg
        /\ c.kind = "CONFIGURE" /\ c.objs = r.objs \ s.rule
    BY DEF Initiator!SetupSession, Initiator!NewNiSession,
           Initiator!BuildConfigure, Initiator!Configure
  <1>7. /\ ni'.state = "PENDING" /\ ni'.last_configure = c
        /\ ni'.rule = s.rule /\ ni'.last_refresh = s.last_refresh
    BY <1>5 DEF Initiator!SetupSession, Initiator!NewNiSession
  <1> HIDE DEF s, c
  <1>8. Opened(ni') /\ Waits(ni') /\ ~Meters(ni')
    BY <1>6, <1>7 DEF Opened, Waits, Meters
  <1>9. Pristine'
    BY <1>4 DEF Pristine, NotYet
  <1>10. InitiatorOK(ni', requested', placed')
    BY <1>2, <1>6, <1>7, <1>8 DEF InitiatorOK
  <1>11. ForwarderOK(nf', ni', meters') /\ ResponderOK(nr', ni')
    BY <1>1, <1>3 DEF ForwarderOK, ResponderOK, Forwarder!NewNfSession,
       Responder!NewNrSession, Forwarder!NoMsg, Initiator!NoMsg
  <1>12. ni_out' = <<c>>
    BY <1>1, <1>5 DEF Initiator!NiSend
  <1>13. \A m \in Range(ni_out') : SentOK(m, ni')
    BY <1>7, <1>12 DEF Range, SentOK
  <1>14. Range(to_nr') = {} /\ Range(nr_out') = {} /\ Range(to_ni') = {}
    BY <1>1, <1>3, RangeEmpty
  <1>15. QED
    BY <1>9, <1>10, <1>11, <1>13, <1>14 DEF PathInv

LEMMA PathInit == Init => PathInv
  <1> SUFFICES ASSUME Init PROVE PathInv
    OBVIOUS
  <1>1. /\ Initiator!NiInit /\ Forwarder!NfInit /\ Responder!NrInit
        /\ requested = NotYet
    BY SameInitiator, SameForwarder, SameResponder DEF Init
  <1>2. /\ ni = Initiator!NewNiSession(0) /\ nf = Forwarder!NewNfSession
        /\ nr = Responder!NewNrSession
        /\ ni_out = <<>> /\ nr_out = <<>> /\ to_nr = <<>> /\ to_ni = <<>>
    BY <1>1 DEF Initiator!NiInit, Forwarder!NfInit, Responder!NrInit
  <1>3. /\ ni.last_configure = Initiator!NoMsg /\ ni.lifetime = 0
        /\ nf.rule = {} /\ nr.state = "CLOSE"
    BY <1>2 DEF Initiator!NewNiSession, Forwarder!NewNfSession,
                Responder!NewNrSession
  <1>4. ~Opened(ni) /\ ~Waits(ni) /\ ~Meters(ni)
    BY <1>3 DEF Initiator!NoMsg, Opened, Waits, Meters
  <1>5. InitiatorOK(ni, requested, placed)
    BY <1>3, <1>4 DEF InitiatorOK
  <1>6. ForwarderOK(nf, ni, meters) /\ ResponderOK(nr, ni)
    BY <1>3, <1>4 DEF ForwarderOK, ResponderOK
  <1>7. /\ Range(ni_out) = {} /\ Range(to_nr) = {}
        /\ Range(nr_out) = {} /\ Range(to_ni) = {}
    BY <1>2, RangeEmpty
  <1>8. QED
    BY <1>1, <1>5, <1>6, <1>7 DEF PathInv, Pristine

LEMMA PathStep ==
    ASSUME SessionsInv, PathInv, [Next]_path_vars
    PROVE  PathInv'
  <1>1. CASE requested = NotYet
    <2>1. CASE UserConfigures
      BY <2>1, UserConfiguresStep
    <2>2. CASE UNCHANGED path_vars
      BY <1>1, <2>2 DEF path_vars, PathInv, Pristine, Initiator!NiInit,
         Forwarder!NfInit, Responder!NrInit
    <2>3. QED
      BY <1>1, <2>1, <2>2, QuietBefore
  <1>2. CASE requested # NotYet
    <2>1. CASE UserConfigures
      BY <1>2, <2>1 DEF UserConfigures
    <2>2. CASE UserTearsDown \/ NiTimer \/ NiNotified \/ DeliverToNi
      BY <1>2, <2>2, InitiatorStep
    <2>3. CASE NfEvent \/ DeliverFromNi \/ DeliverFromNr
      BY <1>2, <2>3, NfEventStep, DeliverFromNiStep, DeliverFromNrStep
    <2>4. CASE NrTimer \/ DeliverToNr \/ Lose
      BY <1>2, <2>4, NrTimerStep, DeliverToNrStep, LoseStep
    <2>5. CASE UNCHANGED path_vars
      <3>1. InitiatorFrame /\ ni_out' = ni_out /\ ni' = ni
        BY <1>2, <2>5 DEF path_vars, InitiatorFrame
      <3>2. QED
        BY <3>1, InitiatorIdles
    <2>6. QED
      BY <2>1, <2>2, <2>3, <2>4, <2>5 DEF Next
  <1>3. QED
    BY <1>1, <1>2

LEMMA PathInvariant == Spec => [](SessionsInv /\ PathInv)
  BY SessionsInit, SessionsStep, PathInit, PathStep, PTL DEF Spec

(***************************************************************************)
(* The theorems.                                                           *)
(***************************************************************************)

(* When the NI believes the session is being metered, every object the     *)
(* user asked for has been installed by some node of the path, whatever    *)
(* was lost, sent again or given up on the way: setup_session() and        *)
(* save_mt_policy_rule() leave no object out, and a success response is    *)
(* only passed up by a node that installed its share.                      *)
THEOREM NothingUnmeteredSafe == Spec => []NothingUnmetered
  <1>1. PathInv => NothingUnmetered
    BY DEF PathInv, InitiatorOK, NothingUnmetered, Opened, Meters
  <1>2. QED
    BY <1>1, PathInvariant, PTL

(* The responder holds its state at least as long as the NI believes, once *)
(* a REFRESH has reached it, and before that at least as long as the cap   *)
(* of the NF leaves of it: the NI takes over the lifetime that came back,  *)
(* and every node takes the smaller of its own maximum and what it is sent.*)
THEOREM ResponderOutlastsSafe == Spec => []ResponderOutlasts
  <1>1. SessionsInv /\ PathInv => ResponderOutlasts
    <2> SUFFICES ASSUME SessionsInv, PathInv,
                        ni.state = "METERING", nr.state = "METERING"
                 PROVE  IF nr.msn = ni.last_configure.msn
                        THEN NF!Min2(ni.lifetime, NfMaxLifetime) <= nr.lifetime
                        ELSE ni.lifetime <= nr.lifetime
      BY DEF ResponderOutlasts
    <2>1. InitiatorOK(ni, requested, placed) /\ ResponderOK(nr, ni)
      BY DEF PathInv
    <2>2. ni.lifetime \in Nat /\ nr.lifetime \in Nat
      BY SessionTypes
    <2>3. NF!Min2(ni.lifetime, NfMaxLifetime) = Min2(ni.lifetime, NfMaxLifetime)
      BY DEF NF!Min2, Min2, Forwarder!Min2
    <2>4. CASE Opened(ni)
      BY <2>1, <2>3, <2>4 DEF ResponderOK, Meters
    <2>5. CASE ~Opened(ni)
      <3>1. ni.lifetime = 0
        BY <2>1, <2>5 DEF InitiatorOK
      <3>2. QED
        BY <2>2, <2>3, <3>1, Bounds DEF Min2, Forwarder!Min2
    <2>6. QED
      BY <2>4, <2>5
  <1>2. QED
    BY <1>1, PathInvariant, PTL

(* The sessions keep on the path what is proved of each of them on its     *)
(* own: the neighbours of a node send it nothing that its handlers could   *)
(* not also receive from an arbitrary peer, an NF handing on any part of   *)
(* the objects included.                                                   *)
SessionsSafe ==
    /\ NI!NiTypeOK /\ NI!NiRulesAccounted /\ NI!NiOneTimerRuns
    /\ NI!NiRetryHasMessage /\ NI!NiRefreshBeforeExpiry
    /\ NF!NfTypeOK /\ NF!NfRulesAccounted /\ NF!NfSoftState
    /\ NF!NfTimeoutHasRefresh
    /\ NR!NrTypeOK /\ NR!NrRulesAccounted

THEOREM PathKeepsSessions == Spec => []SessionsSafe
  <1>1. SessionsInv => SessionsSafe
    <2> SUFFICES ASSUME SessionsInv PROVE SessionsSafe
      OBVIOUS
    <2>1. /\ NI!Message = Initiator!Message /\ NF!Message = Forwarder!Message
          /\ NR!Message = Responder!Message
          /\ NI!NoMsg = Initiator!NoMsg
      BY SameInitiator DEF NF!Message, Forwarder!Message, NR!Message,
         Responder!Message, NF!Msns, NF!MsnMod, NF!Lifetimes, NF!Smes,
         Forwarder!Msns, Forwarder!MsnMod, Forwarder!Lifetimes,
         Forwarder!Smes, NR!Msns, NR!MsnMod, NR!Lifetimes, NR!Smes,
         Responder!Msns, Responder!MsnMod, Responder!Lifetimes,
         Responder!Smes, NI!NoMsg, Initiator!NoMsg
    <2>2. /\ NI!NiTypeOK /\ NI!NiRulesAccounted /\ NI!NiOneTimerRuns
          /\ NI!NiRetryHasMessage /\ NI!NiRefreshBeforeExpiry
      BY <2>1
      DEF SessionsInv, Initiator!NiInv, Initiator!NiTypeOK, NI!NiTypeOK,
          Initiator!NiSession, NI!NiSession, Initiator!NiStates, NI!NiStates,
          Initiator!Msns, NI!Msns, Initiator!MsnMod, NI!MsnMod,
          Initiator!Lifetimes, NI!Lifetimes, Initiator!NiRulesAccounted,
          NI!NiRulesAccounted, Initiator!NiOneTimerRuns, NI!NiOneTimerRuns,
          Initiator!NiRetryHasMessage, NI!NiRetryHasMessage,
          Initiator!NiRefreshBeforeExpiry, NI!NiRefreshBeforeExpiry
    <2>3. /\ NF!NfTypeOK /\ NF!NfRulesAccounted /\ NF!NfSoftState
          /\ NF!NfTimeoutHasRefresh
      BY <2>1
      DEF SessionsInv, Forwarder!NfInv, Forwarder!NfTypeOK, NF!NfTypeOK,
          Forwarder!NfSession, NF!NfSession, Forwarder!NfStates, NF!NfStates,
          Forwarder!Msns, NF!Msns, Forwarder!MsnMod, NF!MsnMod,
          Forwarder!Lifetimes, NF!Lifetimes, Forwarder!NfRulesAccounted,
          NF!NfRulesAccounted, Forwarder!NfSoftState, NF!NfSoftState,
          Forwarder!NfTimeoutHasRefresh, NF!NfTimeoutHasRefresh
    <2>4. NR!NrTypeOK /\ NR!NrRulesAccounted
      BY <2>1
      DEF SessionsInv, Responder!NrInv, Responder!NrTypeOK, NR!NrTypeOK,
          Responder!NrSession, NR!NrSession,
          Responder!Msns, NR!Msns, Responder!MsnMod, NR!MsnMod,
          Responder!Lifetimes, NR!Lifetimes, Responder!NrRulesAccounted,
          NR!NrRulesAccounted
    <2>5. QED
      BY <2>2, <2>3, <2>4 DEF SessionsSafe
  <1>2. QED
    BY <1>1, SessionsInvariant, PTL

(***************************************************************************)
(* Sequence numbers along the path.  At any time the requests that can     *)
(* still raise a node's number bear at most three consecutive numbers: the *)
(* base b, which the nodes may still be at, and those of the next two      *)
(* REFRESH messages, of which only w have been sent.  Two, because the NI  *)
(* refreshes when the last REFRESH is answered, and its answer can still   *)
(* be a late one to the CONFIGURE or to the REFRESH before it.             *)
(*                                                                         *)
(* The names of the parts are the same everywhere: s is the initiator and  *)
(* io the queue it sends into, f the forwarder, tr its queue to the        *)
(* responder and ti its queue to the initiator, r the responder and ro the *)
(* queue it sends into.  Offset(b, x) says how far x lies beyond b on the  *)
(* circle of sequence numbers.                                             *)
(***************************************************************************)
Msg == Initiator!Message
Msns == Initiator!Msns

Offset(b, x) == IF x >= b THEN x - b ELSE x - b + 2 * LIMIT

Request(m) == m.kind \in {"CONFIGURE", "REFRESH"}

(* A request whose number a node takes over and keeps. *)
Live(m) == \/ m.kind = "CONFIGURE"
           \/ m.kind = "REFRESH" /\ m.lifetime > 0

Granted(m) == m.kind = "RESPONSE" /\ m.ok

(* Requests, and grants, that are t or more beyond the base. *)
Ahead(b, t) == {m \in Msg : Live(m) /\ Offset(b, m.msn) >= t}
NotBehind(b, t) == {m \in Msg : Request(m) => Offset(b, m.msn) >= t}

GrantAhead(b) == {m \in Msg : Granted(m) /\ Offset(b, m.msn) >= 2}
GrantNotBehind(b) == {m \in Msg : Granted(m) => Offset(b, m.msn) >= 2}

Has(q, S) == \E m \in Range(q) : m \in S
All(q, S) == \A m \in Range(q) : m \in S
Follows(q, A, B) ==
    \A i, j \in 1 .. Len(q) : i < j /\ q[i] \in A => q[j] \in B

(* A node that has a session has taken over a number t beyond the base. *)
NodeUp(s, b, t) == s.state # "CLOSE" => Offset(b, s.msn) >= t

(* Requests overtake nobody: where a request t beyond the base has been,   *)
(* everything behind it is t beyond the base too.                          *)
Reached(b, t, io, f, tr, r) ==
    /\ Follows(io, Ahead(b, t), NotBehind(b, t))
    /\ f.state # "CLOSE" /\ Offset(b, f.msn) >= t => All(io, NotBehind(b, t))
    /\ Follows(tr, Ahead(b, t), NotBehind(b, t))
    /\ Has(tr, Ahead(b, t)) => NodeUp(f, b, t) /\ All(io, NotBehind(b, t))
    /\ r.state # "CLOSE" /\ Offset(b, r.msn) >= t =>
          NodeUp(f, b, t) /\ All(io, NotBehind(b, t)) /\ All(tr, NotBehind(b, t))

(* Nothing is further than w beyond the base, and CONFIGURE bears the base.*)
Within(b, w) ==
    {m \in Msg : /\ Live(m) => Offset(b, m.msn) <= w
                 /\ m.kind = "CONFIGURE" => m.msn = b}

Pipe(b, w, io, f, tr, r) ==
    /\ All(io, Within(b, w)) /\ All(tr, Within(b, w))
    /\ f.state # "CLOSE" => Offset(b, f.msn) <= w /\ NfMaxLifetime > 0
    /\ f.state = "PENDING" => f.msn = b /\ f.configure_message.msn = b
    /\ r.state # "CLOSE" => Offset(b, r.msn) <= w
    /\ \A t \in {1, 2} : Reached(b, t, io, f, tr, r)

LEMMA FollowsTail ==
    ASSUME NEW S, NEW q \in Seq(S), q # <<>>, NEW A, NEW B, Follows(q, A, B)
    PROVE  /\ Follows(Tail(q), A, B)
           /\ Head(q) \in A => All(Tail(q), B)
  <1>1. /\ Len(q) \in Nat /\ Len(q) > 0 /\ Head(q) = q[1]
        /\ Tail(q) \in Seq(S) /\ Len(Tail(q)) = Len(q) - 1
        /\ DOMAIN Tail(q) = 1 .. (Len(q) - 1)
        /\ \A i \in 1 .. (Len(q) - 1) : Tail(q)[i] = q[i + 1]
    OBVIOUS
  <1> DEFINE t == Tail(q)
  <1> HIDE DEF t
  <1>2. ASSUME NEW i \in 1 .. Len(t), NEW j \in 1 .. Len(t), i < j, t[i] \in A
        PROVE  t[j] \in B
    <2>1. i + 1 \in 1 .. Len(q) /\ j + 1 \in 1 .. Len(q) /\ i + 1 < j + 1
          /\ t[i] = q[i + 1] /\ t[j] = q[j + 1]
      BY <1>1, <1>2 DEF t
    <2>2. QED
      BY <1>2, <2>1 DEF Follows
  <1>3. ASSUME Head(q) \in A, NEW i \in DOMAIN t
        PROVE  t[i] \in B
    <2>1. 1 \in 1 .. Len(q) /\ i + 1 \in 1 .. Len(q) /\ 1 < i + 1
          /\ t[i] = q[i + 1] /\ q[1] \in A
      BY <1>1, <1>3 DEF t
    <2>2. QED
      BY <2>1 DEF Follows
  <1>4. Follows(t, A, B)
    BY <1>2 DEF Follows
  <1>5. Head(q) \in A => All(t, B)
    BY <1>3 DEF All, Range
  <1>6. QED
    BY <1>4, <1>5 DEF t

LEMMA FollowsAppend ==
    ASSUME NEW S, NEW q \in Seq(S), NEW m \in S, NEW A, NEW B,
           Follows(q, A, B), Has(q, A) => m \in B
    PROVE  Follows(Append(q, m), A, B)
  <1>1. /\ Len(q) \in Nat /\ DOMAIN q = 1 .. Len(q)
        /\ Len(Append(q, m)) = Len(q) + 1
        /\ \A i \in 1 .. Len(q) : Append(q, m)[i] = q[i]
        /\ Append(q, m)[Len(q) + 1] = m
    OBVIOUS
  <1> DEFINE t == Append(q, m)
  <1> HIDE DEF t
  <1>2. ASSUME NEW i \in 1 .. Len(t), NEW j \in 1 .. Len(t), i < j, t[i] \in A
        PROVE  t[j] \in B
    <2>1. i \in 1 .. Len(q) /\ t[i] = q[i]
      BY <1>1, <1>2 DEF t
    <2>2. CASE j \in 1 .. Len(q)
      BY <1>1, <1>2, <2>1, <2>2 DEF t, Follows
    <2>3. CASE j = Len(q) + 1
      <3>1. q[i] \in Range(q) /\ t[j] = m
        BY <1>1, <2>1, <2>3 DEF t, Range
      <3>2. QED
        BY <1>2, <2>1, <3>1 DEF Has
    <2>4. QED
      BY <1>1, <1>2, <2>2, <2>3 DEF t
  <1>3. QED
    BY <1>2 DEF t, Follows

LEMMA AllTail ==
    ASSUME NEW S, NEW q \in Seq(S), q # <<>>, NEW A
    PROVE  /\ All(q, A) => All(Tail(q), A) /\ Head(q) \in A
           /\ Has(Tail(q), A) => Has(q, A)
           /\ Head(q) \in A => Has(q, A)
  BY RangeTail DEF All, Has

LEMMA AllAppend ==
    ASSUME NEW S, NEW q \in Seq(S), NEW m \in S, NEW A
    PROVE  /\ All(Append(q, m), A) <=> All(q, A) /\ m \in A
           /\ Has(Append(q, m), A) <=> Has(q, A) \/ m \in A
  BY RangeAppend DEF All, Has

(* Sequence numbers. *)
LEMMA MsnsAre == Msns = 0 .. (2 * LIMIT - 1) /\ LIMIT \in Nat /\ LIMIT >= 2
  BY NodesAssumption DEF Msns, Initiator!Msns, Initiator!MsnMod

LEMMA OffsetFacts ==
    ASSUME NEW b \in Msns, NEW x \in Msns
    PROVE  /\ Offset(b, x) \in Nat /\ Offset(b, b) = 0
           /\ Offset(b, x) = 0 <=> x = b
           /\ Offset(b, x) < 2 * LIMIT
           /\ Initiator!NextMsn(x) \in Msns
           /\ Offset(b, x) + 1 < 2 * LIMIT
                 => Offset(b, Initiator!NextMsn(x)) = Offset(b, x) + 1
  <1>1. LIMIT \in Nat /\ LIMIT >= 2 /\ b \in 0 .. (2 * LIMIT - 1)
        /\ x \in 0 .. (2 * LIMIT - 1)
    BY MsnsAre
  <1>2. Initiator!NextMsn(x) = IF x = 2 * LIMIT - 1 THEN 0 ELSE x + 1
    <2>1. Initiator!NextMsn(x) = (x + 1) % (2 * LIMIT)
      BY DEF Initiator!NextMsn, Initiator!MsnMod
    <2>2. CASE x = 2 * LIMIT - 1
      <3>1. (2 * LIMIT) % (2 * LIMIT) = 0
        <4> DEFINE M == 2 * LIMIT
        <4>1. M \in Nat /\ M > 0
          BY <1>1
        <4> HIDE DEF M
        <4>2. M % M = 0
          BY <4>1
        <4>3. QED
          BY <4>2 DEF M
      <3>2. x + 1 = 2 * LIMIT
        BY <1>1, <2>2
      <3>3. QED
        BY <2>1, <2>2, <3>1, <3>2
    <2>3. CASE x # 2 * LIMIT - 1
      <3> DEFINE M == 2 * LIMIT
      <3>1. M \in Nat /\ M > 0 /\ x + 1 \in Nat /\ x + 1 < M
        BY <1>1, <2>3
      <3> HIDE DEF M
      <3>2. (x + 1) % M = x + 1
        BY <3>1
      <3>3. QED
        BY <2>1, <2>3, <3>2 DEF M
    <2>4. QED
      BY <2>2, <2>3
  <1>3. QED
    BY <1>1, <1>2, MsnsAre DEF Offset

LEMMA OffsetOrder ==
    ASSUME NEW b \in Msns, NEW x \in Msns, NEW y \in Msns,
           Offset(b, x) <= Offset(b, y), Offset(b, y) <= 2
    PROVE  ~ NF!IsGreaterThan(x, y)
  BY MsnsAre DEF Offset, NF!IsGreaterThan

LEMMA OffsetMoved ==
    ASSUME NEW b \in Msns, NEW c \in Msns, NEW x \in Msns,
           Offset(b, c) = 2, Offset(b, x) = 2
    PROVE  x = c
  BY MsnsAre DEF Offset

(***************************************************************************)
(* What the steps of the nodes do to the requests under way.               *)
(***************************************************************************)
LEMMA PipeShrinks ==
    ASSUME NEW b \in Msns, NEW w \in 0 .. 2, NEW f, NEW r,
           NEW io \in Seq(Msg), NEW tr \in Seq(Msg), Pipe(b, w, io, f, tr, r)
    PROVE  /\ io # <<>> => Pipe(b, w, Tail(io), f, tr, r)
           /\ tr # <<>> => Pipe(b, w, io, f, Tail(tr), r)
  <1>1. ASSUME io # <<>> PROVE Pipe(b, w, Tail(io), f, tr, r)
    <2>1. All(Tail(io), Within(b, w))
      BY <1>1, AllTail DEF Pipe
    <2>2. ASSUME NEW t \in {1, 2}
          PROVE  Reached(b, t, Tail(io), f, tr, r)
      <3>1. Reached(b, t, io, f, tr, r)
        BY DEF Pipe
      <3>2. /\ Follows(Tail(io), Ahead(b, t), NotBehind(b, t))
            /\ All(io, NotBehind(b, t)) => All(Tail(io), NotBehind(b, t))
        BY <1>1, <3>1, FollowsTail, AllTail DEF Reached
      <3>3. QED
        BY <3>1, <3>2 DEF Reached
    <2>3. QED
      BY <2>1, <2>2 DEF Pipe
  <1>2. ASSUME tr # <<>> PROVE Pipe(b, w, io, f, Tail(tr), r)
    <2>1. All(Tail(tr), Within(b, w))
      BY <1>2, AllTail DEF Pipe
    <2>2. ASSUME NEW t \in {1, 2}
          PROVE  Reached(b, t, io, f, Tail(tr), r)
      <3>1. Reached(b, t, io, f, tr, r)
        BY DEF Pipe
      <3>2. /\ Follows(Tail(tr), Ahead(b, t), NotBehind(b, t))
            /\ All(tr, NotBehind(b, t)) => All(Tail(tr), NotBehind(b, t))
            /\ Has(Tail(tr), Ahead(b, t)) => Has(tr, Ahead(b, t))
        BY <1>2, <3>1, FollowsTail, AllTail DEF Reached
      <3>3. QED
        BY <3>1, <3>2 DEF Reached
    <2>3. QED
      BY <2>1, <2>2 DEF Pipe
  <1>3. QED
    BY <1>1, <1>2

(* A node leaves the session, or stays where it is. *)
LEMMA PipeSettles ==
    ASSUME NEW b, NEW w, NEW io, NEW tr, NEW f, NEW r, NEW g, NEW h,
           Pipe(b, w, io, f, tr, r),
           \/ g.state = "CLOSE"
           \/ /\ f.state # "CLOSE" /\ g.msn = f.msn
              /\ g.state = "PENDING" =>
                    f.state = "PENDING" /\ g.configure_message = f.configure_message,
           h.state = "CLOSE" \/ (r.state # "CLOSE" /\ h.msn = r.msn)
    PROVE  Pipe(b, w, io, g, tr, h)
  <1>1. ASSUME NEW t \in {1, 2}
        PROVE  Reached(b, t, io, g, tr, h)
    <2>1. Reached(b, t, io, f, tr, r)
      BY DEF Pipe
    <2>2. QED
      BY <2>1 DEF Reached, NodeUp
  <1>2. QED
    BY <1>1 DEF Pipe

(* A response, or a teardown of an NF that is setting up, goes downstream. *)
LEMMA PipeGetsDead ==
    ASSUME NEW b \in Msns, NEW w \in 0 .. 2, NEW f, NEW r,
           NEW io \in Seq(Msg), NEW tr \in Seq(Msg), NEW a \in Msg,
           Pipe(b, w, io, f, tr, r),
           ~Live(a), ~Request(a) \/ f.state = "PENDING"
    PROVE  Pipe(b, w, io, f, Append(tr, a), r)
  <1>1. a \in Within(b, w)
    BY DEF Within, Live
  <1>2. ASSUME NEW t \in {1, 2}
        PROVE  Reached(b, t, io, f, Append(tr, a), r)
    <2>1. Reached(b, t, io, f, tr, r)
      BY DEF Pipe
    <2>2. a \notin Ahead(b, t)
      BY DEF Ahead
    <2>3. CASE ~Request(a)
      <3>1. a \in NotBehind(b, t)
        BY <2>3 DEF NotBehind
      <3>2. /\ Follows(Append(tr, a), Ahead(b, t), NotBehind(b, t))
            /\ Has(Append(tr, a), Ahead(b, t)) <=> Has(tr, Ahead(b, t))
            /\ All(tr, NotBehind(b, t)) => All(Append(tr, a), NotBehind(b, t))
        BY <2>1, <2>2, <3>1, FollowsAppend, AllAppend DEF Reached
      <3>3. QED
        BY <2>1, <3>2 DEF Reached
    <2>4. CASE f.state = "PENDING"
      <3>1. ~NodeUp(f, b, t)
        BY <2>4, OffsetFacts DEF Pipe, NodeUp
      <3>2. /\ Follows(Append(tr, a), Ahead(b, t), NotBehind(b, t))
            /\ Has(Append(tr, a), Ahead(b, t)) <=> Has(tr, Ahead(b, t))
        BY <2>1, <2>2, <3>1, FollowsAppend, AllAppend DEF Reached
      <3>3. QED
        BY <2>1, <3>1, <3>2 DEF Reached
    <2>5. QED
      BY <2>3, <2>4
  <1>3. All(Append(tr, a), Within(b, w))
    BY <1>1, AllAppend DEF Pipe
  <1>4. QED
    BY <1>2, <1>3 DEF Pipe

(* The NF takes a request over and, unless it is addressed upstream,       *)
(* passes it on.                                                           *)
LEMMA PipePasses ==
    ASSUME NEW b \in Msns, NEW w \in 0 .. 2, NEW f, NEW r, NEW g,
           NEW io \in Seq(Msg), NEW tr \in Seq(Msg), NEW a \in Msg, NEW tq,
           Pipe(b, w, io, f, tr, r), io # <<>>,
           Request(Head(io)), f.state # "CLOSE" => f.msn \in Msns,
           a.kind = Head(io).kind, a.msn = Head(io).msn,
           Live(a) => Live(Head(io)),
           tq = tr \/ tq = Append(tr, a),
           g.state # "CLOSE", NfMaxLifetime > 0,
           g.state = "PENDING" =>
              Head(io).kind = "CONFIGURE" /\ g.configure_message.msn = Head(io).msn,
           \/ Live(Head(io)) /\ g.msn = Head(io).msn
           \/ ~Live(Head(io)) /\ f.state # "CLOSE" /\ g.msn = f.msn
    PROVE  Pipe(b, w, Tail(io), g, tq, r)
  <1> DEFINE m == Head(io)
             off == Offset(b, m.msn)
  <1>1. m \in Msg /\ m \in Range(io) /\ m.msn \in Msns /\ off \in Nat
    <2>1. m \in Msg /\ m \in Range(io)
      BY RangeTail
    <2>2. m.msn \in Msns
      BY <2>1 DEF Msg, Msns, Initiator!Message
    <2>3. QED
      BY <2>1, <2>2, OffsetFacts
  <1>2. m \in Within(b, w)
    BY <1>1 DEF Pipe, All
  <1>3. a \in Within(b, w)
    <2>1. Live(a) => Live(m)
      OBVIOUS
    <2>2. a.kind = m.kind /\ a.msn = m.msn
      OBVIOUS
    <2> HIDE DEF m
    <2>3. QED
      BY <1>2, <2>1, <2>2 DEF Within
  <1>4. g.state = "PENDING" => g.msn = b /\ g.configure_message.msn = b
    <2>1. g.state = "PENDING" => m.msn = b /\ Live(m)
      BY <1>2 DEF Within, Live
    <2>2. QED
      BY <2>1
  <1>5. Offset(b, g.msn) <= w
    BY <1>2 DEF Within, Pipe
  <1>6. All(Tail(io), Within(b, w)) /\ All(tq, Within(b, w))
    <2>1. All(Tail(io), Within(b, w)) /\ All(tr, Within(b, w))
      BY AllTail DEF Pipe
    <2>2. All(Append(tr, a), Within(b, w))
      BY <1>3, <2>1, AllAppend
    <2>3. QED
      BY <2>1, <2>2
  <1>7. ASSUME NEW t \in {1, 2}
        PROVE  Reached(b, t, Tail(io), g, tq, r)
    <2>1. Reached(b, t, io, f, tr, r)
      BY <1>7 DEF Pipe
    <2>2. /\ Follows(Tail(io), Ahead(b, t), NotBehind(b, t))
          /\ m \in Ahead(b, t) => All(Tail(io), NotBehind(b, t))
          /\ All(io, NotBehind(b, t)) =>
                All(Tail(io), NotBehind(b, t)) /\ m \in NotBehind(b, t)
      BY <2>1, FollowsTail, AllTail DEF Reached
    <2>3. /\ a \in Ahead(b, t) => m \in Ahead(b, t)
          /\ m \in NotBehind(b, t) => a \in NotBehind(b, t)
      <3>1. (Live(a) => Live(m)) /\ a.msn = m.msn /\ a.kind = m.kind
        OBVIOUS
      <3> HIDE DEF m
      <3>2. QED
        BY <1>1, <3>1 DEF Ahead, NotBehind, Request
    <2>4. m \in Ahead(b, t) => Offset(b, g.msn) >= t
      BY DEF Ahead
    <2>5. m \in NotBehind(b, t) /\ NodeUp(f, b, t) => Offset(b, g.msn) >= t
      BY DEF NotBehind, NodeUp
    <2>6. Offset(b, g.msn) >= t => All(Tail(io), NotBehind(b, t))
      <3>1. CASE Live(m)
        BY <1>1, <2>2, <3>1 DEF Ahead
      <3>2. CASE ~Live(m)
        BY <2>1, <2>2, <3>2 DEF Reached
      <3>3. QED
        BY <3>1, <3>2
    <2>7. Has(tq, Ahead(b, t)) => Has(tr, Ahead(b, t)) \/ a \in Ahead(b, t)
      <3>1. Has(Append(tr, a), Ahead(b, t))
               <=> Has(tr, Ahead(b, t)) \/ a \in Ahead(b, t)
        BY AllAppend
      <3>2. QED
        BY <3>1
    <2>8. Has(tr, Ahead(b, t)) => NodeUp(f, b, t) /\ All(io, NotBehind(b, t))
      BY <2>1 DEF Reached
    <2>9. Has(tq, Ahead(b, t)) => NodeUp(g, b, t) /\ All(Tail(io), NotBehind(b, t))
      BY <2>2, <2>3, <2>4, <2>5, <2>7, <2>8 DEF NodeUp
    <2>10. Follows(tq, Ahead(b, t), NotBehind(b, t))
      <3>1. Follows(tr, Ahead(b, t), NotBehind(b, t))
        BY <2>1 DEF Reached
      <3>2. Has(tr, Ahead(b, t)) => a \in NotBehind(b, t)
        BY <2>2, <2>3, <2>8
      <3>3. QED
        BY <3>1, <3>2, FollowsAppend
    <2>11. r.state # "CLOSE" /\ Offset(b, r.msn) >= t =>
              /\ NodeUp(g, b, t) /\ All(Tail(io), NotBehind(b, t))
              /\ All(tq, NotBehind(b, t))
      <3>1. r.state # "CLOSE" /\ Offset(b, r.msn) >= t =>
               /\ NodeUp(f, b, t) /\ All(io, NotBehind(b, t))
               /\ All(tr, NotBehind(b, t))
        BY <2>1 DEF Reached
      <3>2. All(tr, NotBehind(b, t)) /\ a \in NotBehind(b, t)
              => All(tq, NotBehind(b, t))
        <4>1. All(Append(tr, a), NotBehind(b, t))
                 <=> All(tr, NotBehind(b, t)) /\ a \in NotBehind(b, t)
          BY AllAppend
        <4>2. QED
          BY <4>1
      <3>3. QED
        BY <2>2, <2>3, <2>5, <3>1, <3>2 DEF NodeUp
    <2>12. QED
      BY <2>2, <2>6, <2>9, <2>10, <2>11 DEF Reached
  <1>8. QED
    BY <1>4, <1>5, <1>6, <1>7 DEF Pipe

(* The NR takes a request over. *)
LEMMA PipeArrives ==
    ASSUME NEW b \in Msns, NEW w \in 0 .. 2, NEW f, NEW r, NEW h,
           NEW io \in Seq(Msg), NEW tr \in Seq(Msg),
           Pipe(b, w, io, f, tr, r), tr # <<>>,
           Live(Head(tr)), h.msn = Head(tr).msn
    PROVE  Pipe(b, w, io, f, Tail(tr), h)
  <1> DEFINE m == Head(tr)
  <1>1. m \in Msg /\ m \in Range(tr)
    BY RangeTail
  <1>2. m \in Within(b, w)
    BY <1>1 DEF Pipe, All
  <1>3. Offset(b, h.msn) <= w
    BY <1>2 DEF Within
  <1>4. All(Tail(tr), Within(b, w))
    BY AllTail DEF Pipe
  <1>5. ASSUME NEW t \in {1, 2}
        PROVE  Reached(b, t, io, f, Tail(tr), h)
    <2>1. Reached(b, t, io, f, tr, r)
      BY DEF Pipe
    <2>2. /\ Follows(Tail(tr), Ahead(b, t), NotBehind(b, t))
          /\ m \in Ahead(b, t) => All(Tail(tr), NotBehind(b, t)) /\ Has(tr, Ahead(b, t))
          /\ Has(Tail(tr), Ahead(b, t)) => Has(tr, Ahead(b, t))
      BY <2>1, FollowsTail, AllTail DEF Reached
    <2>3. Offset(b, h.msn) >= t => m \in Ahead(b, t)
      BY <1>1 DEF Ahead
    <2>4. QED
      BY <2>1, <2>2, <2>3 DEF Reached
  <1>6. QED
    BY <1>3, <1>4, <1>5 DEF Pipe

(* The NI sends a request, a new one or the last one again. *)
LEMMA PipeGrows ==
    ASSUME NEW b \in Msns, NEW w \in 0 .. 2, NEW v \in 0 .. 2, NEW f, NEW r,
           NEW io \in Seq(Msg), NEW tr \in Seq(Msg), NEW m \in Msg,
           f.state # "CLOSE" => f.msn \in Msns,
           r.state # "CLOSE" => r.msn \in Msns,
           Pipe(b, w, io, f, tr, r),
           w <= v, Offset(b, m.msn) >= w, Live(m) => Offset(b, m.msn) <= v,
           m.kind = "CONFIGURE" => m.msn = b
    PROVE  Pipe(b, v, Append(io, m), f, tr, r)
  <1>1. \A x \in Msg : x.msn \in Msns /\ Offset(b, x.msn) \in Nat
    <2>1. \A x \in Msg : x.msn \in Msns
      BY DEF Msg, Msns, Initiator!Message
    <2>2. QED
      BY <2>1, OffsetFacts
  <1>2. /\ f.state # "CLOSE" => Offset(b, f.msn) \in Nat
        /\ r.state # "CLOSE" => Offset(b, r.msn) \in Nat
    BY OffsetFacts
  <1>3. Within(b, w) \subseteq Within(b, v) /\ m \in Within(b, v)
    BY <1>1 DEF Within
  <1>4. All(Append(io, m), Within(b, v)) /\ All(tr, Within(b, v))
    BY <1>3, AllAppend DEF Pipe, All
  <1>5. ASSUME NEW t \in {1, 2}
        PROVE  Reached(b, t, Append(io, m), f, tr, r)
    <2>1. Reached(b, t, io, f, tr, r)
      BY DEF Pipe
    <2>2. CASE t <= w
      <3>1. m \in NotBehind(b, t)
        BY <1>1, <2>2 DEF NotBehind
      <3>2. /\ Follows(Append(io, m), Ahead(b, t), NotBehind(b, t))
            /\ All(io, NotBehind(b, t)) => All(Append(io, m), NotBehind(b, t))
        BY <2>1, <3>1, FollowsAppend, AllAppend DEF Reached
      <3>3. QED
        BY <2>1, <3>2 DEF Reached
    <2>3. CASE w < t
      <3>1. Within(b, w) \cap Ahead(b, t) = {}
        BY <1>1, <2>3 DEF Within, Ahead
      <3>2. ~Has(io, Ahead(b, t)) /\ ~Has(tr, Ahead(b, t))
        BY <3>1 DEF Pipe, Has, All
      <3>3. /\ f.state # "CLOSE" => ~(Offset(b, f.msn) >= t)
            /\ r.state # "CLOSE" => ~(Offset(b, r.msn) >= t)
        BY <1>2, <2>3 DEF Pipe
      <3>4. Follows(Append(io, m), Ahead(b, t), NotBehind(b, t))
        BY <2>1, <3>2, FollowsAppend DEF Reached
      <3>5. QED
        BY <2>1, <3>2, <3>3, <3>4 DEF Reached
    <2>4. QED
      BY <2>2, <2>3
  <1>6. QED
    BY <1>2, <1>4, <1>5 DEF Pipe

(* Only what bears the last number is left downstream. *)
NoneOlder(b, io, f, tr, r) ==
    /\ All(io, NotBehind(b, 2)) /\ NodeUp(f, b, 2)
    /\ All(tr, NotBehind(b, 2)) /\ NodeUp(r, b, 2)

(* Grants of REFRESH messages that bear the last number reach the NI in    *)
(* order, and once one is under way nothing older is left.                 *)
InOrder(b, ro, ti, answered) ==
    /\ Follows(ro, GrantAhead(b), GrantNotBehind(b))
    /\ Follows(ti, GrantAhead(b), GrantNotBehind(b))
    /\ Has(ti, GrantAhead(b)) \/ answered => All(ro, GrantNotBehind(b))
    /\ answered => All(ti, GrantNotBehind(b))

(* The responder has granted the REFRESH that bears the last number. *)
Seen(b, ro, ti, answered) ==
    Has(ro, GrantAhead(b)) \/ Has(ti, GrantAhead(b)) \/ answered

Top(b, io, f, tr, r, ro, ti, answered) ==
    /\ InOrder(b, ro, ti, answered)
    /\ Seen(b, ro, ti, answered) => NoneOlder(b, io, f, tr, r)

LEMMA NoneOlderShrinks ==
    ASSUME NEW b, NEW io \in Seq(Msg), NEW tr \in Seq(Msg), NEW f, NEW r,
           NoneOlder(b, io, f, tr, r)
    PROVE  /\ io # <<>> => NoneOlder(b, Tail(io), f, tr, r)
           /\ tr # <<>> => NoneOlder(b, io, f, Tail(tr), r)
           /\ \A a \in Msg : ~Request(a) => NoneOlder(b, io, f, Append(tr, a), r)
  <1>1. /\ io # <<>> => All(Tail(io), NotBehind(b, 2))
        /\ tr # <<>> => All(Tail(tr), NotBehind(b, 2))
    BY AllTail DEF NoneOlder
  <1>2. ASSUME NEW a \in Msg, ~Request(a)
        PROVE  All(Append(tr, a), NotBehind(b, 2))
    <2>1. a \in NotBehind(b, 2)
      BY <1>2 DEF NotBehind
    <2>2. QED
      BY <2>1, AllAppend DEF NoneOlder
  <1>3. QED
    BY <1>1, <1>2 DEF NoneOlder

LEMMA NoneOlderSettles ==
    ASSUME NEW b, NEW io, NEW tr, NEW f, NEW r, NEW g, NEW h,
           NoneOlder(b, io, f, tr, r),
           g.state = "CLOSE" \/ (f.state # "CLOSE" /\ g.msn = f.msn),
           h.state = "CLOSE" \/ (r.state # "CLOSE" /\ h.msn = r.msn)
    PROVE  NoneOlder(b, io, g, tr, h)
  BY DEF NoneOlder, NodeUp

LEMMA NoneOlderPasses ==
    ASSUME NEW b, NEW io \in Seq(Msg), NEW tr \in Seq(Msg), NEW f, NEW r, NEW g,
           NEW a \in Msg, NEW tq, io # <<>>, NoneOlder(b, io, f, tr, r),
           Request(Head(io)),
           a.kind = Head(io).kind, a.msn = Head(io).msn,
           tq = tr \/ tq = Append(tr, a),
           g.msn = Head(io).msn \/ (f.state # "CLOSE" /\ g.msn = f.msn)
    PROVE  NoneOlder(b, Tail(io), g, tq, r)
  <1> DEFINE m == Head(io)
  <1>1. All(Tail(io), NotBehind(b, 2)) /\ m \in NotBehind(b, 2)
    BY AllTail DEF NoneOlder
  <1>2. Offset(b, m.msn) >= 2
    BY <1>1 DEF NotBehind
  <1>3. NodeUp(g, b, 2)
    BY <1>2 DEF NoneOlder, NodeUp
  <1>4. a \in NotBehind(b, 2)
    BY <1>2 DEF NotBehind
  <1>5. All(tq, NotBehind(b, 2))
    <2>1. All(tr, NotBehind(b, 2))
      BY DEF NoneOlder
    <2>2. All(Append(tr, a), NotBehind(b, 2))
      BY <1>4, <2>1, AllAppend
    <2>3. QED
      BY <2>1, <2>2
  <1>6. QED
    BY <1>1, <1>3, <1>5 DEF NoneOlder

(* The NF hands a grant on. *)
LEMMA GrantsHandedOn ==
    ASSUME NEW b, NEW ro \in Seq(Msg), NEW ti \in Seq(Msg), NEW ti2,
           NEW answered \in BOOLEAN,
           InOrder(b, ro, ti, answered), ro # <<>>,
           ti2 = ti \/ ti2 = Append(ti, Head(ro))
    PROVE  /\ InOrder(b, Tail(ro), ti2, answered)
           /\ Seen(b, Tail(ro), ti2, answered) => Seen(b, ro, ti, answered)
  <1> DEFINE A == GrantAhead(b)
             B == GrantNotBehind(b)
             m == Head(ro)
  <1> HIDE DEF A, B
  <1>1. m \in Msg
    BY RangeTail
  <1>2. /\ Follows(Tail(ro), A, B) /\ (m \in A => All(Tail(ro), B))
        /\ All(ro, B) => All(Tail(ro), B) /\ m \in B
        /\ Has(Tail(ro), A) => Has(ro, A)
        /\ m \in A => Has(ro, A)
    BY FollowsTail, AllTail DEF InOrder, A, B
  <1>3. /\ Follows(ti2, A, B)
        /\ Has(ti2, A) => Has(ti, A) \/ m \in A
        /\ answered => All(ti2, B)
    <2>1. /\ Follows(ti, A, B) /\ (Has(ti, A) => m \in B)
          /\ answered => All(ti, B) /\ m \in B
      BY <1>2 DEF InOrder, A, B
    <2>2. /\ Follows(Append(ti, m), A, B)
          /\ Has(Append(ti, m), A) => Has(ti, A) \/ m \in A
          /\ answered => All(Append(ti, m), B)
      BY <1>1, <2>1, FollowsAppend, AllAppend
    <2>3. QED
      BY <2>1, <2>2
  <1>4. QED
    BY <1>2, <1>3 DEF InOrder, Seen, A, B

(* The NR grants a request. *)
LEMMA TopAnswers ==
    ASSUME NEW b \in Msns, NEW w \in 0 .. 2, NEW f, NEW r, NEW h,
           NEW io \in Seq(Msg), NEW tr \in Seq(Msg),
           NEW ro \in Seq(Msg), NEW ti \in Seq(Msg), NEW a \in Msg,
           NEW answered \in BOOLEAN,
           Pipe(b, w, io, f, tr, r), tr # <<>>,
           Top(b, io, f, tr, r, ro, ti, answered),
           Granted(a), a.msn = Head(tr).msn, Request(Head(tr)),
           ~Live(Head(tr)) => Offset(b, a.msn) = 1,
           h.state = "CLOSE" \/ h.msn = a.msn
    PROVE  Top(b, io, f, Tail(tr), h, Append(ro, a), ti, answered)
  <1> DEFINE A == GrantAhead(b)
             B == GrantNotBehind(b)
             m == Head(tr)
  <1>1. m \in Msg
    BY RangeTail
  <1>2. m.msn \in Msns /\ Offset(b, m.msn) \in Nat
    <2>1. m.msn \in Msns
      BY <1>1 DEF Msg, Msns, Initiator!Message
    <2>2. QED
      BY <2>1, OffsetFacts
  <1>3. CASE Offset(b, a.msn) >= 2
    <2>1. m \in Ahead(b, 2) /\ a \in B
      BY <1>1, <1>3 DEF Ahead, GrantNotBehind
    <2>2. Reached(b, 2, io, f, tr, r)
      BY DEF Pipe
    <2>3. Has(tr, Ahead(b, 2)) /\ All(Tail(tr), NotBehind(b, 2))
      BY <2>1, <2>2, AllTail, FollowsTail DEF Reached
    <2>4. NodeUp(h, b, 2)
      BY <1>3 DEF NodeUp
    <2>5. NoneOlder(b, io, f, Tail(tr), h)
      BY <2>2, <2>3, <2>4 DEF Reached, NoneOlder
    <2> HIDE DEF A, B
    <2>6. Follows(Append(ro, a), A, B)
      BY <2>1, FollowsAppend DEF Top, InOrder, A, B
    <2>7. All(ro, B) => All(Append(ro, a), B)
      BY <2>1, AllAppend
    <2>8. QED
      BY <2>5, <2>6, <2>7 DEF Top, InOrder, A, B
  <1>4. CASE ~(Offset(b, a.msn) >= 2)
    <2>1. m \notin NotBehind(b, 2) /\ a \notin A
      BY <1>4 DEF NotBehind, GrantAhead
    <2>2. ~NoneOlder(b, io, f, tr, r)
      BY <2>1, AllTail DEF NoneOlder
    <2>3. ~Has(ro, A) /\ ~Has(ti, A) /\ ~answered
      BY <2>2 DEF Top, Seen
    <2> HIDE DEF A, B
    <2>4. Follows(Append(ro, a), A, B) /\ ~Has(Append(ro, a), A)
      BY <2>1, <2>3, FollowsAppend, AllAppend DEF Top, InOrder, A, B
    <2>5. QED
      BY <2>3, <2>4 DEF Top, InOrder, Seen, A, B
  <1>5. QED
    BY <1>3, <1>4

(* The grant reaches the NI. *)
LEMMA TopAnswered ==
    ASSUME NEW b, NEW io, NEW tr, NEW f, NEW r,
           NEW ro \in Seq(Msg), NEW ti \in Seq(Msg),
           NEW answered \in BOOLEAN,
           Top(b, io, f, tr, r, ro, ti, answered), ti # <<>>,
           Head(ti) \in GrantAhead(b)
    PROVE  Top(b, io, f, tr, r, ro, Tail(ti), TRUE)
  <1> DEFINE A == GrantAhead(b)
             B == GrantNotBehind(b)
  <1> HIDE DEF A, B
  <1>1. /\ Follows(Tail(ti), A, B) /\ All(Tail(ti), B)
        /\ Has(ti, A)
    BY FollowsTail, AllTail DEF Top, InOrder, A, B
  <1>2. QED
    BY <1>1 DEF Top, InOrder, Seen, A, B

(* Everything under way bears the last number: it becomes the base. *)
LEMMA PipeMovesOn ==
    ASSUME NEW b \in Msns, NEW c \in Msns, Offset(b, c) = 2,
           NEW f, NEW r, NEW io \in Seq(Msg), NEW tr \in Seq(Msg),
           f.state # "CLOSE" => f.msn \in Msns,
           r.state # "CLOSE" => r.msn \in Msns,
           Pipe(b, 2, io, f, tr, r), NoneOlder(b, io, f, tr, r)
    PROVE  Pipe(c, 0, io, f, tr, r)
  <1>1. Offset(c, c) = 0 /\ Offset(b, b) = 0
    BY OffsetFacts
  <1>2. ASSUME NEW m \in Msg, m \in Within(b, 2), m \in NotBehind(b, 2)
        PROVE  m \in Within(c, 0) /\ m \notin Ahead(c, 1) /\ m \notin Ahead(c, 2)
    <2>1. m.msn \in Msns
      BY DEF Msg, Msns, Initiator!Message
    <2>2. Live(m) => Offset(b, m.msn) = 2
      <3>1. Live(m) => Offset(b, m.msn) <= 2 /\ Offset(b, m.msn) >= 2
        BY <1>2 DEF Within, NotBehind, Live, Request
      <3>2. Offset(b, m.msn) \in Nat
        BY <2>1, OffsetFacts
      <3>3. QED
        BY <3>1, <3>2
    <2>3. Live(m) => m.msn = c
      BY <2>1, <2>2, OffsetMoved
    <2>4. Live(m) => m.msn = c /\ Offset(c, m.msn) = 0
      BY <1>1, <2>3
    <2>5. m.kind = "CONFIGURE" => Live(m)
      BY DEF Live
    <2>6. QED
      BY <2>4, <2>5 DEF Within, Ahead
  <1>3. /\ All(io, Within(c, 0)) /\ All(tr, Within(c, 0))
        /\ ~Has(io, Ahead(c, 1)) /\ ~Has(io, Ahead(c, 2))
        /\ ~Has(tr, Ahead(c, 1)) /\ ~Has(tr, Ahead(c, 2))
    <2>1. \A m \in Range(io) \cup Range(tr) :
             m \in Msg /\ m \in Within(b, 2) /\ m \in NotBehind(b, 2)
      BY DEF Pipe, NoneOlder, All, Within
    <2>2. ASSUME NEW m \in Range(io) \cup Range(tr)
          PROVE  m \in Within(c, 0) /\ m \notin Ahead(c, 1) /\ m \notin Ahead(c, 2)
      BY <1>2, <2>1
    <2>3. All(io, Within(c, 0)) /\ All(tr, Within(c, 0))
      BY <2>2 DEF All
    <2>4. QED
      BY <2>2, <2>3 DEF Has
  <1>4. /\ f.state # "CLOSE" => f.msn = c
        /\ r.state # "CLOSE" => r.msn = c
    <2>1. /\ f.state # "CLOSE" => Offset(b, f.msn) <= 2 /\ Offset(b, f.msn) >= 2
          /\ r.state # "CLOSE" => Offset(b, r.msn) <= 2 /\ Offset(b, r.msn) >= 2
      BY DEF Pipe, NoneOlder, NodeUp
    <2>2. /\ f.state # "CLOSE" => Offset(b, f.msn) \in Nat
          /\ r.state # "CLOSE" => Offset(b, r.msn) \in Nat
      BY OffsetFacts
    <2>3. /\ f.state # "CLOSE" => Offset(b, f.msn) = 2
          /\ r.state # "CLOSE" => Offset(b, r.msn) = 2
      BY <2>1, <2>2
    <2>4. QED
      BY <2>3, OffsetMoved
  <1>5. f.state # "PENDING"
    BY <1>1 DEF Pipe, NoneOlder, NodeUp
  <1>6. ASSUME NEW q \in Seq(Msg), NEW A, NEW B, ~Has(q, A)
        PROVE  Follows(q, A, B)
    <2>1. \A i \in 1 .. Len(q) : q[i] \in Range(q)
      BY DEF Range
    <2>2. QED
      BY <1>6, <2>1 DEF Follows, Has
  <1>7. ASSUME NEW t \in {1, 2}
        PROVE  Reached(c, t, io, f, tr, r)
    <2>1. ~Has(io, Ahead(c, t)) /\ ~Has(tr, Ahead(c, t))
      BY <1>3
    <2>2. /\ f.state # "CLOSE" => ~(Offset(c, f.msn) >= t)
          /\ r.state # "CLOSE" => ~(Offset(c, r.msn) >= t)
      BY <1>1, <1>4
    <2>3. /\ Follows(io, Ahead(c, t), NotBehind(c, t))
          /\ Follows(tr, Ahead(c, t), NotBehind(c, t))
      BY <1>6, <2>1
    <2>4. QED
      BY <2>1, <2>2, <2>3 DEF Reached
  <1>8. QED
    BY <1>1, <1>3, <1>4, <1>5, <1>7 DEF Pipe

(* Sets of messages: error responses, what the initiator sends, teardowns  *)
(* an NF sends while it sets up, and what the queues hold of a session     *)
(* that was not installed completely.                                      *)
Errors == {m \in Msg : m.kind = "RESPONSE" /\ ~m.ok}
Asking == {m \in Msg : Request(m)}
Teardowns(b) == {m \in Msg : m.kind = "REFRESH" /\ m.lifetime = 0
                                => Offset(b, m.msn) = 1}
NoConfigure == {m \in Msg : m.kind # "CONFIGURE"}
Ending == {m \in Msg : m.kind = "REFRESH" => m.lifetime = 0}
GrantsOf(b) == {m \in Msg : Granted(m) => m.msn = b}

(* What may be granted while s is the initiator: by the NR, by the NF. *)
ByNr(b, w, s) ==
    {m \in Msg : Granted(m) => /\ Offset(b, m.msn) <= 1 \/ Offset(b, m.msn) <= w
                               /\ Waits(s) /\ m.msn = b => m.lifetime > 0}
ByNf(b, w, s) == {m \in ByNr(b, w, s) : Granted(m) /\ Waits(s) => m.msn = b}

(* A session with a CONFIGURE: the initiator's own number is w beyond the  *)
(* base, and no grant is younger than what was asked.                      *)
Numbers(b, w, s, tr, ro, ti) ==
    /\ Opened(s) /\ Offset(b, s.msn) = w
    /\ All(tr, Teardowns(b)) /\ All(ro, ByNr(b, w, s)) /\ All(ti, ByNf(b, w, s))
    /\ Waits(s) => w = 0 /\ s.last_configure.msn = s.msn
    /\ Meters(s) =>
          /\ s.lifetime > 0
          /\ s.last_refresh # Initiator!NoMsg => s.last_refresh.msn = s.msn

(* At w = 2 the next REFRESH moves the base, which needs everything under  *)
(* way to bear the last number by the time the refresh timer runs.         *)
Going(b, w, s, io, f, tr, r, ro, ti) ==
    /\ Numbers(b, w, s, tr, ro, ti)
    /\ w = 2 => Top(b, io, f, tr, r, ro, ti, Meters(s) /\ s.refresh_timer)

(* What is left of a session whose objects were not all installed: the     *)
(* initiator holds no CONFIGURE any more, its REFRESH messages have        *)
(* lifetime 0, the first of them ends the session at the forwarder, and    *)
(* no CONFIGURE follows that would open it again.                          *)
Ended(io, f) == f.state = "CLOSE" /\ All(io, NoConfigure)

Partly(b, s, io, f, ti) ==
    /\ ~Opened(s)
    /\ \/ Offset(b, s.msn) = 1 /\ s.last_refresh = Initiator!NoMsg
       \/ /\ Offset(b, s.msn) = 2 /\ s.last_refresh.msn = s.msn
          /\ s.state = "METERING" /\ s.refresh_timer => Ended(io, f)
       \/ Ended(io, f)
    /\ s.last_refresh.kind = "REFRESH" => s.last_refresh.lifetime = 0
    /\ Follows(io, NoConfigure, NoConfigure) /\ All(io, Ending)
    /\ f.refresh_message # Initiator!NoMsg =>
          All(io, NoConfigure) /\ f.lifetime = 0
    /\ All(ti, GrantsOf(b)) \/ Ended(io, f)

(* An initiator that is gone sends nothing more; what it sent stays in     *)
(* order.                                                                  *)
OnPath(b, w, s, io, f, tr, r, ro, ti) ==
    /\ Pipe(b, w, io, f, tr, r) /\ All(io, Asking)
    /\ \/ s.state = "CLOSE"
       \/ Going(b, w, s, io, f, tr, r, ro, ti)
       \/ w = 0 /\ Partly(b, s, io, f, ti)

MsnInv ==
    \E b \in Msns, w \in 0 .. 2 :
       OnPath(b, w, ni, ni_out, nf, to_nr, nr, nr_out, to_ni)

(* A queue that stays as it is, loses its head, or is given one more. *)
Moves(q, p, x) ==
    \/ p = q
    \/ q # <<>> /\ p = Tail(q)
    \/ p = Append(q, x)

LEMMA AllMoves ==
    ASSUME NEW q \in Seq(Msg), NEW p, NEW x \in Msg, NEW A,
           Moves(q, p, x), All(q, A), x \in A
    PROVE  All(p, A)
  <1>1. CASE p = q
    BY <1>1
  <1>2. CASE q # <<>> /\ p = Tail(q)
    BY <1>2, AllTail
  <1>3. CASE p = Append(q, x)
    BY <1>3, AllAppend
  <1>4. QED
    BY <1>1, <1>2, <1>3 DEF Moves

LEMMA MsgOffset ==
    ASSUME NEW b \in Msns, NEW m \in Msg
    PROVE  m.msn \in Msns /\ Offset(b, m.msn) \in Nat
  <1>1. m.msn \in Msns
    BY DEF Msg, Msns, Initiator!Message
  <1>2. QED
    BY <1>1, OffsetFacts

LEMMA NumbersMove ==
    ASSUME NEW b, NEW w, NEW s, NEW tr \in Seq(Msg), NEW ro \in Seq(Msg),
           NEW ti \in Seq(Msg), NEW tr2, NEW ro2, NEW ti2, NEW x,
           Numbers(b, w, s, tr, ro, ti),
           x \in Teardowns(b), x \in ByNf(b, w, s),
           Moves(tr, tr2, x), Moves(ro, ro2, x), Moves(ti, ti2, x)
    PROVE  Numbers(b, w, s, tr2, ro2, ti2)
  <1>1. x \in Msg /\ x \in ByNr(b, w, s)
    BY DEF ByNr, ByNf
  <1>2. All(tr2, Teardowns(b)) /\ All(ro2, ByNr(b, w, s)) /\ All(ti2, ByNf(b, w, s))
    BY <1>1, AllMoves DEF Numbers
  <1>3. QED
    BY <1>2 DEF Numbers

(* Nothing that was granted moves, except that it may be lost. *)
LEMMA GrantsMove ==
    ASSUME NEW b, NEW ro \in Seq(Msg), NEW ti \in Seq(Msg), NEW x \in Msg,
           ~Granted(x), NEW ro2, NEW ti2, NEW answered \in BOOLEAN,
           InOrder(b, ro, ti, answered),
           Moves(ro, ro2, x), Moves(ti, ti2, x)
    PROVE  /\ InOrder(b, ro2, ti2, answered)
           /\ Seen(b, ro2, ti2, answered) => Seen(b, ro, ti, answered)
  <1> DEFINE A == GrantAhead(b)
             B == GrantNotBehind(b)
  <1>1. x \in B /\ x \notin A
    BY DEF GrantAhead, GrantNotBehind
  <1>2. Follows(ro, A, B) /\ Follows(ti, A, B)
    BY DEF InOrder
  <1> HIDE DEF A, B
  <1>3. ASSUME NEW q \in Seq(Msg), Follows(q, A, B), NEW p, Moves(q, p, x)
        PROVE  /\ Follows(p, A, B) /\ (Has(p, A) => Has(q, A))
               /\ All(q, B) => All(p, B)
    <2>1. CASE p = q
      BY <1>3, <2>1
    <2>2. CASE q # <<>> /\ p = Tail(q)
      BY <1>3, <2>2, FollowsTail, AllTail
    <2>3. CASE p = Append(q, x)
      BY <1>1, <1>3, <2>3, FollowsAppend, AllAppend
    <2>4. QED
      BY <1>3, <2>1, <2>2, <2>3 DEF Moves
  <1>4. /\ Follows(ro2, A, B) /\ (Has(ro2, A) => Has(ro, A))
        /\ All(ro, B) => All(ro2, B)
    BY <1>2, <1>3
  <1>5. /\ Follows(ti2, A, B) /\ (Has(ti2, A) => Has(ti, A))
        /\ All(ti, B) => All(ti2, B)
    BY <1>2, <1>3
  <1>6. QED
    BY <1>4, <1>5 DEF InOrder, Seen, A, B

LEMMA GoingMoves ==
    ASSUME NEW b, NEW w, NEW s, s.refresh_timer \in BOOLEAN,
           NEW io, NEW f, NEW tr \in Seq(Msg), NEW r, NEW ro \in Seq(Msg),
           NEW ti \in Seq(Msg), NEW x \in Msg, ~Granted(x), x \in Teardowns(b),
           NEW io2, NEW g, NEW tr2, NEW h, NEW ro2, NEW ti2,
           Moves(tr, tr2, x), Moves(ro, ro2, x), Moves(ti, ti2, x),
           Going(b, w, s, io, f, tr, r, ro, ti),
           NoneOlder(b, io, f, tr, r) => NoneOlder(b, io2, g, tr2, h)
    PROVE  Going(b, w, s, io2, g, tr2, h, ro2, ti2)
  <1> DEFINE answered == Meters(s) /\ s.refresh_timer
  <1>1. Numbers(b, w, s, tr, ro, ti)
        /\ (w = 2 => Top(b, io, f, tr, r, ro, ti, answered))
    BY DEF Going
  <1>2. x \in ByNf(b, w, s)
    BY DEF ByNf, ByNr
  <1>3. Numbers(b, w, s, tr2, ro2, ti2)
    BY <1>1, <1>2, NumbersMove
  <1>4. answered \in BOOLEAN
    BY DEF Meters
  <1> HIDE DEF answered
  <1>5. ASSUME Top(b, io, f, tr, r, ro, ti, answered)
        PROVE  Top(b, io2, g, tr2, h, ro2, ti2, answered)
    <2>1. InOrder(b, ro, ti, answered)
      BY <1>5 DEF Top
    <2>2. /\ InOrder(b, ro2, ti2, answered)
          /\ Seen(b, ro2, ti2, answered) => Seen(b, ro, ti, answered)
      BY <1>4, <2>1, GrantsMove
    <2>3. QED
      BY <1>5, <2>2 DEF Top
  <1>6. w = 2 => Top(b, io2, g, tr2, h, ro2, ti2, answered)
    BY <1>1, <1>5
  <1>7. QED
    BY <1>3, <1>6 DEF Going, answered

LEMMA GoingGrants ==
    ASSUME NEW b, NEW w, NEW s, s.refresh_timer \in BOOLEAN,
           NEW io, NEW f, NEW tr \in Seq(Msg), NEW r, NEW ro \in Seq(Msg),
           NEW ti \in Seq(Msg), ro # <<>>, Granted(Head(ro)),
           Waits(s) => Head(ro).msn = b,
           NEW g, NEW tr2, NEW ti2,
           \/ tr2 = Append(tr, Head(ro)) /\ ti2 = ti
           \/ tr2 = tr /\ ti2 = Append(ti, Head(ro)),
           Going(b, w, s, io, f, tr, r, ro, ti),
           NoneOlder(b, io, f, tr, r) => NoneOlder(b, io, g, tr2, r)
    PROVE  Going(b, w, s, io, g, tr2, r, Tail(ro), ti2)
  <1> DEFINE answered == Meters(s) /\ s.refresh_timer
             m == Head(ro)
  <1>1. Numbers(b, w, s, tr, ro, ti)
        /\ (w = 2 => Top(b, io, f, tr, r, ro, ti, answered))
    BY DEF Going
  <1>2. Moves(tr, tr2, m) /\ Moves(ti, ti2, m) /\ Moves(ro, Tail(ro), m)
        /\ (ti2 = ti \/ ti2 = Append(ti, m))
    BY DEF Moves
  <1>3. m \in ByNr(b, w, s)
    BY <1>1, AllTail DEF Numbers
  <1>4. m \in Teardowns(b) /\ m \in ByNf(b, w, s)
    BY <1>3 DEF Teardowns, ByNf, ByNr, Granted
  <1>5. Numbers(b, w, s, tr2, Tail(ro), ti2)
    BY <1>1, <1>2, <1>4, NumbersMove
  <1>6. answered \in BOOLEAN
    BY DEF Meters
  <1> HIDE DEF answered
  <1>7. ASSUME Top(b, io, f, tr, r, ro, ti, answered)
        PROVE  Top(b, io, g, tr2, r, Tail(ro), ti2, answered)
    <2>1. InOrder(b, ro, ti, answered)
      BY <1>7 DEF Top
    <2>2. /\ InOrder(b, Tail(ro), ti2, answered)
          /\ Seen(b, Tail(ro), ti2, answered) => Seen(b, ro, ti, answered)
      BY <1>2, <1>6, <2>1, GrantsHandedOn
    <2>3. QED
      BY <1>7, <2>2 DEF Top
  <1>8. w = 2 => Top(b, io, g, tr2, r, Tail(ro), ti2, answered)
    BY <1>1, <1>7
  <1>9. QED
    BY <1>5, <1>8 DEF Going, answered

LEMMA PartlyMoves ==
    ASSUME NEW b, NEW s, NEW io \in Seq(Msg), NEW f, NEW ti, NEW io2, NEW g,
           NEW ti2, Partly(b, s, io, f, ti),
           io2 = io \/ (io # <<>> /\ io2 = Tail(io)),
           Ended(io, f) => g.state = "CLOSE",
           g.refresh_message # Initiator!NoMsg =>
              All(io2, NoConfigure) /\ g.lifetime = 0,
           All(ti, GrantsOf(b)) => All(ti2, GrantsOf(b)) \/ Ended(io2, g)
    PROVE  Partly(b, s, io2, g, ti2)
  <1>1. /\ Follows(io2, NoConfigure, NoConfigure) /\ All(io2, Ending)
        /\ All(io, NoConfigure) => All(io2, NoConfigure)
    <2>1. Follows(io, NoConfigure, NoConfigure) /\ All(io, Ending)
      BY DEF Partly
    <2>2. io # <<>> =>
             /\ Follows(Tail(io), NoConfigure, NoConfigure) /\ All(Tail(io), Ending)
             /\ All(io, NoConfigure) => All(Tail(io), NoConfigure)
      BY <2>1, FollowsTail, AllTail
    <2>3. QED
      BY <2>1, <2>2
  <1>2. Ended(io, f) => Ended(io2, g)
    BY <1>1 DEF Ended
  <1>3. QED
    BY <1>1, <1>2 DEF Partly

(* A forwarder that leaves the session, or stays where it is. *)
Settles(f, g) ==
    /\ \/ g.state = "CLOSE"
       \/ /\ f.state # "CLOSE" /\ g.msn = f.msn
          /\ g.state = "PENDING" =>
                f.state = "PENDING" /\ g.configure_message = f.configure_message
    /\ \/ g.refresh_message = Initiator!NoMsg
       \/ g.refresh_message = f.refresh_message /\ g.lifetime = f.lifetime

Shrinks(q, p) == p = q \/ (q # <<>> /\ p = Tail(q))

(* Nothing is passed on: a node leaves or stays, a message is lost or      *)
(* discarded, an error response goes either way.                           *)
LEMMA OnPathQuiet ==
    ASSUME NEW b \in Msns, NEW w \in 0 .. 2, NEW s,
           NEW io \in Seq(Msg), NEW f, NEW tr \in Seq(Msg), NEW r,
           NEW ro \in Seq(Msg), NEW ti \in Seq(Msg),
           s.refresh_timer \in BOOLEAN,
           OnPath(b, w, s, io, f, tr, r, ro, ti),
           NEW io2, NEW g, NEW tr2, NEW h, NEW ro2, NEW ti2, NEW e \in Errors,
           Moves(tr, tr2, e), Moves(ro, ro2, e), Moves(ti, ti2, e),
           Shrinks(io, io2), Settles(f, g),
           h.state = "CLOSE" \/ (r.state # "CLOSE" /\ h.msn = r.msn)
    PROVE  OnPath(b, w, s, io2, g, tr2, h, ro2, ti2)
  <1> USE DEF Settles, Shrinks
  <1>1. e \in Msg /\ ~Granted(e) /\ ~Request(e) /\ ~Live(e)
    BY DEF Errors, Granted, Request, Live
  <1>2. /\ Pipe(b, w, io, f, tr, r) /\ All(io, Asking)
        /\ \/ s.state = "CLOSE"
           \/ Going(b, w, s, io, f, tr, r, ro, ti)
           \/ w = 0 /\ Partly(b, s, io, f, ti)
    BY DEF OnPath
  <1>3. io2 \in Seq(Msg) /\ All(io2, Asking)
    BY <1>2, RangeTail, AllTail
  <1>4. Pipe(b, w, io2, f, tr, r)
    BY <1>2, PipeShrinks
  <1>5. Pipe(b, w, io2, f, tr2, r)
    BY <1>1, <1>3, <1>4, PipeShrinks, PipeGetsDead DEF Moves
  <1>6. Pipe(b, w, io2, g, tr2, h)
    BY <1>5, PipeSettles
  <1>7. ASSUME NoneOlder(b, io, f, tr, r)
        PROVE  NoneOlder(b, io2, g, tr2, h)
    <2>1. NoneOlder(b, io2, f, tr, r)
      BY <1>7, NoneOlderShrinks
    <2>2. NoneOlder(b, io2, f, tr2, r)
      BY <1>1, <1>3, <2>1, NoneOlderShrinks DEF Moves
    <2>3. QED
      BY <2>2, NoneOlderSettles
  <1>8. ASSUME Going(b, w, s, io, f, tr, r, ro, ti)
        PROVE  Going(b, w, s, io2, g, tr2, h, ro2, ti2)
    <2>1. e \in Teardowns(b)
      BY <1>1 DEF Teardowns, Request
    <2>2. QED
      BY <1>1, <1>7, <1>8, <2>1, GoingMoves
  <1>9. ASSUME Partly(b, s, io, f, ti)
        PROVE  Partly(b, s, io2, g, ti2)
    <2>1. All(io, NoConfigure) => All(io2, NoConfigure)
      BY AllTail
    <2>2. g.refresh_message # Initiator!NoMsg =>
             All(io2, NoConfigure) /\ g.lifetime = 0
      BY <1>9, <2>1 DEF Partly
    <2>3. Ended(io, f) => g.state = "CLOSE"
      BY DEF Ended
    <2>4. All(ti, GrantsOf(b)) => All(ti2, GrantsOf(b))
      <3>1. e \in GrantsOf(b)
        BY <1>1 DEF GrantsOf
      <3>2. QED
        BY <1>1, <3>1, AllMoves
    <2>5. QED
      BY <1>9, <2>2, <2>3, <2>4, PartlyMoves
  <1>10. QED
    BY <1>2, <1>3, <1>6, <1>8, <1>9 DEF OnPath

(* The NF takes a request over.                                            *)
LEMMA OnPathPasses ==
    ASSUME NEW b \in Msns, NEW w \in 0 .. 2, NEW s,
           NEW io \in Seq(Msg), NEW f, NEW tr \in Seq(Msg), NEW r,
           NEW ro \in Seq(Msg), NEW ti \in Seq(Msg),
           s.refresh_timer \in BOOLEAN,
           OnPath(b, w, s, io, f, tr, r, ro, ti),
           NEW g, NEW a \in Msg, NEW tq, NEW tiq,
           io # <<>>, f.state # "CLOSE" => f.msn \in Msns,
           a.kind = Head(io).kind, a.msn = Head(io).msn,
           Live(a) => Live(Head(io)),
           Opened(s) /\ a.kind = "REFRESH" => a.lifetime > 0,
           \/ tq = Append(tr, a) /\ tiq = ti
           \/ tq = tr /\ tiq = Append(ti, a),
           g.state # "CLOSE", NfMaxLifetime > 0,
           g.state = "PENDING" =>
              Head(io).kind = "CONFIGURE" /\ g.configure_message.msn = Head(io).msn,
           \/ Live(Head(io)) /\ g.msn = Head(io).msn
           \/ ~Live(Head(io)) /\ f.state # "CLOSE" /\ g.msn = f.msn,
           \/ Head(io).kind = "CONFIGURE" /\ g.refresh_message = f.refresh_message
           \/ /\ Head(io).kind = "REFRESH" /\ f.state # "CLOSE"
              /\ Head(io).lifetime = 0 => g.lifetime = 0
    PROVE  OnPath(b, w, s, Tail(io), g, tq, r, ro, tiq)
  <1> DEFINE m == Head(io)
  <1>1. /\ Pipe(b, w, io, f, tr, r) /\ All(io, Asking)
        /\ \/ s.state = "CLOSE"
           \/ Going(b, w, s, io, f, tr, r, ro, ti)
           \/ w = 0 /\ Partly(b, s, io, f, ti)
    BY DEF OnPath
  <1>2. /\ All(Tail(io), Asking) /\ Tail(io) \in Seq(Msg)
        /\ m \in Msg /\ m \in Asking /\ Request(m)
    <2>1. All(Tail(io), Asking) /\ m \in Asking
      BY <1>1, AllTail
    <2>2. QED
      BY <2>1, RangeTail DEF Asking
  <1>3. /\ tq = tr \/ tq = Append(tr, a)
        /\ Moves(tr, tq, a) /\ Moves(ti, tiq, a) /\ Moves(ro, ro, a)
    BY DEF Moves
  <1>4. ~Granted(a)
    BY <1>2 DEF Request, Granted
  <1>5. Pipe(b, w, Tail(io), g, tq, r)
    BY <1>1, <1>2, <1>3, PipePasses
  <1>6. ASSUME Going(b, w, s, io, f, tr, r, ro, ti)
        PROVE  Going(b, w, s, Tail(io), g, tq, r, ro, tiq)
    <2>1. Opened(s)
      BY <1>6 DEF Going, Numbers
    <2>2. a \in Teardowns(b)
      BY <2>1 DEF Teardowns
    <2>3. NoneOlder(b, io, f, tr, r) => NoneOlder(b, Tail(io), g, tq, r)
      BY <1>2, <1>3, NoneOlderPasses
    <2>4. QED
      BY <1>3, <1>4, <1>6, <2>2, <2>3, GoingMoves
  <1>7. ASSUME Partly(b, s, io, f, ti)
        PROVE  Partly(b, s, Tail(io), g, tiq)
    <2>1. ~Ended(io, f)
      <3>1. m.kind = "CONFIGURE" => ~All(io, NoConfigure)
        BY AllTail DEF NoConfigure
      <3>2. QED
        BY <3>1 DEF Ended
    <2>2. g.refresh_message # Initiator!NoMsg =>
             All(Tail(io), NoConfigure) /\ g.lifetime = 0
      <3>1. CASE m.kind = "CONFIGURE" /\ g.refresh_message = f.refresh_message
        <4>1. ~All(io, NoConfigure)
          BY <3>1, AllTail DEF NoConfigure
        <4>2. QED
          BY <1>7, <3>1, <4>1 DEF Partly
      <3>2. CASE m.kind = "REFRESH" /\ (m.lifetime = 0 => g.lifetime = 0)
        <4>1. m \in NoConfigure
          BY <1>2, <3>2 DEF NoConfigure
        <4>2. All(Tail(io), NoConfigure)
          BY <1>7, <4>1, FollowsTail DEF Partly
        <4>3. m \in Ending
          BY <1>7, AllTail DEF Partly
        <4>4. QED
          BY <3>2, <4>2, <4>3 DEF Ending
      <3>3. QED
        BY <3>1, <3>2
    <2>3. All(ti, GrantsOf(b)) => All(tiq, GrantsOf(b))
      <3>1. a \in GrantsOf(b)
        BY <1>4 DEF GrantsOf
      <3>2. tiq = ti \/ tiq = Append(ti, a)
        OBVIOUS
      <3>3. All(ti, GrantsOf(b)) => All(Append(ti, a), GrantsOf(b))
        BY <3>1, AllAppend
      <3>4. QED
        BY <3>2, <3>3
    <2>4. QED
      BY <1>7, <2>1, <2>2, <2>3, PartlyMoves
  <1>8. QED
    BY <1>1, <1>2, <1>5, <1>6, <1>7 DEF OnPath

(* The NF hands a grant on. *)
LEMMA OnPathGrants ==
    ASSUME NEW b \in Msns, NEW w \in 0 .. 2, NEW s,
           NEW io \in Seq(Msg), NEW f, NEW tr \in Seq(Msg), NEW r,
           NEW ro \in Seq(Msg), NEW ti \in Seq(Msg),
           s.refresh_timer \in BOOLEAN,
           OnPath(b, w, s, io, f, tr, r, ro, ti),
           NEW g, NEW tq, NEW tiq, ro # <<>>, Granted(Head(ro)),
           \/ tq = Append(tr, Head(ro)) /\ tiq = ti
           \/ tq = tr /\ tiq = Append(ti, Head(ro)),
           \/ g.state = "CLOSE"
           \/ f.state # "CLOSE" /\ g.msn = f.msn /\ g.state # "PENDING",
           \/ g.refresh_message = Initiator!NoMsg
           \/ g.refresh_message = f.refresh_message /\ g.lifetime = f.lifetime,
           f.state # "CLOSE",
           \/ Head(ro).msn = b
           \/ /\ ~Waits(s) /\ f.refresh_message # Initiator!NoMsg
              /\ f.lifetime = 0 => g.state = "CLOSE"
    PROVE  OnPath(b, w, s, io, g, tq, r, Tail(ro), tiq)
  <1> DEFINE m == Head(ro)
  <1>1. /\ Pipe(b, w, io, f, tr, r) /\ All(io, Asking)
        /\ \/ s.state = "CLOSE"
           \/ Going(b, w, s, io, f, tr, r, ro, ti)
           \/ w = 0 /\ Partly(b, s, io, f, ti)
    BY DEF OnPath
  <1>2. m \in Msg /\ ~Request(m) /\ ~Live(m) /\ Granted(m)
    <2>1. m \in Msg
      BY RangeTail
    <2>2. QED
      BY <2>1 DEF Granted, Request, Live
  <1>3. Pipe(b, w, io, g, tq, r)
    <2>1. Pipe(b, w, io, f, tq, r)
      BY <1>1, <1>2, PipeGetsDead
    <2>2. r.state = "CLOSE" \/ (r.state # "CLOSE" /\ r.msn = r.msn)
      OBVIOUS
    <2>3. QED
      BY <2>1, <2>2, PipeSettles
  <1>5. /\ g.state = "CLOSE" \/ (f.state # "CLOSE" /\ g.msn = f.msn)
        /\ r.state = "CLOSE" \/ (r.state # "CLOSE" /\ r.msn = r.msn)
    OBVIOUS
  <1>4. ASSUME Going(b, w, s, io, f, tr, r, ro, ti)
        PROVE  Going(b, w, s, io, g, tq, r, Tail(ro), tiq)
    <2>1. ASSUME NoneOlder(b, io, f, tr, r)
          PROVE  NoneOlder(b, io, g, tq, r)
      <3>1. NoneOlder(b, io, f, tq, r)
        BY <1>2, <2>1, NoneOlderShrinks
      <3>2. QED
        BY <1>5, <3>1, NoneOlderSettles
    <2>2. Waits(s) => m.msn = b
      OBVIOUS
    <2>3. QED
      BY <1>4, <2>1, <2>2, GoingGrants
  <1>6. ASSUME Partly(b, s, io, f, ti)
        PROVE  Partly(b, s, io, g, tiq)
    <2>1. ~Ended(io, f)
      BY DEF Ended
    <2>2. g.refresh_message # Initiator!NoMsg =>
             All(io, NoConfigure) /\ g.lifetime = 0
      BY <1>6 DEF Partly
    <2>3. All(ti, GrantsOf(b)) => All(tiq, GrantsOf(b)) \/ Ended(io, g)
      <3>1. CASE m.msn = b
        <4>1. m \in GrantsOf(b)
          BY <1>2, <3>1 DEF GrantsOf
        <4>2. tiq = ti \/ tiq = Append(ti, m)
          OBVIOUS
        <4> HIDE DEF m
        <4>3. All(ti, GrantsOf(b)) => All(Append(ti, m), GrantsOf(b))
          BY <1>2, <4>1, AllAppend
        <4>4. QED
          BY <4>2, <4>3
      <3>2. CASE m.msn # b
        BY <1>6, <3>2 DEF Partly, Ended
      <3>3. QED
        BY <3>1, <3>2
    <2>4. QED
      BY <1>6, <2>1, <2>2, <2>3, PartlyMoves
  <1>7. QED
    BY <1>1, <1>3, <1>4, <1>6 DEF OnPath

(* The NF could not install its share: it tears down what is downstream.   *)
LEMMA OnPathFails ==
    ASSUME NEW b \in Msns, NEW w \in 0 .. 2, NEW s,
           NEW io \in Seq(Msg), NEW f, NEW tr \in Seq(Msg), NEW r,
           NEW ro \in Seq(Msg), NEW ti \in Seq(Msg),
           s.refresh_timer \in BOOLEAN,
           OnPath(b, w, s, io, f, tr, r, ro, ti),
           NEW g, NEW t \in Msg, ro # <<>>,
           f.state = "PENDING", t.kind = "REFRESH", t.lifetime = 0,
           t.msn = Initiator!NextMsn(f.msn),
           g.state = "CLOSE", g.refresh_message = Initiator!NoMsg
    PROVE  OnPath(b, w, s, io, g, Append(tr, t), r, Tail(ro), ti)
  <1>1. /\ Pipe(b, w, io, f, tr, r) /\ All(io, Asking)
        /\ \/ s.state = "CLOSE"
           \/ Going(b, w, s, io, f, tr, r, ro, ti)
           \/ w = 0 /\ Partly(b, s, io, f, ti)
    BY DEF OnPath
  <1>2. ~Live(t) /\ ~Granted(t)
    <2>1. t.lifetime \in Nat
      BY Bounds DEF Msg
    <2>2. QED
      BY <2>1 DEF Live, Granted
  <1>3. f.msn = b /\ Offset(b, f.msn) = 0 /\ Offset(b, t.msn) = 1
    <2>1. f.msn = b
      BY <1>1 DEF Pipe
    <2>2. Offset(b, b) + 1 < 2 * LIMIT
      BY OffsetFacts, MsnsAre
    <2>3. QED
      BY <2>1, <2>2, OffsetFacts
  <1>4. Pipe(b, w, io, g, Append(tr, t), r)
    <2>1. Pipe(b, w, io, f, Append(tr, t), r)
      BY <1>1, <1>2, PipeGetsDead
    <2>2. r.state = "CLOSE" \/ (r.state # "CLOSE" /\ r.msn = r.msn)
      OBVIOUS
    <2>3. QED
      BY <2>1, <2>2, PipeSettles
  <1>5. ASSUME Going(b, w, s, io, f, tr, r, ro, ti)
        PROVE  Going(b, w, s, io, g, Append(tr, t), r, Tail(ro), ti)
    <2>1. ~NoneOlder(b, io, f, tr, r)
      BY <1>3 DEF NoneOlder, NodeUp
    <2>2. t \in Teardowns(b)
      BY <1>3 DEF Teardowns
    <2>3. /\ Moves(tr, Append(tr, t), t) /\ Moves(ro, Tail(ro), t)
          /\ Moves(ti, ti, t)
      BY DEF Moves
    <2>4. QED
      BY <1>2, <1>5, <2>1, <2>2, <2>3, GoingMoves
  <1>6. ASSUME Partly(b, s, io, f, ti)
        PROVE  Partly(b, s, io, g, ti)
    <2>1. ~Ended(io, f)
      BY DEF Ended
    <2>2. QED
      BY <1>6, <2>1, PartlyMoves
  <1>7. QED
    BY <1>1, <1>4, <1>5, <1>6 DEF OnPath

(* The NR answers a request with a success response. *)
LEMMA OnPathAnswers ==
    ASSUME NEW b \in Msns, NEW w \in 0 .. 2, NEW s,
           NEW io \in Seq(Msg), NEW f, NEW tr \in Seq(Msg), NEW r,
           NEW ro \in Seq(Msg), NEW ti \in Seq(Msg),
           s.refresh_timer \in BOOLEAN,
           OnPath(b, w, s, io, f, tr, r, ro, ti),
           NEW h, NEW a \in Msg, tr # <<>>, Request(Head(tr)),
           Granted(a), a.msn = Head(tr).msn,
           \/ Live(Head(tr)) /\ h.msn = Head(tr).msn
           \/ h.state = "CLOSE",
           Waits(s) /\ a.msn = b => a.lifetime > 0
    PROVE  OnPath(b, w, s, io, f, Tail(tr), h, Append(ro, a), ti)
  <1> DEFINE m == Head(tr)
  <1>1. /\ Pipe(b, w, io, f, tr, r) /\ All(io, Asking)
        /\ \/ s.state = "CLOSE"
           \/ Going(b, w, s, io, f, tr, r, ro, ti)
           \/ w = 0 /\ Partly(b, s, io, f, ti)
    BY DEF OnPath
  <1>2. m \in Msg /\ m \in Within(b, w) /\ Tail(tr) \in Seq(Msg)
    <2>1. m \in Within(b, w)
      BY <1>1, AllTail DEF Pipe
    <2>2. QED
      BY <2>1, RangeTail
  <1>3. Pipe(b, w, io, f, Tail(tr), h)
    <2>1. CASE Live(m) /\ h.msn = m.msn
      BY <1>1, <2>1, PipeArrives
    <2>2. CASE h.state = "CLOSE"
      <3>1. Pipe(b, w, io, f, Tail(tr), r)
        BY <1>1, PipeShrinks
      <3>2. \/ f.state = "CLOSE"
            \/ /\ f.state # "CLOSE" /\ f.msn = f.msn
               /\ f.state = "PENDING" =>
                    f.state = "PENDING" /\ f.configure_message = f.configure_message
        OBVIOUS
      <3>3. QED
        BY <2>2, <3>1, <3>2, PipeSettles
    <2>3. QED
      BY <2>1, <2>2
  <1>4. h.state = "CLOSE" \/ h.msn = a.msn
    OBVIOUS
  <1>5. ASSUME Going(b, w, s, io, f, tr, r, ro, ti)
        PROVE  Going(b, w, s, io, f, Tail(tr), h, Append(ro, a), ti)
    <2> DEFINE answered == Meters(s) /\ s.refresh_timer
    <2>1. Numbers(b, w, s, tr, ro, ti)
          /\ (w = 2 => Top(b, io, f, tr, r, ro, ti, answered))
      BY <1>5 DEF Going
    <2>2. m \in Teardowns(b) /\ All(Tail(tr), Teardowns(b))
      BY <2>1, AllTail DEF Numbers
    <2>3. ~Live(m) => Offset(b, a.msn) = 1
      <3>1. m.lifetime \in Nat
        BY <1>2, Bounds DEF Msg
      <3>2. QED
        BY <2>2, <3>1 DEF Teardowns, Live, Request
    <2>4. Live(m) => Offset(b, a.msn) <= w
      BY <1>2 DEF Within
    <2>5. a \in ByNr(b, w, s)
      BY <2>3, <2>4 DEF ByNr
    <2>6. All(Append(ro, a), ByNr(b, w, s))
      BY <2>1, <2>5, AllAppend DEF Numbers
    <2>7. Numbers(b, w, s, Tail(tr), Append(ro, a), ti)
      BY <2>1, <2>2, <2>6 DEF Numbers
    <2>8. answered \in BOOLEAN
      BY DEF Meters
    <2> HIDE DEF answered
    <2>9. ASSUME Top(b, io, f, tr, r, ro, ti, answered)
          PROVE  Top(b, io, f, Tail(tr), h, Append(ro, a), ti, answered)
      BY <1>1, <1>4, <2>3, <2>8, <2>9, TopAnswers
    <2>10. w = 2 => Top(b, io, f, Tail(tr), h, Append(ro, a), ti, answered)
      BY <2>1, <2>9
    <2>11. QED
      BY <2>7, <2>10 DEF Going, answered
  <1>6. QED
    BY <1>1, <1>3, <1>5 DEF OnPath

(* A step of the initiator that touches nothing the numbers depend on. *)
SameNumbers(s, t) ==
    /\ t.state = s.state /\ t.msn = s.msn /\ t.lifetime = s.lifetime
    /\ t.last_configure = s.last_configure /\ t.last_refresh = s.last_refresh
    /\ t.refresh_timer = s.refresh_timer

LEMMA OnPathSame ==
    ASSUME NEW b, NEW w, NEW s, NEW t, SameNumbers(s, t),
           NEW io, NEW f, NEW tr, NEW r, NEW ro, NEW ti,
           OnPath(b, w, s, io, f, tr, r, ro, ti)
    PROVE  OnPath(b, w, t, io, f, tr, r, ro, ti)
  <1>1. /\ Waits(t) = Waits(s) /\ Meters(t) = Meters(s) /\ Opened(t) = Opened(s)
        /\ t.msn = s.msn /\ t.refresh_timer = s.refresh_timer
    BY DEF SameNumbers, Waits, Meters, Opened
  <1>2. Numbers(b, w, s, tr, ro, ti) => Numbers(b, w, t, tr, ro, ti)
    BY <1>1 DEF Numbers, ByNf, ByNr, SameNumbers
  <1>3. Partly(b, s, io, f, ti) => Partly(b, t, io, f, ti)
    BY <1>1 DEF Partly, SameNumbers
  <1>4. Going(b, w, s, io, f, tr, r, ro, ti) => Going(b, w, t, io, f, tr, r, ro, ti)
    BY <1>1, <1>2 DEF Going
  <1>5. QED
    BY <1>3, <1>4 DEF OnPath, SameNumbers

(* The NI sends one more request. *)
LEMMA PartlyGrows ==
    ASSUME NEW b, NEW s, NEW io \in Seq(Msg), NEW f, NEW ti,
           NEW x \in Msg, x.kind = "REFRESH", x.lifetime = 0,
           Partly(b, s, io, f, ti)
    PROVE  /\ Follows(Append(io, x), NoConfigure, NoConfigure)
           /\ All(Append(io, x), Ending)
           /\ f.refresh_message # Initiator!NoMsg =>
                 All(Append(io, x), NoConfigure) /\ f.lifetime = 0
           /\ Ended(io, f) => Ended(Append(io, x), f)
  <1>1. x \in NoConfigure /\ x \in Ending
    BY DEF NoConfigure, Ending
  <1>2. /\ All(Append(io, x), NoConfigure) <=> All(io, NoConfigure)
        /\ All(Append(io, x), Ending) <=> All(io, Ending)
    BY <1>1, AllAppend
  <1>3. Follows(Append(io, x), NoConfigure, NoConfigure)
    BY <1>1, FollowsAppend DEF Partly
  <1>4. QED
    BY <1>2, <1>3 DEF Partly, Ended

LEMMA NextOffset ==
    ASSUME NEW b \in Msns, NEW x \in Msns, Offset(b, x) <= 2
    PROVE  Offset(b, Initiator!NextMsn(x)) = Offset(b, x) + 1
  <1>1. Offset(b, x) \in Nat
    BY OffsetFacts
  <1>2. Offset(b, x) + 1 < 2 * LIMIT
    BY <1>1, MsnsAre
  <1>3. QED
    BY <1>2, OffsetFacts

LEMMA OnPathLeaves ==
    ASSUME NEW b \in Msns, NEW w \in 0 .. 2, NEW s, NEW t,
           NEW io \in Seq(Msg), NEW f, NEW tr \in Seq(Msg), NEW r,
           NEW ro, NEW ti,
           f.state # "CLOSE" => f.msn \in Msns,
           r.state # "CLOSE" => r.msn \in Msns,
           OnPath(b, w, s, io, f, tr, r, ro, ti), s.msn \in Msns,
           s.state # "CLOSE", t.state = "CLOSE",
           NEW x \in Msg, x.kind = "REFRESH", x.lifetime = 0,
           x.msn = Initiator!NextMsn(s.msn)
    PROVE  OnPath(b, w, t, Append(io, x), f, tr, r, ro, ti)
  <1>1. x \in Asking /\ ~Live(x)
    BY DEF Asking, Request, Live
  <1>2. All(Append(io, x), Asking)
    BY <1>1, AllAppend DEF OnPath
  <1>3. Offset(b, x.msn) >= w
    <2>1. CASE Going(b, w, s, io, f, tr, r, ro, ti)
      <3>1. Offset(b, s.msn) = w
        BY <2>1 DEF Going, Numbers
      <3>2. QED
        BY <3>1, NextOffset
    <2>2. CASE w = 0
      BY <2>2, MsgOffset
    <2>3. QED
      BY <2>1, <2>2 DEF OnPath
  <1>4. Pipe(b, w, io, f, tr, r)
    BY DEF OnPath
  <1>5. Pipe(b, w, Append(io, x), f, tr, r)
    BY <1>1, <1>3, <1>4, PipeGrows
  <1>6. QED
    BY <1>2, <1>5 DEF OnPath

LEMMA OnPathRetries ==
    ASSUME NEW b \in Msns, NEW w \in 0 .. 2, NEW s,
           NEW io \in Seq(Msg), NEW f, NEW tr \in Seq(Msg), NEW r,
           NEW ro, NEW ti,
           f.state # "CLOSE" => f.msn \in Msns,
           r.state # "CLOSE" => r.msn \in Msns,
           OnPath(b, w, s, io, f, tr, r, ro, ti),
           NEW x \in Msg,
           \/ Waits(s) /\ x = s.last_configure
           \/ s.state = "METERING" /\ x = s.last_refresh /\ x.kind = "REFRESH"
    PROVE  OnPath(b, w, s, Append(io, x), f, tr, r, ro, ti)
  <1>1. x \in Asking
    BY DEF Waits, Opened, Asking, Request
  <1>2. /\ Pipe(b, w, io, f, tr, r) /\ All(Append(io, x), Asking)
        /\ \/ Going(b, w, s, io, f, tr, r, ro, ti)
           \/ w = 0 /\ Partly(b, s, io, f, ti)
    <2>1. s.state # "CLOSE"
      BY DEF Waits
    <2>2. QED
      BY <1>1, <2>1, AllAppend DEF OnPath
  <1>3. CASE Going(b, w, s, io, f, tr, r, ro, ti)
    <2>1. Numbers(b, w, s, tr, ro, ti) /\ Opened(s) /\ Offset(b, s.msn) = w
      BY <1>3 DEF Going, Numbers
    <2>2. x.msn = s.msn /\ (x.kind = "CONFIGURE" => w = 0)
      <3>1. CASE Waits(s) /\ x = s.last_configure
        BY <2>1, <3>1 DEF Numbers
      <3>2. CASE s.state = "METERING" /\ x = s.last_refresh /\ x.kind = "REFRESH"
        <4>1. Meters(s) /\ x # Initiator!NoMsg
          BY <2>1, <3>2 DEF Meters, Initiator!NoMsg
        <4>2. QED
          BY <2>1, <3>2, <4>1 DEF Numbers
      <3>3. QED
        BY <3>1, <3>2
    <2>3. Offset(b, x.msn) = w /\ (x.kind = "CONFIGURE" => x.msn = b)
      BY <2>1, <2>2, MsgOffset, OffsetFacts
    <2>4. Pipe(b, w, Append(io, x), f, tr, r)
      BY <1>2, <2>3, PipeGrows
    <2>5. ASSUME w = 2, NoneOlder(b, io, f, tr, r)
          PROVE  NoneOlder(b, Append(io, x), f, tr, r)
      <3>1. x \in NotBehind(b, 2)
        BY <2>3, <2>5 DEF NotBehind
      <3>2. All(Append(io, x), NotBehind(b, 2))
        BY <2>5, <3>1, AllAppend DEF NoneOlder
      <3>3. QED
        BY <2>5, <3>2 DEF NoneOlder
    <2>6. Going(b, w, s, Append(io, x), f, tr, r, ro, ti)
      BY <1>3, <2>5 DEF Going, Top
    <2>7. QED
      BY <1>2, <2>4, <2>6 DEF OnPath
  <1>4. CASE w = 0 /\ Partly(b, s, io, f, ti)
    <2>1. x.kind = "REFRESH" /\ x = s.last_refresh
      BY <1>4 DEF Partly, Waits
    <2>2. x.lifetime = 0 /\ Offset(b, x.msn) >= 0 /\ ~Live(x)
      BY <1>4, <2>1, MsgOffset DEF Partly, Live
    <2>3. Pipe(b, w, Append(io, x), f, tr, r)
      BY <1>2, <1>4, <2>1, <2>2, PipeGrows
    <2>4. Partly(b, s, Append(io, x), f, ti)
      BY <1>4, <2>1, <2>2, PartlyGrows DEF Partly
    <2>5. QED
      BY <1>2, <1>4, <2>3, <2>4 DEF OnPath
  <1>5. QED
    BY <1>2, <1>3, <1>4

(* The last number becomes the base when all that is older is gone. *)
LEMMA NumbersMoveOn ==
    ASSUME NEW b \in Msns, NEW s, NEW tr \in Seq(Msg), NEW ro \in Seq(Msg),
           NEW ti \in Seq(Msg), s.msn \in Msns, NEW io, NEW f, NEW r,
           Numbers(b, 2, s, tr, ro, ti), NoneOlder(b, io, f, tr, r),
           All(ro, GrantNotBehind(b)), All(ti, GrantNotBehind(b)), Meters(s)
    PROVE  /\ All(tr, Teardowns(s.msn))
           /\ \A m \in Range(ro) \cup Range(ti) :
                 m \in Msg /\ (Granted(m) => Offset(s.msn, m.msn) = 0)
  <1>1. Offset(b, s.msn) = 2
    BY DEF Numbers
  <1>2. ASSUME NEW m \in Range(tr)
        PROVE  m \in Teardowns(s.msn)
    <2>1. m \in Msg /\ m \in Teardowns(b) /\ m \in NotBehind(b, 2)
      BY DEF Numbers, NoneOlder, All, Teardowns
    <2>2. ~(m.kind = "REFRESH" /\ m.lifetime = 0)
      BY <2>1 DEF Teardowns, NotBehind, Request
    <2>3. QED
      BY <2>1, <2>2 DEF Teardowns
  <1>3. ASSUME NEW m \in Range(ro) \cup Range(ti)
        PROVE  m \in Msg /\ (Granted(m) => Offset(s.msn, m.msn) = 0)
    <2>1. m \in ByNr(b, 2, s) /\ m \in GrantNotBehind(b)
      BY DEF Numbers, All, ByNf
    <2>2. m \in Msg
      BY <2>1 DEF ByNr
    <2>3. m.msn \in Msns /\ Offset(b, m.msn) \in Nat
      BY <2>2, MsgOffset
    <2>4. Granted(m) => Offset(b, m.msn) = 2
      BY <2>1, <2>3 DEF ByNr, GrantNotBehind
    <2>5. Granted(m) => m.msn = s.msn
      BY <1>1, <2>3, <2>4, OffsetMoved
    <2>6. QED
      BY <2>2, <2>5, OffsetFacts
  <1>4. QED
    BY <1>2, <1>3 DEF All

(* The refresh timer of an NI that meters: one more number is used. *)
LEMMA NumbersGrow ==
    ASSUME NEW b, NEW w, NEW v, NEW s, NEW t, NEW tr, NEW ro, NEW ti,
           All(tr, Teardowns(b)),
           \A m \in Range(ro) \cup Range(ti) :
              m \in Msg /\ (Granted(m) => Offset(b, m.msn) <= 1),
           Offset(b, t.msn) = v, Meters(t), t.lifetime > 0,
           t.last_refresh.msn = t.msn
    PROVE  Numbers(b, v, t, tr, ro, ti)
  <1>1. Opened(t) /\ ~Waits(t)
    BY DEF Meters, Waits
  <1>2. All(ro, ByNr(b, v, t)) /\ All(ti, ByNf(b, v, t))
    BY <1>1 DEF All, ByNr, ByNf
  <1>3. QED
    BY <1>1, <1>2 DEF Numbers

LEMMA TopUnseen ==
    ASSUME NEW b, NEW io, NEW f, NEW tr, NEW r, NEW ro \in Seq(Msg),
           NEW ti \in Seq(Msg), b \in Msns,
           \A m \in Range(ro) \cup Range(ti) :
              m \in Msg /\ (Granted(m) => Offset(b, m.msn) <= 1)
    PROVE  Top(b, io, f, tr, r, ro, ti, FALSE)
  <1>1. ASSUME NEW m \in Range(ro) \cup Range(ti)
        PROVE  m \notin GrantAhead(b)
    <2>1. Offset(b, m.msn) \in Nat
      BY MsgOffset
    <2>2. QED
      BY <2>1 DEF GrantAhead
  <1>2. ~Has(ro, GrantAhead(b)) /\ ~Has(ti, GrantAhead(b))
    BY <1>1 DEF Has
  <1>3. ASSUME NEW q \in Seq(Msg), NEW A, NEW B, ~Has(q, A)
        PROVE  Follows(q, A, B)
    <2>1. \A i \in 1 .. Len(q) : q[i] \in Range(q)
      BY DEF Range
    <2>2. QED
      BY <1>3, <2>1 DEF Follows, Has
  <1>4. /\ Follows(ro, GrantAhead(b), GrantNotBehind(b))
        /\ Follows(ti, GrantAhead(b), GrantNotBehind(b))
    BY <1>2, <1>3
  <1>5. QED
    BY <1>2, <1>4 DEF Top, InOrder, Seen

(* The refresh timer of s fires: x goes out, and t is the session then. *)
Refreshes(s, x, t) ==
    /\ s.state = "METERING" /\ s.refresh_timer = TRUE
    /\ ~Opened(s) => s.lifetime = 0
    /\ x.kind = "REFRESH" /\ x.msn = Initiator!NextMsn(s.msn)
    /\ x.lifetime = s.lifetime
    /\ t.state = s.state /\ t.last_configure = s.last_configure
    /\ t.lifetime = s.lifetime /\ t.msn = x.msn /\ t.last_refresh = x
    /\ t.refresh_timer = FALSE

(* What a new REFRESH does, whatever the base. *)
LEMMA GoingGrows ==
    ASSUME NEW b \in Msns, NEW w \in 0 .. 1, NEW s, NEW t,
           NEW io \in Seq(Msg), NEW f, NEW tr \in Seq(Msg), NEW r,
           NEW ro \in Seq(Msg), NEW ti \in Seq(Msg),
           f.state # "CLOSE" => f.msn \in Msns,
           r.state # "CLOSE" => r.msn \in Msns, s.msn \in Msns,
           Pipe(b, w, io, f, tr, r), All(io, Asking), All(tr, Teardowns(b)),
           \A m \in Range(ro) \cup Range(ti) :
              m \in Msg /\ (Granted(m) => Offset(b, m.msn) <= 1),
           Offset(b, s.msn) = w,
           NEW x \in Msg, Refreshes(s, x, t), Meters(t), t.lifetime > 0
    PROVE  OnPath(b, w + 1, t, Append(io, x), f, tr, r, ro, ti)
  <1> USE DEF Refreshes
  <1>1. Offset(b, x.msn) = w + 1
    BY NextOffset
  <1> DEFINE v == w + 1
  <1>2. v \in 0 .. 2 /\ w \in 0 .. 2 /\ w <= v
    OBVIOUS
  <1>3. x \in Asking
    BY DEF Asking, Request
  <1>4. All(Append(io, x), Asking)
    BY <1>3, AllAppend
  <1>5. Pipe(b, v, Append(io, x), f, tr, r)
    <2>1. /\ Offset(b, x.msn) >= w /\ (Live(x) => Offset(b, x.msn) <= v)
          /\ x.kind = "CONFIGURE" => x.msn = b
      BY <1>1, <1>2
    <2> HIDE DEF v
    <2>2. QED
      BY <1>2, <2>1, PipeGrows
  <1>6. Numbers(b, w + 1, t, tr, ro, ti)
    BY <1>1, NumbersGrow
  <1>7. Top(b, Append(io, x), f, tr, r, ro, ti, FALSE)
    BY TopUnseen
  <1>8. (Meters(t) /\ t.refresh_timer) = FALSE
    OBVIOUS
  <1>9. Going(b, w + 1, t, Append(io, x), f, tr, r, ro, ti)
    BY <1>6, <1>7, <1>8 DEF Going
  <1>10. QED
    BY <1>4, <1>5, <1>9 DEF OnPath

LEMMA OnPathRefreshes ==
    ASSUME NEW b \in Msns, NEW w \in 0 .. 2, NEW s, NEW t,
           NEW io \in Seq(Msg), NEW f, NEW tr \in Seq(Msg), NEW r,
           NEW ro \in Seq(Msg), NEW ti \in Seq(Msg),
           f.state # "CLOSE" => f.msn \in Msns,
           r.state # "CLOSE" => r.msn \in Msns, s.msn \in Msns,
           OnPath(b, w, s, io, f, tr, r, ro, ti),
           NEW x \in Msg, Refreshes(s, x, t)
    PROVE  \E c \in Msns, v \in 0 .. 2 :
              OnPath(c, v, t, Append(io, x), f, tr, r, ro, ti)
  <1> USE DEF Refreshes
  <1>1. /\ Pipe(b, w, io, f, tr, r) /\ All(io, Asking)
        /\ \/ Going(b, w, s, io, f, tr, r, ro, ti)
           \/ w = 0 /\ Partly(b, s, io, f, ti)
    BY DEF OnPath
  <1>2. CASE Going(b, w, s, io, f, tr, r, ro, ti)
    <2>1. Numbers(b, w, s, tr, ro, ti) /\ Opened(s) /\ Offset(b, s.msn) = w
      BY <1>2 DEF Going, Numbers
    <2>2. Meters(s) /\ Meters(t)
      BY <2>1 DEF Meters, Opened
    <2>3. t.lifetime > 0
      BY <2>1, <2>2 DEF Numbers
    <2>4. CASE w # 2
      <3>1. w \in 0 .. 1
        BY <2>4
      <3>2. All(tr, Teardowns(b))
        BY <2>1 DEF Numbers
      <3>3. ASSUME NEW m \in Range(ro) \cup Range(ti)
            PROVE  m \in Msg /\ (Granted(m) => Offset(b, m.msn) <= 1)
        <4>1. m \in ByNr(b, w, s)
          BY <2>1 DEF Numbers, All, ByNf
        <4>2. m \in Msg /\ Offset(b, m.msn) \in Nat
          BY <4>1, MsgOffset DEF ByNr
        <4>3. QED
          BY <3>1, <4>1, <4>2 DEF ByNr
      <3>4. OnPath(b, w + 1, t, Append(io, x), f, tr, r, ro, ti)
        BY <1>1, <2>1, <2>2, <2>3, <3>1, <3>2, <3>3, GoingGrows
      <3>5. w + 1 \in 0 .. 2
        BY <3>1
      <3>6. QED
        BY <3>4, <3>5
    <2>5. CASE w = 2
      <3> DEFINE c == s.msn
      <3>1. Top(b, io, f, tr, r, ro, ti, Meters(s) /\ s.refresh_timer)
        BY <1>2, <2>5 DEF Going
      <3>2. (Meters(s) /\ s.refresh_timer) = TRUE
        BY <2>2
      <3>3. Top(b, io, f, tr, r, ro, ti, TRUE)
        BY <3>1, <3>2
      <3>4. /\ NoneOlder(b, io, f, tr, r) /\ All(ro, GrantNotBehind(b))
            /\ All(ti, GrantNotBehind(b))
        BY <3>3 DEF Top, InOrder, Seen
      <3>5. c \in Msns /\ Offset(b, c) = 2 /\ Offset(c, c) = 0
        BY <2>1, <2>5, OffsetFacts
      <3>6. Pipe(b, 2, io, f, tr, r) /\ Numbers(b, 2, s, tr, ro, ti)
        BY <1>1, <2>1, <2>5
      <3>7. Pipe(c, 0, io, f, tr, r)
        BY <3>4, <3>5, <3>6, PipeMovesOn
      <3>8. /\ All(tr, Teardowns(c))
            /\ \A m \in Range(ro) \cup Range(ti) :
                  m \in Msg /\ (Granted(m) => Offset(c, m.msn) = 0)
        BY <2>2, <3>4, <3>6, NumbersMoveOn
      <3>9. \A m \in Range(ro) \cup Range(ti) :
               m \in Msg /\ (Granted(m) => Offset(c, m.msn) <= 1)
        BY <3>8
      <3>10. OnPath(c, 0 + 1, t, Append(io, x), f, tr, r, ro, ti)
        <4>1. 0 \in 0 .. 1
          OBVIOUS
        <4> HIDE DEF c, Refreshes
        <4>2. s.msn = c
          BY DEF c
        <4>3. QED
          BY <1>1, <2>2, <2>3, <3>5, <3>7, <3>8, <3>9, <4>1, <4>2, GoingGrows
      <3>11. 0 + 1 \in 0 .. 2
        OBVIOUS
      <3> HIDE DEF c
      <3>12. QED
        BY <3>5, <3>10, <3>11
    <2>6. QED
      BY <2>4, <2>5
  <1>3. CASE w = 0 /\ Partly(b, s, io, f, ti)
    <2>1. ~Opened(s) /\ ~Opened(t) /\ x.lifetime = 0
      BY <1>3 DEF Partly, Opened
    <2>2. x \in Asking /\ ~Live(x) /\ Offset(b, x.msn) >= 0
      BY <2>1, MsgOffset DEF Asking, Request, Live
    <2>3. Pipe(b, w, Append(io, x), f, tr, r)
      <3>1. /\ w <= w /\ Offset(b, x.msn) >= w
            /\ Live(x) => Offset(b, x.msn) <= w
            /\ x.kind = "CONFIGURE" => x.msn = b
        BY <1>3, <2>2
      <3>2. Pipe(b, w, io, f, tr, r)
        BY <1>1
      <3>3. QED
        BY <3>1, <3>2, PipeGrows
    <2>4. All(Append(io, x), Asking)
      BY <1>1, <2>2, AllAppend
    <2>5. Partly(b, t, Append(io, x), f, ti)
      <3>1. Offset(b, s.msn) = 1 => Offset(b, x.msn) = 2
        BY NextOffset
      <3>2. /\ Follows(Append(io, x), NoConfigure, NoConfigure)
            /\ All(Append(io, x), Ending)
            /\ f.refresh_message # Initiator!NoMsg =>
                  All(Append(io, x), NoConfigure) /\ f.lifetime = 0
            /\ Ended(io, f) => Ended(Append(io, x), f)
        BY <1>3, <2>1, PartlyGrows
      <3>3. /\ \/ Offset(b, t.msn) = 2 /\ t.last_refresh.msn = t.msn
               \/ Ended(Append(io, x), f)
            /\ ~(t.state = "METERING" /\ t.refresh_timer)
        BY <1>3, <3>1, <3>2 DEF Partly
      <3>4. All(ti, GrantsOf(b)) \/ Ended(Append(io, x), f)
        BY <1>3, <3>2 DEF Partly
      <3>5. QED
        BY <2>1, <3>2, <3>3, <3>4 DEF Partly
    <2>6. QED
      BY <1>3, <2>3, <2>4, <2>5 DEF OnPath
  <1>4. QED
    BY <1>1, <1>2, <1>3

(* The path granted the CONFIGURE, and every object was installed. *)
LEMMA OnPathInstalls ==
    ASSUME NEW b \in Msns, NEW w \in 0 .. 2, NEW s, NEW t,
           NEW io, NEW f, NEW tr \in Seq(Msg), NEW r,
           NEW ro \in Seq(Msg), NEW ti \in Seq(Msg),
           OnPath(b, w, s, io, f, tr, r, ro, ti), Waits(s), s.msn \in Msns,
           ti # <<>>, Granted(Head(ti)), Head(ti).msn = s.last_configure.msn,
           t.state = "METERING", t.msn = s.msn, t.lifetime = Head(ti).lifetime,
           t.last_configure = s.last_configure, t.last_refresh = Initiator!NoMsg
    PROVE  OnPath(b, w, t, io, f, tr, r, ro, ti)
  <1> DEFINE m == Head(ti)
  <1>1. /\ Pipe(b, w, io, f, tr, r) /\ All(io, Asking)
        /\ Going(b, w, s, io, f, tr, r, ro, ti)
    BY DEF OnPath, Waits, Partly
  <1>2. Numbers(b, w, s, tr, ro, ti) /\ w = 0 /\ s.last_configure.msn = s.msn
    BY <1>1 DEF Going, Numbers
  <1>3. m \in ByNf(b, w, s) /\ m.msn = b
    BY <1>2, AllTail DEF Numbers, ByNf
  <1>4. t.lifetime > 0
    BY <1>3 DEF ByNf, ByNr
  <1>5. Opened(t) /\ ~Waits(t)
    BY DEF Opened, Waits
  <1>6. All(ro, ByNr(b, w, t)) /\ All(ti, ByNf(b, w, t))
    BY <1>2, <1>5 DEF Numbers, All, ByNf, ByNr
  <1>7. Numbers(b, w, t, tr, ro, ti)
    BY <1>2, <1>4, <1>5, <1>6 DEF Numbers
  <1>8. QED
    BY <1>1, <1>2, <1>7 DEF Going, OnPath

(* The path granted the CONFIGURE, but not every object was installed. *)
LEMMA OnPathParts ==
    ASSUME NEW b \in Msns, NEW w \in 0 .. 2, NEW s, NEW t,
           NEW io \in Seq(Msg), NEW f, NEW tr \in Seq(Msg), NEW r,
           NEW ro \in Seq(Msg), NEW ti \in Seq(Msg), s.msn \in Msns,
           f.state # "CLOSE" => f.msn \in Msns,
           r.state # "CLOSE" => r.msn \in Msns,
           OnPath(b, w, s, io, f, tr, r, ro, ti), Waits(s),
           \A m \in Range(io) : m.kind = "CONFIGURE",
           f.refresh_message = Initiator!NoMsg,
           NEW x \in Msg, x.kind = "REFRESH", x.lifetime = 0,
           x.msn = Initiator!NextMsn(s.msn), t.msn = x.msn,
           t.last_configure = Initiator!NoMsg,
           t.last_refresh = Initiator!NoMsg
    PROVE  OnPath(b, w, t, Append(io, x), f, tr, r, ro, ti)
  <1>1. /\ Pipe(b, w, io, f, tr, r) /\ All(io, Asking)
        /\ Going(b, w, s, io, f, tr, r, ro, ti)
    BY DEF OnPath, Waits, Partly
  <1>2. Numbers(b, w, s, tr, ro, ti) /\ w = 0 /\ Offset(b, s.msn) = 0
    BY <1>1 DEF Going, Numbers
  <1>3. Offset(b, x.msn) = 1
    BY <1>2, NextOffset
  <1>4. x \in Asking /\ ~Live(x) /\ x \in NoConfigure /\ x \in Ending
    BY DEF Asking, Request, Live, NoConfigure, Ending
  <1>5. Pipe(b, w, Append(io, x), f, tr, r)
    <2>1. /\ w <= w /\ Offset(b, x.msn) >= w
          /\ Live(x) => Offset(b, x.msn) <= w
          /\ x.kind = "CONFIGURE" => x.msn = b
      BY <1>2, <1>3, <1>4
    <2>2. Pipe(b, w, io, f, tr, r)
      BY <1>1
    <2>3. QED
      BY <2>1, <2>2, PipeGrows
  <1>6. /\ All(Append(io, x), Asking)
        /\ All(Append(io, x), Ending)
    <2>1. All(io, Ending)
      <3>1. \A m \in Range(io) : m \in Msg
        BY <1>1 DEF All, Asking
      <3>2. QED
        BY <3>1 DEF All, Ending
    <2>2. QED
      BY <1>1, <1>4, <2>1, AllAppend
  <1>7. Follows(Append(io, x), NoConfigure, NoConfigure)
    <2>1. \A i \in 1 .. Len(io) : io[i] \in Range(io)
      BY DEF Range
    <2>2. Follows(io, NoConfigure, NoConfigure)
      BY <2>1 DEF Follows, NoConfigure
    <2>3. QED
      BY <1>4, <2>2, FollowsAppend
  <1>8. ~Opened(t) /\ Initiator!NoMsg.kind = "NONE"
    BY DEF Opened, Initiator!NoMsg
  <1>9. All(ti, GrantsOf(b))
    BY <1>2 DEF Numbers, All, ByNf, ByNr, GrantsOf
  <1>10. Partly(b, t, Append(io, x), f, ti)
    BY <1>3, <1>6, <1>7, <1>8, <1>9 DEF Partly
  <1>11. QED
    BY <1>2, <1>5, <1>6, <1>10 DEF OnPath

(* The path granted the last REFRESH. *)
LEMMA OnPathConfirms ==
    ASSUME NEW b \in Msns, NEW w \in 0 .. 2, NEW s, NEW t,
           NEW io, NEW f, NEW tr \in Seq(Msg), NEW r,
           NEW ro \in Seq(Msg), NEW ti \in Seq(Msg), s.msn \in Msns,
           s.refresh_timer \in BOOLEAN,
           OnPath(b, w, s, io, f, tr, r, ro, ti), s.state = "METERING",
           ti # <<>>, Granted(Head(ti)), s.last_refresh # Initiator!NoMsg,
           Head(ti).msn = s.last_refresh.msn,
           t.state = s.state, t.msn = s.msn, t.lifetime = s.lifetime,
           t.last_configure = s.last_configure, t.last_refresh = s.last_refresh,
           t.refresh_timer = TRUE
    PROVE  OnPath(b, w, t, io, f, tr, r, ro, Tail(ti))
  <1> DEFINE m == Head(ti)
  <1>1. /\ Pipe(b, w, io, f, tr, r) /\ All(io, Asking)
        /\ \/ Going(b, w, s, io, f, tr, r, ro, ti)
           \/ w = 0 /\ Partly(b, s, io, f, ti)
    BY DEF OnPath
  <1>2. m \in Msg
    BY RangeTail
  <1>3. /\ Opened(t) = Opened(s) /\ Waits(t) = Waits(s)
        /\ Meters(t) = Meters(s)
    BY DEF Opened, Waits, Meters
  <1>4. CASE Going(b, w, s, io, f, tr, r, ro, ti)
    <2>1. Numbers(b, w, s, tr, ro, ti)
      BY <1>4 DEF Going
    <2>2. Meters(s)
      BY <2>1 DEF Numbers, Meters
    <2>3. m.msn = s.msn /\ Offset(b, m.msn) = w
      BY <2>1, <2>2 DEF Numbers
    <2>4. Numbers(b, w, t, tr, ro, Tail(ti))
      <3>1. All(Tail(ti), ByNf(b, w, s))
        BY <2>1, AllTail DEF Numbers
      <3>2. All(ro, ByNr(b, w, t)) /\ All(Tail(ti), ByNf(b, w, t))
        BY <1>3, <2>1, <3>1 DEF Numbers, ByNf, ByNr
      <3>3. QED
        BY <1>3, <2>1, <3>2 DEF Numbers
    <2>5. ASSUME w = 2
          PROVE  Top(b, io, f, tr, r, ro, Tail(ti), TRUE)
      <3> DEFINE answered == Meters(s) /\ s.refresh_timer
      <3>1. Top(b, io, f, tr, r, ro, ti, answered)
        BY <1>4, <2>5 DEF Going
      <3>2. m \in GrantAhead(b)
        BY <1>2, <2>3, <2>5 DEF GrantAhead
      <3>3. answered \in BOOLEAN
        BY DEF Meters
      <3> HIDE DEF answered
      <3>4. QED
        BY <3>1, <3>2, <3>3, TopAnswered
    <2>6. (Meters(t) /\ t.refresh_timer) = TRUE
      BY <1>3, <2>2
    <2>7. Going(b, w, t, io, f, tr, r, ro, Tail(ti))
      BY <2>4, <2>5, <2>6 DEF Going
    <2>8. QED
      BY <1>1, <2>7 DEF OnPath
  <1>5. CASE w = 0 /\ Partly(b, s, io, f, ti)
    <2>1. Ended(io, f)
      <3>1. CASE Offset(b, s.msn) = 2 /\ s.last_refresh.msn = s.msn
        <4>1. m.msn # b
          BY <3>1, OffsetFacts
        <4>2. m \notin GrantsOf(b)
          BY <4>1 DEF GrantsOf
        <4>3. ~All(ti, GrantsOf(b))
          BY <4>2, AllTail
        <4>4. QED
          BY <1>5, <4>3 DEF Partly
      <3>2. QED
        BY <1>5, <3>1 DEF Partly
    <2>2. Partly(b, t, io, f, Tail(ti))
      BY <1>3, <1>5, <2>1 DEF Partly
    <2>3. QED
      BY <1>1, <1>5, <2>2 DEF OnPath
  <1>6. QED
    BY <1>1, <1>4, <1>5

(***************************************************************************)
(* The steps of the path.                                                  *)
(***************************************************************************)
LEMMA PathTypes ==
    ASSUME SessionsInv
    PROVE  /\ ni_out \in Seq(Msg) /\ nr_out \in Seq(Msg)
           /\ to_nr \in Seq(Msg) /\ to_ni \in Seq(Msg)
           /\ ni.msn \in Msns /\ nf.msn \in Msns /\ nr.msn \in Msns
           /\ ni.refresh_timer \in BOOLEAN
           /\ nf.configure_message \in Msg /\ nf.refresh_message \in Msg
           /\ ni.last_configure \in Msg /\ ni.last_refresh \in Msg
  <1>1. /\ ni \in Initiator!NiSession /\ nf \in Forwarder!NfSession
        /\ nr \in Responder!NrSession
    BY SessionTypes
  <1>2. /\ ni.msn \in Msns /\ ni.refresh_timer \in BOOLEAN
        /\ ni.last_configure \in Msg /\ ni.last_refresh \in Msg
    BY <1>1 DEF Initiator!NiSession, Msns, Msg
  <1>3. Forwarder!Msns = Msns /\ Responder!Msns = Msns
    BY DEF Msns, Initiator!Msns, Forwarder!Msns, Responder!Msns,
           Initiator!MsnMod, Forwarder!MsnMod, Responder!MsnMod
  <1>4. /\ nf.msn \in Msns /\ nf.configure_message \in Msg
        /\ nf.refresh_message \in Msg
    BY <1>1, <1>3, SameMessage DEF Forwarder!NfSession, Msg
  <1>5. nr.msn \in Msns
    BY <1>1, <1>3 DEF Responder!NrSession
  <1>6. QED
    BY <1>2, <1>4, <1>5, SessionsMessages DEF Msg

LEMMA StepQuiet ==
    ASSUME SessionsInv, MsnInv, NEW e \in Errors, ni' = ni,
           Shrinks(ni_out, ni_out'), Settles(nf, nf'),
           Moves(to_nr, to_nr', e), Moves(nr_out, nr_out', e),
           Moves(to_ni, to_ni', e),
           nr'.state = "CLOSE" \/ (nr.state # "CLOSE" /\ nr'.msn = nr.msn)
    PROVE  MsnInv'
  <1>1. PICK b \in Msns, w \in 0 .. 2 :
           OnPath(b, w, ni, ni_out, nf, to_nr, nr, nr_out, to_ni)
    BY DEF MsnInv
  <1>2. OnPath(b, w, ni, ni_out', nf', to_nr', nr', nr_out', to_ni')
    <2>1. /\ ni_out \in Seq(Msg) /\ nr_out \in Seq(Msg)
          /\ to_nr \in Seq(Msg) /\ to_ni \in Seq(Msg)
          /\ ni.refresh_timer \in BOOLEAN
      BY PathTypes
    <2>2. QED
      BY <1>1, <2>1, OnPathQuiet
  <1>3. QED
    BY <1>2 DEF MsnInv

LEMMA SomeError == \E e : e \in Errors
  <1> DEFINE e == Responder!CreateResponse(Initiator!NoMsg)
  <1>1. Initiator!NoMsg \in Msg
    BY LifetimeBounds, MsnsAre
    DEF Initiator!NoMsg, Msg, Msns, Initiator!Message, Initiator!Lifetimes,
        Initiator!Smes
  <1>2. e \in Msg /\ e.kind = "RESPONSE" /\ e.ok = FALSE
    BY <1>1, ResponseTypes DEF Msg
  <1>3. QED
    BY <1>2 DEF Errors

LEMMA StepMute ==
    ASSUME SessionsInv, MsnInv, ni' = ni,
           Shrinks(ni_out, ni_out'), Settles(nf, nf'),
           Shrinks(to_nr, to_nr'), Shrinks(nr_out, nr_out'),
           Shrinks(to_ni, to_ni'),
           nr'.state = "CLOSE" \/ (nr.state # "CLOSE" /\ nr'.msn = nr.msn)
    PROVE  MsnInv'
  <1>1. PICK e : e \in Errors
    BY SomeError
  <1>2. /\ Moves(to_nr, to_nr', e) /\ Moves(nr_out, nr_out', e)
        /\ Moves(to_ni, to_ni', e)
    BY DEF Shrinks, Moves
  <1>3. QED
    BY <1>1, <1>2, StepQuiet

LEMMA Stays == \A f, r : /\ Settles(f, f)
                         /\ r.state = "CLOSE" \/ (r.state # "CLOSE" /\ r.msn = r.msn)
  BY DEF Settles

LEMMA LoseMsn ==
    ASSUME SessionsInv, MsnInv, Lose
    PROVE  MsnInv'
  <1>1. ni' = ni /\ nf' = nf /\ nr' = nr
    BY DEF Lose
  <1>2. /\ Shrinks(ni_out, ni_out') /\ Shrinks(to_nr, to_nr')
        /\ Shrinks(nr_out, nr_out') /\ Shrinks(to_ni, to_ni')
    BY DEF Lose, Shrinks
  <1>3. Settles(nf, nf')
    BY <1>1, Stays
  <1>4. nr'.state = "CLOSE" \/ (nr.state # "CLOSE" /\ nr'.msn = nr.msn)
    BY <1>1
  <1>5. QED
    BY <1>1, <1>2, <1>3, <1>4, StepMute

LEMMA NrTimerMsn ==
    ASSUME SessionsInv, MsnInv, NrTimer
    PROVE  MsnInv'
  <1>1. Responder!NrStateTimeout
        /\ UNCHANGED <<ni, ni_out, nf, to_nr, to_ni>>
    BY SameResponder DEF NrTimer
  <1>2. nr'.state = "CLOSE" /\ nr_out' = nr_out
    BY <1>1, NrClosedFacts DEF Responder!NrStateTimeout
  <1>3. /\ Shrinks(ni_out, ni_out') /\ Shrinks(to_nr, to_nr')
        /\ Shrinks(nr_out, nr_out') /\ Shrinks(to_ni, to_ni')
    BY <1>1, <1>2 DEF Shrinks
  <1>4. Settles(nf, nf')
    BY <1>1, Stays
  <1>5. QED
    BY <1>1, <1>2, <1>3, <1>4, StepMute

(* The NF refuses, or gives up. *)
LEMMA NfClosedSettles ==
    ASSUME NEW f, NEW s
    PROVE  Settles(f, Forwarder!NfClosed(s))
  <1> DEFINE c == Forwarder!NfClosed(s)
  <1>1. c.state = "CLOSE" /\ c.refresh_message = Initiator!NoMsg
    BY DEF Forwarder!NfClosed, Forwarder!NewNfSession, Forwarder!NoMsg,
           Initiator!NoMsg
  <1> HIDE DEF c
  <1>2. Settles(f, c)
    BY <1>1 DEF Settles
  <1>3. QED
    BY <1>2 DEF c

LEMMA NfRefuses ==
    ASSUME SessionsInv, MsnInv, NEW e \in Errors, ni' = ni, nr' = nr,
           Shrinks(ni_out, ni_out'), Shrinks(nr_out, nr_out'),
           Forwarder!NfSend(e), NEW s, nf' = Forwarder!NfClosed(s)
    PROVE  MsnInv'
  <1>1. Moves(to_nr, to_nr', e) /\ Moves(to_ni, to_ni', e)
    BY DEF Forwarder!NfSend, Moves
  <1>2. Moves(nr_out, nr_out', e)
    BY DEF Shrinks, Moves
  <1>3. Settles(nf, nf')
    BY NfClosedSettles
  <1>4. nr'.state = "CLOSE" \/ (nr.state # "CLOSE" /\ nr'.msn = nr.msn)
    OBVIOUS
  <1>5. QED
    BY <1>1, <1>2, <1>3, <1>4, StepQuiet

LEMMA RefusalIsError ==
    ASSUME NEW m \in Msg
    PROVE  Forwarder!CreateResponse(m) \in Errors
  <1> DEFINE r == Forwarder!CreateResponse(m)
  <1>1. r \in Msg
    BY RefusalHarmless DEF Msg
  <1>2. r.kind = "RESPONSE" /\ r.ok = FALSE
    BY DEF Forwarder!CreateResponse
  <1>3. QED
    BY <1>1, <1>2 DEF Errors

(* The NF says nothing. *)
LEMMA NfMute ==
    ASSUME SessionsInv, MsnInv, ni' = ni, nr' = nr,
           Shrinks(ni_out, ni_out'), Shrinks(nr_out, nr_out'),
           to_nr' = to_nr, to_ni' = to_ni, Settles(nf, nf')
    PROVE  MsnInv'
  <1>1. Shrinks(to_nr, to_nr') /\ Shrinks(to_ni, to_ni')
    BY DEF Shrinks
  <1>2. nr'.state = "CLOSE" \/ (nr.state # "CLOSE" /\ nr'.msn = nr.msn)
    OBVIOUS
  <1>3. QED
    BY <1>1, <1>2, StepMute

LEMMA NfEventMsn ==
    ASSUME SessionsInv, MsnInv, NfEvent
    PROVE  MsnInv'
  <1>1. /\ Forwarder!NfTimeout \/ Forwarder!NfNotification
        /\ UNCHANGED <<ni, ni_out, nr, nr_out>>
    BY SameForwarder DEF NfEvent
  <1>2. nf \in Forwarder!NfSession
    BY SessionTypes
  <1>3. Shrinks(ni_out, ni_out') /\ Shrinks(nr_out, nr_out')
    BY <1>1 DEF Shrinks
  <1>4. ASSUME NEW m \in Msg, NEW s,
               Forwarder!NfSend(Forwarder!CreateResponse(m)),
               nf' = Forwarder!NfClosed(s)
        PROVE  MsnInv'
    BY <1>1, <1>3, <1>4, RefusalIsError, NfRefuses
  <1>5. ASSUME NEW s, nf' = Forwarder!NfClosed(s), Forwarder!NfSilent
        PROVE  MsnInv'
    BY <1>1, <1>3, <1>5, NfClosedSettles, NfMute DEF Forwarder!NfSilent
  <1>6. ASSUME nf'.state = nf.state, nf'.lifetime = nf.lifetime,
               nf'.configure_message = nf.configure_message,
               nf'.refresh_message = nf.refresh_message, nf'.msn = nf.msn,
               Forwarder!NfSilent
        PROVE  MsnInv'
    <2>1. Settles(nf, nf')
      BY <1>6 DEF Settles
    <2>2. QED
      BY <1>1, <1>3, <1>6, <2>1, NfMute DEF Forwarder!NfSilent
  <1>7. CASE Forwarder!NfPendingUnreachable \/ Forwarder!NfPendingStateTimer
    BY <1>4, <1>7, PathTypes
    DEF Forwarder!NfPendingUnreachable, Forwarder!NfPendingStateTimer
  <1>8. CASE Forwarder!NfMeteringUnreachable \/ Forwarder!NfMeteringResponseTimer
    <2>1. Forwarder!NfNoAnswer
      BY <1>8 DEF Forwarder!NfMeteringUnreachable,
                  Forwarder!NfMeteringResponseTimer
    <2>2. CASE nf.refresh_message = Forwarder!NoMsg
      <3>1. /\ nf' = [Forwarder!NfRemoveRules(nf) EXCEPT
                        !.state_timer = FALSE, !.abort = "no_next_node"]
            /\ Forwarder!NfSilent
        BY <2>1, <2>2 DEF Forwarder!NfNoAnswer
      <3>2. /\ nf'.state = nf.state /\ nf'.lifetime = nf.lifetime
            /\ nf'.configure_message = nf.configure_message
            /\ nf'.refresh_message = nf.refresh_message /\ nf'.msn = nf.msn
        BY <1>2, <3>1 DEF Forwarder!NfRemoveRules, Forwarder!NfSession
      <3>3. QED
        BY <1>6, <3>1, <3>2
    <2>3. CASE nf.refresh_message # Forwarder!NoMsg
      BY <1>4, <2>1, <2>3, PathTypes DEF Forwarder!NfNoAnswer
    <2>4. QED
      BY <2>2, <2>3
  <1>9. CASE Forwarder!NfMeteringStateTimer \/ Forwarder!NfMeteringRouteChanged
    BY <1>5, <1>9
    DEF Forwarder!NfMeteringStateTimer, Forwarder!NfMeteringRouteChanged
  <1>10. CASE Forwarder!NfOutdatedTimer
    <2>1. /\ Forwarder!NfSilent
          /\ \/ nf' = [nf EXCEPT !.abort = "outdated_timer"]
             \/ \E more \in BOOLEAN : nf' = [nf EXCEPT !.outdated = more]
      BY <1>10 DEF Forwarder!NfOutdatedTimer, Forwarder!NfAbort
    <2>2. /\ nf'.state = nf.state /\ nf'.lifetime = nf.lifetime
          /\ nf'.configure_message = nf.configure_message
          /\ nf'.refresh_message = nf.refresh_message /\ nf'.msn = nf.msn
      BY <1>2, <2>1 DEF Forwarder!NfSession
    <2>3. QED
      BY <1>6, <2>1, <2>2
  <1>11. QED
    BY <1>1, <1>7, <1>8, <1>9, <1>10
    DEF Forwarder!NfTimeout, Forwarder!NfStateTimeout, Forwarder!NfNotification

(* What is known of a request the NF is about to take over. *)
LEMMA HeadAsks ==
    ASSUME SessionsInv, PathInv, NEW b \in Msns, NEW w \in 0 .. 2,
           OnPath(b, w, ni, ni_out, nf, to_nr, nr, nr_out, to_ni),
           ni_out # <<>>
    PROVE  LET m == Head(ni_out) IN
           /\ m \in Msg /\ Request(m)
           /\ nf.state = "PENDING" /\ m.kind = "CONFIGURE" =>
                 m.msn = nf.configure_message.msn /\ m.msn = nf.msn
           /\ Opened(ni) /\ m.kind = "REFRESH" => m.lifetime > 0
           /\ nf.state # "CLOSE" => NfMaxLifetime > 0
  <1> DEFINE m == Head(ni_out)
  <1>1. m \in Msg /\ m \in Range(ni_out)
    BY PathTypes, RangeTail
  <1>2. SentOK(m, ni)
    BY <1>1 DEF PathInv
  <1> HIDE DEF m
  <1>3. /\ Pipe(b, w, ni_out, nf, to_nr, nr) /\ m \in Asking /\ m \in Within(b, w)
        /\ \/ ni.state = "CLOSE"
           \/ Going(b, w, ni, ni_out, nf, to_nr, nr, nr_out, to_ni)
           \/ w = 0 /\ Partly(b, ni, ni_out, nf, to_ni)
    BY <1>1 DEF OnPath, All, Pipe
  <1>4. /\ Request(m)
        /\ nf.state = "PENDING" /\ m.kind = "CONFIGURE" =>
              m.msn = nf.configure_message.msn /\ m.msn = nf.msn
        /\ nf.state # "CLOSE" => NfMaxLifetime > 0
    BY <1>3 DEF Asking, Within, Pipe
  <1>5. Meters(ni) => ni.lifetime > 0
    BY <1>3 DEF Going, Numbers, Partly, Meters
  <1>6. ni.last_configure.kind = "CONFIGURE" /\ m.kind = "REFRESH"
           => Meters(ni) /\ m.lifetime = ni.lifetime
    BY <1>2 DEF SentOK, Opened
  <1>7. QED
    BY <1>1, <1>4, <1>5, <1>6 DEF m, Opened

(* The NF takes a request over. *)
LEMMA StepPasses ==
    ASSUME SessionsInv, PathInv, MsnInv, ni' = ni, nr' = nr, nr_out' = nr_out,
           ni_out # <<>>, ni_out' = Tail(ni_out), NEW a \in Msg,
           Forwarder!NfSend(a), a.kind = Head(ni_out).kind,
           a.msn = Head(ni_out).msn, Live(a) => Live(Head(ni_out)),
           a.kind = "REFRESH" => a.lifetime = Head(ni_out).lifetime,
           nf'.state # "CLOSE", nf.state # "CLOSE" \/ NfMaxLifetime > 0,
           nf'.state = "PENDING" =>
              /\ Head(ni_out).kind = "CONFIGURE"
              /\ nf'.configure_message.msn = Head(ni_out).msn,
           \/ Live(Head(ni_out)) /\ nf'.msn = Head(ni_out).msn
           \/ ~Live(Head(ni_out)) /\ nf.state # "CLOSE" /\ nf'.msn = nf.msn,
           \/ Head(ni_out).kind = "CONFIGURE"
              /\ nf'.refresh_message = nf.refresh_message
           \/ /\ Head(ni_out).kind = "REFRESH" /\ nf.state # "CLOSE"
              /\ Head(ni_out).lifetime = 0 => nf'.lifetime = 0
    PROVE  MsnInv'
  <1>1. PICK b \in Msns, w \in 0 .. 2 :
           OnPath(b, w, ni, ni_out, nf, to_nr, nr, nr_out, to_ni)
    BY DEF MsnInv
  <1>2. /\ Opened(ni) /\ a.kind = "REFRESH" => a.lifetime > 0
        /\ NfMaxLifetime > 0
    BY <1>1, HeadAsks
  <1>3. \/ to_nr' = Append(to_nr, a) /\ to_ni' = to_ni
        \/ to_nr' = to_nr /\ to_ni' = Append(to_ni, a)
    BY DEF Forwarder!NfSend
  <1>4. /\ ni_out \in Seq(Msg) /\ nr_out \in Seq(Msg)
        /\ to_nr \in Seq(Msg) /\ to_ni \in Seq(Msg)
        /\ ni.refresh_timer \in BOOLEAN
        /\ nf.state # "CLOSE" => nf.msn \in Msns
    BY PathTypes
  <1>5. OnPath(b, w, ni, Tail(ni_out), nf', to_nr', nr, nr_out, to_ni')
    BY <1>1, <1>2, <1>3, <1>4, OnPathPasses
  <1>6. QED
    BY <1>5 DEF MsnInv

(* The NF opens the session. *)
LEMMA NfConfigureMsn ==
    ASSUME SessionsInv, PathInv, MsnInv, ni' = ni, nr' = nr, nr_out' = nr_out,
           ni_out # <<>>, ni_out' = Tail(ni_out),
           Forwarder!NfConfigure(Head(ni_out), meters.nf, TRUE)
    PROVE  MsnInv'
  <1> DEFINE m == Head(ni_out)
             taken == Forwarder!Taken("forwarder", m.sme, m.objs, meters.nf)
             s == [nf EXCEPT !.lifetime = Forwarder!NfLifetime(m), !.msn = m.msn]
             t == [s EXCEPT !.state = "PENDING", !.configure_message = m,
                            !.rule = @ \cup taken]
             a == Forwarder!NfBuildConfigure(s, m, taken)
  <1>1. /\ Forwarder!NfSend(a) /\ nf' = Forwarder!StartStateTimer(t)
        /\ m.kind = "CONFIGURE" /\ Forwarder!NfLifetime(m) > 0
    BY DEF Forwarder!NfConfigure, Forwarder!ProcessStateClose
  <1>2. /\ nf \in Forwarder!NfSession /\ m \in Initiator!Message
        /\ m \in Forwarder!Message
    BY SessionTypes, SessionsMessages, RangeTail, SameMessage
  <1>3. Forwarder!NfLifetime(m) \in 0 .. MaxLifetime
    BY <1>2, Bounds, LifetimeBounds DEF Forwarder!NfLifetime, Forwarder!Min2
  <1>4. NfMaxLifetime > 0
    BY <1>1, <1>2, Bounds DEF Forwarder!NfLifetime, Forwarder!Min2
  <1> HIDE DEF m
  <1>5. /\ s \in Forwarder!NfSession
        /\ s.refresh_message = nf.refresh_message /\ s.msn = m.msn
    BY <1>2, <1>3 DEF Forwarder!NfSession, Forwarder!Message, Forwarder!Lifetimes
  <1>6. a \in Msg
    BY <1>2, <1>5, SameMessage, ForwarderAssumptions,
       Forwarder!BuildConfigureType DEF Msg
  <1>7. a.kind = "CONFIGURE" /\ a.msn = m.msn
    BY DEF Forwarder!NfBuildConfigure, Forwarder!Configure
  <1> HIDE DEF s, a, taken
  <1>8. /\ nf'.state = "PENDING" /\ nf'.configure_message = m
        /\ nf'.msn = m.msn /\ nf'.refresh_message = nf.refresh_message
    BY <1>1, <1>5 DEF Forwarder!StartStateTimer, Forwarder!NfSession
  <1>9. Live(m)
    BY <1>1 DEF Live
  <1>10. QED
    BY <1>1, <1>4, <1>6, <1>7, <1>8, <1>9, StepPasses DEF m

LEMMA NfPendingResentMsn ==
    ASSUME SessionsInv, PathInv, MsnInv, ni' = ni, nr' = nr, nr_out' = nr_out,
           ni_out # <<>>, ni_out' = Tail(ni_out),
           Forwarder!NfPendingResent(Head(ni_out))
    PROVE  MsnInv'
  <1> DEFINE m == Head(ni_out)
  <1>1. /\ Forwarder!NfSend(m) /\ m.kind = "CONFIGURE" /\ nf.state = "PENDING"
        /\ nf' = Forwarder!StartStateTimer(nf)
    BY DEF Forwarder!NfPendingResent, Forwarder!NfIn
  <1>2. /\ nf'.state = nf.state /\ nf'.msn = nf.msn
        /\ nf'.configure_message = nf.configure_message
        /\ nf'.refresh_message = nf.refresh_message
    BY <1>1, SessionTypes DEF Forwarder!StartStateTimer, Forwarder!NfSession
  <1>3. /\ m \in Msg /\ m.msn = nf.configure_message.msn /\ m.msn = nf.msn
    BY <1>1, HeadAsks DEF MsnInv
  <1>4. Live(m)
    BY <1>1 DEF Live
  <1>5. QED
    BY <1>1, <1>2, <1>3, <1>4, StepPasses

LEMMA NfRefreshMsn ==
    ASSUME SessionsInv, PathInv, MsnInv, ni' = ni, nr' = nr, nr_out' = nr_out,
           ni_out # <<>>, ni_out' = Tail(ni_out),
           Forwarder!NfRefresh(Head(ni_out))
    PROVE  MsnInv'
  <1> DEFINE m == Head(ni_out)
             l == Forwarder!NfLifetime(m)
  <1>1. /\ Forwarder!NfSend(m) /\ m.kind = "REFRESH" /\ nf.state = "METERING"
        /\ nf' = Forwarder!StartResponseTimer(
                    [nf EXCEPT !.lifetime = l, !.refresh_message = m,
                               !.msn = IF l > 0 THEN m.msn ELSE @])
    BY DEF Forwarder!NfRefresh, Forwarder!NfIn
  <1>2. m \in Msg /\ m.lifetime \in Nat /\ NfMaxLifetime \in Nat
    BY PathTypes, RangeTail, Bounds DEF Msg
  <1>3. NfMaxLifetime > 0
    BY <1>1, HeadAsks DEF MsnInv
  <1>4. l = Min2(m.lifetime, NfMaxLifetime)
    BY DEF Forwarder!NfLifetime, Min2
  <1> HIDE DEF m
  <1>5. (l > 0 <=> m.lifetime > 0) /\ (m.lifetime = 0 => l = 0)
    BY <1>2, <1>3, <1>4 DEF Min2, Forwarder!Min2
  <1> HIDE DEF l
  <1>6. /\ nf'.state = "METERING" /\ nf'.lifetime = l
        /\ nf'.msn = IF l > 0 THEN m.msn ELSE nf.msn
    BY <1>1, SessionTypes DEF Forwarder!StartResponseTimer, Forwarder!NfSession
  <1>7. Live(m) <=> l > 0
    BY <1>1, <1>5 DEF Live
  <1>8. \/ Live(m) /\ nf'.msn = m.msn
        \/ ~Live(m) /\ nf'.msn = nf.msn
    BY <1>6, <1>7
  <1>9. m.lifetime = 0 => nf'.lifetime = 0
    BY <1>5, <1>6
  <1>10. QED
    BY <1>1, <1>2, <1>6, <1>8, <1>9, StepPasses DEF m

LEMMA NfDiscardMsn ==
    ASSUME SessionsInv, MsnInv, ni' = ni, nr' = nr, NEW m,
           Shrinks(ni_out, ni_out'), Shrinks(nr_out, nr_out'),
           \/ Forwarder!NfCloseDiscard(m) \/ Forwarder!NfPendingDiscard(m)
           \/ Forwarder!NfRefreshDuplicate(m) \/ Forwarder!NfMeteringOther(m)
    PROVE  MsnInv'
  <1>1. nf \in Forwarder!NfSession
    BY SessionTypes
  <1>2. /\ to_nr' = to_nr /\ to_ni' = to_ni
        /\ nf' = nf \/ nf' = [nf EXCEPT !.abort = "message"]
    BY DEF Forwarder!NfCloseDiscard, Forwarder!NfPendingDiscard,
       Forwarder!NfRefreshDuplicate, Forwarder!NfMeteringOther,
       Forwarder!NfAbort, Forwarder!NfSilent, Forwarder!nf_vars
  <1>3. /\ nf'.state = nf.state /\ nf'.lifetime = nf.lifetime
        /\ nf'.configure_message = nf.configure_message
        /\ nf'.refresh_message = nf.refresh_message /\ nf'.msn = nf.msn
    BY <1>1, <1>2 DEF Forwarder!NfSession
  <1>4. Settles(nf, nf')
    BY <1>3 DEF Settles
  <1>5. QED
    BY <1>2, <1>4, NfMute

LEMMA DeliverFromNiMsn ==
    ASSUME SessionsInv, PathInv, MsnInv, DeliverFromNi
    PROVE  MsnInv'
  <1> DEFINE m == Head(ni_out)
  <1>1. /\ ni_out # <<>> /\ ni_out' = Tail(ni_out)
        /\ Forwarder!NfReceive(m, meters.nf)
        /\ ni' = ni /\ nr' = nr /\ nr_out' = nr_out
    BY SameForwarder DEF DeliverFromNi
  <1>2. /\ Request(m)
        /\ nf.state = "PENDING" /\ m.kind = "CONFIGURE" =>
              m.msn = nf.configure_message.msn
        /\ m \in Msg /\ nf.configure_message \in Msg
    BY <1>1, HeadAsks, PathTypes DEF MsnInv
  <1>3. Shrinks(ni_out, ni_out') /\ Shrinks(nr_out, nr_out')
    BY <1>1 DEF Shrinks
  <1>4. m.kind # "RESPONSE"
    BY <1>2 DEF Request
  <1>5. ASSUME NEW x PROVE ~Forwarder!IsResponseTo(m, x)
    BY <1>4 DEF Forwarder!IsResponseTo
  <1>6. ~Forwarder!NfPendingReplace(m, meters.nf, TRUE)
    BY <1>2 DEF Forwarder!NfPendingReplace, Forwarder!NfIn
  <1>7. ~Forwarder!NfPendingTerminate(m)
    <2>1. m.msn \in Int
      BY <1>2, MsgOffset, MsnsAre
    <2> HIDE DEF m
    <2>2. ~(m.msn > m.msn)
      BY <2>1
    <2>3. QED
      BY <1>2, <2>2 DEF Forwarder!NfPendingTerminate, Forwarder!NfIn
  <1>8. /\ ~\E result \in SUBSET nf.rule :
              \/ Forwarder!NfPendingSuccess(m, result)
              \/ Forwarder!NfPendingInstallFails(m, result)
        /\ ~Forwarder!NfPendingError(m) /\ ~Forwarder!NfRefreshSuccess(m)
        /\ ~Forwarder!NfRefreshError(m)
    BY <1>5 DEF Forwarder!NfPendingSuccess, Forwarder!NfPendingInstallFails,
       Forwarder!NfPendingError, Forwarder!NfRefreshSuccess,
       Forwarder!NfRefreshError
  <1>9. \/ Forwarder!NfConfigure(m, meters.nf, TRUE)
        \/ Forwarder!NfPendingResent(m) \/ Forwarder!NfRefresh(m)
        \/ \/ Forwarder!NfCloseDiscard(m) \/ Forwarder!NfPendingDiscard(m)
           \/ Forwarder!NfRefreshDuplicate(m) \/ Forwarder!NfMeteringOther(m)
    BY <1>1, <1>6, <1>7, <1>8 DEF Forwarder!NfReceive
  <1>10. QED
    BY <1>1, <1>3, <1>9, NfConfigureMsn, NfPendingResentMsn, NfRefreshMsn,
       NfDiscardMsn

(* The NF hands a grant on. *)
LEMMA StepGrants ==
    ASSUME SessionsInv, PathInv, MsnInv, ni' = ni, nr' = nr, ni_out' = ni_out,
           nr_out # <<>>, nr_out' = Tail(nr_out), Granted(Head(nr_out)),
           Forwarder!NfSend(Head(nr_out)),
           \/ nf'.state = "CLOSE"
           \/ nf.state # "CLOSE" /\ nf'.msn = nf.msn /\ nf'.state # "PENDING",
           \/ nf'.refresh_message = Initiator!NoMsg
           \/ nf'.refresh_message = nf.refresh_message
              /\ nf'.lifetime = nf.lifetime,
           nf.state # "CLOSE",
           \/ nf.state = "PENDING"
              /\ Head(nr_out).msn = nf.configure_message.msn
           \/ /\ nf.refresh_message # Initiator!NoMsg
              /\ nf.lifetime = 0 => nf'.state = "CLOSE"
    PROVE  MsnInv'
  <1> DEFINE m == Head(nr_out)
  <1>1. PICK b \in Msns, w \in 0 .. 2 :
           OnPath(b, w, ni, ni_out, nf, to_nr, nr, nr_out, to_ni)
    BY DEF MsnInv
  <1>2. nf.state = "PENDING" => nf.configure_message.msn = b
    BY <1>1 DEF OnPath, Pipe
  <1>3. nf.refresh_message # Initiator!NoMsg => ~Waits(ni)
    BY DEF PathInv, ForwarderOK
  <1>4. \/ m.msn = b
        \/ /\ ~Waits(ni) /\ nf.refresh_message # Initiator!NoMsg
           /\ nf.lifetime = 0 => nf'.state = "CLOSE"
    BY <1>2, <1>3
  <1>5. \/ to_nr' = Append(to_nr, m) /\ to_ni' = to_ni
        \/ to_nr' = to_nr /\ to_ni' = Append(to_ni, m)
    BY DEF Forwarder!NfSend
  <1>6. /\ ni_out \in Seq(Msg) /\ nr_out \in Seq(Msg)
        /\ to_nr \in Seq(Msg) /\ to_ni \in Seq(Msg)
        /\ ni.refresh_timer \in BOOLEAN
    BY PathTypes
  <1>7. OnPath(b, w, ni, ni_out, nf', to_nr', nr, Tail(nr_out), to_ni')
    BY <1>1, <1>4, <1>5, <1>6, OnPathGrants
  <1>8. QED
    BY <1>7 DEF MsnInv

LEMMA NfPendingSuccessMsn ==
    ASSUME SessionsInv, PathInv, MsnInv, ni' = ni, nr' = nr, ni_out' = ni_out,
           nr_out # <<>>, nr_out' = Tail(nr_out), NEW result,
           Forwarder!NfPendingSuccess(Head(nr_out), result)
    PROVE  MsnInv'
  <1> DEFINE m == Head(nr_out)
  <1>1. /\ Forwarder!NfSend(m) /\ Granted(m) /\ nf.state = "PENDING"
        /\ m.msn = nf.configure_message.msn
        /\ nf' = Forwarder!StartStateTimer(
                    [nf EXCEPT !.state = "METERING", !.rule_keys = result,
                               !.metered = result])
    BY DEF Forwarder!NfPendingSuccess, Forwarder!NfIn,
           Forwarder!IsResponseTo, Granted
  <1>2. /\ nf'.state = "METERING" /\ nf'.msn = nf.msn
        /\ nf'.refresh_message = nf.refresh_message
        /\ nf'.lifetime = nf.lifetime
    BY <1>1, SessionTypes DEF Forwarder!StartStateTimer, Forwarder!NfSession
  <1>3. QED
    BY <1>1, <1>2, StepGrants

LEMMA NfRefreshSuccessMsn ==
    ASSUME SessionsInv, PathInv, MsnInv, ni' = ni, nr' = nr, ni_out' = ni_out,
           nr_out # <<>>, nr_out' = Tail(nr_out),
           Forwarder!NfRefreshSuccess(Head(nr_out))
    PROVE  MsnInv'
  <1> DEFINE m == Head(nr_out)
  <1>1. /\ Forwarder!NfSend(m) /\ Granted(m) /\ nf.state = "METERING"
        /\ nf.refresh_message # Initiator!NoMsg
        /\ nf' = IF nf.lifetime = 0
                 THEN Forwarder!NfClosed(Forwarder!NfRemoveRules(nf))
                 ELSE Forwarder!StartStateTimer(nf)
    BY DEF Forwarder!NfRefreshSuccess, Forwarder!NfIn,
           Forwarder!IsResponseTo, Granted, Forwarder!NoMsg, Initiator!NoMsg
  <1>2. CASE nf.lifetime = 0
    <2>1. nf'.state = "CLOSE" /\ nf'.refresh_message = Initiator!NoMsg
      BY <1>1, <1>2 DEF Forwarder!NfClosed, Forwarder!NewNfSession,
                        Forwarder!NoMsg, Initiator!NoMsg
    <2>2. QED
      BY <1>1, <2>1, StepGrants
  <1>3. CASE nf.lifetime # 0
    <2>1. /\ nf'.state = "METERING" /\ nf'.msn = nf.msn
          /\ nf'.refresh_message = nf.refresh_message
          /\ nf'.lifetime = nf.lifetime
      BY <1>1, <1>3, SessionTypes
      DEF Forwarder!StartStateTimer, Forwarder!NfSession
    <2>2. QED
      BY <1>1, <1>3, <2>1, StepGrants
  <1>4. QED
    BY <1>2, <1>3

(* The NF could not install its share. *)
LEMMA NfPendingInstallFailsMsn ==
    ASSUME SessionsInv, PathInv, MsnInv, ni' = ni, nr' = nr, ni_out' = ni_out,
           nr_out # <<>>, nr_out' = Tail(nr_out), NEW result,
           Forwarder!NfPendingInstallFails(Head(nr_out), result)
    PROVE  MsnInv'
  <1> DEFINE m == Head(nr_out)
             x == Forwarder!Refresh(Forwarder!NextMsn(nf.msn), 0)
             e == Forwarder!CreateResponse(m)
             one == Append(to_nr, x)
             rest == Tail(nr_out)
  <1>1. /\ Forwarder!NfSendBoth(x, e) /\ nf.state = "PENDING"
        /\ \E s : nf' = Forwarder!NfClosed(s)
    BY DEF Forwarder!NfPendingInstallFails, Forwarder!NfIn
  <1>2. /\ m \in Msg /\ ni_out \in Seq(Msg) /\ nr_out \in Seq(Msg)
        /\ to_nr \in Seq(Msg) /\ to_ni \in Seq(Msg)
        /\ ni.refresh_timer \in BOOLEAN /\ rest \in Seq(Msg)
    BY PathTypes, RangeTail
  <1>3. nf.msn \in Forwarder!Msns
    BY SessionTypes DEF Forwarder!NfSession
  <1>4. x \in Msg
    BY <1>3, SameMessage, ForwarderAssumptions, Forwarder!TeardownType DEF Msg
  <1>5. /\ x.kind = "REFRESH" /\ x.lifetime = 0
        /\ x.msn = Initiator!NextMsn(nf.msn)
    BY DEF Forwarder!Refresh, Forwarder!NextMsn, Initiator!NextMsn,
           Forwarder!MsnMod, Initiator!MsnMod
  <1>6. e \in Errors
    BY <1>2, RefusalIsError
  <1>7. nf'.state = "CLOSE" /\ nf'.refresh_message = Initiator!NoMsg
    BY <1>1 DEF Forwarder!NfClosed, Forwarder!NewNfSession,
                Forwarder!NoMsg, Initiator!NoMsg
  <1>8. to_nr \o <<x, e>> = Append(one, e) /\ one \in Seq(Msg)
    <2>1. e \in Msg
      BY <1>6 DEF Errors
    <2> HIDE DEF x, e
    <2>2. QED
      BY <1>2, <1>4, <2>1
  <1> HIDE DEF x, e
  <1>9. /\ to_nr' = one \/ to_nr' = Append(one, e)
        /\ to_ni' = to_ni \/ to_ni' = Append(to_ni, e)
    BY <1>1, <1>8 DEF Forwarder!NfSendBoth
  <1>10. PICK b \in Msns, w \in 0 .. 2 :
            OnPath(b, w, ni, ni_out, nf, to_nr, nr, nr_out, to_ni)
    BY DEF MsnInv
  <1>11. OnPath(b, w, ni, ni_out, nf', Append(to_nr, x), nr, Tail(nr_out), to_ni)
    BY <1>1, <1>2, <1>4, <1>5, <1>7, <1>10, OnPathFails
  <1>12. OnPath(b, w, ni, ni_out, nf', one, nr, rest, to_ni)
    BY <1>11
  <1> HIDE DEF one, rest
  <1>13. /\ Moves(one, to_nr', e) /\ Moves(to_ni, to_ni', e)
         /\ Moves(rest, rest, e)
    BY <1>9 DEF Moves
  <1>14. Shrinks(ni_out, ni_out) /\ Settles(nf', nf')
    BY DEF Shrinks, Settles
  <1>15. nr.state = "CLOSE" \/ (nr.state # "CLOSE" /\ nr.msn = nr.msn)
    OBVIOUS
  <1>16. OnPath(b, w, ni, ni_out, nf', to_nr', nr, rest, to_ni')
    BY <1>2, <1>6, <1>8, <1>12, <1>13, <1>14, <1>15, OnPathQuiet
  <1>17. nr_out' = rest
    BY DEF rest
  <1>18. QED
    BY <1>16, <1>17 DEF MsnInv

LEMMA DeliverFromNrMsn ==
    ASSUME SessionsInv, PathInv, MsnInv, DeliverFromNr
    PROVE  MsnInv'
  <1> DEFINE m == Head(nr_out)
  <1>1. /\ nr_out # <<>> /\ nr_out' = Tail(nr_out)
        /\ Forwarder!NfReceive(m, meters.nf)
        /\ ni' = ni /\ nr' = nr /\ ni_out' = ni_out
    BY SameForwarder DEF DeliverFromNr
  <1>2. m \in Msg /\ m.kind = "RESPONSE"
    <2>1. m \in Msg /\ m \in Range(nr_out)
      BY <1>1, PathTypes, RangeTail
    <2> HIDE DEF m
    <2>2. QED
      BY <2>1 DEF PathInv
  <1>3. Shrinks(ni_out, ni_out') /\ Shrinks(nr_out, nr_out')
    BY <1>1 DEF Shrinks
  <1>4. /\ ~Forwarder!NfConfigure(m, meters.nf, TRUE)
        /\ ~Forwarder!NfPendingReplace(m, meters.nf, TRUE)
        /\ ~Forwarder!NfPendingTerminate(m) /\ ~Forwarder!NfPendingResent(m)
        /\ ~Forwarder!NfRefresh(m)
    BY <1>2 DEF Forwarder!NfConfigure, Forwarder!NfPendingReplace,
       Forwarder!NfPendingTerminate, Forwarder!NfPendingResent,
       Forwarder!NfRefresh
  <1>5. CASE Forwarder!NfPendingError(m) \/ Forwarder!NfRefreshError(m)
    <2>1. Forwarder!NfSend(m) /\ ~m.ok /\ \E s : nf' = Forwarder!NfClosed(s)
      BY <1>5 DEF Forwarder!NfPendingError, Forwarder!NfRefreshError
    <2>2. m \in Errors
      BY <1>2, <2>1 DEF Errors
    <2> HIDE DEF m
    <2>3. QED
      BY <1>1, <1>3, <2>1, <2>2, NfRefuses
  <1>6. \/ \E result \in SUBSET nf.rule :
              \/ Forwarder!NfPendingSuccess(m, result)
              \/ Forwarder!NfPendingInstallFails(m, result)
        \/ Forwarder!NfRefreshSuccess(m)
        \/ Forwarder!NfPendingError(m) \/ Forwarder!NfRefreshError(m)
        \/ \/ Forwarder!NfCloseDiscard(m) \/ Forwarder!NfPendingDiscard(m)
           \/ Forwarder!NfRefreshDuplicate(m) \/ Forwarder!NfMeteringOther(m)
    BY <1>1, <1>4 DEF Forwarder!NfReceive
  <1>7. QED
    BY <1>1, <1>3, <1>5, <1>6, NfPendingSuccessMsn, NfRefreshSuccessMsn,
       NfPendingInstallFailsMsn, NfDiscardMsn

(* The NR answers a request with a success response. *)
LEMMA StepAnswers ==
    ASSUME SessionsInv, PathInv, MsnInv,
           UNCHANGED <<ni, ni_out, nf, to_ni>>,
           to_nr # <<>>, to_nr' = Tail(to_nr), Request(Head(to_nr)),
           NEW a \in Msg, Responder!NrSend(a), Granted(a),
           a.msn = Head(to_nr).msn,
           \/ Live(Head(to_nr)) /\ nr'.msn = Head(to_nr).msn
           \/ nr'.state = "CLOSE",
           a.lifetime > 0 \/ Head(to_nr).kind = "REFRESH"
    PROVE  MsnInv'
  <1> DEFINE m == Head(to_nr)
  <1>1. PICK b \in Msns, w \in 0 .. 2 :
           OnPath(b, w, ni, ni_out, nf, to_nr, nr, nr_out, to_ni)
    BY DEF MsnInv
  <1>2. m \in Range(to_nr) /\ m \in Msg
    BY PathTypes, RangeTail
  <1>3. PassedOK(m, ni, requested, meters)
    BY <1>2 DEF PathInv
  <1> HIDE DEF m
  <1>4. Waits(ni) => b = ni.last_configure.msn
    <2>1. ASSUME Waits(ni)
          PROVE  Numbers(b, w, ni, to_nr, nr_out, to_ni)
      BY <1>1, <2>1 DEF OnPath, Going, Partly, Waits
    <2>2. ASSUME Waits(ni)
          PROVE  Offset(b, ni.msn) = 0 /\ ni.last_configure.msn = ni.msn
      BY <2>1, <2>2 DEF Numbers
    <2>3. QED
      BY <2>2, PathTypes, OffsetFacts
  <1>5. Waits(ni) /\ a.msn = b => a.lifetime > 0
    BY <1>3, <1>4 DEF PassedOK, m
  <1>6. /\ ni_out \in Seq(Msg) /\ nr_out \in Seq(Msg)
        /\ to_nr \in Seq(Msg) /\ to_ni \in Seq(Msg)
        /\ ni.refresh_timer \in BOOLEAN
    BY PathTypes
  <1>7. nr_out' = Append(nr_out, a)
    BY DEF Responder!NrSend
  <1>8. OnPath(b, w, ni, ni_out, nf, Tail(to_nr), nr', Append(nr_out, a), to_ni)
    BY <1>1, <1>5, <1>6, OnPathAnswers
  <1>9. QED
    BY <1>7, <1>8 DEF MsnInv

(* The NR refuses, or says nothing. *)
LEMMA NrRefusesMsn ==
    ASSUME SessionsInv, MsnInv, UNCHANGED <<ni, ni_out, nf, to_ni>>,
           to_nr # <<>>, to_nr' = Tail(to_nr),
           \/ \E e \in Errors : Responder!NrSend(e)
           \/ nr_out' = nr_out,
           nr' = nr \/ nr'.state = "CLOSE"
    PROVE  MsnInv'
  <1>1. PICK e \in Errors : Responder!NrSend(e) \/ nr_out' = nr_out
    BY SomeError
  <1>2. /\ Moves(to_nr, to_nr', e) /\ Moves(nr_out, nr_out', e)
        /\ Moves(to_ni, to_ni', e)
    BY <1>1 DEF Moves, Responder!NrSend
  <1>3. Shrinks(ni_out, ni_out') /\ Settles(nf, nf')
    BY Stays DEF Shrinks
  <1>4. nr'.state = "CLOSE" \/ (nr.state # "CLOSE" /\ nr'.msn = nr.msn)
    OBVIOUS
  <1>5. QED
    BY <1>1, <1>2, <1>3, <1>4, StepQuiet

LEMMA DeliverToNrMsn ==
    ASSUME SessionsInv, PathInv, MsnInv, DeliverToNr
    PROVE  MsnInv'
  <1> DEFINE m == Head(to_nr)
             l == Responder!NrLifetime(m)
  <1>1. /\ to_nr # <<>> /\ to_nr' = Tail(to_nr)
        /\ Responder!NrReceive(m, meters.nr)
        /\ UNCHANGED <<ni, ni_out, nf, to_ni>>
    BY SameResponder DEF DeliverToNr
  <1>2. m \in Msg /\ m \in Initiator!Message
    BY <1>1, PathTypes, RangeTail DEF Msg
  <1> HIDE DEF m
  <1>3. m.lifetime \in Nat /\ m.lifetime \in 0 .. MaxLifetime /\ NrMaxLifetime \in Nat
    BY <1>2, Bounds
  <1>4. /\ l \in 0 .. MaxLifetime /\ l \in Nat /\ l <= m.lifetime
        /\ 0 \in 0 .. MaxLifetime
    BY <1>3, LifetimeBounds DEF Responder!NrLifetime, Responder!Min2
  <1> HIDE DEF l
  <1>5. Responder!CreateResponse(m) \in Errors
    BY <1>2, ResponseTypes DEF Errors, Msg
  <1>6. ASSUME NEW k \in 0 .. MaxLifetime
        PROVE  LET a == Responder!CreateSuccessResponse(m, k) IN
               /\ a \in Msg /\ Granted(a) /\ a.msn = m.msn /\ a.lifetime = k
    <2> DEFINE a == Responder!CreateSuccessResponse(m, k)
    <2>1. a \in Msg /\ a.kind = "RESPONSE" /\ a.msn = m.msn /\ a.lifetime = k
      BY <1>2, ResponseTypes DEF Msg
    <2>2. a.ok = TRUE
      BY DEF Responder!CreateSuccessResponse, Responder!CreateResponse
    <2>3. QED
      BY <2>1, <2>2 DEF Granted
  <1>7. CASE \/ Responder!NrRefuseLifetime(m)
             \/ Responder!NrRefuseObjects(m, meters.nr)
             \/ \E result \in SUBSET m.objs :
                   Responder!NrInstallFails(m, meters.nr, result)
    <2>1. /\ Responder!NrSend(Responder!CreateResponse(m))
          /\ nr' = nr \/ nr'.state = "CLOSE"
      BY <1>7, NrClosedFacts
      DEF Responder!NrRefuseLifetime, Responder!NrRefuseObjects,
          Responder!NrInstallFails
    <2>2. QED
      BY <1>1, <1>5, <2>1, NrRefusesMsn DEF m
  <1>8. CASE Responder!NrCloseDiscard(m) \/ Responder!NrMeteringDiscard(m)
    <2>1. nr' = nr /\ nr_out' = nr_out
      BY <1>8 DEF Responder!NrCloseDiscard, Responder!NrMeteringDiscard,
                  Responder!nr_vars
    <2>2. QED
      BY <1>1, <2>1, NrRefusesMsn DEF m
  <1>9. CASE \E result \in SUBSET m.objs :
                Responder!NrAccept(m, meters.nr, result)
    <2> DEFINE a == Responder!CreateSuccessResponse(m, l)
    <2>1. /\ m.kind = "CONFIGURE" /\ l > 0 /\ Responder!NrSend(a)
          /\ \E result : nr' = [nr EXCEPT !.state = "METERING", !.msn = m.msn,
                                  !.lifetime = l, !.state_timer = TRUE,
                                  !.rule_keys = result, !.metered = result]
      BY <1>9 DEF Responder!NrAccept, l
    <2>2. nr'.msn = m.msn
      BY <2>1, SessionTypes DEF Responder!NrSession
    <2>3. a \in Msg /\ Granted(a) /\ a.msn = m.msn /\ a.lifetime > 0
      BY <1>4, <1>6, <2>1
    <2>4. Request(m) /\ Live(m)
      BY <2>1 DEF Request, Live
    <2> HIDE DEF a
    <2>5. QED
      BY <1>1, <2>1, <2>2, <2>3, <2>4, StepAnswers DEF m
  <1>10. CASE Responder!NrRefresh(m)
    <2> DEFINE a == Responder!CreateSuccessResponse(m, l)
    <2>1. /\ m.kind = "REFRESH" /\ l > 0 /\ Responder!NrSend(a)
          /\ nr' = [nr EXCEPT !.lifetime = l, !.msn = m.msn,
                              !.state_timer = TRUE]
      BY <1>10 DEF Responder!NrRefresh, l
    <2>2. nr'.msn = m.msn
      BY <2>1, SessionTypes DEF Responder!NrSession
    <2>3. a \in Msg /\ Granted(a) /\ a.msn = m.msn
      BY <1>4, <1>6
    <2>4. Request(m) /\ Live(m)
      BY <1>3, <1>4, <2>1 DEF Request, Live
    <2> HIDE DEF a
    <2>5. QED
      BY <1>1, <2>1, <2>2, <2>3, <2>4, StepAnswers DEF m
  <1>11. CASE Responder!NrTeardown(m)
    <2> DEFINE a == Responder!CreateSuccessResponse(m, 0)
    <2>1. m.kind = "REFRESH" /\ Responder!NrSend(a) /\ nr'.state = "CLOSE"
      BY <1>11, NrClosedFacts DEF Responder!NrTeardown
    <2>2. a \in Msg /\ Granted(a) /\ a.msn = m.msn
      BY <1>4, <1>6
    <2>3. Request(m)
      BY <2>1 DEF Request
    <2> HIDE DEF a
    <2>4. QED
      BY <1>1, <2>1, <2>2, <2>3, StepAnswers DEF m
  <1>12. QED
    BY <1>1, <1>7, <1>8, <1>9, <1>10, <1>11 DEF Responder!NrReceive

(* A session object that is gone promises nothing. *)
LEMMA OnPathShut ==
    ASSUME NEW b, NEW w, NEW s, NEW t, NEW io, NEW f, NEW tr, NEW r,
           NEW ro, NEW ti, NEW ti2,
           OnPath(b, w, s, io, f, tr, r, ro, ti), t.state = "CLOSE"
    PROVE  OnPath(b, w, t, io, f, tr, r, ro, ti2)
  BY DEF OnPath

(* GIST hands a message to the NI. *)
LEMMA OnPathTaken ==
    ASSUME NEW b \in Msns, NEW w \in 0 .. 2, NEW s,
           NEW io \in Seq(Msg), NEW f, NEW tr \in Seq(Msg), NEW r,
           NEW ro \in Seq(Msg), NEW ti \in Seq(Msg),
           s.refresh_timer \in BOOLEAN,
           OnPath(b, w, s, io, f, tr, r, ro, ti),
           NEW ti2, Shrinks(ti, ti2)
    PROVE  OnPath(b, w, s, io, f, tr, r, ro, ti2)
  <1>1. PICK e : e \in Errors
    BY SomeError
  <1>2. Moves(tr, tr, e) /\ Moves(ro, ro, e) /\ Moves(ti, ti2, e)
    BY DEF Shrinks, Moves
  <1>3. /\ Shrinks(io, io) /\ Settles(f, f)
        /\ r.state = "CLOSE" \/ (r.state # "CLOSE" /\ r.msn = r.msn)
    BY DEF Shrinks, Settles
  <1>4. QED
    BY <1>1, <1>2, <1>3, OnPathQuiet

(* A step of the initiator. *)
NiFrame ==
    /\ SessionsInv /\ PathInv /\ MsnInv
    /\ UNCHANGED <<nf, to_nr, nr, nr_out>>
    /\ Shrinks(to_ni, to_ni')

LEMMA NiShut ==
    ASSUME NiFrame, ni_out' = ni_out, ni'.state = "CLOSE"
    PROVE  MsnInv'
  <1>1. PICK b \in Msns, w \in 0 .. 2 :
           OnPath(b, w, ni, ni_out, nf, to_nr, nr, nr_out, to_ni)
    BY DEF NiFrame, MsnInv
  <1>2. OnPath(b, w, ni', ni_out, nf, to_nr, nr, nr_out, to_ni')
    BY <1>1, OnPathShut
  <1>3. QED
    BY <1>2 DEF MsnInv, NiFrame

LEMMA NiClosedState ==
    ASSUME NEW s
    PROVE  Initiator!NiClosed(s).state = "CLOSE"
  BY DEF Initiator!NiClosed, Initiator!NewNiSession

LEMMA NiSame ==
    ASSUME NiFrame, ni_out' = ni_out, SameNumbers(ni, ni')
    PROVE  MsnInv'
  <1>1. PICK b \in Msns, w \in 0 .. 2 :
           OnPath(b, w, ni, ni_out, nf, to_nr, nr, nr_out, to_ni)
    BY DEF NiFrame, MsnInv
  <1>2. /\ ni_out \in Seq(Msg) /\ nr_out \in Seq(Msg)
        /\ to_nr \in Seq(Msg) /\ to_ni \in Seq(Msg)
        /\ ni.refresh_timer \in BOOLEAN
    BY PathTypes DEF NiFrame
  <1>3. OnPath(b, w, ni', ni_out, nf, to_nr, nr, nr_out, to_ni)
    BY <1>1, OnPathSame
  <1>4. ni'.refresh_timer \in BOOLEAN /\ Shrinks(to_ni, to_ni')
    BY <1>2 DEF SameNumbers, NiFrame
  <1>5. OnPath(b, w, ni', ni_out, nf, to_nr, nr, nr_out, to_ni')
    BY <1>2, <1>3, <1>4, OnPathTaken
  <1>6. QED
    BY <1>5 DEF MsnInv, NiFrame

(* The NI tears the session down. *)
LEMMA NiLeaves ==
    ASSUME NiFrame, ni.state # "CLOSE", ni'.state = "CLOSE", NEW x \in Msg,
           Initiator!NiSend(x), x.kind = "REFRESH", x.lifetime = 0,
           x.msn = Initiator!NextMsn(ni.msn)
    PROVE  MsnInv'
  <1>1. PICK b \in Msns, w \in 0 .. 2 :
           OnPath(b, w, ni, ni_out, nf, to_nr, nr, nr_out, to_ni)
    BY DEF NiFrame, MsnInv
  <1>2. /\ ni_out \in Seq(Msg) /\ to_nr \in Seq(Msg)
        /\ nf.state # "CLOSE" => nf.msn \in Msns
        /\ nr.state # "CLOSE" => nr.msn \in Msns
        /\ ni.msn \in Msns
    BY PathTypes DEF NiFrame
  <1>3. OnPath(b, w, ni', Append(ni_out, x), nf, to_nr, nr, nr_out, to_ni)
    BY <1>1, <1>2, OnPathLeaves
  <1>4. OnPath(b, w, ni', Append(ni_out, x), nf, to_nr, nr, nr_out, to_ni')
    BY <1>3, OnPathShut
  <1>5. QED
    BY <1>4 DEF MsnInv, NiFrame, Initiator!NiSend

(* The REFRESH of lifetime 0 that ends a session. *)
LEMMA TeardownFacts ==
    ASSUME SessionsInv, NEW q, q.lifetime = 0, q.msn = ni.msn
    PROVE  LET x == Initiator!BuildRefresh(q) IN
           /\ x \in Msg /\ x.kind = "REFRESH" /\ x.lifetime = 0
           /\ x.msn = Initiator!NextMsn(ni.msn)
  <1> DEFINE x == Initiator!BuildRefresh(q)
  <1>1. ni.msn \in Initiator!Msns /\ 0 \in Initiator!Lifetimes
    BY PathTypes, LifetimeBounds DEF Msns, Initiator!Lifetimes
  <1>2. x = Initiator!Refresh(Initiator!NextMsn(ni.msn), 0)
    BY DEF Initiator!BuildRefresh
  <1>3. x \in Msg
    BY <1>1, <1>2, InitiatorAssumptions, Initiator!NextMsnType,
       Initiator!RefreshType DEF Msg
  <1>4. QED
    BY <1>2, <1>3 DEF Initiator!Refresh

(* The last request goes out once more. *)
LEMMA NiRetries ==
    ASSUME NiFrame, to_ni' = to_ni, SameNumbers(ni, ni'), NEW x \in Msg,
           Initiator!NiSend(x),
           \/ Waits(ni) /\ x = ni.last_configure
           \/ ni.state = "METERING" /\ x = ni.last_refresh /\ x.kind = "REFRESH"
    PROVE  MsnInv'
  <1>1. PICK b \in Msns, w \in 0 .. 2 :
           OnPath(b, w, ni, ni_out, nf, to_nr, nr, nr_out, to_ni)
    BY DEF NiFrame, MsnInv
  <1>2. /\ ni_out \in Seq(Msg) /\ to_nr \in Seq(Msg)
        /\ nf.state # "CLOSE" => nf.msn \in Msns
        /\ nr.state # "CLOSE" => nr.msn \in Msns
    BY PathTypes DEF NiFrame
  <1>3. OnPath(b, w, ni, Append(ni_out, x), nf, to_nr, nr, nr_out, to_ni)
    BY <1>1, <1>2, OnPathRetries
  <1>4. OnPath(b, w, ni', Append(ni_out, x), nf, to_nr, nr, nr_out, to_ni)
    BY <1>3, OnPathSame
  <1>5. QED
    BY <1>4 DEF MsnInv, NiFrame, Initiator!NiSend

LEMMA NiRefreshTimerMsn ==
    ASSUME NiFrame, to_ni' = to_ni, Initiator!NiRefreshTimer
    PROVE  MsnInv'
  <1> DEFINE x == Initiator!BuildRefresh(ni)
  <1>1. /\ Initiator!NiSend(x) /\ ni.state = "METERING" /\ ni.refresh_timer
        /\ ni' = [ni EXCEPT !.msn = x.msn, !.last_refresh = x,
                            !.refresh_counter = 0,
                            !.refresh_timer = FALSE, !.response_timer = TRUE]
    BY DEF Initiator!NiRefreshTimer, Initiator!NiIn
  <1>2. ni \in Initiator!NiSession
    BY SessionTypes DEF NiFrame
  <1>3. ni.msn \in Initiator!Msns /\ ni.lifetime \in Initiator!Lifetimes
    BY <1>2 DEF Initiator!NiSession
  <1>4. x \in Msg
    BY <1>3, InitiatorAssumptions, Initiator!NextMsnType, Initiator!RefreshType
    DEF Initiator!BuildRefresh, Msg
  <1>5. /\ x.kind = "REFRESH" /\ x.msn = Initiator!NextMsn(ni.msn)
        /\ x.lifetime = ni.lifetime
    BY DEF Initiator!BuildRefresh, Initiator!Refresh
  <1> HIDE DEF x
  <1>6. /\ ni'.state = ni.state /\ ni'.last_configure = ni.last_configure
        /\ ni'.lifetime = ni.lifetime /\ ni'.msn = x.msn
        /\ ni'.last_refresh = x /\ ni'.refresh_timer = FALSE
    BY <1>1, <1>2 DEF Initiator!NiSession
  <1>7. PICK b \in Msns, w \in 0 .. 2 :
           OnPath(b, w, ni, ni_out, nf, to_nr, nr, nr_out, to_ni)
    BY DEF NiFrame, MsnInv
  <1>8. /\ ni_out \in Seq(Msg) /\ nr_out \in Seq(Msg)
        /\ to_nr \in Seq(Msg) /\ to_ni \in Seq(Msg)
        /\ nf.state # "CLOSE" => nf.msn \in Msns
        /\ nr.state # "CLOSE" => nr.msn \in Msns
        /\ ni.msn \in Msns /\ ni.refresh_timer = TRUE
    BY <1>1, PathTypes DEF NiFrame
  <1>9. ~Opened(ni) => ni.lifetime = 0
    BY DEF NiFrame, PathInv, InitiatorOK
  <1> DEFINE t == ni'
  <1>10. Refreshes(ni, x, t)
    BY <1>1, <1>5, <1>6, <1>9 DEF Refreshes
  <1> HIDE DEF t
  <1>11. \E c \in Msns, v \in 0 .. 2 :
            OnPath(c, v, t, Append(ni_out, x), nf, to_nr, nr, nr_out, to_ni)
    BY <1>4, <1>7, <1>8, <1>10, OnPathRefreshes
  <1>12. QED
    BY <1>1, <1>11 DEF MsnInv, NiFrame, Initiator!NiSend, t

LEMMA NiPendingRefreshTimerMsn ==
    ASSUME NiFrame, to_ni' = to_ni, Initiator!NiPendingRefreshTimer
    PROVE  MsnInv'
  <1>1. /\ ni.state = "PENDING" /\ ni.refresh_timer /\ ni_out' = ni_out
        /\ ni' = [ni EXCEPT !.refresh_timer = FALSE]
    BY DEF Initiator!NiPendingRefreshTimer, Initiator!NiIn
  <1>2. /\ ni'.state = ni.state /\ ni'.last_configure = ni.last_configure
        /\ ni'.msn = ni.msn /\ ni'.last_refresh = ni.last_refresh
    BY <1>1, SessionTypes DEF NiFrame, Initiator!NiSession
  <1>3. ni.last_configure = Initiator!NoMsg
    BY <1>1 DEF NiFrame, SessionsInv, Initiator!NiInv, Initiator!NiOneTimerRuns
  <1>4. ~Opened(ni) /\ ~Opened(ni')
    BY <1>2, <1>3 DEF Opened, Initiator!NoMsg
  <1>5. PICK b \in Msns, w \in 0 .. 2 :
           OnPath(b, w, ni, ni_out, nf, to_nr, nr, nr_out, to_ni)
    BY DEF NiFrame, MsnInv
  <1>6. w = 0 /\ Partly(b, ni, ni_out, nf, to_ni)
    BY <1>1, <1>4, <1>5 DEF OnPath, Going, Numbers
  <1>7. Partly(b, ni', ni_out, nf, to_ni)
    BY <1>1, <1>2, <1>4, <1>6 DEF Partly
  <1>8. OnPath(b, w, ni', ni_out, nf, to_nr, nr, nr_out, to_ni)
    BY <1>5, <1>6, <1>7 DEF OnPath
  <1>9. QED
    BY <1>1, <1>8 DEF MsnInv, NiFrame

LEMMA NiActsMsn ==
    ASSUME NiFrame, to_ni' = to_ni,
           \/ Initiator!NiApiTeardown
           \/ Initiator!NiResponseTimeout \/ Initiator!NiRefreshTimeout
    PROVE  MsnInv'
  <1>1. ni \in Initiator!NiSession /\ SessionsInv
    BY SessionTypes DEF NiFrame
  <1>2. CASE Initiator!NiApiTeardown
    <2> DEFINE q == [ni EXCEPT !.lifetime = 0]
               x == Initiator!BuildRefresh(q)
    <2>1. /\ ni.state # "CLOSE" /\ Initiator!NiSend(x) /\ ni'.state = "CLOSE"
      BY <1>2, NiClosedState DEF Initiator!NiApiTeardown, Initiator!NiIn
    <2>2. q.lifetime = 0 /\ q.msn = ni.msn
      BY <1>1 DEF Initiator!NiSession
    <2> HIDE DEF q
    <2>3. /\ x \in Msg /\ x.kind = "REFRESH" /\ x.lifetime = 0
          /\ x.msn = Initiator!NextMsn(ni.msn)
      BY <1>1, <2>2, TeardownFacts
    <2> HIDE DEF x
    <2>4. QED
      BY <2>1, <2>3, NiLeaves
  <1>3. CASE Initiator!NiConfigureGiveUp \/ Initiator!NiRefreshGiveUp
    BY <1>3, NiClosedState, NiShut
    DEF Initiator!NiConfigureGiveUp, Initiator!NiRefreshGiveUp
  <1>4. CASE Initiator!NiConfigureRetry
    <2>1. /\ Initiator!NiSend(ni.last_configure) /\ ni.state = "PENDING"
          /\ ni.response_timer
          /\ ni' = [ni EXCEPT !.configure_counter = ni.configure_counter + 1]
      BY <1>4 DEF Initiator!NiConfigureRetry, Initiator!NiIn
    <2>2. SameNumbers(ni, ni')
      BY <1>1, <2>1 DEF SameNumbers, Initiator!NiSession
    <2>3. Waits(ni) /\ ni.last_configure \in Msg
      BY <1>1, <2>1, PathTypes
      DEF Waits, Opened, SessionsInv, Initiator!NiInv, Initiator!NiRetryHasMessage
    <2>4. QED
      BY <2>1, <2>2, <2>3, NiRetries
  <1>5. CASE Initiator!NiRefreshRetry
    <2>1. /\ Initiator!NiSend(ni.last_refresh) /\ ni.state = "METERING"
          /\ ni.response_timer
          /\ ni' = [ni EXCEPT !.refresh_counter = ni.refresh_counter + 1]
      BY <1>5 DEF Initiator!NiRefreshRetry, Initiator!NiIn
    <2>2. SameNumbers(ni, ni')
      BY <1>1, <2>1 DEF SameNumbers, Initiator!NiSession
    <2>3. ni.last_refresh.kind = "REFRESH" /\ ni.last_refresh \in Msg
      BY <1>1, <2>1, PathTypes
      DEF SessionsInv, Initiator!NiInv, Initiator!NiRetryHasMessage
    <2>4. QED
      BY <2>1, <2>2, <2>3, NiRetries
  <1>6. QED
    BY <1>2, <1>3, <1>4, <1>5, NiPendingRefreshTimerMsn, NiRefreshTimerMsn
    DEF Initiator!NiResponseTimeout, Initiator!NiRefreshTimeout

LEMMA NiSurprisedMsn ==
    ASSUME NiFrame,
           Initiator!NiNotification \/ Initiator!NiInvalidState
              \/ Initiator!NiUnexpected \/ UNCHANGED <<ni, ni_out>>
    PROVE  MsnInv'
  <1>1. CASE Initiator!NiPendingNoNextNode
    BY <1>1, NiClosedState, NiShut DEF Initiator!NiPendingNoNextNode
  <1>2. CASE \/ Initiator!NiInvalidState \/ Initiator!NiUnexpected
             \/ UNCHANGED <<ni, ni_out>>
    <2>1. /\ ni_out' = ni_out
          /\ ni' = ni \/ \E reason : ni' = [ni EXCEPT !.abort = reason]
      BY <1>2
      DEF Initiator!NiInvalidState, Initiator!NiUnexpected,
          Initiator!NiPendingDiscard, Initiator!NiPendingNull,
          Initiator!NiMeteringDiscard, Initiator!NiMeteringNull,
          Initiator!NiAbort, Initiator!ni_vars
    <2>2. SameNumbers(ni, ni')
      BY <2>1, SessionTypes DEF SameNumbers, NiFrame, Initiator!NiSession
    <2>3. QED
      BY <2>1, <2>2, NiSame
  <1>3. QED
    BY <1>1, <1>2 DEF Initiator!NiNotification

(* An answer reaches the NI. *)
NiAnswerFrame ==
    /\ NiFrame /\ to_ni # <<>> /\ to_ni' = Tail(to_ni)
    /\ Head(to_ni) \in Msg

(* Every object was installed. *)
LEMMA NiInstallsMsn ==
    ASSUME NiAnswerFrame, Waits(ni), Head(to_ni).ok,
           Initiator!IsResponseTo(Head(to_ni), ni.last_configure),
           ni' = Initiator!NiInstalled(Initiator!NiAccepted(Head(to_ni).lifetime)),
           ni_out' = ni_out
    PROVE  MsnInv'
  <1> DEFINE m == Head(to_ni)
             t == ni'
  <1>1. /\ NiFrame /\ SessionsInv /\ ni \in Initiator!NiSession
        /\ Shrinks(to_ni, to_ni') /\ to_ni # <<>>
    BY SessionTypes DEF NiAnswerFrame, NiFrame
  <1>2. /\ t.state = "METERING" /\ t.msn = ni.msn /\ t.lifetime = m.lifetime
        /\ t.last_configure = ni.last_configure
        /\ t.last_refresh = ni.last_refresh /\ t.refresh_timer = TRUE
    BY <1>1 DEF Initiator!NiInstalled, Initiator!NiAccepted, Initiator!NiSession
  <1>3. ni.last_refresh = Initiator!NoMsg
    BY <1>1 DEF NiFrame, PathInv, InitiatorOK
  <1>4. Granted(m) /\ m.msn = ni.last_configure.msn
    BY DEF Initiator!IsResponseTo, Granted
  <1>5. PICK b \in Msns, w \in 0 .. 2 :
           OnPath(b, w, ni, ni_out, nf, to_nr, nr, nr_out, to_ni)
    BY <1>1 DEF NiFrame, MsnInv
  <1>6. /\ ni_out \in Seq(Msg) /\ nr_out \in Seq(Msg)
        /\ to_nr \in Seq(Msg) /\ to_ni \in Seq(Msg) /\ ni.msn \in Msns
    BY <1>1, PathTypes
  <1>7. t.last_refresh = Initiator!NoMsg
    BY <1>2, <1>3
  <1> HIDE DEF t
  <1>8. OnPath(b, w, t, ni_out, nf, to_nr, nr, nr_out, to_ni)
    <2>1. /\ t.state = "METERING" /\ t.msn = ni.msn /\ t.lifetime = Head(to_ni).lifetime
          /\ t.last_configure = ni.last_configure
      BY <1>2
    <2>2. to_ni # <<>> /\ Granted(Head(to_ni))
          /\ Head(to_ni).msn = ni.last_configure.msn
      BY <1>1, <1>4
    <2> HIDE DEF m
    <2>3. QED
      BY <1>5, <1>6, <1>7, <2>1, <2>2, OnPathInstalls
  <1>9. OnPath(b, w, t, ni_out, nf, to_nr, nr, nr_out, to_ni')
    <2>1. t.refresh_timer \in BOOLEAN
      BY <1>2
    <2>2. Shrinks(to_ni, to_ni')
      BY <1>1
    <2>3. QED
      BY <1>6, <1>8, <2>1, <2>2, OnPathTaken
  <1>10. QED
    BY <1>1, <1>9 DEF MsnInv, NiFrame, t

(* Some object was not installed, and the session object remains. *)
LEMMA NiPartsMsn ==
    ASSUME NiAnswerFrame, Waits(ni), NEW x \in Msg, Initiator!NiSend(x),
           x.kind = "REFRESH", x.lifetime = 0,
           x.msn = Initiator!NextMsn(ni.msn),
           ni'.msn = x.msn, ni'.refresh_timer = TRUE,
           ni'.last_configure = Initiator!NoMsg,
           ni'.last_refresh = ni.last_refresh
    PROVE  MsnInv'
  <1>1. /\ NiFrame /\ SessionsInv /\ PathInv /\ Shrinks(to_ni, to_ni')
    BY DEF NiAnswerFrame, NiFrame
  <1> DEFINE t == ni'
  <1>2. /\ t.last_refresh = Initiator!NoMsg /\ t.msn = x.msn
        /\ t.last_configure = Initiator!NoMsg
    BY <1>1 DEF PathInv, InitiatorOK
  <1>3. t.refresh_timer \in BOOLEAN
    OBVIOUS
  <1>4. nf.refresh_message = Initiator!NoMsg
    BY <1>1 DEF PathInv, ForwarderOK
  <1>5. \A m \in Range(ni_out) : m.kind = "CONFIGURE"
    <2>1. \A m \in Range(ni_out) : SentOK(m, ni)
      BY <1>1 DEF PathInv
    <2>2. QED
      BY <2>1 DEF SentOK, Waits, Opened, Meters
  <1>6. PICK b \in Msns, w \in 0 .. 2 :
           OnPath(b, w, ni, ni_out, nf, to_nr, nr, nr_out, to_ni)
    BY <1>1 DEF NiFrame, MsnInv
  <1>7. /\ ni_out \in Seq(Msg) /\ nr_out \in Seq(Msg)
        /\ to_nr \in Seq(Msg) /\ to_ni \in Seq(Msg) /\ ni.msn \in Msns
        /\ nf.state # "CLOSE" => nf.msn \in Msns
        /\ nr.state # "CLOSE" => nr.msn \in Msns
    BY <1>1, PathTypes
  <1> HIDE DEF t
  <1>8. OnPath(b, w, t, Append(ni_out, x), nf, to_nr, nr, nr_out, to_ni)
    BY <1>2, <1>4, <1>5, <1>6, <1>7, OnPathParts
  <1>9. Append(ni_out, x) \in Seq(Msg)
    BY <1>7
  <1>10. OnPath(b, w, t, Append(ni_out, x), nf, to_nr, nr, nr_out, to_ni')
    BY <1>1, <1>3, <1>7, <1>8, <1>9, OnPathTaken
  <1>11. QED
    BY <1>1, <1>10 DEF MsnInv, NiFrame, Initiator!NiSend, t

LEMMA NiConfigureAnsweredMsn ==
    ASSUME NiAnswerFrame, NEW result, NEW state,
           Initiator!NiConfigureAnswered(Head(to_ni), result, state)
    PROVE  MsnInv'
  <1> DEFINE m == Head(to_ni)
             s == Initiator!NiAccepted(m.lifetime)
             q == [s EXCEPT !.lifetime = 0]
             x == Initiator!BuildRefresh(q)
             p == Initiator!NiPartlyInstalled(s, result, state)
  <1>1. /\ ni.state = "PENDING"
        /\ Initiator!IsResponseTo(m, ni.last_configure)
        /\ \/ m.ok /\ ni' = Initiator!NiInstalled(s) /\ ni_out' = ni_out
           \/ /\ Initiator!NiSend(x)
              /\ ni' = Initiator!NiOrClosed(p)
           \/ ni' = Initiator!NiClosed(ni) /\ ni_out' = ni_out
    BY DEF Initiator!NiConfigureAnswered, Initiator!NiIn
  <1>2. /\ NiFrame /\ SessionsInv /\ ni \in Initiator!NiSession /\ m \in Msg
        /\ InitiatorOK(ni, requested, placed)
    BY SessionTypes DEF NiAnswerFrame, NiFrame, PathInv
  <1>3. Waits(ni)
    <2>1. ni.last_configure # Initiator!NoMsg
      BY <1>1 DEF Initiator!IsResponseTo, Initiator!NoMsg
    <2>2. QED
      BY <1>1, <1>2, <2>1 DEF InitiatorOK, Waits
  <1>4. CASE m.ok /\ ni' = Initiator!NiInstalled(s) /\ ni_out' = ni_out
    BY <1>1, <1>3, <1>4, NiInstallsMsn
  <1>5. CASE ni' = Initiator!NiClosed(ni) /\ ni_out' = ni_out
    BY <1>2, <1>5, NiClosedState, NiShut
  <1>6. CASE Initiator!NiSend(x) /\ ni' = Initiator!NiOrClosed(p)
    <2>1. s.msn = ni.msn
      BY <1>2 DEF Initiator!NiAccepted, Initiator!NiSession
    <2>2. /\ x \in Msg /\ x.kind = "REFRESH" /\ x.lifetime = 0
          /\ x.msn = Initiator!NextMsn(ni.msn)
      <3>1. q.lifetime = 0 /\ q.msn = ni.msn
        BY <1>2 DEF Initiator!NiAccepted, Initiator!NiSession
      <3> HIDE DEF q
      <3>2. QED
        BY <1>2, <3>1, TeardownFacts
    <2>3. /\ p.msn = x.msn /\ p.refresh_timer = TRUE
          /\ p.last_configure = Initiator!NoMsg
          /\ p.last_refresh = ni.last_refresh
      <3>1. /\ p.msn = Initiator!NextMsn(s.msn) /\ p.refresh_timer = TRUE
            /\ p.last_configure = Initiator!NoMsg
            /\ p.last_refresh = ni.last_refresh
        BY <1>2 DEF Initiator!NiPartlyInstalled, Initiator!NiRemoveRules,
           Initiator!NiAccepted, Initiator!NiSession
      <3>2. QED
        BY <2>1, <2>2, <3>1
    <2> HIDE DEF m, s, q, x, p
    <2>4. ni' = p \/ ni' = Initiator!NiClosed(p)
      BY <1>6 DEF Initiator!NiOrClosed
    <2>5. CASE ni' = p
      <3>1. /\ ni'.msn = x.msn /\ ni'.refresh_timer = TRUE
            /\ ni'.last_configure = Initiator!NoMsg
            /\ ni'.last_refresh = ni.last_refresh
        BY <2>3, <2>5
      <3>2. QED
        BY <1>3, <1>6, <2>2, <3>1, NiPartsMsn
    <2>6. CASE ni' = Initiator!NiClosed(p)
      <3>1. ni'.state = "CLOSE" /\ ni.state # "CLOSE"
        BY <1>1, <2>6, NiClosedState
      <3>2. QED
        BY <1>2, <1>6, <2>2, <3>1, NiLeaves
    <2>7. QED
      BY <2>4, <2>5, <2>6
  <1>7. QED
    BY <1>1, <1>4, <1>5, <1>6

LEMMA NiRefreshAnsweredMsn ==
    ASSUME NiAnswerFrame, Initiator!NiRefreshAnswered(Head(to_ni))
    PROVE  MsnInv'
  <1> DEFINE m == Head(to_ni)
  <1>1. /\ ni.state = "METERING" /\ ni_out' = ni_out
        /\ Initiator!IsResponseTo(m, ni.last_refresh)
        /\ \/ /\ m.ok
              /\ ni' = [ni EXCEPT !.response_timer = FALSE,
                                  !.refresh_timer = TRUE, !.refresh_counter = 0]
           \/ ni' = Initiator!NiClosed(Initiator!NiRemoveRules(ni))
    BY DEF Initiator!NiRefreshAnswered, Initiator!NiIn
  <1>2. /\ NiFrame /\ SessionsInv /\ ni \in Initiator!NiSession
        /\ to_ni # <<>> /\ to_ni' = Tail(to_ni)
    BY SessionTypes DEF NiAnswerFrame, NiFrame
  <1>3. CASE ni' = Initiator!NiClosed(Initiator!NiRemoveRules(ni))
    BY <1>1, <1>2, <1>3, NiClosedState, NiShut
  <1>4. CASE /\ m.ok
             /\ ni' = [ni EXCEPT !.response_timer = FALSE,
                                 !.refresh_timer = TRUE, !.refresh_counter = 0]
    <2> DEFINE t == ni'
    <2>1. /\ t.state = ni.state /\ t.msn = ni.msn /\ t.lifetime = ni.lifetime
          /\ t.last_configure = ni.last_configure
          /\ t.last_refresh = ni.last_refresh /\ t.refresh_timer = TRUE
      BY <1>2, <1>4 DEF Initiator!NiSession
    <2>2. /\ Granted(Head(to_ni)) /\ Head(to_ni).msn = ni.last_refresh.msn
          /\ ni.last_refresh # Initiator!NoMsg
      BY <1>1, <1>4 DEF Initiator!IsResponseTo, Granted, Initiator!NoMsg
    <2>3. PICK b \in Msns, w \in 0 .. 2 :
             OnPath(b, w, ni, ni_out, nf, to_nr, nr, nr_out, to_ni)
      BY <1>2 DEF NiFrame, MsnInv
    <2>4. /\ ni_out \in Seq(Msg) /\ nr_out \in Seq(Msg)
          /\ to_nr \in Seq(Msg) /\ to_ni \in Seq(Msg) /\ ni.msn \in Msns
          /\ ni.refresh_timer \in BOOLEAN
      BY <1>2, PathTypes
    <2>5. ni.state = "METERING" /\ to_ni # <<>>
      BY <1>1, <1>2
    <2> HIDE DEF m, t
    <2>6. OnPath(b, w, t, ni_out, nf, to_nr, nr, nr_out, Tail(to_ni))
      BY <2>1, <2>2, <2>3, <2>4, <2>5, OnPathConfirms
    <2>7. QED
      BY <1>1, <1>2, <2>6 DEF MsnInv, NiFrame, t
  <1>5. QED
    BY <1>1, <1>3, <1>4

LEMMA DeliverToNiMsn ==
    ASSUME SessionsInv, PathInv, MsnInv, DeliverToNi
    PROVE  MsnInv'
  <1>1. /\ to_ni # <<>> /\ to_ni' = Tail(to_ni)
        /\ Initiator!NiReceive(Head(to_ni)) \/ UNCHANGED <<ni, ni_out>>
        /\ UNCHANGED <<nf, to_nr, nr, nr_out>>
    BY SameInitiator DEF DeliverToNi
  <1>2. NiFrame
    BY <1>1 DEF NiFrame, Shrinks
  <1>3. NiAnswerFrame
    <2>1. Head(to_ni) \in Msg
      BY <1>1, PathTypes
    <2>2. QED
      BY <1>1, <1>2, <2>1 DEF NiAnswerFrame
  <1>4. \/ \E result, state :
               Initiator!NiConfigureAnswered(Head(to_ni), result, state)
        \/ Initiator!NiRefreshAnswered(Head(to_ni))
        \/ Initiator!NiUnexpected \/ UNCHANGED <<ni, ni_out>>
    BY <1>1 DEF Initiator!NiReceive
  <1>5. QED
    BY <1>2, <1>3, <1>4, NiConfigureAnsweredMsn, NiRefreshAnsweredMsn,
       NiSurprisedMsn

LEMMA NiStepMsn ==
    ASSUME SessionsInv, PathInv, MsnInv, UserTearsDown \/ NiTimer \/ NiNotified
    PROVE  MsnInv'
  <1>1. NiFrame /\ to_ni' = to_ni
    BY DEF UserTearsDown, NiTimer, NiNotified, NiFrame, Shrinks
  <1>2. \/ Initiator!NiApiTeardown
        \/ Initiator!NiResponseTimeout \/ Initiator!NiRefreshTimeout
        \/ Initiator!NiNotification \/ Initiator!NiInvalidState
    BY SameInitiator DEF UserTearsDown, NiTimer, NiNotified
  <1>3. QED
    BY <1>1, <1>2, NiActsMsn, NiSurprisedMsn

(* Before anything is sent. *)
LEMMA PipeStarts ==
    ASSUME NEW b, NEW f, NEW r, f.state = "CLOSE", r.state = "CLOSE"
    PROVE  Pipe(b, 0, <<>>, f, <<>>, r)
  <1>1. \A A, B : All(<<>>, A) /\ ~Has(<<>>, A) /\ Follows(<<>>, A, B)
    BY RangeEmpty DEF All, Has, Follows
  <1>2. \A t : NodeUp(f, b, t)
    BY DEF NodeUp
  <1>3. \A t : Reached(b, t, <<>>, f, <<>>, r)
    BY <1>1, <1>2 DEF Reached
  <1>4. QED
    BY <1>1, <1>3 DEF Pipe

LEMMA MsnInit == Init => MsnInv
  <1> SUFFICES ASSUME Init PROVE MsnInv
    OBVIOUS
  <1>1. /\ ni = Initiator!NewNiSession(0) /\ nf = Forwarder!NewNfSession
        /\ nr = Responder!NewNrSession /\ ni_out = <<>> /\ to_nr = <<>>
    BY SameInitiator, SameForwarder, SameResponder
    DEF Init, Initiator!NiInit, Forwarder!NfInit, Responder!NrInit
  <1>2. ni.state = "CLOSE" /\ nf.state = "CLOSE" /\ nr.state = "CLOSE"
    BY <1>1 DEF Initiator!NewNiSession, Forwarder!NewNfSession,
                Responder!NewNrSession
  <1>3. 0 \in Msns /\ 0 \in 0 .. 2
    BY MsnsAre
  <1>4. Pipe(0, 0, ni_out, nf, to_nr, nr)
    BY <1>1, <1>2, PipeStarts
  <1>5. All(ni_out, Asking)
    BY <1>1, RangeEmpty DEF All
  <1>6. OnPath(0, 0, ni, ni_out, nf, to_nr, nr, nr_out, to_ni)
    BY <1>2, <1>4, <1>5 DEF OnPath
  <1>7. QED
    BY <1>3, <1>6 DEF MsnInv

(* The CONFIGURE's own number is what the others are counted from. *)
LEMMA UserConfiguresMsn ==
    ASSUME SessionsInv, PathInv, SessionsInv', UserConfigures
    PROVE  MsnInv'
  <1>1. /\ ni = Initiator!NewNiSession(0) /\ nf = Forwarder!NewNfSession
        /\ nr = Responder!NewNrSession
        /\ ni_out = <<>> /\ nr_out = <<>> /\ to_nr = <<>> /\ to_ni = <<>>
    BY DEF UserConfigures, PathInv, Pristine, Initiator!NiInit,
           Forwarder!NfInit, Responder!NrInit
  <1>2. PICK r \in Requests :
           Initiator!NiApiConfigure(InitialMsn, r.lifetime, r.sme, r.objs,
                                    meters.ni)
    BY SameInitiator DEF UserConfigures
  <1>3. UNCHANGED <<nf, to_nr, to_ni, nr, nr_out>>
    BY DEF UserConfigures
  <1> DEFINE s == Initiator!SetupSession(
                     [Initiator!NewNiSession(InitialMsn) EXCEPT
                        !.metered = ni.metered],
                     r.lifetime, r.sme, r.objs, meters.ni)
             c == Initiator!BuildConfigure(s, r.lifetime, r.sme, r.objs)
             t == ni'
  <1>4. /\ Initiator!NiSend(c)
        /\ ni' = [s EXCEPT !.state = "PENDING", !.msn = c.msn,
                           !.last_configure = c, !.response_timer = TRUE]
    BY <1>2 DEF Initiator!NiApiConfigure
  <1>5. c.kind = "CONFIGURE"
    BY DEF Initiator!BuildConfigure, Initiator!Configure
  <1>6. /\ t.state = "PENDING" /\ t.last_configure = c /\ t.msn = c.msn
    BY <1>4 DEF Initiator!SetupSession, Initiator!NewNiSession
  <1> HIDE DEF s, c
  <1>7. c \in Msg /\ c.msn \in Msns
    <2>1. ni'.last_configure \in Initiator!Message /\ ni'.msn \in Initiator!Msns
      BY DEF SessionsInv, Initiator!NiInv, Initiator!NiTypeOK,
             Initiator!NiSession
    <2>2. QED
      BY <1>6, <2>1 DEF Msg, Msns
  <1>8. ni_out' = Append(<<>>, c)
    BY <1>1, <1>4 DEF Initiator!NiSend
  <1>9. nf'.state = "CLOSE" /\ nr'.state = "CLOSE"
    BY <1>1, <1>3 DEF Forwarder!NewNfSession, Responder!NewNrSession
  <1> HIDE DEF t
  <1>10. Offset(c.msn, c.msn) = 0
    BY <1>7, OffsetFacts
  <1>11. Pipe(c.msn, 0, <<>>, nf', <<>>, nr')
    BY <1>9, PipeStarts
  <1>12. Pipe(c.msn, 0, Append(<<>>, c), nf', <<>>, nr')
    <2>1. <<>> \in Seq(Msg) /\ 0 \in 0 .. 2 /\ 0 <= 0
      OBVIOUS
    <2>2. /\ nf'.state # "CLOSE" => nf'.msn \in Msns
          /\ nr'.state # "CLOSE" => nr'.msn \in Msns
      BY <1>9
    <2>3. /\ Offset(c.msn, c.msn) >= 0
          /\ Live(c) => Offset(c.msn, c.msn) <= 0
          /\ c.kind = "CONFIGURE" => c.msn = c.msn
      BY <1>10
    <2>4. QED
      BY <1>7, <1>11, <2>1, <2>2, <2>3, PipeGrows
  <1>13. All(Append(<<>>, c), Asking)
    <2>1. c \in Asking
      BY <1>5, <1>7 DEF Asking, Request
    <2>2. All(<<>>, Asking) /\ <<>> \in Seq(Msg)
      BY RangeEmpty DEF All
    <2>3. QED
      BY <1>7, <2>1, <2>2, AllAppend
  <1>14. Going(c.msn, 0, t, Append(<<>>, c), nf', <<>>, nr', <<>>, <<>>)
    <2>1. \A A : All(<<>>, A)
      BY RangeEmpty DEF All
    <2>2. Opened(t) /\ ~Meters(t) /\ t.last_configure.msn = t.msn
          /\ Offset(c.msn, t.msn) = 0
      BY <1>5, <1>6, <1>10 DEF Opened, Meters
    <2>3. Numbers(c.msn, 0, t, <<>>, <<>>, <<>>)
      BY <2>1, <2>2 DEF Numbers
    <2>4. QED
      BY <2>3 DEF Going
  <1>15. OnPath(c.msn, 0, t, Append(<<>>, c), nf', <<>>, nr', <<>>, <<>>)
    BY <1>12, <1>13, <1>14 DEF OnPath
  <1>16. /\ to_nr' = <<>> /\ nr_out' = <<>> /\ to_ni' = <<>>
         /\ 0 \in 0 .. 2
    BY <1>1, <1>3
  <1>17. OnPath(c.msn, 0, ni', ni_out', nf', to_nr', nr', nr_out', to_ni')
    BY <1>8, <1>15, <1>16 DEF t
  <1>18. QED
    BY <1>7, <1>16, <1>17 DEF MsnInv

LEMMA MsnStep ==
    ASSUME SessionsInv, PathInv, MsnInv, SessionsInv', [Next]_path_vars
    PROVE  MsnInv'
  <1>1. CASE UserConfigures
    BY <1>1, UserConfiguresMsn
  <1>2. CASE UserTearsDown \/ NiTimer \/ NiNotified \/ DeliverToNi
    BY <1>2, NiStepMsn, DeliverToNiMsn
  <1>3. CASE NfEvent \/ DeliverFromNi \/ DeliverFromNr
    BY <1>3, NfEventMsn, DeliverFromNiMsn, DeliverFromNrMsn
  <1>4. CASE NrTimer \/ DeliverToNr \/ Lose
    BY <1>4, NrTimerMsn, DeliverToNrMsn, LoseMsn
  <1>5. CASE UNCHANGED path_vars
    BY <1>5 DEF path_vars, MsnInv
  <1>6. QED
    BY <1>1, <1>2, <1>3, <1>4, <1>5 DEF Next

LEMMA MsnInvariant == Spec => [](SessionsInv /\ PathInv /\ MsnInv)
  BY SessionsInit, SessionsStep, PathInit, PathStep, MsnInit, MsnStep, PTL
  DEF Spec

LEMMA MsnAgrees ==
    ASSUME SessionsInv, MsnInv
    PROVE  MsnAgreement
  <1>1. PICK b \in Msns, w \in 0 .. 2 :
           OnPath(b, w, ni, ni_out, nf, to_nr, nr, nr_out, to_ni)
    BY DEF MsnInv
  <1>2. ni.msn \in Msns /\ nf.msn \in Msns /\ nr.msn \in Msns
    BY PathTypes
  <1>3. /\ Offset(b, ni.msn) \in Nat /\ Offset(b, nf.msn) \in Nat
        /\ Offset(b, nr.msn) \in Nat
    BY <1>2, OffsetFacts
  <1>4. Pipe(b, w, ni_out, nf, to_nr, nr)
    BY <1>1 DEF OnPath
  <1>5. nf.state # "CLOSE" => Offset(b, nf.msn) <= w
    BY <1>4 DEF Pipe
  <1>6. ASSUME nf.state = "METERING", nr.state = "METERING"
        PROVE  ~ NF!IsGreaterThan(nr.msn, nf.msn)
    <2>1. Offset(b, nr.msn) <= w /\ Offset(b, nf.msn) <= 2
      BY <1>3, <1>4, <1>5, <1>6 DEF Pipe
    <2>2. /\ Offset(b, nr.msn) >= 1 => Offset(b, nf.msn) >= 1
          /\ Offset(b, nr.msn) >= 2 => Offset(b, nf.msn) >= 2
      <3>1. Reached(b, 1, ni_out, nf, to_nr, nr)
            /\ Reached(b, 2, ni_out, nf, to_nr, nr)
        BY <1>4 DEF Pipe
      <3>2. QED
        BY <1>6, <3>1 DEF Reached, NodeUp
    <2>3. Offset(b, nr.msn) <= Offset(b, nf.msn)
      BY <1>3, <2>1, <2>2
    <2>4. QED
      BY <1>2, <2>1, <2>3, OffsetOrder
  <1>7. ASSUME ni.state # "CLOSE", nf.state # "CLOSE"
        PROVE  ~ NF!IsGreaterThan(nf.msn, ni.msn)
    <2>1. Offset(b, nf.msn) <= Offset(b, ni.msn) /\ Offset(b, ni.msn) <= 2
      <3>1. CASE Going(b, w, ni, ni_out, nf, to_nr, nr, nr_out, to_ni)
        BY <1>3, <1>5, <1>7, <3>1 DEF Going, Numbers
      <3>2. CASE w = 0 /\ Partly(b, ni, ni_out, nf, to_ni)
        BY <1>3, <1>5, <1>7, <3>2 DEF Partly, Ended
      <3>3. QED
        BY <1>1, <1>7, <3>1, <3>2 DEF OnPath
    <2>2. QED
      BY <1>2, <2>1, OffsetOrder
  <1>8. QED
    BY <1>6, <1>7 DEF MsnAgreement

(* No node is ahead of the node upstream, whatever was lost, repeated or   *)
(* given up on the way and wherever the numbers wrap around: a forwarder   *)
(* or responder only takes a number over from a request that was passed    *)
(* on, next_msg_sequence_number() is only called when the last request was *)
(* answered or its session ends, and so is_greater_than() never takes the  *)
(* NI's next REFRESH for a duplicate.                                      *)
THEOREM MsnAgreementSafe == Spec => []MsnAgreement
  BY MsnInvariant, MsnAgrees, PTL

=============================================================================
