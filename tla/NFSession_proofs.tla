-------------------------- MODULE NFSession_proofs --------------------------
(***************************************************************************)
(* The forwarder session: its safety invariants, the order of its sequence *)
(* numbers, and that it implements the metering contract.                  *)
(***************************************************************************)
EXTENDS NFSession, TLAPS

(***************************************************************************)
(* Sequence numbers, for every size of the number space.                   *)
(***************************************************************************)
(* next_msg_sequence_number() wraps from the greatest number to 0. *)
LEMMA NextMsnValue ==
    ASSUME NEW msn \in Msns
    PROVE  NextMsn(msn) = IF msn = MsnMod - 1 THEN 0 ELSE msn + 1
  BY LimitAssumption, Z3T(20) DEF NextMsn, Msns, MsnMod

LEMMA NextMsnType ==
    ASSUME NEW msn \in Msns
    PROVE  NextMsn(msn) \in Msns
  BY NextMsnValue, LimitAssumption DEF Msns, MsnMod

(* A new request number is greater than the one before it for every node   *)
(* that compares them with is_greater_than(), at the wrap around too.      *)
THEOREM NextMsnGreater ==
    ASSUME NEW msn \in Msns
    PROVE  IsGreaterThan(NextMsn(msn), msn)
  BY NextMsnValue, LimitAssumption DEF IsGreaterThan, Msns, MsnMod

(* is_greater_than() never holds in both directions, so a node that takes  *)
(* a REFRESH as new cannot take the one it replaced as new afterwards.     *)
THEOREM GreaterAsymmetric ==
    ASSUME NEW s1 \in Msns, NEW s2 \in Msns, IsGreaterThan(s1, s2)
    PROVE  ~ IsGreaterThan(s2, s1)
  BY LimitAssumption DEF IsGreaterThan, Msns, MsnMod

(* What is_greater_than() computes: s1 is reached from s2 by fewer than    *)
(* LIMIT increments, counted around the wrap.                              *)
THEOREM GreaterIsSerialOrder ==
    ASSUME NEW s1 \in Msns, NEW s2 \in Msns
    PROVE  IsGreaterThan(s1, s2) <=>
               \E d \in 1 .. (LIMIT - 1) : s1 = (s2 + d) % MsnMod
  <1>1. ASSUME NEW d \in 1 .. (LIMIT - 1)
        PROVE  (s2 + d) % MsnMod
                  = IF s2 + d < MsnMod THEN s2 + d ELSE s2 + d - MsnMod
    BY LimitAssumption, Z3T(20) DEF Msns, MsnMod
  <1>2. ASSUME IsGreaterThan(s1, s2)
        PROVE  \E d \in 1 .. (LIMIT - 1) : s1 = (s2 + d) % MsnMod
    <2>1. CASE s1 > s2
      <3>1. s1 - s2 \in 1 .. (LIMIT - 1) /\ s2 + (s1 - s2) = s1 /\ s1 < MsnMod
        BY <1>2, <2>1, LimitAssumption DEF IsGreaterThan, Msns, MsnMod
      <3>2. (s2 + (s1 - s2)) % MsnMod = s1
        BY <3>1, <1>1
      <3>3. QED
        BY <3>1, <3>2
    <2>2. CASE s1 < s2
      <3>1. /\ s1 - s2 + MsnMod \in 1 .. (LIMIT - 1)
            /\ s2 + (s1 - s2 + MsnMod) = s1 + MsnMod
            /\ ~(s1 + MsnMod < MsnMod) /\ s1 + MsnMod - MsnMod = s1
        BY <1>2, <2>2, LimitAssumption DEF IsGreaterThan, Msns, MsnMod
      <3>2. (s1 + MsnMod) % MsnMod = s1
        BY LimitAssumption, Z3T(20) DEF Msns, MsnMod
      <3>3. QED
        BY <3>1, <3>2
    <2>3. QED
      BY <1>2, <2>1, <2>2, LimitAssumption DEF IsGreaterThan, Msns, MsnMod
  <1>3. ASSUME NEW d \in 1 .. (LIMIT - 1), s1 = (s2 + d) % MsnMod
        PROVE  IsGreaterThan(s1, s2)
    BY <1>1, <1>3, LimitAssumption DEF IsGreaterThan, Msns, MsnMod
  <1>4. QED
    BY <1>2, <1>3

(***************************************************************************)
(* Types of what the handlers build and send.                              *)
(***************************************************************************)
LEMMA MinType ==
    ASSUME NEW a \in Lifetimes, NEW b \in Lifetimes
    PROVE  Min2(a, b) \in Lifetimes
  BY MaxLifetimeAssumption DEF Min2, Lifetimes

LEMMA NfLifetimeType ==
    ASSUME NEW m \in Message
    PROVE  NfLifetime(m) \in Lifetimes
  BY MinType, NFAssumption DEF NfLifetime, Message

LEMMA ZeroType == 0 \in Msns /\ 0 \in Lifetimes
  BY LimitAssumption, MaxLifetimeAssumption DEF Msns, MsnMod, Lifetimes

LEMMA NoMsgType == NoMsg \in Message
  BY ZeroType DEF NoMsg, Message, Smes

LEMMA ResponseType ==
    ASSUME NEW m \in Message
    PROVE  CreateResponse(m) \in Message
  BY ZeroType DEF CreateResponse, Message, Smes

LEMMA TakenType ==
    ASSUME NEW m \in Message, NEW checkable
    PROVE  Taken("forwarder", m.sme, m.objs, checkable) \in SUBSET Objects
  BY DEF Taken, Message

LEMMA BuildConfigureType ==
    ASSUME NEW s \in NfSession, NEW m \in Message, NEW taken
    PROVE  NfBuildConfigure(s, m, taken) \in Message
  <1>1. Min2(s.lifetime, m.lifetime) \in Lifetimes
    BY MinType DEF NfSession, Message
  <1>2. QED
    BY <1>1 DEF NfBuildConfigure, Configure, Message

(* The teardown a forwarder sends down when it cannot install. *)
LEMMA TeardownType ==
    ASSUME NEW msn \in Msns
    PROVE  Refresh(NextMsn(msn), 0) \in Message
  <1>1. NextMsn(msn) \in Msns
    BY LimitAssumption, Z3T(20) DEF NextMsn, Msns, MsnMod
  <1>2. QED
    BY <1>1, ZeroType DEF Refresh, Message, Smes

LEMMA AnyRequestType == \A m \in AnyRequest : m \in Message
  <1>1. ASSUME NEW msn \in Msns, NEW lifetime \in Lifetimes,
               NEW sme \in RequestSmes, NEW objs \in RequestObjs
        PROVE  Configure(msn, lifetime, sme, objs) \in Message
    BY NFAssumption DEF Configure, Message
  <1>2. ASSUME NEW msn \in Msns, NEW lifetime \in Lifetimes
        PROVE  Refresh(msn, lifetime) \in Message
    BY DEF Refresh, Message, Smes
  <1>3. QED
    BY <1>1, <1>2 DEF AnyRequest

LEMMA AnyAnswerType == \A m \in AnyAnswer : m \in Message
  <1> DEFINE answer(msn, ok, lifetime) ==
                 [kind |-> "RESPONSE", msn |-> msn, ok |-> ok, sme |-> "other",
                  objs |-> {}, downstream |-> FALSE,
                  lifetime |-> IF ok THEN lifetime ELSE 0]
  <1>1. ASSUME NEW msn \in Msns, NEW ok \in BOOLEAN, NEW lifetime \in Lifetimes
        PROVE  answer(msn, ok, lifetime) \in Message
    <2>1. (IF ok THEN lifetime ELSE 0) \in Lifetimes
      BY ZeroType
    <2>2. QED
      BY <2>1 DEF Message, Smes
  <1>2. \A m \in AnyAnswer : \E msn \in Msns, ok \in BOOLEAN, lifetime \in Lifetimes :
            m = answer(msn, ok, lifetime)
    BY DEF AnyAnswer
  <1> HIDE DEF answer
  <1>3. QED
    BY <1>1, <1>2

QueuesOK == to_nr \in Seq(Message) /\ to_ni \in Seq(Message)

LEMMA NfSendType ==
    ASSUME QueuesOK, NEW m \in Message, NfSend(m)
    PROVE  QueuesOK'
  <1>1. CASE m.downstream
    BY <1>1 DEF NfSend, QueuesOK
  <1>2. CASE ~m.downstream
    BY <1>2 DEF NfSend, QueuesOK
  <1>3. QED
    BY <1>1, <1>2

LEMMA NfSendBothType ==
    ASSUME QueuesOK, NEW m1 \in Message, NEW m2 \in Message, NfSendBoth(m1, m2)
    PROVE  QueuesOK'
  <1>1. <<m1, m2>> \in Seq(Message)
    OBVIOUS
  <1>2. CASE m2.downstream
    BY <1>1, <1>2 DEF NfSendBoth, QueuesOK
  <1>3. CASE ~m2.downstream
    BY <1>3 DEF NfSendBoth, QueuesOK
  <1>4. QED
    BY <1>2, <1>3

LEMMA NfSilentType ==
    ASSUME QueuesOK, NfSilent
    PROVE  QueuesOK'
  BY DEF NfSilent, QueuesOK

(***************************************************************************)
(* The invariant.  SessionOK is the part of it that is about the object.   *)
(***************************************************************************)
NfInv == NfTypeOK /\ NfRulesAccounted /\ NfSoftState /\ NfTimeoutHasRefresh

SessionOK(s) ==
    /\ s \in NfSession
    /\ s.metered # {} => s.state = "METERING" /\ s.metered \subseteq s.rule_keys
    /\ s.state # "CLOSE" /\ s.abort = "none" => s.state_timer
    /\ s.response_timer => s.state = "METERING"
                           /\ s.refresh_message.kind = "REFRESH"

LEMMA NfInvParts == NfInv <=> SessionOK(nf) /\ QueuesOK
  BY DEF NfInv, NfTypeOK, NfRulesAccounted, NfSoftState, NfTimeoutHasRefresh,
         SessionOK, QueuesOK

LEMMA NfInvPartsPrimed ==
    ASSUME SessionOK(nf'), QueuesOK'
    PROVE  NfInv'
  BY DEF NfInv, NfTypeOK, NfRulesAccounted, NfSoftState, NfTimeoutHasRefresh,
         SessionOK, QueuesOK

(* An object that holds no rules can be thrown away at any time. *)
LEMMA NfClosedOK ==
    ASSUME NEW s \in NfSession, s.metered = {}
    PROVE  /\ SessionOK(NfClosed(s))
           /\ NfClosed(s).state = "CLOSE" /\ NfClosed(s).metered = {}
           /\ NfClosed(s).abort = "none"
  <1>1. s.outdated \/ s.state_timer \/ s.response_timer \in BOOLEAN
    BY DEF NfSession
  <1>2. /\ NfClosed(s) \in NfSession
        /\ NfClosed(s).state = "CLOSE" /\ NfClosed(s).metered = {}
        /\ NfClosed(s).abort = "none" /\ NfClosed(s).response_timer = FALSE
    BY <1>1, ZeroType, NoMsgType DEF NfClosed, NewNfSession, NfSession, NfStates
  <1>3. QED
    BY <1>2 DEF SessionOK

(* What remove_policy_rules() leaves of a session that accounts for them. *)
LEMMA NfRemoveRulesEmpties ==
    ASSUME NEW s \in NfSession, s.metered \subseteq s.rule_keys
    PROVE  NfRemoveRules(s) \in NfSession /\ NfRemoveRules(s).metered = {}
  BY DEF NfRemoveRules, NfSession

LEMMA MeteredIsKeyed ==
    ASSUME SessionOK(nf)
    PROVE  nf \in NfSession /\ nf.metered \subseteq nf.rule_keys
  BY DEF SessionOK

(***************************************************************************)
(* What a step does to the parts the properties are about.                 *)
(***************************************************************************)
NfQuiet ==
    /\ nf'.state = nf.state /\ nf'.abort = nf.abort
    /\ nf'.metered = nf.metered
    /\ nf.state = "METERING" => nf'.msn = nf.msn

NfOpens ==
    /\ nf.abort = "none" /\ nf'.abort = "none"
    /\ nf.state = "CLOSE" /\ nf'.state = "PENDING"
    /\ nf'.metered = nf.metered

NfInstalls ==
    /\ nf.abort = "none" /\ nf'.abort = "none"
    /\ nf.state = "PENDING" /\ nf'.state = "METERING"
    /\ nf.metered = {} /\ nf'.metered \in SUBSET Objects

NfProlongs ==
    /\ nf.abort = "none" /\ nf'.abort = "none"
    /\ nf.state = "METERING" /\ nf'.state = "METERING"
    /\ nf'.metered = nf.metered
    /\ nf'.msn # nf.msn => IsGreaterThan(nf'.msn, nf.msn)

NfReleases ==
    /\ nf.abort = "none" /\ nf'.abort = "none"
    /\ nf.state \in {"PENDING", "METERING"} /\ nf'.state = "CLOSE"
    /\ nf'.metered = {}

NfDies ==
    /\ nf.abort = "none" /\ nf'.abort # "none"
    /\ nf'.state = nf.state /\ nf'.msn = nf.msn
    /\ nf'.metered \in {nf.metered, {}}

NfStepKind ==
    NfQuiet \/ NfOpens \/ NfInstalls \/ NfProlongs \/ NfReleases \/ NfDies

LEMMA NfSessionKept ==
    ASSUME NfInv, nf' = nf, QueuesOK'
    PROVE  NfInv' /\ NfStepKind
  <1>1. SessionOK(nf')
    BY NfInvParts
  <1>2. NfQuiet
    BY DEF NfQuiet
  <1>3. QED
    BY <1>1, <1>2, NfInvPartsPrimed DEF NfStepKind

LEMMA NfStutter ==
    ASSUME NfInv, UNCHANGED nf_vars
    PROVE  NfInv' /\ NfStepKind
  <1>1. nf' = nf /\ QueuesOK'
    BY NfInvParts DEF nf_vars, QueuesOK
  <1>2. QED
    BY <1>1, NfSessionKept

(* The session ends, with nothing left in the metering process. *)
LEMMA NfEnds ==
    ASSUME NfInv, NEW s \in NfSession, s.metered = {}, nf' = NfClosed(s),
           QueuesOK', nf.abort = "none"
    PROVE  NfInv' /\ NfStepKind
  <1>1. /\ SessionOK(nf') /\ nf'.state = "CLOSE" /\ nf'.metered = {}
        /\ nf'.abort = "none"
    BY NfClosedOK
  <1>2. /\ nf.state \in {"CLOSE", "PENDING", "METERING"}
        /\ nf.state = "CLOSE" => nf.metered = {}
    BY NfInvParts DEF SessionOK, NfSession, NfStates
  <1>3. NfQuiet \/ NfReleases
    BY <1>1, <1>2 DEF NfQuiet, NfReleases
  <1>4. QED
    BY <1>1, <1>3, NfInvPartsPrimed DEF NfStepKind

(***************************************************************************)
(* handle_state_close() and handle_state_pending().  Outside of METERING   *)
(* an object holds no rules and runs no response timer.                    *)
(***************************************************************************)
LEMMA NotMetering ==
    ASSUME NfInv, nf.state # "METERING"
    PROVE  /\ nf \in NfSession /\ QueuesOK
           /\ nf.metered = {} /\ nf.response_timer = FALSE
  BY NfInvParts DEF SessionOK, NfSession

LEMMA ProcessStateCloseStep ==
    ASSUME NfInv, nf.state \in {"CLOSE", "PENDING"}, nf.abort = "none",
           NEW m \in Message, NEW checkable, NEW lifetime \in Lifetimes,
           ProcessStateClose([nf EXCEPT !.lifetime = lifetime, !.msn = m.msn],
                             m, checkable)
    PROVE  NfInv' /\ NfStepKind
  <1> DEFINE s == [nf EXCEPT !.lifetime = lifetime, !.msn = m.msn]
             taken == Taken("forwarder", m.sme, m.objs, checkable)
             t == [s EXCEPT !.state = "PENDING", !.configure_message = m,
                            !.rule = @ \cup taken]
  <1>1. /\ nf \in NfSession /\ QueuesOK
        /\ nf.metered = {} /\ nf.response_timer = FALSE
    BY NotMetering
  <1>2. m.msn \in Msns /\ taken \in SUBSET Objects
    BY TakenType DEF Message
  <1>3. /\ s \in NfSession /\ s.metered = {} /\ s.response_timer = FALSE
        /\ s.abort = "none"
    BY <1>1, <1>2 DEF NfSession
  <1>4. NfSend(NfBuildConfigure(s, m, taken)) /\ nf' = StartStateTimer(t)
    BY DEF ProcessStateClose
  <1> HIDE DEF s, taken
  <1>5. QueuesOK'
    BY <1>1, <1>3, <1>4, BuildConfigureType, NfSendType
  <1>6. /\ t \in NfSession /\ t.metered = {} /\ t.response_timer = FALSE
        /\ t.abort = "none" /\ t.state = "PENDING"
    BY <1>2, <1>3 DEF NfSession, NfStates
  <1> HIDE DEF t
  <1>7. /\ nf' \in NfSession /\ nf'.metered = {} /\ nf'.response_timer = FALSE
        /\ nf'.abort = "none" /\ nf'.state = "PENDING" /\ nf'.state_timer = TRUE
    BY <1>4, <1>6 DEF StartStateTimer, NfSession
  <1>8. SessionOK(nf')
    BY <1>7 DEF SessionOK
  <1>9. NfQuiet \/ NfOpens
    BY <1>1, <1>7 DEF NfQuiet, NfOpens
  <1>10. QED
    BY <1>5, <1>8, <1>9, NfInvPartsPrimed DEF NfStepKind

LEMMA ProcessStateCloseNoMriStep ==
    ASSUME NfInv, nf.state \in {"CLOSE", "PENDING"}, nf.abort = "none",
           NEW m \in Message, ProcessStateCloseNoMri(m)
    PROVE  NfInv' /\ NfStepKind
  <1>1. nf \in NfSession /\ QueuesOK /\ nf.metered = {}
    BY NotMetering
  <1>2. QueuesOK'
    BY <1>1, ResponseType, NfSendType DEF ProcessStateCloseNoMri
  <1>3. QED
    BY <1>1, <1>2, NfEnds DEF ProcessStateCloseNoMri

LEMMA NfConfigureStep ==
    ASSUME NfInv, NEW m \in Message, NEW checkable, NEW pathcoupled,
           NfConfigure(m, checkable, pathcoupled)
           \/ NfPendingReplace(m, checkable, pathcoupled)
    PROVE  NfInv' /\ NfStepKind
  <1>1. CASE NfConfigure(m, checkable, pathcoupled)
    <2>1. nf.abort = "none" /\ nf.state = "CLOSE"
      BY <1>1 DEF NfConfigure, NfIn
    <2>2. \/ ProcessStateClose([nf EXCEPT !.lifetime = NfLifetime(m),
                                          !.msn = m.msn], m, checkable)
          \/ ProcessStateCloseNoMri(m)
      BY <1>1 DEF NfConfigure
    <2>3. QED
      BY <2>1, <2>2, NfLifetimeType, ProcessStateCloseStep,
         ProcessStateCloseNoMriStep
  <1>2. CASE NfPendingReplace(m, checkable, pathcoupled)
    <2>1. nf.abort = "none" /\ nf.state = "PENDING" /\ m.lifetime \in Lifetimes
      BY <1>2 DEF NfPendingReplace, NfIn, Message
    <2>2. \/ ProcessStateClose([nf EXCEPT !.lifetime = m.lifetime,
                                          !.msn = m.msn], m, checkable)
          \/ ProcessStateCloseNoMri(m)
      BY <1>2 DEF NfPendingReplace
    <2>3. QED
      BY <2>1, <2>2, ProcessStateCloseStep, ProcessStateCloseNoMriStep
  <1>3. QED
    BY <1>1, <1>2

(* The steps that end a pending session: nothing is installed yet. *)
LEMMA NfPendingEndsStep ==
    ASSUME NfInv, NEW m \in Message,
           \/ NfPendingTerminate(m) \/ NfPendingError(m)
           \/ NfPendingUnreachable \/ NfPendingStateTimer
    PROVE  NfInv' /\ NfStepKind
  <1>1. nf.abort = "none" /\ nf.state = "PENDING"
    BY DEF NfPendingTerminate, NfPendingError, NfPendingUnreachable,
           NfPendingStateTimer, NfIn
  <1>2. nf \in NfSession /\ QueuesOK /\ nf.metered = {}
    BY <1>1, NotMetering
  <1>3. CreateResponse(nf.configure_message) \in Message
    BY <1>2, ResponseType DEF NfSession
  <1>4. NfSend(m) \/ NfSend(CreateResponse(nf.configure_message))
    BY DEF NfPendingTerminate, NfPendingError, NfPendingUnreachable,
           NfPendingStateTimer
  <1>5. QueuesOK'
    BY <1>2, <1>3, <1>4, NfSendType
  <1>6. /\ [nf EXCEPT !.state_timer = FALSE] \in NfSession
        /\ [nf EXCEPT !.state_timer = FALSE].metered = {}
    BY <1>2 DEF NfSession
  <1>7. nf' = NfClosed(nf) \/ nf' = NfClosed([nf EXCEPT !.state_timer = FALSE])
    BY DEF NfPendingTerminate, NfPendingError, NfPendingUnreachable,
           NfPendingStateTimer
  <1>8. QED
    BY <1>1, <1>2, <1>5, <1>6, <1>7, NfEnds

LEMMA NfPendingResentStep ==
    ASSUME NfInv, NEW m \in Message, NfPendingResent(m)
    PROVE  NfInv' /\ NfStepKind
  <1>1. nf.abort = "none" /\ nf.state = "PENDING"
    BY DEF NfPendingResent, NfIn
  <1>2. /\ nf \in NfSession /\ QueuesOK
        /\ nf.metered = {} /\ nf.response_timer = FALSE
    BY <1>1, NotMetering
  <1>3. QueuesOK' /\ nf' = StartStateTimer(nf)
    BY <1>2, NfSendType DEF NfPendingResent
  <1>4. /\ nf' \in NfSession /\ nf'.state = "PENDING" /\ nf'.metered = {}
        /\ nf'.abort = "none" /\ nf'.response_timer = FALSE
        /\ nf'.state_timer = TRUE
    BY <1>1, <1>2, <1>3 DEF StartStateTimer, NfSession
  <1>5. SessionOK(nf') /\ NfQuiet
    BY <1>1, <1>2, <1>4 DEF SessionOK, NfQuiet
  <1>6. QED
    BY <1>3, <1>5, NfInvPartsPrimed DEF NfStepKind

LEMMA NfPendingSuccessStep ==
    ASSUME NfInv, NEW m \in Message, NEW result \in SUBSET nf.rule,
           NfPendingSuccess(m, result)
    PROVE  NfInv' /\ NfStepKind
  <1> DEFINE t == [nf EXCEPT !.state = "METERING", !.rule_keys = result,
                             !.metered = result]
  <1>1. nf.abort = "none" /\ nf.state = "PENDING"
    BY DEF NfPendingSuccess, NfIn
  <1>2. /\ nf \in NfSession /\ QueuesOK
        /\ nf.metered = {} /\ nf.response_timer = FALSE
    BY <1>1, NotMetering
  <1>3. QueuesOK' /\ nf' = StartStateTimer(t)
    BY <1>2, NfSendType DEF NfPendingSuccess
  <1>4. result \in SUBSET Objects
    BY <1>2 DEF NfSession
  <1>5. /\ t \in NfSession /\ t.state = "METERING" /\ t.abort = "none"
        /\ t.metered = result /\ t.rule_keys = result
        /\ t.response_timer = FALSE
    BY <1>1, <1>2, <1>4 DEF NfSession, NfStates
  <1> HIDE DEF t
  <1>6. /\ nf' \in NfSession /\ nf'.state = "METERING" /\ nf'.abort = "none"
        /\ nf'.metered = result /\ nf'.rule_keys = result
        /\ nf'.response_timer = FALSE /\ nf'.state_timer = TRUE
    BY <1>3, <1>5 DEF StartStateTimer, NfSession
  <1>7. SessionOK(nf') /\ NfInstalls
    BY <1>1, <1>2, <1>4, <1>6 DEF SessionOK, NfInstalls
  <1>8. QED
    BY <1>3, <1>7, NfInvPartsPrimed DEF NfStepKind

LEMMA NfPendingInstallFailsStep ==
    ASSUME NfInv, NEW m \in Message, NEW result \in SUBSET nf.rule,
           NfPendingInstallFails(m, result)
    PROVE  NfInv' /\ NfStepKind
  <1> DEFINE t == [nf EXCEPT !.rule_keys = result, !.metered = result]
  <1>1. nf.abort = "none" /\ nf.state = "PENDING"
    BY DEF NfPendingInstallFails, NfIn
  <1>2. nf \in NfSession /\ QueuesOK
    BY <1>1, NotMetering
  <1>3. Refresh(NextMsn(nf.msn), 0) \in Message
    BY <1>2, TeardownType DEF NfSession
  <1>4. QueuesOK' /\ nf' = NfClosed(NfRemoveRules(t))
    BY <1>2, <1>3, ResponseType, NfSendBothType DEF NfPendingInstallFails
  <1>5. t \in NfSession /\ t.metered \subseteq t.rule_keys
    BY <1>2 DEF NfSession
  <1> HIDE DEF t
  <1>6. QED
    BY <1>1, <1>4, <1>5, NfRemoveRulesEmpties, NfEnds

(***************************************************************************)
(* handle_state_metering().                                                *)
(***************************************************************************)
LEMMA InMetering ==
    ASSUME NfInv, nf.state = "METERING", nf.abort = "none"
    PROVE  /\ nf \in NfSession /\ QueuesOK /\ SessionOK(nf)
           /\ nf.metered \subseteq nf.rule_keys /\ nf.state_timer = TRUE
           /\ NfRemoveRules(nf) \in NfSession
           /\ NfRemoveRules(nf).metered = {}
  <1>1. /\ nf \in NfSession /\ QueuesOK /\ SessionOK(nf)
        /\ nf.metered \subseteq nf.rule_keys
    BY NfInvParts, MeteredIsKeyed
  <1>2. nf.state_timer \in BOOLEAN
    BY <1>1 DEF NfSession
  <1>3. nf.state_timer = TRUE
    BY <1>1, <1>2 DEF SessionOK
  <1>4. QED
    BY <1>1, <1>3, NfRemoveRulesEmpties

LEMMA NfRefreshStep ==
    ASSUME NfInv, NEW m \in Message, NfRefresh(m)
    PROVE  NfInv' /\ NfStepKind
  <1> DEFINE msn == IF NfLifetime(m) > 0 THEN m.msn ELSE nf.msn
             t == [nf EXCEPT !.lifetime = NfLifetime(m), !.refresh_message = m,
                             !.msn = msn]
  <1>1. /\ nf.abort = "none" /\ nf.state = "METERING"
        /\ m.kind = "REFRESH" /\ IsGreaterThan(m.msn, nf.msn)
    BY DEF NfRefresh, NfIn
  <1>2. nf \in NfSession /\ QueuesOK /\ SessionOK(nf) /\ nf.state_timer = TRUE
    BY <1>1, InMetering
  <1>3. QueuesOK'
    BY <1>2, NfSendType DEF NfRefresh
  <1>4. nf' = StartResponseTimer(t)
    BY DEF NfRefresh
  <1>5. /\ NfLifetime(m) \in Lifetimes /\ msn \in Msns
        /\ msn # nf.msn => IsGreaterThan(msn, nf.msn)
    BY <1>1, <1>2, NfLifetimeType DEF NfSession, Message
  <1> HIDE DEF msn
  <1>6. /\ t \in NfSession /\ t.state = "METERING" /\ t.abort = "none"
        /\ t.metered = nf.metered /\ t.rule_keys = nf.rule_keys
        /\ t.state_timer = TRUE /\ t.refresh_message = m /\ t.msn = msn
    BY <1>1, <1>2, <1>5 DEF NfSession
  <1> HIDE DEF t
  <1>7. /\ nf' \in NfSession /\ nf'.state = "METERING" /\ nf'.abort = "none"
        /\ nf'.metered = nf.metered /\ nf'.rule_keys = nf.rule_keys
        /\ nf'.state_timer = TRUE /\ nf'.refresh_message = m /\ nf'.msn = msn
    BY <1>4, <1>6 DEF StartResponseTimer, NfSession
  <1>8. SessionOK(nf')
    BY <1>1, <1>2, <1>7 DEF SessionOK
  <1>9. NfProlongs
    BY <1>1, <1>5, <1>7 DEF NfProlongs
  <1>10. QED
    BY <1>3, <1>8, <1>9, NfInvPartsPrimed DEF NfStepKind

(* The answers the forwarder gives in the place of its downstream peer. *)
LEMMA NfNoAnswerStep ==
    ASSUME NfInv, nf.state = "METERING", nf.abort = "none", NfNoAnswer
    PROVE  NfInv' /\ NfStepKind
  <1>1. /\ nf \in NfSession /\ QueuesOK /\ SessionOK(nf)
        /\ NfRemoveRules(nf) \in NfSession
        /\ NfRemoveRules(nf).metered = {}
    BY InMetering
  <1>2. CASE nf.refresh_message = NoMsg
    <2>1. /\ nf' = [NfRemoveRules(nf) EXCEPT !.state_timer = FALSE,
                                             !.abort = "no_next_node"]
          /\ NfSilent
      BY <1>2 DEF NfNoAnswer
    <2>2. /\ NfRemoveRules(nf).state = nf.state
          /\ NfRemoveRules(nf).response_timer = nf.response_timer
          /\ NfRemoveRules(nf).refresh_message = nf.refresh_message
          /\ NfRemoveRules(nf).msn = nf.msn
      BY <1>1 DEF NfRemoveRules, NfSession
    <2>3. /\ nf' \in NfSession /\ nf'.metered = {} /\ nf'.state = nf.state
          /\ nf'.abort = "no_next_node" /\ nf'.msn = nf.msn
          /\ nf'.response_timer = nf.response_timer
          /\ nf'.refresh_message = nf.refresh_message
      BY <1>1, <2>1, <2>2 DEF NfSession
    <2>4. SessionOK(nf')
      BY <1>1, <2>3 DEF SessionOK
    <2>5. NfDies
      BY <2>3 DEF NfDies
    <2>6. QED
      BY <1>1, <2>1, <2>4, <2>5, NfSilentType, NfInvPartsPrimed DEF NfStepKind
  <1>3. CASE nf.refresh_message # NoMsg
    <2>1. NfSend(CreateResponse(nf.refresh_message))
          /\ nf' = NfClosed(NfRemoveRules(nf))
      BY <1>3 DEF NfNoAnswer
    <2>2. QueuesOK'
      BY <1>1, <2>1, ResponseType, NfSendType DEF NfSession
    <2>3. QED
      BY <1>1, <2>1, <2>2, NfEnds
  <1>4. QED
    BY <1>2, <1>3

(* The steps that end a metering session without an answer of its own. *)
LEMMA NfMeteringEndsStep ==
    ASSUME NfInv, NEW m \in Message,
           NfRefreshError(m) \/ NfMeteringStateTimer \/ NfMeteringRouteChanged
    PROVE  NfInv' /\ NfStepKind
  <1> DEFINE t == [NfRemoveRules(nf) EXCEPT !.state_timer = FALSE]
  <1>1. nf.abort = "none" /\ nf.state = "METERING"
    BY DEF NfRefreshError, NfMeteringStateTimer, NfMeteringRouteChanged, NfIn
  <1>2. /\ QueuesOK /\ NfRemoveRules(nf) \in NfSession
        /\ NfRemoveRules(nf).metered = {}
    BY <1>1, InMetering
  <1>3. t \in NfSession /\ t.metered = {}
    BY <1>2 DEF NfSession
  <1>4. NfSend(m) \/ NfSilent
    BY DEF NfRefreshError, NfMeteringStateTimer, NfMeteringRouteChanged
  <1>5. QueuesOK'
    BY <1>2, <1>4, NfSendType, NfSilentType
  <1>6. nf' = NfClosed(NfRemoveRules(nf)) \/ nf' = NfClosed(t)
    BY DEF NfRefreshError, NfMeteringStateTimer, NfMeteringRouteChanged
  <1> HIDE DEF t
  <1>7. QED
    BY <1>1, <1>2, <1>3, <1>5, <1>6, NfEnds

LEMMA NfRefreshSuccessStep ==
    ASSUME NfInv, NEW m \in Message, NfRefreshSuccess(m)
    PROVE  NfInv' /\ NfStepKind
  <1>1. nf.abort = "none" /\ nf.state = "METERING"
    BY DEF NfRefreshSuccess, NfIn
  <1>2. /\ nf \in NfSession /\ QueuesOK /\ SessionOK(nf)
        /\ NfRemoveRules(nf) \in NfSession
        /\ NfRemoveRules(nf).metered = {}
    BY <1>1, InMetering
  <1>3. QueuesOK'
    BY <1>2, NfSendType DEF NfRefreshSuccess
  <1>4. CASE nf' = NfClosed(NfRemoveRules(nf))
    BY <1>1, <1>2, <1>3, <1>4, NfEnds
  <1>5. CASE nf' = StartStateTimer(nf)
    <2>1. /\ nf' \in NfSession /\ nf'.state = nf.state /\ nf'.msn = nf.msn
          /\ nf'.abort = nf.abort /\ nf'.metered = nf.metered
          /\ nf'.rule_keys = nf.rule_keys /\ nf'.state_timer = TRUE
          /\ nf'.response_timer = nf.response_timer
          /\ nf'.refresh_message = nf.refresh_message
      BY <1>2, <1>5 DEF StartStateTimer, NfSession
    <2>2. SessionOK(nf') /\ NfQuiet
      BY <1>2, <2>1 DEF SessionOK, NfQuiet
    <2>3. QED
      BY <1>3, <2>2, NfInvPartsPrimed DEF NfStepKind
  <1>6. QED
    BY <1>4, <1>5 DEF NfRefreshSuccess

(* A failed assertion leaves everything as it is. *)
LEMMA NfAbortStep ==
    ASSUME NfInv, nf.abort = "none",
           NEW reason \in {"outdated_timer", "message"}, NfAbort(reason)
    PROVE  NfInv' /\ NfStepKind
  <1>1. SessionOK(nf) /\ nf \in NfSession /\ QueuesOK
    BY NfInvParts DEF SessionOK
  <1>2. QueuesOK' /\ nf' = [nf EXCEPT !.abort = reason]
    BY <1>1, NfSilentType DEF NfAbort
  <1>3. /\ nf' \in NfSession /\ nf'.abort = reason /\ nf'.state = nf.state
        /\ nf'.msn = nf.msn /\ nf'.metered = nf.metered
        /\ nf'.rule_keys = nf.rule_keys
        /\ nf'.response_timer = nf.response_timer
        /\ nf'.refresh_message = nf.refresh_message
    BY <1>1, <1>2 DEF NfSession
  <1>4. SessionOK(nf') /\ NfDies
    BY <1>1, <1>3 DEF SessionOK, NfDies
  <1>5. QED
    BY <1>2, <1>4, NfInvPartsPrimed DEF NfStepKind

LEMMA NfMeteringOtherStep ==
    ASSUME NfInv, NEW m \in Message, NfMeteringOther(m)
    PROVE  NfInv' /\ NfStepKind
  <1>1. nf.abort = "none"
    BY DEF NfMeteringOther, NfIn
  <1>2. NfAbort("message") \/ UNCHANGED nf_vars
    BY DEF NfMeteringOther
  <1>3. QED
    BY <1>1, <1>2, NfAbortStep, NfStutter

LEMMA NfOutdatedTimerStep ==
    ASSUME NfInv, NfOutdatedTimer
    PROVE  NfInv' /\ NfStepKind
  <1>1. SessionOK(nf) /\ nf \in NfSession /\ QueuesOK /\ nf.abort = "none"
    BY NfInvParts DEF SessionOK, NfOutdatedTimer
  <1>2. CASE NfAbort("outdated_timer")
    BY <1>1, <1>2, NfAbortStep
  <1>3. CASE /\ \E more \in BOOLEAN : nf' = [nf EXCEPT !.outdated = more]
             /\ NfSilent
    <2>1. PICK more \in BOOLEAN : nf' = [nf EXCEPT !.outdated = more]
      BY <1>3
    <2>2. /\ nf' \in NfSession /\ nf'.abort = nf.abort /\ nf'.state = nf.state
          /\ nf'.msn = nf.msn /\ nf'.metered = nf.metered
          /\ nf'.rule_keys = nf.rule_keys
          /\ nf'.state_timer = nf.state_timer
          /\ nf'.response_timer = nf.response_timer
          /\ nf'.refresh_message = nf.refresh_message
      BY <1>1, <2>1 DEF NfSession
    <2>3. SessionOK(nf') /\ NfQuiet
      BY <1>1, <2>2 DEF SessionOK, NfQuiet
    <2>4. QED
      BY <1>1, <1>3, <2>3, NfSilentType, NfInvPartsPrimed DEF NfStepKind
  <1>4. QED
    BY <1>2, <1>3 DEF NfOutdatedTimer

LEMMA NfGistStep ==
    ASSUME NfInv, NfGistTakes
    PROVE  NfInv' /\ NfStepKind
  <1>1. QueuesOK
    BY NfInvParts
  <1>2. /\ to_nr # <<>> => Tail(to_nr) \in Seq(Message)
        /\ to_ni # <<>> => Tail(to_ni) \in Seq(Message)
    BY <1>1 DEF QueuesOK
  <1>3. QueuesOK' /\ nf' = nf
    BY <1>1, <1>2 DEF NfGistTakes, QueuesOK
  <1>4. QED
    BY <1>3, NfSessionKept

(***************************************************************************)
(* Every step keeps the invariant and is of one of the six kinds.          *)
(***************************************************************************)
LEMMA NfReceiveStep ==
    ASSUME NfInv, NEW m \in Message, NEW checkable, NfReceive(m, checkable)
    PROVE  NfInv' /\ NfStepKind
  <1>1. CASE NfConfigure(m, checkable, TRUE) \/ NfPendingReplace(m, checkable, TRUE)
    BY <1>1, NfConfigureStep
  <1>2. CASE NfCloseDiscard(m) \/ NfPendingDiscard(m) \/ NfRefreshDuplicate(m)
    BY <1>2, NfStutter DEF NfCloseDiscard, NfPendingDiscard, NfRefreshDuplicate
  <1>3. CASE NfPendingTerminate(m) \/ NfPendingError(m)
    BY <1>3, NfPendingEndsStep
  <1>4. CASE NfPendingResent(m)
    BY <1>4, NfPendingResentStep
  <1>5. CASE \E result \in SUBSET nf.rule :
                NfPendingSuccess(m, result) \/ NfPendingInstallFails(m, result)
    BY <1>5, NfPendingSuccessStep, NfPendingInstallFailsStep
  <1>6. CASE NfRefresh(m)
    BY <1>6, NfRefreshStep
  <1>7. CASE NfRefreshSuccess(m)
    BY <1>7, NfRefreshSuccessStep
  <1>8. CASE NfRefreshError(m)
    BY <1>8, NfMeteringEndsStep
  <1>9. CASE NfMeteringOther(m)
    BY <1>9, NfMeteringOtherStep
  <1>10. QED
    BY <1>1, <1>2, <1>3, <1>4, <1>5, <1>6, <1>7, <1>8, <1>9 DEF NfReceive

LEMMA NfStep ==
    ASSUME NfInv, [NfNext]_nf_vars
    PROVE  NfInv' /\ NfStepKind
  <1>1. CASE \E m \in AnyRequest \cup AnyAnswer, checkable \in SUBSET Objects :
                NfReceive(m, checkable)
    BY <1>1, AnyRequestType, AnyAnswerType, NfReceiveStep
  <1>2. CASE \E m \in AnyRequest : NfReceiveNoMri(m)
    BY <1>2, AnyRequestType, NfConfigureStep DEF NfReceiveNoMri
  <1>3. CASE NfTimeout
    <2>1. CASE NfPendingStateTimer
      BY <2>1, NoMsgType, NfPendingEndsStep
    <2>2. CASE NfMeteringStateTimer
      BY <2>2, NoMsgType, NfMeteringEndsStep
    <2>3. CASE NfMeteringResponseTimer
      BY <2>3, NfNoAnswerStep DEF NfMeteringResponseTimer, NfIn
    <2>4. CASE NfOutdatedTimer
      BY <2>4, NfOutdatedTimerStep
    <2>5. QED
      BY <1>3, <2>1, <2>2, <2>3, <2>4 DEF NfTimeout, NfStateTimeout
  <1>4. CASE NfNotification
    <2>1. CASE NfPendingUnreachable
      BY <2>1, NoMsgType, NfPendingEndsStep
    <2>2. CASE NfMeteringUnreachable
      BY <2>2, NfNoAnswerStep DEF NfMeteringUnreachable, NfIn
    <2>3. CASE NfMeteringRouteChanged
      BY <2>3, NoMsgType, NfMeteringEndsStep
    <2>4. QED
      BY <1>4, <2>1, <2>2, <2>3 DEF NfNotification
  <1>5. CASE NfGistTakes
    BY <1>5, NfGistStep
  <1>6. CASE UNCHANGED nf_vars
    BY <1>6, NfStutter
  <1>7. QED
    BY <1>1, <1>2, <1>3, <1>4, <1>5, <1>6 DEF NfNext

LEMMA NfInitInv == NfInit => NfInv
  BY ZeroType, NoMsgType
  DEF NfInit, NewNfSession, NfInv, NfTypeOK, NfSession, NfStates,
      NfRulesAccounted, NfSoftState, NfTimeoutHasRefresh

LEMMA NfInvariant == NfSpec => []NfInv
  <1>1. NfInv /\ [NfNext]_nf_vars => NfInv'
    BY NfStep
  <1>2. QED
    BY <1>1, NfInitInv, PTL DEF NfSpec

(***************************************************************************)
(* The theorems.                                                           *)
(***************************************************************************)

(* Type correctness of nf_session and of what it hands to GIST. *)
THEOREM NfTypeCorrect == NfSpec => []NfTypeOK
  <1>1. NfInv => NfTypeOK
    BY DEF NfInv
  <1>2. QED
    BY <1>1, NfInvariant, PTL

(* The forwarder meters only in METERING, and remove_policy_rules() knows  *)
(* every key it needs: a failed installation, an expired state timer, a    *)
(* peer that does not answer and a changed route all leave nothing behind. *)
THEOREM NfRulesSafe == NfSpec => []NfRulesAccounted
  <1>1. NfInv => NfRulesAccounted
    BY DEF NfInv
  <1>2. QED
    BY <1>1, NfInvariant, PTL

(* No handler leaves a session object without a state timer that ends it.  *)
THEOREM NfStateIsSoft == NfSpec => []NfSoftState
  <1>1. NfInv => NfSoftState
    BY DEF NfInv
  <1>2. QED
    BY <1>1, NfInvariant, PTL

(* While the response timer runs, handle_state_metering() has the REFRESH  *)
(* it answers when the timer fires.                                        *)
THEOREM NfTimerSafe == NfSpec => []NfTimeoutHasRefresh
  <1>1. NfInv => NfTimeoutHasRefresh
    BY DEF NfInv
  <1>2. QED
    BY <1>1, NfInvariant, PTL

(* A REFRESH that handle_state_metering() accepts moves the sequence       *)
(* number forward in the serial-number order; nothing moves it back.       *)
THEOREM NfMsnSafe == NfSpec => NfMsnForward
  <1>1. NfInv /\ [NfNext]_nf_vars
           => [nf.state = "METERING" /\ nf'.state = "METERING" /\ nf'.msn # nf.msn
                 => IsGreaterThan(nf'.msn, nf.msn)]_nf_vars
    BY NfStep DEF NfStepKind, NfQuiet, NfOpens, NfInstalls, NfProlongs,
                  NfReleases, NfDies
  <1>2. QED
    BY <1>1, NfInvariant, PTL DEF NfSpec, NfMsnForward

(* The forwarder implements the metering contract, the failed assertions   *)
(* of handle_state_metering() included, which may leave rules behind.      *)
THEOREM NfRefinesContract == NfSpec => NfImplementsContract
  <1>1. NfInit => Contract!ContractInit
    BY DEF NfInit, NewNfSession, Contract!ContractInit
  <1>2. NfInv /\ [NfNext]_nf_vars => [Contract!ContractNext]_Contract!contract_vars
    <2> SUFFICES ASSUME NfInv, [NfNext]_nf_vars
                 PROVE  [Contract!ContractNext]_Contract!contract_vars
      OBVIOUS
    <2>1. CASE NfQuiet
      BY <2>1 DEF NfQuiet, Contract!contract_vars
    <2>2. CASE NfOpens
      BY <2>2 DEF NfOpens, Contract!ContractNext, Contract!Open
    <2>3. CASE NfInstalls
      BY <2>3 DEF NfInstalls, Contract!ContractNext, Contract!Install
    <2>4. CASE NfProlongs
      BY <2>4 DEF NfProlongs, Contract!contract_vars
    <2>5. CASE NfReleases
      BY <2>5 DEF NfReleases, Contract!ContractNext, Contract!Release
    <2>6. CASE NfDies
      <3>1. nf.state # "DEAD"
        BY NfInvParts DEF SessionOK, NfSession, NfStates
      <3>2. QED
        BY <2>6, <3>1 DEF NfDies, Contract!ContractNext, Contract!Die
    <2>7. QED
      BY <2>1, <2>2, <2>3, <2>4, <2>5, <2>6, NfStep DEF NfStepKind
  <1>3. QED
    BY <1>1, <1>2, NfInvariant, PTL
    DEF NfSpec, NfImplementsContract, Contract!ContractSpec

=============================================================================
