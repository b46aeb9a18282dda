-------------------------- MODULE NRSession_proofs --------------------------
(***************************************************************************)
(* The responder session: its safety invariants, the order of its sequence *)
(* numbers, and that it implements the metering contract.                  *)
(***************************************************************************)
EXTENDS NRSession, TLAPS

(***************************************************************************)
(* Types of what the handlers build.                                       *)
(***************************************************************************)
LEMMA MinType ==
    ASSUME NEW a \in Lifetimes, NEW b \in Lifetimes
    PROVE  Min2(a, b) \in Lifetimes /\ Min2(a, b) <= b
  BY MaxLifetimeAssumption DEF Min2, Lifetimes

LEMMA NrLifetimeType ==
    ASSUME NEW m \in Message
    PROVE  NrLifetime(m) \in Lifetimes /\ NrLifetime(m) <= NrMaxLifetime
  BY MinType, NRAssumption DEF NrLifetime, Message

LEMMA ZeroType == 0 \in Msns /\ 0 \in Lifetimes /\ 0 <= NrMaxLifetime
  BY LimitAssumption, MaxLifetimeAssumption, NRAssumption
  DEF Msns, MsnMod, Lifetimes

LEMMA ResponseType ==
    ASSUME NEW m \in Message
    PROVE  /\ CreateResponse(m) \in Message
           /\ CreateResponse(m).lifetime = 0
  BY ZeroType DEF CreateResponse, Message, Smes

LEMMA SuccessResponseType ==
    ASSUME NEW m \in Message, NEW lifetime \in Lifetimes
    PROVE  /\ CreateSuccessResponse(m, lifetime) \in Message
           /\ CreateSuccessResponse(m, lifetime).lifetime = lifetime
  BY ResponseType DEF CreateSuccessResponse, CreateResponse, Message

LEMMA AnyRequestType == \A m \in AnyRequest : m \in Message
  <1>1. ASSUME NEW msn \in Msns, NEW lifetime \in Lifetimes,
               NEW sme \in RequestSmes, NEW objs \in RequestObjs
        PROVE  Configure(msn, lifetime, sme, objs) \in Message
    BY NRAssumption DEF Configure, Message
  <1>2. ASSUME NEW msn \in Msns, NEW lifetime \in Lifetimes
        PROVE  Refresh(msn, lifetime) \in Message
    BY DEF Refresh, Message, Smes
  <1>3. QED
    BY <1>1, <1>2 DEF AnyRequest

(* What the responder may put into its queue to GIST. *)
NrOutOK(q) ==
    /\ q \in Seq(Message)
    /\ \A i \in 1 .. Len(q) : q[i].lifetime <= NrMaxLifetime

LEMMA NrSendType ==
    ASSUME NEW m \in Message, m.lifetime <= NrMaxLifetime, NrOutOK(nr_out),
           NrSend(m)
    PROVE  NrOutOK(nr_out')
  <1>1. nr_out' = Append(nr_out, m) /\ nr_out' \in Seq(Message)
    BY DEF NrSend, NrOutOK
  <1>2. /\ Len(nr_out') = Len(nr_out) + 1 /\ Len(nr_out) \in Nat
        /\ \A i \in 1 .. Len(nr_out) : nr_out'[i] = nr_out[i]
        /\ nr_out'[Len(nr_out) + 1] = m
    BY <1>1 DEF NrOutOK
  <1>3. QED
    BY <1>1, <1>2 DEF NrOutOK

LEMMA NrTailType ==
    ASSUME NrOutOK(nr_out), nr_out # <<>>
    PROVE  NrOutOK(Tail(nr_out))
  <1>1. /\ Tail(nr_out) \in Seq(Message) /\ Len(nr_out) \in Nat
        /\ Len(Tail(nr_out)) = Len(nr_out) - 1
        /\ \A i \in 1 .. Len(Tail(nr_out)) : Tail(nr_out)[i] = nr_out[i + 1]
    BY DEF NrOutOK
  <1>2. QED
    BY <1>1 DEF NrOutOK

(***************************************************************************)
(* The handlers.  A closed session that holds no rules, and a session that *)
(* meters, are the two outcomes; every handler ends in one of them or      *)
(* leaves nr alone.                                                        *)
(***************************************************************************)
NrInv == NrTypeOK /\ NrRulesAccounted

LEMMA NrInvParts ==
    NrInv <=> nr \in NrSession /\ nr.lifetime <= NrMaxLifetime /\ NrOutOK(nr_out)
                /\ NrRulesAccounted
  BY DEF NrInv, NrTypeOK, NrOutOK

LEMMA NrClosedInv ==
    ASSUME NEW s \in NrSession, s.metered = {}, nr' = NrClosed(s),
           NrOutOK(nr_out')
    PROVE  NrInv' /\ nr'.state = "CLOSE" /\ nr'.metered = {}
  <1>1. /\ nr' \in NrSession /\ nr'.lifetime = 0
        /\ nr'.state = "CLOSE" /\ nr'.metered = {}
    BY ZeroType DEF NrClosed, NewNrSession, NrSession
  <1>2. QED
    BY <1>1, ZeroType DEF NrInv, NrTypeOK, NrOutOK, NrRulesAccounted

LEMMA NrRemoveRulesEmpties ==
    ASSUME NrInv
    PROVE  NrRemoveRules(nr) \in NrSession /\ NrRemoveRules(nr).metered = {}
  <1>1. nr \in NrSession /\ nr.metered \ nr.rule_keys = {}
    BY DEF NrInv, NrTypeOK, NrRulesAccounted
  <1>2. QED
    BY <1>1 DEF NrRemoveRules, NrSession

LEMMA NrRefuseInv ==
    ASSUME NrInv, NEW m \in Message, NEW checkable,
           NrRefuseLifetime(m) \/ NrRefuseObjects(m, checkable)
    PROVE  NrInv' /\ nr' = nr
  <1>1. nr' = nr /\ NrSend(CreateResponse(m))
    BY DEF NrRefuseLifetime, NrRefuseObjects
  <1>2. NrOutOK(nr_out')
    BY <1>1, ResponseType, ZeroType, NrSendType, NrInvParts
  <1>3. QED
    BY <1>1, <1>2 DEF NrInv, NrTypeOK, NrOutOK, NrRulesAccounted

LEMMA NrAcceptInv ==
    ASSUME NrInv, NEW m \in Message, NEW checkable, NEW result,
           NrAccept(m, checkable, result)
    PROVE  /\ NrInv'
           /\ nr.state = "CLOSE" /\ nr.metered = {} /\ nr'.state = "METERING"
           /\ nr'.metered \in SUBSET Objects
  <1>1. /\ nr \in NrSession /\ NrOutOK(nr_out)
        /\ nr.state = "CLOSE" /\ nr.metered = {}
    BY NrInvParts DEF NrAccept, NrRulesAccounted
  <1>2. NrLifetime(m) \in Lifetimes /\ NrLifetime(m) <= NrMaxLifetime
    BY NrLifetimeType
  <1>3. NrOutOK(nr_out')
    BY <1>1, <1>2, SuccessResponseType, NrSendType DEF NrAccept
  <1>4. result \in SUBSET Objects /\ m.msn \in Msns
    BY DEF NrAccept, Message
  <1>5. nr' = [nr EXCEPT !.state = "METERING", !.msn = m.msn,
                         !.lifetime = NrLifetime(m), !.state_timer = TRUE,
                         !.rule_keys = result, !.metered = result]
    BY DEF NrAccept
  <1>6. /\ nr' \in NrSession /\ nr'.lifetime = NrLifetime(m)
        /\ nr'.state = "METERING" /\ nr'.state_timer = TRUE
        /\ nr'.rule_keys = result /\ nr'.metered = result
    BY <1>1, <1>2, <1>4, <1>5 DEF NrSession
  <1>7. QED
    BY <1>1, <1>2, <1>3, <1>4, <1>6
    DEF NrInv, NrTypeOK, NrOutOK, NrRulesAccounted

LEMMA NrInstallFailsInv ==
    ASSUME NrInv, NEW m \in Message, NEW checkable, NEW result \in SUBSET m.objs,
           NrInstallFails(m, checkable, result)
    PROVE  /\ NrInv'
           /\ nr.state = "CLOSE" /\ nr'.state = "CLOSE"
           /\ nr.metered = {} /\ nr'.metered = {}
  <1> DEFINE s == [nr EXCEPT !.rule_keys = result, !.metered = @ \cup result]
  <1>1. /\ nr \in NrSession /\ NrOutOK(nr_out)
        /\ nr.state = "CLOSE" /\ nr.metered = {}
    BY NrInvParts DEF NrInstallFails, NrRulesAccounted
  <1>2. NrOutOK(nr_out')
    BY <1>1, ResponseType, ZeroType, NrSendType DEF NrInstallFails
  <1>3. result \in SUBSET Objects
    BY DEF Message
  <1>4. NrRemoveRules(s) \in NrSession /\ NrRemoveRules(s).metered = {}
    BY <1>1, <1>3 DEF NrRemoveRules, NrSession
  <1>5. nr' = NrClosed(NrRemoveRules(s))
    BY DEF NrInstallFails
  <1> HIDE DEF s
  <1>6. QED
    BY <1>1, <1>2, <1>4, <1>5, NrClosedInv

LEMMA NrRefreshInv ==
    ASSUME NrInv, NEW m \in Message, NrRefresh(m)
    PROVE  /\ NrInv' /\ nr.state = "METERING" /\ nr'.state = "METERING"
           /\ nr'.metered = nr.metered
           /\ nr'.msn = m.msn /\ IsGreaterThan(m.msn, nr.msn)
  <1>1. /\ nr \in NrSession /\ NrOutOK(nr_out) /\ nr.state = "METERING"
    BY NrInvParts DEF NrRefresh
  <1>2. NrLifetime(m) \in Lifetimes /\ NrLifetime(m) <= NrMaxLifetime
    BY NrLifetimeType
  <1>3. NrOutOK(nr_out')
    BY <1>1, <1>2, SuccessResponseType, NrSendType DEF NrRefresh
  <1>4. m.msn \in Msns /\ IsGreaterThan(m.msn, nr.msn)
    BY DEF NrRefresh, Message
  <1>5. nr' = [nr EXCEPT !.lifetime = NrLifetime(m), !.msn = m.msn,
                         !.state_timer = TRUE]
    BY DEF NrRefresh
  <1>6. /\ nr' \in NrSession /\ nr'.lifetime = NrLifetime(m)
        /\ nr'.state = "METERING" /\ nr'.state_timer = TRUE
        /\ nr'.rule_keys = nr.rule_keys /\ nr'.metered = nr.metered
        /\ nr'.msn = m.msn
    BY <1>1, <1>2, <1>4, <1>5 DEF NrSession
  <1>7. QED
    BY <1>1, <1>2, <1>3, <1>4, <1>6
    DEF NrInv, NrTypeOK, NrOutOK, NrRulesAccounted

(* The NI tears the session down, or its lifetime has run out. *)
LEMMA NrReleaseInv ==
    ASSUME NrInv, NEW m \in Message, NrTeardown(m) \/ NrStateTimeout
    PROVE  /\ NrInv' /\ nr.state = "METERING" /\ nr'.state = "CLOSE"
           /\ nr'.metered = {}
  <1>1. NrOutOK(nr_out) /\ 0 \in Lifetimes /\ 0 <= NrMaxLifetime
    BY NrInvParts, ZeroType
  <1>2. CASE NrTeardown(m)
    <2>1. NrOutOK(nr_out')
      BY <1>1, <1>2, SuccessResponseType, NrSendType DEF NrTeardown
    <2>2. QED
      BY <1>2, <2>1, NrRemoveRulesEmpties, NrClosedInv DEF NrTeardown
  <1>3. CASE NrStateTimeout
    BY <1>1, <1>3, NrRemoveRulesEmpties, NrClosedInv DEF NrStateTimeout
  <1>4. QED
    BY <1>2, <1>3

(***************************************************************************)
(* What a step does to the parts the properties are about.                 *)
(***************************************************************************)
NrQuiet ==
    /\ nr'.state = nr.state /\ nr'.metered = nr.metered
    /\ nr.state = "METERING" => nr'.msn = nr.msn

NrInstalls ==
    /\ nr.state = "CLOSE" /\ nr.metered = {}
    /\ nr'.state = "METERING" /\ nr'.metered \in SUBSET Objects

NrProlongs ==
    /\ nr.state = "METERING" /\ nr'.state = "METERING"
    /\ nr'.metered = nr.metered
    /\ IsGreaterThan(nr'.msn, nr.msn)

NrReleases ==
    nr.state = "METERING" /\ nr'.state = "CLOSE" /\ nr'.metered = {}

LEMMA NrStep ==
    ASSUME NrInv, [NrNext]_nr_vars
    PROVE  NrInv' /\ (NrQuiet \/ NrInstalls \/ NrProlongs \/ NrReleases)
  <1>1. ASSUME UNCHANGED nr_vars
        PROVE  NrInv' /\ NrQuiet
    BY <1>1 DEF nr_vars, NrInv, NrTypeOK, NrRulesAccounted, NrQuiet
  <1>2. CASE \E m \in AnyRequest, checkable \in SUBSET Objects :
                NrReceive(m, checkable)
    <2>1. PICK m \in AnyRequest, checkable \in SUBSET Objects :
                 NrReceive(m, checkable)
      BY <1>2
    <2>2. m \in Message
      BY AnyRequestType
    <2>3. CASE NrRefuseLifetime(m) \/ NrRefuseObjects(m, checkable)
      BY <2>2, <2>3, NrRefuseInv DEF NrQuiet
    <2>4. CASE \E result \in SUBSET m.objs : NrAccept(m, checkable, result)
      BY <2>2, <2>4, NrAcceptInv DEF NrInstalls
    <2>5. CASE \E result \in SUBSET m.objs : NrInstallFails(m, checkable, result)
      <3>1. PICK result \in SUBSET m.objs : NrInstallFails(m, checkable, result)
        BY <2>5
      <3>2. /\ NrInv' /\ nr.state = "CLOSE" /\ nr'.state = "CLOSE"
            /\ nr.metered = {} /\ nr'.metered = {}
        BY <2>2, <3>1, NrInstallFailsInv
      <3>3. QED
        BY <3>2 DEF NrQuiet
    <2>6. CASE NrRefresh(m)
      BY <2>2, <2>6, NrRefreshInv DEF NrProlongs
    <2>7. CASE NrTeardown(m)
      BY <2>2, <2>7, NrReleaseInv DEF NrReleases
    <2>8. CASE NrCloseDiscard(m) \/ NrMeteringDiscard(m)
      BY <1>1, <2>8 DEF NrCloseDiscard, NrMeteringDiscard
    <2>9. QED
      BY <2>1, <2>3, <2>4, <2>5, <2>6, <2>7, <2>8 DEF NrReceive
  <1>3. CASE \E m \in AnyRequest : NrConfigureNoMri(m)
    BY <1>1, <1>3 DEF NrConfigureNoMri
  <1>4. CASE NrStateTimeout
    <2>1. NoMsg \in Message
      BY ZeroType DEF NoMsg, Message, Smes
    <2>2. QED
      BY <1>4, <2>1, NrReleaseInv DEF NrReleases
  <1>5. CASE NrGistTakes
    <2>1. nr' = nr /\ NrOutOK(nr_out')
      BY <1>5, NrTailType, NrInvParts DEF NrGistTakes
    <2>2. QED
      BY <2>1 DEF NrInv, NrTypeOK, NrOutOK, NrRulesAccounted, NrQuiet
  <1>6. QED
    BY <1>1, <1>2, <1>3, <1>4, <1>5 DEF NrNext

LEMMA NrInitInv == NrInit => NrInv
  BY ZeroType DEF NrInit, NewNrSession, NrInv, NrTypeOK, NrSession,
                  NrRulesAccounted

LEMMA NrInvariant == NrSpec => []NrInv
  <1>1. NrInv /\ [NrNext]_nr_vars => NrInv'
    BY NrStep
  <1>2. QED
    BY <1>1, NrInitInv, PTL DEF NrSpec

(***************************************************************************)
(* The theorems.                                                           *)
(***************************************************************************)

(* Type correctness: handle_state_close() and handle_state_metering() never *)
(* hold or grant more than nr_max_session_lifetime.                         *)
THEOREM NrTypeCorrect == NrSpec => []NrTypeOK
  <1>1. NrInv => NrTypeOK
    BY DEF NrInv
  <1>2. QED
    BY <1>1, NrInvariant, PTL

(* The responder meters only in a session whose state timer runs, and its  *)
(* rule knows every key remove_policy_rules() needs.                       *)
THEOREM NrRulesSafe == NrSpec => []NrRulesAccounted
  <1>1. NrInv => NrRulesAccounted
    BY DEF NrInv
  <1>2. QED
    BY <1>1, NrInvariant, PTL

(* A REFRESH that handle_state_metering() accepts moves the sequence       *)
(* number forward in the serial-number order; nothing moves it back.       *)
THEOREM NrMsnSafe == NrSpec => NrMsnForward
  <1>1. NrInv /\ [NrNext]_nr_vars
           => [nr.state = "METERING" /\ nr'.state = "METERING" /\ nr'.msn # nr.msn
                 => IsGreaterThan(nr'.msn, nr.msn)]_nr_vars
    BY NrStep DEF NrQuiet, NrInstalls, NrProlongs, NrReleases
  <1>2. QED
    BY <1>1, NrInvariant, PTL DEF NrSpec, NrMsnForward

(* The responder implements the metering contract: it installs rules only  *)
(* when a session enters METERING and takes all of them away when it       *)
(* leaves, also when an installation fails half way.                       *)
THEOREM NrRefinesContract == NrSpec => NrImplementsContract
  <1>1. NrInit => Contract!ContractInit
    BY DEF NrInit, NewNrSession, Contract!ContractInit
  <1>2. NrInv /\ [NrNext]_nr_vars => [Contract!ContractNext]_Contract!contract_vars
    BY NrStep DEF NrQuiet, NrInstalls, NrProlongs, NrReleases,
                  Contract!ContractNext, Contract!Install, Contract!Release,
                  Contract!contract_vars
  <1>3. QED
    BY <1>1, <1>2, NrInvariant, PTL
    DEF NrSpec, NrImplementsContract, Contract!ContractSpec

=============================================================================
