-------------------------- MODULE NISession_proofs --------------------------
(***************************************************************************)
(* The safety invariants of the initiator session, proved for every number *)
(* space, set of objects, retry limit and queue bound.                     *)
(***************************************************************************)
EXTENDS NISession, TLAPS

(* next_msg_sequence_number() stays in the number space. *)
LEMMA NextMsnType ==
    ASSUME NEW msn \in Msns
    PROVE  NextMsn(msn) \in Msns
  BY LimitAssumption, Z3T(20) DEF NextMsn, Msns, MsnMod

(***************************************************************************)
(* Types of the messages and of the session records the handlers build.    *)
(***************************************************************************)
LEMMA NoMsgType == NoMsg \in Message
  BY LimitAssumption, MaxLifetimeAssumption
  DEF NoMsg, Message, Msns, MsnMod, Lifetimes, Smes

LEMMA ConfigureType ==
    ASSUME NEW msn \in Msns, NEW lifetime \in Lifetimes, NEW sme \in Smes,
           NEW objs \in SUBSET Objects
    PROVE  /\ Configure(msn, lifetime, sme, objs) \in Message
           /\ Configure(msn, lifetime, sme, objs).kind = "CONFIGURE"
           /\ Configure(msn, lifetime, sme, objs).msn = msn
  BY DEF Configure, Message

LEMMA RefreshType ==
    ASSUME NEW msn \in Msns, NEW lifetime \in Lifetimes
    PROVE  /\ Refresh(msn, lifetime) \in Message
           /\ Refresh(msn, lifetime).kind = "REFRESH"
           /\ Refresh(msn, lifetime).msn = msn
  BY DEF Refresh, Message, Smes

LEMMA ZeroType == 0 \in Msns /\ 0 \in Lifetimes /\ 0 \in 0 .. MaxRetries
  BY LimitAssumption, MaxLifetimeAssumption, NIAssumption
  DEF Msns, MsnMod, Lifetimes

LEMMA NewNiSessionType ==
    ASSUME NEW msn \in Msns
    PROVE  NewNiSession(msn) \in NiSession
  BY ZeroType, NoMsgType DEF NewNiSession, NiSession, NiStates

LEMMA NiClosedType ==
    ASSUME NEW s \in NiSession
    PROVE  /\ NiClosed(s) \in NiSession
           /\ NiClosed(s).state = "CLOSE"
           /\ NiClosed(s).metered = s.metered
           /\ NiClosed(s).response_timer = FALSE
           /\ NiClosed(s).refresh_timer = FALSE
  BY ZeroType, NewNiSessionType DEF NiClosed, NewNiSession, NiSession

LEMMA NiRemoveRulesType ==
    ASSUME NEW s \in NiSession
    PROVE  /\ NiRemoveRules(s) \in NiSession
           /\ NiRemoveRules(s).metered = s.metered \ s.rule_keys
  BY DEF NiRemoveRules, NiSession

LEMMA SetupIntervalType ==
    ASSUME NEW lifetime \in Lifetimes
    PROVE  SetupInterval(lifetime) \in Nat
  BY NIAssumption, MaxLifetimeAssumption DEF SetupInterval, Lifetimes

LEMMA CalRefreshIntervalType ==
    ASSUME NEW lifetime \in Lifetimes
    PROVE  CalRefreshInterval(lifetime) \in Nat
  BY LimitAssumption, MaxLifetimeAssumption
  DEF CalRefreshInterval, Uint32Mod, MsnMod, Lifetimes

(* Both ways to compute the refresh interval leave time before expiry. *)
LEMMA CeilingBelow ==
    ASSUME NEW l \in Nat, NEW d \in Nat, l >= 2, d >= 9
    PROVE  (4 * l + d - 1) \div d < l
  <1>1. l * d >= 4 * l + d
    <2>1. (l - 2) * (d - 9) >= 0
      OBVIOUS
    <2>2. (l - 2) * (d - 9) = l * d - 9 * l - 2 * d + 18
      OBVIOUS
    <2>3. QED
      BY <2>1, <2>2
  <1>2. QED
    BY <1>1, Z3T(20)

LEMMA SetupIntervalBelow ==
    ASSUME NEW lifetime \in Lifetimes, lifetime >= 2, MaxRetries >= 1
    PROVE  SetupInterval(lifetime) < lifetime
  <1>1. 3 * (2 * MaxRetries + 1) \in Nat /\ 3 * (2 * MaxRetries + 1) >= 9
    BY NIAssumption
  <1>2. lifetime \in Nat
    BY MaxLifetimeAssumption DEF Lifetimes
  <1>3. QED
    BY <1>1, <1>2, CeilingBelow DEF SetupInterval

LEMMA CalRefreshIntervalBelow ==
    ASSUME NEW lifetime \in Lifetimes, lifetime >= 2
    PROVE  CalRefreshInterval(lifetime) < lifetime
  <1>1. lifetime \in Nat /\ Uint32Mod \in Nat /\ Uint32Mod >= 4
    BY LimitAssumption, MaxLifetimeAssumption
    DEF Lifetimes, Uint32Mod, MsnMod
  <1>2. (2 * lifetime) % Uint32Mod \in Nat
        /\ (2 * lifetime) % Uint32Mod <= 2 * lifetime
    BY <1>1, Z3T(20)
  <1>3. QED
    BY <1>1, <1>2 DEF CalRefreshInterval

LEMMA AppendType ==
    ASSUME NEW m \in Message, ni_out \in Seq(Message), NiSend(m)
    PROVE  ni_out' \in Seq(Message)
  BY DEF NiSend

(***************************************************************************)
(* The inductive invariant.  The safety invariants need one another: a     *)
(* session that is wound up holds rules only in METERING, and a retry      *)
(* finds its message because a response timer runs in no other situation.  *)
(* NiIntervalOfSetup is what NiRefreshBeforeExpiry needs of PENDING: an    *)
(* answer that leaves the lifetime alone keeps the interval of the setup.  *)
(***************************************************************************)
NiIntervalOfSetup ==
    ni.state = "PENDING" /\ ni.last_configure # NoMsg
        => ni.refresh_interval = SetupInterval(ni.lifetime)

NiInv ==
    /\ NiTypeOK
    /\ NiRulesAccounted
    /\ NiOneTimerRuns
    /\ NiRetryHasMessage
    /\ NiIntervalOfSetup
    /\ NiRefreshBeforeExpiry

LEMMA NiInitInv == NiInit => NiInv
  <1>1. NiInit => NiTypeOK
    BY ZeroType, NewNiSessionType DEF NiInit, NiTypeOK
  <1>2. NiInit => /\ NiRulesAccounted /\ NiOneTimerRuns /\ NiRetryHasMessage
                  /\ NiIntervalOfSetup /\ NiRefreshBeforeExpiry
    BY DEF NiInit, NewNiSession, NiRulesAccounted, NiOneTimerRuns,
           NiRetryHasMessage, NiIntervalOfSetup, NiRefreshBeforeExpiry
  <1>3. QED
    BY <1>1, <1>2 DEF NiInv

(* A session that is closed with its rules removed satisfies everything. *)
LEMMA NiClosedInv ==
    ASSUME NiTypeOK, NEW s \in NiSession, s.metered = {},
           ni' = NiClosed(s), ni_out' \in Seq(Message)
    PROVE  NiInv'
  <1>1. /\ ni' \in NiSession /\ ni'.state = "CLOSE" /\ ni'.metered = {}
        /\ ni'.response_timer = FALSE
    BY NiClosedType
  <1>2. QED
    BY <1>1 DEF NiInv, NiTypeOK, NiRulesAccounted, NiOneTimerRuns,
                NiRetryHasMessage, NiIntervalOfSetup, NiRefreshBeforeExpiry

LEMMA NiAbortInv ==
    ASSUME NiInv, NEW reason \in {"interval", "configure_msg", "refresh_msg", "state"},
           NiAbort(reason)
    PROVE  NiInv'
  <1>1. /\ ni' \in NiSession
        /\ ni_out' = ni_out
        /\ ni'.state = ni.state /\ ni'.metered = ni.metered
        /\ ni'.rule_keys = ni.rule_keys
        /\ ni'.response_timer = ni.response_timer
        /\ ni'.refresh_timer = ni.refresh_timer
        /\ ni'.last_configure = ni.last_configure
        /\ ni'.last_refresh = ni.last_refresh
        /\ ni'.lifetime = ni.lifetime
        /\ ni'.refresh_interval = ni.refresh_interval
    BY DEF NiInv, NiTypeOK, NiAbort, NiSession
  <1>2. QED
    BY <1>1 DEF NiInv, NiTypeOK, NiRulesAccounted, NiOneTimerRuns,
                NiRetryHasMessage, NiIntervalOfSetup, NiRefreshBeforeExpiry

(***************************************************************************)
(* One lemma per handler that leaves the session open.                     *)
(***************************************************************************)
LEMMA NiApiConfigureInv ==
    ASSUME NiInv, NEW msn \in Msns, NEW lifetime \in Lifetimes,
           NEW sme \in Smes, NEW objs \in SUBSET Objects,
           NEW checkable \in SUBSET Objects,
           NiApiConfigure(msn, lifetime, sme, objs, checkable)
    PROVE  NiInv'
  <1> DEFINE s == SetupSession([NewNiSession(msn) EXCEPT !.metered = ni.metered],
                               lifetime, sme, objs, checkable)
             c == BuildConfigure(s, lifetime, sme, objs)
  <1>1. ni.metered = {} /\ ni \in NiSession /\ ni_out \in Seq(Message)
    BY DEF NiInv, NiTypeOK, NiRulesAccounted, NiApiConfigure, NiIn
  <1>2. Taken("initiator", sme, objs, checkable) \in SUBSET Objects
    BY DEF Taken
  <1>3. /\ s \in NiSession
        /\ s.lifetime = lifetime /\ s.msn = msn
        /\ s.refresh_interval = SetupInterval(lifetime)
        /\ s.metered = {} /\ s.refresh_timer = FALSE
    BY <1>1, <1>2, NewNiSessionType, SetupIntervalType
    DEF SetupSession, NewNiSession, NiSession
  <1>4. Min2(s.lifetime, lifetime) \in Lifetimes
    BY <1>3 DEF Min2
  <1>5. /\ c \in Message /\ c.kind = "CONFIGURE" /\ c.msn \in Msns
    BY <1>3, <1>4, NextMsnType, ConfigureType DEF BuildConfigure
  <1>6. /\ NiSend(c)
        /\ ni' = [s EXCEPT !.state = "PENDING", !.msn = c.msn,
                           !.last_configure = c, !.response_timer = TRUE]
    BY DEF NiApiConfigure
  <1>7. ni_out' \in Seq(Message)
    BY <1>1, <1>5, <1>6, AppendType
  <1> HIDE DEF s, c
  <1>8. /\ ni' \in NiSession
        /\ ni'.state = "PENDING" /\ ni'.last_configure = c
        /\ ni'.response_timer = TRUE /\ ni'.refresh_timer = FALSE
        /\ ni'.metered = {} /\ ni'.lifetime = lifetime
        /\ ni'.refresh_interval = SetupInterval(lifetime)
    BY <1>3, <1>5, <1>6 DEF NiSession, NiStates
  <1>9. QED
    BY <1>5, <1>7, <1>8 DEF NiInv, NiTypeOK, NiRulesAccounted, NiOneTimerRuns,
                NiRetryHasMessage, NiIntervalOfSetup, NiRefreshBeforeExpiry

LEMMA NiConfigureRetryInv ==
    ASSUME NiInv, NiConfigureRetry
    PROVE  NiInv'
  <1>1. ni_out' \in Seq(Message)
    BY AppendType DEF NiInv, NiTypeOK, NiConfigureRetry, NiSession
  <1>2. /\ ni' \in NiSession
        /\ ni'.state = ni.state /\ ni'.metered = ni.metered
        /\ ni'.rule_keys = ni.rule_keys
        /\ ni'.response_timer = ni.response_timer
        /\ ni'.refresh_timer = ni.refresh_timer
        /\ ni'.last_configure = ni.last_configure
        /\ ni'.last_refresh = ni.last_refresh
        /\ ni'.lifetime = ni.lifetime
        /\ ni'.refresh_interval = ni.refresh_interval
    <2>1. /\ ni \in NiSession
          /\ ni' = [ni EXCEPT !.configure_counter = ni.configure_counter + 1]
          /\ ni.configure_counter < MaxRetries
      BY DEF NiInv, NiTypeOK, NiConfigureRetry
    <2>2. ni.configure_counter + 1 \in 0 .. MaxRetries
      BY <2>1, NIAssumption DEF NiSession
    <2>3. QED
      BY <2>1, <2>2 DEF NiSession
  <1>3. QED
    BY <1>1, <1>2 DEF NiInv, NiTypeOK, NiRulesAccounted, NiOneTimerRuns,
                NiRetryHasMessage, NiIntervalOfSetup, NiRefreshBeforeExpiry

LEMMA NiRefreshRetryInv ==
    ASSUME NiInv, NiRefreshRetry
    PROVE  NiInv'
  <1>1. ni_out' \in Seq(Message)
    BY AppendType DEF NiInv, NiTypeOK, NiRefreshRetry, NiSession
  <1>2. /\ ni' \in NiSession
        /\ ni'.state = ni.state /\ ni'.metered = ni.metered
        /\ ni'.rule_keys = ni.rule_keys
        /\ ni'.response_timer = ni.response_timer
        /\ ni'.refresh_timer = ni.refresh_timer
        /\ ni'.last_configure = ni.last_configure
        /\ ni'.last_refresh = ni.last_refresh
        /\ ni'.lifetime = ni.lifetime
        /\ ni'.refresh_interval = ni.refresh_interval
    <2>1. /\ ni \in NiSession
          /\ ni' = [ni EXCEPT !.refresh_counter = ni.refresh_counter + 1]
          /\ ni.refresh_counter < MaxRetries
      BY DEF NiInv, NiTypeOK, NiRefreshRetry
    <2>2. ni.refresh_counter + 1 \in 0 .. MaxRetries
      BY <2>1, NIAssumption DEF NiSession
    <2>3. QED
      BY <2>1, <2>2 DEF NiSession
  <1>3. QED
    BY <1>1, <1>2 DEF NiInv, NiTypeOK, NiRulesAccounted, NiOneTimerRuns,
                NiRetryHasMessage, NiIntervalOfSetup, NiRefreshBeforeExpiry

LEMMA NiPendingRefreshTimerInv ==
    ASSUME NiInv, NiPendingRefreshTimer
    PROVE  NiInv'
  <1>1. ni.state = "PENDING" /\ ni.refresh_timer = TRUE /\ ni \in NiSession
    BY DEF NiInv, NiTypeOK, NiPendingRefreshTimer, NiIn, NiSession
  <1>2. /\ ni' \in NiSession /\ ni_out' = ni_out
        /\ ni'.state = "PENDING" /\ ni'.metered = ni.metered
        /\ ni'.response_timer = ni.response_timer
        /\ ni'.last_configure = ni.last_configure
    BY <1>1 DEF NiPendingRefreshTimer, NiSession
  <1>3. QED
    BY <1>1, <1>2 DEF NiInv, NiTypeOK, NiRulesAccounted, NiOneTimerRuns,
                NiRetryHasMessage, NiIntervalOfSetup, NiRefreshBeforeExpiry

LEMMA NiRefreshTimerInv ==
    ASSUME NiInv, NiRefreshTimer
    PROVE  NiInv'
  <1> DEFINE r == BuildRefresh(ni)
  <1>1. ni \in NiSession /\ ni_out \in Seq(Message) /\ ni.state = "METERING"
    BY DEF NiInv, NiTypeOK, NiRefreshTimer, NiIn
  <1>2. ni.msn \in Msns /\ ni.lifetime \in Lifetimes
    BY <1>1 DEF NiSession
  <1>3. r \in Message /\ r.kind = "REFRESH" /\ r.msn \in Msns
    BY <1>2, NextMsnType, RefreshType DEF BuildRefresh
  <1>4. /\ NiSend(r)
        /\ ni' = [ni EXCEPT !.msn = r.msn, !.last_refresh = r,
                            !.refresh_counter = 0,
                            !.refresh_timer = FALSE, !.response_timer = TRUE]
    BY DEF NiRefreshTimer
  <1>5. ni_out' \in Seq(Message)
    BY <1>1, <1>3, <1>4, AppendType
  <1> HIDE DEF r
  <1>6. /\ ni' \in NiSession
        /\ ni'.state = "METERING" /\ ni'.last_refresh = r
        /\ ni'.response_timer = TRUE /\ ni'.refresh_timer = FALSE
        /\ ni'.metered = ni.metered /\ ni'.rule_keys = ni.rule_keys
        /\ ni'.lifetime = ni.lifetime
        /\ ni'.refresh_interval = ni.refresh_interval
    BY <1>1, <1>3, <1>4, ZeroType DEF NiSession
  <1>7. QED
    BY <1>1, <1>3, <1>5, <1>6 DEF NiInv, NiTypeOK, NiRulesAccounted, NiOneTimerRuns,
                NiRetryHasMessage, NiIntervalOfSetup, NiRefreshBeforeExpiry

(* The answer to the CONFIGURE: all rules installed, some, or an error. *)
LEMMA NiConfigureAnsweredInv ==
    ASSUME NiInv, NEW m \in Message, NEW result \in SUBSET Objects,
           NEW state \in NiStates, NiConfigureAnswered(m, result, state)
    PROVE  NiInv'
  <1> DEFINE s == NiAccepted(m.lifetime)
  <1>1. /\ ni \in NiSession /\ ni_out \in Seq(Message)
        /\ ni.state = "PENDING" /\ ni.metered = {}
        /\ ni.last_configure # NoMsg
        /\ ni.refresh_interval = SetupInterval(ni.lifetime)
    BY DEF NiInv, NiTypeOK, NiRulesAccounted, NiIntervalOfSetup,
           NiConfigureAnswered, NiIn, IsResponseTo
  <1>2. m.lifetime \in Lifetimes /\ ni.lifetime \in Lifetimes
    BY <1>1 DEF Message, NiSession
  <1>3. /\ s \in NiSession /\ s.lifetime = m.lifetime
        /\ s.response_timer = FALSE /\ s.refresh_timer = TRUE
        /\ s.rule = ni.rule /\ s.state = "PENDING" /\ s.metered = {}
        /\ s.refresh_interval = IF m.lifetime # ni.lifetime
                                THEN CalRefreshInterval(m.lifetime)
                                ELSE SetupInterval(m.lifetime)
    BY <1>1, <1>2, CalRefreshIntervalType DEF NiAccepted, NiSession
  <1>4. m.lifetime >= 2 /\ MaxRetries >= 1 => s.refresh_interval < m.lifetime
    BY <1>2, <1>3, CalRefreshIntervalBelow, SetupIntervalBelow
  <1>5. \/ /\ ni' = NiInstalled(s) /\ ni_out' = ni_out
        \/ /\ NiSend(BuildRefresh([s EXCEPT !.lifetime = 0]))
           /\ ni' = NiOrClosed(NiPartlyInstalled(s, result, state))
        \/ /\ ni' = NiClosed(ni) /\ ni_out' = ni_out
    BY DEF NiConfigureAnswered
  <1> HIDE DEF s
  <1>6. CASE ni' = NiInstalled(s) /\ ni_out' = ni_out
    <2>1. /\ ni' \in NiSession /\ ni'.state = "METERING"
          /\ ni'.rule_keys = s.rule /\ ni'.metered = s.rule
          /\ ni'.response_timer = FALSE /\ ni'.refresh_timer = TRUE
          /\ ni'.lifetime = m.lifetime
          /\ ni'.refresh_interval = s.refresh_interval
      BY <1>3, <1>6, ZeroType DEF NiInstalled, NiSession, NiStates
    <2>2. QED
      BY <1>1, <1>4, <1>6, <2>1 DEF NiInv, NiTypeOK, NiRulesAccounted, NiOneTimerRuns,
                NiRetryHasMessage, NiIntervalOfSetup, NiRefreshBeforeExpiry
  <1>7. CASE /\ NiSend(BuildRefresh([s EXCEPT !.lifetime = 0]))
             /\ ni' = NiOrClosed(NiPartlyInstalled(s, result, state))
    <2> DEFINE w == NiPartlyInstalled(s, result, state)
    <2>1. BuildRefresh([s EXCEPT !.lifetime = 0]) \in Message
      BY <1>3, ZeroType, NextMsnType, RefreshType DEF BuildRefresh, NiSession
    <2>2. ni_out' \in Seq(Message)
      BY <1>1, <1>7, <2>1, AppendType
    <2>3. NextMsn(s.msn) \in Msns
      BY <1>3, NextMsnType DEF NiSession
    <2>4. /\ w \in NiSession /\ w.state = state /\ w.metered = {}
          /\ w.last_configure = NoMsg /\ w.lifetime = 0
          /\ w.response_timer = FALSE /\ w.refresh_timer = TRUE
      BY <1>3, <2>3, ZeroType, NoMsgType
      DEF NiPartlyInstalled, NiRemoveRules, NiSession
    <2> HIDE DEF w
    <2>5. CASE ni' = NiClosed(w)
      BY <2>2, <2>4, <2>5, NiClosedInv DEF NiInv
    <2>6. CASE ni' = w
      BY <2>2, <2>4, <2>6 DEF NiInv, NiTypeOK, NiRulesAccounted, NiOneTimerRuns,
                NiRetryHasMessage, NiIntervalOfSetup, NiRefreshBeforeExpiry
    <2>7. QED
      BY <1>7, <2>5, <2>6 DEF NiOrClosed, w
  <1>8. CASE ni' = NiClosed(ni) /\ ni_out' = ni_out
    BY <1>1, <1>8, NiClosedInv DEF NiInv
  <1>9. QED
    BY <1>5, <1>6, <1>7, <1>8

(* In METERING the rule keeps the key of everything installed. *)
LEMMA NiRemoveRulesEmpties ==
    ASSUME NiInv
    PROVE  NiRemoveRules(ni) \in NiSession /\ NiRemoveRules(ni).metered = {}
  <1>1. ni \in NiSession /\ ni.metered \ ni.rule_keys = {}
    BY DEF NiInv, NiTypeOK, NiRulesAccounted
  <1>2. QED
    BY <1>1, NiRemoveRulesType

LEMMA NiRefreshAnsweredInv ==
    ASSUME NiInv, NEW m \in Message, NiRefreshAnswered(m)
    PROVE  NiInv'
  <1>1. /\ ni \in NiSession /\ ni_out' \in Seq(Message)
        /\ ni.state = "METERING" /\ ni_out' = ni_out
    BY DEF NiInv, NiTypeOK, NiRefreshAnswered, NiIn
  <1>2. CASE m.ok
    <2>1. /\ ni' \in NiSession /\ ni'.state = "METERING"
          /\ ni'.rule_keys = ni.rule_keys /\ ni'.metered = ni.metered
          /\ ni'.response_timer = FALSE /\ ni'.refresh_timer = TRUE
          /\ ni'.lifetime = ni.lifetime
          /\ ni'.refresh_interval = ni.refresh_interval
      BY <1>1, <1>2, ZeroType DEF NiRefreshAnswered, NiSession
    <2>2. QED
      BY <1>1, <2>1 DEF NiInv, NiTypeOK, NiRulesAccounted, NiOneTimerRuns,
                NiRetryHasMessage, NiIntervalOfSetup, NiRefreshBeforeExpiry
  <1>3. CASE ~m.ok
    BY <1>1, <1>3, NiRemoveRulesEmpties, NiClosedInv
    DEF NiInv, NiRefreshAnswered
  <1>4. QED
    BY <1>2, <1>3

(* Retries used up, no next node, or torn down by the user. *)
LEMMA NiWindUpInv ==
    ASSUME NiInv,
           NiConfigureGiveUp \/ NiPendingNoNextNode \/ NiRefreshGiveUp
              \/ NiApiTeardown
    PROVE  NiInv'
  <1>1. ni \in NiSession /\ ni_out \in Seq(Message)
    BY DEF NiInv, NiTypeOK
  <1>2. CASE NiConfigureGiveUp \/ NiPendingNoNextNode
    <2>1. /\ ni.metered = {} /\ ni' = NiClosed(ni) /\ ni_out' = ni_out
      BY <1>2 DEF NiInv, NiRulesAccounted, NiConfigureGiveUp,
                  NiPendingNoNextNode, NiIn
    <2>2. QED
      BY <1>1, <2>1, NiClosedInv DEF NiInv
  <1>3. CASE NiRefreshGiveUp
    BY <1>1, <1>3, NiRemoveRulesEmpties, NiClosedInv
    DEF NiInv, NiRefreshGiveUp
  <1>4. CASE NiApiTeardown
    <2>1. BuildRefresh([ni EXCEPT !.lifetime = 0]) \in Message
      BY <1>1, ZeroType, NextMsnType, RefreshType DEF BuildRefresh, NiSession
    <2>2. ni_out' \in Seq(Message)
      BY <1>1, <1>4, <2>1, AppendType DEF NiApiTeardown
    <2>3. QED
      BY <1>4, <2>2, NiRemoveRulesEmpties, NiClosedInv
      DEF NiInv, NiApiTeardown
  <1>5. QED
    BY <1>2, <1>3, <1>4

LEMMA NiUnexpectedInv ==
    ASSUME NiInv, NiUnexpected
    PROVE  NiInv'
  <1>1. CASE NiPendingDiscard \/ NiMeteringDiscard
    BY <1>1 DEF NiPendingDiscard, NiMeteringDiscard, ni_vars, NiInv, NiTypeOK, NiRulesAccounted, NiOneTimerRuns,
                NiRetryHasMessage, NiIntervalOfSetup, NiRefreshBeforeExpiry
  <1>2. CASE NiPendingNull
    BY <1>2, NiAbortInv DEF NiPendingNull
  <1>3. CASE NiMeteringNull
    BY <1>3, NiAbortInv DEF NiMeteringNull
  <1>4. QED
    BY <1>1, <1>2, <1>3 DEF NiUnexpected

LEMMA AnyResponseType == \A m \in AnyResponse : m \in Message
  <1>1. ASSUME NEW msn \in Msns, NEW ok \in BOOLEAN, NEW lifetime \in Lifetimes
        PROVE  [kind |-> "RESPONSE", msn |-> msn, ok |-> ok, sme |-> "other",
                objs |-> {}, downstream |-> FALSE,
                lifetime |-> IF ok THEN lifetime ELSE 0] \in Message
    <2>1. (IF ok THEN lifetime ELSE 0) \in Lifetimes
      BY ZeroType
    <2>2. QED
      BY <2>1 DEF Message, Smes
  <1>2. QED
    BY <1>1 DEF AnyResponse

LEMMA NiNextInv ==
    ASSUME NiInv, [NiNext]_ni_vars
    PROVE  NiInv'
  <1>1. CASE NiUserEvent
    <2>1. CASE NiApiTeardown
      BY <2>1, NiWindUpInv
    <2>2. CASE \E lifetime \in Lifetimes : NiApiConfigureNoInterval(lifetime)
      BY <2>2, NiAbortInv DEF NiApiConfigureNoInterval
    <2>3. CASE \E msn \in Msns, lifetime \in Lifetimes, sme \in Smes,
                  objs \in SUBSET Objects, checkable \in SUBSET Objects :
                    NiApiConfigure(msn, lifetime, sme, objs, checkable)
      BY <2>3, NiApiConfigureInv
    <2>4. QED
      BY <1>1, <2>1, <2>2, <2>3 DEF NiUserEvent
  <1>2. CASE NiResponseTimeout
    BY <1>2, NiConfigureRetryInv, NiRefreshRetryInv, NiWindUpInv
    DEF NiResponseTimeout
  <1>3. CASE NiRefreshTimeout
    BY <1>3, NiPendingRefreshTimerInv, NiRefreshTimerInv DEF NiRefreshTimeout
  <1>4. CASE NiNotification
    BY <1>4, NiWindUpInv, NiUnexpectedInv DEF NiNotification
  <1>5. CASE \E m \in AnyResponse : NiReceive(m)
    <2>1. PICK m \in AnyResponse : NiReceive(m)
      BY <1>5
    <2>2. m \in Message
      BY AnyResponseType
    <2>3. CASE \E result \in SUBSET ni.rule, state \in NiStates :
                  NiConfigureAnswered(m, result, state)
      <3>1. SUBSET ni.rule \subseteq SUBSET Objects
        BY DEF NiInv, NiTypeOK, NiSession
      <3>2. QED
        BY <2>2, <2>3, <3>1, NiConfigureAnsweredInv
    <2>4. CASE NiRefreshAnswered(m)
      BY <2>2, <2>4, NiRefreshAnsweredInv
    <2>5. CASE NiUnexpected
      BY <2>5, NiUnexpectedInv
    <2>6. QED
      BY <2>1, <2>3, <2>4, <2>5 DEF NiReceive
  <1>6. CASE NiInvalidState
    BY <1>6, NiAbortInv DEF NiInvalidState
  <1>7. CASE GistTakes
    BY <1>7 DEF GistTakes, NiInv, NiTypeOK, NiRulesAccounted, NiOneTimerRuns,
                NiRetryHasMessage, NiIntervalOfSetup, NiRefreshBeforeExpiry
  <1>8. CASE UNCHANGED ni_vars
    BY <1>8 DEF ni_vars, NiInv, NiTypeOK, NiRulesAccounted, NiOneTimerRuns,
                NiRetryHasMessage, NiIntervalOfSetup, NiRefreshBeforeExpiry
  <1>9. QED
    BY <1>1, <1>2, <1>3, <1>4, <1>5, <1>6, <1>7, <1>8 DEF NiNext

(***************************************************************************)
(* The theorems.                                                           *)
(***************************************************************************)
LEMMA NiInvariant == NiSpec => []NiInv
  BY NiInitInv, NiNextInv, PTL DEF NiSpec

(* Type correctness: in particular the retry counters never pass           *)
(* ni_max_retries, whatever the network answers and whenever timers fire.  *)
THEOREM NiTypeCorrect == NiSpec => []NiTypeOK
  <1>1. NiInv => NiTypeOK
    BY DEF NiInv
  <1>2. QED
    BY <1>1, NiInvariant, PTL

(* remove_policy_rules() has been called for everything the initiator      *)
(* installed, on every way handle_state_metering() ends a session.         *)
THEOREM NiRulesSafe == NiSpec => []NiRulesAccounted
  <1>1. NiInv => NiRulesAccounted
    BY DEF NiInv
  <1>2. QED
    BY <1>1, NiInvariant, PTL

(* A session that waits for an answer or meters has exactly one running    *)
(* timer, so process_event() is called for it again.                       *)
THEOREM NiTimersSafe == NiSpec => []NiOneTimerRuns
  <1>1. NiInv => NiOneTimerRuns
    BY DEF NiInv
  <1>2. QED
    BY <1>1, NiInvariant, PTL

(* The assertions in get_last_configure_message() and                      *)
(* get_last_refresh_message() hold whenever a response timeout needs them. *)
THEOREM NiRetrySafe == NiSpec => []NiRetryHasMessage
  <1>1. NiInv => NiRetryHasMessage
    BY DEF NiInv
  <1>2. QED
    BY <1>1, NiInvariant, PTL

(* Both formulas for the refresh interval, the one of setup_session() and  *)
(* cal_refresh_interval(), leave time to refresh before the lifetime ends. *)
THEOREM NiIntervalSafe == NiSpec => []NiRefreshBeforeExpiry
  <1>1. NiInv => NiRefreshBeforeExpiry
    BY DEF NiInv
  <1>2. QED
    BY <1>1, NiInvariant, PTL

=============================================================================
