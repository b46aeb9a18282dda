----------------------------- MODULE NISession -----------------------------
(***************************************************************************)
(* The initiator (NI) end of a metering session: class ni_session.  The    *)
(* user's API call opens the session, the NI sends a CONFIGURE along the   *)
(* data path, installs its own metering rules when the path answers, keeps *)
(* the session alive with REFRESH messages, and tears it down.             *)
(*                                                                         *)
(* ni is the session object of one session id; state CLOSE stands for "no  *)
(* such object", because the dispatcher deletes a session as soon as it is *)
(* final.  ni_out is the FIFO queue towards GIST, which is part of the     *)
(* environment here.  A timer field tells whether the timer that was       *)
(* started last is still going to fire.  Timers that were stopped or       *)
(* restarted fire too, but in PENDING and METERING the code drops such an  *)
(* event before it looks at anything, which is a stuttering step.          *)
(*                                                                         *)
(* Left out: proxy mode (never set), the response timeout's random length  *)
(* (time is not modelled: a running timer may fire at any moment), and the *)
(* asynchronous reports to the user, which the dispatcher only logs.       *)
(***************************************************************************)
EXTENDS MnslpMessages

CONSTANTS MaxRetries,   \* configuration parameter ni_max_retries
          QueueBound    \* bound: messages waiting for GIST

ASSUME NIAssumption == MaxRetries \in Nat /\ QueueBound \in Nat \ {0}

VARIABLES ni, ni_out

ni_vars == <<ni, ni_out>>

Uint32Mod == MsnMod     \* lifetimes and MSNs are both uint32

NiStates == {"CLOSE", "PENDING", "METERING",
             "INVALID"}  \* a value outside of state_t

(***************************************************************************)
(* rule      the objects of the policy rule this node meters itself        *)
(* rule_keys the keys the rule holds after install_policy_rules()          *)
(* metered   what is installed in the metering process and has not been    *)
(*           handed to remove_policy_rules()                               *)
(* abort     the assertion that ended the daemon, or "none"                *)
(***************************************************************************)
NiSession ==
    [state : NiStates, msn : Msns, lifetime : Lifetimes,
     refresh_interval : Nat, last_configure : Message, last_refresh : Message,
     configure_counter : 0 .. MaxRetries, refresh_counter : 0 .. MaxRetries,
     response_timer : BOOLEAN, refresh_timer : BOOLEAN,
     rule : SUBSET Objects, rule_keys : SUBSET Objects,
     metered : SUBSET Objects,
     abort : {"none", "interval", "configure_msg", "refresh_msg", "state"}]

(* What the constructor sets.  The MSN is drawn at random. *)
NewNiSession(msn) ==
    [state |-> "CLOSE", msn |-> msn, lifetime |-> 0, refresh_interval |-> 20,
     last_configure |-> NoMsg, last_refresh |-> NoMsg,
     configure_counter |-> 0, refresh_counter |-> 0,
     response_timer |-> FALSE, refresh_timer |-> FALSE,
     rule |-> {}, rule_keys |-> {}, metered |-> {}, abort |-> "none"]

(* The session object is deleted; the metering process keeps its rules. *)
NiClosed(s) == [NewNiSession(0) EXCEPT !.metered = s.metered]

NiInit == ni = NewNiSession(0) /\ ni_out = <<>>

(***************************************************************************)
(* Helpers of the handlers.                                                *)
(***************************************************************************)

(* setup_session(): ceil(lifetime / ((max_retries + 0.5) * 1.5)). *)
SetupInterval(lifetime) ==
    LET den == 3 * (2 * MaxRetries + 1) IN (4 * lifetime + den - 1) \div den

(* cal_refresh_interval(): the product is computed in 32 bits. *)
CalRefreshInterval(lifetime) == ((2 * lifetime) % Uint32Mod) \div 3

(* The CONFIGURE carries the objects this node does not meter itself. *)
SetupSession(s, lifetime, sme, objs, checkable) ==
    [s EXCEPT !.lifetime = lifetime,
              !.refresh_interval = SetupInterval(lifetime),
              !.rule = Taken("initiator", sme, objs, checkable)]

BuildConfigure(s, lifetime, sme, objs) ==
    Configure(NextMsn(s.msn), Min2(s.lifetime, lifetime), sme, objs \ s.rule)

BuildRefresh(s) == Refresh(NextMsn(s.msn), s.lifetime)

(* remove_policy_rules(): the rule keeps its keys. *)
NiRemoveRules(s) == [s EXCEPT !.metered = @ \ s.rule_keys]

NiSend(m) == Len(ni_out) < QueueBound /\ ni_out' = Append(ni_out, m)

NiAbort(reason) == ni' = [ni EXCEPT !.abort = reason] /\ UNCHANGED ni_out

NiIn(state) == ni.abort = "none" /\ ni.state = state

(***************************************************************************)
(* handle_state_close(): an api_configure_event opens the session.  A      *)
(* requested lifetime of 0 leaves the constructor's 0 in place, and the    *)
(* assertion on the refresh interval fails.                                *)
(***************************************************************************)
NiApiConfigure(msn, lifetime, sme, objs, checkable) ==
    /\ NiIn("CLOSE")
    /\ SetupInterval(lifetime) > 0
    /\ LET s == SetupSession([NewNiSession(msn) EXCEPT !.metered = ni.metered],
                             lifetime, sme, objs, checkable)
           c == BuildConfigure(s, lifetime, sme, objs)
       IN  /\ NiSend(c)
           /\ ni' = [s EXCEPT !.state = "PENDING", !.msn = c.msn,
                              !.last_configure = c, !.response_timer = TRUE]

NiApiConfigureNoInterval(lifetime) ==
    /\ NiIn("CLOSE")
    /\ SetupInterval(lifetime) = 0
    /\ NiAbort("interval")

(***************************************************************************)
(* handle_state_pending()                                                  *)
(***************************************************************************)
NiConfigureRetryOnceMore ==
    /\ NiIn("PENDING") /\ ni.response_timer
    /\ ni.configure_counter <= MaxRetries
    /\ NiSend(ni.last_configure)
    /\ ni' = [ni EXCEPT !.configure_counter = @ + 1]

NiConfigureRetryUncounted ==
    /\ NiIn("PENDING") /\ ni.response_timer
    /\ ni.configure_counter < MaxRetries
    /\ NiSend(ni.last_configure)
    /\ UNCHANGED ni

NiConfigureRetry ==
    /\ NiIn("PENDING") /\ ni.response_timer
    /\ ni.configure_counter < MaxRetries
    /\ NiSend(ni.last_configure)
    /\ ni' = [ni EXCEPT !.configure_counter = @ + 1]

NiConfigureGiveUp ==
    /\ NiIn("PENDING") /\ ni.response_timer
    /\ ni.configure_counter >= MaxRetries
    /\ ni' = NiClosed(ni)
    /\ UNCHANGED ni_out

NiPendingNoNextNode ==
    /\ NiIn("PENDING")
    /\ ni' = NiClosed(ni)
    /\ UNCHANGED ni_out

(* A refresh timer that fires in PENDING matches no case but is_timer(). *)
NiPendingRefreshTimer ==
    /\ NiIn("PENDING") /\ ni.refresh_timer
    /\ ni' = [ni EXCEPT !.refresh_timer = FALSE]
    /\ UNCHANGED ni_out

(* Every object was installed: the installer's result becomes the rule. *)
NiInstalled(s) ==
    [s EXCEPT !.state = "METERING", !.rule_keys = s.rule, !.metered = s.rule,
              !.configure_counter = 0]

(***************************************************************************)
(* Some object was not installed.  The session is wound up, but this       *)
(* branch falls off the end of the function without a return, so the state *)
(* assigned by process_event() is whatever the compiled code leaves there. *)
(***************************************************************************)
NiPartlyInstalled(s, result, state) ==
    [NiRemoveRules([s EXCEPT !.rule = result, !.rule_keys = result,
                             !.metered = result])
     EXCEPT !.lifetime = 0, !.last_configure = NoMsg,
            !.msn = NextMsn(s.msn), !.state = state]

NiOrClosed(s) == IF s.state = "CLOSE" THEN NiClosed(s) ELSE s

NiAcceptedOwnLifetime(lifetime) ==
    [ni EXCEPT !.response_timer = FALSE, !.refresh_timer = TRUE]

NiAcceptedSameInterval(lifetime) ==
    [ni EXCEPT !.response_timer = FALSE, !.refresh_timer = TRUE,
               !.lifetime = lifetime]

NiAcceptedTimerRuns(lifetime) ==
    [ni EXCEPT !.refresh_timer = TRUE, !.lifetime = lifetime,
               !.refresh_interval = IF lifetime # ni.lifetime
                                    THEN CalRefreshInterval(lifetime) ELSE @]

(* A success response, before the rules are installed. *)
NiAccepted(lifetime) ==
    [ni EXCEPT !.response_timer = FALSE, !.refresh_timer = TRUE,
               !.lifetime = lifetime,
               !.refresh_interval = IF lifetime # ni.lifetime
                                    THEN CalRefreshInterval(lifetime) ELSE @]

NiConfigureAnswered(m, result, state) ==
    /\ NiIn("PENDING")
    /\ IsResponseTo(m, ni.last_configure)
    /\ LET s == NiAccepted(m.lifetime) IN
       \/ /\ m.ok /\ result = ni.rule
          /\ ni' = NiInstalled(s)
          /\ UNCHANGED ni_out
       \/ /\ m.ok /\ result # ni.rule
          /\ NiSend(BuildRefresh([s EXCEPT !.lifetime = 0]))
          /\ ni' = NiOrClosed(NiPartlyInstalled(s, result, state))
       \/ /\ ~m.ok
          /\ ni' = NiClosed(ni)
          /\ UNCHANGED ni_out

(***************************************************************************)
(* A message or a network notification the state has no other case for is  *)
(* compared with the stored CONFIGURE, which must not be NULL.             *)
(***************************************************************************)
NiPendingDiscard ==
    /\ NiIn("PENDING") /\ ni.last_configure # NoMsg
    /\ UNCHANGED ni_vars

NiPendingNull ==
    /\ NiIn("PENDING") /\ ni.last_configure = NoMsg
    /\ NiAbort("configure_msg")

(***************************************************************************)
(* handle_state_pending() and handle_state_metering(): an                  *)
(* api_teardown_event removes the rules, sends a REFRESH of lifetime 0.    *)
(***************************************************************************)
NiApiTeardown ==
    /\ NiIn("PENDING") \/ NiIn("METERING")
    /\ NiSend(BuildRefresh([ni EXCEPT !.lifetime = 0]))
    /\ ni' = NiClosed(NiRemoveRules(ni))

(***************************************************************************)
(* handle_state_metering()                                                 *)
(***************************************************************************)
NiRefreshTimer ==
    /\ NiIn("METERING") /\ ni.refresh_timer
    /\ LET r == BuildRefresh(ni) IN
       /\ NiSend(r)
       /\ ni' = [ni EXCEPT !.msn = r.msn, !.last_refresh = r,
                           !.refresh_counter = 0,
                           !.refresh_timer = FALSE, !.response_timer = TRUE]

NiRefreshRetryUncounted ==
    /\ NiIn("METERING") /\ ni.response_timer
    /\ ni.refresh_counter < MaxRetries
    /\ NiSend(ni.last_refresh)
    /\ UNCHANGED ni

NiRefreshRetry ==
    /\ NiIn("METERING") /\ ni.response_timer
    /\ ni.refresh_counter < MaxRetries
    /\ NiSend(ni.last_refresh)
    /\ ni' = [ni EXCEPT !.refresh_counter = @ + 1]

NiRefreshGiveUpKeepsRules ==
    /\ NiIn("METERING") /\ ni.response_timer
    /\ ni.refresh_counter >= MaxRetries
    /\ ni' = NiClosed(ni)
    /\ UNCHANGED ni_out

NiRefreshGiveUp ==
    /\ NiIn("METERING") /\ ni.response_timer
    /\ ni.refresh_counter >= MaxRetries
    /\ ni' = NiClosed(NiRemoveRules(ni))
    /\ UNCHANGED ni_out

NiRefreshAnsweredNoRestart(m) ==
    /\ NiIn("METERING")
    /\ IsResponseTo(m, ni.last_refresh)
    /\ ni' = IF m.ok
             THEN [ni EXCEPT !.response_timer = FALSE, !.refresh_counter = 0]
             ELSE NiClosed(NiRemoveRules(ni))
    /\ UNCHANGED ni_out

NiRefreshAnswered(m) ==
    /\ NiIn("METERING")
    /\ IsResponseTo(m, ni.last_refresh)
    /\ ni' = IF m.ok
             THEN [ni EXCEPT !.response_timer = FALSE, !.refresh_timer = TRUE,
                             !.refresh_counter = 0]
             ELSE NiClosed(NiRemoveRules(ni))
    /\ UNCHANGED ni_out

NiMeteringDiscard ==
    /\ NiIn("METERING") /\ ni.last_refresh # NoMsg
    /\ UNCHANGED ni_vars

NiMeteringNull ==
    /\ NiIn("METERING") /\ ni.last_refresh = NoMsg
    /\ NiAbort("refresh_msg")

(* process_event(): the default case of the switch. *)
NiInvalidState ==
    /\ NiIn("INVALID")
    /\ NiAbort("state")

(***************************************************************************)
(* The handlers by the event that triggers them.                           *)
(***************************************************************************)
NiUserEvent ==
    \/ \E msn \in Msns, lifetime \in Lifetimes, sme \in Smes,
          objs \in SUBSET Objects, checkable \in SUBSET Objects :
            NiApiConfigure(msn, lifetime, sme, objs, checkable)
    \/ \E lifetime \in Lifetimes : NiApiConfigureNoInterval(lifetime)
    \/ NiApiTeardown

NiResponseTimeout ==
    \/ NiConfigureRetry \/ NiConfigureGiveUp
    \/ NiRefreshRetry \/ NiRefreshGiveUp

NiRefreshTimeout == NiPendingRefreshTimer \/ NiRefreshTimer

NiUnexpected ==
    \/ NiPendingDiscard \/ NiPendingNull
    \/ NiMeteringDiscard \/ NiMeteringNull

(* A network notification of GIST: no next node, or a bad route change. *)
NiNotification ==
    \/ NiPendingNoNextNode
    \/ NiUnexpected

NiReceive(m) ==
    \/ \E result \in SUBSET ni.rule, state \in NiStates :
            NiConfigureAnswered(m, result, state)
    \/ NiRefreshAnswered(m)
    \/ /\ ~(ni.state = "PENDING" /\ IsResponseTo(m, ni.last_configure))
       /\ ~(ni.state = "METERING" /\ IsResponseTo(m, ni.last_refresh))
       /\ NiUnexpected

(* A message that finds no session object is discarded by the dispatcher. *)
NiNoSession == NiIn("CLOSE") /\ UNCHANGED ni_vars

(***************************************************************************)
(* The session on its own: the network may answer anything at any time.    *)
(***************************************************************************)
GistTakes ==
    /\ ni_out # <<>>
    /\ ni_out' = Tail(ni_out)
    /\ UNCHANGED ni

AnyResponse ==
    {[kind |-> "RESPONSE", msn |-> msn, ok |-> ok, sme |-> "other",
      objs |-> {}, downstream |-> FALSE,
      lifetime |-> IF ok THEN lifetime ELSE 0] :
        msn \in Msns, ok \in BOOLEAN, lifetime \in Lifetimes}

NiNext ==
    \/ NiUserEvent
    \/ NiResponseTimeout
    \/ NiRefreshTimeout
    \/ NiNotification
    \/ \E m \in AnyResponse : NiReceive(m)
    \/ NiInvalidState
    \/ GistTakes

(* A response timer, which only its own firing starts again, fires, and  *)
(* GIST empties its input queue.                                          *)
NiFairness ==
    /\ WF_ni_vars(NiResponseTimeout)
    /\ WF_ni_vars(GistTakes)

NiSpec == NiInit /\ [][NiNext]_ni_vars /\ NiFairness

(***************************************************************************)
(* Properties.                                                             *)
(***************************************************************************)

(* Type correctness.  The retry counters stay within max_retries, and only *)
(* well-formed messages reach GIST.                                        *)
NiTypeOK ==
    /\ ni \in NiSession
    /\ ni_out \in Seq(Message)

(* No metering rule outlives its session: whatever way a session ends      *)
(* (teardown, error response, retries used up), what it installed in the   *)
(* metering process has been handed to remove_policy_rules(), and while it *)
(* lives its policy rule holds the key of everything that is installed.    *)
NiRulesAccounted ==
    ni.metered # {} => ni.state = "METERING" /\ ni.metered \subseteq ni.rule_keys

(* An open session cannot be forgotten: exactly one of the two timers is   *)
(* running while an answer to the CONFIGURE is outstanding and in METERING,*)
(* so that the session is either refreshed or given up.                    *)
NiOneTimerRuns ==
    /\ ni.state = "PENDING" /\ ni.last_configure # NoMsg
          => ni.response_timer /\ ~ni.refresh_timer
    /\ ni.state = "METERING" => ni.response_timer # ni.refresh_timer

(* A response timeout always finds the message it has to send again; the   *)
(* handlers dereference it through an assertion.                           *)
NiRetryHasMessage ==
    ni.response_timer =>
        \/ ni.state = "PENDING" /\ ni.last_configure.kind = "CONFIGURE"
        \/ ni.state = "METERING" /\ ni.last_refresh.kind = "REFRESH"

(* The first REFRESH goes out before the lifetime the path granted has     *)
(* elapsed, also when a node of the path shortened the lifetime.           *)
NiRefreshBeforeExpiry ==
    ni.state = "METERING" /\ ni.lifetime >= 2 /\ MaxRetries >= 1
        => ni.refresh_interval < ni.lifetime

(* A CONFIGURE that nobody answers is given up in the end. *)
NiSetupResolved ==
    ni.state = "PENDING" /\ ni.last_configure # NoMsg
        ~> ni.state # "PENDING" \/ ni.last_configure = NoMsg \/ ni.abort # "none"

(* A REFRESH that is outstanding is answered or ends the session. *)
NiRefreshResolved ==
    ni.state = "METERING" /\ ni.response_timer
        ~> ~ni.response_timer \/ ni.abort # "none"

============================================================================
