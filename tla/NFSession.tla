----------------------------- MODULE NFSession -----------------------------
(***************************************************************************)
(* A forwarder (NF) on the path of a metering session: class nf_session.   *)
(* It keeps the objects it can meter, passes the CONFIGURE on with the     *)
(* rest, installs its rules when the downstream peer answers, and holds    *)
(* them as soft state that REFRESH messages prolong.                       *)
(*                                                                         *)
(* nf is the session object of one session id, CLOSE standing for "no such *)
(* object".  to_nr and to_ni are the FIFO queues GIST keeps for the two    *)
(* directions; a message goes where its routing information points.        *)
(*                                                                         *)
(* Timers.  The module tells apart the timer started last from the ones    *)
(* that were stopped, restarted or belong to a deleted session: those are  *)
(* never cancelled and still arrive, as outdated timer events.  outdated   *)
(* says whether such an event is under way; after one has been delivered   *)
(* there may be more.                                                      *)
(*                                                                         *)
(* Left out: proxy mode (never set) and the authorization check, which the *)
(* dispatcher always passes.  A policy rule is the set of its objects.     *)
(***************************************************************************)
EXTENDS MnslpMessages

CONSTANTS NfMaxLifetime,  \* configuration parameter nf_max_session_lifetime
          RequestSmes,    \* selections the NI asks for
          RequestObjs,    \* sets of objects a CONFIGURE may carry
          QueueBound      \* bound: messages waiting for GIST per direction

ASSUME NFAssumption ==
    /\ NfMaxLifetime \in Lifetimes
    /\ RequestSmes \subseteq Smes
    /\ RequestObjs \subseteq SUBSET Objects
    /\ QueueBound \in Nat \ {0}

VARIABLES nf, to_nr, to_ni

nf_vars == <<nf, to_nr, to_ni>>

NfStates == {"CLOSE", "PENDING", "METERING"}

NfSession ==
    [state : NfStates, msn : Msns, lifetime : Lifetimes,
     configure_message : Message, refresh_message : Message,
     state_timer : BOOLEAN, response_timer : BOOLEAN, outdated : BOOLEAN,
     rule : SUBSET Objects, rule_keys : SUBSET Objects,
     metered : SUBSET Objects,
     abort : {"none", "outdated_timer", "message", "no_next_node"}]

NewNfSession ==
    [state |-> "CLOSE", msn |-> 0, lifetime |-> 0,
     configure_message |-> NoMsg, refresh_message |-> NoMsg,
     state_timer |-> FALSE, response_timer |-> FALSE, outdated |-> FALSE,
     rule |-> {}, rule_keys |-> {}, metered |-> {}, abort |-> "none"]

(* The object is deleted.  Its timers and its rules in the meter are not. *)
NfClosed(s) ==
    [NewNfSession EXCEPT
        !.metered = s.metered,
        !.outdated = s.outdated \/ s.state_timer \/ s.response_timer]

NfInit == nf = NewNfSession /\ to_nr = <<>> /\ to_ni = <<>>

(***************************************************************************)
(* Helpers of the handlers.                                                *)
(***************************************************************************)
StartStateTimer(s) ==
    [s EXCEPT !.state_timer = TRUE, !.outdated = @ \/ s.state_timer]

StartResponseTimer(s) ==
    [s EXCEPT !.response_timer = TRUE, !.outdated = @ \/ s.response_timer]

NfRemoveRules(s) == [s EXCEPT !.metered = @ \ s.rule_keys]

NfSend(m) ==
    IF m.downstream
    THEN Len(to_nr) < QueueBound /\ to_nr' = Append(to_nr, m) /\ UNCHANGED to_ni
    ELSE Len(to_ni) < QueueBound /\ to_ni' = Append(to_ni, m) /\ UNCHANGED to_nr

(* Two messages, the first of which goes downstream. *)
NfSendBoth(m1, m2) ==
    /\ Len(to_nr) < QueueBound /\ Len(to_ni) < QueueBound
    /\ to_nr' = IF m2.downstream THEN to_nr \o <<m1, m2>> ELSE Append(to_nr, m1)
    /\ to_ni' = IF m2.downstream THEN to_ni ELSE Append(to_ni, m2)

NfSilent == UNCHANGED <<to_nr, to_ni>>

NfIn(state) == nf.abort = "none" /\ nf.state = state

NfAbort(reason) == nf' = [nf EXCEPT !.abort = reason] /\ NfSilent

(* build_configure_message(): the objects this node does not take. *)
NfBuildConfigure(s, m, taken) ==
    Configure(m.msn, Min2(s.lifetime, m.lifetime), m.sme, m.objs \ taken)

(***************************************************************************)
(* process_state_close(): keep the CONFIGURE and the objects this node can *)
(* meter, forward the rest.  s is the session with its lifetime and MSN    *)
(* set by the caller.                                                      *)
(***************************************************************************)
ProcessStateClose(s, m, checkable) ==
    LET taken == Taken("forwarder", m.sme, m.objs, checkable) IN
    /\ NfSend(NfBuildConfigure(s, m, taken))
    /\ nf' = StartStateTimer([s EXCEPT !.state = "PENDING",
                                       !.configure_message = m,
                                       !.rule = @ \cup taken])

(* set_pc_mri() throws: the routing information is not path-coupled. *)
ProcessStateCloseNoMri(m) ==
    /\ NfSend(CreateResponse(m))
    /\ nf' = NfClosed(nf)

(***************************************************************************)
(* handle_state_close(): the lifetime is cut to the node's maximum.        *)
(***************************************************************************)
NfLifetime(m) == Min2(m.lifetime, NfMaxLifetime)

NfConfigure(m, checkable, pathcoupled) ==
    /\ NfIn("CLOSE") /\ m.kind = "CONFIGURE" /\ NfLifetime(m) > 0
    /\ LET s == [nf EXCEPT !.lifetime = NfLifetime(m), !.msn = m.msn] IN
       \/ pathcoupled /\ ProcessStateClose(s, m, checkable)
       \/ ~pathcoupled /\ ProcessStateCloseNoMri(m)

(* Discarded: a lifetime of 0, or no CONFIGURE and hence no session. *)
NfCloseDiscard(m) ==
    /\ NfIn("CLOSE") /\ (m.kind = "CONFIGURE" => NfLifetime(m) = 0)
    /\ UNCHANGED nf_vars

(***************************************************************************)
(* handle_state_pending()                                                  *)
(***************************************************************************)

(* The sequence numbers are compared as plain integers here. *)
NfPendingTerminate(m) ==
    /\ NfIn("PENDING") /\ m.kind = "CONFIGURE"
    /\ m.msn > nf.configure_message.msn /\ m.lifetime = 0
    /\ NfSend(m)
    /\ nf' = NfClosed(nf)

(* The NI sent the CONFIGURE again.  It is passed on as it came. *)
NfPendingResent(m) ==
    /\ NfIn("PENDING") /\ m.kind = "CONFIGURE"
    /\ m.msn = nf.configure_message.msn
    /\ NfSend(m)
    /\ nf' = StartStateTimer(nf)

NfPendingReplace(m, checkable, pathcoupled) ==
    /\ NfIn("PENDING") /\ m.kind = "CONFIGURE"
    /\ m.msn # nf.configure_message.msn
    /\ ~(m.msn > nf.configure_message.msn /\ m.lifetime = 0)
    /\ LET s == [nf EXCEPT !.lifetime = m.lifetime, !.msn = m.msn] IN
       \/ pathcoupled /\ ProcessStateClose(s, m, checkable)
       \/ ~pathcoupled /\ ProcessStateCloseNoMri(m)

NfPendingUnreachable ==
    /\ NfIn("PENDING")
    /\ NfSend(CreateResponse(nf.configure_message))
    /\ nf' = NfClosed(nf)

NfPendingStateTimer ==
    /\ nf.state_timer
    /\ NfIn("PENDING")
    /\ NfSend(CreateResponse(nf.configure_message))
    /\ nf' = NfClosed([nf EXCEPT !.state_timer = FALSE])

NfPendingSuccessOldTimer(m, result) ==
    /\ NfIn("PENDING") /\ IsResponseTo(m, nf.configure_message) /\ m.ok
    /\ result = nf.rule
    /\ NfSend(m)
    /\ nf' = [nf EXCEPT !.state = "METERING", !.rule_keys = result,
                        !.metered = result, !.state_timer = FALSE]

(* result is the part of the rule the installer could install. *)
NfPendingSuccess(m, result) ==
    /\ NfIn("PENDING") /\ IsResponseTo(m, nf.configure_message) /\ m.ok
    /\ result = nf.rule
    /\ NfSend(m)
    /\ nf' = StartStateTimer([nf EXCEPT !.state = "METERING",
                                        !.rule_keys = result,
                                        !.metered = result])

NfPendingInstallFailsKept(m, result) ==
    /\ NfIn("PENDING") /\ IsResponseTo(m, nf.configure_message) /\ m.ok
    /\ result # nf.rule
    /\ NfSendBoth(Refresh(NextMsn(nf.msn), 0), CreateResponse(m))
    /\ nf' = NfClosed([nf EXCEPT !.metered = result])

(***************************************************************************)
(* The rules could not all be installed: tear down what is downstream, and *)
(* answer the response of the downstream peer with an error.  Responses go *)
(* opposite to the message they answer, so both leave towards the NR.      *)
(***************************************************************************)
NfPendingInstallFails(m, result) ==
    /\ NfIn("PENDING") /\ IsResponseTo(m, nf.configure_message) /\ m.ok
    /\ result # nf.rule
    /\ NfSendBoth(Refresh(NextMsn(nf.msn), 0), CreateResponse(m))
    /\ nf' = NfClosed(NfRemoveRules([nf EXCEPT !.rule_keys = result,
                                               !.metered = result]))

NfPendingError(m) ==
    /\ NfIn("PENDING") /\ IsResponseTo(m, nf.configure_message) /\ ~m.ok
    /\ NfSend(m)
    /\ nf' = NfClosed(nf)

NfPendingDiscard(m) ==
    /\ NfIn("PENDING") /\ m.kind # "CONFIGURE"
    /\ ~IsResponseTo(m, nf.configure_message)
    /\ UNCHANGED nf_vars

(***************************************************************************)
(* handle_state_metering()                                                 *)
(***************************************************************************)

NfRefreshPlainOrder(m) ==
    /\ NfIn("METERING") /\ m.kind = "REFRESH"
    /\ m.msn > nf.msn
    /\ NfSend(m)
    /\ nf' = StartResponseTimer(
                [nf EXCEPT !.lifetime = NfLifetime(m), !.refresh_message = m,
                           !.msn = IF NfLifetime(m) > 0 THEN m.msn ELSE @])

NfRefreshMsnKept(m) ==
    /\ NfIn("METERING") /\ m.kind = "REFRESH"
    /\ IsGreaterThan(m.msn, nf.msn)
    /\ NfSend(m)
    /\ nf' = StartResponseTimer(
                [nf EXCEPT !.lifetime = NfLifetime(m), !.refresh_message = m])

NfRefreshNotStored(m) ==
    /\ NfIn("METERING") /\ m.kind = "REFRESH"
    /\ IsGreaterThan(m.msn, nf.msn)
    /\ NfSend(m)
    /\ nf' = StartResponseTimer(
                [nf EXCEPT !.lifetime = NfLifetime(m),
                           !.refresh_message =
                               IF NfLifetime(m) > 0 THEN m ELSE @,
                           !.msn = IF NfLifetime(m) > 0 THEN m.msn ELSE @])

(* A REFRESH of lifetime 0 is remembered, but its MSN is not. *)
NfRefresh(m) ==
    /\ NfIn("METERING") /\ m.kind = "REFRESH"
    /\ IsGreaterThan(m.msn, nf.msn)
    /\ NfSend(m)
    /\ nf' = StartResponseTimer(
                [nf EXCEPT !.lifetime = NfLifetime(m), !.refresh_message = m,
                           !.msn = IF NfLifetime(m) > 0 THEN m.msn ELSE @])

NfRefreshDuplicate(m) ==
    /\ NfIn("METERING") /\ m.kind = "REFRESH"
    /\ ~IsGreaterThan(m.msn, nf.msn)
    /\ UNCHANGED nf_vars

(* The rules go, then the stored REFRESH is dereferenced for the answer. *)
NfNoAnswer ==
    IF nf.refresh_message = NoMsg
    THEN /\ nf' = [NfRemoveRules(nf) EXCEPT !.state_timer = FALSE,
                                            !.abort = "no_next_node"]
         /\ NfSilent
    ELSE /\ NfSend(CreateResponse(nf.refresh_message))
         /\ nf' = NfClosed(NfRemoveRules(nf))

NfMeteringUnreachable == NfIn("METERING") /\ NfNoAnswer

NfMeteringResponseTimer ==
    NfIn("METERING") /\ nf.response_timer /\ NfNoAnswer

NfMeteringStateTimer ==
    /\ nf.state_timer
    /\ NfIn("METERING")
    /\ nf' = NfClosed([NfRemoveRules(nf) EXCEPT !.state_timer = FALSE])
    /\ NfSilent

NfMeteringRouteChangedIgnored ==
    /\ NfIn("METERING")
    /\ nf' = NfRemoveRules(nf)
    /\ NfSilent

NfMeteringRouteChanged ==
    /\ NfIn("METERING")
    /\ nf' = NfClosed(NfRemoveRules(nf))
    /\ NfSilent

(* The response timer keeps running after a successful response. *)
NfRefreshSuccess(m) ==
    /\ NfIn("METERING") /\ IsResponseTo(m, nf.refresh_message) /\ m.ok
    /\ NfSend(m)
    /\ nf' = IF nf.lifetime = 0 THEN NfClosed(NfRemoveRules(nf))
                                ELSE StartStateTimer(nf)

NfRefreshError(m) ==
    /\ NfIn("METERING") /\ IsResponseTo(m, nf.refresh_message) /\ ~m.ok
    /\ NfSend(m)
    /\ nf' = NfClosed(NfRemoveRules(nf))

(* Any other message: it is compared with the stored REFRESH first. *)
NfMeteringOther(m) ==
    /\ NfIn("METERING") /\ m.kind # "REFRESH"
    /\ ~IsResponseTo(m, nf.refresh_message)
    /\ IF nf.refresh_message = NoMsg THEN NfAbort("message")
                                     ELSE UNCHANGED nf_vars

(***************************************************************************)
(* An outdated timer event.  In METERING the comparison with the stored    *)
(* REFRESH comes before the case that discards such events.  Without a     *)
(* session object the dispatcher discards it.                              *)
(***************************************************************************)
NfOutdatedTimer ==
    /\ nf.abort = "none" /\ nf.outdated
    /\ IF nf.state = "METERING" /\ nf.refresh_message = NoMsg
       THEN NfAbort("outdated_timer")
       ELSE /\ \E more \in BOOLEAN : nf' = [nf EXCEPT !.outdated = more]
            /\ NfSilent

(***************************************************************************)
(* The handlers by the event that triggers them.  checkable is the set of  *)
(* objects this node's dispatcher::check() accepts.                        *)
(***************************************************************************)
NfReceive(m, checkable) ==
    \/ NfConfigure(m, checkable, TRUE)
    \/ NfPendingReplace(m, checkable, TRUE)
    \/ NfCloseDiscard(m)
    \/ NfPendingTerminate(m) \/ NfPendingResent(m)
    \/ \E result \in SUBSET nf.rule :
          NfPendingSuccess(m, result) \/ NfPendingInstallFails(m, result)
    \/ NfPendingError(m) \/ NfPendingDiscard(m)
    \/ NfRefresh(m) \/ NfRefreshDuplicate(m)
    \/ NfRefreshSuccess(m) \/ NfRefreshError(m) \/ NfMeteringOther(m)

(* A CONFIGURE whose routing information is not path-coupled. *)
NfReceiveNoMri(m) == NfConfigure(m, {}, FALSE) \/ NfPendingReplace(m, {}, FALSE)

NfStateTimeout == NfPendingStateTimer \/ NfMeteringStateTimer

NfNotification ==
    NfPendingUnreachable \/ NfMeteringUnreachable \/ NfMeteringRouteChanged

NfTimeout == NfStateTimeout \/ NfMeteringResponseTimer \/ NfOutdatedTimer

(***************************************************************************)
(* The session on its own, between peers that may send anything.           *)
(***************************************************************************)
AnyRequest ==
    {Configure(msn, lifetime, sme, objs) :
        msn \in Msns, lifetime \in Lifetimes, sme \in RequestSmes,
        objs \in RequestObjs}
    \cup {Refresh(msn, lifetime) : msn \in Msns, lifetime \in Lifetimes}

AnyAnswer ==
    {[kind |-> "RESPONSE", msn |-> msn, ok |-> ok, sme |-> "other",
      objs |-> {}, downstream |-> FALSE,
      lifetime |-> IF ok THEN lifetime ELSE 0] :
        msn \in Msns, ok \in BOOLEAN, lifetime \in Lifetimes}

NfGistTakes ==
    \/ to_nr # <<>> /\ to_nr' = Tail(to_nr) /\ UNCHANGED <<nf, to_ni>>
    \/ to_ni # <<>> /\ to_ni' = Tail(to_ni) /\ UNCHANGED <<nf, to_nr>>

NfNext ==
    \/ \E m \in AnyRequest \cup AnyAnswer, checkable \in SUBSET Objects :
          NfReceive(m, checkable)
    \/ \E m \in AnyRequest : NfReceiveNoMri(m)
    \/ NfTimeout
    \/ NfNotification
    \/ NfGistTakes

NfSpec == NfInit /\ [][NfNext]_nf_vars

(***************************************************************************)
(* Properties.                                                             *)
(***************************************************************************)

(* Type correctness. *)
NfTypeOK ==
    /\ nf \in NfSession
    /\ to_nr \in Seq(Message) /\ to_ni \in Seq(Message)

(* No metering rule outlives its session, and the session's policy rule    *)
(* knows the key of everything it installed: every way out of METERING and *)
(* the failed installation go through remove_policy_rules().               *)
NfRulesAccounted ==
    nf.metered # {} => nf.state = "METERING" /\ nf.metered \subseteq nf.rule_keys

(* The state of a forwarder is soft: as long as there is a session object, *)
(* the state timer that will end it is running.                            *)
NfSoftState == nf.state # "CLOSE" /\ nf.abort = "none" => nf.state_timer

(* When the downstream peer fails to answer a REFRESH, the NF still has    *)
(* the REFRESH it must answer in its place, a teardown included.           *)
NfTimeoutHasRefresh ==
    nf.response_timer =>
        nf.state = "METERING" /\ nf.refresh_message.kind = "REFRESH"

(* While a session is being metered, its sequence number only moves        *)
(* forward in the serial-number order, past the wrap around.               *)
NfMsnForward ==
    [][nf.state = "METERING" /\ nf'.state = "METERING" /\ nf'.msn # nf.msn
         => IsGreaterThan(nf'.msn, nf.msn)]_nf_vars

(* The forwarder keeps the contract on installed rules. *)
Contract == INSTANCE MeteringContract
                WITH phase <- IF nf.abort # "none" THEN "DEAD" ELSE nf.state,
                     rules <- nf.metered

NfImplementsContract == Contract!ContractSpec

(* The comment in handle_state_metering() on outdated timer events says    *)
(* that they are discarded; they never end the daemon.                     *)
NfOutdatedTimersDiscarded == nf.abort # "outdated_timer"

(* The comment on a failed installation says that an error message is sent *)
(* to the NI: the responses of an NF travel upstream.                      *)
NfResponsesGoUpstream ==
    \A i \in 1 .. Len(to_nr) : to_nr[i].kind # "RESPONSE"

============================================================================
