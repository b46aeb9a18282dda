----------------------------- MODULE NRSession -----------------------------
(***************************************************************************)
(* The responder (NR) end of a metering session: class nr_session.  It     *)
(* must be able to meter every object that reaches it, answers CONFIGURE   *)
(* and REFRESH messages at once, and keeps its rules until the NI tears    *)
(* the session down or the state timer fires.                              *)
(*                                                                         *)
(* nr is the session object of one session id, CLOSE standing for "no such *)
(* object"; nr_out is the FIFO queue towards GIST.  Outdated timer events  *)
(* and messages METERING has no case for are discarded: they are           *)
(* stuttering steps.  The authorization check always passes.               *)
(***************************************************************************)
EXTENDS MnslpMessages

CONSTANTS NrMaxLifetime,  \* configuration parameter nr_max_session_lifetime
          RequestSmes,    \* selections the NI asks for
          RequestObjs,    \* sets of objects a CONFIGURE may carry
          QueueBound      \* bound: messages waiting for GIST

ASSUME NRAssumption ==
    /\ NrMaxLifetime \in Lifetimes
    /\ RequestSmes \subseteq Smes
    /\ RequestObjs \subseteq SUBSET Objects
    /\ QueueBound \in Nat \ {0}

VARIABLES nr, nr_out

nr_vars == <<nr, nr_out>>

NrSession ==
    [state : {"CLOSE", "METERING"}, msn : Msns, lifetime : Lifetimes,
     state_timer : BOOLEAN, rule_keys : SUBSET Objects,
     metered : SUBSET Objects]

NewNrSession ==
    [state |-> "CLOSE", msn |-> 0, lifetime |-> 0, state_timer |-> FALSE,
     rule_keys |-> {}, metered |-> {}]

NrClosed(s) == [NewNrSession EXCEPT !.metered = s.metered]

NrInit == nr = NewNrSession /\ nr_out = <<>>

(* check_lifetime() throws override_lifetime: the maximum is used. *)
NrLifetimeUncapped(m) == m.lifetime

NrLifetime(m) == Min2(m.lifetime, NrMaxLifetime)

NrRemoveRules(s) == [s EXCEPT !.metered = @ \ s.rule_keys]

NrSend(m) == Len(nr_out) < QueueBound /\ nr_out' = Append(nr_out, m)

(***************************************************************************)
(* handle_state_close(): refuse an empty lifetime, then a CONFIGURE with   *)
(* an object this node does not take, then one the installer cannot        *)
(* install in full; result is the part it could install.                   *)
(***************************************************************************)
NrRefuseLifetime(m) ==
    /\ nr.state = "CLOSE" /\ m.kind = "CONFIGURE"
    /\ NrLifetime(m) = 0
    /\ NrSend(CreateResponse(m))
    /\ UNCHANGED nr

NrRefuseObjects(m, checkable) ==
    /\ nr.state = "CLOSE" /\ m.kind = "CONFIGURE" /\ NrLifetime(m) > 0
    /\ Taken("receiver", m.sme, m.objs, checkable) # m.objs
    /\ NrSend(CreateResponse(m))
    /\ UNCHANGED nr

NrAcceptAnything(m, checkable, result) ==
    /\ nr.state = "CLOSE" /\ m.kind = "CONFIGURE" /\ NrLifetime(m) > 0
    /\ Taken("receiver", m.sme, m.objs, checkable) = m.objs
    /\ NrSend(CreateSuccessResponse(m, NrLifetime(m)))
    /\ nr' = [nr EXCEPT !.state = "METERING", !.msn = m.msn,
                        !.lifetime = NrLifetime(m), !.state_timer = TRUE,
                        !.rule_keys = result, !.metered = result]

NrAcceptUntimed(m, checkable, result) ==
    /\ nr.state = "CLOSE" /\ m.kind = "CONFIGURE" /\ NrLifetime(m) > 0
    /\ Taken("receiver", m.sme, m.objs, checkable) = m.objs
    /\ result = m.objs
    /\ NrSend(CreateSuccessResponse(m, NrLifetime(m)))
    /\ nr' = [nr EXCEPT !.state = "METERING", !.msn = m.msn,
                        !.lifetime = NrLifetime(m),
                        !.rule_keys = result, !.metered = result]

NrAccept(m, checkable, result) ==
    /\ nr.state = "CLOSE" /\ m.kind = "CONFIGURE" /\ NrLifetime(m) > 0
    /\ Taken("receiver", m.sme, m.objs, checkable) = m.objs
    /\ result = m.objs
    /\ NrSend(CreateSuccessResponse(m, NrLifetime(m)))
    /\ nr' = [nr EXCEPT !.state = "METERING", !.msn = m.msn,
                        !.lifetime = NrLifetime(m), !.state_timer = TRUE,
                        !.rule_keys = result, !.metered = result]

NrInstallFails(m, checkable, result) ==
    /\ nr.state = "CLOSE" /\ m.kind = "CONFIGURE" /\ NrLifetime(m) > 0
    /\ Taken("receiver", m.sme, m.objs, checkable) = m.objs
    /\ result # m.objs
    /\ NrSend(CreateResponse(m))
    /\ nr' = NrClosed(NrRemoveRules([nr EXCEPT !.rule_keys = result,
                                               !.metered = @ \cup result]))

(***************************************************************************)
(* save_mt_policy_rule() throws a request_error that no handler catches:   *)
(* the dispatcher drops the session, and nobody is answered.               *)
(***************************************************************************)
NrConfigureNoMri(m) ==
    /\ nr.state = "CLOSE" /\ m.kind = "CONFIGURE" /\ NrLifetime(m) > 0
    /\ UNCHANGED nr_vars

(* Anything but a CONFIGURE finds no session object and creates none. *)
NrCloseDiscard(m) ==
    /\ nr.state = "CLOSE" /\ m.kind # "CONFIGURE"
    /\ UNCHANGED nr_vars

(***************************************************************************)
(* handle_state_metering()                                                 *)
(***************************************************************************)
NrRefreshPlainOrder(m) ==
    /\ nr.state = "METERING" /\ m.kind = "REFRESH"
    /\ m.msn > nr.msn
    /\ NrLifetime(m) > 0
    /\ NrSend(CreateSuccessResponse(m, NrLifetime(m)))
    /\ nr' = [nr EXCEPT !.lifetime = NrLifetime(m), !.msn = m.msn,
                        !.state_timer = TRUE]

NrRefresh(m) ==
    /\ nr.state = "METERING" /\ m.kind = "REFRESH"
    /\ IsGreaterThan(m.msn, nr.msn)
    /\ NrLifetime(m) > 0
    /\ NrSend(CreateSuccessResponse(m, NrLifetime(m)))
    /\ nr' = [nr EXCEPT !.lifetime = NrLifetime(m), !.msn = m.msn,
                        !.state_timer = TRUE]

NrTeardown(m) ==
    /\ nr.state = "METERING" /\ m.kind = "REFRESH"
    /\ IsGreaterThan(m.msn, nr.msn)
    /\ NrLifetime(m) = 0
    /\ NrSend(CreateSuccessResponse(m, 0))
    /\ nr' = NrClosed(NrRemoveRules(nr))

(* A duplicate REFRESH, a CONFIGURE sent again or a stray RESPONSE. *)
NrMeteringDiscard(m) ==
    /\ nr.state = "METERING"
    /\ m.kind = "REFRESH" => ~IsGreaterThan(m.msn, nr.msn)
    /\ UNCHANGED nr_vars

NrStateTimeoutKeepsRules ==
    /\ nr.state = "METERING" /\ nr.state_timer
    /\ nr' = NrClosed(nr)
    /\ UNCHANGED nr_out

NrStateTimeout ==
    /\ nr.state = "METERING" /\ nr.state_timer
    /\ nr' = NrClosed(NrRemoveRules(nr))
    /\ UNCHANGED nr_out

(* checkable: the objects this node's dispatcher::check() accepts. *)
NrReceive(m, checkable) ==
    \/ NrRefuseLifetime(m)
    \/ NrRefuseObjects(m, checkable)
    \/ \E result \in SUBSET m.objs :
          NrAccept(m, checkable, result) \/ NrInstallFails(m, checkable, result)
    \/ NrCloseDiscard(m)
    \/ NrRefresh(m) \/ NrTeardown(m) \/ NrMeteringDiscard(m)

(***************************************************************************)
(* The session on its own, with a peer that may send anything.             *)
(***************************************************************************)
AnyRequest ==
    {Configure(msn, lifetime, sme, objs) :
        msn \in Msns, lifetime \in Lifetimes, sme \in RequestSmes,
        objs \in RequestObjs}
    \cup {Refresh(msn, lifetime) : msn \in Msns, lifetime \in Lifetimes}

NrGistTakes ==
    /\ nr_out # <<>>
    /\ nr_out' = Tail(nr_out)
    /\ UNCHANGED nr

NrNext ==
    \/ \E m \in AnyRequest, checkable \in SUBSET Objects : NrReceive(m, checkable)
    \/ \E m \in AnyRequest : NrConfigureNoMri(m)
    \/ NrStateTimeout
    \/ NrGistTakes

NrSpec == NrInit /\ [][NrNext]_nr_vars

(***************************************************************************)
(* Properties.                                                             *)
(***************************************************************************)

(* Type correctness; the NR never grants more than its maximum lifetime,   *)
(* neither in its own state nor in the responses it sends.                 *)
NrTypeOK ==
    /\ nr \in NrSession
    /\ nr.lifetime <= NrMaxLifetime
    /\ nr_out \in Seq(Message)
    /\ \A i \in 1 .. Len(nr_out) : nr_out[i].lifetime <= NrMaxLifetime

(* No metering rule outlives its session, the state is soft, and the       *)
(* policy rule knows the key of everything that is installed.              *)
NrRulesAccounted ==
    nr.metered # {} =>
        nr.state = "METERING" /\ nr.state_timer /\ nr.metered \subseteq nr.rule_keys

(* While a session is being metered, its sequence number only moves        *)
(* forward in the serial-number order, past the wrap around.               *)
NrMsnForward ==
    [][nr.state = "METERING" /\ nr'.state = "METERING" /\ nr'.msn # nr.msn
         => IsGreaterThan(nr'.msn, nr.msn)]_nr_vars

(* The responder keeps the contract on installed rules: a failed           *)
(* installation and an expired session leave nothing behind.               *)
Contract == INSTANCE MeteringContract WITH phase <- nr.state, rules <- nr.metered

NrImplementsContract == Contract!ContractSpec

============================================================================
