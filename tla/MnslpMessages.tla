--------------------------- MODULE MnslpMessages ---------------------------
(***************************************************************************)
(* What the session state machines of M-NSLP exchange: CONFIGURE, REFRESH  *)
(* and RESPONSE messages, together with the routing direction GIST sends   *)
(* them in (the "downstream" flag of the message routing information).     *)
(*                                                                         *)
(* Abstraction.  A metering object is an element of Objects.  The session  *)
(* id is left out (one session is followed), so are the SII handle, the    *)
(* hop count (carried, never decremented by this code) and the addresses   *)
(* of the MRI.                                                             *)
(***************************************************************************)
EXTENDS MsnArithmetic, Sequences

CONSTANTS Objects,       \* metering objects a user may ask for
          MaxLifetime    \* bound: lifetimes range over 0 .. MaxLifetime

ASSUME MaxLifetimeAssumption == MaxLifetime \in Nat

Lifetimes == 0 .. MaxLifetime

(***************************************************************************)
(* selection_metering_entities_t without the enterprise-specific value,    *)
(* which check_participating() answers like an unknown one ("other").      *)
(***************************************************************************)
Smes == {"all", "any", "first", "last", "first_last", "other"}

Min2(a, b) == IF a <= b THEN a ELSE b

(***************************************************************************)
(* session::check_participating(): which selections a node of a given role *)
(* takes part in.                                                          *)
(***************************************************************************)
Participating(type, sme) ==
    \/ type = "initiator" /\ sme \in {"all", "any", "first", "first_last"}
    \/ type = "forwarder" /\ sme \in {"all", "any"}
    \/ type = "receiver"  /\ sme \in {"all", "any", "first_last", "last"}

(***************************************************************************)
(* The objects a node keeps for itself: it takes part in the selection and *)
(* dispatcher::check() accepts the object.  The loops of setup_session(),  *)
(* set_mt_policy_rule() and save_mt_policy_rule() put every other object   *)
(* into missing_objects.                                                   *)
(***************************************************************************)
Taken(type, sme, objs, checkable) ==
    IF Participating(type, sme) THEN objs \cap checkable ELSE {}

Message == [kind : {"NONE", "CONFIGURE", "REFRESH", "RESPONSE"},
            msn : Msns, lifetime : Lifetimes, ok : BOOLEAN,
            sme : Smes, objs : SUBSET Objects, downstream : BOOLEAN]

(* The NULL pointer where a stored message would be. *)
NoMsg == [kind |-> "NONE", msn |-> 0, lifetime |-> 0, ok |-> FALSE,
          sme |-> "other", objs |-> {}, downstream |-> FALSE]

Configure(msn, lifetime, sme, objs) ==
    [kind |-> "CONFIGURE", msn |-> msn, lifetime |-> lifetime, ok |-> FALSE,
     sme |-> sme, objs |-> objs, downstream |-> TRUE]

Refresh(msn, lifetime) ==
    [kind |-> "REFRESH", msn |-> msn, lifetime |-> lifetime, ok |-> FALSE,
     sme |-> "other", objs |-> {}, downstream |-> TRUE]

(***************************************************************************)
(* ntlp_msg::create_response(): the answer takes over the MSN and goes in  *)
(* the direction opposite to the message it is created from, whatever that *)
(* message is.  Only success responses carry a session lifetime.           *)
(***************************************************************************)
CreateResponse(msg) ==
    [kind |-> "RESPONSE", msn |-> msg.msn, lifetime |-> 0, ok |-> FALSE,
     sme |-> "other", objs |-> {}, downstream |-> ~msg.downstream]

CreateSuccessResponse(msg, lifetime) ==
    [CreateResponse(msg) EXCEPT !.ok = TRUE, !.lifetime = lifetime]

(***************************************************************************)
(* is_mnslp_response(evt, msg): msg is not NULL and the event is a         *)
(* RESPONSE that carries its MSN.                                          *)
(***************************************************************************)
IsResponseTo(resp, msg) ==
    msg # NoMsg /\ resp.kind = "RESPONSE" /\ resp.msn = msg.msn

============================================================================
