------------------------- MODULE MeteringContract --------------------------
(***************************************************************************)
(* What a node of the path promises about the metering process, whatever   *)
(* its role: it installs rules only when a session enters METERING, all at *)
(* once, and takes all of them away when the session leaves METERING.  In  *)
(* between the installed rules never change.  A daemon that dies of a      *)
(* failed assertion may leave its rules behind.                            *)
(***************************************************************************)
CONSTANT Objects

VARIABLES phase,   \* what the session object of one session id is doing
          rules    \* the objects being metered on its behalf

contract_vars == <<phase, rules>>

ContractInit == phase = "CLOSE" /\ rules = {}

Open == phase = "CLOSE" /\ phase' = "PENDING" /\ rules' = rules

Install ==
    /\ phase \in {"CLOSE", "PENDING"} /\ rules = {}
    /\ phase' = "METERING"
    /\ rules' \in SUBSET Objects

Release ==
    /\ phase \in {"PENDING", "METERING"}
    /\ phase' = "CLOSE"
    /\ rules' = {}

Die ==
    /\ phase # "DEAD"
    /\ phase' = "DEAD"
    /\ rules' \in {rules, {}}

ContractNext == Open \/ Install \/ Release \/ Die

ContractSpec == ContractInit /\ [][ContractNext]_contract_vars

============================================================================
