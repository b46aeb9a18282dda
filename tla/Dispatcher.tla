----------------------------- MODULE Dispatcher ----------------------------
(***************************************************************************)
(* The dispatcher threads of the daemon, the session table they share and  *)
(* the life of the session objects.  Each thread takes a message off the   *)
(* input queue, maps it to an event, looks the session up, creates one     *)
(* where the event calls for it, lets the session process the event under  *)
(* the session's own mutex, and removes and deletes it when it is final.   *)
(* The steps are the critical sections of session_manager and of the       *)
(* session's mutex, and the accesses in between them.                      *)
(*                                                                         *)
(* What the session does with an event is abstracted to the outcomes the   *)
(* dispatcher tells apart: it ends in CLOSE, or not, or an exception gets  *)
(* out of process_event().                                                 *)
(***************************************************************************)
EXTENDS Naturals

CONSTANTS Threads,      \* configuration parameter dispatcher-threads
          Sids,         \* session ids
          Addresses,    \* bound: session objects allocated in a behaviour
          None,         \* the NULL pointer, and "nobody"
          Serialized    \* TRUE: the events of one session come one by one

ASSUME DispatcherAssumption ==
    None \notin Sids \cup Addresses \cup Threads /\ Serialized \in BOOLEAN

VARIABLES
    session_table,  \* session id -> session object, or None
    heap,           \* address -> what is there
    lock,           \* address -> the thread inside session::process()
    pc,             \* thread -> the step of process() it is at
    evt,            \* thread -> the event it processes
    cur,            \* thread -> the pointer s of process()
    fault           \* the memory error that happened, or "none"

vars == <<session_table, heap, lock, pc, evt, cur, fault>>

Steps == {"idle", "lookup", "create", "lock", "run", "final", "remove", "delete",
          "catch"}

EventKinds == {"none", "routing_state_check", "invalid", "configure",
               "api_configure", "other"}

Events == [kind : EventKinds, sid : Sids \cup {None}]

NoEvent == [kind |-> "none", sid |-> None]

Unused == [state |-> "unused", sid |-> None]

Objects == [state : {"unused", "open", "final", "deleted", "leaked"},
            sid : Sids \cup {None}]

Init ==
    /\ session_table = [sid \in Sids |-> None]
    /\ heap = [a \in Addresses |-> Unused]
    /\ lock = [a \in Addresses |-> None]
    /\ pc = [t \in Threads |-> "idle"]
    /\ evt = [t \in Threads |-> NoEvent]
    /\ cur = [t \in Threads |-> None]
    /\ fault = "none"

(* What may be taken off the input queue: by GIST, a timer or the API. *)
Inputs == {"adjacency_check", "empty", "unparsable", "mnslp_configure",
           "mnslp_other", "route_changed_bad", "notification_other",
           "node_not_found", "status_other", "timer", "api_configure",
           "api_other"}

(***************************************************************************)
(* gistka_mapper::map_to_event(): the kinds of event the dispatcher tells  *)
(* apart; "none" where the mapper returns NULL.                            *)
(***************************************************************************)
MapToEvent(input) ==
    CASE input = "adjacency_check" -> "routing_state_check"
      [] input = "unparsable"      -> "invalid"
      [] input = "mnslp_configure" -> "configure"
      [] input = "api_configure"   -> "api_configure"
      [] input \in {"empty", "notification_other", "status_other"} -> "none"
      [] OTHER -> "other"

Live(a) == heap[a].state \in {"open", "final"}

(* The memory at a still holds a session, if only one that was leaked. *)
Valid(a) == Live(a) \/ heap[a].state = "leaked"

(* Someone follows a pointer to an object that is gone. *)
Fault(what) ==
    /\ fault' = what
    /\ UNCHANGED <<session_table, heap, lock, pc, evt, cur>>

At(t, step) == fault = "none" /\ pc[t] = step

Goto(t, step) == pc' = [pc EXCEPT ![t] = step]

Finish(t) ==
    /\ pc' = [pc EXCEPT ![t] = "idle"]
    /\ evt' = [evt EXCEPT ![t] = NoEvent]
    /\ cur' = [cur EXCEPT ![t] = None]

(* Another thread is processing an event of this session. *)
Busy(t, sid) == Serialized /\ \E u \in Threads \ {t} : evt[u].sid = sid

(***************************************************************************)
(* main_loop() dequeues a message.  A message without an event is dropped; *)
(* a routing state check and an unparsable message are answered at once.   *)
(* An API configure event carries no session id.                           *)
(***************************************************************************)
Dequeue(t, input, sid) ==
    /\ At(t, "idle")
    /\ LET kind == MapToEvent(input) IN
       IF kind \in {"none", "routing_state_check", "invalid"}
       THEN UNCHANGED vars
       ELSE /\ ~Busy(t, sid)
            /\ evt' = [evt EXCEPT ![t] =
                  [kind |-> kind,
                   sid |-> IF kind = "api_configure" THEN None ELSE sid]]
            /\ Goto(t, "lookup")
            /\ UNCHANGED <<session_table, heap, lock, cur, fault>>

LookupKeepsId(t) ==
    /\ At(t, "lookup")
    /\ cur' = [cur EXCEPT ![t] = evt[t].sid]
    /\ Goto(t, IF evt[t].sid = None THEN "create" ELSE "lock")
    /\ UNCHANGED <<session_table, heap, lock, evt, fault>>

(* get_session(): one critical section of the session manager. *)
Lookup(t) ==
    /\ At(t, "lookup")
    /\ LET s == IF evt[t].sid = None THEN None ELSE session_table[evt[t].sid] IN
       /\ cur' = [cur EXCEPT ![t] = s]
       /\ Goto(t, IF s = None THEN "create" ELSE "lock")
    /\ UNCHANGED <<session_table, heap, lock, evt, fault>>

IdNotChecked(t, sid) == ~Busy(t, sid)

(* create_unique_id(): not in the table, and drawn from 128 random bits. *)
IsUniqueId(t, sid) == session_table[sid] = None /\ ~Busy(t, sid)

(***************************************************************************)
(* create_session(): a new object replaces whatever the table holds for    *)
(* its id.  Other events without a session are discarded.                  *)
(***************************************************************************)
CreateUnregistered(t, sid, a) ==
    /\ At(t, "create")
    /\ \/ evt[t].kind = "configure" /\ sid = evt[t].sid
       \/ evt[t].kind = "api_configure" /\ IsUniqueId(t, sid)
    /\ heap[a] = Unused
    /\ heap' = [heap EXCEPT ![a] = [state |-> "open", sid |-> sid]]
    /\ cur' = [cur EXCEPT ![t] = a]
    /\ evt' = [evt EXCEPT ![t].sid = sid]
    /\ Goto(t, "lock")
    /\ UNCHANGED <<session_table, lock, fault>>

Create(t, sid, a) ==
    /\ At(t, "create")
    /\ \/ evt[t].kind = "configure" /\ sid = evt[t].sid
       \/ evt[t].kind = "api_configure" /\ IsUniqueId(t, sid)
    /\ heap[a] = Unused
    /\ heap' = [heap EXCEPT ![a] = [state |-> "open", sid |-> sid]]
    /\ session_table' = [session_table EXCEPT ![sid] = a]
    /\ cur' = [cur EXCEPT ![t] = a]
    /\ evt' = [evt EXCEPT ![t].sid = sid]
    /\ Goto(t, "lock")
    /\ UNCHANGED <<lock, fault>>

Discard(t) ==
    /\ At(t, "create")
    /\ evt[t].kind \notin {"configure", "api_configure"}
    /\ Finish(t)
    /\ UNCHANGED <<session_table, heap, lock, fault>>

(* session::process(): pthread_mutex_lock. *)
Lock(t) ==
    /\ At(t, "lock")
    /\ IF Valid(cur[t])
       THEN /\ lock[cur[t]] = None
            /\ lock' = [lock EXCEPT ![cur[t]] = t]
            /\ Goto(t, "run")
            /\ UNCHANGED <<session_table, heap, evt, cur, fault>>
       ELSE Fault("use after delete")

(* process_event() and pthread_mutex_unlock. *)
Run(t, state) ==
    /\ At(t, "run")
    /\ IF Valid(cur[t])
       THEN /\ heap' = [heap EXCEPT ![cur[t]].state = state]
            /\ lock' = [lock EXCEPT ![cur[t]] = None]
            /\ Goto(t, "final")
            /\ UNCHANGED <<session_table, evt, cur, fault>>
       ELSE Fault("use after delete")

(* An exception gets out; the cleanup handler releases the mutex. *)
RunThrows(t) ==
    /\ At(t, "run")
    /\ Valid(cur[t])
    /\ lock' = [lock EXCEPT ![cur[t]] = None]
    /\ Goto(t, "catch")
    /\ UNCHANGED <<session_table, heap, evt, cur, fault>>

IsFinalIgnored(t) ==
    /\ At(t, "final")
    /\ Finish(t)
    /\ UNCHANGED <<session_table, heap, lock, fault>>

(* is_final(), outside of the session's mutex. *)
IsFinal(t) ==
    /\ At(t, "final")
    /\ IF Valid(cur[t])
       THEN IF heap[cur[t]].state = "final"
            THEN /\ Goto(t, "remove")
                 /\ UNCHANGED <<session_table, heap, lock, evt, cur, fault>>
            ELSE /\ Finish(t)
                 /\ UNCHANGED <<session_table, heap, lock, fault>>
       ELSE Fault("use after delete")

(***************************************************************************)
(* remove_session(): whatever the table holds under the id of s goes.  The *)
(* entry found is dereferenced for the log.                                *)
(***************************************************************************)
RemoveSession(t, next) ==
    IF ~Valid(cur[t]) THEN Fault("use after delete")
    ELSE LET sid == heap[cur[t]].sid IN
         IF session_table[sid] = None THEN Fault("null pointer")
         ELSE /\ session_table' = [session_table EXCEPT ![sid] = None]
              /\ next

RemoveForgotten(t) ==
    /\ At(t, "remove")
    /\ Goto(t, "delete")
    /\ UNCHANGED <<session_table, heap, lock, evt, cur, fault>>

Remove(t) ==
    /\ At(t, "remove")
    /\ RemoveSession(t, Goto(t, "delete")
                        /\ UNCHANGED <<heap, lock, evt, cur, fault>>)

Delete(t) ==
    /\ At(t, "delete")
    /\ IF Valid(cur[t])
       THEN /\ heap' = [heap EXCEPT ![cur[t]].state = "deleted"]
            /\ Finish(t)
            /\ UNCHANGED <<session_table, lock, fault>>
       ELSE Fault("double delete")

(* catch (...): the session leaves the table, but nobody deletes it. *)
Catch(t) ==
    /\ At(t, "catch")
    /\ RemoveSession(t, /\ heap' = [heap EXCEPT ![cur[t]].state = "leaked"]
                        /\ Finish(t)
                        /\ UNCHANGED <<lock, fault>>)

Thread(t) ==
    \/ \E input \in Inputs, sid \in Sids : Dequeue(t, input, sid)
    \/ Lookup(t)
    \/ \E sid \in Sids, a \in Addresses : Create(t, sid, a)
    \/ Discard(t)
    \/ Lock(t)
    \/ \E state \in {"open", "final"} : Run(t, state)
    \/ RunThrows(t)
    \/ IsFinal(t) \/ Remove(t) \/ Delete(t) \/ Catch(t)

Next == \E t \in Threads : Thread(t)

(* A thread that is in the middle of process() goes on. *)
Advance(t) == pc[t] # "idle" /\ Thread(t)

Spec == Init /\ [][Next]_vars /\ \A t \in Threads : WF_vars(Advance(t))

(***************************************************************************)
(* Properties.                                                             *)
(***************************************************************************)

(* Type correctness. *)
TypeOK ==
    /\ session_table \in [Sids -> Addresses \cup {None}]
    /\ heap \in [Addresses -> Objects]
    /\ lock \in [Addresses -> Threads \cup {None}]
    /\ pc \in [Threads -> Steps]
    /\ evt \in [Threads -> Events]
    /\ cur \in [Threads -> Addresses \cup {None}]
    /\ fault \in {"none", "use after delete", "double delete", "null pointer"}

(* The session table never leads to an object that is gone, and the object *)
(* it leads to carries the id it was found under.                          *)
TableSound ==
    \A sid \in Sids : session_table[sid] # None =>
        Live(session_table[sid]) /\ heap[session_table[sid]].sid = sid

(* Memory safety of the dispatcher: no thread uses a session that another  *)
(* thread deleted, no session is deleted twice, and remove_session() finds *)
(* what it removes.                                                        *)
NoFault == fault = "none"

(* A session object that is alive can be reached: through the table, or by *)
(* the thread that has just taken it out to delete it.  Otherwise it would *)
(* never be deleted.                                                       *)
NoOrphan ==
    \A a \in Addresses : Live(a) =>
        \/ session_table[heap[a].sid] = a
        \/ \E t \in Threads : cur[t] = a /\ pc[t] = "delete"

(* A session that has come to its final state is deleted in the end. *)
FinalDeleted ==
    \A a \in Addresses : heap[a].state = "final" ~> heap[a].state # "final"

============================================================================
