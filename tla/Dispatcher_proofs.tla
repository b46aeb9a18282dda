------------------------- MODULE Dispatcher_proofs -------------------------
(***************************************************************************)
(* The dispatcher is memory safe, for any number of threads, session ids   *)
(* and objects, as long as the events of one session are processed one by  *)
(* one.                                                                    *)
(***************************************************************************)
EXTENDS Dispatcher, TLAPS

(***************************************************************************)
(* The invariant.  A thread owns the session id of its event, and nobody   *)
(* else touches what the table holds for that id.                          *)
(***************************************************************************)
Holding == {"lock", "run", "final", "remove", "catch"}

ThreadOK(t) ==
    /\ pc[t] = "create" /\ evt[t].sid # None => session_table[evt[t].sid] = None
    /\ pc[t] \in Holding =>
          /\ evt[t].sid \in Sids
          /\ cur[t] = session_table[evt[t].sid] /\ cur[t] # None
    /\ pc[t] = "delete" =>
          /\ evt[t].sid \in Sids /\ session_table[evt[t].sid] = None
          /\ cur[t] \in Addresses /\ Live(cur[t])
          /\ heap[cur[t]].sid = evt[t].sid

OneThreadEach ==
    \A t, u \in Threads :
        t # u /\ evt[t].sid # None => evt[t].sid # evt[u].sid

LiveHasId == \A a \in Addresses : Live(a) => heap[a].sid \in Sids

DispatcherInv ==
    /\ TypeOK /\ NoFault /\ TableSound /\ NoOrphan
    /\ OneThreadEach /\ LiveHasId
    /\ \A t \in Threads : ThreadOK(t)

LEMMA NoneIsNothing ==
    /\ \A sid \in Sids : sid # None
    /\ \A a \in Addresses : a # None
    /\ \A t \in Threads : t # None
  BY DispatcherAssumption

(* What a thread in the middle of process() works on. *)
LEMMA HoldsLive ==
    ASSUME DispatcherInv, NEW t \in Threads, pc[t] \in Holding
    PROVE  /\ evt[t].sid \in Sids /\ cur[t] \in Addresses
           /\ cur[t] = session_table[evt[t].sid]
           /\ Live(cur[t]) /\ Valid(cur[t]) /\ heap[cur[t]].sid = evt[t].sid
  <1>1. ThreadOK(t) /\ TableSound /\ TypeOK
    BY DEF DispatcherInv
  <1>2. /\ evt[t].sid \in Sids
        /\ cur[t] = session_table[evt[t].sid] /\ cur[t] # None
    BY <1>1 DEF ThreadOK
  <1>3. cur[t] \in Addresses
    BY <1>1, <1>2 DEF TypeOK
  <1>4. Live(cur[t]) /\ heap[cur[t]].sid = evt[t].sid
    BY <1>1, <1>2 DEF TableSound
  <1>5. QED
    BY <1>2, <1>3, <1>4 DEF Valid

(***************************************************************************)
(* Steps that change neither the table nor an object.                      *)
(***************************************************************************)
OthersKept(t) ==
    \A u \in Threads \ {t} :
        pc'[u] = pc[u] /\ evt'[u] = evt[u] /\ cur'[u] = cur[u]

LEMMA LocalStep ==
    ASSUME DispatcherInv, NEW t \in Threads, pc[t] # "delete",
           UNCHANGED <<session_table, heap, fault>>, OthersKept(t),
           TypeOK', ThreadOK(t)', OneThreadEach'
    PROVE  DispatcherInv'
  <1>1. NoFault' /\ TableSound' /\ LiveHasId'
    BY DEF DispatcherInv, NoFault, TableSound, LiveHasId, Live
  <1>2. NoOrphan'
    BY DEF DispatcherInv, NoOrphan, Live, OthersKept
  <1>3. ASSUME NEW u \in Threads, u # t
        PROVE  ThreadOK(u)'
    BY <1>3 DEF DispatcherInv, ThreadOK, Live, OthersKept
  <1>4. QED
    BY <1>1, <1>2, <1>3 DEF DispatcherInv

(* The ids of the events stay apart when t keeps or gives up its own. *)
LEMMA SameEvents ==
    ASSUME DispatcherInv, NEW t \in Threads, OthersKept(t),
           evt'[t].sid \in {evt[t].sid, None}
    PROVE  OneThreadEach'
  BY DEF DispatcherInv, OneThreadEach, OthersKept

(* ... and when it takes one that is not busy. *)
LEMMA NewEvent ==
    ASSUME DispatcherInv, Serialized, NEW t \in Threads, OthersKept(t),
           NEW sid, ~Busy(t, sid), evt'[t].sid = sid
    PROVE  OneThreadEach'
  BY DEF DispatcherInv, OneThreadEach, OthersKept, Busy

LEMMA FinishType ==
    ASSUME TypeOK, NEW t \in Threads, Finish(t)
    PROVE  /\ pc' \in [Threads -> Steps] /\ evt' \in [Threads -> Events]
           /\ cur' \in [Threads -> Addresses \cup {None}]
           /\ pc'[t] = "idle" /\ evt'[t].sid = None /\ OthersKept(t)
  BY DEF TypeOK, Finish, Steps, NoEvent, Events, EventKinds, OthersKept

LEMMA GotoType ==
    ASSUME TypeOK, NEW t \in Threads, NEW step \in Steps, Goto(t, step)
    PROVE  /\ pc' \in [Threads -> Steps] /\ pc'[t] = step
           /\ \A u \in Threads \ {t} : pc'[u] = pc[u]
  BY DEF TypeOK, Goto

LEMMA DequeueStep ==
    ASSUME DispatcherInv, Serialized, NEW t \in Threads, NEW input \in Inputs,
           NEW sid \in Sids, Dequeue(t, input, sid)
    PROVE  DispatcherInv'
  <1> DEFINE kind == MapToEvent(input)
             e == [kind |-> kind,
                   sid |-> IF kind = "api_configure" THEN None ELSE sid]
  <1>1. CASE UNCHANGED vars
    BY <1>1 DEF vars, DispatcherInv, TypeOK, NoFault, TableSound, NoOrphan,
                OneThreadEach, LiveHasId, ThreadOK, Live
  <1>2. CASE /\ ~Busy(t, sid)
             /\ evt' = [evt EXCEPT ![t] = e] /\ Goto(t, "lookup")
             /\ UNCHANGED <<session_table, heap, lock, cur, fault>>
    <2>1. TypeOK /\ pc[t] = "idle"
      BY DEF DispatcherInv, Dequeue, At
    <2>2. kind \in EventKinds
      BY DEF MapToEvent, EventKinds
    <2>3. e \in Events /\ (e.sid = sid \/ e.sid = None)
      BY <2>2 DEF Events
    <2> HIDE DEF e, kind
    <2>4. /\ pc' \in [Threads -> Steps] /\ pc'[t] = "lookup"
          /\ \A u \in Threads \ {t} : pc'[u] = pc[u]
      BY <1>2, <2>1, GotoType DEF Steps
    <2>5. TypeOK' /\ OthersKept(t) /\ evt'[t] = e
      BY <1>2, <2>1, <2>3, <2>4 DEF TypeOK, OthersKept
    <2>6. OneThreadEach'
      BY <1>2, <2>3, <2>5, NewEvent, SameEvents
    <2>7. ThreadOK(t)'
      BY <2>4 DEF ThreadOK, Holding
    <2>8. QED
      BY <1>2, <2>1, <2>5, <2>6, <2>7, LocalStep
  <1>3. QED
    BY <1>1, <1>2 DEF Dequeue

LEMMA LookupStep ==
    ASSUME DispatcherInv, NEW t \in Threads, Lookup(t)
    PROVE  DispatcherInv'
  <1> DEFINE s == IF evt[t].sid = None THEN None ELSE session_table[evt[t].sid]
             step == IF s = None THEN "create" ELSE "lock"
  <1>1. /\ TypeOK /\ pc[t] = "lookup" /\ evt[t].sid \in Sids \cup {None}
        /\ cur' = [cur EXCEPT ![t] = s] /\ Goto(t, step)
        /\ UNCHANGED <<session_table, heap, lock, evt, fault>>
    BY DEF DispatcherInv, Lookup, At, TypeOK, Events
  <1>2. s \in Addresses \cup {None}
    BY <1>1 DEF TypeOK
  <1>3. s # None => evt[t].sid \in Sids /\ s = session_table[evt[t].sid]
    BY <1>1
  <1>4. s = None /\ evt[t].sid # None => session_table[evt[t].sid] = None
    OBVIOUS
  <1> HIDE DEF s
  <1>5. /\ pc' \in [Threads -> Steps] /\ pc'[t] = step
        /\ \A u \in Threads \ {t} : pc'[u] = pc[u]
    BY <1>1, GotoType DEF Steps
  <1>6. TypeOK' /\ OthersKept(t) /\ cur'[t] = s /\ evt'[t].sid = evt[t].sid
    BY <1>1, <1>2, <1>5 DEF TypeOK, OthersKept
  <1>7. OneThreadEach'
    BY <1>6, SameEvents
  <1>8. ThreadOK(t)'
    BY <1>1, <1>3, <1>4, <1>5, <1>6 DEF ThreadOK, Holding
  <1>9. QED
    BY <1>1, <1>6, <1>7, <1>8, LocalStep

(* The thread is done with its event, or goes to the next step with it. *)
LEMMA FinishStep ==
    ASSUME DispatcherInv, NEW t \in Threads, pc[t] # "delete", Finish(t),
           UNCHANGED <<session_table, heap, lock, fault>>
    PROVE  DispatcherInv'
  <1>1. TypeOK
    BY DEF DispatcherInv
  <1>2. /\ pc' \in [Threads -> Steps] /\ evt' \in [Threads -> Events]
        /\ cur' \in [Threads -> Addresses \cup {None}]
        /\ pc'[t] = "idle" /\ evt'[t].sid = None /\ OthersKept(t)
    BY <1>1, FinishType
  <1>3. TypeOK'
    BY <1>1, <1>2 DEF TypeOK
  <1>4. ThreadOK(t)'
    BY <1>2 DEF ThreadOK, Holding
  <1>5. QED
    BY <1>2, <1>3, <1>4, SameEvents, LocalStep

LEMMA HoldStep ==
    ASSUME DispatcherInv, NEW t \in Threads, pc[t] \in Holding,
           NEW step \in Holding, Goto(t, step),
           lock' \in [Addresses -> Threads \cup {None}],
           UNCHANGED <<session_table, heap, evt, cur, fault>>
    PROVE  DispatcherInv'
  <1>1. TypeOK /\ ThreadOK(t) /\ pc[t] # "delete" /\ step \in Steps
    BY DEF DispatcherInv, Holding, Steps
  <1>2. /\ pc' \in [Threads -> Steps] /\ pc'[t] = step
        /\ \A u \in Threads \ {t} : pc'[u] = pc[u]
    BY <1>1, GotoType
  <1>3. TypeOK' /\ OthersKept(t) /\ evt'[t].sid = evt[t].sid
    BY <1>1, <1>2 DEF TypeOK, OthersKept
  <1>4. ThreadOK(t)'
    BY <1>1, <1>2 DEF ThreadOK, Holding
  <1>5. QED
    BY <1>1, <1>3, <1>4, SameEvents, LocalStep

LEMMA LockStep ==
    ASSUME DispatcherInv, NEW t \in Threads, Lock(t) \/ RunThrows(t)
    PROVE  DispatcherInv'
  <1>1. pc[t] \in Holding
    BY DEF Lock, RunThrows, At, Holding
  <1>2. Valid(cur[t]) /\ cur[t] \in Addresses /\ lock \in [Addresses -> Threads \cup {None}]
    BY <1>1, HoldsLive DEF DispatcherInv, TypeOK
  <1>3. \E step \in {"run", "catch"}, who \in {t, None} :
           /\ Goto(t, step) /\ lock' = [lock EXCEPT ![cur[t]] = who]
           /\ UNCHANGED <<session_table, heap, evt, cur, fault>>
    BY <1>2 DEF Lock, RunThrows
  <1>4. lock' \in [Addresses -> Threads \cup {None}]
    BY <1>2, <1>3
  <1>5. QED
    BY <1>1, <1>3, <1>4, HoldStep DEF Holding

LEMMA IsFinalStep ==
    ASSUME DispatcherInv, NEW t \in Threads, IsFinal(t)
    PROVE  DispatcherInv'
  <1>1. pc[t] \in Holding /\ pc[t] # "delete"
    BY DEF IsFinal, At, Holding
  <1>2. Valid(cur[t])
    BY <1>1, HoldsLive
  <1>3. CASE /\ Goto(t, "remove")
             /\ UNCHANGED <<session_table, heap, lock, evt, cur, fault>>
    <2>1. lock' \in [Addresses -> Threads \cup {None}]
      BY <1>3 DEF DispatcherInv, TypeOK
    <2>2. QED
      BY <1>1, <1>3, <2>1, HoldStep DEF Holding
  <1>4. CASE Finish(t) /\ UNCHANGED <<session_table, heap, lock, fault>>
    BY <1>1, <1>4, FinishStep
  <1>5. QED
    BY <1>2, <1>3, <1>4 DEF IsFinal

(***************************************************************************)
(* Steps on the table and on the objects.  The object of another thread is *)
(* another object, because it carries another id.                          *)
(***************************************************************************)
LEMMA OthersApart ==
    ASSUME DispatcherInv, NEW t \in Threads, NEW u \in Threads, t # u,
           evt[t].sid # None, pc[u] \in Holding \cup {"delete"}
    PROVE  /\ evt[u].sid \in Sids /\ evt[u].sid # evt[t].sid
           /\ cur[u] \in Addresses /\ Live(cur[u])
           /\ heap[cur[u]].sid = evt[u].sid
  <1>1. evt[u].sid # evt[t].sid
    BY DEF DispatcherInv, OneThreadEach
  <1>2. CASE pc[u] \in Holding
    BY <1>1, <1>2, HoldsLive
  <1>3. CASE pc[u] = "delete"
    BY <1>1, <1>3 DEF DispatcherInv, ThreadOK
  <1>4. QED
    BY <1>2, <1>3

LEMMA CreateStep ==
    ASSUME DispatcherInv, Serialized, NEW t \in Threads, NEW sid \in Sids,
           NEW a \in Addresses, Create(t, sid, a)
    PROVE  DispatcherInv'
  <1>1. /\ TypeOK /\ pc[t] = "create" /\ heap[a] = Unused
        /\ heap' = [heap EXCEPT ![a] = [state |-> "open", sid |-> sid]]
        /\ session_table' = [session_table EXCEPT ![sid] = a]
        /\ cur' = [cur EXCEPT ![t] = a] /\ evt' = [evt EXCEPT ![t].sid = sid]
        /\ Goto(t, "lock") /\ UNCHANGED <<lock, fault>>
    BY DEF DispatcherInv, Create, At
  <1>2. ~Live(a) /\ a # None /\ sid # None
    BY <1>1, NoneIsNothing DEF Live, Unused
  <1>3. /\ pc' \in [Threads -> Steps] /\ pc'[t] = "lock"
        /\ \A u \in Threads \ {t} : pc'[u] = pc[u]
    BY <1>1, GotoType DEF Steps
  <1>4. [evt[t] EXCEPT !.sid = sid] \in Events
    BY <1>1 DEF TypeOK, Events
  <1>5. /\ evt' \in [Threads -> Events] /\ evt'[t].sid = sid
        /\ \A u \in Threads \ {t} : evt'[u] = evt[u]
    BY <1>1, <1>4 DEF TypeOK, Events
  <1>6. /\ heap' \in [Addresses -> Objects]
        /\ heap'[a] = [state |-> "open", sid |-> sid]
        /\ \A b \in Addresses \ {a} : heap'[b] = heap[b]
    BY <1>1 DEF TypeOK, Objects
  <1>7. /\ session_table' \in [Sids -> Addresses \cup {None}]
        /\ session_table'[sid] = a
        /\ \A r \in Sids \ {sid} : session_table'[r] = session_table[r]
    BY <1>1 DEF TypeOK
  <1>8. TypeOK' /\ OthersKept(t) /\ cur'[t] = a
    BY <1>1, <1>3, <1>5, <1>6, <1>7 DEF TypeOK, OthersKept
  <1>9. session_table[sid] = None
    <2>1. CASE evt[t].kind = "configure" /\ sid = evt[t].sid
      BY <1>1, <1>2, <2>1 DEF DispatcherInv, ThreadOK
    <2>2. CASE IsUniqueId(t, sid)
      BY <2>2 DEF IsUniqueId
    <2>3. QED
      BY <2>1, <2>2 DEF Create
  <1>10. \A u \in Threads \ {t} : evt[u].sid # sid
    <2>1. CASE evt[t].kind = "configure" /\ sid = evt[t].sid
      BY <1>2, <2>1 DEF DispatcherInv, OneThreadEach
    <2>2. CASE IsUniqueId(t, sid)
      BY <2>2 DEF IsUniqueId, Busy
    <2>3. QED
      BY <2>1, <2>2 DEF Create
  <1>11. OneThreadEach'
    BY <1>5, <1>10 DEF DispatcherInv, OneThreadEach
  <1>12. /\ heap'[a].state = "open"
         /\ \A b \in Addresses \ {a} : Live(b)' <=> Live(b)
    BY <1>6 DEF Live
  <1>13. NoFault' /\ LiveHasId'
    BY <1>1, <1>6, <1>12 DEF DispatcherInv, NoFault, LiveHasId
  <1>14. TableSound'
    <2> SUFFICES ASSUME NEW r \in Sids, session_table'[r] # None
                 PROVE  /\ heap'[session_table'[r]].state \in {"open", "final"}
                        /\ heap'[session_table'[r]].sid = r
      BY DEF TableSound, Live
    <2>1. CASE r = sid
      BY <1>6, <1>7, <1>12, <2>1
    <2>2. CASE r # sid
      <3>1. /\ session_table'[r] = session_table[r]
            /\ Live(session_table[r]) /\ heap[session_table[r]].sid = r
        BY <1>7, <2>2 DEF DispatcherInv, TableSound
      <3>2. session_table[r] \in Addresses \ {a}
        BY <1>1, <1>2, <3>1 DEF TypeOK
      <3>3. QED
        BY <1>6, <3>1, <3>2 DEF Live
    <2>3. QED
      BY <2>1, <2>2
  <1>15. NoOrphan'
    <2> SUFFICES ASSUME NEW b \in Addresses, Live(b)'
                 PROVE  \/ session_table'[heap'[b].sid] = b
                        \/ \E u \in Threads : cur'[u] = b /\ pc'[u] = "delete"
      BY DEF NoOrphan
    <2>1. CASE b = a
      BY <1>6, <1>7, <2>1
    <2>2. CASE b # a
      <3>1. /\ Live(b) /\ heap'[b] = heap[b] /\ heap[b].sid \in Sids
        BY <1>6, <1>12, <2>2 DEF DispatcherInv, LiveHasId
      <3>2. CASE session_table[heap[b].sid] = b
        <4>1. heap[b].sid # sid
          BY <1>9, <3>2, NoneIsNothing
        <4>2. QED
          BY <1>7, <3>1, <3>2, <4>1
      <3>3. CASE \E u \in Threads : cur[u] = b /\ pc[u] = "delete"
        BY <1>1, <1>8, <3>3 DEF OthersKept
      <3>4. QED
        BY <3>1, <3>2, <3>3 DEF DispatcherInv, NoOrphan
    <2>3. QED
      BY <2>1, <2>2
  <1>16. ThreadOK(t)'
    BY <1>2, <1>3, <1>5, <1>7, <1>8 DEF ThreadOK
  <1>17. ASSUME NEW u \in Threads, u # t
         PROVE  ThreadOK(u)'
    <2>1. /\ ThreadOK(u) /\ pc'[u] = pc[u] /\ evt'[u] = evt[u] /\ cur'[u] = cur[u]
          /\ evt[u].sid # sid /\ evt[u].sid \in Sids \cup {None}
      BY <1>1, <1>8, <1>10, <1>17 DEF DispatcherInv, OthersKept, TypeOK, Events
    <2>2. evt[u].sid \in Sids => session_table'[evt[u].sid] = session_table[evt[u].sid]
      BY <1>7, <2>1
    <2>3. cur[u] \in Addresses /\ Live(cur[u]) =>
             heap'[cur[u]] = heap[cur[u]]
      BY <1>2, <1>6
    <2>4. QED
      BY <2>1, <2>2, <2>3 DEF ThreadOK, Live
  <1>18. QED
    BY <1>8, <1>11, <1>13, <1>14, <1>15, <1>16, <1>17 DEF DispatcherInv

LEMMA DiscardStep ==
    ASSUME DispatcherInv, NEW t \in Threads, Discard(t)
    PROVE  DispatcherInv'
  BY FinishStep DEF Discard, At

(* process_event() may change the state of the session, nothing else. *)
LEMMA RunStep ==
    ASSUME DispatcherInv, NEW t \in Threads, NEW state \in {"open", "final"},
           Run(t, state)
    PROVE  DispatcherInv'
  <1>1. /\ pc[t] = "run" /\ pc[t] \in Holding /\ TypeOK /\ ThreadOK(t)
    BY DEF DispatcherInv, Run, At, Holding
  <1>2. /\ cur[t] \in Addresses /\ Live(cur[t]) /\ Valid(cur[t])
    BY <1>1, HoldsLive
  <1>3. /\ heap' = [heap EXCEPT ![cur[t]].state = state]
        /\ lock' = [lock EXCEPT ![cur[t]] = None]
        /\ Goto(t, "final")
        /\ UNCHANGED <<session_table, evt, cur, fault>>
    BY <1>2 DEF Run
  <1>4. /\ pc' \in [Threads -> Steps] /\ pc'[t] = "final"
        /\ \A u \in Threads \ {t} : pc'[u] = pc[u]
    BY <1>1, <1>3, GotoType DEF Steps
  <1>5. [heap[cur[t]] EXCEPT !.state = state] \in Objects
    BY <1>1, <1>2 DEF TypeOK, Objects
  <1>6. /\ heap' \in [Addresses -> Objects]
        /\ \A b \in Addresses : heap'[b].sid = heap[b].sid
        /\ \A b \in Addresses \ {cur[t]} : heap'[b] = heap[b]
        /\ heap'[cur[t]].state = state
    BY <1>1, <1>2, <1>3, <1>5 DEF TypeOK, Objects
  <1>7. \A b \in Addresses : Live(b)' <=> Live(b)
    BY <1>2, <1>6 DEF Live
  <1>8. TypeOK' /\ OthersKept(t) /\ evt'[t].sid = evt[t].sid
    BY <1>1, <1>2, <1>3, <1>4, <1>6 DEF TypeOK, OthersKept
  <1>9. OneThreadEach' /\ NoFault' /\ LiveHasId'
    BY <1>3, <1>6, <1>7, <1>8, SameEvents DEF DispatcherInv, NoFault, LiveHasId
  <1>10. TableSound'
    BY <1>1, <1>3, <1>6, <1>7 DEF DispatcherInv, TypeOK, TableSound
  <1>11. NoOrphan'
    <2>1. \A b \in Addresses :
             /\ Live(b)' => Live(b)
             /\ session_table'[heap'[b].sid] = session_table[heap[b].sid]
      BY <1>3, <1>6, <1>7
    <2>2. \A u \in Threads :
             pc[u] = "delete" => pc'[u] = "delete" /\ cur'[u] = cur[u]
      BY <1>1, <1>3, <1>4
    <2> HIDE <1>3, <1>4, <1>6, <1>7
    <2>3. NoOrphan
      BY DEF DispatcherInv
    <2>4. QED
      BY <2>1, <2>2, <2>3 DEF NoOrphan
  <1>12. ThreadOK(t)'
    BY <1>1, <1>3, <1>4 DEF ThreadOK, Holding
  <1>13. ASSUME NEW u \in Threads, u # t
         PROVE  ThreadOK(u)'
    BY <1>3, <1>4, <1>6, <1>7, <1>13 DEF DispatcherInv, ThreadOK
  <1>14. QED
    BY <1>8, <1>9, <1>10, <1>11, <1>12, <1>13 DEF DispatcherInv

(* remove_session() finds the session of the thread, and only that. *)
LEMMA RemoveSessionFinds ==
    ASSUME DispatcherInv, NEW t \in Threads, pc[t] \in Holding, NEW next,
           RemoveSession(t, next)
    PROVE  /\ session_table' = [session_table EXCEPT ![evt[t].sid] = None]
           /\ next
  <1>1. /\ evt[t].sid \in Sids /\ cur[t] = session_table[evt[t].sid]
        /\ cur[t] # None /\ Valid(cur[t]) /\ heap[cur[t]].sid = evt[t].sid
    BY HoldsLive, NoneIsNothing
  <1>2. QED
    BY <1>1 DEF RemoveSession

(* A table without the entry of t is as sound as it was. *)
LEMMA TableWithout ==
    ASSUME DispatcherInv, NEW t \in Threads, pc[t] \in Holding,
           session_table' = [session_table EXCEPT ![evt[t].sid] = None]
    PROVE  /\ session_table' \in [Sids -> Addresses \cup {None}]
           /\ session_table'[evt[t].sid] = None
           /\ \A r \in Sids : r # evt[t].sid => session_table'[r] = session_table[r]
           /\ \A r \in Sids : session_table'[r] # None =>
                 /\ session_table'[r] = session_table[r]
                 /\ session_table[r] \in Addresses /\ session_table[r] # cur[t]
                 /\ Live(session_table[r]) /\ heap[session_table[r]].sid = r
  <1>1. /\ evt[t].sid \in Sids /\ heap[cur[t]].sid = evt[t].sid /\ TypeOK
    BY HoldsLive DEF DispatcherInv
  <1>2. /\ session_table' \in [Sids -> Addresses \cup {None}]
        /\ session_table'[evt[t].sid] = None
        /\ \A r \in Sids : r # evt[t].sid => session_table'[r] = session_table[r]
    BY <1>1 DEF TypeOK
  <1>3. ASSUME NEW r \in Sids, session_table'[r] # None
        PROVE  /\ session_table'[r] = session_table[r]
               /\ session_table[r] \in Addresses /\ session_table[r] # cur[t]
               /\ Live(session_table[r]) /\ heap[session_table[r]].sid = r
    <2>1. r # evt[t].sid /\ session_table'[r] = session_table[r]
      BY <1>2, <1>3
    <2>2. /\ session_table[r] \in Addresses
          /\ Live(session_table[r]) /\ heap[session_table[r]].sid = r
      BY <1>1, <1>3, <2>1 DEF DispatcherInv, TableSound, TypeOK
    <2>3. QED
      BY <1>1, <2>1, <2>2
  <1>4. QED
    BY <1>2, <1>3

(* Another object that is alive is where it was before. *)
LEMMA OthersReachable ==
    ASSUME DispatcherInv, NEW t \in Threads, pc[t] \in Holding \cup {"delete"},
           NEW b \in Addresses, Live(b), b # cur[t]
    PROVE  /\ heap[b].sid \in Sids
           /\ \/ session_table[heap[b].sid] = b /\ heap[b].sid # evt[t].sid
              \/ \E u \in Threads \ {t} : cur[u] = b /\ pc[u] = "delete"
  <1>1. heap[b].sid \in Sids
    BY DEF DispatcherInv, LiveHasId
  <1>2. session_table[evt[t].sid] = cur[t] \/ session_table[evt[t].sid] = None
    <2>1. CASE pc[t] \in Holding
      BY <2>1, HoldsLive
    <2>2. CASE pc[t] = "delete"
      BY <2>2 DEF DispatcherInv, ThreadOK
    <2>3. QED
      BY <2>1, <2>2
  <1>3. CASE session_table[heap[b].sid] = b
    BY <1>1, <1>2, <1>3, NoneIsNothing
  <1>4. CASE \E u \in Threads : cur[u] = b /\ pc[u] = "delete"
    BY <1>1, <1>4
  <1>5. QED
    BY <1>3, <1>4 DEF DispatcherInv, NoOrphan

LEMMA RemoveStep ==
    ASSUME DispatcherInv, NEW t \in Threads, Remove(t)
    PROVE  DispatcherInv'
  <1>1. pc[t] \in Holding /\ TypeOK
    BY DEF DispatcherInv, Remove, At, Holding
  <1>2. /\ evt[t].sid \in Sids /\ cur[t] \in Addresses
        /\ Live(cur[t]) /\ heap[cur[t]].sid = evt[t].sid
    BY <1>1, HoldsLive
  <1>3. /\ session_table' = [session_table EXCEPT ![evt[t].sid] = None]
        /\ Goto(t, "delete") /\ UNCHANGED <<heap, lock, evt, cur, fault>>
    BY <1>1, RemoveSessionFinds DEF Remove
  <1>4. /\ pc' \in [Threads -> Steps] /\ pc'[t] = "delete"
        /\ \A u \in Threads \ {t} : pc'[u] = pc[u]
    BY <1>1, <1>3, GotoType DEF Steps
  <1>5. /\ session_table' \in [Sids -> Addresses \cup {None}]
        /\ session_table'[evt[t].sid] = None
        /\ \A r \in Sids : r # evt[t].sid => session_table'[r] = session_table[r]
        /\ \A r \in Sids : session_table'[r] # None =>
                 /\ session_table'[r] = session_table[r]
                 /\ Live(session_table[r]) /\ heap[session_table[r]].sid = r
    BY <1>1, <1>3, TableWithout
  <1>6. TypeOK' /\ OthersKept(t)
    BY <1>1, <1>3, <1>4, <1>5 DEF TypeOK, OthersKept
  <1>7. OneThreadEach' /\ NoFault' /\ LiveHasId'
    BY <1>3, <1>6, SameEvents DEF DispatcherInv, NoFault, LiveHasId, Live
  <1>8. TableSound'
    BY <1>3, <1>5 DEF TableSound, Live
  <1>9. NoOrphan'
    <2> SUFFICES ASSUME NEW b \in Addresses, Live(b)
                 PROVE  \/ session_table'[heap[b].sid] = b
                        \/ \E u \in Threads : cur[u] = b /\ pc'[u] = "delete"
      BY <1>3 DEF NoOrphan, Live
    <2>1. CASE b = cur[t]
      BY <1>4, <2>1
    <2>2. CASE b # cur[t]
      BY <1>1, <1>4, <1>5, <2>2, OthersReachable
    <2>3. QED
      BY <2>1, <2>2
  <1>10. ThreadOK(t)'
    BY <1>2, <1>3, <1>4, <1>5 DEF ThreadOK, Holding, Live
  <1>11. ASSUME NEW u \in Threads, u # t
         PROVE  ThreadOK(u)'
    <2>1. ThreadOK(u) /\ pc'[u] = pc[u] /\ evt[u].sid # evt[t].sid
      BY <1>2, <1>4, <1>11, NoneIsNothing DEF DispatcherInv, OneThreadEach
    <2>2. evt[u].sid \in Sids => session_table'[evt[u].sid] = session_table[evt[u].sid]
      BY <1>5, <2>1
    <2>3. evt[u].sid \in Sids \cup {None}
      BY <1>1 DEF TypeOK, Events
    <2>4. QED
      BY <1>3, <2>1, <2>2, <2>3 DEF ThreadOK, Live
  <1>12. QED
    BY <1>6, <1>7, <1>8, <1>9, <1>10, <1>11 DEF DispatcherInv

(* The object of the thread is gone, deleted or leaked, and the table does *)
(* not lead to it.                                                         *)
LEMMA GoneStep ==
    ASSUME DispatcherInv, NEW t \in Threads, pc[t] \in Holding \cup {"delete"},
           evt[t].sid \in Sids, cur[t] \in Addresses,
           heap[cur[t]].sid = evt[t].sid,
           NEW state \in {"deleted", "leaked"},
           heap' = [heap EXCEPT ![cur[t]].state = state],
           session_table' \in [Sids -> Addresses \cup {None}],
           \A r \in Sids : r # evt[t].sid => session_table'[r] = session_table[r],
           \A r \in Sids : session_table'[r] # None =>
                 /\ session_table'[r] = session_table[r]
                 /\ session_table[r] \in Addresses /\ session_table[r] # cur[t]
                 /\ Live(session_table[r]) /\ heap[session_table[r]].sid = r,
           Finish(t), UNCHANGED <<lock, fault>>
    PROVE  DispatcherInv'
  <1>1. TypeOK
    BY DEF DispatcherInv
  <1>2. /\ pc' \in [Threads -> Steps] /\ evt' \in [Threads -> Events]
        /\ cur' \in [Threads -> Addresses \cup {None}]
        /\ pc'[t] = "idle" /\ evt'[t].sid = None /\ OthersKept(t)
    BY <1>1, FinishType
  <1>3. [heap[cur[t]] EXCEPT !.state = state] \in Objects
    <2>1. heap[cur[t]] \in Objects
      BY <1>1 DEF TypeOK
    <2>2. QED
      BY <2>1 DEF Objects
  <1>4. /\ heap' \in [Addresses -> Objects]
        /\ \A b \in Addresses \ {cur[t]} : heap'[b] = heap[b]
        /\ heap'[cur[t]].state = state
    BY <1>1, <1>3 DEF TypeOK, Objects
  <1>5. \A b \in Addresses : Live(b)' <=> Live(b) /\ b # cur[t]
    BY <1>4 DEF Live
  <1>6. TypeOK'
    BY <1>1, <1>2, <1>4 DEF TypeOK
  <1>7. OneThreadEach' /\ NoFault' /\ LiveHasId'
    BY <1>2, <1>4, <1>5, SameEvents DEF DispatcherInv, NoFault, LiveHasId
  <1>8. TableSound'
    BY <1>4 DEF TableSound, Live
  <1>9. NoOrphan'
    <2> SUFFICES ASSUME NEW b \in Addresses, Live(b), b # cur[t]
                 PROVE  \/ session_table'[heap[b].sid] = b
                        \/ \E u \in Threads : cur'[u] = b /\ pc'[u] = "delete"
      BY <1>4, <1>5 DEF NoOrphan
    <2>1. /\ heap[b].sid \in Sids
          /\ \/ session_table[heap[b].sid] = b /\ heap[b].sid # evt[t].sid
             \/ \E u \in Threads \ {t} : cur[u] = b /\ pc[u] = "delete"
      BY OthersReachable
    <2>2. QED
      BY <1>2, <2>1 DEF OthersKept
  <1>10. ThreadOK(t)'
    BY <1>2 DEF ThreadOK, Holding
  <1>11. ASSUME NEW u \in Threads, u # t
         PROVE  ThreadOK(u)'
    <2>1. /\ ThreadOK(u) /\ pc'[u] = pc[u] /\ evt'[u] = evt[u] /\ cur'[u] = cur[u]
          /\ evt[u].sid # evt[t].sid /\ evt[u].sid \in Sids \cup {None}
      BY <1>1, <1>2, <1>11, NoneIsNothing
      DEF DispatcherInv, OneThreadEach, OthersKept, TypeOK, Events
    <2>2. evt[u].sid \in Sids => session_table'[evt[u].sid] = session_table[evt[u].sid]
      BY <2>1
    <2>3. pc[u] = "delete" => heap'[cur[u]] = heap[cur[u]]
      BY <1>4, <2>1 DEF ThreadOK
    <2>4. QED
      BY <2>1, <2>2, <2>3 DEF ThreadOK, Live
  <1>12. QED
    BY <1>6, <1>7, <1>8, <1>9, <1>10, <1>11 DEF DispatcherInv

LEMMA DeleteStep ==
    ASSUME DispatcherInv, NEW t \in Threads, Delete(t)
    PROVE  DispatcherInv'
  <1>1. TypeOK /\ TableSound /\ ThreadOK(t) /\ pc[t] = "delete"
    BY DEF DispatcherInv, Delete, At
  <1>2. /\ evt[t].sid \in Sids /\ session_table[evt[t].sid] = None
        /\ cur[t] \in Addresses /\ Live(cur[t]) /\ Valid(cur[t])
        /\ heap[cur[t]].sid = evt[t].sid
    BY <1>1 DEF ThreadOK, Valid
  <1>3. /\ heap' = [heap EXCEPT ![cur[t]].state = "deleted"]
        /\ Finish(t) /\ UNCHANGED <<session_table, lock, fault>>
    BY <1>2 DEF Delete
  <1>4. ASSUME NEW r \in Sids, session_table'[r] # None
        PROVE  /\ session_table'[r] = session_table[r]
               /\ session_table[r] \in Addresses /\ session_table[r] # cur[t]
               /\ Live(session_table[r]) /\ heap[session_table[r]].sid = r
    BY <1>1, <1>2, <1>3, <1>4 DEF TableSound, TypeOK
  <1>5. /\ session_table' \in [Sids -> Addresses \cup {None}]
        /\ \A r \in Sids : r # evt[t].sid => session_table'[r] = session_table[r]
    BY <1>1, <1>3 DEF TypeOK
  <1>6. QED
    BY <1>1, <1>2, <1>3, <1>4, <1>5, GoneStep

LEMMA CatchStep ==
    ASSUME DispatcherInv, NEW t \in Threads, Catch(t)
    PROVE  DispatcherInv'
  <1>1. pc[t] \in Holding
    BY DEF Catch, At, Holding
  <1>2. /\ evt[t].sid \in Sids /\ cur[t] \in Addresses
        /\ heap[cur[t]].sid = evt[t].sid
    BY <1>1, HoldsLive
  <1>3. /\ session_table' = [session_table EXCEPT ![evt[t].sid] = None]
        /\ heap' = [heap EXCEPT ![cur[t]].state = "leaked"]
        /\ Finish(t) /\ UNCHANGED <<lock, fault>>
    BY <1>1, RemoveSessionFinds DEF Catch
  <1>4. QED
    BY <1>1, <1>2, <1>3, TableWithout, GoneStep

(***************************************************************************)
(* The theorems.                                                           *)
(***************************************************************************)
LEMMA DispatcherInitInv == Init => DispatcherInv
  <1> SUFFICES ASSUME Init
               PROVE  DispatcherInv
    OBVIOUS
  <1>1. TypeOK
    BY DEF Init, TypeOK, Unused, Objects, NoEvent, Events, EventKinds, Steps
  <1>2. /\ \A a \in Addresses : ~Live(a)
        /\ \A sid \in Sids : session_table[sid] = None
        /\ \A t \in Threads : pc[t] = "idle" /\ evt[t].sid = None
    BY DEF Init, Live, Unused, NoEvent
  <1>3. QED
    BY <1>1, <1>2 DEF Init, DispatcherInv, NoFault, TableSound, NoOrphan,
                      OneThreadEach, LiveHasId, ThreadOK, Holding

LEMMA DispatcherStep ==
    ASSUME Serialized, DispatcherInv, [Next]_vars
    PROVE  DispatcherInv'
  <1>1. CASE UNCHANGED vars
    BY <1>1 DEF vars, DispatcherInv, TypeOK, NoFault, TableSound, NoOrphan,
                OneThreadEach, LiveHasId, ThreadOK, Live
  <1>2. ASSUME NEW t \in Threads, Thread(t)
        PROVE  DispatcherInv'
    BY <1>2, DequeueStep, LookupStep, CreateStep, DiscardStep, LockStep,
       RunStep, IsFinalStep, RemoveStep, DeleteStep, CatchStep DEF Thread
  <1>3. QED
    BY <1>1, <1>2 DEF Next

LEMMA DispatcherInvariant ==
    ASSUME Serialized
    PROVE  Spec => []DispatcherInv
  <1>1. DispatcherInv /\ [Next]_vars => DispatcherInv'
    BY DispatcherStep
  <1>2. QED
    BY <1>1, DispatcherInitInv, PTL DEF Spec

(* Type correctness of the session table, the objects and the threads.     *)
THEOREM DispatcherTypeCorrect ==
    ASSUME Serialized
    PROVE  Spec => []TypeOK
  <1>1. DispatcherInv => TypeOK
    BY DEF DispatcherInv
  <1>2. QED
    BY <1>1, DispatcherInvariant, PTL

(* get_session() never returns an object that is gone or one of another id *)
THEOREM TableAlwaysSound ==
    ASSUME Serialized
    PROVE  Spec => []TableSound
  <1>1. DispatcherInv => TableSound
    BY DEF DispatcherInv
  <1>2. QED
    BY <1>1, DispatcherInvariant, PTL

(* dispatcher::process() is memory safe: the unprotected pointer between   *)
(* get_session(), process(), is_final(), remove_session() and delete is    *)
(* valid, for any number of threads, as long as the events of a session    *)
(* come one by one.                                                        *)
THEOREM DispatcherMemorySafe ==
    ASSUME Serialized
    PROVE  Spec => []NoFault
  <1>1. DispatcherInv => NoFault
    BY DEF DispatcherInv
  <1>2. QED
    BY <1>1, DispatcherInvariant, PTL

(* Every session object that is alive is in the table or in the hands of   *)
(* the thread that deletes it; create_session() never replaces one.        *)
THEOREM NoSessionOrphaned ==
    ASSUME Serialized
    PROVE  Spec => []NoOrphan
  <1>1. DispatcherInv => NoOrphan
    BY DEF DispatcherInv
  <1>2. QED
    BY <1>1, DispatcherInvariant, PTL

=============================================================================
