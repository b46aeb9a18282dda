---------------------------- MODULE MessageCodec ---------------------------
(***************************************************************************)
(* M-NSLP messages on their way from node to node: an application builds   *)
(* one with the setters of its class, gistka_mapper serializes it, GIST    *)
(* carries the words, and the next node reads them back, keeps the         *)
(* metering objects it can install, forwards the others in a CONFIGURE of  *)
(* its own, or answers.  Peers that run other code send the messages in    *)
(* PeerMessages.                                                           *)
(*                                                                         *)
(* Abstraction.  The unit is the 32-bit word; a NetMsg is a sequence of    *)
(* them.  The body of a metering object is a sequence of words, and        *)
(* Readable are those its IPFIX parser accepts (module IpfixMessage).  An  *)
(* IPFIX buffer never exceeds 1400 bytes, so the length of a body always   *)
(* fits the 12 bits of an object header.  Treatment bits (always           *)
(* mandatory) and MRIs are left out.                                       *)
(*                                                                         *)
(* own, given and owed are history: whether the node itself made the       *)
(* message, what a peer meant to send, and the metering objects that the   *)
(* nodes passed so far have not kept.                                      *)
(***************************************************************************)
EXTENDS Integers, FiniteSets, SequencesExt

CONSTANTS
    Numbers,        \* object type -> the values an application gives to it
    Codes,          \* information codes: severity, response code, object type
    Readable,       \* bodies of metering objects that output() has written
    PeerMessages,   \* what peers may send: type, objects, words cut off
    NodeLifetimes,  \* lifetimes a forwarder may impose
    MaxReports,     \* bound: metering objects in one message
    MaxHops         \* bound: messages sent after the first one

ASSUME CodecAssumption ==
    /\ MaxReports \in Nat /\ MaxHops \in Nat
    /\ NodeLifetimes \subseteq Nat
    /\ \A r \in Readable : r \in Seq(Nat) /\ r # <<>>
    /\ \A c \in Codes : c.severity \in 0 .. 255 /\ c.code \in 0 .. 255
                        /\ c.about \in Nat

VARIABLES phase, out, wire, in, own, given, owed, hops

vars == <<phase, out, wire, in, own, given, owed, hops>>

(* The elements of S in their order. *)
Ascending(S) ==
    [i \in 1 .. Cardinality(S) |->
        CHOOSE x \in S : Cardinality({y \in S : y < x}) = i - 1]

(* Those of a sequence at the given places, in the order of the places. *)
ElementsAt(seq, places) ==
    LET at == Ascending(places) IN [i \in DOMAIN at |-> seq[at[i]]]

(***************************************************************************)
(* Message types and object types, as registered with MNSLP_IEManager.     *)
(***************************************************************************)
Configure == 1
Response == 2
Notify == 3
Options == 4
Refresh == 5

MessageTypes == {Configure, Response, Notify, Options, Refresh}

InformationCode == 244
SelectionMeteringEntities == 245
MessageHopCount == 246
MsgSequenceNumber == 247
SessionLifetime == 248
IpfixMessage == 249

SimpleTypes == {SelectionMeteringEntities, MessageHopCount,
                MsgSequenceNumber, SessionLifetime}

ObjectTypes == SimpleTypes \cup {InformationCode, IpfixMessage}

ASSUME NumbersAssumption == \A t \in SimpleTypes : Numbers[t] \subseteq Nat

(* Only metering objects may occur more than once in a message.            *)
Unique(type) == type # IpfixMessage

(* ready: get_offset() of a metering object is not 0.                      *)
Object(type, body, ready) == [type |-> type, body |-> body, ready |-> ready]

SimpleObject(type, n) == Object(type, <<n>>, TRUE)

CodeObject(severity, code, about) ==
    Object(InformationCode, <<severity, code, about>>, TRUE)

(* mnslp_object::check() with the check_body() of each class.              *)
CheckObject(obj) ==
    CASE obj.type = InformationCode -> obj.body[1] < 16 /\ obj.body[3] = 0
      [] obj.type = IpfixMessage -> obj.ready
      [] OTHER -> TRUE

(***************************************************************************)
(* ie_store: a map that compares keys by the sum of type and sequence      *)
(* number.  An entry found under an equal sum keeps its old key.           *)
(***************************************************************************)
(* Mutant: the sequence number is not compared.                            *)
KeyOfType(type, seq) == type

Key(type, seq) == type + seq

EmptyStore == <<>>

Get(store, type, seq) == store[Key(type, seq)].obj

Has(store, type, seq) == Key(type, seq) \in DOMAIN store

Put(store, type, seq, obj) ==
    LET k == Key(type, seq) IN
    IF k \in DOMAIN store
      THEN [store EXCEPT ![k].obj = obj]
      ELSE [j \in DOMAIN store \cup {k} |->
               IF j = k THEN [type |-> type, seq |-> seq, obj |-> obj]
                        ELSE store[j]]

MaxSequence(store, type) ==
    Max({0} \cup {e.seq : e \in {f \in Range(store) : f.type = type}})

(* Mutant: every object gets the next sequence number of its type.         *)
SetObjectAnyway(store, obj) ==
    Put(store, obj.type, MaxSequence(store, obj.type) + 1, obj)

(* mnslp_msg::set_object() *)
SetObject(store, obj) ==
    Put(store, obj.type,
        IF Unique(obj.type) THEN 1 ELSE MaxSequence(store, obj.type) + 1, obj)

(* The getters of the classes: 0 when the object is absent.                *)
GetValue(store, type) ==
    IF Has(store, type, 1) /\ Get(store, type, 1).type = type
      THEN Get(store, type, 1).body[1] ELSE 0

NewMessage(type) == [type |-> type, store |-> EmptyStore]

WithObjects(type, objs) ==
    [type |-> type, store |-> FoldLeft(SetObject, EmptyStore, objs)]

KeyTypes(m) == {e.type : e \in Range(m.store)}

(***************************************************************************)
(* The message classes: which objects serialize() writes, which ones there *)
(* are setters for, and when check() lets the message go.                  *)
(***************************************************************************)
ConfigureWrites == <<MsgSequenceNumber, SessionLifetime,
                     SelectionMeteringEntities, MessageHopCount>>

(* check() looks at the types in the keys.                                 *)
ConfigureCheck(m) == ToSet(ConfigureWrites) \subseteq KeyTypes(m)

ConfigureSets == ToSet(ConfigureWrites) \cup {IpfixMessage}

ResponseWrites == <<MsgSequenceNumber, InformationCode, SessionLifetime>>

ResponseSets == ToSet(ResponseWrites) \cup {IpfixMessage}

(* Any part of what it may hold, nothing included.                         *)
ResponseCheck(m) == KeyTypes(m) \subseteq ResponseSets

(* The others want the objects they write and no more.                     *)
HasExactly(m, types) ==
    /\ Cardinality(DOMAIN m.store) = Len(types)
    /\ \A t \in ToSet(types) : Has(m.store, t, 1)

RefreshWrites == <<MsgSequenceNumber, SessionLifetime>>

RefreshCheck(m) == HasExactly(m, RefreshWrites)

NotifyWrites == <<InformationCode>>

NotifyCheck(m) == HasExactly(m, NotifyWrites)

OptionsWrites == <<MsgSequenceNumber>>

OptionsCheck(m) == HasExactly(m, OptionsWrites)

WrittenTypes(type) ==
    CASE type = Configure -> ConfigureWrites
      [] type = Response  -> ResponseWrites
      [] type = Refresh   -> RefreshWrites
      [] type = Notify    -> NotifyWrites
      [] type = Options   -> OptionsWrites

Settable(type) ==
    CASE type = Configure -> ConfigureSets
      [] type = Response  -> ResponseSets
      [] OTHER -> ToSet(WrittenTypes(type))

CheckMessage(m) ==
    CASE m.type = Configure -> ConfigureCheck(m)
      [] m.type = Response  -> ResponseCheck(m)
      [] m.type = Refresh   -> RefreshCheck(m)
      [] m.type = Notify    -> NotifyCheck(m)
      [] m.type = Options   -> OptionsCheck(m)

Reports(m) ==
    [i \in 1 .. MaxSequence(m.store, IpfixMessage) |-> <<IpfixMessage, i>>]

(* serialize_object(): an absent object is passed over.  The count of its  *)
(* bytes is then whatever the function without a return statement leaves;  *)
(* it is only compared for a log line.                                     *)
ObjectsToWrite(m) ==
    LET keys == [i \in DOMAIN WrittenTypes(m.type) |-> <<WrittenTypes(m.type)[i], 1>>]
                  \o (IF IpfixMessage \in Settable(m.type) THEN Reports(m) ELSE <<>>)
        present == ElementsAt(keys,
                      {i \in DOMAIN keys : Has(m.store, keys[i][1], keys[i][2])})
    IN [i \in DOMAIN present |-> Get(m.store, present[i][1], present[i][2])]

MsgWord(type) == [kind |-> "msg", n |-> type, len |-> 0]
ObjWord(type, len) == [kind |-> "obj", n |-> type, len |-> len]
Value(n) == [kind |-> "value", n |-> n, len |-> 0]

CodeWord(b) == Value((b[1] % 16) * 16777216 + b[2] * 65536 + (b[3] % 65536))

BodyWords(obj) ==
    IF obj.type = InformationCode THEN <<CodeWord(obj.body)>>
    ELSE [i \in DOMAIN obj.body |-> Value(obj.body[i])]

ObjectWords(obj) ==
    <<ObjWord(obj.type, Len(BodyWords(obj)))>> \o BodyWords(obj)

Words(type, objs) ==
    <<MsgWord(type)>> \o FlattenSeq([i \in DOMAIN objs |-> ObjectWords(objs[i])])

(* Mutant: the header of the message is not counted.                       *)
SerializedSizeOfObjects(m) ==
    FoldFunction(LAMBDA e, n : n + Len(ObjectWords(e.obj)), 0, m.store)

(* get_serialized_size() counts every object of the store.                 *)
SerializedSize(m) ==
    1 + FoldFunction(LAMBDA e, n : n + Len(ObjectWords(e.obj)), 0, m.store)

SerializeThrows(m) ==
    \/ ~CheckMessage(m)
    \/ \E i \in DOMAIN ObjectsToWrite(m) : ~CheckObject(ObjectsToWrite(m)[i])
    \/ Len(Words(m.type, ObjectsToWrite(m))) > SerializedSize(m)

(* create_api_msg() sends the whole buffer, to its last word.              *)
Serialize(m) ==
    LET words == Words(m.type, ObjectsToWrite(m)) IN
    words \o [i \in 1 .. SerializedSize(m) - Len(words) |-> ObjWord(0, 0)]

(***************************************************************************)
(* MNSLP_IEManager::deserialize(), always called with skip = false: every  *)
(* error makes it return NULL.                                             *)
(***************************************************************************)
NoMsg == [type |-> 0, store |-> EmptyStore]     \* no message at all
Refused == [type |-> -1, store |-> EmptyStore]  \* the NULL pointer

Broken == Object(-1, <<>>, FALSE)

(* The three fields of mnslp_information_code. *)
CodeIn(n) == <<(n \div 16777216) % 16, (n \div 65536) % 256, n % 65536>>

BodyAt(w, pos) == [i \in 1 .. w[pos].len |-> w[pos + i].n]

Parsed(type, body) ==
    Object(type, IF type = InformationCode THEN CodeIn(body[1]) ELSE body, TRUE)

(* deserialize_object(): the type is known, the body complete and valid.   *)
ReadObject(w, pos) ==
    LET obj == Parsed(w[pos].n, BodyAt(w, pos)) IN
    IF \/ w[pos].n \notin ObjectTypes
       \/ pos + w[pos].len > Len(w)
       \/ obj.type = IpfixMessage /\ obj.body \notin Readable
       \/ obj.type = InformationCode /\ ~CheckObject(obj)
      THEN Broken ELSE obj

(* The objects up to the end of the buffer or the first broken one.        *)
ReadObjects(w) ==
    LET from[pos \in 2 .. Len(w) + 1] ==
          IF pos = Len(w) + 1 THEN <<>>
          ELSE LET obj == ReadObject(w, pos) IN
               IF obj = Broken THEN <<Broken>>
               ELSE <<obj>> \o from[pos + 1 + w[pos].len]
    IN  from[2]

(* Mutant: a second object of the same type replaces the first.            *)
AddReadAgain(m, obj) ==
    IF m = Refused \/ obj = Broken THEN Refused
    ELSE [m EXCEPT !.store = SetObject(m.store, obj)]

(* mnslp_msg::deserialize(): one object more.                              *)
AddRead(m, obj) ==
    IF \/ m = Refused
       \/ obj = Broken
       \/ Unique(obj.type) /\ Has(m.store, obj.type, 1)
      THEN Refused
      ELSE [m EXCEPT !.store = SetObject(m.store, obj)]

Deserialize(w) ==
    IF w = <<>> \/ w[1].n \notin MessageTypes THEN Refused
    ELSE LET m == FoldLeft(AddRead, NewMessage(w[1].n), ReadObjects(w)) IN
         IF m.store = EmptyStore THEN Refused ELSE m

(***************************************************************************)
(* Actions.                                                                *)
(***************************************************************************)
NothingGiven == [type |-> 0, objs |-> <<>>, cut |-> 0]

(* What peers write is objects of any type, each with the length of its    *)
(* type.  What is cut off is less than the last object.                    *)
WireObjects == [type : Nat, body : Seq(Nat), ready : {TRUE}]

RightLength(o) ==
    /\ o.type \in SimpleTypes => Len(o.body) = 1
    /\ o.type = InformationCode =>
          /\ Len(o.body) = 3 /\ o.body[1] < 16
          /\ o.body[2] < 256 /\ o.body[3] < 65536

ASSUME PeerAssumption ==
    \A p \in PeerMessages :
        /\ p # NothingGiven
        /\ p.objs \in Seq(WireObjects) /\ p.cut \in Nat
        /\ \A i \in DOMAIN p.objs : RightLength(p.objs[i])
        /\ p.cut > 0 => /\ p.objs # <<>>
                        /\ p.cut <= Len(BodyWords(Last(p.objs)))

(* The metering objects of a sequence of objects. *)
Bodies(objs) ==
    LET reports == ElementsAt(objs, {i \in DOMAIN objs : objs[i].type = IpfixMessage})
    IN  [i \in DOMAIN reports |-> reports[i].body]

Init ==
    /\ phase = "idle" /\ out = NoMsg /\ wire = <<>> /\ in = NoMsg
    /\ own = FALSE /\ given = NothingGiven /\ owed = <<>> /\ hops = 0

(* The constructor of a message class, called by an application.           *)
Create(type) ==
    /\ phase = "idle"
    /\ phase' = "building" /\ out' = NewMessage(type)
    /\ UNCHANGED <<wire, in, own, given, owed, hops>>

(* A setter of the class: set_session_lifetime(), set_mspec_object(), ...  *)
Set(obj) ==
    /\ phase = "building" /\ ~own
    /\ obj.type \in Settable(out.type)
    /\ obj.type = IpfixMessage => Len(owed) < MaxReports
    /\ out' = [out EXCEPT !.store = SetObject(out.store, obj)]
    /\ owed' = IF obj.type = IpfixMessage THEN Append(owed, obj.body) ELSE owed
    /\ UNCHANGED <<phase, wire, in, own, given, hops>>

(* gistka_mapper::create_api_msg(): an IEError ends in assert(false).      *)
Send ==
    /\ phase = "building"
    /\ IF SerializeThrows(out)
         THEN phase' = "down" /\ UNCHANGED wire
         ELSE phase' = "sent" /\ wire' = Serialize(out)
    /\ UNCHANGED <<out, in, own, given, owed, hops>>

(* A message of other code arrives, perhaps without its last words.        *)
PeerSends(p) ==
    LET words == Words(p.type, p.objs) IN
    /\ phase = "idle"
    /\ phase' = "sent" /\ given' = p
    /\ wire' = SubSeq(words, 1, Len(words) - p.cut)
    /\ owed' = Bodies(p.objs)
    /\ UNCHANGED <<out, in, own, hops>>

(* gistka_mapper::map_api_receive_message() *)
Receive ==
    /\ phase = "sent"
    /\ phase' = "read" /\ in' = Deserialize(wire) /\ wire' = <<>>
    /\ UNCHANGED <<out, own, given, owed, hops>>

(* mnslp_configure::get_mspec_objects(): everything that is not one of the *)
(* four simple objects, in the order of the keys.                          *)
MspecObjects(m) ==
    LET keys == Ascending({k \in DOMAIN m.store :
                              m.store[k].type \notin SimpleTypes})
    IN  [i \in DOMAIN keys |-> m.store[keys[i]].obj]

(* An information code in a CONFIGURE is no metering object: the cast      *)
(* yields NULL, and NULL->copy() is called.                                *)
CopyFaults(m) == \E o \in ToSet(MspecObjects(m)) : o.type # IpfixMessage

(* missing_objects: what the node does not keep, in the same order.        *)
Without(seq, kept) == ElementsAt(seq, DOMAIN seq \ kept)

(* nf_session::build_configure_message() *)
Forwarded(m, lifetime, missing) ==
    LET Copied(type) == SimpleObject(type, GetValue(m.store, type))
        shorter == Min({lifetime, GetValue(m.store, SessionLifetime)})
    IN WithObjects(Configure,
           <<SimpleObject(SessionLifetime, shorter), Copied(MsgSequenceNumber),
             Copied(SelectionMeteringEntities), Copied(MessageHopCount)>>
           \o missing)

(* A forwarder keeps the objects numbered kept and forwards the missing.   *)
Forward(lifetime, kept) ==
    /\ phase = "read" /\ in.type = Configure /\ hops < MaxHops
    /\ kept \subseteq DOMAIN MspecObjects(in)
    /\ ~CopyFaults(in)
    /\ phase' = "building" /\ own' = TRUE /\ hops' = hops + 1
    /\ out' = Forwarded(in, lifetime, Without(MspecObjects(in), kept))
    /\ owed' = Without(owed, kept)
    /\ in' = NoMsg /\ given' = NothingGiven
    /\ UNCHANGED wire

(* The same handler, when there is something that is no metering object.   *)
ForwardFaults ==
    /\ phase = "read" /\ in.type = Configure /\ hops < MaxHops
    /\ CopyFaults(in)
    /\ phase' = "down" /\ own' = TRUE /\ hops' = hops + 1
    /\ UNCHANGED <<out, wire, in, given, owed>>

(* ntlp_msg::create_response() *)
CreateResponse(m, severity, code) ==
    WithObjects(Response,
        <<CodeObject(severity, code, 0)>>
        \o (IF m # Refused /\ Has(m.store, MsgSequenceNumber, 1)
              THEN <<SimpleObject(MsgSequenceNumber,
                                  GetValue(m.store, MsgSequenceNumber))>>
              ELSE <<>>))

(* ntlp_msg::create_success_response() *)
CreateSuccessResponse(m, lifetime) ==
    LET r == CreateResponse(m, 2, 1) IN
    [r EXCEPT !.store = SetObject(r.store, SimpleObject(SessionLifetime, lifetime))]

Answered(response) ==
    /\ phase = "read" /\ hops < MaxHops
    /\ phase' = "building" /\ out' = response /\ own' = TRUE
    /\ in' = NoMsg /\ given' = NothingGiven /\ owed' = <<>>
    /\ hops' = hops + 1
    /\ UNCHANGED wire

(* dispatcher::process(): a message that cannot be read is answered.       *)
AnswerInvalid == in = Refused /\ Answered(CreateResponse(in, 3, 0))

(* The sessions answer requests: with success, or with an error.           *)
AnswerSuccess(lifetime) ==
    /\ in.type \in {Configure, Refresh}
    /\ Answered(CreateSuccessResponse(in, lifetime))

AnswerError(severity, code) ==
    /\ in.type \in {Configure, Refresh}
    /\ Answered(CreateResponse(in, severity, code))

(* The message has been dealt with, or the daemon is started anew.         *)
Done ==
    /\ phase \in {"read", "down"}
    /\ phase' = "idle" /\ out' = NoMsg /\ in' = NoMsg /\ wire' = <<>>
    /\ own' = FALSE /\ given' = NothingGiven /\ owed' = <<>> /\ hops' = 0

SimpleObjects ==
    UNION {{SimpleObject(t, n) : n \in Numbers[t]} : t \in SimpleTypes}
CodeObjects == {CodeObject(c.severity, c.code, c.about) : c \in Codes}
ReportObjects == {Object(IpfixMessage, r, ready) : r \in Readable, ready \in BOOLEAN}

Objects == SimpleObjects \cup CodeObjects \cup ReportObjects

Next ==
    \/ \E type \in MessageTypes : Create(type)
    \/ \E obj \in Objects : Set(obj)
    \/ Send
    \/ \E p \in PeerMessages : PeerSends(p)
    \/ Receive
    \/ \E lifetime \in NodeLifetimes, kept \in SUBSET (1 .. MaxReports) :
          Forward(lifetime, kept)
    \/ ForwardFaults
    \/ AnswerInvalid
    \/ \E lifetime \in NodeLifetimes : AnswerSuccess(lifetime)
    \/ \E severity \in 4 .. 5 : AnswerError(severity, 1)
    \/ Done

Spec == Init /\ [][Next]_vars

(***************************************************************************)
(* Properties.                                                             *)
(***************************************************************************)

(* Every entry of ie_store stands under the key of its own object, unique  *)
(* objects once, metering objects numbered from 1 by set_object(); and     *)
(* whatever was read from the wire passes mnslp_object::check().           *)
CodecTypeOK ==
    /\ phase \in {"idle", "building", "sent", "read", "down"}
    /\ hops \in 0 .. MaxHops /\ own \in BOOLEAN
    /\ \A m \in {out, in} : \A k \in DOMAIN m.store :
          LET e == m.store[k] IN
          /\ k = Key(e.type, e.seq) /\ e.type \in ObjectTypes
          /\ e.obj.type = e.type
          /\ e.seq \in 1 .. (IF Unique(e.type) THEN 1
                              ELSE MaxSequence(m.store, e.type))
    /\ \A k \in DOMAIN in.store : CheckObject(in.store[k].obj)

(* What create_api_msg() hands to GIST is read by map_api_receive_message()*)
(* as an equal message, padding, order and duplicates included; and the    *)
(* messages a node makes itself, CONFIGUREs it forwards and RESPONSEs it   *)
(* answers with whatever it received, always pass the checks of            *)
(* serialize(), so that the assertion after it never fails for them.  Two  *)
(* exceptions: mnslp_response::check() lets an empty RESPONSE leave, which *)
(* every reader refuses, and get_mspec_objects() copies a NULL pointer     *)
(* when a CONFIGURE has an information code.                               *)
SentIsRead ==
    /\ phase = "read" /\ given = NothingGiven =>
          in = (IF out = NewMessage(Response) THEN Refused ELSE out)
    /\ phase = "down" /\ own => CopyFaults(in)

(* Wherever a message is, it carries the metering objects that were asked  *)
(* for and that no node on the way has kept: each once, in the order of    *)
(* set_mspec_object(), although the keys of ie_store are compared by the   *)
(* sum of type and sequence number.                                        *)
OwedArrive ==
    /\ phase \in {"building", "sent"} /\ given = NothingGiven
          => Bodies(MspecObjects(out)) = owed
    /\ phase = "read" /\ in # Refused => Bodies(MspecObjects(in)) = owed

(* The messages of a peer that this code cannot accept.                    *)
Faulty(p) ==
    \/ p.type \notin MessageTypes \/ p.objs = <<>> \/ p.cut > 0
    \/ \E i \in DOMAIN p.objs :
          LET o == p.objs[i] IN
          \/ o.type \notin ObjectTypes
          \/ o.type = IpfixMessage /\ o.body \notin Readable
          \/ o.type = InformationCode /\ o.body[3] # 0
          \/ \E j \in 1 .. i - 1 : p.objs[j].type = o.type /\ o.type # IpfixMessage

(* What a peer sends is refused by MNSLP_IEManager::deserialize() exactly  *)
(* when it is empty, cut short, of an unknown type, has an unknown, doubled*)
(* or unreadable object, or an information code that names an object type; *)
(* a request that lacks mandatory objects is not refused.                  *)
RefusesExactly ==
    phase = "read" /\ given # NothingGiven =>
        IF Faulty(given) THEN in = Refused
        ELSE /\ in.type = given.type
             /\ Cardinality(DOMAIN in.store) = Len(given.objs)
             /\ ToSet(given.objs) = {e.obj : e \in Range(in.store)}

============================================================================
