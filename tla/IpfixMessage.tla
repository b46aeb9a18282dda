---------------------------- MODULE IpfixMessage ---------------------------
(***************************************************************************)
(* An IPFIX metering specification (mnslp_ipfix_message): a user builds    *)
(* templates and data records, output() writes them into the message       *)
(* buffer, and a peer reads the buffer with deserialize_body().            *)
(*                                                                         *)
(* Abstraction.  The buffer is the sequence of its sets; a data set keeps  *)
(* its bytes, a template set its field specifiers; sizes are those of the  *)
(* encoding.  Of the clock there is the time in a header, one value that   *)
(* is not 0; of a template's time that it was sent or not.                 *)
(* cs_tid and its companions describe the set being written: finish_cs()   *)
(* clears them after every record, so between two calls they are 0.        *)
(***************************************************************************)
EXTENDS IpfixFields, FiniteSets

CONSTANTS
    FieldTypes,     \* elements a user may put into a template
    PeerTables,     \* sets of elements the field tables of a peer may hold
    Values,         \* field type -> the values a user gives to it
    Flengths,       \* field type -> the lengths a template declares for it
    Versions,       \* subset of {"IPFIX", "NF9"}
    Modes,          \* values of encode_network
    Now,            \* time(NULL) when a header is written
    BufLen,         \* IPFIX_DEFAULT_BUFLEN, 1400 in the code
    MaxShortLen,    \* longest value with a one-byte length, 254 in the code
    MaxTemplates,   \* bound: templates created in a behaviour
    MaxFields,      \* bound: fields in all templates together
    MaxCalls        \* bound: records included and outputs written, together

ASSUME IpfixAssumption ==
    /\ PeerTables \subseteq SUBSET FieldTypes
    /\ Versions \subseteq {"IPFIX", "NF9"}
    /\ Modes \subseteq BOOLEAN
    /\ Now \in Nat \ {0}
    /\ \A ft \in FieldTypes : \A v \in Values[ft] :
          v \in Seq(0 .. 255) /\ ValueAgrees(ft, v)
    /\ \A ft \in FieldTypes :                    \* of the tables' elements
          {ft.eno, ft.ftype} \subseteq Nat /\ ft.length # 0
    /\ \A a, b \in FieldTypes : SameMapEntry(a, b) => a = b
    /\ {BufLen, MaxShortLen, MaxTemplates, MaxFields, MaxCalls} \subseteq Nat
    /\ MaxShortLen < 255

VARIABLES
    msg,        \* the message object of the exporting side
    outputs,    \* how often its buffer was rewritten
    peer,       \* what the peer made of the buffer
    fault       \* the undefined behaviour that happened, or "none"

vars == <<msg, outputs, peer, fault>>

FirstTid == 256

Tids == FirstTid .. FirstTid + MaxTemplates - 1

(***************************************************************************)
(* mnslp_ipfix_template and its container, a map from template ids.        *)
(***************************************************************************)
TemplateField(ft, flength, relay) == [ft |-> ft, flength |-> flength, relay |-> relay]

NewTemplate(type, nfields) ==
    [type |-> type, maxfields |-> nfields, sent |-> FALSE,
     scopefields |-> <<>>, datafields |-> <<>>]

NumFields(t) == Len(t.scopefields) + Len(t.datafields)

(* get_field(): past the scope fields it indexes the data fields with the  *)
(* same i, which lies outside of the vector once there are both kinds.     *)
GetFieldFaults(t) == t.scopefields # <<>> /\ t.datafields # <<>>

TemplateFields(t) == t.scopefields \o t.datafields

HasTemplate(m, tid) == tid \in DOMAIN m.templates

WithoutTemplate(m, tid) ==
    [t \in DOMAIN m.templates \ {tid} |-> m.templates[t]]

(* add_template(): std::map::insert() leaves a template that is there. *)
WithTemplate(templates, tid, t) ==
    [i \in DOMAIN templates \cup {tid} |-> IF i \in DOMAIN templates THEN templates[i] ELSE t]

(***************************************************************************)
(* mnslp_ipfix_data_record: a map, searched with the order of the keys.    *)
(***************************************************************************)
RecordHas(r, ft) == \E g \in DOMAIN r.vals : SameMapEntry(g, ft)

RecordValue(r, ft) == r.vals[CHOOSE g \in DOMAIN r.vals : SameMapEntry(g, ft)]

Records == UNION {[tid : Tids, vals : {v \in [S -> UNION {Values[ft] : ft \in S}] :
                                        \A ft \in S : v[ft] \in Values[ft]}] :
                  S \in SUBSET FieldTypes}

NoHeader == [count |-> 0, seqno |-> 0, network |-> TRUE, time |-> 0]

(* init(); network byte order unless the constructor is told otherwise. *)
NewMessage(version) ==
    [version |-> version, network |-> TRUE, templates |-> <<>>,
     lasttid |-> FirstTid - 1, data |-> <<>>, nrecords |-> 0, seqno |-> 0,
     require_output |-> TRUE, buffer |-> <<>>, offset |-> 0, length |-> 0,
     header |-> NoHeader]

Unread == [status |-> "unread"]

Init ==
    /\ msg \in {NewMessage(v) : v \in Versions}
    /\ outputs = 0
    /\ peer = Unread
    /\ fault = "none"

Live == fault = "none" /\ peer = Unread

(* While require_output is set nobody reads the buffer, and output() starts *)
(* it anew: what is in it is left out.                                      *)
Outdated(m) == [m EXCEPT !.buffer = <<>>, !.offset = 0, !.length = 0, !.header = NoHeader]

Changed(m) == [Outdated(m) EXCEPT !.require_output = TRUE]

(***************************************************************************)
(* Building the message.                                                   *)
(***************************************************************************)

(***************************************************************************)
(* set_encode_mode() does not ask for a new output.  Bound: it is called   *)
(* only when there is a buffer, which is when it matters most.             *)
(***************************************************************************)
SetEncodeMode(mode) ==
    /\ Live
    /\ ~msg.require_output
    /\ msg' = [msg EXCEPT !.network = mode]
    /\ UNCHANGED <<outputs, peer, fault>>

(* new_template(), which both kinds of template share. *)
WithNewTemplate(m, type, nfields) ==
    [Changed(m) EXCEPT !.lasttid = @ + 1,
                       !.templates = WithTemplate(@, m.lasttid + 1, NewTemplate(type, nfields))]

NewDataTemplate(nfields) ==
    /\ Live
    /\ msg.lasttid + 1 \in Tids
    /\ msg' = WithNewTemplate(msg, "data", nfields)
    /\ UNCHANGED <<outputs, peer, fault>>

NewOptionTemplate(nfields) ==
    /\ Live
    /\ msg.lasttid + 1 \in Tids
    /\ msg' = WithNewTemplate(msg, "option", nfields)
    /\ UNCHANGED <<outputs, peer, fault>>

(* nfields < 1 is refused after the message was marked as changed. *)
NewTemplateRefused ==
    /\ Live
    /\ msg' = Changed(msg)
    /\ UNCHANGED <<outputs, peer, fault>>

(* The bound of the model on what a user builds. *)
FieldBound(m) ==
    SumFunction([t \in DOMAIN m.templates |-> NumFields(m.templates[t])]) < MaxFields

HasRoomOffByOne(m, tid) ==
    /\ NumFields(m.templates[tid]) <= m.templates[tid].maxfields
    /\ FieldBound(m)

(* There is room in the template (and below the bound of the model). *)
HasRoom(m, tid) ==
    /\ NumFields(m.templates[tid]) < m.templates[tid].maxfields
    /\ FieldBound(m)

AddFieldUnmarked(tid, ft, flength) ==
    /\ Live
    /\ HasTemplate(msg, tid)
    /\ HasRoom(msg, tid)
    /\ msg' = [msg EXCEPT !.templates[tid].datafields =
                              Append(@, TemplateField(ft, flength, msg.network))]
    /\ UNCHANGED <<outputs, peer, fault>>

AddField(tid, ft, flength) ==
    /\ Live
    /\ HasTemplate(msg, tid)
    /\ HasRoom(msg, tid)
    /\ msg' = [Changed(msg) EXCEPT !.templates[tid].datafields =
                              Append(@, TemplateField(ft, flength, msg.network))]
    /\ UNCHANGED <<outputs, peer, fault>>

AddScopeField(tid, ft, flength) ==
    /\ Live
    /\ HasTemplate(msg, tid)
    /\ msg.templates[tid].type = "option"
    /\ HasRoom(msg, tid)
    /\ msg' = [Changed(msg) EXCEPT !.templates[tid].scopefields =
                              Append(@, TemplateField(ft, flength, msg.network))]
    /\ UNCHANGED <<outputs, peer, fault>>

(* The container erases what it did not find: its end(). *)
DeleteTemplate(tid) ==
    /\ Live
    /\ IF HasTemplate(msg, tid)
       THEN /\ msg' = [Changed(msg) EXCEPT !.templates = WithoutTemplate(msg, tid)]
            /\ UNCHANGED <<outputs, peer, fault>>
       ELSE /\ fault' = "no such template"
            /\ UNCHANGED <<msg, outputs, peer>>

DeleteAllTemplates ==
    /\ Live
    /\ msg' = [Changed(msg) EXCEPT !.templates = <<>>]
    /\ UNCHANGED <<outputs, peer, fault>>

(* make_template(): all of the fields, or no template (but its id is gone). *)
MakeTemplate(ft, flength, known) ==
    /\ Live
    /\ msg.lasttid + 1 \in Tids
    /\ FieldBound(msg)
    /\ LET m == WithNewTemplate(msg, "data", 1) IN
       msg' = IF known
              THEN [m EXCEPT !.templates[m.lasttid].datafields =
                                <<TemplateField(ft, flength, m.network)>>]
              ELSE [m EXCEPT !.templates = WithoutTemplate(m, m.lasttid)]
    /\ UNCHANGED <<outputs, peer, fault>>

(* include_data() looks at the number of fields, not at the record's own id. *)
IncludeData(tid, r) ==
    /\ Live
    /\ Len(msg.data) + outputs < MaxCalls
    /\ HasTemplate(msg, tid)
    /\ NumFields(msg.templates[tid]) = Cardinality(DOMAIN r.vals)
    /\ msg' = [Changed(msg) EXCEPT !.data = Append(@, r)]
    /\ UNCHANGED <<outputs, peer, fault>>

(* The copy of a template counts as never sent; buffer and flags are kept. *)
Unsent(m) == [m EXCEPT !.templates = [t \in DOMAIN @ |-> [@[t] EXCEPT !.sent = FALSE]]]

(* A session works on with a copy (the copy constructor). *)
Copy ==
    /\ Live
    /\ msg' = Unsent(msg)
    /\ UNCHANGED <<outputs, peer, fault>>

(* operator=: a copy that has to be output again. *)
Assign ==
    /\ Live
    /\ msg' = Changed(Unsent(msg))
    /\ UNCHANGED <<outputs, peer, fault>>

(***************************************************************************)
(* output().  A writer is the message it works on, with the status "ok",   *)
(* "throws" (the exception ends output()) or the undefined behaviour.      *)
(***************************************************************************)
SpecifierSize(f) == IF f.ft.eno = NOENO THEN 4 ELSE 8

SumOver(seq, Op(_)) == FoldLeft(LAMBDA sum, x : sum + Op(x), 0, seq)

TemplateSize(t) ==
    (IF t.type = "option" THEN 10 ELSE 8) + SumOver(TemplateFields(t), SpecifierSize)

HeaderSize(m) == IF m.version = "NF9" THEN 20 ELSE 16

(***************************************************************************)
(* The check before a write of "size" bytes.  allocate_additional_memory() *)
(* is asked for the missing bytes only and takes the test for more memory  *)
(* once more: it either throws, although realloc() succeeded, or leaves    *)
(* the buffer as it is, and the write goes past its end.                   *)
(***************************************************************************)
AllocateThrows(m, size) == m.offset + (size + m.offset - BufLen) > BufLen

RoomStatus(m, size, written) ==
    IF size + m.offset > BufLen /\ AllocateThrows(m, size) THEN "throws"
    ELSE IF written + m.offset > BufLen THEN "overrun" ELSE "ok"

TemplateSet(tid, t) ==
    [kind |-> t.type, id |-> tid, nscope |-> Len(t.scopefields),
     fields |-> [i \in 1 .. NumFields(t) |-> [ft |-> TemplateFields(t)[i].ft,
                                              flength |-> TemplateFields(t)[i].flength]],
     body |-> <<>>]

DataSet(tid, body) ==
    [kind |-> "record", id |-> tid, nscope |-> 0, fields |-> <<>>, body |-> body]

(* _write_template(): the template set goes before all that is written. *)
WriteTemplate(w, tid) ==
    LET t == w.m.templates[tid]
        size == TemplateSize(t)
        status == IF GetFieldFaults(t) THEN "field index" ELSE RoomStatus(w.m, size, size)
    IN  IF status # "ok" THEN [w EXCEPT !.status = status]
        ELSE [w EXCEPT !.m.buffer = <<TemplateSet(tid, t)>> \o @,
                       !.m.offset = @ + size,
                       !.m.templates[tid].sent = TRUE,
                       !.m.nrecords = IF w.m.version = "NF9" THEN @ + 1 ELSE @]

LengthPrefix(flength, v) ==
    IF flength # VARLEN THEN <<>>
    ELSE IF Len(v) > MaxShortLen THEN <<255, Len(v) \div 256, Len(v) % 256>>
    ELSE <<Len(v)>>

(* A value is missing, or longer than the template says. *)
RecordRefused(t, r) ==
    \E i \in 1 .. NumFields(t) :
        LET f == TemplateFields(t)[i] IN
        \/ ~RecordHas(r, f.ft)
        \/ f.flength # VARLEN /\ Len(RecordValue(r, f.ft)) > f.flength

FieldBytes(r, f) ==
    LET v == RecordValue(r, f.ft)
    IN  LengthPrefix(f.flength, v) \o Encode(f.ft, v, f.relay)

RecordBody(t, r) ==
    FoldLeft(LAMBDA bytes, f : bytes \o FieldBytes(r, f), <<>>, TemplateFields(t))

EncodingFaults(t, r) ==
    \E i \in 1 .. NumFields(t) :
        LET ft == TemplateFields(t)[i].ft IN EncodeFaults(ft, RecordValue(r, ft))

(***************************************************************************)
(* One record of output_set(), a set of its own.  datasetlen (w.planned)   *)
(* is never reset between the records of a template.                       *)
(***************************************************************************)
WriteRecord(w, tid, r) ==
    LET t == w.m.templates[tid]
        body == RecordBody(t, r)
        planned == w.planned + Len(body)
        status == IF GetFieldFaults(t) THEN "field index"
                  ELSE IF RecordRefused(t, r) THEN "throws"
                  ELSE IF EncodingFaults(t, r) THEN "null string"
                  ELSE RoomStatus(w.m, planned, 4 + Len(body))
    IN  IF status # "ok" THEN [w EXCEPT !.status = status]
        ELSE [w EXCEPT !.planned = planned,
                       !.m.buffer = Append(@, DataSet(tid, body)),
                       !.m.offset = @ + 4 + Len(body),
                       !.m.nrecords = @ + 1,
                       !.m.seqno = IF w.m.version = "IPFIX" THEN @ + 1 ELSE @]

WriteRecordIfOf(w, tid, r) ==
    IF w.status = "ok" /\ r.tid = tid THEN WriteRecord(w, tid, r) ELSE w

(* output_set(): the template unless it was sent, then its records. *)
OutputSet(w, tid) ==
    LET w1 == IF w.status = "ok" /\ ~w.m.templates[tid].sent
              THEN WriteTemplate(w, tid) ELSE w
    IN  FoldLeft(LAMBDA v, r : WriteRecordIfOf(v, tid, r), [w1 EXCEPT !.planned = 4], w.m.data)

(* _write_hdr() *)
WriteHeader(w) ==
    LET size == HeaderSize(w.m)
        status == RoomStatus(w.m, size, size)
        m == IF w.m.version = "NF9" THEN [w.m EXCEPT !.seqno = @ + 1]
             ELSE [w.m EXCEPT !.length = w.m.offset + size]
    IN  CASE w.status # "ok" -> w
          [] w.status = "ok" /\ status # "ok" -> [w EXCEPT !.status = status]
          [] OTHER ->
                [w EXCEPT !.m = [m EXCEPT
                    !.offset = @ + size,
                    !.header = [count |-> m.nrecords, network |-> m.network, time |-> Now,
                                seqno |-> IF m.version = "NF9" THEN m.seqno
                                          ELSE m.nrecords]]]

(* get_template_list(): the order of the map; ids that are gone are passed. *)
TidOrder == [i \in 1 .. MaxTemplates |-> FirstTid + i - 1]

(* One of the two loops of output(), over the templates of one kind. *)
OfKind(m, type, tid) == HasTemplate(m, tid) /\ m.templates[tid].type = type

ForEach(m, type, base, Do(_, _)) ==
    FoldLeft(LAMBDA acc, tid : IF OfKind(m, type, tid) THEN Do(acc, tid) ELSE acc,
             base, TidOrder)

(* The option templates first, in the order of their ids. *)
InOutputOrder(m, base, Do(_, _)) ==
    ForEach(m, "data", ForEach(m, "option", base, Do), Do)

Written(m) ==
    WriteHeader(InOutputOrder(m,
        [m |-> [m EXCEPT !.buffer = <<>>, !.offset = 0], status |-> "ok", planned |-> 4],
        OutputSet))

(***************************************************************************)
(* An exception leaves require_output set, and what was written counts as  *)
(* sent and as a record.                                                   *)
(***************************************************************************)
Output ==
    /\ Live
    /\ msg.require_output
    /\ Len(msg.data) + outputs < MaxCalls
    /\ outputs' = outputs + 1
    /\ LET w == Written(msg) IN
       /\ msg' = IF w.status = "ok" THEN [w.m EXCEPT !.require_output = FALSE]
                 ELSE Outdated(w.m)
       /\ fault' = IF w.status \in {"ok", "throws"} THEN "none" ELSE w.status
    /\ UNCHANGED peer

BodySizePadded(m) == m.offset + (m.offset % 4)

(* get_serialized_size() without the object header: whole 32-bit words. *)
BodySize(m) == m.offset + ((4 - (m.offset % 4)) % 4)

(***************************************************************************)
(* The peer: deserialize_body() into a new object, whose encode_network is *)
(* TRUE, with mnslp_ipfix_import().  "misread" stands for reading bytes    *)
(* that do not belong to the set.                                          *)
(***************************************************************************)
SetSize(s) ==
    CASE s.kind = "record" -> 4 + Len(s.body)
      [] s.kind = "option" -> 10 + SumOver(s.fields, SpecifierSize)
      [] OTHER -> 8 + SumOver(s.fields, SpecifierSize)

(* mnslp_ipfix_parse_hdr(); nread starts behind the header. *)
ParseHeader(table, m) ==
    [status |-> IF m.header.network THEN "ok" ELSE "fault",
     version |-> m.version, templates |-> <<>>, lasttid |-> FirstTid - 1, data |-> <<>>,
     count |-> m.header.count, seqno |-> m.header.seqno, time |-> m.header.time,
     length |-> m.length, nread |-> HeaderSize(m), sets |-> 0, table |-> table]

(* read_field(): an element the tables do not know becomes UnknownField. *)
ReadField(table, f) ==
    TemplateField(IF HasField(table, f.ft) THEN f.ft ELSE UnknownField, f.flength, TRUE)

(***************************************************************************)
(* mnslp_ipfix_decode_trecord(): the template gets the next free id, not   *)
(* the one on the wire; a template that has that one is deleted.  One      *)
(* without fields is a withdrawal.  The length check of NetFlow 9 option   *)
(* templates can not be met.                                               *)
(***************************************************************************)
ReadTemplate(p, s) ==
    LET tid == p.lasttid + 1
        fields == [i \in 1 .. Len(s.fields) |-> ReadField(p.table, s.fields[i])]
        t == [NewTemplate(s.kind, Len(fields)) EXCEPT
                 !.scopefields = SubSeq(fields, 1, s.nscope),
                 !.datafields = SubSeq(fields, s.nscope + 1, Len(fields))]
    IN  CASE s.kind = "data" /\ fields = <<>> -> p
          [] s.kind = "option" /\ p.version = "NF9" -> [p EXCEPT !.status = "throws"]
          [] s.kind = "option" /\ p.version = "IPFIX" /\ fields = <<>> ->
                [p EXCEPT !.status = IF HasTemplate(p, s.id) THEN "throws" ELSE "fault"]
          [] OTHER -> [p EXCEPT !.lasttid = tid,
                                !.templates = WithTemplate(WithoutTemplate(p, s.id), tid, t)]

FieldLengthShort(f, body, pos) ==
    IF f.flength # VARLEN THEN [bytes |-> 0, len |-> f.flength]
    ELSE [bytes |-> 1, len |-> body[pos + 1]]

(* The length of a field and how many bytes say so. *)
FieldLength(f, body, pos) ==
    CASE f.flength # VARLEN -> [bytes |-> 0, len |-> f.flength]
      [] f.flength = VARLEN /\ pos + 3 <= Len(body) /\ body[pos + 1] = 255 ->
            [bytes |-> 3, len |-> 256 * body[pos + 2] + body[pos + 3]]
      [] OTHER -> [bytes |-> 1, len |-> body[pos + 1]]

(* insert_field(): std::map::insert() leaves a value that is there. *)
WithValue(vals, ft, v) ==
    [g \in DOMAIN vals \cup {ft} |-> IF g \in DOMAIN vals THEN vals[g] ELSE v]

(* One field of mnslp_ipfix_decode_datarecord(). *)
DecodeField(d, f, body) ==
    IF d.status # "ok" THEN d
    ELSE IF f.flength = VARLEN /\ d.pos >= Len(body) THEN [d EXCEPT !.status = "misread"]
    ELSE LET l == FieldLength(f, body, d.pos)
             from == d.pos + l.bytes
             bytes == SubSeq(body, from + 1, from + l.len)
         IN  CASE d.left < l.len -> [d EXCEPT !.status = "throws"]
               [] d.left >= l.len /\ from + l.len > Len(body) -> [d EXCEPT !.status = "misread"]
               [] d.left >= l.len /\ from + l.len <= Len(body) /\ DecodeThrows(f.ft, bytes) ->
                     [d EXCEPT !.status = "throws"]
               [] OTHER -> [d EXCEPT !.pos = from + l.len, !.left = @ - l.len,
                                     !.vals = WithValue(@, f.ft, Decode(f.ft, bytes, TRUE))]

DecodeRecord(p, tid, body, pos) ==
    FoldLeft(LAMBDA d, f : DecodeField(d, f, body),
             [status |-> "ok", pos |-> pos, left |-> Len(body) - pos, vals |-> <<>>],
             TemplateFields(p.templates[tid]))

(* One turn of the loop over the records of a set. *)
ReadRecord(q, s) ==
    LET d == DecodeRecord(q.p, s.id, s.body, q.pos) IN
    [pos |-> d.pos,
     p |-> [q.p EXCEPT !.status = d.status,
                       !.data = IF d.status = "ok"
                                THEN Append(@, [tid |-> s.id, vals |-> d.vals]) ELSE @]]

ReadRecordIfLeft(q, s) ==
    IF q.p.status # "ok" \/ q.pos >= Len(s.body) THEN q ELSE ReadRecord(q, s)

(* The loop goes on as long as there are bytes left. *)
ReadRecords(p, s) ==
    IF ~HasTemplate(p, s.id) THEN [p EXCEPT !.status = "throws"]
    ELSE FoldLeft(LAMBDA q, byte : ReadRecordIfLeft(q, s), [pos |-> 0, p |-> p], s.body).p

(* One turn of the loop over the sets. *)
ReadSet(p, s, total) ==
    IF \/ p.status # "ok"
       \/ p.nread + 4 >= total
       \/ p.version = "NF9" /\ p.sets >= p.count
    THEN p
    ELSE [(IF s.kind = "record" THEN ReadRecords(p, s) ELSE ReadTemplate(p, s))
             EXCEPT !.nread = @ + SetSize(s), !.sets = @ + 1]

(***************************************************************************)
(* isEqual(): the headers, the templates (without tsend), and the records  *)
(* one by one in the order of data_list.  import() sets nrecords to the    *)
(* number of records it read and never sees the exporter's seqno.          *)
(***************************************************************************)
SameTemplateSent(t, u) ==
    /\ t.type = u.type /\ t.maxfields = u.maxfields /\ t.sent = u.sent
    /\ t.datafields = u.datafields /\ t.scopefields = u.scopefields

SameTemplate(t, u) ==
    /\ t.type = u.type /\ t.maxfields = u.maxfields
    /\ t.datafields = u.datafields /\ t.scopefields = u.scopefields

(* unixtime or exporttime of the message itself: _write_hdr() keeps the    *)
(* time it writes for IPFIX; for NF9 it stays as the constructor left it.  *)
OwnTime(m) == IF m.version = "NF9" THEN 0 ELSE m.header.time

IsEqual(m, p) ==
    /\ m.version = p.version
    /\ DOMAIN m.templates = DOMAIN p.templates
    /\ \A tid \in DOMAIN m.templates : SameTemplate(m.templates[tid], p.templates[tid])
    /\ m.nrecords = Len(p.data) /\ m.offset = p.nread /\ m.seqno = p.seqno
    /\ OwnTime(m) = p.time
    /\ m.version = "NF9" => p.count = 0
    /\ m.version = "IPFIX" => m.length = p.length
    /\ Len(m.data) = Len(p.data) /\ \A i \in 1 .. Len(m.data) : m.data[i].vals = p.data[i].vals

(* What is left behind the sets that were read has to be zero padding. *)
Import(table, m) ==
    LET p == FoldLeft(LAMBDA q, s : ReadSet(q, s, BodySize(m)), ParseHeader(table, m), m.buffer)
    IN  IF p.status = "ok" /\ p.nread < m.offset THEN [p EXCEPT !.status = "refused"] ELSE p

(* check_body() lets a message without a buffer not be sent. *)
Deserialize(table) ==
    /\ Live
    /\ ~msg.require_output
    /\ peer' = Import(table, msg)
    /\ UNCHANGED <<msg, outputs, fault>>

Next ==
    \/ \E mode \in Modes : SetEncodeMode(mode)
    \/ \E n \in 1 .. MaxFields : NewDataTemplate(n) \/ NewOptionTemplate(n)
    \/ NewTemplateRefused
    \/ \E tid \in Tids, ft \in FieldTypes : \E n \in Flengths[ft] :
          AddField(tid, ft, n) \/ AddScopeField(tid, ft, n)
    \/ \E ft \in FieldTypes, known \in BOOLEAN : \E n \in Flengths[ft] :
          MakeTemplate(ft, n, known)
    \/ \E tid \in Tids : DeleteTemplate(tid)
    \/ DeleteAllTemplates
    \/ \E tid \in Tids, r \in Records : IncludeData(tid, r)
    \/ Copy \/ Assign \/ Output
    \/ \E table \in PeerTables : Deserialize(table)

Spec == Init /\ [][Next]_vars

(***************************************************************************)
(* Properties.                                                             *)
(***************************************************************************)

(* Type correctness. *)
IpfixTypeOK ==
    /\ DOMAIN msg.templates \subseteq Tids
    /\ \A tid \in DOMAIN msg.templates :
          LET t == msg.templates[tid] IN
          /\ t.type \in {"data", "option"} /\ t.sent \in BOOLEAN
          /\ NumFields(t) <= t.maxfields
          /\ t.type = "data" => t.scopefields = <<>>
    /\ msg.lasttid \in FirstTid - 1 .. FirstTid + MaxTemplates - 1
    /\ \A tid \in DOMAIN msg.templates : tid <= msg.lasttid
    /\ msg.data \in Seq(Records)
    /\ {msg.nrecords, msg.seqno, msg.offset, msg.length, outputs} \subseteq Nat
    /\ msg.require_output \in BOOLEAN
    /\ peer.status \in {"unread", "ok", "throws", "fault", "misread", "refused"}
    /\ fault \in {"none", "no such template", "field index", "null string", "overrun"}

(* The data sets output() writes: by template, in the order of inclusion. *)
AddDataSets(m, sets, tid) ==
    FoldLeft(LAMBDA acc, r :
                IF r.tid = tid
                THEN Append(acc, DataSet(tid, RecordBody(m.templates[tid], r)))
                ELSE acc,
             sets, m.data)

CurrentDataSets(m) ==
    InOutputOrder(m, <<>>, LAMBDA sets, tid : AddDataSets(m, sets, tid))

DataSets(m) ==
    FoldLeft(LAMBDA acc, s : IF s.kind = "record" THEN Append(acc, s) ELSE acc,
             <<>>, m.buffer)

TemplateSets(m) ==
    FoldLeft(LAMBDA acc, s : IF s.kind # "record" THEN Append(acc, s) ELSE acc,
             <<>>, m.buffer)

(* Whatever was done to the message since, a buffer that may be sent holds *)
(* exactly the records of its present templates, as these say now, and no  *)
(* template set that differs from the template: every operation that       *)
(* changes the content has to mark the message for output.                 *)
ExportCurrent ==
    ~msg.require_output =>
        /\ DataSets(msg) = CurrentDataSets(msg)
        /\ \A i \in DOMAIN msg.buffer :
              LET s == msg.buffer[i] IN
              s.kind # "record" =>
                  HasTemplate(msg, s.id) /\ s = TemplateSet(s.id, msg.templates[s.id])

(* The size the header and the object header announce is the size of what  *)
(* is written, it lies within the buffer, it is padded to whole words with *)
(* less than a word, and a peer that reads the message reads all of it.    *)
SizesAgree ==
    /\ ~msg.require_output =>
        /\ msg.offset = HeaderSize(msg) + SumOver(msg.buffer, SetSize)
        /\ msg.offset <= BufLen
        /\ BodySize(msg) % 4 = 0 /\ BodySize(msg) - msg.offset \in 0 .. 3
        /\ msg.version = "IPFIX" => msg.length = msg.offset
    /\ peer.status = "ok" => peer.nread = msg.offset

(***************************************************************************)
(* When a peer can read the message: the template with which a record is   *)
(* encoded is at the place in the message from which the peer counts up to *)
(* its id (the ids in the template sets do not matter), and it names the   *)
(* fields of the record: include_data() only counts them, and for the      *)
(* template it is called with, which may not be the record's.  A string    *)
(* cannot be read, not even the empty one that is encoded: decode() makes  *)
(* a value of bytes, which a field of this type does not accept.           *)
(***************************************************************************)
FieldReadable(table, f) ==
    /\ HasField(table, f.ft) /\ f.relay
    /\ f.flength \in {VARLEN, f.ft.length}
    /\ f.ft.coding # "string"

Readable(table, m) ==
    LET ts == TemplateSets(m) IN
    /\ m.header.network
    /\ \A i \in 1 .. Len(ts) :
          /\ ts[i].fields # <<>>
          /\ m.version = "NF9" => ts[i].kind # "option"
    /\ \A i \in 1 .. Len(DataSets(m)) :
          LET tid == DataSets(m)[i].id
              place == tid - FirstTid + 1
              fields == TemplateFields(m.templates[tid])
          IN  /\ place <= Len(ts) /\ ts[place].id = tid
              /\ \A r \in Range(m.data) : r.tid = tid =>
                    DOMAIN r.vals = {fields[k].ft : k \in 1 .. Len(fields)}
              /\ \A k \in 1 .. Len(fields) : FieldReadable(table, fields[k])

(* The records as they were exported, in the order of the message. *)
AddRecords(m, recs, tid) ==
    FoldLeft(LAMBDA acc, r : IF r.tid = tid THEN Append(acc, r) ELSE acc, recs, m.data)

Exported(m) == InOutputOrder(m, <<>>, LAMBDA recs, tid : AddRecords(m, recs, tid))

(* A readable message reaches the peer with every record under the id of   *)
(* its template and with the values the user gave.                         *)
PeerReads ==
    peer.status # "unread" /\ Readable(peer.table, msg) =>
        peer.status = "ok" /\ peer.data = Exported(msg)

(* All that the user built is in the buffer, in the order of the message.  *)
Complete(table, m) ==
    LET ts == TemplateSets(m) IN
    /\ m.data = Exported(m)
    /\ {ts[i].id : i \in 1 .. Len(ts)} = DOMAIN m.templates
    /\ \A i \in 1 .. Len(ts) : ts[i].id = FirstTid + i - 1
    /\ \A tid \in DOMAIN m.templates :
          LET t == m.templates[tid] IN
          /\ NumFields(t) = t.maxfields
          /\ \A k \in 1 .. NumFields(t) : FieldReadable(table, TemplateFields(t)[k])

(***************************************************************************)
(* What the peer reads of a message that is readable and complete compares *)
(* equal to the message if and only if it is IPFIX and nothing was output  *)
(* before, since nrecords and seqno count the records of all outputs.  In  *)
(* NetFlow 9 never: the peer has the time and the count of the header, the *)
(* exporter's own message has neither.                                     *)
(***************************************************************************)
EqualOnlyTheFirstTime ==
    peer.status = "ok" /\ Readable(peer.table, msg) /\ Complete(peer.table, msg) =>
        (IsEqual(msg, peer) <=> msg.version = "IPFIX" /\ msg.nrecords = Len(msg.data))

============================================================================
