---------------------------- MODULE IpfixFields ----------------------------
(***************************************************************************)
(* The IPFIX information elements and their values: the key of a field and *)
(* the order the maps of a data record use, the values a field accepts,    *)
(* their encoding on the wire and the text the meter is given for them.    *)
(*                                                                         *)
(* Abstraction.  A field type is [eno, ftype, length, coding]; names and   *)
(* documentation strings are left out.  A value is the sequence of its     *)
(* bytes as they lie in memory on a little-endian host.                    *)
(***************************************************************************)
EXTENDS Integers, Sequences, SequencesExt

VARLEN == 65535     \* IPFIX_FT_VARLEN
NOENO == 0          \* IPFIX_FT_NOENO

Codings == {"none", "int", "uint", "bytes", "string", "float", "ntp", "ipaddr"}

FieldType(eno, ftype, length, coding) ==
    [eno |-> eno, ftype |-> ftype, length |-> length, coding |-> coding]

(* The last entry of both tables; unknown elements of a peer become it. *)
UnknownField == FieldType(0, 0, -1, "none")

(***************************************************************************)
(* mnslp_ipfix_field_key: == compares both numbers, < their combination.   *)
(* A std::map takes two keys for the same when neither is less.            *)
(***************************************************************************)
KeyEqual(a, b) == a.eno = b.eno /\ a.ftype = b.ftype

KeyLess(a, b) == a.eno * 1000 + a.ftype < b.eno * 1000 + b.ftype

SameMapEntry(a, b) == ~KeyLess(a, b) /\ ~KeyLess(b, a)

(***************************************************************************)
(* msnlp_ipfix_field_container::get_field() finds a type by its numbers.   *)
(***************************************************************************)
HasField(container, ft) == \E g \in container : KeyEqual(g, ft)

(***************************************************************************)
(* The overloads of get_ipfix_value_field(): an integer must have exactly  *)
(* the width of the type; so must an address, and bytes unless the type is *)
(* of variable length.  Characters go only into strings, bytes never do.   *)
(***************************************************************************)
IntegerWidths == {1, 2, 4, 8}

IntegerValueAgrees(ft, width) == width \in IntegerWidths /\ ft.length = width

BytesValueAgrees(ft, width) ==
    \/ ft.coding = "ipaddr" /\ ft.length = width
    \/ ft.coding = "bytes" /\ ft.length \in {width, VARLEN}

CharsValueAgrees(ft) == ft.coding = "string"

Numeric(ft) == ft.coding \in {"int", "uint", "ntp"}

(* The values a user can make for a field. *)
ValueAgrees(ft, v) ==
    \/ Numeric(ft) /\ IntegerValueAgrees(ft, Len(v))
    \/ BytesValueAgrees(ft, Len(v))
    \/ CharsValueAgrees(ft)

(***************************************************************************)
(* ipfix_encode_int() and ipfix_decode_int(): "relay" copies the memory,   *)
(* otherwise the bytes are swapped (htons, htonl, HTONLL).                 *)
(***************************************************************************)
EncodeInt(v, relay) == IF relay THEN v ELSE Reverse(v)

(* encode(): a string has no valuebyte, so memcpy reads through NULL. *)
EncodeFaults(ft, v) == ft.coding \in {"string", "none"} /\ v # <<>>

Encode(ft, v, relay) == IF Numeric(ft) THEN EncodeInt(v, relay) ELSE v

(***************************************************************************)
(* decode() of the bytes a template's field length cut out of a record.    *)
(* It throws where get_ipfix_value_field() does; an integer of a width no  *)
(* case handles comes back as an empty value.                              *)
(***************************************************************************)
DecodeThrows(ft, bytes) ==
    IF Numeric(ft)
    THEN Len(bytes) \in IntegerWidths /\ ~IntegerValueAgrees(ft, Len(bytes))
    ELSE ~BytesValueAgrees(ft, Len(bytes))

DecodeInt(bytes, relay) ==
    CASE Len(bytes) \notin IntegerWidths -> <<>>
      [] relay -> bytes
      [] OTHER -> Reverse(bytes)

Decode(ft, bytes, relay) ==
    IF Numeric(ft) THEN DecodeInt(bytes, relay) ELSE bytes

(***************************************************************************)
(* print_value(): what the filter of the meter gets to see.  The buffer    *)
(* has one character per byte of the type, and the final NUL: a decimal    *)
(* number keeps its leading digits.  Addresses have room enough.           *)
(***************************************************************************)
NumDigits(n) == CHOOSE k \in 1 .. 10 : n < 10 ^ k /\ (k = 1 \/ n >= 10 ^ (k - 1))

PrintSize(ft) ==
    IF ft.coding = "ipaddr" THEN (IF ft.length = 4 THEN 16 ELSE 46)
    ELSE ft.length + 1

SnprintUint(n, size) ==
    IF NumDigits(n) < size THEN n ELSE n \div 10 ^ (NumDigits(n) - (size - 1))

PrintValue(ft, n) ==
    IF ft.coding = "uint" THEN SnprintUint(n, PrintSize(ft)) ELSE n

============================================================================
