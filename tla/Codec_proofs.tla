---------------------------- MODULE Codec_proofs ----------------------------
(***************************************************************************)
(* The messages of the signalling protocol: what is sent is read.          *)
(*                                                                         *)
(* In this order: the store, induction and the folds and sums over         *)
(* sequences, the store set_object() builds, the words of an object and of *)
(* a message, what deserialize() makes of them, the messages the nodes     *)
(* make, and last the invariant CodecInv, its step, and what follows from  *)
(* it.                                                                     *)
(***************************************************************************)
EXTENDS MessageCodec, FiniteSetTheorems, TLAPS

(***************************************************************************)
(* The information element store of a message: although two keys are       *)
(* compared by the sum of type and sequence number only, no object ever    *)
(* takes the place of one of another type, and a metering object never     *)
(* takes the place of any.                                                 *)
(***************************************************************************)

(* The sequence numbers set_object() gives to the objects of a type. *)
SequenceOf(type, seq) ==
    IF Unique(type) THEN seq = 1 ELSE seq \in Nat \ {0}

(* The keys of ie_store are told apart by their sum: the types are         *)
(* consecutive numbers, and the one that may occur more than once, which   *)
(* counts up, is the last of them.                                         *)
THEOREM KeysDistinct ==
    ASSUME NEW t \in ObjectTypes, NEW u \in ObjectTypes,
           NEW seq \in Nat, NEW other \in Nat,
           SequenceOf(t, seq), SequenceOf(u, other)
    PROVE  Key(t, seq) = Key(u, other) <=> t = u /\ seq = other
  BY DEF ObjectTypes, SimpleTypes, InformationCode, SelectionMeteringEntities,
         MessageHopCount, MsgSequenceNumber, SessionLifetime, IpfixMessage,
         SequenceOf, Unique, Key

ReportSequences(store) ==
    {e.seq : e \in {f \in Range(store) : f.type = IpfixMessage}}

(* What a store looks like that only set_object() has written: "n" metering *)
(* objects, numbered from 1.                                                *)
StoreOK(store, n) ==
    /\ store = [k \in DOMAIN store |-> store[k]]
    /\ \A k \in DOMAIN store :
          LET e == store[k] IN
          /\ e = [type |-> e.type, seq |-> e.seq, obj |-> e.obj]
          /\ e.type \in ObjectTypes /\ e.seq \in Nat
          /\ SequenceOf(e.type, e.seq)
          /\ k = Key(e.type, e.seq) /\ e.obj.type = e.type
    /\ ReportSequences(store) = 1 .. n

LEMMA MaxOfInterval ==
    ASSUME NEW n \in Nat
    PROVE  Max({0} \cup 1 .. n) = n
  <1>1. n \in {0} \cup 1 .. n /\ \A y \in {0} \cup 1 .. n : n >= y
    OBVIOUS
  <1>2. \A x \in {0} \cup 1 .. n : (\A y \in {0} \cup 1 .. n : x >= y) => x = n
    OBVIOUS
  <1>3. QED
    BY <1>1, <1>2 DEF Max

LEMMA NextReport ==
    ASSUME NEW store, NEW n \in Nat, StoreOK(store, n)
    PROVE  MaxSequence(store, IpfixMessage) = n
  BY MaxOfInterval DEF StoreOK, ReportSequences, MaxSequence

LEMMA EmptyStoreOK == StoreOK(EmptyStore, 0)
  <1>1. /\ DOMAIN EmptyStore = {} /\ Range(EmptyStore) = {} /\ 1 .. 0 = {}
        /\ EmptyStore = [k \in DOMAIN EmptyStore |-> EmptyStore[k]]
    BY DEF EmptyStore, Range
  <1>2. QED
    BY <1>1 DEF StoreOK, ReportSequences

(***************************************************************************)
(* Putting an object under a key, whether it is there or not.              *)
(***************************************************************************)
LEMMA PutIs ==
    ASSUME NEW store, NEW n \in Nat, StoreOK(store, n),
           NEW obj, obj.type \in ObjectTypes,
           NEW seq \in Nat, SequenceOf(obj.type, seq)
    PROVE  LET k == Key(obj.type, seq)
               after == Put(store, obj.type, seq, obj)
           IN  /\ after = [j \in DOMAIN after |-> after[j]]
               /\ DOMAIN after = DOMAIN store \cup {k}
               /\ after[k] = [type |-> obj.type, seq |-> seq, obj |-> obj]
               /\ \A j \in DOMAIN store \ {k} : after[j] = store[j]
  <1> DEFINE k == Key(obj.type, seq)
             after == Put(store, obj.type, seq, obj)
             new == [type |-> obj.type, seq |-> seq, obj |-> obj]
  <1>1. CASE k \in DOMAIN store
    <2>1. after = [store EXCEPT ![k].obj = obj]
      BY <1>1 DEF Put
    <2>2. /\ store[k] = [type |-> store[k].type, seq |-> store[k].seq,
                         obj |-> store[k].obj]
          /\ store[k].type \in ObjectTypes /\ store[k].seq \in Nat
          /\ SequenceOf(store[k].type, store[k].seq)
          /\ k = Key(store[k].type, store[k].seq)
      BY <1>1 DEF StoreOK
    <2>3. store[k].type = obj.type /\ store[k].seq = seq
      BY <2>2, KeysDistinct
    <2> HIDE DEF k, after
    <2>4. [store[k] EXCEPT !.obj = obj] = new
      BY <2>2, <2>3
    <2>5. after = [j \in DOMAIN store |-> IF j = k THEN new ELSE store[j]]
      BY <1>1, <2>1, <2>4
    <2> HIDE DEF new
    <2>6. /\ after = [j \in DOMAIN after |-> after[j]]
          /\ DOMAIN after = DOMAIN store \cup {k} /\ after[k] = new
          /\ \A j \in DOMAIN store \ {k} : after[j] = store[j]
      BY <1>1, <2>5
    <2>7. QED
      BY <2>6 DEF k, after, new
  <1>2. CASE k \notin DOMAIN store
    <2>1. after = [j \in DOMAIN store \cup {k} |->
                     IF j = k THEN new ELSE store[j]]
      BY <1>2 DEF Put
    <2> HIDE DEF k, after, new
    <2>2. /\ after = [j \in DOMAIN after |-> after[j]]
          /\ DOMAIN after = DOMAIN store \cup {k} /\ after[k] = new
          /\ \A j \in DOMAIN store \ {k} : after[j] = store[j]
      BY <2>1
    <2>3. QED
      BY <2>2 DEF k, after, new
  <1>3. QED
    BY <1>1, <1>2

(* The sequence number set_object() chooses. *)
ChosenSequence(obj, n) == IF Unique(obj.type) THEN 1 ELSE n + 1

LEMMA SetObjectIs ==
    ASSUME NEW store, NEW n \in Nat, StoreOK(store, n),
           NEW obj, obj.type \in ObjectTypes
    PROVE  /\ SetObject(store, obj) =
                 Put(store, obj.type, ChosenSequence(obj, n), obj)
           /\ ChosenSequence(obj, n) \in Nat
           /\ SequenceOf(obj.type, ChosenSequence(obj, n))
  BY NextReport DEF SetObject, ChosenSequence, SequenceOf, Unique

(***************************************************************************)
(* mnslp_msg::set_object() keeps the store in order, whatever it held: the *)
(* object can be read back, a metering object gets a place of its own, and *)
(* no object of another type or number is touched.                         *)
(***************************************************************************)
THEOREM SetObjectSound ==
    ASSUME NEW store, NEW n \in Nat, StoreOK(store, n),
           NEW obj, obj.type \in ObjectTypes
    PROVE  LET seq == ChosenSequence(obj, n)
               after == SetObject(store, obj)
           IN  /\ StoreOK(after, IF Unique(obj.type) THEN n ELSE n + 1)
               /\ Has(after, obj.type, seq) /\ Get(after, obj.type, seq) = obj
               /\ ~Unique(obj.type) => ~Has(store, obj.type, seq)
               /\ \A u \in ObjectTypes, r \in Nat :
                     SequenceOf(u, r) /\ ~(u = obj.type /\ r = seq) =>
                        /\ Has(after, u, r) <=> Has(store, u, r)
                        /\ Has(store, u, r) => Get(after, u, r) = Get(store, u, r)
  <1> DEFINE seq == ChosenSequence(obj, n)
             after == SetObject(store, obj)
             k == Key(obj.type, seq)
             new == [type |-> obj.type, seq |-> seq, obj |-> obj]
             m == IF Unique(obj.type) THEN n ELSE n + 1
  <1>1. seq \in Nat /\ SequenceOf(obj.type, seq)
    BY SetObjectIs
  <1>2. /\ after = [j \in DOMAIN after |-> after[j]]
        /\ DOMAIN after = DOMAIN store \cup {k}
        /\ after[k] = new
        /\ \A j \in DOMAIN store \ {k} : after[j] = store[j]
    <2>1. after = Put(store, obj.type, seq, obj)
      BY SetObjectIs
    <2> HIDE DEF after, seq
    <2>2. QED
      BY <1>1, <2>1, PutIs
  <1>3. Has(after, obj.type, seq) /\ Get(after, obj.type, seq) = obj
    BY <1>2 DEF Has, Get
  <1>4. ASSUME NEW u \in ObjectTypes, NEW r \in Nat, SequenceOf(u, r),
               ~(u = obj.type /\ r = seq)
        PROVE  /\ Has(after, u, r) <=> Has(store, u, r)
               /\ Has(store, u, r) => Get(after, u, r) = Get(store, u, r)
    <2>1. Key(u, r) # k
      BY <1>1, <1>4, KeysDistinct
    <2> HIDE DEF k, after
    <2>2. QED
      BY <1>2, <2>1 DEF Has, Get
  <1>5. ~Unique(obj.type) => k \notin DOMAIN store
    <2> SUFFICES ASSUME ~Unique(obj.type), k \in DOMAIN store
                 PROVE  FALSE
      OBVIOUS
    <2>1. /\ store[k].type \in ObjectTypes /\ store[k].seq \in Nat
          /\ SequenceOf(store[k].type, store[k].seq)
          /\ k = Key(store[k].type, store[k].seq)
      BY DEF StoreOK
    <2>2. store[k].type = IpfixMessage /\ store[k].seq = n + 1
      BY <1>1, <2>1, KeysDistinct DEF Unique, ChosenSequence
    <2>3. store[k].seq \in ReportSequences(store)
      BY <2>2 DEF ReportSequences, Range
    <2>4. QED
      BY <2>2, <2>3 DEF StoreOK
  <1>6. ASSUME NEW j \in DOMAIN after
        PROVE  /\ after[j] = [type |-> after[j].type, seq |-> after[j].seq,
                              obj |-> after[j].obj]
               /\ after[j].type \in ObjectTypes /\ after[j].seq \in Nat
               /\ SequenceOf(after[j].type, after[j].seq)
               /\ j = Key(after[j].type, after[j].seq)
               /\ after[j].obj.type = after[j].type
    <2>1. CASE j = k
      BY <1>1, <1>2, <2>1
    <2>2. CASE j # k
      <3> HIDE DEF after, k
      <3>1. j \in DOMAIN store /\ after[j] = store[j]
        BY <1>2, <1>6, <2>2
      <3>2. QED
        BY <3>1 DEF StoreOK
    <2>3. QED
      BY <2>1, <2>2
  <1>7. ReportSequences(after) = 1 .. m
    <2>1. ReportSequences(store) = 1 .. n
      BY DEF StoreOK
    <2>2. CASE Unique(obj.type)
      <3>1. obj.type # IpfixMessage
        BY <2>2 DEF Unique
      <3>2. k \in DOMAIN store => store[k].type # IpfixMessage
        <4> SUFFICES ASSUME k \in DOMAIN store
                     PROVE  store[k].type = obj.type
          BY <3>1
        <4>1. /\ store[k].type \in ObjectTypes /\ store[k].seq \in Nat
              /\ SequenceOf(store[k].type, store[k].seq)
              /\ k = Key(store[k].type, store[k].seq)
          BY DEF StoreOK
        <4>2. QED
          BY <1>1, <4>1, KeysDistinct
      <3> HIDE DEF k, after
      <3>3. \A e : e \in Range(after) /\ e.type = IpfixMessage
                  <=> e \in Range(store) /\ e.type = IpfixMessage
        BY <1>2, <3>1, <3>2 DEF Range
      <3>4. ReportSequences(after) = ReportSequences(store)
        BY <3>3 DEF ReportSequences
      <3>5. QED
        BY <2>1, <2>2, <3>4
    <2>3. CASE ~Unique(obj.type)
      <3>1. obj.type = IpfixMessage /\ seq = n + 1 /\ m = n + 1
        BY <2>3 DEF Unique, ChosenSequence
      <3>2. k \notin DOMAIN store
        BY <1>5, <2>3
      <3> HIDE DEF k, after, seq, m
      <3>3. Range(after) = Range(store) \cup {new}
        BY <1>2, <3>2 DEF Range
      <3>4. new.type = IpfixMessage /\ new.seq = n + 1
        BY <3>1
      <3> HIDE DEF new
      <3>5. ReportSequences(after) = ReportSequences(store) \cup {n + 1}
        BY <3>3, <3>4 DEF ReportSequences
      <3>6. QED
        BY <2>1, <3>1, <3>5
    <2>4. QED
      BY <2>2, <2>3
  <1>8. StoreOK(after, m)
    BY <1>2, <1>6, <1>7 DEF StoreOK
  <1>9. ~Unique(obj.type) => ~Has(store, obj.type, seq)
    BY <1>5 DEF Has
  <1>10. QED
    BY <1>3, <1>4, <1>8, <1>9

(***************************************************************************)
(* Induction over the natural numbers: a non-empty set of them has a least *)
(* element.                                                                *)
(***************************************************************************)
LEMMA LeastNumber ==
    ASSUME NEW T \in SUBSET Nat, T # {}
    PROVE  \E n \in T : \A m \in T : n <= m
  <1> DEFINE R == OpToRel(<, Nat)
  <1>1. IsWellFoundedOn(R, Nat)
    BY NatLessThanWellFounded
  <1>2. PICK n \in T : \A m \in T : ~ (<<m, n>> \in R)
    <2> HIDE DEF R
    <2>1. QED
      BY <1>1, WFMin
  <1>3. \A m \in T : ~ (m < n)
    BY <1>2 DEF OpToRel
  <1> HIDE DEF R
  <1>4. QED
    BY <1>3

LEMMA Induction ==
    ASSUME NEW T \in SUBSET Nat, 0 \in T, \A n \in T : n + 1 \in T
    PROVE  T = Nat
  <1> SUFFICES ASSUME Nat \ T # {} PROVE FALSE
    OBVIOUS
  <1>1. PICK n \in Nat \ T : \A m \in Nat \ T : n <= m
    BY LeastNumber
  <1>2. n - 1 \in T
    BY <1>1
  <1>3. (n - 1) + 1 \in T
    BY <1>2
  <1>4. QED
    BY <1>1, <1>3

(***************************************************************************)
(* The elements of a set in their order.                                   *)
(***************************************************************************)
Increasing(f, n, S) ==
    /\ n \in Nat /\ f \in [1 .. n -> S]
    /\ \A i, j \in 1 .. n : i < j => f[i] < f[j]
    /\ \A x \in S : \E i \in 1 .. n : f[i] = x

LEMMA Counted ==
    ASSUME NEW n \in Nat, NEW S, NEW f \in [1 .. n -> S],
           \A i, j \in 1 .. n : i # j => f[i] # f[j],
           \A x \in S : \E i \in 1 .. n : f[i] = x
    PROVE  IsFiniteSet(S) /\ Cardinality(S) = n
  <1>1. f \in Bijection(1 .. n, S)
    BY DEF Bijection, Injection, Surjection, IsInjective
  <1>2. ExistsBijection(1 .. n, S)
    BY <1>1 DEF ExistsBijection
  <1>3. QED
    BY <1>2, FS_CountingElements, FS_NatBijection

LEMMA AscendingIs ==
    ASSUME NEW n, NEW f, NEW S \in SUBSET Int, Increasing(f, n, S)
    PROVE  /\ Ascending(S) = f /\ Cardinality(S) = n /\ IsFiniteSet(S)
           /\ DOMAIN Ascending(S) = 1 .. n
  <1> USE DEF Increasing
  <1>1. \A i, j \in 1 .. n : i # j => f[i] # f[j]
    <2> SUFFICES ASSUME NEW i \in 1 .. n, NEW j \in 1 .. n, i # j
                 PROVE  f[i] # f[j]
      OBVIOUS
    <2>1. f[i] \in Int /\ f[j] \in Int
      OBVIOUS
    <2>2. CASE i < j
      BY <2>1, <2>2
    <2>3. CASE j < i
      BY <2>1, <2>3
    <2>4. QED
      BY <2>2, <2>3
  <1>2. Cardinality(S) = n /\ IsFiniteSet(S)
    BY <1>1, Counted
  <1>3. ASSUME NEW i \in 1 .. n
        PROVE  Cardinality({y \in S : y < f[i]}) = i - 1
    <2> DEFINE B == {y \in S : y < f[i]}
               g == [j \in 1 .. i - 1 |-> f[j]]
    <2>1. i - 1 \in Nat /\ \A j \in 1 .. i - 1 : j \in 1 .. n /\ j < i
      OBVIOUS
    <2>2. g \in [1 .. i - 1 -> B]
      BY <2>1
    <2>3. \A j, k \in 1 .. i - 1 : j # k => g[j] # g[k]
      BY <1>1, <2>1
    <2>4. \A x \in B : \E j \in 1 .. i - 1 : g[j] = x
      <3> SUFFICES ASSUME NEW x \in B
                   PROVE  \E j \in 1 .. i - 1 : g[j] = x
        OBVIOUS
      <3>1. PICK j \in 1 .. n : f[j] = x
        OBVIOUS
      <3>2. x \in Int /\ x < f[i] /\ f[i] \in Int
        OBVIOUS
      <3>3. j < i
        <4> SUFFICES ASSUME ~ (j < i) PROVE FALSE
          OBVIOUS
        <4>1. CASE j = i
          BY <3>1, <3>2, <4>1
        <4>2. CASE i < j
          <5>1. f[i] < f[j]
            BY <4>2
          <5>2. QED
            BY <3>1, <3>2, <5>1
        <4>3. QED
          BY <4>1, <4>2
      <3>4. QED
        BY <3>1, <3>3
    <2> HIDE DEF B, g
    <2>5. Cardinality(B) = i - 1
      BY <2>1, <2>2, <2>3, <2>4, Counted
    <2>6. QED
      BY <2>5 DEF B
  <1>4. ASSUME NEW i \in 1 .. n
        PROVE  (CHOOSE x \in S : Cardinality({y \in S : y < x}) = i - 1) = f[i]
    <2>1. f[i] \in S /\ Cardinality({y \in S : y < f[i]}) = i - 1
      BY <1>3
    <2>2. ASSUME NEW x \in S, Cardinality({y \in S : y < x}) = i - 1
          PROVE  x = f[i]
      <3>1. PICK j \in 1 .. n : f[j] = x
        OBVIOUS
      <3>2. Cardinality({y \in S : y < f[j]}) = j - 1
        BY <1>3
      <3>3. QED
        BY <2>2, <3>1, <3>2
    <2>3. QED
      BY <2>1, <2>2
  <1>5. Ascending(S) = [i \in 1 .. n |-> f[i]]
    BY <1>2, <1>4 DEF Ascending
  <1>6. QED
    BY <1>2, <1>5

LEMMA AscendingExists ==
    ASSUME NEW n \in Nat, NEW S \in SUBSET (1 .. n)
    PROVE  \E k \in Nat : \E f : Increasing(f, k, S)
  <1> DEFINE T == {m \in Nat : \A U \in SUBSET (1 .. m) :
                                  \E k \in Nat : \E f : Increasing(f, k, U)}
  <1>1. 0 \in T
    <2> SUFFICES ASSUME NEW U \in SUBSET (1 .. 0)
                 PROVE  \E k \in Nat : \E f : Increasing(f, k, U)
      OBVIOUS
    <2>1. Increasing([i \in 1 .. 0 |-> 0], 0, U)
      BY DEF Increasing
    <2>2. QED
      BY <2>1
  <1>2. ASSUME NEW m \in T
        PROVE  m + 1 \in T
    <2> SUFFICES ASSUME NEW U \in SUBSET (1 .. m + 1)
                 PROVE  \E k \in Nat : \E f : Increasing(f, k, U)
      OBVIOUS
    <2>1. CASE m + 1 \notin U
      <3>1. U \in SUBSET (1 .. m)
        BY <2>1
      <3>2. QED
        BY <1>2, <3>1
    <2>2. CASE m + 1 \in U
      <3> DEFINE V == U \ {m + 1}
      <3>1. V \in SUBSET (1 .. m)
        OBVIOUS
      <3>20. PICK k \in Nat : \E f : Increasing(f, k, V)
        BY <1>2, <3>1
      <3>2. PICK f : Increasing(f, k, V)
        BY <3>20
      <3> DEFINE g == [i \in 1 .. k + 1 |-> IF i = k + 1 THEN m + 1 ELSE f[i]]
      <3>3. Increasing(g, k + 1, U)
        <4>1. \A i \in 1 .. k : f[i] \in V /\ g[i] = f[i]
          BY <3>2 DEF Increasing
        <4>2. g \in [1 .. k + 1 -> U]
          <5>1. \A i \in 1 .. k + 1 : i # k + 1 => i \in 1 .. k
            OBVIOUS
          <5>2. \A i \in 1 .. k + 1 : g[i] \in U
            BY <2>2, <4>1, <5>1
          <5> HIDE DEF V
          <5>3. QED
            BY <5>2
        <4>3. ASSUME NEW i \in 1 .. k + 1, NEW j \in 1 .. k + 1, i < j
              PROVE  g[i] < g[j]
          <5>1. i \in 1 .. k
            BY <4>3
          <5>2. CASE j = k + 1
            <6>1. g[i] = f[i] /\ f[i] \in 1 .. m
              <7> HIDE DEF g
              <7>1. QED
                BY <3>1, <4>1, <5>1
            <6>2. g[j] = m + 1
              BY <5>2
            <6> HIDE DEF g
            <6>3. QED
              BY <6>1, <6>2
          <5>3. CASE j # k + 1
            <6>1. j \in 1 .. k
              BY <5>3
            <6>2. f[i] < f[j]
              BY <3>2, <4>3, <5>1, <6>1 DEF Increasing
            <6>3. QED
              BY <4>1, <5>1, <6>1, <6>2
          <5>4. QED
            BY <5>2, <5>3
        <4>4. ASSUME NEW x \in U
              PROVE  \E i \in 1 .. k + 1 : g[i] = x
          <5>1. CASE x = m + 1
            BY <5>1
          <5>2. CASE x # m + 1
            <6>1. PICK i \in 1 .. k : f[i] = x
              BY <3>2, <5>2 DEF Increasing
            <6>2. QED
              BY <4>1, <6>1
          <5>3. QED
            BY <5>1, <5>2
        <4> HIDE DEF g
        <4>5. QED
          BY <4>2, <4>3, <4>4 DEF Increasing
      <3>4. QED
        BY <3>3
    <2>3. QED
      BY <2>1, <2>2
  <1>3. T = Nat
    <2> HIDE DEF T
    <2>1. T \in SUBSET Nat
      BY DEF T
    <2>2. QED
      BY <1>1, <1>2, <2>1, Induction
  <1>4. n \in T
    BY <1>3
  <1>5. QED
    BY <1>4

(***************************************************************************)
(* A sequence of sequences, joined one after the other.                    *)
(***************************************************************************)
LEMMA Concatenated ==
    ASSUME NEW X, NEW a \in Seq(X), NEW b \in Seq(X)
    PROVE  /\ a \o b \in Seq(X) /\ Len(a) \in Nat /\ Len(b) \in Nat
           /\ Len(a \o b) = Len(a) + Len(b)
           /\ \A p \in 1 .. Len(a) : (a \o b)[p] = a[p]
           /\ \A p \in 1 .. Len(b) : (a \o b)[Len(a) + p] = b[p]
  <1>1. Len(a) \in Nat /\ Len(b) \in Nat
    OBVIOUS
  <1>2. \A p \in 1 .. Len(a) + Len(b) :
           (a \o b)[p] = IF p <= Len(a) THEN a[p] ELSE b[p - Len(a)]
    OBVIOUS
  <1>3. a \o b \in Seq(X) /\ Len(a \o b) = Len(a) + Len(b)
    OBVIOUS
  <1>4. \A p \in 1 .. Len(a) : p \in 1 .. Len(a) + Len(b) /\ p <= Len(a)
    BY <1>1
  <1>5. \A p \in 1 .. Len(b) : /\ Len(a) + p \in 1 .. Len(a) + Len(b)
                               /\ ~(Len(a) + p <= Len(a)) /\ (Len(a) + p) - Len(a) = p
    BY <1>1
  <1>6. QED
    BY <1>1, <1>2, <1>3, <1>4, <1>5

JoinsTo(fl, s, X, n) ==
    /\ fl \in [0 .. n -> Seq(X)] /\ fl[0] = <<>>
    /\ \A i \in 1 .. n : fl[i] = fl[i - 1] \o s[i]

Joins(fl, s, X) == JoinsTo(fl, s, X, Len(s))

LEMMA JoinableStep ==
    ASSUME NEW X, NEW s \in Seq(Seq(X)), NEW n \in Nat, n + 1 <= Len(s),
           NEW h, JoinsTo(h, s, X, n)
    PROVE  \E g : JoinsTo(g, s, X, n + 1)
  <1> DEFINE last == h[n] \o s[n + 1]
             g == [i \in 0 .. n + 1 |-> IF i = n + 1 THEN last ELSE h[i]]
  <1>1. h[n] \in Seq(X) /\ s[n + 1] \in Seq(X)
    BY DEF JoinsTo
  <1>2. last \in Seq(X)
    BY <1>1, Concatenated
  <1>3. \A i \in 0 .. n + 1 : i # n + 1 => i \in 0 .. n
    OBVIOUS
  <1>4. \A i \in 0 .. n : h[i] \in Seq(X)
    BY DEF JoinsTo
  <1> HIDE DEF last
  <1>5. g \in [0 .. n + 1 -> Seq(X)]
    BY <1>2, <1>3, <1>4
  <1>6. \A i \in 0 .. n : i # n + 1 /\ i \in 0 .. n + 1
    OBVIOUS
  <1>7. \A i \in 0 .. n : g[i] = h[i]
    BY <1>6
  <1>8. g[n + 1] = last
    OBVIOUS
  <1> HIDE DEF g
  <1>9. \A i \in 1 .. n + 1 : g[i] = g[i - 1] \o s[i]
    <2> SUFFICES ASSUME NEW i \in 1 .. n + 1
                 PROVE  g[i] = g[i - 1] \o s[i]
      OBVIOUS
    <2>1. CASE i = n + 1
      <3>1. i - 1 = n /\ n \in 0 .. n
        BY <2>1
      <3>2. g[i - 1] = h[n]
        BY <3>1, <1>7
      <3>3. QED
        BY <2>1, <1>8, <3>2 DEF last
    <2>2. CASE i # n + 1
      <3>1. i \in 0 .. n /\ i - 1 \in 0 .. n /\ i \in 1 .. n
        BY <2>2
      <3>2. h[i] = h[i - 1] \o s[i]
        BY <3>1 DEF JoinsTo
      <3>3. QED
        BY <1>7, <3>1, <3>2
    <2>3. QED
      BY <2>1, <2>2
  <1>10. g[0] = <<>>
    <2>1. 0 \in 0 .. n /\ h[0] = <<>>
      BY DEF JoinsTo
    <2>2. QED
      BY <2>1, <1>7
  <1>11. JoinsTo(g, s, X, n + 1)
    BY <1>5, <1>9, <1>10 DEF JoinsTo
  <1>12. QED
    BY <1>11

LEMMA Joinable ==
    ASSUME NEW X, NEW s \in Seq(Seq(X))
    PROVE  \E fl : Joins(fl, s, X)
  <1> DEFINE T == {n \in Nat : n <= Len(s) => \E g : JoinsTo(g, s, X, n)}
  <1>1. 0 \in T
    <2> DEFINE g == [i \in 0 .. 0 |-> <<>>]
    <2>1. JoinsTo(g, s, X, 0)
      BY DEF JoinsTo
    <2>2. QED
      BY <2>1
  <1>2. ASSUME NEW n \in T
        PROVE  n + 1 \in T
    <2>1. n \in Nat
      OBVIOUS
    <2>2. n + 1 <= Len(s) => n <= Len(s)
      BY <2>1
    <2>3. n + 1 <= Len(s) => \E g : JoinsTo(g, s, X, n + 1)
      BY <2>1, <2>2, JoinableStep
    <2>4. QED
      BY <2>1, <2>3
  <1>3. T \in SUBSET Nat
    OBVIOUS
  <1> HIDE DEF T
  <1>4. T = Nat
    BY <1>1, <1>2, <1>3, Induction
  <1>5. Len(s) \in T
    BY <1>4
  <1>6. QED
    BY <1>5 DEF T, Joins

Extends(c, a, b, X) ==
    /\ c \in Seq(X) /\ a \in Seq(X) /\ b \in Seq(X) /\ c = a \o b
    /\ Len(a) \in Nat /\ Len(b) \in Nat /\ Len(c) = Len(a) + Len(b)
    /\ \A p \in 1 .. Len(a) : c[p] = a[p]
    /\ \A p \in 1 .. Len(b) : c[Len(a) + p] = b[p]

LEMMA JoinedStep ==
    ASSUME NEW X, NEW s \in Seq(Seq(X)), NEW fl, Joins(fl, s, X),
           NEW m \in Nat, m + 1 <= Len(s)
    PROVE  Extends(fl[m + 1], fl[m], s[m + 1], X)
  <1>1. m + 1 \in 1 .. Len(s) /\ m \in 0 .. Len(s) /\ m + 1 \in 0 .. Len(s)
        /\ (m + 1) - 1 = m
    OBVIOUS
  <1>2. fl[m + 1] = fl[m] \o s[m + 1]
    BY <1>1 DEF Joins, JoinsTo
  <1>3. s[m + 1] \in Seq(X)
    BY <1>1
  <1>4. fl[m] \in Seq(X) /\ fl[m + 1] \in Seq(X)
    BY <1>1 DEF Joins, JoinsTo
  <1> DEFINE a == fl[m]
             b == s[m + 1]
  <1>5. a \in Seq(X) /\ b \in Seq(X)
    BY <1>3, <1>4
  <1> HIDE DEF a, b
  <1>6. /\ Len(a) \in Nat /\ Len(b) \in Nat /\ Len(a \o b) = Len(a) + Len(b)
        /\ \A p \in 1 .. Len(a) : (a \o b)[p] = a[p]
        /\ \A p \in 1 .. Len(b) : (a \o b)[Len(a) + p] = b[p]
    BY <1>5, Concatenated
  <1>7. fl[m + 1] = a \o b
    BY <1>2 DEF a, b
  <1>8. /\ Len(fl[m + 1]) = Len(a) + Len(b)
        /\ \A p \in 1 .. Len(a) : fl[m + 1][p] = a[p]
        /\ \A p \in 1 .. Len(b) : fl[m + 1][Len(a) + p] = b[p]
    BY <1>6, <1>7
  <1>9. QED
    BY <1>2, <1>3, <1>4, <1>6, <1>8 DEF a, b, Extends

LEMMA JoinedPrefix ==
    ASSUME NEW X, NEW s \in Seq(Seq(X)), NEW fl, Joins(fl, s, X),
           NEW k \in 0 .. Len(s), NEW i \in 0 .. k
    PROVE  /\ Len(fl[i]) \in Nat /\ Len(fl[k]) \in Nat /\ Len(fl[i]) <= Len(fl[k])
           /\ \A p \in 1 .. Len(fl[i]) : fl[k][p] = fl[i][p]
  <1> DEFINE P(m) == /\ Len(fl[i]) <= Len(fl[m])
                     /\ \A p \in 1 .. Len(fl[i]) : fl[m][p] = fl[i][p]
             T == {n \in Nat : i + n <= Len(s) => P(i + n)}
  <1>1. Len(s) \in Nat /\ i \in Nat /\ k \in Nat /\ i <= k /\ k <= Len(s)
    OBVIOUS
  <1>2. \A m \in 0 .. Len(s) : fl[m] \in Seq(X)
    BY DEF Joins, JoinsTo
  <1>3. i \in 0 .. Len(s) /\ Len(fl[i]) \in Nat /\ Len(fl[k]) \in Nat
    BY <1>1, <1>2
  <1>4. 0 \in T
    <2>1. i + 0 = i
      BY <1>1
    <2>2. P(i)
      BY <1>3
    <2>3. QED
      BY <2>1, <2>2
  <1>5. ASSUME NEW n \in T
        PROVE  n + 1 \in T
    <2>1. n \in Nat
      OBVIOUS
    <2>2. ASSUME i + (n + 1) <= Len(s)
          PROVE  P(i + (n + 1))
      <3> DEFINE m == i + n
      <3>1. m \in Nat /\ m + 1 <= Len(s) /\ i + (n + 1) = m + 1 /\ m <= Len(s)
        BY <1>1, <2>1, <2>2
      <3>2. P(m)
        BY <3>1
      <3> HIDE DEF m
      <3>3. /\ Len(fl[m]) \in Nat /\ Len(s[m + 1]) \in Nat
            /\ Len(fl[m + 1]) = Len(fl[m]) + Len(s[m + 1])
            /\ \A p \in 1 .. Len(fl[m]) : fl[m + 1][p] = fl[m][p]
        <4>1. Extends(fl[m + 1], fl[m], s[m + 1], X)
          BY <3>1, JoinedStep
        <4>2. QED
          BY <4>1 DEF Extends
      <3>4. \A p \in 1 .. Len(fl[i]) : p \in 1 .. Len(fl[m])
        BY <1>3, <3>2, <3>3
      <3>5. \A p \in 1 .. Len(fl[i]) : fl[m + 1][p] = fl[i][p]
        <4> SUFFICES ASSUME NEW p \in 1 .. Len(fl[i])
                     PROVE  fl[m + 1][p] = fl[i][p]
          OBVIOUS
        <4>1. fl[m + 1][p] = fl[m][p]
          BY <3>3, <3>4
        <4>2. fl[m][p] = fl[i][p]
          BY <3>2
        <4>3. QED
          BY <4>1, <4>2
      <3>6. Len(fl[i]) <= Len(fl[m + 1])
        <4> DEFINE a == Len(fl[i])
                   b == Len(fl[m])
                   c == Len(s[m + 1])
                   d == Len(fl[m + 1])
        <4>1. a \in Nat /\ b \in Nat /\ c \in Nat /\ d = b + c /\ a <= b
          BY <1>3, <3>2, <3>3
        <4> HIDE DEF a, b, c, d
        <4>2. a <= d
          BY <4>1
        <4>3. QED
          BY <4>2 DEF a, d
      <3>7. QED
        BY <3>1, <3>5, <3>6
    <2> HIDE DEF P
    <2>3. QED
      BY <2>1, <2>2
  <1>6. T \in SUBSET Nat
    OBVIOUS
  <1> HIDE DEF T
  <1>7. T = Nat
    BY <1>4, <1>5, <1>6, Induction
  <1>8. k - i \in T /\ i + (k - i) = k
    BY <1>1, <1>7
  <1> HIDE DEF P
  <1>9. P(k)
    BY <1>1, <1>8 DEF T
  <1>10. QED
    BY <1>3, <1>9 DEF P

StandsIn(fl, s, i, k) ==
    /\ Len(fl[i - 1]) \in Nat /\ Len(s[i]) \in Nat
    /\ Len(fl[i]) = Len(fl[i - 1]) + Len(s[i])
    /\ Len(fl[i]) <= Len(fl[k])
    /\ \A j \in 1 .. Len(s[i]) : fl[k][Len(fl[i - 1]) + j] = s[i][j]

LEMMA JoinedAt ==
    ASSUME NEW X, NEW s \in Seq(Seq(X)), NEW fl, Joins(fl, s, X),
           NEW i \in 1 .. Len(s), NEW k \in i .. Len(s)
    PROVE  StandsIn(fl, s, i, k)
  <1> DEFINE m == i - 1
  <1>1. m \in Nat /\ m + 1 = i /\ m + 1 <= Len(s)
        /\ i \in 0 .. k /\ k \in 0 .. Len(s)
    OBVIOUS
  <1> HIDE DEF m
  <1>2. /\ Len(fl[m]) \in Nat /\ Len(s[m + 1]) \in Nat
        /\ Len(fl[m + 1]) = Len(fl[m]) + Len(s[m + 1])
        /\ \A p \in 1 .. Len(s[m + 1]) : fl[m + 1][Len(fl[m]) + p] = s[m + 1][p]
    <2>1. Extends(fl[m + 1], fl[m], s[m + 1], X)
      BY <1>1, JoinedStep
    <2>2. QED
      BY <2>1 DEF Extends
  <1>3. /\ Len(fl[i]) <= Len(fl[k])
        /\ \A p \in 1 .. Len(fl[i]) : fl[k][p] = fl[i][p]
    BY <1>1, JoinedPrefix
  <1>4. \A j \in 1 .. Len(s[i]) : Len(fl[m]) + j \in 1 .. Len(fl[i])
    <2>1. Len(fl[i]) = Len(fl[m]) + Len(s[i])
      BY <1>1, <1>2
    <2>2. Len(fl[m]) \in Nat /\ Len(s[i]) \in Nat
      BY <1>1, <1>2
    <2> DEFINE a == Len(fl[i])
               b == Len(fl[m])
               c == Len(s[i])
    <2>3. a = b + c /\ b \in Nat /\ c \in Nat
      BY <2>1, <2>2
    <2> HIDE DEF a, b, c
    <2>4. \A j \in 1 .. c : b + j \in 1 .. a
      BY <2>3
    <2>5. QED
      BY <2>4 DEF a, b, c
  <1>5. \A j \in 1 .. Len(s[i]) : fl[k][Len(fl[m]) + j] = s[i][j]
    <2> SUFFICES ASSUME NEW j \in 1 .. Len(s[i])
                 PROVE  fl[k][Len(fl[m]) + j] = s[i][j]
      OBVIOUS
    <2>1. fl[k][Len(fl[m]) + j] = fl[i][Len(fl[m]) + j]
      BY <1>3, <1>4
    <2>2. fl[i][Len(fl[m]) + j] = s[i][j]
      BY <1>1, <1>2
    <2>3. QED
      BY <2>1, <2>2
  <1>6. QED
    BY <1>1, <1>2, <1>3, <1>5 DEF m, StandsIn

LEMMA Flattened ==
    ASSUME NEW X, NEW s \in Seq(Seq(X)), NEW fl, Joins(fl, s, X)
    PROVE  FlattenSeq(s) = fl[Len(s)]
  <1>1. Len(s) \in Nat
    OBVIOUS
  <1>2. CASE Len(s) = 0
    BY <1>2 DEF FlattenSeq, Joins, JoinsTo
  <1>3. CASE Len(s) # 0
    <2> DEFINE L == Len(s)
               Is(h) == h = [i \in 1 .. L |-> IF i = 1 THEN s[i] ELSE h[i - 1] \o s[i]]
    <2>1. L \in Nat \ {0} /\ 1 \in 1 .. L /\ \A i \in 1 .. L : i - 1 \in 0 .. L
      BY <1>1, <1>3
    <2>2. FlattenSeq(s) = (CHOOSE h : Is(h))[L]
      BY <1>3 DEF FlattenSeq
    <2> DEFINE g == [i \in 1 .. L |-> fl[i]]
    <2>3. Is(g)
      <3>1. ASSUME NEW i \in 1 .. L
            PROVE  g[i] = IF i = 1 THEN s[i] ELSE g[i - 1] \o s[i]
        <4>1. fl[i] = fl[i - 1] \o s[i]
          BY DEF Joins, JoinsTo
        <4>2. CASE i = 1
          <5>1. fl[i - 1] = <<>>
            BY <4>2 DEF Joins, JoinsTo
          <5>2. s[i] \in Seq(X)
            OBVIOUS
          <5>3. fl[i] = s[i]
            BY <4>1, <5>1, <5>2
          <5>4. QED
            BY <4>2, <5>3
        <4>3. CASE i # 1
          <5>1. i - 1 \in 1 .. L
            BY <2>1, <4>3
          <5>2. g[i - 1] = fl[i - 1]
            BY <5>1
          <5>3. QED
            BY <4>1, <4>3, <5>2
        <4>4. QED
          BY <4>2, <4>3
      <3> DEFINE b == [i \in 1 .. L |-> IF i = 1 THEN s[i] ELSE g[i - 1] \o s[i]]
      <3>2. \A i \in 1 .. L : g[i] = b[i]
        BY <3>1
      <3>3. g = b
        <4>1. g = [i \in 1 .. L |-> g[i]] /\ b = [i \in 1 .. L |-> b[i]]
          OBVIOUS
        <4> HIDE DEF g, b
        <4>2. QED
          BY <3>2, <4>1
      <3>4. QED
        BY <3>3
    <2> DEFINE c == CHOOSE h : Is(h)
    <2>4. Is(c)
      <3> HIDE DEF Is, g
      <3>1. \E h : Is(h)
        BY <2>3
      <3>2. QED
        BY <3>1
    <2> HIDE DEF c, g
    <2>5. \A i \in 1 .. L : c[i] = IF i = 1 THEN s[i] ELSE c[i - 1] \o s[i]
      <3> DEFINE b == [i \in 1 .. L |-> IF i = 1 THEN s[i] ELSE c[i - 1] \o s[i]]
      <3>1. c = b
        BY <2>4
      <3>2. \A i \in 1 .. L : b[i] = IF i = 1 THEN s[i] ELSE c[i - 1] \o s[i]
        OBVIOUS
      <3> HIDE DEF b
      <3>3. QED
        BY <3>1, <3>2
    <2> HIDE DEF Is
    <2> DEFINE T == {n \in Nat : n + 1 <= L => c[n + 1] = fl[n + 1]}
    <2>6. \A i \in 1 .. L : fl[i] = fl[i - 1] \o s[i]
      BY DEF Joins, JoinsTo
    <2> HIDE DEF L
    <2>7. 0 \in T
      <3>1. c[1] = s[1]
        BY <2>1, <2>5
      <3>2. fl[1] = <<>> \o s[1]
        <4>1. 1 - 1 = 0 /\ fl[0] = <<>>
          BY DEF Joins, JoinsTo
        <4>2. fl[1] = fl[1 - 1] \o s[1]
          BY <2>1, <2>6
        <4>3. QED
          BY <4>1, <4>2
      <3>3. s[1] \in Seq(X)
        BY <2>1 DEF L
      <3>4. QED
        BY <3>1, <3>2, <3>3
    <2>8. ASSUME NEW n \in T
          PROVE  n + 1 \in T
      <3> SUFFICES ASSUME (n + 1) + 1 <= L
                   PROVE  c[(n + 1) + 1] = fl[(n + 1) + 1]
        OBVIOUS
      <3>1. n \in Nat /\ (n + 1) + 1 \in 1 .. L /\ n + 1 <= L /\ ((n + 1) + 1) - 1 = n + 1
            /\ (n + 1) + 1 # 1
        BY <2>1
      <3>2. c[n + 1] = fl[n + 1]
        BY <3>1
      <3>3. c[(n + 1) + 1] = c[n + 1] \o s[(n + 1) + 1]
        BY <2>5, <3>1
      <3>4. fl[(n + 1) + 1] = fl[n + 1] \o s[(n + 1) + 1]
        BY <2>6, <3>1
      <3>5. QED
        BY <3>2, <3>3, <3>4
    <2>9. T = Nat
      <3> HIDE DEF T
      <3>1. T \in SUBSET Nat
        BY DEF T
      <3>2. QED
        BY <2>7, <2>8, <3>1, Induction
    <2>10. L - 1 \in T /\ (L - 1) + 1 = L
      <3> HIDE DEF T
      <3>1. QED
        BY <2>1, <2>9
    <2>11. c[L] = fl[L]
      BY <2>1, <2>10
    <2>12. QED
      BY <2>2, <2>11 DEF c, L
  <1>4. QED
    BY <1>2, <1>3

(***************************************************************************)
(* FoldLeft: the folds of this module have one of two steps.               *)
(***************************************************************************)
FoldStep(kind, acc, obj) ==
    IF kind = "read" THEN AddRead(acc, obj) ELSE SetObject(acc, obj)

FoldsTo(g, kind, base, objs, n) ==
    g = [t \in SUBSET (1 .. n) |->
            IF t = {} THEN base
            ELSE FoldStep(kind, g[t \ {Max(t)}], objs[Max(t)])]

LEMMA MaxIsLast ==
    ASSUME NEW n \in Nat, NEW t \in SUBSET (1 .. n + 1), n + 1 \in t
    PROVE  Max(t) = n + 1
  <1>1. n + 1 \in t /\ \A y \in t : n + 1 >= y
    OBVIOUS
  <1>2. \A x \in t : (\A y \in t : x >= y) => x = n + 1
    OBVIOUS
  <1>3. QED
    BY <1>1, <1>2 DEF Max

LEMMA FoldExtends ==
    ASSUME NEW kind, NEW base, NEW objs, NEW n \in Nat,
           NEW h, FoldsTo(h, kind, base, objs, n)
    PROVE  \E g : FoldsTo(g, kind, base, objs, n + 1)
  <1> DEFINE Rest(g, t) == IF t = {} THEN base
                           ELSE FoldStep(kind, g[t \ {Max(t)}], objs[Max(t)])
             last(t) == FoldStep(kind, h[t \ {n + 1}], objs[n + 1])
             g == [t \in SUBSET (1 .. n + 1) |-> IF n + 1 \in t THEN last(t) ELSE h[t]]
  <1>1. ASSUME NEW t \in SUBSET (1 .. n)
        PROVE  h[t] = Rest(h, t)
    <2> DEFINE b == [u \in SUBSET (1 .. n) |-> Rest(h, u)]
    <2>1. h = b
      BY DEF FoldsTo
    <2>2. b[t] = Rest(h, t)
      OBVIOUS
    <2> HIDE DEF b, Rest
    <2>3. QED
      BY <2>1, <2>2
  <1>2. \A t \in SUBSET (1 .. n) : t \in SUBSET (1 .. n + 1) /\ n + 1 \notin t
    OBVIOUS
  <1>3. \A t \in SUBSET (1 .. n + 1) : n + 1 \notin t => t \in SUBSET (1 .. n)
    OBVIOUS
  <1>4. \A t \in SUBSET (1 .. n) : g[t] = h[t]
    <2> HIDE DEF last
    <2>1. QED
      BY <1>2
  <1>5. \A t \in SUBSET (1 .. n + 1) : n + 1 \in t => g[t] = last(t)
    <2> HIDE DEF last
    <2>1. QED
      OBVIOUS
  <1>6. g = [t \in SUBSET (1 .. n + 1) |-> g[t]]
    OBVIOUS
  <1> HIDE DEF g
  <1>7. ASSUME NEW t \in SUBSET (1 .. n + 1)
        PROVE  g[t] = Rest(g, t)
    <2>1. CASE n + 1 \in t
      <3>1. Max(t) = n + 1
        BY <2>1, MaxIsLast
      <3>2. t \ {n + 1} \in SUBSET (1 .. n) /\ t # {}
        BY <2>1
      <3>3. g[t \ {n + 1}] = h[t \ {n + 1}]
        BY <1>4, <3>2
      <3>4. g[t] = FoldStep(kind, h[t \ {n + 1}], objs[n + 1])
        BY <1>5, <2>1
      <3>5. QED
        BY <3>1, <3>2, <3>3, <3>4
    <2>2. CASE n + 1 \notin t
      <3>1. t \in SUBSET (1 .. n) /\ t \ {Max(t)} \in SUBSET (1 .. n)
        BY <1>3, <2>2
      <3>2. g[t] = h[t] /\ g[t \ {Max(t)}] = h[t \ {Max(t)}]
        BY <1>4, <3>1
      <3>3. h[t] = Rest(h, t)
        BY <1>1, <3>1
      <3>4. Rest(h, t) = Rest(g, t)
        BY <3>2
      <3>5. QED
        BY <3>2, <3>3, <3>4
    <2>3. QED
      BY <2>1, <2>2
  <1> DEFINE b == [t \in SUBSET (1 .. n + 1) |-> Rest(g, t)]
  <1>8. \A t \in SUBSET (1 .. n + 1) : g[t] = b[t]
    <2> HIDE DEF Rest
    <2>1. QED
      BY <1>7
  <1>9. b = [t \in SUBSET (1 .. n + 1) |-> b[t]]
    <2> HIDE DEF Rest
    <2>1. QED
      OBVIOUS
  <1>10. g = b
    <2> HIDE DEF b
    <2>1. QED
      BY <1>6, <1>8, <1>9
  <1>11. FoldsTo(g, kind, base, objs, n + 1)
    BY <1>10 DEF FoldsTo
  <1>12. QED
    BY <1>11

LEMMA FoldExists ==
    ASSUME NEW kind, NEW base, NEW objs, NEW n \in Nat
    PROVE  \E g : FoldsTo(g, kind, base, objs, n)
  <1> DEFINE T == {m \in Nat : \E g : FoldsTo(g, kind, base, objs, m)}
  <1>1. 0 \in T
    <2> DEFINE g == [t \in SUBSET (1 .. 0) |-> base]
    <2>1. FoldsTo(g, kind, base, objs, 0)
      <3>1. \A t \in SUBSET (1 .. 0) : t = {}
        OBVIOUS
      <3>2. QED
        BY <3>1 DEF FoldsTo
    <2>2. QED
      BY <2>1
  <1>2. ASSUME NEW m \in T PROVE m + 1 \in T
    BY FoldExtends
  <1>3. T \in SUBSET Nat
    OBVIOUS
  <1> HIDE DEF T
  <1>4. T = Nat
    BY <1>1, <1>2, <1>3, Induction
  <1>5. QED
    BY <1>4 DEF T

(* The values a fold goes through. *)
Trace(r, kind, base, objs, n) ==
    /\ r[0] = base
    /\ \A i \in 1 .. n : r[i] = FoldStep(kind, r[i - 1], objs[i])

LEMMA FoldTraced ==
    ASSUME NEW kind, NEW base, NEW objs, NEW n \in Nat,
           NEW g, FoldsTo(g, kind, base, objs, n)
    PROVE  \E r : Trace(r, kind, base, objs, n) /\ r[n] = g[1 .. n]
  <1> DEFINE Rest(t) == IF t = {} THEN base
                        ELSE FoldStep(kind, g[t \ {Max(t)}], objs[Max(t)])
             r == [i \in 0 .. n |-> g[1 .. i]]
  <1>1. ASSUME NEW t \in SUBSET (1 .. n)
        PROVE  g[t] = Rest(t)
    <2> DEFINE b == [u \in SUBSET (1 .. n) |-> Rest(u)]
    <2>1. g = b
      BY DEF FoldsTo
    <2>2. b[t] = Rest(t)
      OBVIOUS
    <2> HIDE DEF b, Rest
    <2>3. QED
      BY <2>1, <2>2
  <1>2. r[0] = base
    <2>1. 0 \in 0 .. n /\ 1 .. 0 = {} /\ 1 .. 0 \in SUBSET (1 .. n)
      OBVIOUS
    <2>2. g[1 .. 0] = base
      BY <1>1, <2>1
    <2>3. QED
      BY <2>1, <2>2
  <1>3. ASSUME NEW i \in 1 .. n
        PROVE  r[i] = FoldStep(kind, r[i - 1], objs[i])
    <2> DEFINE t == 1 .. i
    <2>1. i - 1 \in Nat /\ (i - 1) + 1 = i /\ i \in 0 .. n /\ i - 1 \in 0 .. n
      OBVIOUS
    <2>2. t \in SUBSET (1 .. n) /\ t # {} /\ i \in t
          /\ t \in SUBSET (1 .. (i - 1) + 1)
      BY <2>1
    <2>3. Max(t) = i
      <3> HIDE DEF t
      <3>1. QED
        BY <2>1, <2>2, MaxIsLast
    <2>4. t \ {i} = 1 .. i - 1
      OBVIOUS
    <2>5. g[t] = FoldStep(kind, g[1 .. i - 1], objs[i])
      <3> HIDE DEF t
      <3>1. g[t] = FoldStep(kind, g[t \ {Max(t)}], objs[Max(t)])
        BY <1>1, <2>2
      <3>2. QED
        BY <2>3, <2>4, <3>1
    <2>6. r[i] = g[t] /\ r[i - 1] = g[1 .. i - 1]
      BY <2>1
    <2> HIDE DEF r, t
    <2>7. QED
      BY <2>5, <2>6
  <1>4. r[n] = g[1 .. n]
    OBVIOUS
  <1> HIDE DEF r
  <1>5. QED
    BY <1>2, <1>3, <1>4 DEF Trace

LEMMA AddReadTraced ==
    ASSUME NEW base, NEW objs, NEW n \in Nat, DOMAIN objs = 1 .. n
    PROVE  \E r : /\ Trace(r, "read", base, objs, n)
                  /\ FoldLeft(AddRead, base, objs) = r[n]
  <1> DEFINE Is(h) == h = [t \in SUBSET (1 .. n) |->
                  IF t = {} THEN base ELSE AddRead(h[t \ {Max(t)}], objs[Max(t)])]
             g == CHOOSE h : Is(h)
  <1>1. FoldLeft(AddRead, base, objs) = g[1 .. n]
    BY DEF FoldLeft, MapThenFoldSet
  <1>2. \A h : Is(h) <=> FoldsTo(h, "read", base, objs, n)
    BY DEF FoldsTo, FoldStep
  <1> HIDE DEF Is
  <1>3. \E h : Is(h)
    BY <1>2, FoldExists
  <1>4. Is(g)
    BY <1>3
  <1> HIDE DEF g
  <1>5. FoldsTo(g, "read", base, objs, n)
    BY <1>2, <1>4
  <1>6. \E r : Trace(r, "read", base, objs, n) /\ r[n] = g[1 .. n]
    BY <1>5, FoldTraced
  <1>7. QED
    BY <1>1, <1>6

LEMMA SetObjectTraced ==
    ASSUME NEW base, NEW objs, NEW n \in Nat, DOMAIN objs = 1 .. n
    PROVE  \E r : /\ Trace(r, "set", base, objs, n)
                  /\ FoldLeft(SetObject, base, objs) = r[n]
  <1> DEFINE Is(h) == h = [t \in SUBSET (1 .. n) |->
                  IF t = {} THEN base ELSE SetObject(h[t \ {Max(t)}], objs[Max(t)])]
             g == CHOOSE h : Is(h)
  <1>1. FoldLeft(SetObject, base, objs) = g[1 .. n]
    BY DEF FoldLeft, MapThenFoldSet
  <1>2. \A h : Is(h) <=> FoldsTo(h, "set", base, objs, n)
    BY DEF FoldsTo, FoldStep
  <1> HIDE DEF Is
  <1>3. \E h : Is(h)
    BY <1>2, FoldExists
  <1>4. Is(g)
    BY <1>3
  <1> HIDE DEF g
  <1>5. FoldsTo(g, "set", base, objs, n)
    BY <1>2, <1>4
  <1>6. \E r : Trace(r, "set", base, objs, n) /\ r[n] = g[1 .. n]
    BY <1>5, FoldTraced
  <1>7. QED
    BY <1>1, <1>6

(***************************************************************************)
(* FoldFunction: a sum over a finite set, whatever the order it takes.     *)
(***************************************************************************)
SumTerm(g, f, s) ==
    IF s = {} THEN 0 ELSE g[s \ {CHOOSE x \in s : TRUE}] + f[CHOOSE x \in s : TRUE]

UpTo(S, k) == {s \in SUBSET S : Cardinality(s) <= k}

SumsTo(g, f, D) == g = [s \in D |-> SumTerm(g, f, s)]

LEMMA SomeElement ==
    ASSUME NEW S, IsFiniteSet(S), NEW s \in SUBSET S, s # {}
    PROVE  /\ (CHOOSE x \in s : TRUE) \in s
           /\ \A x \in s : /\ s \ {x} \in SUBSET S
                           /\ Cardinality(s) \in Nat /\ Cardinality(s \ {x}) \in Nat
                           /\ Cardinality(s \ {x}) = Cardinality(s) - 1
                           /\ Cardinality(s) > 0
  <1>1. (CHOOSE x \in s : TRUE) \in s
    OBVIOUS
  <1>2. IsFiniteSet(s)
    BY FS_Subset
  <1>3. Cardinality(s) \in Nat
    BY <1>2, FS_CardinalityType
  <1>4. Cardinality(s) # 0
    BY <1>2, FS_EmptySet
  <1>5. ASSUME NEW x \in s
        PROVE  Cardinality(s \ {x}) = Cardinality(s) - 1
    BY <1>2, FS_RemoveElement
  <1>6. QED
    BY <1>1, <1>3, <1>4, <1>5

LEMMA SumValue ==
    ASSUME NEW g, NEW f, NEW D, SumsTo(g, f, D), NEW s \in D
    PROVE  g[s] = SumTerm(g, f, s)
  <1> DEFINE b == [u \in D |-> SumTerm(g, f, u)]
  <1>1. g = b
    BY DEF SumsTo
  <1>2. b[s] = SumTerm(g, f, s)
    OBVIOUS
  <1> HIDE DEF b
  <1>3. QED
    BY <1>1, <1>2

LEMMA SumExtends ==
    ASSUME NEW S, IsFiniteSet(S), NEW f, NEW k \in Nat,
           NEW h, SumsTo(h, f, UpTo(S, k))
    PROVE  \E g : SumsTo(g, f, UpTo(S, k + 1))
  <1> DEFINE g == [s \in UpTo(S, k + 1) |-> SumTerm(h, f, s)]
  <1>1. ASSUME NEW s \in UpTo(S, k + 1)
        PROVE  SumTerm(g, f, s) = SumTerm(h, f, s)
    <2>1. CASE s = {}
      BY <2>1 DEF SumTerm
    <2>2. CASE s # {}
      <3> DEFINE x == CHOOSE e \in s : TRUE
      <3>1. s \in SUBSET S /\ Cardinality(s) <= k + 1
        BY DEF UpTo
      <3>2. /\ s \ {x} \in SUBSET S /\ Cardinality(s) \in Nat
            /\ Cardinality(s \ {x}) \in Nat
            /\ Cardinality(s \ {x}) = Cardinality(s) - 1
        BY <2>2, <3>1, SomeElement
      <3> DEFINE u == s \ {x}
      <3>3. u \in UpTo(S, k) /\ u \in UpTo(S, k + 1)
        <4>1. Cardinality(u) <= k /\ Cardinality(u) <= k + 1 /\ u \in SUBSET S
          BY <3>1, <3>2
        <4> HIDE DEF u
        <4>2. QED
          BY <4>1 DEF UpTo
      <3> HIDE DEF u
      <3>4. g[u] = SumTerm(h, f, u)
        BY <3>3
      <3>5. h[u] = SumTerm(h, f, u)
        BY <3>3, SumValue
      <3>6. g[u] = h[u]
        BY <3>4, <3>5
      <3> HIDE DEF g, x
      <3>7. SumTerm(g, f, s) = g[u] + f[x] /\ SumTerm(h, f, s) = h[u] + f[x]
        BY <2>2 DEF SumTerm, u, x
      <3>8. QED
        BY <3>6, <3>7
    <2>3. QED
      BY <2>1, <2>2
  <1>2. g = [s \in UpTo(S, k + 1) |-> SumTerm(g, f, s)]
    <2> DEFINE b == [s \in UpTo(S, k + 1) |-> SumTerm(g, f, s)]
    <2>1. \A s \in UpTo(S, k + 1) : g[s] = SumTerm(h, f, s) /\ b[s] = SumTerm(g, f, s)
      OBVIOUS
    <2>2. g = [s \in UpTo(S, k + 1) |-> g[s]] /\ b = [s \in UpTo(S, k + 1) |-> b[s]]
      OBVIOUS
    <2> HIDE DEF g, b
    <2>3. \A s \in UpTo(S, k + 1) : g[s] = b[s]
      BY <1>1, <2>1
    <2>4. g = b
      BY <2>2, <2>3
    <2>5. QED
      BY <2>4 DEF b
  <1>3. SumsTo(g, f, UpTo(S, k + 1))
    BY <1>2 DEF SumsTo
  <1>4. QED
    BY <1>3

LEMMA SumExists ==
    ASSUME NEW S, IsFiniteSet(S), NEW f
    PROVE  \E g : SumsTo(g, f, SUBSET S)
  <1> DEFINE T == {k \in Nat : \E g : SumsTo(g, f, UpTo(S, k))}
  <1>1. 0 \in T
    <2> DEFINE g == [s \in UpTo(S, 0) |-> 0]
    <2>1. ASSUME NEW s \in UpTo(S, 0) PROVE s = {}
      <3>1. IsFiniteSet(s) /\ Cardinality(s) <= 0
        BY FS_Subset DEF UpTo
      <3>2. Cardinality(s) = 0
        BY <3>1, FS_CardinalityType
      <3>3. QED
        BY <3>1, <3>2, FS_EmptySet
    <2>2. SumsTo(g, f, UpTo(S, 0))
      BY <2>1 DEF SumsTo, SumTerm
    <2>3. QED
      BY <2>2
  <1>2. ASSUME NEW k \in T PROVE k + 1 \in T
    BY SumExtends
  <1>3. T \in SUBSET Nat
    OBVIOUS
  <1> HIDE DEF T
  <1>4. T = Nat
    BY <1>1, <1>2, <1>3, Induction
  <1>5. Cardinality(S) \in T
    BY <1>4, FS_CardinalityType
  <1>6. UpTo(S, Cardinality(S)) = SUBSET S
    BY FS_Subset DEF UpTo
  <1>7. QED
    BY <1>5, <1>6 DEF T

(* Any element can be taken out first. *)
AnyFirst(g, f, S) ==
    /\ \A s \in SUBSET S : g[s] \in Nat
    /\ \A s \in SUBSET S : \A y \in s : g[s] = g[s \ {y}] + f[y]

LEMMA SumRemoves ==
    ASSUME NEW S, IsFiniteSet(S), NEW f \in [S -> Nat],
           NEW g, SumsTo(g, f, SUBSET S)
    PROVE  AnyFirst(g, f, S)
  <1> DEFINE P(k) == \A s \in UpTo(S, k) :
                        /\ g[s] \in Nat
                        /\ \A y \in s : g[s] = g[s \ {y}] + f[y]
             T == {k \in Nat : P(k)}
  <1>1. 0 \in T
    <2> SUFFICES ASSUME NEW s \in UpTo(S, 0)
                 PROVE  g[s] \in Nat /\ \A y \in s : g[s] = g[s \ {y}] + f[y]
      OBVIOUS
    <2>1. IsFiniteSet(s) /\ Cardinality(s) <= 0 /\ s \in SUBSET S
      BY FS_Subset DEF UpTo
    <2>2. Cardinality(s) = 0
      BY <2>1, FS_CardinalityType
    <2>3. s = {}
      BY <2>1, <2>2, FS_EmptySet
    <2>4. g[s] = 0
      BY <2>1, <2>3, SumValue DEF SumTerm
    <2>5. QED
      BY <2>3, <2>4
  <1>2. ASSUME NEW k \in T PROVE k + 1 \in T
    <2> HIDE DEF T
    <2>1. k \in Nat /\ P(k)
      BY DEF T
    <2>2. ASSUME NEW s \in UpTo(S, k + 1)
          PROVE  g[s] \in Nat /\ \A y \in s : g[s] = g[s \ {y}] + f[y]
      <3>1. s \in SUBSET S /\ Cardinality(s) <= k + 1
        BY DEF UpTo
      <3>2. CASE s = {}
        <4>1. g[s] = 0
          BY <3>1, <3>2, SumValue DEF SumTerm
        <4>2. QED
          BY <3>2, <4>1
      <3>3. CASE s # {}
        <4> DEFINE x == CHOOSE e \in s : TRUE
        <4>1. x \in s
          BY <3>3
        <4>2. g[s] = g[s \ {x}] + f[x]
          BY <3>1, <3>3, SumValue DEF SumTerm
        <4> HIDE DEF x
        <4>3. \A y \in s : s \ {y} \in UpTo(S, k)
          <5> SUFFICES ASSUME NEW y \in s PROVE s \ {y} \in UpTo(S, k)
            OBVIOUS
          <5>1. /\ s \ {y} \in SUBSET S /\ Cardinality(s) \in Nat
                /\ Cardinality(s \ {y}) \in Nat
                /\ Cardinality(s \ {y}) = Cardinality(s) - 1
            BY <3>1, <3>3, SomeElement
          <5>2. Cardinality(s \ {y}) <= k
            BY <2>1, <3>1, <5>1
          <5>3. QED
            BY <5>1, <5>2 DEF UpTo
        <4>4. \A y \in s : f[y] \in Nat /\ g[s \ {y}] \in Nat
          <5>1. \A y \in s : g[s \ {y}] \in Nat
            BY <2>1, <4>3
          <5>2. \A y \in s : y \in S
            BY <3>1
          <5>3. QED
            BY <5>1, <5>2
        <4>5. g[s] \in Nat
          BY <4>1, <4>2, <4>4
        <4>6. ASSUME NEW y \in s, y # x
              PROVE  g[s] = g[s \ {y}] + f[y]
          <5> DEFINE u == s \ {x}
                     v == s \ {y}
                     z == (s \ {x}) \ {y}
          <5>1. z = v \ {x} /\ y \in u /\ x \in v /\ z = u \ {y}
            BY <4>1, <4>6
          <5>2. u \in UpTo(S, k) /\ v \in UpTo(S, k)
            BY <4>1, <4>3
          <5> HIDE DEF u, v, z
          <5>3. g[u] = g[z] + f[y]
            <6>1. g[u] = g[u \ {y}] + f[y]
              BY <2>1, <5>1, <5>2
            <6>2. QED
              BY <5>1, <6>1
          <5>4. g[v] = g[z] + f[x]
            <6>1. g[v] = g[v \ {x}] + f[x]
              BY <2>1, <5>1, <5>2
            <6>2. QED
              BY <5>1, <6>1
          <5>5. \A w \in UpTo(S, k) : w \ {y} \in SUBSET S
            BY DEF UpTo
          <5>6. u # {} /\ u \in SUBSET S
            BY <5>1, <5>2 DEF UpTo
          <5>7. z \in UpTo(S, k)
            <6>1. /\ u \ {y} \in SUBSET S /\ Cardinality(u) \in Nat
                  /\ Cardinality(u \ {y}) \in Nat
                  /\ Cardinality(u \ {y}) = Cardinality(u) - 1
              BY <5>1, <5>6, SomeElement
            <6>2. Cardinality(u) <= k
              BY <5>2 DEF UpTo
            <6>3. Cardinality(u \ {y}) <= k
              BY <2>1, <6>1, <6>2
            <6>4. u \ {y} \in UpTo(S, k)
              BY <6>1, <6>3 DEF UpTo
            <6>5. QED
              BY <5>1, <6>4
          <5>8. g[z] \in Nat
            BY <2>1, <5>7
          <5>9. g[s] = g[u] + f[x]
            BY <4>2 DEF u
          <5>10. f[x] \in Nat /\ f[y] \in Nat
            BY <4>1, <4>4
          <5>11. g[s] = g[v] + f[y]
            BY <5>3, <5>4, <5>8, <5>9, <5>10
          <5>12. QED
            BY <5>11 DEF v
        <4>7. QED
          BY <4>2, <4>5, <4>6
      <3>4. QED
        BY <3>2, <3>3
    <2>3. P(k + 1)
      BY <2>2
    <2> HIDE DEF P
    <2>4. QED
      BY <2>1, <2>3 DEF T
  <1>3. T \in SUBSET Nat
    OBVIOUS
  <1> HIDE DEF T
  <1>4. T = Nat
    BY <1>1, <1>2, <1>3, Induction
  <1>5. P(Cardinality(S))
    <2> HIDE DEF P
    <2>1. Cardinality(S) \in Nat
      BY FS_CardinalityType
    <2>2. QED
      BY <1>4, <2>1 DEF T
  <1>6. UpTo(S, Cardinality(S)) = SUBSET S
    BY FS_Subset DEF UpTo
  <1>7. QED
    BY <1>5, <1>6 DEF AnyFirst

(* ks names every element of S once, and t adds up f in that order. *)
Names(ks, n, S) ==
    /\ ks \in [1 .. n -> S]
    /\ \A i, j \in 1 .. n : i # j => ks[i] # ks[j]
    /\ \A x \in S : \E i \in 1 .. n : ks[i] = x

AddsUp(t, f, ks, n) ==
    t[0] = 0 /\ \A i \in 1 .. n : t[i] = t[i - 1] + f[ks[i]]

(* The sum taken in the order of an enumeration of the set. *)
LEMMA SumAlong ==
    ASSUME NEW S, IsFiniteSet(S), NEW f \in [S -> Nat],
           NEW g, SumsTo(g, f, SUBSET S),
           NEW n \in Nat, NEW ks, Names(ks, n, S),
           NEW t, AddsUp(t, f, ks, n)
    PROVE  g[S] = t[n]
  <1> USE DEF Names, AddsUp
  <1> DEFINE first(i) == {ks[j] : j \in 1 .. i}
             T == {i \in Nat : i <= n => g[first(i)] = t[i]}
  <1>0. \A u \in SUBSET S : \A x \in u : g[u] = g[u \ {x}] + f[x]
    <2>1. AnyFirst(g, f, S)
      BY SumRemoves
    <2>2. QED
      BY <2>1 DEF AnyFirst
  <1>1. 0 \in T
    <2>1. first(0) = {} /\ {} \in SUBSET S
      OBVIOUS
    <2>2. g[{}] = 0
      BY <2>1, SumValue DEF SumTerm
    <2>3. QED
      BY <2>1, <2>2
  <1>2. ASSUME NEW i \in T
        PROVE  i + 1 \in T
    <2> HIDE DEF T
    <2>1. i \in Nat /\ (i <= n => g[first(i)] = t[i])
      BY DEF T
    <2>2. ASSUME i + 1 <= n
          PROVE  g[first(i + 1)] = t[i + 1]
      <3>1. i + 1 \in 1 .. n /\ i <= n /\ (i + 1) - 1 = i
        BY <2>1, <2>2
      <3>2. t[i + 1] = t[i] + f[ks[i + 1]]
        BY <3>1
      <3> DEFINE s == first(i + 1)
                 y == ks[i + 1]
      <3>3. \A j \in 1 .. i + 1 : j \in 1 .. n /\ (j # i + 1 => j \in 1 .. i)
        BY <2>1, <2>2
      <3>4. \A j \in 1 .. i : j \in 1 .. i + 1 /\ j # i + 1
        BY <2>1
      <3>5. s \in SUBSET S /\ y \in s
        <4>1. \A j \in 1 .. i + 1 : ks[j] \in S
          BY <3>3
        <4>2. i + 1 \in 1 .. i + 1
          BY <2>1
        <4>3. QED
          BY <4>1, <4>2
      <3>6. s \ {y} = first(i)
        <4>1. \A j \in 1 .. i : ks[j] # ks[i + 1]
          BY <3>1, <3>3, <3>4
        <4>2. QED
          BY <3>3, <3>4, <4>1
      <3> HIDE DEF s, y, first
      <3>7. g[s] = g[s \ {y}] + f[y]
        BY <3>5, <1>0
      <3>8. QED
        BY <2>1, <3>1, <3>2, <3>6, <3>7 DEF s, y
    <2>3. QED
      BY <2>1, <2>2 DEF T
  <1>3. T \in SUBSET Nat
    OBVIOUS
  <1>4. first(n) = S
    OBVIOUS
  <1> HIDE DEF T, first
  <1>5. T = Nat
    BY <1>1, <1>2, <1>3, Induction
  <1>6. g[first(n)] = t[n]
    <2>1. n \in T /\ n <= n
      BY <1>5
    <2>2. QED
      BY <2>1 DEF T
  <1>7. QED
    BY <1>4, <1>6

(***************************************************************************)
(* get_serialized_size(), summed along any order of the objects.           *)
(***************************************************************************)
WordsOf(store) == [k \in DOMAIN store |-> Len(ObjectWords(store[k].obj))]

LEMMA SizeIsSum ==
    ASSUME NEW m, IsFiniteSet(DOMAIN m.store)
    PROVE  \E g : /\ SumsTo(g, WordsOf(m.store), SUBSET (DOMAIN m.store))
                  /\ SerializedSize(m) = 1 + g[DOMAIN m.store]
  <1> DEFINE store == m.store
             D == DOMAIN store
             f == WordsOf(store)
             Is(h) == h = [s \in SUBSET D |->
                          IF s = {} THEN 0
                          ELSE h[s \ {CHOOSE x \in s : TRUE}]
                               + Len(ObjectWords(store[CHOOSE x \in s : TRUE].obj))]
             g == CHOOSE h : Is(h)
  <1>1. SerializedSize(m) = 1 + g[D]
    BY DEF SerializedSize, FoldFunction, FoldFunctionOnSet, MapThenFoldSet
  <1>2. ASSUME NEW h
        PROVE  Is(h) <=> SumsTo(h, f, SUBSET D)
    <2>1. \A s \in SUBSET D :
             s # {} => f[CHOOSE x \in s : TRUE]
                         = Len(ObjectWords(store[CHOOSE x \in s : TRUE].obj))
      <3> SUFFICES ASSUME NEW s \in SUBSET D, s # {}
                   PROVE  f[CHOOSE x \in s : TRUE]
                            = Len(ObjectWords(store[CHOOSE x \in s : TRUE].obj))
        OBVIOUS
      <3>1. PICK y : y = CHOOSE x \in s : TRUE
        OBVIOUS
      <3>2. y \in D
        BY <3>1
      <3> HIDE DEF store
      <3>3. f[y] = Len(ObjectWords(store[y].obj))
        BY <3>2 DEF WordsOf
      <3>4. QED
        BY <3>1, <3>3
    <2> HIDE DEF f, store, D
    <2>2. \A s \in SUBSET D :
             SumTerm(h, f, s) =
               IF s = {} THEN 0
               ELSE h[s \ {CHOOSE x \in s : TRUE}]
                    + Len(ObjectWords(store[CHOOSE x \in s : TRUE].obj))
      BY <2>1 DEF SumTerm
    <2>3. QED
      BY <2>2 DEF SumsTo
  <1> HIDE DEF Is
  <1>3. \E h : Is(h)
    BY <1>2, SumExists
  <1>4. Is(g)
    BY <1>3
  <1> HIDE DEF g
  <1>5. SumsTo(g, f, SUBSET D)
    BY <1>2, <1>4
  <1>6. QED
    BY <1>1, <1>5

(***************************************************************************)
(* The store that set_object() builds from a sequence of objects.          *)
(***************************************************************************)
ReportsUpTo(objs, i) == {j \in 1 .. i : objs[j].type = IpfixMessage}

Count(objs, i) == Cardinality(ReportsUpTo(objs, i))

SeqAt(objs, i) == IF Unique(objs[i].type) THEN 1 ELSE Count(objs, i)

KeyAt(objs, i) == Key(objs[i].type, SeqAt(objs, i))

EntryAt(objs, i) ==
    [type |-> objs[i].type, seq |-> SeqAt(objs, i), obj |-> objs[i]]

Known(objs, n) == \A i \in 1 .. n : objs[i].type \in ObjectTypes

NoDoubles(objs, n) ==
    \A i, j \in 1 .. n :
        i # j /\ objs[i].type = objs[j].type => objs[i].type = IpfixMessage

Holds(store, objs, n) ==
    /\ StoreOK(store, Count(objs, n))
    /\ DOMAIN store = {KeyAt(objs, i) : i \in 1 .. n}
    /\ \A i \in 1 .. n : store[KeyAt(objs, i)] = EntryAt(objs, i)

LEMMA Counting ==
    ASSUME NEW objs, NEW i \in Nat
    PROVE  /\ IsFiniteSet(ReportsUpTo(objs, i)) /\ Count(objs, i) \in Nat
           /\ Count(objs, 0) = 0
           /\ Count(objs, i + 1) = Count(objs, i)
                 + (IF objs[i + 1].type = IpfixMessage THEN 1 ELSE 0)
  <1>1. IsFiniteSet(1 .. i)
    BY FS_Interval
  <1>2. IsFiniteSet(ReportsUpTo(objs, i)) /\ Count(objs, i) \in Nat
    BY <1>1, FS_Subset, FS_CardinalityType DEF ReportsUpTo, Count
  <1>3. Count(objs, 0) = 0
    <2>1. ReportsUpTo(objs, 0) = {}
      BY DEF ReportsUpTo
    <2>2. QED
      BY <2>1, FS_EmptySet DEF Count
  <1>4. ASSUME objs[i + 1].type = IpfixMessage
        PROVE  Count(objs, i + 1) = Count(objs, i) + 1
    <2>1. ReportsUpTo(objs, i + 1) = ReportsUpTo(objs, i) \cup {i + 1}
      BY <1>4 DEF ReportsUpTo
    <2>2. i + 1 \notin ReportsUpTo(objs, i)
      BY DEF ReportsUpTo
    <2>3. QED
      BY <1>2, <2>1, <2>2, FS_AddElement DEF Count
  <1>5. ASSUME objs[i + 1].type # IpfixMessage
        PROVE  Count(objs, i + 1) = Count(objs, i)
    <2>1. ReportsUpTo(objs, i + 1) = ReportsUpTo(objs, i)
      BY <1>5 DEF ReportsUpTo
    <2>2. QED
      BY <2>1 DEF Count
  <1>6. QED
    BY <1>2, <1>3, <1>4, <1>5

LEMMA CountGrows ==
    ASSUME NEW objs, NEW i \in Nat, NEW j \in Nat, i < j,
           objs[j].type = IpfixMessage
    PROVE  Count(objs, i) < Count(objs, j)
  <1> DEFINE R == ReportsUpTo(objs, i)
             Q == ReportsUpTo(objs, j)
  <1>1. IsFiniteSet(R) /\ IsFiniteSet(Q) /\ Cardinality(R) \in Nat /\ Cardinality(Q) \in Nat
    BY Counting DEF Count
  <1>2. R \cup {j} \in SUBSET Q /\ j \notin R
    BY DEF ReportsUpTo
  <1> HIDE DEF R, Q
  <1>3. Cardinality(R \cup {j}) = Cardinality(R) + 1
    BY <1>1, <1>2, FS_AddElement
  <1>4. Cardinality(R \cup {j}) <= Cardinality(Q)
    BY <1>1, <1>2, FS_Subset
  <1>5. QED
    BY <1>1, <1>3, <1>4 DEF Count, R, Q

LEMMA SequencesAt ==
    ASSUME NEW objs, NEW n \in Nat, Known(objs, n), NEW i \in 1 .. n
    PROVE  /\ objs[i].type \in ObjectTypes
           /\ SeqAt(objs, i) \in Nat /\ SequenceOf(objs[i].type, SeqAt(objs, i))
  <1>1. objs[i].type \in ObjectTypes
    BY DEF Known
  <1>2. CASE Unique(objs[i].type)
    BY <1>1, <1>2 DEF SeqAt, SequenceOf
  <1>3. CASE ~Unique(objs[i].type)
    <2>1. objs[i].type = IpfixMessage
      BY <1>3 DEF Unique
    <2>2. Count(objs, 0) < Count(objs, i)
      BY <2>1, CountGrows
    <2>3. Count(objs, 0) = 0 /\ Count(objs, i) \in Nat
      BY Counting
    <2>4. SeqAt(objs, i) = Count(objs, i)
      BY <1>3 DEF SeqAt
    <2>5. SeqAt(objs, i) \in Nat \ {0}
      BY <2>2, <2>3, <2>4
    <2>6. QED
      BY <1>1, <1>3, <2>5 DEF SequenceOf
  <1>4. QED
    BY <1>2, <1>3

LEMMA KeysApart ==
    ASSUME NEW objs, NEW n \in Nat, Known(objs, n), NoDoubles(objs, n),
           NEW i \in 1 .. n, NEW j \in 1 .. n, i # j
    PROVE  KeyAt(objs, i) # KeyAt(objs, j)
  <1> SUFFICES ASSUME KeyAt(objs, i) = KeyAt(objs, j)
               PROVE  FALSE
    OBVIOUS
  <1>1. /\ objs[i].type \in ObjectTypes
        /\ SeqAt(objs, i) \in Nat /\ SequenceOf(objs[i].type, SeqAt(objs, i))
    BY SequencesAt
  <1>2. /\ objs[j].type \in ObjectTypes
        /\ SeqAt(objs, j) \in Nat /\ SequenceOf(objs[j].type, SeqAt(objs, j))
    BY SequencesAt
  <1>3. objs[i].type = objs[j].type /\ SeqAt(objs, i) = SeqAt(objs, j)
    BY <1>1, <1>2, KeysDistinct DEF KeyAt
  <1>4. objs[i].type = IpfixMessage /\ objs[j].type = IpfixMessage
    BY <1>3 DEF NoDoubles
  <1>5. Count(objs, i) = Count(objs, j)
    BY <1>3, <1>4 DEF SeqAt, Unique
  <1>6. Count(objs, i) \in Nat /\ Count(objs, j) \in Nat
    BY Counting
  <1>7. i < j => Count(objs, i) < Count(objs, j)
    BY <1>4, CountGrows
  <1>8. j < i => Count(objs, j) < Count(objs, i)
    BY <1>4, CountGrows
  <1>9. i < j \/ j < i
    OBVIOUS
  <1>10. QED
    BY <1>5, <1>6, <1>7, <1>8, <1>9

LEMMA HoldsUnique ==
    ASSUME NEW objs, NEW n \in Nat, NEW s, NEW t,
           Holds(s, objs, n), Holds(t, objs, n)
    PROVE  s = t
  <1>1. DOMAIN s = DOMAIN t
    BY DEF Holds
  <1>2. \A k \in DOMAIN s : s[k] = t[k]
    BY DEF Holds
  <1>3. s = [k \in DOMAIN s |-> s[k]] /\ t = [k \in DOMAIN t |-> t[k]]
    BY DEF Holds, StoreOK
  <1>4. QED
    BY <1>1, <1>2, <1>3

(* One object more. *)
LEMMA StoreStep ==
    ASSUME NEW objs, NEW i \in Nat, NEW store, Holds(store, objs, i),
           Known(objs, i + 1), NoDoubles(objs, i + 1)
    PROVE  /\ Holds(SetObject(store, objs[i + 1]), objs, i + 1)
           /\ ~(Unique(objs[i + 1].type) /\ Has(store, objs[i + 1].type, 1))
  <1> DEFINE obj == objs[i + 1]
             c == Count(objs, i)
             seq == ChosenSequence(obj, c)
             k == Key(obj.type, seq)
             after == SetObject(store, obj)
  <1>1. c \in Nat /\ StoreOK(store, c) /\ i + 1 \in 1 .. i + 1
    BY Counting DEF Holds
  <1>2. obj.type \in ObjectTypes
    BY <1>1 DEF Known
  <1>3. Count(objs, i + 1) = IF Unique(obj.type) THEN c ELSE c + 1
    BY <1>1, Counting DEF Unique
  <1>4. seq = SeqAt(objs, i + 1)
    BY <1>3 DEF SeqAt, ChosenSequence
  <1>5. StoreOK(after, Count(objs, i + 1))
    <2> HIDE DEF c, obj
    <2>1. StoreOK(after, IF Unique(obj.type) THEN c ELSE c + 1)
      BY <1>1, <1>2, SetObjectSound
    <2>2. QED
      BY <1>3, <2>1
  <1>6. /\ after = Put(store, obj.type, seq, obj)
        /\ seq \in Nat /\ SequenceOf(obj.type, seq)
    <2> HIDE DEF c, obj
    <2>1. QED
      BY <1>1, <1>2, SetObjectIs
  <1>7. /\ DOMAIN after = DOMAIN store \cup {k}
        /\ after[k] = [type |-> obj.type, seq |-> seq, obj |-> obj]
        /\ \A j \in DOMAIN store \ {k} : after[j] = store[j]
    <2> DEFINE put == Put(store, obj.type, seq, obj)
    <2>1. /\ put = [j \in DOMAIN put |-> put[j]]
          /\ DOMAIN put = DOMAIN store \cup {k}
          /\ put[k] = [type |-> obj.type, seq |-> seq, obj |-> obj]
          /\ \A j \in DOMAIN store \ {k} : put[j] = store[j]
      <3> HIDE DEF c, obj, seq
      <3>1. QED
        BY <1>1, <1>2, <1>6, PutIs
    <2>2. after = put
      BY <1>6
    <2> HIDE DEF put, after, k
    <2>3. QED
      BY <2>1, <2>2
  <1>8. k = KeyAt(objs, i + 1) /\ after[k] = EntryAt(objs, i + 1)
    BY <1>4, <1>7 DEF KeyAt, EntryAt
  <1>9. \A j \in 1 .. i : j \in 1 .. i + 1 /\ j # i + 1
    OBVIOUS
  <1>10. \A j \in 1 .. i : KeyAt(objs, j) # k
    <2> HIDE DEF k
    <2>1. i + 1 \in Nat
      OBVIOUS
    <2>2. QED
      BY <1>1, <1>8, <1>9, <2>1, KeysApart
  <1> HIDE DEF k, after, seq, c
  <1>11. \A j \in 1 .. i : KeyAt(objs, j) \in DOMAIN store
                           /\ store[KeyAt(objs, j)] = EntryAt(objs, j)
    BY DEF Holds
  <1>12. \A j \in 1 .. i + 1 : j = i + 1 \/ j \in 1 .. i
    OBVIOUS
  <1>13. DOMAIN after = {KeyAt(objs, j) : j \in 1 .. i + 1}
    <2>1. DOMAIN store = {KeyAt(objs, j) : j \in 1 .. i}
      BY DEF Holds
    <2>2. QED
      BY <1>1, <1>7, <1>8, <1>9, <1>12, <2>1
  <1>14. \A j \in 1 .. i + 1 : after[KeyAt(objs, j)] = EntryAt(objs, j)
    BY <1>7, <1>8, <1>10, <1>11, <1>12
  <1>15. Holds(after, objs, i + 1)
    BY <1>5, <1>13, <1>14 DEF Holds
  <1>16. ~(Unique(obj.type) /\ Has(store, obj.type, 1))
    <2> SUFFICES ASSUME Unique(obj.type) PROVE k \notin DOMAIN store
      BY DEF Has, k, seq, ChosenSequence
    <2>1. QED
      BY <1>10 DEF Holds
  <1>17. QED
    BY <1>15, <1>16 DEF after

LEMMA EmptyHolds ==
    ASSUME NEW objs
    PROVE  Holds(EmptyStore, objs, 0)
  <1>1. Count(objs, 0) = 0
    BY Counting
  <1>2. DOMAIN EmptyStore = {}
    BY DEF EmptyStore
  <1>3. QED
    BY <1>1, <1>2, EmptyStoreOK DEF Holds

LEMMA Shorter ==
    ASSUME NEW objs, NEW n \in Nat, Known(objs, n), NoDoubles(objs, n),
           NEW i \in Nat, i <= n
    PROVE  Known(objs, i) /\ NoDoubles(objs, i)
  BY DEF Known, NoDoubles

(* set_object() for each of the objects. *)
LEMMA SetAll ==
    ASSUME NEW objs, NEW n \in Nat, DOMAIN objs = 1 .. n,
           Known(objs, n), NoDoubles(objs, n)
    PROVE  Holds(FoldLeft(SetObject, EmptyStore, objs), objs, n)
  <1>1. PICK r : /\ Trace(r, "set", EmptyStore, objs, n)
                 /\ FoldLeft(SetObject, EmptyStore, objs) = r[n]
    BY SetObjectTraced
  <1> DEFINE T == {i \in Nat : i <= n => Holds(r[i], objs, i)}
  <1>2. 0 \in T
    BY <1>1, EmptyHolds DEF Trace
  <1>3. ASSUME NEW i \in T
        PROVE  i + 1 \in T
    <2> HIDE DEF T
    <2>1. i \in Nat /\ (i <= n => Holds(r[i], objs, i))
      BY DEF T
    <2>2. ASSUME i + 1 <= n
          PROVE  Holds(r[i + 1], objs, i + 1)
      <3>1. i + 1 \in 1 .. n /\ (i + 1) - 1 = i /\ i <= n /\ i + 1 \in Nat
        BY <2>1, <2>2
      <3>2. r[i + 1] = SetObject(r[i], objs[i + 1])
        BY <1>1, <3>1 DEF Trace, FoldStep
      <3>3. Known(objs, i + 1) /\ NoDoubles(objs, i + 1)
        BY <3>1, Shorter
      <3>4. Holds(r[i], objs, i)
        BY <2>1, <3>1
      <3>5. QED
        BY <2>1, <3>2, <3>3, <3>4, StoreStep
    <2>3. QED
      BY <2>1, <2>2 DEF T
  <1>4. T \in SUBSET Nat
    OBVIOUS
  <1> HIDE DEF T
  <1>5. T = Nat
    BY <1>2, <1>3, <1>4, Induction
  <1>6. n \in T /\ n <= n
    BY <1>5
  <1>7. QED
    BY <1>1, <1>6 DEF T

(* mnslp_msg::deserialize() with each of the objects. *)
LEMMA TraceRead ==
    ASSUME NEW objs, NEW n \in Nat,
           Known(objs, n), NoDoubles(objs, n), NEW type \in MessageTypes,
           NEW r, Trace(r, "read", NewMessage(type), objs, n)
    PROVE  /\ r[n] = [type |-> type, store |-> r[n].store]
           /\ Holds(r[n].store, objs, n)
  <1> DEFINE P(i) == /\ r[i] = [type |-> type, store |-> r[i].store]
                     /\ Holds(r[i].store, objs, i)
             T == {i \in Nat : i <= n => P(i)}
  <1>2. 0 \in T
    <2>1. r[0] = [type |-> type, store |-> EmptyStore]
      BY DEF Trace, NewMessage
    <2>2. P(0)
      BY <2>1, EmptyHolds
    <2> HIDE DEF P
    <2>3. QED
      BY <2>2
  <1>3. ASSUME NEW i \in T
        PROVE  i + 1 \in T
    <2> HIDE DEF T
    <2>1. i \in Nat /\ (i <= n => P(i))
      BY DEF T
    <2>2. ASSUME i + 1 <= n
          PROVE  P(i + 1)
      <3> DEFINE m == r[i]
                 obj == objs[i + 1]
      <3>1. i + 1 \in 1 .. n /\ (i + 1) - 1 = i /\ i <= n /\ i + 1 \in Nat
        BY <2>1, <2>2
      <3>2. r[i + 1] = AddRead(m, obj)
        BY <3>1 DEF Trace, FoldStep
      <3>3. Known(objs, i + 1) /\ NoDoubles(objs, i + 1)
        BY <3>1, Shorter
      <3>4. m = [type |-> type, store |-> m.store] /\ Holds(m.store, objs, i)
        BY <2>1, <3>1
      <3>5. /\ Holds(SetObject(m.store, obj), objs, i + 1)
            /\ ~(Unique(obj.type) /\ Has(m.store, obj.type, 1))
        <4> HIDE DEF m
        <4>1. QED
          BY <2>1, <3>3, <3>4, StoreStep
      <3>6. m # Refused
        <4>1. type # -1 /\ m.type = type
          BY <3>4 DEF MessageTypes, Configure, Response, Notify, Options, Refresh
        <4>2. QED
          BY <4>1 DEF Refused
      <3>7. obj # Broken
        <4>1. obj.type \in ObjectTypes
          BY <3>1 DEF Known
        <4>2. obj.type # -1
          BY <4>1 DEF ObjectTypes, SimpleTypes, InformationCode, IpfixMessage,
             SelectionMeteringEntities, MessageHopCount, MsgSequenceNumber,
             SessionLifetime
        <4>3. QED
          BY <4>2 DEF Broken, Object
      <3> HIDE DEF m, obj
      <3>8. r[i + 1] = [m EXCEPT !.store = SetObject(m.store, obj)]
        BY <3>2, <3>5, <3>6, <3>7 DEF AddRead
      <3>9. r[i + 1] = [type |-> type, store |-> SetObject(m.store, obj)]
        BY <3>4, <3>8
      <3>10. QED
        BY <3>5, <3>9
    <2> HIDE DEF P
    <2>3. QED
      BY <2>1, <2>2 DEF T
  <1>4. T \in SUBSET Nat
    OBVIOUS
  <1> HIDE DEF T
  <1>5. T = Nat
    BY <1>2, <1>3, <1>4, Induction
  <1>6. n \in T /\ n <= n
    BY <1>5
  <1> HIDE DEF P
  <1>7. P(n)
    BY <1>6 DEF T
  <1>8. QED
    BY <1>7 DEF P

LEMMA ReadAll ==
    ASSUME NEW objs, NEW n \in Nat, DOMAIN objs = 1 .. n,
           Known(objs, n), NoDoubles(objs, n), NEW type \in MessageTypes
    PROVE  LET m == FoldLeft(AddRead, NewMessage(type), objs)
           IN  m = [type |-> type, store |-> m.store] /\ Holds(m.store, objs, n)
  <1>1. PICK r : /\ Trace(r, "read", NewMessage(type), objs, n)
                 /\ FoldLeft(AddRead, NewMessage(type), objs) = r[n]
    BY AddReadTraced
  <1>2. /\ r[n] = [type |-> type, store |-> r[n].store]
        /\ Holds(r[n].store, objs, n)
    BY <1>1, TraceRead
  <1>3. QED
    BY <1>1, <1>2

(* One object that cannot be read, or comes a second time, is enough for   *)
(* the message to be refused.                                              *)
RefusedAt(objs, i) ==
    \/ objs[i] = Broken
    \/ /\ Unique(objs[i].type)
       /\ \E j \in 1 .. i - 1 : objs[j].type = objs[i].type

LEMMA ReadRefuses ==
    ASSUME NEW objs, NEW n \in Nat, DOMAIN objs = 1 .. n,
           NEW type \in MessageTypes,
           \A i \in 1 .. n : objs[i] = Broken \/ objs[i].type \in ObjectTypes,
           \E i \in 1 .. n : RefusedAt(objs, i)
    PROVE  FoldLeft(AddRead, NewMessage(type), objs) = Refused
  <1>1. PICK r : /\ Trace(r, "read", NewMessage(type), objs, n)
                 /\ FoldLeft(AddRead, NewMessage(type), objs) = r[n]
    BY AddReadTraced
  <1> DEFINE B == {i \in 1 .. n : RefusedAt(objs, i)}
  <1>2. PICK b \in B : \A i \in B : b <= i
    <2>1. B \in SUBSET Nat /\ B # {}
      OBVIOUS
    <2> HIDE DEF B
    <2>2. QED
      BY <2>1, LeastNumber
  <1> DEFINE a == b - 1
  <1>3. b \in 1 .. n /\ a \in Nat /\ a + 1 = b /\ RefusedAt(objs, b) /\ a <= n
    OBVIOUS
  <1>4. \A i \in 1 .. a : i \in 1 .. n /\ ~RefusedAt(objs, i)
    <2> SUFFICES ASSUME NEW i \in 1 .. a PROVE i \in 1 .. n /\ ~RefusedAt(objs, i)
      OBVIOUS
    <2>1. i \in 1 .. n /\ ~(b <= i)
      BY <1>3
    <2>2. QED
      BY <1>2, <2>1
  <1>5. Known(objs, a)
    BY <1>4 DEF RefusedAt, Known
  <1>6. NoDoubles(objs, a)
    <2> SUFFICES ASSUME NEW i \in 1 .. a, NEW j \in 1 .. a, i < j,
                        objs[i].type = objs[j].type
                 PROVE  objs[i].type = IpfixMessage
      <3>1. \A i, j \in 1 .. a : i # j => i < j \/ j < i
        BY <1>3
      <3>2. QED
        BY <3>1 DEF NoDoubles
    <2>1. ~RefusedAt(objs, j) /\ i \in 1 .. j - 1
      BY <1>3, <1>4
    <2>2. QED
      BY <2>1 DEF RefusedAt, Unique
  <1>7. Trace(r, "read", NewMessage(type), objs, a)
    BY <1>1, <1>4 DEF Trace
  <1> HIDE DEF a, B
  <1>8. /\ r[a] = [type |-> type, store |-> r[a].store]
        /\ Holds(r[a].store, objs, a)
    BY <1>3, <1>5, <1>6, <1>7, TraceRead
  <1>9. r[b] = AddRead(r[a], objs[b])
    BY <1>1, <1>3 DEF Trace, FoldStep, a
  <1>10. r[b] = Refused
    <2>1. CASE objs[b] = Broken
      BY <1>9, <2>1 DEF AddRead
    <2>2. CASE objs[b] # Broken
      <3>1. Unique(objs[b].type)
            /\ \E j \in 1 .. b - 1 : objs[j].type = objs[b].type
        BY <1>3, <2>2 DEF RefusedAt
      <3>2. PICK j \in 1 .. a : objs[j].type = objs[b].type
        BY <3>1 DEF a
      <3>3. KeyAt(objs, j) \in DOMAIN r[a].store
        BY <1>8 DEF Holds
      <3>4. KeyAt(objs, j) = Key(objs[b].type, 1)
        BY <3>1, <3>2 DEF KeyAt, SeqAt
      <3>5. Has(r[a].store, objs[b].type, 1)
        BY <3>3, <3>4 DEF Has
      <3>6. QED
        BY <1>9, <3>1, <3>5 DEF AddRead
    <2>3. QED
      BY <2>1, <2>2
  <1> DEFINE T == {d \in Nat : b + d <= n => r[b + d] = Refused}
  <1>11. 0 \in T
    BY <1>3, <1>10
  <1>12. ASSUME NEW d \in T
         PROVE  d + 1 \in T
    <2> HIDE DEF T
    <2>1. d \in Nat /\ (b + d <= n => r[b + d] = Refused)
      BY DEF T
    <2>2. ASSUME b + (d + 1) <= n
          PROVE  r[b + (d + 1)] = Refused
      <3> DEFINE e == b + (d + 1)
      <3>1. e \in 1 .. n /\ e - 1 = b + d /\ b + d <= n
        BY <1>3, <2>1, <2>2
      <3> HIDE DEF e
      <3>2. r[e] = AddRead(r[e - 1], objs[e])
        BY <1>1, <3>1 DEF Trace, FoldStep
      <3>3. r[e - 1] = Refused
        BY <2>1, <3>1
      <3>4. r[e] = Refused
        BY <3>2, <3>3 DEF AddRead
      <3>5. QED
        BY <3>4 DEF e
    <2>3. QED
      BY <2>1, <2>2 DEF T
  <1>13. T \in SUBSET Nat
    OBVIOUS
  <1> HIDE DEF T
  <1>14. T = Nat
    BY <1>11, <1>12, <1>13, Induction
  <1>15. n - b \in T /\ b + (n - b) = n /\ n <= n
    BY <1>3, <1>14
  <1>16. QED
    BY <1>1, <1>15 DEF T

(***************************************************************************)
(* The words of an object, and what deserialize_object() makes of them.    *)
(***************************************************************************)
ObjectWord == [kind : {"obj", "value"}, n : Nat, len : Nat]

(* What the object parsers accept: a known type and a valid body.          *)
Readable1(o) ==
    /\ o.type \in ObjectTypes
    /\ o.type = IpfixMessage => o.body \in Readable
    /\ o.type = InformationCode => o.body[3] = 0

LEMMA WireObject ==
    ASSUME NEW o \in WireObjects, RightLength(o)
    PROVE  /\ o = [type |-> o.type, body |-> o.body, ready |-> TRUE]
           /\ o.type \in Nat /\ o.body \in Seq(Nat)
           /\ o.type = InformationCode =>
                 /\ Len(o.body) = 3 /\ o.body[1] \in Nat /\ o.body[1] < 16
                 /\ o.body[2] \in Nat /\ o.body[2] < 256
                 /\ o.body[3] \in Nat /\ o.body[3] < 65536
  <1>1. /\ o = [type |-> o.type, body |-> o.body, ready |-> TRUE]
        /\ o.type \in Nat /\ o.body \in Seq(Nat)
    <2>1. o.type \in Nat /\ o.body \in Seq(Nat)
          /\ o = [type |-> o.type, body |-> o.body, ready |-> o.ready]
      BY DEF WireObjects
    <2>2. o.ready = TRUE
      BY Zenon DEF WireObjects
    <2>3. QED
      BY <2>1, <2>2, Zenon
  <1>2. o.type = InformationCode =>
           /\ Len(o.body) = 3 /\ o.body[1] < 16
           /\ o.body[2] < 256 /\ o.body[3] < 65536
    BY DEF RightLength
  <1> DEFINE B == o.body
  <1> HIDE DEF B
  <1>3. B \in Seq(Nat)
    BY <1>1 DEF B
  <1>4. Len(B) = 3 => B[1] \in Nat /\ B[2] \in Nat /\ B[3] \in Nat
    <2>1. \A i \in 1 .. Len(B) : B[i] \in Nat
      BY <1>3
    <2>2. 1 \in 1 .. 3 /\ 2 \in 1 .. 3 /\ 3 \in 1 .. 3
      OBVIOUS
    <2>3. QED
      BY <2>1, <2>2
  <1>5. QED
    BY <1>1, <1>2, <1>4 DEF B

Packed(a, b, c) == (a % 16) * 16777216 + b * 65536 + (c % 65536)

LEMMA CodeWordValue ==
    ASSUME NEW a \in Nat, NEW b \in Nat, NEW c \in Nat,
           a < 16, b < 256, c < 65536,
           NEW v, v = Packed(a, b, c)
    PROVE  v \in Nat /\ CodeIn(v) = <<a, b, c>>
  <1>1. a % 16 = a /\ c % 65536 = c
    OBVIOUS
  <1>2. v = a * 16777216 + b * 65536 + c
    BY <1>1 DEF Packed
  <1>3. v \in Nat
    BY <1>2
  <1>4. v \div 16777216 = a
    BY <1>2
  <1>5. v \div 65536 = a * 256 + b
    BY <1>2
  <1>6. (a * 256 + b) % 256 = b
    OBVIOUS
  <1>7. v % 65536 = c
    BY <1>2
  <1>8. (v \div 16777216) % 16 = a /\ (v \div 65536) % 256 = b /\ v % 65536 = c
    BY <1>1, <1>4, <1>5, <1>6, <1>7
  <1>9. QED
    BY <1>3, <1>8 DEF CodeIn

LEMMA BodyOnWire ==
    ASSUME NEW o \in WireObjects, RightLength(o)
    PROVE  /\ BodyWords(o) \in Seq(ObjectWord) /\ Len(BodyWords(o)) \in Nat
           /\ \A j \in 1 .. Len(BodyWords(o)) :
                 BodyWords(o)[j].n = IF o.type = InformationCode
                                       THEN CodeWord(o.body).n ELSE o.body[j]
           /\ Len(BodyWords(o)) = IF o.type = InformationCode THEN 1 ELSE Len(o.body)
  <1>1. CASE o.type = InformationCode
    <2>1. BodyWords(o) = <<CodeWord(o.body)>>
      BY <1>1 DEF BodyWords
    <2>2. CodeWord(o.body) \in ObjectWord
      <3>1. PICK a, b, c : a = o.body[1] /\ b = o.body[2] /\ c = o.body[3]
        OBVIOUS
      <3>2. /\ a \in Nat /\ b \in Nat /\ c \in Nat
          /\ a < 16 /\ b < 256 /\ c < 65536
        BY <1>1, <3>1, WireObject
      <3>3. Packed(a, b, c) \in Nat
        BY <3>2, CodeWordValue
      <3>4. QED
        BY <3>1, <3>3 DEF CodeWord, Value, ObjectWord, Packed
    <2> DEFINE x == CodeWord(o.body)
    <2> HIDE DEF x
    <2>3. BodyWords(o) = <<x>> /\ x \in ObjectWord
      BY <2>1, <2>2 DEF x
    <2>4. /\ <<x>> \in Seq(ObjectWord) /\ Len(<<x>>) = 1
          /\ \A j \in 1 .. Len(<<x>>) : <<x>>[j] = x
      BY <2>3
    <2>5. QED
      BY <1>1, <2>3, <2>4 DEF x
  <1>2. CASE o.type # InformationCode
    <2> DEFINE B == o.body
               b == [i \in DOMAIN B |-> Value(B[i])]
    <2>1. BodyWords(o) = b
      BY <1>2 DEF BodyWords
    <2>2. B \in Seq(Nat)
      BY WireObject
    <2> HIDE DEF B
    <2>3. Len(B) \in Nat /\ DOMAIN B = 1 .. Len(B) /\ \A i \in 1 .. Len(B) : B[i] \in Nat
      BY <2>2
    <2>4. \A i \in 1 .. Len(B) : Value(B[i]) \in ObjectWord /\ Value(B[i]).n = B[i]
      BY <2>3 DEF Value, ObjectWord
    <2>5. b \in Seq(ObjectWord) /\ Len(b) = Len(B)
      BY <2>3, <2>4
    <2>6. \A i \in 1 .. Len(B) : b[i].n = B[i]
      BY <2>3, <2>4
    <2> HIDE DEF b
    <2>7. QED
      BY <1>2, <2>1, <2>3, <2>5, <2>6 DEF B
  <1>3. QED
    BY <1>1, <1>2

LEMMA Appended ==
    ASSUME NEW X, NEW a \in Seq(X), NEW b \in Seq(X)
    PROVE  Extends(a \o b, a, b, X)
  BY Concatenated DEF Extends

LEMMA ObjectOnWire ==
    ASSUME NEW o \in WireObjects, RightLength(o)
    PROVE  /\ ObjectWords(o) \in Seq(ObjectWord)
           /\ Len(ObjectWords(o)) = 1 + Len(BodyWords(o))
           /\ ObjectWords(o)[1] = ObjWord(o.type, Len(BodyWords(o)))
           /\ \A j \in 1 .. Len(BodyWords(o)) :
                 ObjectWords(o)[1 + j] = BodyWords(o)[j]
  <1> DEFINE b == BodyWords(o)
             h == ObjWord(o.type, Len(b))
  <1>1. b \in Seq(ObjectWord) /\ Len(b) \in Nat
    BY BodyOnWire
  <1>2. h \in ObjectWord
    BY <1>1, WireObject DEF ObjWord, ObjectWord
  <1>3. ObjectWords(o) = <<h>> \o b
    BY DEF ObjectWords
  <1> HIDE DEF h, b
  <1>4. <<h>> \in Seq(ObjectWord) /\ Len(<<h>>) = 1 /\ <<h>>[1] = h
    BY <1>2
  <1> DEFINE a == <<h>>
  <1>5. a \in Seq(ObjectWord) /\ Len(a) = 1 /\ a[1] = h /\ 1 \in 1 .. 1
    BY <1>4
  <1> HIDE DEF a
  <1>6. /\ a \o b \in Seq(ObjectWord) /\ Len(a \o b) = Len(a) + Len(b)
        /\ \A p \in 1 .. Len(a) : (a \o b)[p] = a[p]
        /\ \A p \in 1 .. Len(b) : (a \o b)[Len(a) + p] = b[p]
    <2>1. Extends(a \o b, a, b, ObjectWord)
      BY <1>1, <1>5, Appended
    <2>2. QED
      BY <2>1 DEF Extends
  <1>7. /\ a \o b \in Seq(ObjectWord) /\ Len(a \o b) = 1 + Len(b)
        /\ (a \o b)[1] = h
        /\ \A p \in 1 .. Len(b) : (a \o b)[1 + p] = b[p]
    BY <1>5, <1>6
  <1>8. QED
    BY <1>3, <1>7 DEF a, b, h

LEMMA ReadsBack ==
    ASSUME NEW o \in WireObjects, RightLength(o), NEW w, NEW pos \in Nat, Len(w) \in Nat,
           w[pos] = ObjWord(o.type, Len(BodyWords(o))),
           pos + Len(BodyWords(o)) <= Len(w),
           \A j \in 1 .. Len(BodyWords(o)) : w[pos + j] = BodyWords(o)[j]
    PROVE  ReadObject(w, pos) = IF Readable1(o) THEN o ELSE Broken
  <1>1. w[pos].len = Len(BodyWords(o)) /\ w[pos].n = o.type
    BY DEF ObjWord
  <1>2. Len(BodyWords(o)) \in Nat
    BY BodyOnWire
  <1>3. Parsed(o.type, BodyAt(w, pos)) = o
    <2>1. CASE o.type = InformationCode
      <3>1. PICK a, b, c : a = o.body[1] /\ b = o.body[2] /\ c = o.body[3]
        OBVIOUS
      <3>2. /\ a \in Nat /\ b \in Nat /\ c \in Nat
          /\ a < 16 /\ b < 256 /\ c < 65536
        BY <2>1, <3>1, WireObject
      <3>3. Len(BodyWords(o)) = 1 /\ 1 \in 1 .. 1
        BY <2>1, BodyOnWire
      <3>4. BodyWords(o)[1].n = CodeWord(o.body).n
        BY <2>1, <3>3, BodyOnWire
      <3> DEFINE v == Packed(a, b, c)
      <3>5. CodeWord(o.body).n = v
        BY <3>1 DEF CodeWord, Value, Packed
      <3>6. BodyAt(w, pos)[1] = w[pos + 1].n
        BY <1>1, <3>3 DEF BodyAt
      <3>7. w[pos + 1] = BodyWords(o)[1]
        BY <3>3
      <3>8. v = Packed(a, b, c)
        OBVIOUS
      <3> HIDE DEF v
      <3>9. BodyAt(w, pos)[1] = v
        BY <3>4, <3>5, <3>6, <3>7
      <3>10. CodeIn(v) = <<a, b, c>>
        BY <3>2, <3>8, CodeWordValue
      <3>11. o.body = <<a, b, c>>
        <4> DEFINE B == o.body
        <4>1. B \in Seq(Nat) /\ Len(B) = 3
          BY <2>1, WireObject
        <4>2. B[1] = a /\ B[2] = b /\ B[3] = c
          BY <3>1
        <4> HIDE DEF B
        <4>3. B = <<a, b, c>>
          BY <4>1, <4>2
        <4>4. QED
          BY <4>3 DEF B
      <3>12. Parsed(o.type, BodyAt(w, pos)) = [type |-> o.type, body |-> <<a, b, c>>, ready |-> TRUE]
        BY <2>1, <3>9, <3>10 DEF Parsed, Object
      <3>13. QED
        BY <3>11, <3>12, WireObject
    <2>2. CASE o.type # InformationCode
      <3> DEFINE B == o.body
                 L == Len(BodyWords(o))
      <3>1. B \in Seq(Nat) /\ L = Len(B)
        BY <2>2, WireObject, BodyOnWire
      <3>2. \A i \in 1 .. L : w[pos + i].n = B[i]
        BY <2>2, BodyOnWire
      <3>3. BodyAt(w, pos) = [i \in 1 .. L |-> w[pos + i].n]
        BY <1>1 DEF BodyAt
      <3> HIDE DEF B, L
      <3>4. BodyAt(w, pos) = [i \in 1 .. L |-> B[i]]
        BY <3>2, <3>3
      <3>5. B = [i \in 1 .. L |-> B[i]]
        BY <3>1
      <3>6. BodyAt(w, pos) = o.body
        BY <3>4, <3>5 DEF B
      <3>7. Parsed(o.type, BodyAt(w, pos)) = [type |-> o.type, body |-> o.body, ready |-> TRUE]
        BY <2>2, <3>6 DEF Parsed, Object
      <3>8. QED
        BY <3>7, WireObject
    <2>3. QED
      BY <2>1, <2>2
  <1>4. o.type = InformationCode => (CheckObject(o) <=> o.body[3] = 0)
    <2> SUFFICES ASSUME o.type = InformationCode
                 PROVE  CheckObject(o) <=> o.body[3] = 0
      OBVIOUS
    <2>1. o.body[1] \in Nat /\ o.body[1] < 16
      BY WireObject
    <2>2. CheckObject(o) <=> o.body[1] < 16 /\ o.body[3] = 0
      BY DEF CheckObject, InformationCode, IpfixMessage
    <2>3. QED
      BY <2>1, <2>2
  <1> DEFINE L == Len(BodyWords(o))
  <1>5. ReadObject(w, pos) =
          IF \/ o.type \notin ObjectTypes
             \/ pos + L > Len(w)
             \/ o.type = IpfixMessage /\ o.body \notin Readable
             \/ o.type = InformationCode /\ ~CheckObject(o)
            THEN Broken ELSE o
    BY <1>1, <1>3 DEF ReadObject
  <1>6. ~(pos + L > Len(w))
    BY <1>2
  <1> HIDE DEF L
  <1>7. QED
    BY <1>4, <1>5, <1>6 DEF Readable1

LEMMA ReadsCut ==
    ASSUME NEW o, NEW w, NEW pos,
           w[pos] = ObjWord(o.type, Len(BodyWords(o))),
           pos + Len(BodyWords(o)) > Len(w)
    PROVE  ReadObject(w, pos) = Broken
  <1>1. w[pos].len = Len(BodyWords(o))
    BY DEF ObjWord
  <1>2. QED
    BY <1>1 DEF ReadObject

(***************************************************************************)
(* Reading object after object: from every position to the end.            *)
(***************************************************************************)
ReadFrom(f, w, pos) ==
    IF pos = Len(w) + 1 THEN <<>>
    ELSE IF ReadObject(w, pos) = Broken THEN <<Broken>>
         ELSE <<ReadObject(w, pos)>> \o f[pos + 1 + w[pos].len]

ReadsTo(f, w, low) == f = [pos \in low .. Len(w) + 1 |-> ReadFrom(f, w, pos)]

Lengths(w) == Len(w) \in Nat /\ \A pos \in 2 .. Len(w) : w[pos].len \in Nat

LEMMA ReadValue ==
    ASSUME NEW f, NEW w, NEW low, ReadsTo(f, w, low), NEW pos \in low .. Len(w) + 1
    PROVE  f[pos] = ReadFrom(f, w, pos)
  <1> DEFINE b == [p \in low .. Len(w) + 1 |-> ReadFrom(f, w, p)]
  <1>1. f = b
    BY DEF ReadsTo
  <1>2. b[pos] = ReadFrom(f, w, pos)
    OBVIOUS
  <1> HIDE DEF b
  <1>3. QED
    BY <1>1, <1>2

LEMMA ReadExtends ==
    ASSUME NEW w, Lengths(w), NEW low \in Nat, 2 <= low, low <= Len(w),
           NEW h, ReadsTo(h, w, low + 1)
    PROVE  \E g : ReadsTo(g, w, low)
  <1> DEFINE L == Len(w) + 1
             g == [pos \in low .. L |-> ReadFrom(h, w, pos)]
  <1>1. Len(w) \in Nat /\ L \in Nat
    BY DEF Lengths
  <1>2. \A pos \in low + 1 .. L : pos \in low .. L
    BY <1>1
  <1>3. \A pos \in low + 1 .. L : g[pos] = h[pos]
    <2> SUFFICES ASSUME NEW pos \in low + 1 .. L
                 PROVE  g[pos] = h[pos]
      OBVIOUS
    <2>1. h[pos] = ReadFrom(h, w, pos)
      BY ReadValue
    <2>2. QED
      BY <1>2, <2>1
  <1>4. ASSUME NEW pos \in low .. L
        PROVE  ReadFrom(g, w, pos) = ReadFrom(h, w, pos)
    <2>1. CASE pos = L
      BY <2>1 DEF ReadFrom
    <2>2. CASE ReadObject(w, pos) = Broken
      BY <2>2 DEF ReadFrom
    <2>3. CASE pos # L /\ ReadObject(w, pos) # Broken
      <3>1. pos \in 2 .. Len(w) /\ pos \in Nat
        BY <1>1, <2>3
      <3>2. ~(pos + w[pos].len > Len(w)) /\ w[pos].len \in Nat
        BY <2>3, <3>1 DEF ReadObject, Lengths
      <3>3. pos + 1 + w[pos].len \in low + 1 .. L
        BY <1>1, <3>1, <3>2
      <3>4. g[pos + 1 + w[pos].len] = h[pos + 1 + w[pos].len]
        BY <1>3, <3>3
      <3> HIDE DEF g
      <3>5. QED
        BY <3>4 DEF ReadFrom
    <2>4. QED
      BY <2>1, <2>2, <2>3
  <1>5. g = [pos \in low .. L |-> ReadFrom(g, w, pos)]
    <2> DEFINE b == [pos \in low .. L |-> ReadFrom(g, w, pos)]
    <2>1. \A pos \in low .. L : g[pos] = ReadFrom(h, w, pos)
                                /\ b[pos] = ReadFrom(g, w, pos)
      OBVIOUS
    <2>2. g = [pos \in low .. L |-> g[pos]] /\ b = [pos \in low .. L |-> b[pos]]
      OBVIOUS
    <2> HIDE DEF g, b
    <2>3. \A pos \in low .. L : g[pos] = b[pos]
      BY <1>4, <2>1
    <2>4. g = b
      BY <2>2, <2>3
    <2>5. QED
      BY <2>4 DEF b
  <1>6. ReadsTo(g, w, low)
    BY <1>5 DEF ReadsTo
  <1>7. QED
    BY <1>6

LEMMA ReadExists ==
    ASSUME NEW w, Lengths(w), Len(w) >= 1
    PROVE  \E g : ReadsTo(g, w, 2)
  <1> DEFINE L == Len(w) + 1
             T == {d \in Nat : d <= L - 2 => \E g : ReadsTo(g, w, L - d)}
  <1>1. Len(w) \in Nat /\ L \in Nat /\ L >= 2
    BY DEF Lengths
  <1>2. 0 \in T
    <2> DEFINE g == [pos \in L .. L |-> <<>>]
    <2>1. g = [pos \in L .. Len(w) + 1 |-> ReadFrom(g, w, pos)]
      BY <1>1 DEF ReadFrom
    <2>2. ReadsTo(g, w, L)
      BY <2>1 DEF ReadsTo
    <2>3. L - 0 = L
      BY <1>1
    <2>4. QED
      BY <2>2, <2>3
  <1>3. ASSUME NEW d \in T
        PROVE  d + 1 \in T
    <2> HIDE DEF T, L
    <2>1. d \in Nat /\ (d <= L - 2 => \E g : ReadsTo(g, w, L - d))
      BY DEF T
    <2>2. ASSUME d + 1 <= L - 2
          PROVE  \E g : ReadsTo(g, w, L - (d + 1))
      <3> DEFINE low == L - (d + 1)
      <3>1. low \in Nat /\ 2 <= low /\ low + 1 = L - d /\ d <= L - 2
        BY <1>1, <2>1, <2>2
      <3>2. low <= Len(w)
        BY <1>1, <2>1, <2>2 DEF L
      <3>3. PICK h : ReadsTo(h, w, low + 1)
        BY <2>1, <3>1
      <3> HIDE DEF low
      <3>4. \E g : ReadsTo(g, w, low)
        BY <3>1, <3>2, <3>3, ReadExtends
      <3>5. QED
        BY <3>4 DEF low
    <2>3. QED
      BY <2>1, <2>2 DEF T
  <1>4. T \in SUBSET Nat
    OBVIOUS
  <1> HIDE DEF T
  <1>5. T = Nat
    BY <1>2, <1>3, <1>4, Induction
  <1>6. L - 2 \in T /\ L - (L - 2) = 2 /\ L - 2 <= L - 2
    BY <1>1, <1>5
  <1>7. QED
    BY <1>6 DEF T

LEMMA ReadObjectsIs ==
    ASSUME NEW w, Lengths(w), Len(w) >= 1
    PROVE  \E g : ReadsTo(g, w, 2) /\ ReadObjects(w) = g[2]
  <1> DEFINE Is(h) == h = [pos \in 2 .. Len(w) + 1 |-> ReadFrom(h, w, pos)]
             g == CHOOSE h : Is(h)
  <1>1. ReadObjects(w) = g[2]
    BY DEF ReadObjects, ReadFrom
  <1>2. \A h : Is(h) <=> ReadsTo(h, w, 2)
    BY DEF ReadsTo
  <1> HIDE DEF Is
  <1>3. \E h : Is(h)
    BY <1>2, ReadExists
  <1>4. Is(g)
    BY <1>3
  <1> HIDE DEF g
  <1>5. QED
    BY <1>1, <1>2, <1>4

(***************************************************************************)
(* The objects that stand one after the other, up to the first broken one. *)
(***************************************************************************)
StandAt(w, at, res, n) ==
    /\ \A i \in 1 .. n : /\ at[i] \in 2 .. Len(w)
                         /\ ReadObject(w, at[i]) = res[i]
                         /\ res[i] = Broken => i = n
                         /\ i < n => at[i + 1] = at[i] + 1 + w[at[i]].len
    /\ n = 0 => Len(w) + 1 = 2
    /\ n > 0 => at[1] = 2
    /\ n > 0 /\ res[n] # Broken => at[n] + 1 + w[at[n]].len = Len(w) + 1

LEMMA Prepends ==
    ASSUME NEW X, NEW x \in X, NEW q \in Seq(X), NEW k, k = Len(q)
    PROVE  <<x>> \o q = [j \in 1 .. k + 1 |-> IF j = 1 THEN x ELSE q[j - 1]]
  <1> DEFINE a == <<x>>
  <1>1. a \in Seq(X) /\ Len(a) = 1 /\ a[1] = x /\ 1 \in 1 .. 1
    OBVIOUS
  <1> HIDE DEF a
  <1>2. Extends(a \o q, a, q, X)
    BY <1>1, Appended
  <1> DEFINE r == a \o q
  <1>3. /\ r \in Seq(X) /\ Len(q) \in Nat /\ Len(r) = 1 + Len(q) /\ r[1] = x
        /\ \A p \in 1 .. Len(q) : r[1 + p] = q[p]
    BY <1>1, <1>2 DEF Extends
  <1> HIDE DEF r
  <1>4. r = [j \in 1 .. k + 1 |-> r[j]]
    BY <1>3
  <1>5. \A j \in 1 .. k + 1 : r[j] = IF j = 1 THEN x ELSE q[j - 1]
    <2> SUFFICES ASSUME NEW j \in 1 .. k + 1, j # 1
                 PROVE  r[j] = q[j - 1]
      BY <1>3
    <2>1. j - 1 \in 1 .. k /\ 1 + (j - 1) = j
      BY <1>3
    <2>2. r[1 + (j - 1)] = q[j - 1]
      BY <1>3, <2>1
    <2>3. QED
      BY <2>1, <2>2
  <1>6. r = [j \in 1 .. k + 1 |-> IF j = 1 THEN x ELSE q[j - 1]]
    BY <1>4, <1>5
  <1>7. QED
    BY <1>6 DEF r, a

LEMMA ObjectsStand ==
    ASSUME NEW w, Lengths(w), Len(w) >= 1, NEW n \in Nat, NEW at,
           NEW res, res = [i \in 1 .. n |-> res[i]], StandAt(w, at, res, n)
    PROVE  ReadObjects(w) = res
  <1>1. PICK g : ReadsTo(g, w, 2) /\ ReadObjects(w) = g[2]
    BY ReadObjectsIs
  <1>2. Len(w) \in Nat
    BY DEF Lengths
  <1> DEFINE X == {res[i] : i \in 1 .. n}
             from(i) == [j \in 1 .. (n + 1) - i |-> res[(i + j) - 1]]
             T == {d \in Nat : d + 1 <= n => g[at[n - d]] = from(n - d)}
  <1>3. ASSUME NEW i \in 1 .. n
        PROVE  g[at[i]] = IF res[i] = Broken THEN <<res[i]>>
                          ELSE <<res[i]>> \o g[at[i] + 1 + w[at[i]].len]
    <2>1. at[i] \in 2 .. Len(w) + 1 /\ at[i] # Len(w) + 1
      BY <1>2 DEF StandAt
    <2>2. ReadObject(w, at[i]) = res[i]
      BY DEF StandAt
    <2>3. g[at[i]] = ReadFrom(g, w, at[i])
      BY <1>1, <2>1, ReadValue
    <2>4. QED
      BY <2>1, <2>2, <2>3 DEF ReadFrom
  <1>4. ASSUME NEW i \in 1 .. n
        PROVE  from(i) \in Seq(X) /\ Len(from(i)) = (n + 1) - i
    <2>1. (n + 1) - i \in Nat
      OBVIOUS
    <2>2. \A j \in 1 .. (n + 1) - i : (i + j) - 1 \in 1 .. n
      OBVIOUS
    <2>3. \A j \in 1 .. (n + 1) - i : res[(i + j) - 1] \in X
      BY <2>2
    <2> DEFINE K == (n + 1) - i
               f == from(i)
    <2> HIDE DEF X
    <2>4. f \in [1 .. K -> X]
      BY <2>3
    <2> HIDE DEF f, from
    <2>5. K \in Nat
      BY <2>1
    <2> HIDE DEF K
    <2>6. f \in Seq(X) /\ Len(f) = K
      BY <2>4, <2>5
    <2>7. QED
      BY <2>6 DEF f, K
  <1>5. g[Len(w) + 1] = <<>>
    <2>1. Len(w) + 1 \in 2 .. Len(w) + 1
      BY <1>2
    <2>2. QED
      BY <1>1, <2>1, ReadValue DEF ReadFrom
  <1>6. \A i \in 1 .. n : res[i] \in X
    OBVIOUS
  <1>7. 0 \in T
    <2> SUFFICES ASSUME 1 <= n PROVE g[at[n]] = from(n)
      <3> HIDE DEF from
      <3>1. n - 0 = n /\ 0 + 1 = 1
        OBVIOUS
      <3>2. QED
        BY <3>1
    <2>1. n \in 1 .. n /\ (n + 1) - n = 1
      OBVIOUS
    <2>2. from(n) = [j \in 1 .. 1 |-> res[(n + j) - 1]]
      BY <2>1
    <2>3. from(n) = <<res[n]>>
      <3>1. \A j \in 1 .. 1 : (n + j) - 1 = n
        OBVIOUS
      <3> HIDE DEF from
      <3>2. from(n) = [j \in 1 .. 1 |-> res[n]]
        BY <2>2, <3>1
      <3>3. QED
        BY <3>2
    <2> HIDE DEF from
    <2>4. g[at[n]] = IF res[n] = Broken THEN <<res[n]>>
                     ELSE <<res[n]>> \o g[at[n] + 1 + w[at[n]].len]
      BY <1>3, <2>1
    <2>5. CASE res[n] = Broken
      BY <2>3, <2>4, <2>5
    <2>6. CASE res[n] # Broken
      <3>1. at[n] + 1 + w[at[n]].len = Len(w) + 1
        BY <2>1, <2>6 DEF StandAt
      <3>2. g[at[n]] = <<res[n]>> \o <<>>
        BY <1>5, <2>4, <2>6, <3>1
      <3>3. <<res[n]>> \o <<>> = <<res[n]>>
        OBVIOUS
      <3>4. QED
        BY <2>3, <3>2, <3>3
    <2>7. QED
      BY <2>5, <2>6
  <1>8. ASSUME NEW d \in T
        PROVE  d + 1 \in T
    <2> HIDE DEF T
    <2>1. d \in Nat /\ (d + 1 <= n => g[at[n - d]] = from(n - d))
      BY DEF T
    <2>2. ASSUME (d + 1) + 1 <= n
          PROVE  g[at[n - (d + 1)]] = from(n - (d + 1))
      <3> DEFINE i == n - (d + 1)
      <3>1. i \in 1 .. n /\ i < n /\ i + 1 \in 1 .. n /\ i + 1 = n - d /\ d + 1 <= n
            /\ (n + 1) - i = ((n + 1) - (i + 1)) + 1
        <4>1. d \in Nat
          BY <2>1
        <4> HIDE DEF from
        <4>2. QED
          BY <4>1, <2>2
      <3> HIDE DEF i
      <3>2. res[i] # Broken /\ at[i + 1] = at[i] + 1 + w[at[i]].len
        BY <3>1 DEF StandAt
      <3>3. g[at[i]] = <<res[i]>> \o g[at[i + 1]]
        BY <1>3, <3>1, <3>2
      <3>4. g[at[i + 1]] = from(i + 1)
        BY <2>1, <3>1
      <3> DEFINE q == from(i + 1)
                 k == (n + 1) - (i + 1)
      <3>5. q \in Seq(X) /\ Len(q) = k
        BY <1>4, <3>1
      <3>6. \A j \in 1 .. k + 1 : j # 1 => q[j - 1] = res[(i + j) - 1]
        <4> SUFFICES ASSUME NEW j \in 1 .. k + 1, j # 1
                     PROVE  q[j - 1] = res[(i + j) - 1]
          OBVIOUS
        <4>1. j - 1 \in 1 .. k /\ ((i + 1) + (j - 1)) - 1 = (i + j) - 1
          <5>1. k \in Nat /\ i \in Nat
            BY <3>1
          <5> HIDE DEF k, q, from
          <5>2. QED
            BY <5>1
        <4>2. q[j - 1] = res[((i + 1) + (j - 1)) - 1]
          BY <4>1
        <4>3. QED
          BY <4>1, <4>2
      <3>7. from(i) = [j \in 1 .. k + 1 |-> res[(i + j) - 1]]
        BY <3>1
      <3>8. \A j \in 1 .. k + 1 : j = 1 => (i + j) - 1 = i
        BY <3>1
      <3> HIDE DEF q, k, from, X
      <3>9. from(i) = [j \in 1 .. k + 1 |-> IF j = 1 THEN res[i] ELSE q[j - 1]]
        <4>1. \A j \in 1 .. k + 1 :
                 res[(i + j) - 1] = IF j = 1 THEN res[i] ELSE q[j - 1]
          BY <3>6, <3>8
        <4>2. QED
          BY <3>7, <4>1
      <3>10. <<res[i]>> \o q = [j \in 1 .. k + 1 |-> IF j = 1 THEN res[i] ELSE q[j - 1]]
        BY <1>6, <3>1, <3>5, Prepends
      <3>11. g[at[i]] = from(i)
        BY <3>3, <3>4, <3>9, <3>10 DEF q
      <3>12. QED
        BY <3>11 DEF i
    <2>3. QED
      BY <2>1, <2>2 DEF T
  <1>9. T \in SUBSET Nat
    OBVIOUS
  <1> HIDE DEF T
  <1>10. T = Nat
    BY <1>7, <1>8, <1>9, Induction
  <1>11. CASE n = 0
    <2>1. 2 = Len(w) + 1
      BY <1>11 DEF StandAt
    <2>2. g[2] = <<>>
      BY <1>5, <2>1
    <2>3. res = <<>>
      BY <1>11
    <2>4. QED
      BY <1>1, <2>2, <2>3
  <1>12. CASE n # 0
    <2>1. n - 1 \in T /\ n - (n - 1) = 1 /\ (n - 1) + 1 <= n
      BY <1>10, <1>12
    <2>2. g[at[1]] = from(1)
      <3> HIDE DEF from
      <3>1. QED
        BY <2>1 DEF T
    <2>3. at[1] = 2
      BY <1>12 DEF StandAt
    <2>4. from(1) = res
      <3>1. (n + 1) - 1 = n /\ \A j \in 1 .. n : (1 + j) - 1 = j
        OBVIOUS
      <3>2. from(1) = [j \in 1 .. n |-> res[j]]
        BY <3>1
      <3>3. QED
        BY <3>2
    <2>5. QED
      BY <1>1, <2>2, <2>3, <2>4
  <1>13. QED
    BY <1>11, <1>12

(***************************************************************************)
(* Where the objects of a message stand in its words.                      *)
(***************************************************************************)
Sendable(objs, n) ==
    /\ n \in Nat /\ objs \in Seq(WireObjects) /\ Len(objs) = n
    /\ objs = [i \in 1 .. n |-> objs[i]]
    /\ \A i \in 1 .. n : objs[i] \in WireObjects /\ RightLength(objs[i])

LengthOf(obj) == Len(BodyWords(obj))

Laid(words, objs, n, at) ==
    /\ Len(words) \in Nat /\ Len(words) >= 1
    /\ \A p \in 1 .. Len(words) : words[p].len \in Nat
    /\ words = [p \in 1 .. Len(words) |-> words[p]]
    /\ at[1] = 2 /\ at[n + 1] = Len(words) + 1
    /\ \A i \in 1 .. n :
          /\ at[i] \in Nat /\ LengthOf(objs[i]) \in Nat
          /\ 2 <= at[i] /\ at[i] <= at[n]
          /\ at[i + 1] = at[i] + 1 + LengthOf(objs[i])
          /\ words[at[i]] = ObjWord(objs[i].type, LengthOf(objs[i]))
          /\ \A j \in 1 .. LengthOf(objs[i]) :
                words[at[i] + j] = BodyWords(objs[i])[j]

LEMMA WordsLaid ==
    ASSUME NEW type, NEW n, NEW objs, Sendable(objs, n)
    PROVE  /\ \E at : Laid(Words(type, objs), objs, n, at)
           /\ Words(type, objs)[1] = MsgWord(type)
  <1> DEFINE X == ObjectWord \cup {MsgWord(type)}
             s == [i \in 1 .. n |-> ObjectWords(objs[i])]
             h == MsgWord(type)
  <1>1. n \in Nat /\ DOMAIN objs = 1 .. n
    BY DEF Sendable
  <1>2. ASSUME NEW i \in 1 .. n
        PROVE  /\ ObjectWords(objs[i]) \in Seq(X)
               /\ LengthOf(objs[i]) \in Nat
               /\ Len(ObjectWords(objs[i])) = 1 + LengthOf(objs[i])
               /\ ObjectWords(objs[i])[1] = ObjWord(objs[i].type, LengthOf(objs[i]))
               /\ \A j \in 1 .. LengthOf(objs[i]) :
                     ObjectWords(objs[i])[1 + j] = BodyWords(objs[i])[j]
    <2> DEFINE o == objs[i]
    <2>1. o \in WireObjects /\ RightLength(o)
      BY DEF Sendable
    <2> HIDE DEF o
    <2>2. /\ ObjectWords(o) \in Seq(ObjectWord)
          /\ Len(ObjectWords(o)) = 1 + Len(BodyWords(o))
          /\ ObjectWords(o)[1] = ObjWord(o.type, Len(BodyWords(o)))
          /\ \A j \in 1 .. Len(BodyWords(o)) :
                ObjectWords(o)[1 + j] = BodyWords(o)[j]
      BY <2>1, ObjectOnWire
    <2>3. Len(BodyWords(o)) \in Nat
      BY <2>1, BodyOnWire
    <2>4. ObjectWords(o) \in Seq(X)
      <3> DEFINE q == ObjectWords(o)
      <3> HIDE DEF q
      <3>1. q \in Seq(ObjectWord)
        BY <2>2 DEF q
      <3>2. Len(q) \in Nat /\ q = [p \in 1 .. Len(q) |-> q[p]]
            /\ \A p \in 1 .. Len(q) : q[p] \in X
        BY <3>1
      <3> HIDE DEF X
      <3>3. q \in Seq(X)
        BY <3>2
      <3>4. QED
        BY <3>3 DEF q
    <2>5. QED
      BY <2>2, <2>3, <2>4 DEF LengthOf, o
  <1>3. s \in Seq(Seq(X)) /\ Len(s) = n /\ \A i \in 1 .. n : s[i] = ObjectWords(objs[i])
    <2>1. \A i \in 1 .. n : s[i] = ObjectWords(objs[i])
      OBVIOUS
    <2>2. s \in [1 .. n -> Seq(X)]
      <3> HIDE DEF X
      <3>1. QED
        BY <1>2
    <2> HIDE DEF s, X
    <2>3. s \in Seq(Seq(X)) /\ Len(s) = n
      BY <1>1, <2>2
    <2>4. QED
      BY <2>1, <2>3
  <1>4. PICK fl : Joins(fl, s, X)
    <2> HIDE DEF s, X
    <2>1. QED
      BY <1>3, Joinable
  <1>5. FlattenSeq(s) = fl[n]
    <2> HIDE DEF s, X
    <2>1. QED
      BY <1>3, <1>4, Flattened
  <1>6. Words(type, objs) = <<h>> \o fl[n]
    BY <1>1, <1>5 DEF Words
  <1> DEFINE a == <<h>>
             b == fl[n]
             words == a \o b
             at == [i \in 1 .. n + 1 |-> 2 + Len(fl[i - 1])]
  <1>7. a \in Seq(X) /\ Len(a) = 1 /\ a[1] = h /\ 1 \in 1 .. 1
    <2> HIDE DEF h
    <2>1. h \in X
      BY DEF h
    <2> HIDE DEF X
    <2>2. QED
      BY <2>1
  <1>8. b \in Seq(X)
    <2>1. n \in 0 .. Len(s)
      BY <1>1, <1>3
    <2> HIDE DEF s, X
    <2>2. QED
      BY <1>4, <2>1 DEF Joins, JoinsTo
  <1>9. /\ words \in Seq(X) /\ Len(b) \in Nat /\ Len(words) = 1 + Len(b)
        /\ words[1] = h
        /\ \A p \in 1 .. Len(b) : words[1 + p] = b[p]
    <2> HIDE DEF a, b, X, h
    <2>1. Extends(a \o b, a, b, X)
      BY <1>7, <1>8, Appended
    <2>2. QED
      BY <1>7, <2>1 DEF Extends
  <1>10. \A x \in X : x.len \in Nat
    BY DEF ObjectWord, MsgWord
  <1>11. /\ Len(words) \in Nat /\ Len(words) >= 1
         /\ \A p \in 1 .. Len(words) : words[p].len \in Nat
         /\ words = [p \in 1 .. Len(words) |-> words[p]]
    <2> HIDE DEF words, X, b
    <2>1. /\ Len(words) \in Nat /\ \A p \in 1 .. Len(words) : words[p] \in X
          /\ words = [p \in 1 .. Len(words) |-> words[p]]
      BY <1>9
    <2>2. Len(words) >= 1
      BY <1>9
    <2>3. QED
      BY <1>10, <2>1, <2>2
  <1> HIDE DEF s, X, h
  <1>12. /\ \A i \in 0 .. n : Len(fl[i]) \in Nat /\ Len(fl[i]) <= Len(fl[n])
         /\ Len(fl[0]) = 0
    <2>1. n \in 0 .. Len(s)
      BY <1>1, <1>3
    <2>2. \A i \in 0 .. n : Len(fl[i]) \in Nat /\ Len(fl[i]) <= Len(fl[n])
      BY <1>3, <1>4, <2>1, JoinedPrefix
    <2>3. fl[0] = <<>>
      BY <1>4 DEF Joins, JoinsTo
    <2>4. QED
      BY <2>2, <2>3
  <1>13. at[1] = 2 /\ at[n + 1] = Len(words) + 1
    <2>1. 1 \in 1 .. n + 1 /\ n + 1 \in 1 .. n + 1 /\ 1 - 1 = 0 /\ (n + 1) - 1 = n
      BY <1>1
    <2>2. at[1] = 2 + Len(fl[0]) /\ at[n + 1] = 2 + Len(fl[n])
      BY <2>1
    <2> HIDE DEF at, words
    <2>3. at[1] = 2
      BY <1>12, <2>2
    <2>4. at[n + 1] = 2 + Len(b)
      BY <2>2 DEF b
    <2> HIDE DEF b
    <2>5. at[n + 1] = Len(words) + 1
      BY <1>9, <2>4
    <2>6. QED
      BY <2>3, <2>5
  <1>14. ASSUME NEW i \in 1 .. n
         PROVE  /\ at[i] \in Nat /\ LengthOf(objs[i]) \in Nat
                /\ 2 <= at[i] /\ at[i] <= at[n]
                /\ at[i + 1] = at[i] + 1 + LengthOf(objs[i])
                /\ words[at[i]] = ObjWord(objs[i].type, LengthOf(objs[i]))
                /\ \A j \in 1 .. LengthOf(objs[i]) :
                      words[at[i] + j] = BodyWords(objs[i])[j]
    <2> DEFINE c == Len(fl[i - 1])
               d == Len(fl[i])
               e == LengthOf(objs[i])
               f == Len(fl[n - 1])
               z == Len(b)
    <2>1. i \in 1 .. Len(s) /\ n \in i .. Len(s) /\ s[i] = ObjectWords(objs[i])
      BY <1>1, <1>3
    <2>2. /\ c \in Nat /\ d = c + Len(s[i]) /\ d <= Len(fl[n])
          /\ \A j \in 1 .. Len(s[i]) : fl[n][c + j] = s[i][j]
      <3> HIDE DEF at, words, b
      <3>1. StandsIn(fl, s, i, n)
        BY <1>3, <1>4, <2>1, JoinedAt
      <3>2. QED
        BY <3>1 DEF StandsIn, b
    <2>3. i \in 1 .. n + 1 /\ i + 1 \in 1 .. n + 1 /\ (i + 1) - 1 = i
          /\ n \in 1 .. n + 1
      BY <1>1
    <2>4. at[i] = 2 + c /\ at[i + 1] = 2 + d /\ at[n] = 2 + f
      <3> DEFINE F(x) == 2 + Len(fl[x - 1])
      <3>1. \A x \in 1 .. n + 1 : at[x] = F(x)
        OBVIOUS
      <3> HIDE DEF at, F
      <3>2. at[i] = F(i) /\ at[i + 1] = F(i + 1) /\ at[n] = F(n)
        BY <2>3, <3>1
      <3>3. QED
        BY <2>3, <3>2 DEF F
    <2>5. e \in Nat /\ Len(s[i]) = 1 + e
          /\ s[i][1] = ObjWord(objs[i].type, e)
          /\ \A j \in 1 .. e : s[i][1 + j] = BodyWords(objs[i])[j]
      BY <1>2, <2>1
    <2>6. c <= f /\ f \in Nat
      <3>1. n - 1 \in 0 .. Len(s) /\ i - 1 \in 0 .. n - 1
        BY <1>1, <1>3
      <3> HIDE DEF at, words
      <3>2. QED
        BY <1>3, <1>4, <3>1, JoinedPrefix
    <2>7. d <= z /\ \A j \in 1 .. Len(s[i]) : b[c + j] = s[i][j]
      BY <2>2
    <2> HIDE DEF at, b, c, d, e, f, z, words
    <2>8. d = c + 1 + e
      BY <2>2, <2>5
    <2>9. /\ at[i] \in Nat /\ 2 <= at[i] /\ at[i] <= at[n]
          /\ at[i + 1] = at[i] + 1 + e
      BY <2>2, <2>4, <2>5, <2>6, <2>8
    <2>10. z \in Nat /\ \A p \in 1 .. z : words[1 + p] = b[p]
      BY <1>9 DEF z
    <2>11. \A j \in 1 .. 1 + e : c + j \in 1 .. z /\ 1 + (c + j) = at[i] + (j - 1)
      BY <2>2, <2>4, <2>5, <2>7, <2>8, <2>10
    <2>12. \A j \in 1 .. 1 + e : words[at[i] + (j - 1)] = s[i][j]
      <3>1. \A j \in 1 .. 1 + e : words[1 + (c + j)] = b[c + j]
        BY <2>10, <2>11
      <3>2. \A j \in 1 .. 1 + e : b[c + j] = s[i][j]
        BY <2>5, <2>7
      <3>3. QED
        BY <2>11, <3>1, <3>2
    <2>13. words[at[i]] = ObjWord(objs[i].type, e)
      <3>1. 1 \in 1 .. 1 + e /\ at[i] + (1 - 1) = at[i]
        BY <2>5, <2>9
      <3>2. QED
        BY <2>5, <2>12, <3>1
    <2>14. ASSUME NEW j \in 1 .. e
           PROVE  words[at[i] + j] = BodyWords(objs[i])[j]
      <3>1. 1 + j \in 1 .. 1 + e /\ (1 + j) - 1 = j
        BY <2>5
      <3>2. words[at[i] + ((1 + j) - 1)] = s[i][1 + j]
        BY <2>12, <3>1
      <3>3. QED
        BY <2>5, <3>1, <3>2
    <2>15. QED
      BY <2>5, <2>9, <2>13, <2>14 DEF e
  <1> HIDE DEF at, words
  <1>15. Laid(words, objs, n, at)
    BY <1>11, <1>13, <1>14 DEF Laid
  <1>16. words = Words(type, objs)
    BY <1>6 DEF words, a, b
  <1>17. QED
    BY <1>9, <1>15, <1>16 DEF h

(***************************************************************************)
(* The words of a message, or what is left when less than its last object  *)
(* is cut off, read object after object.                                   *)
(***************************************************************************)
CutOff(words, cut) == SubSeq(words, 1, Len(words) - cut)

Complete(objs, n, cut, i) == Readable1(objs[i]) /\ (cut = 0 \/ i # n)

(* Everything before object b is read, and b is broken. *)
StopsAt(read, objs, b) ==
    read = [i \in 1 .. b |-> IF i = b THEN Broken ELSE objs[i]]

LEMMA CutIs ==
    ASSUME NEW words, NEW cut \in Nat, Len(words) \in Nat, cut < Len(words),
           words = [p \in 1 .. Len(words) |-> words[p]]
    PROVE  /\ Len(CutOff(words, cut)) = Len(words) - cut
           /\ \A p \in 1 .. Len(words) - cut : CutOff(words, cut)[p] = words[p]
           /\ cut = 0 => CutOff(words, cut) = words
  <1> DEFINE k == Len(words) - cut
             X == {words[p] : p \in 1 .. Len(words)}
  <1>1. k \in Nat /\ k <= Len(words)
    OBVIOUS
  <1>2. words \in Seq(X)
    OBVIOUS
  <1>3. /\ Len(SubSeq(words, 1, k)) = k
        /\ \A p \in 1 .. k : SubSeq(words, 1, k)[p] = words[p]
    <2> HIDE DEF X, k
    <2>1. \A p \in 1 .. k : p \in 1 .. Len(words)
      BY <1>1
    <2>2. SubSeq(words, 1, k) = [p \in 1 .. k |-> words[p]]
      BY <1>1, <1>2
    <2>3. QED
      BY <1>1, <2>2
  <1>4. cut = 0 => SubSeq(words, 1, k) = words
    BY <1>2
  <1>5. QED
    BY <1>3, <1>4 DEF CutOff

LEMMA ReadsComplete ==
    ASSUME NEW n, NEW objs, Sendable(objs, n), NEW words, NEW at,
           Laid(words, objs, n, at),
           NEW cut \in Nat, cut > 0 => n > 0 /\ cut <= LengthOf(objs[n]),
           NEW w, w = CutOff(words, cut)
    PROVE  /\ Lengths(w) /\ Len(w) >= 1 /\ Len(w) = Len(words) - cut
           /\ w[1] = words[1]
           /\ \A i \in 1 .. n :
                 /\ at[i] \in 2 .. Len(w) /\ w[at[i]].len = LengthOf(objs[i])
                 /\ ReadObject(w, at[i]) =
                       IF Complete(objs, n, cut, i) THEN objs[i] ELSE Broken
  <1> DEFINE L == Len(words)
             l(i) == LengthOf(objs[i])
  <1>1. n \in Nat /\ L \in Nat /\ L >= 1
    BY DEF Laid, Sendable
  <1>2. \A i \in 1 .. n : /\ at[i] \in Nat /\ l(i) \in Nat /\ 2 <= at[i]
                          /\ at[i] <= at[n] /\ at[i + 1] = at[i] + 1 + l(i)
    BY DEF Laid
  <1>3. at[n + 1] = L + 1
    BY DEF Laid
  <1>4. n > 0 => at[n] + l(n) = L /\ at[n] >= 2 /\ at[n] \in Nat /\ l(n) \in Nat
    <2> HIDE DEF L, l
    <2>1. n > 0 => n \in 1 .. n
      BY <1>1
    <2>2. QED
      BY <1>1, <1>2, <1>3, <2>1
  <1>5. cut < L /\ (n > 0 => at[n] <= L - cut)
    <2> HIDE DEF L
    <2>1. cut > 0 => n > 0 /\ cut <= l(n)
      OBVIOUS
    <2> HIDE DEF l
    <2>2. CASE cut = 0
      BY <1>1, <1>4, <2>2
    <2>3. CASE cut # 0
      BY <1>1, <1>4, <2>1, <2>3
    <2>4. QED
      BY <2>2, <2>3
  <1>6. /\ Len(w) = L - cut /\ \A p \in 1 .. L - cut : w[p] = words[p]
        /\ L - cut \in Nat /\ L - cut >= 1
    <2>1. words = [p \in 1 .. Len(words) |-> words[p]]
      BY DEF Laid
    <2>2. /\ Len(w) = L - cut /\ \A p \in 1 .. L - cut : w[p] = words[p]
      BY <1>1, <1>5, <2>1, CutIs
    <2> HIDE DEF L
    <2>3. QED
      BY <1>1, <1>5, <2>2
  <1>7. Lengths(w)
    <2>1. \A p \in 1 .. L : words[p].len \in Nat
      BY DEF Laid
    <2> HIDE DEF L
    <2>2. \A p \in 2 .. L - cut : p \in 1 .. L - cut /\ p \in 1 .. L
      BY <1>1, <1>5
    <2>3. QED
      BY <1>6, <2>1, <2>2 DEF Lengths
  <1>8. w[1] = words[1]
    <2>1. 1 \in 1 .. L - cut
      BY <1>6
    <2>2. QED
      BY <1>6, <2>1
  <1>9. ASSUME NEW i \in 1 .. n
        PROVE  /\ at[i] \in 2 .. Len(w) /\ w[at[i]].len = LengthOf(objs[i])
               /\ ReadObject(w, at[i]) =
                     IF Complete(objs, n, cut, i) THEN objs[i] ELSE Broken
    <2> DEFINE o == objs[i]
    <2>1. n > 0
      BY <1>1
    <2>2. at[i] \in Nat /\ l(i) \in Nat /\ 2 <= at[i] /\ at[i] <= at[n]
      BY <1>2
    <2> HIDE DEF L, l
    <2>3. at[i] \in 2 .. L - cut
      BY <1>4, <1>5, <1>6, <2>1, <2>2
    <2>4. o \in WireObjects /\ RightLength(o)
      BY DEF Sendable
    <2>5. words[at[i]] = ObjWord(o.type, LengthOf(o))
          /\ \A j \in 1 .. LengthOf(o) : words[at[i] + j] = BodyWords(o)[j]
      BY DEF Laid
    <2>6. w[at[i]] = ObjWord(o.type, LengthOf(o)) /\ at[i] \in 1 .. L - cut
      BY <1>6, <2>3, <2>5
    <2>7. CASE cut = 0 \/ i # n
      <3>1. at[i] + l(i) <= L - cut
        <4>1. CASE cut = 0 /\ i = n
          BY <1>1, <1>4, <2>1, <4>1
        <4>2. CASE i # n
          <5>1. i + 1 \in 1 .. n
            BY <1>1, <4>2
          <5>2. at[i + 1] <= at[n] /\ at[i + 1] = at[i] + 1 + l(i)
            BY <1>2, <5>1
          <5>3. QED
            BY <1>4, <1>5, <1>6, <2>1, <2>2, <5>2
        <4>3. QED
          BY <2>7, <4>1, <4>2
      <3>2. \A j \in 1 .. l(i) : w[at[i] + j] = words[at[i] + j]
        <4>1. \A j \in 1 .. l(i) : at[i] + j \in 1 .. L - cut
          BY <1>6, <2>2, <3>1
        <4>2. QED
          BY <1>6, <4>1
      <3>3. \A j \in 1 .. Len(BodyWords(o)) : w[at[i] + j] = BodyWords(o)[j]
        BY <2>5, <3>2 DEF l, LengthOf
      <3>4. at[i] + Len(BodyWords(o)) <= Len(w)
        BY <1>6, <3>1 DEF l, LengthOf
      <3>5. w[at[i]] = ObjWord(o.type, Len(BodyWords(o)))
        BY <2>6 DEF LengthOf
      <3> HIDE DEF o
      <3>6. ReadObject(w, at[i]) = IF Readable1(o) THEN o ELSE Broken
        BY <1>6, <2>2, <2>4, <3>3, <3>4, <3>5, ReadsBack
      <3>7. QED
        BY <1>6, <2>3, <2>6, <2>7, <3>6 DEF Complete, o, ObjWord
    <2>8. CASE ~(cut = 0 \/ i # n)
      <3>1. at[i] + l(i) > L - cut
        BY <1>1, <1>4, <2>1, <2>8
      <3>2. at[i] + Len(BodyWords(o)) > Len(w)
        BY <1>6, <3>1 DEF l, LengthOf
      <3>3. w[at[i]] = ObjWord(o.type, Len(BodyWords(o)))
        BY <2>6 DEF LengthOf
      <3> HIDE DEF o
      <3>4. ReadObject(w, at[i]) = Broken
        BY <3>2, <3>3, ReadsCut
      <3>5. QED
        BY <1>6, <2>3, <2>6, <2>8, <3>4 DEF Complete, o, ObjWord
    <2>9. QED
      BY <2>7, <2>8
  <1>10. QED
    BY <1>6, <1>7, <1>8, <1>9

LEMMA NotBroken ==
    ASSUME NEW o \in WireObjects
    PROVE  o # Broken
  <1>1. o.type \in Nat
    BY DEF WireObjects
  <1>2. o.type # -1
    BY <1>1
  <1>3. QED
    BY <1>2 DEF Broken, Object

LEMMA WordsRead ==
    ASSUME NEW type, NEW n, NEW objs, Sendable(objs, n),
           NEW cut \in Nat, cut > 0 => n > 0 /\ cut <= LengthOf(objs[n]),
           NEW w, w = CutOff(Words(type, objs), cut)
    PROVE  /\ w # <<>> /\ w[1].n = type
           /\ (\A i \in 1 .. n : Complete(objs, n, cut, i)) => ReadObjects(w) = objs
           /\ (\E i \in 1 .. n : ~Complete(objs, n, cut, i)) =>
                 \E b \in 1 .. n : /\ StopsAt(ReadObjects(w), objs, b)
                                   /\ \A i \in 1 .. b - 1 : Complete(objs, n, cut, i)
  <1> DEFINE words == Words(type, objs)
  <1>1. (\E at : Laid(words, objs, n, at)) /\ words[1] = MsgWord(type)
    BY WordsLaid
  <1>2. PICK at : Laid(words, objs, n, at)
    BY <1>1
  <1> HIDE DEF words
  <1>3. /\ Lengths(w) /\ Len(w) >= 1 /\ Len(w) = Len(words) - cut
        /\ w[1] = words[1]
        /\ \A i \in 1 .. n :
              /\ at[i] \in 2 .. Len(w) /\ w[at[i]].len = LengthOf(objs[i])
              /\ ReadObject(w, at[i]) =
                    IF Complete(objs, n, cut, i) THEN objs[i] ELSE Broken
    <2>1. w = CutOff(words, cut)
      BY DEF words
    <2>2. QED
      BY <1>2, <2>1, ReadsComplete
  <1>4. n \in Nat /\ Len(words) \in Nat /\ at[n + 1] = Len(words) + 1 /\ at[1] = 2
        /\ \A i \in 1 .. n : at[i + 1] = at[i] + 1 + LengthOf(objs[i])
    BY <1>2 DEF Laid, Sendable
  <1>5. \A i \in 1 .. n : objs[i] # Broken
    BY NotBroken DEF Sendable
  <1>6. ASSUME \A i \in 1 .. n : Complete(objs, n, cut, i)
        PROVE  ReadObjects(w) = objs
    <2>1. objs = [i \in 1 .. n |-> objs[i]]
      BY DEF Sendable
    <2>2. cut = 0 \/ n = 0
      <3>1. n # 0 => n \in 1 .. n
        BY <1>4
      <3>2. QED
        BY <1>6, <3>1 DEF Complete
    <2>3. cut = 0
      BY <1>4, <2>2
    <2>4. Len(w) = Len(words)
      BY <1>3, <1>4, <2>3
    <2>5. StandAt(w, at, objs, n)
      <3>1. \A i \in 1 .. n : /\ at[i] \in 2 .. Len(w)
                              /\ ReadObject(w, at[i]) = objs[i]
                              /\ objs[i] # Broken
                              /\ at[i + 1] = at[i] + 1 + w[at[i]].len
        BY <1>3, <1>4, <1>5, <1>6
      <3>2. n = 0 => Len(w) + 1 = 2
        BY <1>4, <2>4
      <3>3. n > 0 => n \in 1 .. n
        BY <1>4
      <3>4. n > 0 => at[n] + 1 + w[at[n]].len = Len(w) + 1
        BY <1>4, <2>4, <3>1, <3>3
      <3>5. QED
        BY <1>4, <3>1, <3>2, <3>4 DEF StandAt
    <2>6. QED
      BY <1>3, <1>4, <2>1, <2>5, ObjectsStand
  <1>7. ASSUME \E i \in 1 .. n : ~Complete(objs, n, cut, i)
        PROVE  \E b \in 1 .. n : /\ StopsAt(ReadObjects(w), objs, b)
                                 /\ \A i \in 1 .. b - 1 : Complete(objs, n, cut, i)
    <2> DEFINE B == {i \in 1 .. n : ~Complete(objs, n, cut, i)}
    <2>1. PICK b \in B : \A i \in B : b <= i
      <3>1. B \in SUBSET Nat /\ B # {}
        BY <1>7
      <3> HIDE DEF B
      <3>2. QED
        BY <3>1, LeastNumber
    <2>2. b \in 1 .. n /\ ~Complete(objs, n, cut, b) /\ b \in Nat /\ b > 0
      OBVIOUS
    <2>3. \A i \in 1 .. b - 1 : i \in 1 .. n /\ Complete(objs, n, cut, i)
      <3> SUFFICES ASSUME NEW i \in 1 .. b - 1
                   PROVE  i \in 1 .. n /\ Complete(objs, n, cut, i)
        OBVIOUS
      <3>1. i \in 1 .. n /\ ~(b <= i)
        BY <1>4, <2>2
      <3>2. QED
        BY <2>1, <3>1
    <2> HIDE DEF B
    <2> DEFINE res == [i \in 1 .. b |-> IF i = b THEN Broken ELSE objs[i]]
    <2>4. \A i \in 1 .. b : i = b \/ i \in 1 .. b - 1
      BY <2>2
    <2>5. b \in 1 .. b
      BY <2>2
    <2>6. res[b] = Broken /\ \A i \in 1 .. b - 1 : i \in 1 .. b /\ i # b /\ res[i] = objs[i]
      BY <2>2, <2>5
    <2>7. res = [i \in 1 .. b |-> res[i]]
      OBVIOUS
    <2> HIDE DEF res
    <2>8. StandAt(w, at, res, b)
      <3>1. \A i \in 1 .. b : /\ at[i] \in 2 .. Len(w)
                              /\ ReadObject(w, at[i]) = res[i]
        BY <1>3, <2>2, <2>3, <2>4, <2>6
      <3>2. \A i \in 1 .. b : res[i] = Broken => i = b
        BY <1>5, <2>3, <2>4, <2>6
      <3>3. \A i \in 1 .. b : i < b => at[i + 1] = at[i] + 1 + w[at[i]].len
        BY <1>3, <1>4, <2>2, <2>3, <2>4
      <3>4. QED
        BY <1>4, <2>2, <2>6, <3>1, <3>2, <3>3 DEF StandAt
    <2>9. ReadObjects(w) = res
      BY <1>3, <2>2, <2>7, <2>8, ObjectsStand
    <2>10. QED
      BY <2>2, <2>3, <2>9 DEF StopsAt, res
  <1>8. w # <<>>
    BY <1>3
  <1>9. w[1].n = type
    BY <1>1, <1>3 DEF MsgWord
  <1>10. QED
    BY <1>6, <1>7, <1>8, <1>9

(***************************************************************************)
(* MNSLP_IEManager::deserialize() on the words of a message.               *)
(***************************************************************************)
Accepted(type, objs, n, cut) ==
    /\ type \in MessageTypes /\ n > 0
    /\ \A i \in 1 .. n : Complete(objs, n, cut, i)
    /\ NoDoubles(objs, n)

LEMMA DeserializeIs ==
    ASSUME NEW type, NEW n, NEW objs, Sendable(objs, n),
           NEW cut \in Nat, cut > 0 => n > 0 /\ cut <= LengthOf(objs[n]),
           NEW m, m = Deserialize(CutOff(Words(type, objs), cut))
    PROVE  /\ ~Accepted(type, objs, n, cut) => m = Refused
           /\ Accepted(type, objs, n, cut) =>
                 m = [type |-> type, store |-> m.store] /\ Holds(m.store, objs, n)
  <1> DEFINE w == CutOff(Words(type, objs), cut)
             f == FoldLeft(AddRead, NewMessage(w[1].n), ReadObjects(w))
  <1>1. /\ w # <<>> /\ w[1].n = type
        /\ (\A i \in 1 .. n : Complete(objs, n, cut, i)) => ReadObjects(w) = objs
        /\ (\E i \in 1 .. n : ~Complete(objs, n, cut, i)) =>
              \E b \in 1 .. n : /\ StopsAt(ReadObjects(w), objs, b)
                                /\ \A i \in 1 .. b - 1 : Complete(objs, n, cut, i)
    BY WordsRead
  <1>2. m = IF w = <<>> \/ w[1].n \notin MessageTypes THEN Refused
            ELSE IF f.store = EmptyStore THEN Refused ELSE f
    BY DEF Deserialize
  <1>3. f = FoldLeft(AddRead, NewMessage(type), ReadObjects(w))
    BY <1>1
  <1> HIDE DEF w, f
  <1>4. n \in Nat /\ DOMAIN objs = 1 .. n
    BY DEF Sendable
  <1>5. CASE type \notin MessageTypes
    BY <1>1, <1>2, <1>5 DEF Accepted
  <1>6. CASE type \in MessageTypes /\ \E i \in 1 .. n : ~Complete(objs, n, cut, i)
    <2>1. PICK b \in 1 .. n : /\ StopsAt(ReadObjects(w), objs, b)
                              /\ \A i \in 1 .. b - 1 : Complete(objs, n, cut, i)
      BY <1>1, <1>6
    <2> DEFINE read == ReadObjects(w)
    <2>2. read = [i \in 1 .. b |-> IF i = b THEN Broken ELSE objs[i]]
      BY <2>1 DEF StopsAt
    <2> HIDE DEF read
    <2>3. b \in Nat /\ DOMAIN read = 1 .. b /\ b \in 1 .. b
      BY <1>4, <2>2
    <2>4. read[b] = Broken /\ \A i \in 1 .. b : i # b => read[i] = objs[i]
      BY <2>2, <2>3
    <2>5. \A i \in 1 .. b : i # b => i \in 1 .. b - 1
      BY <2>3
    <2>6. \A i \in 1 .. b : read[i] = Broken \/ read[i].type \in ObjectTypes
      BY <2>1, <2>4, <2>5 DEF Complete, Readable1
    <2>7. RefusedAt(read, b)
      BY <2>4 DEF RefusedAt
    <2>8. FoldLeft(AddRead, NewMessage(type), read) = Refused
      BY <1>6, <2>3, <2>6, <2>7, ReadRefuses
    <2>9. f = Refused
      BY <1>3, <2>8 DEF read
    <2>10. m = Refused
      BY <1>2, <2>9
    <2>11. QED
      BY <1>6, <2>10 DEF Accepted
  <1>7. CASE /\ type \in MessageTypes
             /\ \A i \in 1 .. n : Complete(objs, n, cut, i)
    <2>1. f = FoldLeft(AddRead, NewMessage(type), objs)
      BY <1>1, <1>3, <1>7
    <2>2. \A i \in 1 .. n : objs[i].type \in ObjectTypes
      BY <1>7 DEF Complete, Readable1
    <2>3. CASE ~NoDoubles(objs, n)
      <3>1. \E i \in 1 .. n : RefusedAt(objs, i)
        <4>1. PICK i \in 1 .. n, j \in 1 .. n :
                 /\ i # j /\ objs[i].type = objs[j].type
                 /\ objs[i].type # IpfixMessage
          BY <2>3 DEF NoDoubles
        <4>2. j < i => j \in 1 .. i - 1
          BY <1>4
        <4>3. i < j => i \in 1 .. j - 1
          BY <1>4
        <4>4. j < i \/ i < j
          BY <1>4, <4>1
        <4>5. QED
          BY <4>1, <4>2, <4>3, <4>4 DEF RefusedAt, Unique
      <3>2. f = Refused
        BY <1>4, <1>7, <2>1, <2>2, <3>1, ReadRefuses
      <3>3. QED
        BY <1>2, <2>3, <3>2 DEF Accepted
    <2>4. CASE NoDoubles(objs, n)
      <3>1. f = [type |-> type, store |-> f.store] /\ Holds(f.store, objs, n)
        <4>1. Known(objs, n)
          BY <2>2 DEF Known
        <4>2. QED
          BY <1>4, <1>7, <2>1, <2>4, <4>1, ReadAll
      <3>2. CASE n = 0
        <4>1. Holds(EmptyStore, objs, 0)
          BY EmptyHolds
        <4>2. f.store = EmptyStore
          BY <3>1, <3>2, <4>1, HoldsUnique
        <4>3. QED
          BY <1>2, <3>2, <4>2 DEF Accepted
      <3>3. CASE n # 0
        <4>1. 1 \in 1 .. n
          BY <1>4, <3>3
        <4>2. KeyAt(objs, 1) \in DOMAIN f.store
          BY <3>1, <4>1 DEF Holds
        <4>3. f.store # EmptyStore
          BY <4>2 DEF EmptyStore
        <4>4. m = f
          BY <1>1, <1>2, <1>7, <4>3
        <4>5. Accepted(type, objs, n, cut)
          BY <1>4, <1>7, <2>4, <3>3 DEF Accepted
        <4>6. QED
          BY <3>1, <4>4, <4>5
      <3>4. QED
        BY <3>2, <3>3
    <2>5. QED
      BY <2>3, <2>4
  <1>8. QED
    BY <1>5, <1>6, <1>7

(***************************************************************************)
(* What a peer has sent.                                                   *)
(***************************************************************************)
LEMMA PeerSendable ==
    ASSUME NEW p \in PeerMessages
    PROVE  LET n == Len(p.objs) IN
           /\ n \in Nat /\ Sendable(p.objs, n) /\ p.cut \in Nat
           /\ p.cut > 0 => n > 0 /\ p.cut <= LengthOf(p.objs[n])
  <1> DEFINE q == p.objs
             n == Len(q)
  <1>1. /\ q \in Seq(WireObjects) /\ p.cut \in Nat
        /\ \A i \in DOMAIN q : RightLength(q[i])
        /\ p.cut > 0 => q # <<>> /\ p.cut <= Len(BodyWords(Last(q)))
    BY PeerAssumption
  <1> HIDE DEF q
  <1>2. /\ n \in Nat /\ DOMAIN q = 1 .. n /\ q = [i \in 1 .. n |-> q[i]]
        /\ \A i \in 1 .. n : q[i] \in WireObjects
        /\ q # <<>> => n > 0
    BY <1>1
  <1>3. Sendable(q, n)
    BY <1>1, <1>2 DEF Sendable
  <1>4. p.cut > 0 => n > 0 /\ p.cut <= LengthOf(q[n])
    BY <1>1, <1>2 DEF Last, LengthOf
  <1>5. QED
    BY <1>1, <1>2, <1>3, <1>4 DEF q

LEMMA FaultyIs ==
    ASSUME NEW p \in PeerMessages
    PROVE  Faulty(p) <=> ~Accepted(p.type, p.objs, Len(p.objs), p.cut)
  <1> DEFINE q == p.objs
             n == Len(q)
  <1>1. n \in Nat /\ Sendable(q, n) /\ p.cut \in Nat
        /\ (p.cut > 0 => n > 0)
    BY PeerSendable
  <1>2. DOMAIN q = 1 .. n /\ (q = <<>> <=> n = 0)
    BY <1>1 DEF Sendable
  <1> HIDE DEF q, n
  <1> DEFINE Bad(i) == \/ q[i].type \notin ObjectTypes
                       \/ q[i].type = IpfixMessage /\ q[i].body \notin Readable
                       \/ q[i].type = InformationCode /\ q[i].body[3] # 0
             Again(i) == \E j \in 1 .. i - 1 :
                            q[j].type = q[i].type /\ q[i].type # IpfixMessage
  <1>3. Faulty(p) <=> \/ p.type \notin MessageTypes \/ q = <<>> \/ p.cut > 0
                      \/ \E i \in 1 .. n : Bad(i) \/ Again(i)
    BY <1>2 DEF Faulty, q
  <1>4. \A i \in 1 .. n : Bad(i) <=> ~Readable1(q[i])
    BY DEF Readable1
  <1>5. (\E i \in 1 .. n : Again(i)) <=> ~NoDoubles(q, n)
    <2>1. ASSUME NEW i \in 1 .. n, Again(i)
          PROVE  ~NoDoubles(q, n)
      <3>1. PICK j \in 1 .. i - 1 :
                q[j].type = q[i].type /\ q[i].type # IpfixMessage
        BY <2>1
      <3>2. j \in 1 .. n /\ i # j
        BY <1>1
      <3>3. QED
        BY <3>1, <3>2 DEF NoDoubles
    <2>2. ASSUME ~NoDoubles(q, n)
          PROVE  \E i \in 1 .. n : Again(i)
      <3>1. PICK i \in 1 .. n, j \in 1 .. n :
               /\ i # j /\ q[i].type = q[j].type /\ q[i].type # IpfixMessage
        BY <2>2 DEF NoDoubles
      <3>2. j < i => j \in 1 .. i - 1
        BY <1>1
      <3>3. i < j => i \in 1 .. j - 1
        BY <1>1
      <3>4. j < i \/ i < j
        BY <1>1, <3>1
      <3>5. QED
        BY <3>1, <3>2, <3>3, <3>4
    <2> HIDE DEF Again
    <2>3. QED
      BY <2>1, <2>2
  <1> HIDE DEF Bad, Again
  <1>6. Accepted(p.type, q, n, p.cut) <=>
           /\ p.type \in MessageTypes /\ n > 0
           /\ \A i \in 1 .. n : Readable1(q[i]) /\ (p.cut = 0 \/ i # n)
           /\ NoDoubles(q, n)
    BY DEF Accepted, Complete
  <1>7. n > 0 => n \in 1 .. n
    BY <1>1
  <1>8. Accepted(p.type, q, n, p.cut) <=>
           /\ p.type \in MessageTypes /\ n > 0 /\ p.cut = 0
           /\ \A i \in 1 .. n : Readable1(q[i])
           /\ NoDoubles(q, n)
    BY <1>6, <1>7
  <1>9. (n > 0 <=> ~(q = <<>>)) /\ (p.cut = 0 <=> ~(p.cut > 0))
    BY <1>1, <1>2
  <1>10. Faulty(p) <=> ~Accepted(p.type, q, n, p.cut)
    BY <1>3, <1>4, <1>5, <1>8, <1>9
  <1>11. QED
    BY <1>10 DEF q, n

LEMMA PeerIsRead ==
    ASSUME NEW p \in PeerMessages, NEW words, words = Words(p.type, p.objs),
           NEW m, m = Deserialize(SubSeq(words, 1, Len(words) - p.cut))
    PROVE  /\ Faulty(p) => m = Refused
           /\ ~Faulty(p) => /\ m = [type |-> p.type, store |-> m.store]
                            /\ p.type \in MessageTypes
                            /\ Holds(m.store, p.objs, Len(p.objs))
  <1> DEFINE n == Len(p.objs)
  <1>1. n \in Nat /\ Sendable(p.objs, n) /\ p.cut \in Nat
        /\ (p.cut > 0 => n > 0 /\ p.cut <= LengthOf(p.objs[n]))
    BY PeerSendable
  <1>2. m = Deserialize(CutOff(Words(p.type, p.objs), p.cut))
    BY DEF CutOff
  <1> HIDE DEF n
  <1>3. /\ ~Accepted(p.type, p.objs, n, p.cut) => m = Refused
        /\ Accepted(p.type, p.objs, n, p.cut) =>
              m = [type |-> p.type, store |-> m.store] /\ Holds(m.store, p.objs, n)
    BY <1>1, <1>2, DeserializeIs
  <1>4. Faulty(p) <=> ~Accepted(p.type, p.objs, n, p.cut)
    BY FaultyIs DEF n
  <1>5. QED
    BY <1>3, <1>4 DEF n, Accepted

(***************************************************************************)
(* The objects serialize() writes are those of the store, in an order in   *)
(* which set_object() would give them the keys they have.                  *)
(***************************************************************************)
MessageOK(m, n) ==
    /\ m = [type |-> m.type, store |-> m.store] /\ m.type \in MessageTypes
    /\ n \in Nat /\ StoreOK(m.store, n) /\ KeyTypes(m) \subseteq Settable(m.type)

LEMMA TypesWritten ==
    ASSUME NEW type \in MessageTypes
    PROVE  LET wt == WrittenTypes(type) IN
           /\ Len(wt) \in Nat /\ DOMAIN wt = 1 .. Len(wt) /\ wt \in Seq(Nat)
           /\ \A i \in 1 .. Len(wt) :
                 wt[i] \in ObjectTypes /\ wt[i] # IpfixMessage
           /\ \A i, j \in 1 .. Len(wt) : i # j => wt[i] # wt[j]
           /\ \A t \in Settable(type) :
                 t = IpfixMessage \/ \E i \in 1 .. Len(wt) : wt[i] = t
  <1> USE DEF MessageTypes, Configure, Response, Notify, Options, Refresh,
              WrittenTypes, Settable, ConfigureSets, ResponseSets,
              ConfigureWrites, ResponseWrites, RefreshWrites, NotifyWrites,
              OptionsWrites, ObjectTypes, SimpleTypes, InformationCode,
              SelectionMeteringEntities, MessageHopCount, MsgSequenceNumber,
              SessionLifetime, IpfixMessage, ToSet
  <1>1. CASE type = 1
    BY <1>1
  <1>2. CASE type = 2
    BY <1>2
  <1>3. CASE type = 3
    BY <1>3
  <1>4. CASE type = 4
    BY <1>4
  <1>5. CASE type = 5
    BY <1>5
  <1>6. \/ type = 1 \/ type = 2 \/ type = 3 \/ type = 4 \/ type = 5
    OBVIOUS
  <1> HIDE DEF WrittenTypes, Settable
  <1>7. QED
    BY ONLY <1>1, <1>2, <1>3, <1>4, <1>5, <1>6

(* An entry is where its key says. *)
LEMMA EntryUnder ==
    ASSUME NEW store, NEW n \in Nat, StoreOK(store, n),
           NEW t \in ObjectTypes, NEW seq \in Nat, SequenceOf(t, seq),
           Has(store, t, seq)
    PROVE  /\ store[Key(t, seq)] = [type |-> t, seq |-> seq, obj |-> Get(store, t, seq)]
           /\ Get(store, t, seq).type = t
  <1> DEFINE k == Key(t, seq)
  <1>1. k \in DOMAIN store
    BY DEF Has
  <1>2. /\ store[k] = [type |-> store[k].type, seq |-> store[k].seq, obj |-> store[k].obj]
        /\ store[k].type \in ObjectTypes /\ store[k].seq \in Nat
        /\ SequenceOf(store[k].type, store[k].seq)
        /\ k = Key(store[k].type, store[k].seq)
        /\ store[k].obj.type = store[k].type
    BY <1>1 DEF StoreOK
  <1>3. store[k].type = t /\ store[k].seq = seq
    BY <1>2, KeysDistinct
  <1>4. store[k].obj = Get(store, t, seq)
    BY DEF Get
  <1> HIDE DEF k
  <1>5. QED
    BY <1>2, <1>3, <1>4 DEF k

LEMMA ReportsStored ==
    ASSUME NEW store, NEW n \in Nat, StoreOK(store, n)
    PROVE  /\ \A i \in 1 .. n : Has(store, IpfixMessage, i)
           /\ \A k \in DOMAIN store :
                 store[k].type = IpfixMessage => store[k].seq \in 1 .. n
  <1>1. ReportSequences(store) = 1 .. n
    BY DEF StoreOK
  <1>2. \A i \in 1 .. n : Has(store, IpfixMessage, i)
    <2> SUFFICES ASSUME NEW i \in 1 .. n PROVE Has(store, IpfixMessage, i)
      OBVIOUS
    <2>1. PICK k \in DOMAIN store : store[k].type = IpfixMessage /\ store[k].seq = i
      BY <1>1 DEF ReportSequences, Range
    <2>2. k = Key(store[k].type, store[k].seq)
      BY DEF StoreOK
    <2>3. QED
      BY <2>1, <2>2 DEF Has
  <1>3. \A k \in DOMAIN store :
           store[k].type = IpfixMessage => store[k].seq \in 1 .. n
    BY <1>1 DEF ReportSequences, Range
  <1>4. QED
    BY <1>2, <1>3

(* The keys serialize() goes through. *)
KeysOf(m) ==
    [i \in DOMAIN WrittenTypes(m.type) |-> <<WrittenTypes(m.type)[i], 1>>]
      \o (IF IpfixMessage \in Settable(m.type) THEN Reports(m) ELSE <<>>)

KeyOf(wt, c, i) == IF i <= c THEN <<wt[i], 1>> ELSE <<IpfixMessage, i - c>>

LEMMA KeysGone ==
    ASSUME NEW m, NEW n, MessageOK(m, n)
    PROVE  LET wt == WrittenTypes(m.type)
               c == Len(wt)
           IN  KeysOf(m) = [i \in 1 .. c + n |-> KeyOf(wt, c, i)]
  <1> DEFINE wt == WrittenTypes(m.type)
             c == Len(wt)
             a == [i \in DOMAIN wt |-> <<wt[i], 1>>]
             b == IF IpfixMessage \in Settable(m.type) THEN Reports(m) ELSE <<>>
             X == Nat \X Nat
  <1>1. n \in Nat /\ m.type \in MessageTypes /\ StoreOK(m.store, n)
        /\ KeyTypes(m) \subseteq Settable(m.type)
    BY DEF MessageOK
  <1>2. c \in Nat /\ DOMAIN wt = 1 .. c /\ \A i \in 1 .. c : wt[i] \in Nat
    <2>1. c \in Nat /\ DOMAIN wt = 1 .. c /\ wt \in Seq(Nat)
      BY <1>1, TypesWritten
    <2> HIDE DEF wt
    <2>2. QED
      BY <2>1
  <1>3. b = [i \in 1 .. n |-> <<IpfixMessage, i>>]
    <2>1. CASE IpfixMessage \in Settable(m.type)
      <3>1. MaxSequence(m.store, IpfixMessage) = n
        BY <1>1, NextReport
      <3>2. QED
        BY <2>1, <3>1 DEF Reports
    <2>2. CASE IpfixMessage \notin Settable(m.type)
      <3>1. ReportSequences(m.store) = {}
        <4>1. \A e \in Range(m.store) : e.type # IpfixMessage
          BY <1>1, <2>2 DEF KeyTypes
        <4>2. QED
          BY <4>1 DEF ReportSequences
      <3>2. n = 0
        <4>1. 1 .. n = {}
          BY <1>1, <3>1 DEF StoreOK
        <4>2. n > 0 => 1 \in 1 .. n
          BY <1>1
        <4>3. QED
          BY <1>1, <4>1, <4>2
      <3>3. QED
        BY <2>2, <3>2
    <2>3. QED
      BY <2>1, <2>2
  <1> HIDE DEF b, wt, c
  <1>4. a \in Seq(X) /\ Len(a) = c
    BY <1>2
  <1>5. b \in Seq(X) /\ Len(b) = n
    BY <1>1, <1>3 DEF IpfixMessage
  <1>6. \A i \in 1 .. c : a[i] = <<wt[i], 1>>
    BY <1>2
  <1>7. \A i \in 1 .. n : b[i] = <<IpfixMessage, i>>
    BY <1>3
  <1> HIDE DEF a, X
  <1>8. Extends(a \o b, a, b, X)
    BY <1>4, <1>5, Appended
  <1> DEFINE q == a \o b
  <1>9. /\ q \in Seq(X) /\ Len(q) = c + n
        /\ \A p \in 1 .. c : q[p] = a[p]
        /\ \A p \in 1 .. n : q[c + p] = b[p]
    BY <1>4, <1>5, <1>8 DEF Extends
  <1> HIDE DEF q
  <1>10. q = [i \in 1 .. c + n |-> q[i]]
    BY <1>9
  <1>11. \A i \in 1 .. c + n : q[i] = KeyOf(wt, c, i)
    <2> SUFFICES ASSUME NEW i \in 1 .. c + n PROVE q[i] = KeyOf(wt, c, i)
      OBVIOUS
    <2>1. CASE i <= c
      <3>1. i \in 1 .. c
        BY <1>2, <2>1
      <3>2. QED
        BY <1>6, <1>9, <2>1, <3>1 DEF KeyOf
    <2>2. CASE ~(i <= c)
      <3>1. i - c \in 1 .. n /\ c + (i - c) = i
        BY <1>1, <1>2, <2>2
      <3>2. q[c + (i - c)] = b[i - c]
        BY <1>9, <3>1
      <3>3. QED
        BY <1>7, <2>2, <3>1, <3>2 DEF KeyOf
    <2>3. QED
      BY <2>1, <2>2
  <1>12. q = [i \in 1 .. c + n |-> KeyOf(wt, c, i)]
    BY <1>10, <1>11
  <1>13. KeysOf(m) = q
    BY DEF KeysOf, q, a, b, wt
  <1>14. QED
    BY <1>12, <1>13 DEF wt, c

(***************************************************************************)
(* Places in an increasing order, and what serialize() writes in them.     *)
(***************************************************************************)
LEMMA IncreasingApart ==
    ASSUME NEW f, NEW n, NEW S \in SUBSET Int, Increasing(f, n, S),
           NEW i \in 1 .. n, NEW j \in 1 .. n
    PROVE  /\ f[i] \in S /\ (f[i] = f[j] => i = j)
           /\ (i <= j <=> f[i] <= f[j])
  <1>1. n \in Nat /\ f[i] \in S /\ f[j] \in S /\ f[i] \in Int /\ f[j] \in Int
    BY DEF Increasing
  <1>2. i < j => f[i] < f[j]
    BY DEF Increasing
  <1>3. j < i => f[j] < f[i]
    BY DEF Increasing
  <1>4. i = j => f[i] = f[j]
    OBVIOUS
  <1>5. QED
    BY <1>1, <1>2, <1>3, <1>4

(* f enumerates the places P, the last n of c + n for metering objects.    *)
Placed(objs, N, c, n, P, f) ==
    /\ P \in SUBSET (1 .. c + n) /\ Increasing(f, N, P)
    /\ \A r \in 1 .. n : c + r \in P
    /\ \A j \in 1 .. N : objs[j].type = IpfixMessage <=> f[j] > c

(* How many of the places before the i-th are those of metering objects.   *)
LEMMA CountPlaces ==
    ASSUME NEW objs, NEW N \in Nat, NEW c \in Nat, NEW n \in Nat,
           NEW P, NEW f, Placed(objs, N, c, n, P, f),
           NEW i \in 0 .. N, NEW d \in 0 .. n,
           \A j \in 1 .. N : f[j] > c => (j <= i <=> f[j] <= c + d)
    PROVE  Count(objs, i) = d
  <1> DEFINE R == ReportsUpTo(objs, i)
             g == [r \in 1 .. d |-> CHOOSE j \in 1 .. N : f[j] = c + r]
  <1>00. /\ P \in SUBSET (1 .. c + n) /\ Increasing(f, N, P)
         /\ \A r \in 1 .. n : c + r \in P
         /\ \A j \in 1 .. N : objs[j].type = IpfixMessage <=> f[j] > c
    BY DEF Placed
  <1>01. P \in SUBSET Int
    BY <1>00
  <1>02. \A j \in 1 .. N : f[j] \in P
    BY <1>00 DEF Increasing
  <1>0. \A j \in 1 .. N : f[j] \in Int
    BY <1>01, <1>02
  <1>1. ASSUME NEW r \in 1 .. d
        PROVE  g[r] \in 1 .. N /\ f[g[r]] = c + r
    <2>1. r \in 1 .. n
      OBVIOUS
    <2>2. \E j \in 1 .. N : f[j] = c + r
      BY <1>00, <2>1 DEF Increasing
    <2>3. QED
      BY <2>2
  <1>2. g = [r \in 1 .. d |-> g[r]]
    OBVIOUS
  <1> HIDE DEF g
  <1>3. ASSUME NEW r \in 1 .. d
        PROVE  g[r] \in R
    <2>1. g[r] \in 1 .. N /\ f[g[r]] = c + r
      BY <1>1
    <2>2. f[g[r]] > c /\ f[g[r]] <= c + d
      BY <2>1
    <2>3. g[r] <= i /\ objs[g[r]].type = IpfixMessage
      BY <1>00, <2>1, <2>2
    <2>4. QED
      BY <2>1, <2>3 DEF ReportsUpTo
  <1>4. g \in [1 .. d -> R]
    <2> HIDE DEF R
    <2>1. QED
      BY <1>2, <1>3
  <1>5. \A r, q \in 1 .. d : r # q => g[r] # g[q]
    <2> SUFFICES ASSUME NEW r \in 1 .. d, NEW q \in 1 .. d, g[r] = g[q]
                 PROVE  r = q
      OBVIOUS
    <2>1. c + r = c + q
      BY <1>1
    <2>2. QED
      BY <2>1
  <1>6. ASSUME NEW j \in R
        PROVE  \E r \in 1 .. d : g[r] = j
    <2>1. j \in 1 .. i /\ j \in 1 .. N /\ objs[j].type = IpfixMessage
      BY DEF ReportsUpTo
    <2>2. f[j] > c /\ f[j] <= c + d /\ f[j] \in Int
      BY <1>0, <1>00, <2>1
    <2>3. f[j] - c \in 1 .. d /\ c + (f[j] - c) = f[j]
      BY <2>2
    <2>4. g[f[j] - c] \in 1 .. N /\ f[g[f[j] - c]] = f[j]
      BY <1>1, <2>3
    <2>5. g[f[j] - c] = j
      BY <1>00, <1>01, <2>1, <2>4, IncreasingApart
    <2>6. QED
      BY <2>3, <2>5
  <1>7. d \in Nat
    OBVIOUS
  <1> HIDE DEF R
  <1>8. Cardinality(R) = d
    BY <1>4, <1>5, <1>6, <1>7, Counted
  <1>9. QED
    BY <1>8 DEF R, Count

LEMMA WrittenAll ==
    ASSUME NEW m, NEW n, MessageOK(m, n), NEW objs, objs = ObjectsToWrite(m)
    PROVE  \E N \in Nat :
              /\ DOMAIN objs = 1 .. N /\ objs = [i \in 1 .. N |-> objs[i]]
              /\ Known(objs, N) /\ NoDoubles(objs, N) /\ Holds(m.store, objs, N)
  <1> DEFINE wt == WrittenTypes(m.type)
             c == Len(wt)
             store == m.store
             keys == KeysOf(m)
             P == {i \in DOMAIN keys : Has(store, keys[i][1], keys[i][2])}
             t(x) == IF x <= c THEN wt[x] ELSE IpfixMessage
             s(x) == IF x <= c THEN 1 ELSE x - c
  <1>1. n \in Nat /\ m.type \in MessageTypes /\ StoreOK(store, n)
        /\ KeyTypes(m) \subseteq Settable(m.type)
    BY DEF MessageOK
  <1>2. /\ c \in Nat /\ DOMAIN wt = 1 .. c
        /\ \A i \in 1 .. c : wt[i] \in ObjectTypes /\ wt[i] # IpfixMessage
        /\ \A i, j \in 1 .. c : i # j => wt[i] # wt[j]
        /\ \A y \in Settable(m.type) :
              y = IpfixMessage \/ \E i \in 1 .. c : wt[i] = y
    BY <1>1, TypesWritten
  <1>3. keys = [i \in 1 .. c + n |-> KeyOf(wt, c, i)]
    BY KeysGone
  <1>4. objs = LET present == ElementsAt(keys, P)
               IN  [i \in DOMAIN present |-> Get(store, present[i][1], present[i][2])]
    BY DEF ObjectsToWrite, KeysOf
  <1> HIDE DEF wt, c, keys
  <1>5. \A x \in 1 .. c + n : keys[x][1] = t(x) /\ keys[x][2] = s(x)
    BY <1>3 DEF KeyOf
  <1>6. P = {x \in 1 .. c + n : Has(store, t(x), s(x))}
    <2>1. DOMAIN keys = 1 .. c + n
      BY <1>3
    <2> HIDE DEF t, s
    <2>2. QED
      BY <1>5, <2>1
  <1>7. \A x \in 1 .. c + n : t(x) \in ObjectTypes /\ s(x) \in Nat /\ SequenceOf(t(x), s(x))
    <2> SUFFICES ASSUME NEW x \in 1 .. c + n
                 PROVE  t(x) \in ObjectTypes /\ s(x) \in Nat /\ SequenceOf(t(x), s(x))
      OBVIOUS
    <2>1. CASE x <= c
      <3>1. x \in 1 .. c
        BY <1>2, <2>1
      <3>2. QED
        BY <1>2, <2>1, <3>1 DEF SequenceOf, Unique
    <2>2. CASE ~(x <= c)
      <3>1. x - c \in Nat \ {0}
        BY <1>1, <1>2, <2>2
      <3>2. QED
        BY <2>2, <3>1 DEF SequenceOf, Unique, ObjectTypes
    <2>3. QED
      BY <2>1, <2>2
  <1> HIDE DEF P
  <1>80. PICK N \in Nat : \E f : Increasing(f, N, P)
    <2>1. c + n \in Nat /\ P \in SUBSET (1 .. c + n)
      BY <1>1, <1>2, <1>6
    <2>2. QED
      BY <2>1, AscendingExists
  <1>8. PICK f : Increasing(f, N, P)
    BY <1>80
  <1>9. /\ P \in SUBSET (1 .. c + n) /\ P \in SUBSET Int
        /\ \A i \in 1 .. N : f[i] \in P /\ f[i] \in 1 .. c + n
        /\ \A x \in P : \E i \in 1 .. N : f[i] = x
    <2>1. P \in SUBSET (1 .. c + n) /\ P \in SUBSET Int
      BY <1>6
    <2>2. QED
      BY <1>8, <2>1 DEF Increasing
  <1>10. Ascending(P) = f /\ DOMAIN f = 1 .. N
    BY <1>8, <1>9, AscendingIs
  <1>11. objs = [i \in 1 .. N |-> Get(store, keys[f[i]][1], keys[f[i]][2])]
    <2> DEFINE present == ElementsAt(keys, P)
    <2>1. present = [i \in 1 .. N |-> keys[f[i]]]
      BY <1>10 DEF ElementsAt
    <2>2. objs = [i \in DOMAIN present |-> Get(store, present[i][1], present[i][2])]
      BY <1>4
    <2> HIDE DEF present
    <2>3. DOMAIN present = 1 .. N /\ \A i \in 1 .. N : present[i] = keys[f[i]]
      BY <2>1
    <2>4. QED
      BY <2>2, <2>3
  <1>12. DOMAIN objs = 1 .. N /\ objs = [i \in 1 .. N |-> objs[i]]
         /\ \A i \in 1 .. N : objs[i] = Get(store, t(f[i]), s(f[i]))
    <2> HIDE DEF t, s
    <2>1. \A i \in 1 .. N : keys[f[i]][1] = t(f[i]) /\ keys[f[i]][2] = s(f[i])
      BY <1>5, <1>9
    <2>2. QED
      BY <1>11, <2>1
  <1>13. ASSUME NEW x \in P
         PROVE  /\ store[Key(t(x), s(x))] =
                      [type |-> t(x), seq |-> s(x), obj |-> Get(store, t(x), s(x))]
                /\ Get(store, t(x), s(x)).type = t(x)
                /\ Key(t(x), s(x)) \in DOMAIN store
    <2>1. x \in 1 .. c + n /\ Has(store, t(x), s(x))
      BY <1>6
    <2>2. t(x) \in ObjectTypes /\ s(x) \in Nat /\ SequenceOf(t(x), s(x))
      BY <1>7, <2>1
    <2> HIDE DEF t, s
    <2>3. QED
      BY <1>1, <2>1, <2>2, EntryUnder DEF Has
  <1>14. \A i \in 1 .. N : objs[i].type = t(f[i])
    <2> HIDE DEF t, s
    <2>1. QED
      BY <1>9, <1>12, <1>13
  <1>15. \A x \in 1 .. c + n : t(x) = IpfixMessage <=> x > c
    <2>1. \A x \in 1 .. c + n : x <= c => x \in 1 .. c
      BY <1>1, <1>2
    <2>2. QED
      BY <1>1, <1>2, <2>1
  <1>16. \A j \in 1 .. N : objs[j].type = IpfixMessage <=> f[j] > c
    <2> HIDE DEF t, s
    <2>1. QED
      BY <1>9, <1>14, <1>15
  <1>17. \A r \in 1 .. n : c + r \in P
    <2> SUFFICES ASSUME NEW r \in 1 .. n PROVE c + r \in P
      OBVIOUS
    <2>1. c + r \in 1 .. c + n /\ t(c + r) = IpfixMessage /\ s(c + r) = r
      BY <1>1, <1>2
    <2>2. Has(store, IpfixMessage, r)
      BY <1>1, ReportsStored
    <2> HIDE DEF t, s
    <2>3. QED
      BY <1>6, <2>1, <2>2
  <1>17a. Placed(objs, N, c, n, P, f)
    BY <1>8, <1>9, <1>16, <1>17 DEF Placed
  <1>18. ASSUME NEW i \in 1 .. N
         PROVE  SeqAt(objs, i) = s(f[i])
    <2>1. f[i] \in 1 .. c + n /\ f[i] \in P
      BY <1>9
    <2>2. CASE f[i] <= c
      <3>1. objs[i].type # IpfixMessage
        BY <1>1, <1>2, <1>16, <2>1, <2>2
      <3>2. QED
        BY <2>2, <3>1 DEF SeqAt, Unique
    <2>3. CASE ~(f[i] <= c)
      <3> DEFINE d == f[i] - c
      <3>1. d \in 0 .. n /\ c + d = f[i] /\ f[i] > c /\ i \in 0 .. N
        BY <1>1, <1>2, <2>1, <2>3
      <3>0. N \in Nat
        BY <1>8 DEF Increasing
      <3>2. \A j \in 1 .. N : j <= i <=> f[j] <= f[i]
        BY <1>8, <1>9, IncreasingApart
      <3>3. \A j \in 1 .. N : f[j] > c => (j <= i <=> f[j] <= c + d)
        BY <3>1, <3>2
      <3> HIDE DEF d
      <3>4. Count(objs, i) = d
        BY <1>1, <1>2, <1>17a, <3>0, <3>1, <3>3, CountPlaces
      <3>5. objs[i].type = IpfixMessage
        BY <1>16, <3>1
      <3>6. QED
        BY <2>3, <3>4, <3>5 DEF SeqAt, Unique, d
    <2>4. QED
      BY <2>2, <2>3
  <1>19. Count(objs, N) = n
    <2>0. N \in Nat
      BY <1>8 DEF Increasing
    <2>1. n \in 0 .. n /\ N \in 0 .. N
      BY <1>1, <2>0
    <2>2. \A j \in 1 .. N : f[j] > c => (j <= N <=> f[j] <= c + n)
      BY <1>1, <1>2, <1>9
    <2> DEFINE i == N
               d == n
    <2>3. /\ i \in 0 .. N /\ d \in 0 .. n
          /\ \A j \in 1 .. N : f[j] > c => (j <= i <=> f[j] <= c + d)
      BY <2>1, <2>2
    <2>4. c \in Nat /\ n \in Nat
      BY <1>1, <1>2
    <2> HIDE DEF i, d
    <2>5. Count(objs, i) = d
      BY <1>17a, <2>0, <2>3, <2>4, CountPlaces
    <2>6. QED
      BY <2>5 DEF i, d
  <1> HIDE DEF t, s
  <1>20. ASSUME NEW i \in 1 .. N
         PROVE  /\ KeyAt(objs, i) = Key(t(f[i]), s(f[i]))
                /\ KeyAt(objs, i) \in DOMAIN store
                /\ store[KeyAt(objs, i)] = EntryAt(objs, i)
    <2>1. KeyAt(objs, i) = Key(t(f[i]), s(f[i]))
      BY <1>14, <1>18 DEF KeyAt
    <2>2. QED
      BY <1>9, <1>12, <1>13, <1>14, <1>18, <2>1 DEF EntryAt
  <1>21. ASSUME NEW k \in DOMAIN store
         PROVE  \E i \in 1 .. N : k = KeyAt(objs, i)
    <2>1. /\ store[k].type \in ObjectTypes /\ store[k].seq \in Nat
          /\ SequenceOf(store[k].type, store[k].seq)
          /\ k = Key(store[k].type, store[k].seq)
      BY <1>1 DEF StoreOK
    <2>2. store[k].type \in Settable(m.type)
      BY <1>1 DEF KeyTypes, Range
    <2>3. \E x \in P : t(x) = store[k].type /\ s(x) = store[k].seq
      <3>1. CASE store[k].type = IpfixMessage
        <4>1. store[k].seq \in 1 .. n
          BY <1>1, <3>1, ReportsStored
        <4>2. PICK r \in 1 .. n : r = store[k].seq
          BY <4>1
        <4>3. c + r \in P /\ ~(c + r <= c) /\ (c + r) - c = r
          BY <1>1, <1>2, <1>17, <4>2
        <4>4. t(c + r) = IpfixMessage /\ s(c + r) = r
          BY <4>3 DEF t, s
        <4>5. QED
          BY <3>1, <4>2, <4>3, <4>4
      <3>2. CASE store[k].type # IpfixMessage
        <4>1. PICK x \in 1 .. c : wt[x] = store[k].type
          BY <1>2, <2>2, <3>2
        <4>2. store[k].seq = 1
          BY <2>1, <3>2 DEF SequenceOf, Unique
        <4>3. x \in 1 .. c + n /\ x <= c
          BY <1>1, <1>2
        <4>4. t(x) = store[k].type /\ s(x) = 1
          BY <4>1, <4>3 DEF t, s
        <4>5. Has(store, t(x), s(x))
          BY <2>1, <4>2, <4>4 DEF Has
        <4>6. QED
          BY <1>6, <4>2, <4>3, <4>4, <4>5
      <3>3. QED
        BY <3>1, <3>2
    <2>4. PICK x \in P : t(x) = store[k].type /\ s(x) = store[k].seq
      BY <2>3
    <2>5. PICK i \in 1 .. N : f[i] = x
      BY <1>9
    <2>6. KeyAt(objs, i) = Key(store[k].type, store[k].seq)
      BY <1>20, <2>4, <2>5
    <2>7. QED
      BY <2>1, <2>6
  <1>22. Holds(store, objs, N)
    <2>1. DOMAIN store = {KeyAt(objs, i) : i \in 1 .. N}
      BY <1>20, <1>21
    <2>2. QED
      BY <1>1, <1>19, <1>20, <2>1 DEF Holds
  <1>23. Known(objs, N)
    BY <1>7, <1>9, <1>14 DEF Known
  <1>24. NoDoubles(objs, N)
    <2> SUFFICES ASSUME NEW i \in 1 .. N, NEW j \in 1 .. N, i # j,
                        objs[i].type = objs[j].type, objs[i].type # IpfixMessage
                 PROVE  FALSE
      BY DEF NoDoubles
    <2>1. f[i] \in 1 .. c /\ f[j] \in 1 .. c
      BY <1>1, <1>2, <1>9, <1>16
    <2>2. wt[f[i]] = wt[f[j]]
      BY <1>2, <1>14, <2>1 DEF t
    <2>3. f[i] = f[j]
      BY <1>2, <2>1, <2>2
    <2>4. QED
      BY <1>8, <1>9, <2>3, IncreasingApart
  <1>25. QED
    BY <1>12, <1>22, <1>23, <1>24

(***************************************************************************)
(* The objects an application makes: their body is of the right form, but  *)
(* its check() may still refuse it.                                        *)
(***************************************************************************)
Form(o) ==
    /\ o = [type |-> o.type, body |-> o.body, ready |-> o.ready]
    /\ o.type \in ObjectTypes /\ o.ready \in BOOLEAN /\ o.body \in Seq(Nat)
    /\ o.type = IpfixMessage => o.body \in Readable
    /\ o.type # IpfixMessage => o.ready = TRUE
    /\ o.type \in SimpleTypes => Len(o.body) = 1
    /\ o.type = InformationCode =>
          Len(o.body) = 3 /\ o.body[1] < 256 /\ o.body[2] < 256

LEMMA KnownTypes ==
    /\ \A t \in ObjectTypes :
          /\ t \in Nat
          /\ t # InformationCode /\ t # IpfixMessage => t \in SimpleTypes
          /\ t \in SimpleTypes => t # InformationCode /\ t # IpfixMessage
    /\ InformationCode # IpfixMessage
  BY DEF ObjectTypes, SimpleTypes, InformationCode, IpfixMessage,
         SelectionMeteringEntities, MessageHopCount, MsgSequenceNumber,
         SessionLifetime

LEMMA CheckIs ==
    ASSUME NEW o
    PROVE  /\ o.type = InformationCode =>
                 (CheckObject(o) <=> o.body[1] < 16 /\ o.body[3] = 0)
           /\ o.type = IpfixMessage => (CheckObject(o) <=> o.ready)
           /\ o.type \in SimpleTypes => CheckObject(o)
  <1>1. o.type = InformationCode =>
                 (CheckObject(o) <=> o.body[1] < 16 /\ o.body[3] = 0)
    BY DEF CheckObject, InformationCode, IpfixMessage
  <1>2. o.type = IpfixMessage => (CheckObject(o) <=> o.ready)
    BY KnownTypes, Zenon DEF CheckObject
  <1>3. o.type \in SimpleTypes => CheckObject(o)
    <2>1. o.type \in SimpleTypes => o.type # InformationCode /\ o.type # IpfixMessage
      BY KnownTypes DEF ObjectTypes
    <2>2. QED
      BY <2>1 DEF CheckObject
  <1>4. QED
    BY <1>1, <1>2, <1>3

(* What passes its check can be written and will be read. *)
LEMMA CheckedIsSendable ==
    ASSUME NEW o, Form(o), CheckObject(o)
    PROVE  o \in WireObjects /\ RightLength(o) /\ Readable1(o)
  <1>1. /\ o = [type |-> o.type, body |-> o.body, ready |-> o.ready]
        /\ o.type \in ObjectTypes /\ o.body \in Seq(Nat)
    BY Zenon DEF Form
  <1>2. o.ready = TRUE
    <2>1. o.type = IpfixMessage => o.ready
      BY CheckIs, Zenon
    <2>2. o.ready \in BOOLEAN /\ (o.type # IpfixMessage => o.ready = TRUE)
      BY Zenon DEF Form
    <2>3. QED
      BY <2>1, <2>2, Zenon
  <1>3. o.type \in Nat
    BY <1>1, KnownTypes
  <1>4. o \in WireObjects
    <2>1. o = [type |-> o.type, body |-> o.body, ready |-> TRUE]
      BY <1>1, <1>2, Zenon
    <2> DEFINE ty == o.type
               bo == o.body
    <2>2. ty \in Nat /\ bo \in Seq(Nat) /\ o = [type |-> ty, body |-> bo, ready |-> TRUE]
      BY <1>1, <1>3, <2>1
    <2> HIDE DEF ty, bo
    <2>3. QED
      BY <2>2 DEF WireObjects
  <1>5. ASSUME o.type = InformationCode
        PROVE  /\ Len(o.body) = 3 /\ o.body[1] < 16
               /\ o.body[2] < 256 /\ o.body[3] = 0
    <2>1. o.body[1] < 16 /\ o.body[3] = 0
      BY <1>5, CheckIs
    <2>2. Len(o.body) = 3 /\ o.body[2] < 256
      BY <1>5, Zenon DEF Form
    <2>3. QED
      BY <2>1, <2>2
  <1>6. o.type \in SimpleTypes => Len(o.body) = 1
    BY Zenon DEF Form
  <1>7. RightLength(o)
    BY <1>5, <1>6 DEF RightLength
  <1>8. o.type = IpfixMessage => o.body \in Readable
    BY Zenon DEF Form
  <1>9. Readable1(o)
    BY <1>1, <1>5, <1>8 DEF Readable1
  <1>10. QED
    BY <1>4, <1>7, <1>9

LEMMA AllSendable ==
    ASSUME NEW objs, NEW n \in Nat, objs = [i \in 1 .. n |-> objs[i]],
           \A i \in 1 .. n : Form(objs[i]) /\ CheckObject(objs[i])
    PROVE  Sendable(objs, n) /\ \A i \in 1 .. n : Readable1(objs[i])
  <1>1. \A i \in 1 .. n : objs[i] \in WireObjects /\ RightLength(objs[i])
                          /\ Readable1(objs[i])
    BY CheckedIsSendable
  <1>2. objs \in Seq(WireObjects) /\ Len(objs) = n
    BY <1>1
  <1>3. QED
    BY <1>1, <1>2 DEF Sendable

(***************************************************************************)
(* get_serialized_size() is the number of words serialize() writes.        *)
(***************************************************************************)
LEMMA SizeExact ==
    ASSUME NEW m, NEW n, NEW objs, Sendable(objs, n),
           Known(objs, n), NoDoubles(objs, n), Holds(m.store, objs, n)
    PROVE  /\ Len(Words(m.type, objs)) = SerializedSize(m)
           /\ Len(Words(m.type, objs)) \in Nat
           /\ Words(m.type, objs) =
                 [p \in 1 .. Len(Words(m.type, objs)) |-> Words(m.type, objs)[p]]
  <1> DEFINE words == Words(m.type, objs)
             D == DOMAIN m.store
             f == WordsOf(m.store)
             ks == [i \in 1 .. n |-> KeyAt(objs, i)]
  <1>1. PICK at : Laid(words, objs, n, at)
    BY WordsLaid
  <1> DEFINE t == [i \in 0 .. n |-> at[i + 1] - 2]
  <1> HIDE DEF words
  <1>2. n \in Nat
    BY DEF Sendable
  <1>3. /\ Len(words) \in Nat /\ words = [p \in 1 .. Len(words) |-> words[p]]
        /\ at[1] = 2 /\ at[n + 1] = Len(words) + 1
        /\ \A i \in 1 .. n : /\ at[i] \in Nat /\ LengthOf(objs[i]) \in Nat
                             /\ at[i + 1] = at[i] + 1 + LengthOf(objs[i])
    BY <1>1 DEF Laid
  <1>4. D = {KeyAt(objs, i) : i \in 1 .. n}
        /\ \A i \in 1 .. n : m.store[KeyAt(objs, i)] = EntryAt(objs, i)
    BY DEF Holds
  <1>5. /\ ks \in [1 .. n -> D]
        /\ \A i \in 1 .. n : ks[i] = KeyAt(objs, i)
        /\ \A x \in D : \E i \in 1 .. n : ks[i] = x
    BY <1>4
  <1> HIDE DEF ks, D
  <1>6. \A i, j \in 1 .. n : i # j => ks[i] # ks[j]
    BY <1>2, <1>5, KeysApart
  <1>7. IsFiniteSet(D)
    BY <1>2, <1>5, <1>6, Counted
  <1>8. \A i \in 1 .. n : f[ks[i]] = 1 + LengthOf(objs[i])
    <2> SUFFICES ASSUME NEW i \in 1 .. n
                 PROVE  f[ks[i]] = 1 + LengthOf(objs[i])
      OBVIOUS
    <2>1. ks[i] \in D /\ m.store[ks[i]] = EntryAt(objs, i)
      BY <1>4, <1>5
    <2>2. f[ks[i]] = Len(ObjectWords(m.store[ks[i]].obj))
      BY <2>1 DEF WordsOf, D
    <2>3. m.store[ks[i]].obj = objs[i]
      BY <2>1 DEF EntryAt
    <2>4. objs[i] \in WireObjects /\ RightLength(objs[i])
      BY DEF Sendable
    <2>5. Len(ObjectWords(objs[i])) = 1 + Len(BodyWords(objs[i]))
      BY <2>4, ObjectOnWire
    <2>6. QED
      BY <2>2, <2>3, <2>5 DEF LengthOf
  <1>9. f \in [D -> Nat]
    <2>1. \A x \in D : f[x] \in Nat
      <3> SUFFICES ASSUME NEW x \in D PROVE f[x] \in Nat
        OBVIOUS
      <3>1. PICK i \in 1 .. n : ks[i] = x
        BY <1>5
      <3> HIDE DEF f
      <3>2. f[x] = 1 + LengthOf(objs[i])
        BY <1>8, <3>1
      <3>3. LengthOf(objs[i]) \in Nat
        BY <1>3
      <3>4. QED
        BY <3>2, <3>3
    <2>2. f = [x \in D |-> f[x]]
      BY DEF WordsOf, D
    <2> HIDE DEF f
    <2>3. QED
      BY <2>1, <2>2
  <1> HIDE DEF f
  <1>10. t[0] = 0 /\ \A i \in 1 .. n : t[i] = t[i - 1] + f[ks[i]]
    <2> DEFINE F(x) == at[x + 1] - 2
    <2>1. \A x \in 0 .. n : t[x] = F(x)
      OBVIOUS
    <2> HIDE DEF t
    <2>2. t[0] = 0
      <3>1. 0 \in 0 .. n /\ 0 + 1 = 1
        BY <1>2
      <3>2. QED
        BY <1>3, <2>1, <3>1
    <2>3. ASSUME NEW i \in 1 .. n
          PROVE  t[i] = t[i - 1] + f[ks[i]]
      <3>1. i \in 0 .. n /\ i - 1 \in 0 .. n /\ (i - 1) + 1 = i
        BY <1>2
      <3>2. t[i] = at[i + 1] - 2 /\ t[i - 1] = at[i] - 2
        BY <2>1, <3>1
      <3> DEFINE l == LengthOf(objs[i])
      <3>3. f[ks[i]] = 1 + l /\ l \in Nat /\ at[i] \in Nat /\ at[i + 1] = at[i] + 1 + l
        BY <1>3, <1>8
      <3> HIDE DEF l
      <3>4. QED
        BY <3>2, <3>3
    <2>4. QED
      BY <2>2, <2>3
  <1>11. t[n] = Len(words) - 1
    <2>1. n \in 0 .. n
      BY <1>2
    <2>2. t[n] = at[n + 1] - 2
      BY <2>1
    <2> HIDE DEF t
    <2>3. QED
      BY <1>3, <2>2
  <1> HIDE DEF t
  <1>12. PICK g : /\ SumsTo(g, f, SUBSET D)
                  /\ SerializedSize(m) = 1 + g[D]
    BY <1>7, SizeIsSum DEF f, D
  <1>13. g[D] = t[n]
    <2>1. SumsTo(g, f, SUBSET D)
      BY <1>12
    <2>2. Names(ks, n, D)
      BY <1>5, <1>6 DEF Names
    <2>3. AddsUp(t, f, ks, n)
      BY <1>10 DEF AddsUp
    <2>4. QED
      BY <1>2, <1>7, <1>9, <2>1, <2>2, <2>3, SumAlong
  <1>14. SerializedSize(m) = Len(words)
    BY <1>3, <1>11, <1>12, <1>13
  <1>15. QED
    BY <1>3, <1>14 DEF words

(***************************************************************************)
(* A message that serialize() lets go is read back.                        *)
(***************************************************************************)
Formed(store) == \A k \in DOMAIN store : Form(store[k].obj)

Checked(store) == \A k \in DOMAIN store : CheckObject(store[k].obj)

LEMMA StoredAre ==
    ASSUME NEW store, NEW objs, NEW n, Holds(store, objs, n)
    PROVE  /\ Formed(store) <=> \A i \in 1 .. n : Form(objs[i])
           /\ Checked(store) <=> \A i \in 1 .. n : CheckObject(objs[i])
  <1>1. DOMAIN store = {KeyAt(objs, i) : i \in 1 .. n}
    BY DEF Holds
  <1>2. \A i \in 1 .. n : store[KeyAt(objs, i)].obj = objs[i]
    <2>1. \A i \in 1 .. n : store[KeyAt(objs, i)] = EntryAt(objs, i)
      BY DEF Holds
    <2>2. \A i \in 1 .. n : EntryAt(objs, i).obj = objs[i]
      BY DEF EntryAt
    <2>3. QED
      BY <2>1, <2>2
  <1>3. QED
    BY <1>1, <1>2 DEF Formed, Checked

LEMMA NoWordsAfter ==
    ASSUME NEW words, Len(words) \in Nat,
           words = [p \in 1 .. Len(words) |-> words[p]],
           NEW pad, pad = [i \in 1 .. Len(words) - Len(words) |-> ObjWord(0, 0)]
    PROVE  words \o pad = words /\ CutOff(words, 0) = words
  <1> DEFINE X == {words[p] : p \in 1 .. Len(words)}
  <1>1. words \in Seq(X)
    OBVIOUS
  <1>2. pad = <<>>
    <2>1. 1 .. Len(words) - Len(words) = {}
      OBVIOUS
    <2>2. QED
      BY <2>1
  <1> HIDE DEF X
  <1>3. words \o <<>> = words
    BY <1>1
  <1>4. SubSeq(words, 1, Len(words)) = words
    BY <1>1
  <1>5. CutOff(words, 0) = words
    BY <1>4 DEF CutOff
  <1>6. QED
    BY <1>2, <1>3, <1>5

LEMMA NoThrow ==
    ASSUME NEW m, NEW n, MessageOK(m, n), CheckMessage(m),
           Formed(m.store), Checked(m.store)
    PROVE  ~SerializeThrows(m)
  <1> DEFINE objs == ObjectsToWrite(m)
  <1>1. PICK N : /\ DOMAIN objs = 1 .. N /\ objs = [i \in 1 .. N |-> objs[i]]
                 /\ Known(objs, N) /\ NoDoubles(objs, N) /\ Holds(m.store, objs, N)
                 /\ N \in Nat
    BY WrittenAll
  <1> HIDE DEF objs
  <1>2. \A i \in 1 .. N : Form(objs[i]) /\ CheckObject(objs[i])
    BY <1>1, StoredAre
  <1>3. Sendable(objs, N)
    BY <1>1, <1>2, AllSendable
  <1>4. Len(Words(m.type, objs)) = SerializedSize(m) /\ Len(Words(m.type, objs)) \in Nat
    BY <1>1, <1>3, SizeExact
  <1>5. \A i \in DOMAIN objs : CheckObject(objs[i])
    BY <1>1, <1>2
  <1>6. ~(Len(Words(m.type, objs)) > SerializedSize(m))
    BY <1>4
  <1>7. QED
    BY <1>5, <1>6 DEF SerializeThrows, objs

LEMMA RoundTrip ==
    ASSUME NEW m, NEW n, MessageOK(m, n), Formed(m.store), ~SerializeThrows(m)
    PROVE  /\ CheckMessage(m) /\ Checked(m.store)
           /\ Deserialize(Serialize(m)) =
                 IF m.store = EmptyStore THEN Refused ELSE m
  <1> DEFINE objs == ObjectsToWrite(m)
             words == Words(m.type, objs)
  <1>1. PICK N : /\ DOMAIN objs = 1 .. N /\ objs = [i \in 1 .. N |-> objs[i]]
                 /\ Known(objs, N) /\ NoDoubles(objs, N) /\ Holds(m.store, objs, N)
                 /\ N \in Nat
    BY WrittenAll
  <1>2. CheckMessage(m) /\ \A i \in DOMAIN objs : CheckObject(objs[i])
    BY DEF SerializeThrows
  <1>3. Serialize(m) = words \o [i \in 1 .. SerializedSize(m) - Len(words) |-> ObjWord(0, 0)]
    BY DEF Serialize
  <1> HIDE DEF objs
  <1>4. \A i \in 1 .. N : Form(objs[i]) /\ CheckObject(objs[i])
    BY <1>1, <1>2, StoredAre
  <1>5. Checked(m.store)
    BY <1>1, <1>4, StoredAre
  <1>6. Sendable(objs, N) /\ \A i \in 1 .. N : Readable1(objs[i])
    BY <1>1, <1>4, AllSendable
  <1>7. /\ Len(words) = SerializedSize(m) /\ Len(words) \in Nat
        /\ words = [p \in 1 .. Len(words) |-> words[p]]
    BY <1>1, <1>6, SizeExact
  <1>8. Serialize(m) = CutOff(Words(m.type, objs), 0)
    <2> DEFINE pad == [i \in 1 .. Len(words) - Len(words) |-> ObjWord(0, 0)]
    <2>1. Serialize(m) = words \o pad
      BY <1>3, <1>7
    <2> HIDE DEF words
    <2>2. words \o pad = words /\ CutOff(words, 0) = words
      BY <1>7, NoWordsAfter
    <2>3. QED
      BY <2>1, <2>2 DEF words
  <1> DEFINE d == Deserialize(CutOff(Words(m.type, objs), 0))
  <1>9. /\ ~Accepted(m.type, objs, N, 0) => d = Refused
        /\ Accepted(m.type, objs, N, 0) =>
              d = [type |-> m.type, store |-> d.store] /\ Holds(d.store, objs, N)
    <2>1. 0 \in Nat /\ (0 > 0 => N > 0 /\ 0 <= LengthOf(objs[N]))
      OBVIOUS
    <2>2. QED
      BY <1>6, <2>1, DeserializeIs
  <1> HIDE DEF d
  <1>10. m.type \in MessageTypes /\ m = [type |-> m.type, store |-> m.store]
    BY DEF MessageOK
  <1>11. Accepted(m.type, objs, N, 0) <=> N > 0
    BY <1>1, <1>6, <1>10 DEF Accepted, Complete
  <1>12. m.store = EmptyStore <=> N = 0
    <2>1. N = 0 => m.store = EmptyStore
      <3> SUFFICES ASSUME N = 0 PROVE m.store = EmptyStore
        OBVIOUS
      <3>1. Holds(EmptyStore, objs, 0) /\ Holds(m.store, objs, 0) /\ 0 \in Nat
        BY <1>1, EmptyHolds
      <3>2. QED
        BY <3>1, HoldsUnique
    <2>2. N # 0 => m.store # EmptyStore
      <3> SUFFICES ASSUME N # 0 PROVE m.store # EmptyStore
        OBVIOUS
      <3>1. 1 \in 1 .. N
        BY <1>1
      <3>2. KeyAt(objs, 1) \in DOMAIN m.store
        BY <1>1, <3>1 DEF Holds
      <3>3. QED
        BY <3>2 DEF EmptyStore
    <2>3. QED
      BY <2>1, <2>2
  <1>13. d = IF m.store = EmptyStore THEN Refused ELSE m
    <2>1. CASE N = 0
      BY <1>9, <1>11, <1>12, <2>1
    <2>2. CASE N # 0
      <3>1. N > 0
        BY <1>1, <2>2
      <3>2. d = [type |-> m.type, store |-> d.store] /\ Holds(d.store, objs, N)
        BY <1>9, <1>11, <3>1
      <3>3. d.store = m.store
        BY <1>1, <3>2, HoldsUnique
      <3>4. d = m
        BY <1>10, <3>2, <3>3
      <3>5. QED
        BY <1>12, <2>2, <3>4
    <2>3. QED
      BY <2>1, <2>2
  <1>14. QED
    BY <1>2, <1>5, <1>8, <1>13 DEF d

(* An empty message passes the check of one class only. *)
LEMMA EmptyIsResponse ==
    ASSUME NEW m, NEW n, MessageOK(m, n), CheckMessage(m)
    PROVE  m.store = EmptyStore <=> m = NewMessage(Response)
  <1>1. m.type \in MessageTypes /\ m = [type |-> m.type, store |-> m.store]
    BY DEF MessageOK
  <1>2. ASSUME m.store = EmptyStore, m.type # Response
        PROVE  FALSE
    <2>1. DOMAIN m.store = {} /\ Range(m.store) = {}
      BY <1>2 DEF EmptyStore, Range
    <2>2. Cardinality(DOMAIN m.store) = 0
      BY <2>1, FS_EmptySet
    <2>3. CASE m.type = Configure
      <3>1. ToSet(ConfigureWrites) \subseteq KeyTypes(m)
        <4>1. CheckMessage(m) = ConfigureCheck(m)
          BY <2>3 DEF CheckMessage, Configure, Response, Refresh, Notify, Options
        <4>2. QED
          BY <4>1 DEF ConfigureCheck
      <3>2. KeyTypes(m) = {}
        BY <2>1 DEF KeyTypes
      <3>3. MsgSequenceNumber \in ToSet(ConfigureWrites)
        BY DEF ToSet, ConfigureWrites
      <3>4. QED
        BY <3>1, <3>2, <3>3
    <2>4. CASE m.type # Configure
      <3>1. \E types \in {RefreshWrites, NotifyWrites, OptionsWrites} : HasExactly(m, types)
        BY <1>1, <1>2, <2>4 DEF CheckMessage, MessageTypes, Configure, Response,
           Refresh, Notify, Options, RefreshCheck, NotifyCheck, OptionsCheck
      <3>2. PICK types \in {RefreshWrites, NotifyWrites, OptionsWrites} : HasExactly(m, types)
        BY <3>1
      <3>3. Len(types) # 0
        BY DEF RefreshWrites, NotifyWrites, OptionsWrites
      <3>4. QED
        BY <2>2, <3>2, <3>3 DEF HasExactly
    <2>5. QED
      BY <2>3, <2>4
  <1>3. m.store = EmptyStore => m = NewMessage(Response)
    BY <1>1, <1>2 DEF NewMessage
  <1>4. m = NewMessage(Response) => m.store = EmptyStore
    BY DEF NewMessage
  <1>5. QED
    BY <1>3, <1>4

(***************************************************************************)
(* The metering objects of a message.                                      *)
(***************************************************************************)
IsList(q) == Len(q) \in Nat /\ q = [i \in 1 .. Len(q) |-> q[i]]

(* Metering object number i is the i-th of those that are due. *)
Carries(store, due) ==
    /\ IsList(due) /\ StoreOK(store, Len(due)) /\ Formed(store)
    /\ \A i \in 1 .. Len(due) : Get(store, IpfixMessage, i).body = due[i]

LEMMA BodiesAlong ==
    ASSUME NEW objs, NEW N \in Nat, DOMAIN objs = 1 .. N, NEW n, NEW f,
           Increasing(f, n, ReportsUpTo(objs, N))
    PROVE  Bodies(objs) = [i \in 1 .. n |-> objs[f[i]].body]
  <1> DEFINE P == {i \in DOMAIN objs : objs[i].type = IpfixMessage}
             reports == ElementsAt(objs, P)
  <1>1. P = ReportsUpTo(objs, N)
    BY DEF ReportsUpTo
  <1>2. P \in SUBSET Int
    BY <1>1 DEF ReportsUpTo
  <1> HIDE DEF P
  <1>3. Ascending(P) = f /\ DOMAIN f = 1 .. n
    <2>1. Increasing(f, n, P)
      BY <1>1
    <2>2. DOMAIN f = 1 .. n
      BY <2>1 DEF Increasing
    <2>3. QED
      BY <1>2, <2>1, <2>2, AscendingIs
  <1>4. reports = [i \in 1 .. n |-> objs[f[i]]]
    BY <1>3 DEF ElementsAt
  <1>5. Bodies(objs) = [i \in DOMAIN reports |-> reports[i].body]
    BY DEF Bodies, P
  <1> HIDE DEF reports
  <1>6. QED
    BY <1>4, <1>5

(* get_mspec_objects(): an information code, if there is one, comes first. *)
Mspec(store, c, i) ==
    IF i <= c THEN Get(store, InformationCode, 1) ELSE Get(store, IpfixMessage, i - c)

CodesIn(store) == IF Has(store, InformationCode, 1) THEN 1 ELSE 0

LEMMA MspecKeys ==
    ASSUME NEW store, NEW n \in Nat, StoreOK(store, n),
           NEW c, c = CodesIn(store),
           NEW f, f = [i \in 1 .. c + n |-> IF i <= c THEN 245 ELSE 249 + (i - c)]
    PROVE  Increasing(f, c + n, {k \in DOMAIN store : store[k].type \notin SimpleTypes})
  <1> DEFINE D == {k \in DOMAIN store : store[k].type \notin SimpleTypes}
  <1>1. c \in {0, 1} /\ c + n \in Nat
    BY DEF CodesIn
  <1>2. ASSUME NEW i \in 1 .. c + n
        PROVE  f[i] \in D /\ f[i] = IF i <= c THEN 245 ELSE 249 + (i - c)
    <2>1. CASE i <= c
      <3>1. c = 1 /\ f[i] = 245
        BY <1>1, <2>1
      <3>2. Has(store, InformationCode, 1)
        BY <3>1 DEF CodesIn
      <3>3. InformationCode \in ObjectTypes /\ SequenceOf(InformationCode, 1) /\ 1 \in Nat
        BY DEF ObjectTypes, SequenceOf, Unique, InformationCode, IpfixMessage
      <3>4. store[Key(InformationCode, 1)].type = InformationCode
        <4>1. store[Key(InformationCode, 1)] =
                 [type |-> InformationCode, seq |-> 1, obj |-> Get(store, InformationCode, 1)]
          BY <3>2, <3>3, EntryUnder
        <4>2. QED
          BY <4>1
      <3>5. Key(InformationCode, 1) = 245 /\ Key(InformationCode, 1) \in DOMAIN store
        BY <3>2 DEF Has, Key, InformationCode
      <3>6. InformationCode \notin SimpleTypes
        BY DEF InformationCode, SimpleTypes, SelectionMeteringEntities,
           MessageHopCount, MsgSequenceNumber, SessionLifetime
      <3>7. QED
        BY <2>1, <3>1, <3>4, <3>5, <3>6
    <2>2. CASE ~(i <= c)
      <3> DEFINE r == i - c
      <3>1. r \in 1 .. n /\ r \in Nat \ {0} /\ f[i] = 249 + r
        BY <1>1, <2>2
      <3> HIDE DEF r
      <3>2. Has(store, IpfixMessage, r)
        BY <3>1, ReportsStored
      <3>3. IpfixMessage \in ObjectTypes /\ SequenceOf(IpfixMessage, r)
        BY <3>1 DEF ObjectTypes, SequenceOf, Unique
      <3>4. store[Key(IpfixMessage, r)].type = IpfixMessage
        <4>1. store[Key(IpfixMessage, r)] =
                 [type |-> IpfixMessage, seq |-> r, obj |-> Get(store, IpfixMessage, r)]
          BY <3>1, <3>2, <3>3, EntryUnder
        <4>2. QED
          BY <4>1
      <3>5. Key(IpfixMessage, r) = 249 + r /\ Key(IpfixMessage, r) \in DOMAIN store
        BY <3>2 DEF Has, Key, IpfixMessage
      <3>6. IpfixMessage \notin SimpleTypes
        BY DEF IpfixMessage, SimpleTypes, SelectionMeteringEntities,
           MessageHopCount, MsgSequenceNumber, SessionLifetime
      <3>7. QED
        BY <2>2, <3>1, <3>4, <3>5, <3>6 DEF r
    <2>3. QED
      BY <2>1, <2>2
  <1>3. f = [i \in 1 .. c + n |-> f[i]]
    OBVIOUS
  <1>4. ASSUME NEW k \in D
        PROVE  \E i \in 1 .. c + n : f[i] = k
    <2>1. /\ k \in DOMAIN store /\ store[k].type \in ObjectTypes
          /\ store[k].type \notin SimpleTypes /\ store[k].seq \in Nat
          /\ SequenceOf(store[k].type, store[k].seq)
          /\ k = Key(store[k].type, store[k].seq)
      BY DEF StoreOK
    <2>2. CASE store[k].type = InformationCode
      <3>1. store[k].seq = 1
        BY <2>1, <2>2 DEF SequenceOf, Unique, InformationCode, IpfixMessage
      <3>2. Has(store, InformationCode, 1) /\ k = 245
        BY <2>1, <2>2, <3>1 DEF Has, Key, InformationCode
      <3>3. c = 1 /\ 1 \in 1 .. c + n /\ 1 <= c
        BY <3>2 DEF CodesIn
      <3>4. f[1] = 245
        BY <3>3
      <3>5. QED
        BY <3>2, <3>3, <3>4
    <2>3. CASE store[k].type # InformationCode
      <3>1. store[k].type = IpfixMessage
        BY <2>1, <2>3, KnownTypes
      <3>2. PICK r \in 1 .. n : r = store[k].seq
        BY <2>1, <3>1, ReportsStored
      <3>3. k = 249 + r
        BY <2>1, <3>1, <3>2 DEF Key, IpfixMessage
      <3>4. c + r \in 1 .. c + n /\ ~(c + r <= c) /\ (c + r) - c = r
        BY <1>1
      <3>5. f[c + r] = 249 + r
        BY <3>4
      <3>6. QED
        BY <3>3, <3>4, <3>5
    <2>4. QED
      BY <2>2, <2>3
  <1> HIDE DEF D
  <1>5. f \in [1 .. c + n -> D]
    BY <1>2, <1>3
  <1>6. \A i, j \in 1 .. c + n : i < j => f[i] < f[j]
    <2> SUFFICES ASSUME NEW i \in 1 .. c + n, NEW j \in 1 .. c + n, i < j
                 PROVE  f[i] < f[j]
      OBVIOUS
    <2>1. /\ f[i] = IF i <= c THEN 245 ELSE 249 + (i - c)
          /\ f[j] = IF j <= c THEN 245 ELSE 249 + (j - c)
      BY <1>2
    <2>2. QED
      BY <1>1, <2>1
  <1>7. QED
    BY <1>1, <1>4, <1>5, <1>6 DEF Increasing, D

LEMMA MspecIs ==
    ASSUME NEW m, NEW n \in Nat, StoreOK(m.store, n), NEW c, c = CodesIn(m.store)
    PROVE  MspecObjects(m) = [i \in 1 .. c + n |-> Mspec(m.store, c, i)]
  <1> DEFINE store == m.store
             D == {k \in DOMAIN store : store[k].type \notin SimpleTypes}
             f == [i \in 1 .. c + n |-> IF i <= c THEN 245 ELSE 249 + (i - c)]
             objs == [i \in 1 .. c + n |-> Mspec(store, c, i)]
  <1>1. c \in {0, 1} /\ c + n \in Nat
    BY DEF CodesIn
  <1>2. Increasing(f, c + n, D)
    BY MspecKeys
  <1>3. \A i \in 1 .. c + n : f[i] = IF i <= c THEN 245 ELSE 249 + (i - c)
    OBVIOUS
  <1>4. D \in SUBSET Int
    <2> SUFFICES ASSUME NEW k \in DOMAIN store PROVE k \in Int
      OBVIOUS
    <2>1. store[k].type \in ObjectTypes /\ store[k].seq \in Nat
          /\ k = Key(store[k].type, store[k].seq)
      BY DEF StoreOK
    <2>2. QED
      BY <2>1, KnownTypes DEF Key
  <1> HIDE DEF f, D
  <1>5. Ascending(D) = f /\ DOMAIN f = 1 .. c + n
    BY <1>2, <1>4, AscendingIs DEF Increasing
  <1>6. MspecObjects(m) = [i \in 1 .. c + n |-> store[f[i]].obj]
    BY <1>5 DEF MspecObjects, D
  <1>7. \A i \in 1 .. c + n : store[f[i]].obj = Mspec(store, c, i)
    <2> SUFFICES ASSUME NEW i \in 1 .. c + n
                 PROVE  store[f[i]].obj = Mspec(store, c, i)
      OBVIOUS
    <2>1. f[i] = IF i <= c THEN 245 ELSE 249 + (i - c)
      BY <1>3
    <2>2. Key(InformationCode, 1) = 245 /\ Key(IpfixMessage, i - c) = 249 + (i - c)
      BY DEF Key, InformationCode, IpfixMessage
    <2>3. QED
      BY <2>1, <2>2 DEF Mspec, Get
  <1>8. QED
    BY <1>6, <1>7

LEMMA BodiesOfMessage ==
    ASSUME NEW m, NEW due, Carries(m.store, due)
    PROVE  /\ Bodies(MspecObjects(m)) = due
           /\ ~CopyFaults(m) =>
                 MspecObjects(m) =
                    [i \in 1 .. Len(due) |-> Get(m.store, IpfixMessage, i)]
  <1> DEFINE n == Len(due)
             c == CodesIn(m.store)
             objs == MspecObjects(m)
             f == [i \in 1 .. n |-> c + i]
  <1>1. n \in Nat /\ StoreOK(m.store, n) /\ due = [i \in 1 .. n |-> due[i]]
        /\ \A i \in 1 .. n : Get(m.store, IpfixMessage, i).body = due[i]
    BY DEF Carries, IsList
  <1>2. c \in {0, 1}
    BY DEF CodesIn
  <1>3. objs = [i \in 1 .. c + n |-> Mspec(m.store, c, i)]
    BY <1>1, MspecIs
  <1>4. \A i \in 1 .. n : Get(m.store, IpfixMessage, i).type = IpfixMessage
    <2> SUFFICES ASSUME NEW i \in 1 .. n
                 PROVE  Get(m.store, IpfixMessage, i).type = IpfixMessage
      OBVIOUS
    <2>1. i \in Nat /\ IpfixMessage \in ObjectTypes /\ SequenceOf(IpfixMessage, i)
      BY <1>1 DEF ObjectTypes, SequenceOf, Unique
    <2>2. Has(m.store, IpfixMessage, i)
      BY <1>1, ReportsStored
    <2>3. QED
      BY <1>1, <2>1, <2>2, EntryUnder
  <1>5. c = 1 => Get(m.store, InformationCode, 1).type = InformationCode
    <2>1. InformationCode \in ObjectTypes /\ SequenceOf(InformationCode, 1) /\ 1 \in Nat
      BY DEF ObjectTypes, SequenceOf, Unique, InformationCode, IpfixMessage
    <2>2. c = 1 => Has(m.store, InformationCode, 1)
      BY DEF CodesIn
    <2>3. QED
      BY <1>1, <2>1, <2>2, EntryUnder
  <1> HIDE DEF n, c, objs
  <1>6. DOMAIN objs = 1 .. c + n /\ c + n \in Nat
        /\ \A i \in 1 .. c + n : objs[i] = Mspec(m.store, c, i)
    BY <1>1, <1>2, <1>3
  <1>7. \A i \in 1 .. n : /\ c + i \in 1 .. c + n
                          /\ objs[c + i] = Get(m.store, IpfixMessage, i)
    <2> SUFFICES ASSUME NEW i \in 1 .. n
                 PROVE  /\ c + i \in 1 .. c + n
                        /\ objs[c + i] = Get(m.store, IpfixMessage, i)
      OBVIOUS
    <2>1. c + i \in 1 .. c + n /\ ~(c + i <= c) /\ (c + i) - c = i
      BY <1>1, <1>2
    <2>2. QED
      BY <1>6, <2>1 DEF Mspec
  <1>8. c = 1 => 1 \in 1 .. c + n /\ objs[1] = Get(m.store, InformationCode, 1)
    <2>1. c = 1 => 1 \in 1 .. c + n /\ 1 <= c
      BY <1>1
    <2>2. QED
      BY <1>6, <2>1 DEF Mspec
  <1>9. Increasing(f, n, ReportsUpTo(objs, c + n))
    <2>1. \A i \in 1 .. n : f[i] = c + i /\ f[i] \in ReportsUpTo(objs, c + n)
      BY <1>4, <1>7 DEF ReportsUpTo
    <2>2. \A x \in ReportsUpTo(objs, c + n) : \E i \in 1 .. n : f[i] = x
      <3> SUFFICES ASSUME NEW x \in 1 .. c + n, objs[x].type = IpfixMessage
                   PROVE  \E i \in 1 .. n : f[i] = x
        BY DEF ReportsUpTo
      <3>1. x > c
        <4>1. c = 1 => x # 1
          BY <1>5, <1>8, KnownTypes
        <4>2. QED
          BY <1>1, <1>2, <4>1
      <3>2. x - c \in 1 .. n /\ c + (x - c) = x
        BY <1>1, <1>2, <3>1
      <3>3. QED
        BY <3>2
    <2>3. f = [i \in 1 .. n |-> f[i]]
      OBVIOUS
    <2>4. \A i, j \in 1 .. n : i < j => c + i < c + j
      BY <1>1, <1>2
    <2> HIDE DEF f
    <2>5. f \in [1 .. n -> ReportsUpTo(objs, c + n)]
      BY <2>1, <2>3
    <2>6. \A i, j \in 1 .. n : i < j => f[i] < f[j]
      BY <2>1, <2>4
    <2>7. QED
      BY <1>1, <2>2, <2>5, <2>6 DEF Increasing
  <1>10. Bodies(objs) = [i \in 1 .. n |-> objs[f[i]].body]
    <2> HIDE DEF f
    <2>1. QED
      BY <1>6, <1>9, BodiesAlong
  <1>11. \A i \in 1 .. n : objs[f[i]].body = due[i]
    BY <1>1, <1>7
  <1>12. Bodies(objs) = due
    <2> HIDE DEF f
    <2>1. QED
      BY <1>1, <1>10, <1>11
  <1>13. ASSUME ~CopyFaults(m)
         PROVE  objs = [i \in 1 .. n |-> Get(m.store, IpfixMessage, i)]
    <2>1. c # 1
      <3> SUFFICES ASSUME c = 1 PROVE FALSE
        OBVIOUS
      <3>1. objs[1] \in ToSet(objs)
        BY <1>6, <1>8 DEF ToSet
      <3>2. objs[1].type = IpfixMessage
        BY <1>13, <3>1 DEF CopyFaults, objs
      <3>3. QED
        BY <1>5, <1>8, <3>2, KnownTypes
    <2>2. c = 0
      BY <1>2, <2>1
    <2>3. c + n = n /\ \A i \in 1 .. n : 0 + i = i
      BY <1>1, <2>2
    <2>4. \A i \in 1 .. n : objs[i] = Get(m.store, IpfixMessage, i)
      BY <1>7, <2>2, <2>3
    <2>5. objs = [i \in 1 .. n |-> objs[i]]
      BY <1>3, <2>3
    <2>6. QED
      BY <2>4, <2>5
  <1>14. QED
    BY <1>12, <1>13 DEF n, objs

(* What a peer meant to send, and the store it has been read into. *)
LEMMA BodiesOfObjects ==
    ASSUME NEW store, NEW objs, NEW N \in Nat, DOMAIN objs = 1 .. N,
           Holds(store, objs, N), \A i \in 1 .. N : Form(objs[i])
    PROVE  Carries(store, Bodies(objs))
  <1> DEFINE P == ReportsUpTo(objs, N)
             due == Bodies(objs)
  <1>1. P \in SUBSET (1 .. N) /\ P \in SUBSET Int
    BY DEF ReportsUpTo
  <1>20. PICK n \in Nat : \E f : Increasing(f, n, P)
    BY <1>1, AscendingExists
  <1>2. PICK f : Increasing(f, n, P)
    BY <1>20
  <1>3. due = [i \in 1 .. n |-> objs[f[i]].body]
    BY <1>2, BodiesAlong
  <1>4. Cardinality(P) = n
    <2> HIDE DEF P
    <2>1. QED
      BY <1>1, <1>2, AscendingIs
  <1>5. Count(objs, N) = n
    BY <1>4 DEF Count
  <1>6. Len(due) = n /\ IsList(due) /\ \A i \in 1 .. n : due[i] = objs[f[i]].body
    <2> HIDE DEF due
    <2>1. Len(due) = n /\ \A i \in 1 .. n : due[i] = objs[f[i]].body
      BY <1>3
    <2>2. QED
      BY <1>3, <2>1 DEF IsList
  <1> HIDE DEF due
  <1>7. ASSUME NEW i \in 1 .. n
        PROVE  Get(store, IpfixMessage, i).body = due[i]
    <2> DEFINE j == f[i]
               R == ReportsUpTo(objs, j)
               g == [r \in 1 .. i |-> f[r]]
    <2>1. j \in P /\ j \in 1 .. N /\ objs[j].type = IpfixMessage
      BY <1>2 DEF Increasing, ReportsUpTo
    <2>2. \A r \in 1 .. i : r \in 1 .. n
      BY <1>2
    <2>3. \A r \in 1 .. n : f[r] \in P /\ f[r] \in 1 .. N
      BY <1>1, <1>2 DEF Increasing
    <2>4. \A r \in 1 .. n : r <= i <=> f[r] <= j
      <3> HIDE DEF P
      <3>1. QED
        BY <1>1, <1>2, IncreasingApart
    <2>5. \A r \in 1 .. i : g[r] = f[r] /\ g[r] \in R
      <3> SUFFICES ASSUME NEW r \in 1 .. i PROVE g[r] = f[r] /\ g[r] \in R
        OBVIOUS
      <3>1. r \in 1 .. n /\ r <= i
        BY <2>2
      <3>2. f[r] \in P /\ f[r] <= j /\ f[r] \in 1 .. N
        BY <2>3, <2>4, <3>1
      <3> HIDE DEF j
      <3>3. f[r] \in R
        BY <2>1, <3>2 DEF ReportsUpTo
      <3>4. QED
        BY <3>3
    <2>6. \A x \in R : \E r \in 1 .. i : g[r] = x
      <3> SUFFICES ASSUME NEW x \in R PROVE \E r \in 1 .. i : g[r] = x
        OBVIOUS
      <3>1. x \in P /\ x <= j
        <4> HIDE DEF j
        <4>1. QED
          BY <2>1 DEF ReportsUpTo
      <3>2. PICK r \in 1 .. n : f[r] = x
        BY <1>2, <3>1 DEF Increasing
      <3>3. r <= i
        BY <2>4, <3>1, <3>2
      <3>4. r \in 1 .. i
        BY <1>2, <3>3
      <3>5. QED
        BY <2>5, <3>2, <3>4
    <2>7. g = [r \in 1 .. i |-> g[r]] /\ i \in Nat
      OBVIOUS
    <2>8. \A r, q \in 1 .. i : r # q => g[r] # g[q]
      <3> SUFFICES ASSUME NEW r \in 1 .. i, NEW q \in 1 .. i, g[r] = g[q]
                   PROVE  r = q
        OBVIOUS
      <3>1. f[r] = f[q] /\ r \in 1 .. n /\ q \in 1 .. n
        BY <2>2, <2>5
      <3> HIDE DEF P
      <3>2. QED
        BY <1>1, <1>2, <3>1, IncreasingApart
    <2> HIDE DEF g, R
    <2>9. g \in [1 .. i -> R]
      BY <2>5, <2>7
    <2>10. Cardinality(R) = i
      BY <2>6, <2>7, <2>8, <2>9, Counted
    <2>11. Count(objs, j) = i
      BY <2>10 DEF Count, R
    <2> HIDE DEF j
    <2>12. KeyAt(objs, j) = Key(IpfixMessage, i)
      BY <2>1, <2>11 DEF KeyAt, SeqAt, Unique
    <2>13. store[KeyAt(objs, j)] = EntryAt(objs, j)
      BY <2>1 DEF Holds
    <2>14. Get(store, IpfixMessage, i) = objs[j]
      BY <2>12, <2>13 DEF Get, EntryAt
    <2>15. QED
      BY <1>6, <2>14 DEF j
  <1>8. StoreOK(store, n) /\ Formed(store)
    <2>1. StoreOK(store, n)
      BY <1>5 DEF Holds
    <2>2. QED
      BY <2>1, StoredAre
  <1>9. QED
    BY <1>6, <1>7, <1>8 DEF Carries, due

(***************************************************************************)
(* The messages the nodes make.                                            *)
(***************************************************************************)
Made(m, due) ==
    /\ m = [type |-> m.type, store |-> m.store] /\ m.type \in MessageTypes
    /\ Carries(m.store, due) /\ KeyTypes(m) \subseteq Settable(m.type)

(* Made, and as the application that gets the message may rely on it. *)
Sound(m, due) == Made(m, due) /\ CheckMessage(m) /\ Checked(m.store)

LEMMA MadeIsOK ==
    ASSUME NEW m, NEW due, Made(m, due)
    PROVE  MessageOK(m, Len(due)) /\ Formed(m.store)
  BY DEF Made, Carries, IsList, MessageOK

LEMMA SoundIsSent ==
    ASSUME NEW m, NEW due, Sound(m, due)
    PROVE  ~SerializeThrows(m)
  BY MadeIsOK, NoThrow DEF Sound

LEMMA ReadIsForm ==
    ASSUME NEW o \in WireObjects, RightLength(o), Readable1(o)
    PROVE  Form(o) /\ CheckObject(o)
  <1>1. /\ o = [type |-> o.type, body |-> o.body, ready |-> TRUE]
        /\ o.type \in Nat /\ o.body \in Seq(Nat)
        /\ o.type = InformationCode =>
                 /\ Len(o.body) = 3 /\ o.body[1] \in Nat /\ o.body[1] < 16
                 /\ o.body[2] \in Nat /\ o.body[2] < 256
    BY WireObject
  <1>2. o.ready = TRUE
    BY Zenon DEF WireObjects
  <1>3. o = [type |-> o.type, body |-> o.body, ready |-> o.ready]
    BY <1>1, <1>2, Zenon
  <1>4. /\ o.type \in ObjectTypes
        /\ o.type = IpfixMessage => o.body \in Readable
        /\ o.type = InformationCode => o.body[3] = 0
    BY DEF Readable1
  <1>5. o.type \in SimpleTypes => Len(o.body) = 1
    BY DEF RightLength
  <1>6. o.type = InformationCode =>
           Len(o.body) = 3 /\ o.body[1] < 256 /\ o.body[2] < 256
    <2> DEFINE a == o.body[1]
    <2>1. o.type = InformationCode =>
             Len(o.body) = 3 /\ a \in Nat /\ a < 16 /\ o.body[2] < 256
      BY <1>1
    <2>2. a \in Nat /\ a < 16 => a < 256
      OBVIOUS
    <2> HIDE DEF a
    <2>3. QED
      BY <2>1, <2>2 DEF a
  <1>7. Form(o)
    BY <1>1, <1>2, <1>3, <1>4, <1>5, <1>6, Zenon DEF Form
  <1>8. CheckObject(o)
    <2>1. CASE o.type = InformationCode
      BY <1>1, <1>4, <2>1, CheckIs
    <2>2. CASE o.type = IpfixMessage
      BY <1>2, <2>2, CheckIs, Zenon
    <2>3. QED
      BY <1>4, <2>1, <2>2, KnownTypes, CheckIs
  <1>9. QED
    BY <1>7, <1>8

LEMMA EmptyList == IsList(<<>>) /\ Len(<<>>) = 0
  BY DEF IsList

LEMMA NewIsMade ==
    ASSUME NEW type \in MessageTypes
    PROVE  Made(NewMessage(type), <<>>) /\ Checked(NewMessage(type).store)
  <1> DEFINE m == NewMessage(type)
  <1>1. m = [type |-> m.type, store |-> m.store] /\ m.type = type /\ m.store = EmptyStore
    BY DEF NewMessage
  <1>2. DOMAIN EmptyStore = {} /\ Range(EmptyStore) = {}
    BY DEF EmptyStore, Range
  <1> HIDE DEF m
  <1>3. Carries(m.store, <<>>)
    BY <1>1, <1>2, EmptyList, EmptyStoreOK DEF Carries, Formed
  <1>4. KeyTypes(m) = {}
    BY <1>1, <1>2 DEF KeyTypes
  <1>5. Checked(m.store)
    BY <1>1, <1>2 DEF Checked
  <1>6. QED
    BY <1>1, <1>3, <1>4, <1>5 DEF Made, m

OwedWith(due, obj) ==
    IF obj.type = IpfixMessage THEN Append(due, obj.body) ELSE due

LEMMA OneMore ==
    ASSUME NEW q, IsList(q), NEW x
    PROVE  /\ IsList(Append(q, x)) /\ Len(Append(q, x)) = Len(q) + 1
           /\ Append(q, x)[Len(q) + 1] = x
           /\ \A i \in 1 .. Len(q) : Append(q, x)[i] = q[i]
  <1> DEFINE n == Len(q)
             a == Append(q, x)
             X == {q[i] : i \in 1 .. n} \cup {x}
  <1>1. n \in Nat /\ q = [i \in 1 .. n |-> q[i]]
    BY DEF IsList
  <1>2. q \in Seq(X) /\ x \in X
    BY <1>1
  <1> HIDE DEF X
  <1>3. a \in Seq(X) /\ Len(a) = n + 1 /\ a[n + 1] = x
        /\ \A i \in 1 .. n : a[i] = q[i]
    BY <1>2
  <1> HIDE DEF a
  <1>4. Len(a) \in Nat /\ a = [i \in 1 .. Len(a) |-> a[i]]
    BY <1>3
  <1>5. QED
    BY <1>3, <1>4 DEF a, IsList

(* mnslp_msg::set_object() *)
LEMMA SetKeeps ==
    ASSUME NEW m, NEW due, Made(m, due), NEW obj, Form(obj),
           obj.type \in Settable(m.type),
           NEW after, after = [type |-> m.type, store |-> SetObject(m.store, obj)]
    PROVE  /\ Made(after, OwedWith(due, obj))
           /\ Checked(m.store) /\ CheckObject(obj) => Checked(after.store)
           /\ KeyTypes(after) = KeyTypes(m) \cup {obj.type}
  <1> DEFINE store == m.store
             n == Len(due)
             s == SetObject(store, obj)
             seq == ChosenSequence(obj, n)
             k == Key(obj.type, seq)
             new == [type |-> obj.type, seq |-> seq, obj |-> obj]
  <1>1. /\ n \in Nat /\ IsList(due) /\ StoreOK(store, n) /\ Formed(store)
        /\ \A i \in 1 .. n : Get(store, IpfixMessage, i).body = due[i]
    BY DEF Made, Carries, IsList
  <1>2. obj.type \in ObjectTypes
    BY Zenon DEF Form
  <1>3. StoreOK(s, IF Unique(obj.type) THEN n ELSE n + 1)
    <2> HIDE DEF n, store
    <2>1. QED
      BY <1>1, <1>2, SetObjectSound
  <1>4. /\ s = Put(store, obj.type, seq, obj)
        /\ seq \in Nat /\ SequenceOf(obj.type, seq)
    <2> HIDE DEF n, store
    <2>1. QED
      BY <1>1, <1>2, SetObjectIs
  <1>5. /\ DOMAIN s = DOMAIN store \cup {k} /\ s[k] = new
        /\ \A j \in DOMAIN store \ {k} : s[j] = store[j]
    <2> DEFINE put == Put(store, obj.type, seq, obj)
    <2>1. /\ put = [j \in DOMAIN put |-> put[j]]
          /\ DOMAIN put = DOMAIN store \cup {k}
          /\ put[k] = [type |-> obj.type, seq |-> seq, obj |-> obj]
          /\ \A j \in DOMAIN store \ {k} : put[j] = store[j]
      <3> HIDE DEF n, store, seq
      <3>1. QED
        BY <1>1, <1>2, <1>4, PutIs
    <2>2. s = put
      BY <1>4
    <2> HIDE DEF put, s, k
    <2>3. QED
      BY <2>1, <2>2
  <1>6. k \in DOMAIN store => store[k].type = obj.type
    <2> SUFFICES ASSUME k \in DOMAIN store PROVE store[k].type = obj.type
      OBVIOUS
    <2>1. /\ store[k].type \in ObjectTypes /\ store[k].seq \in Nat
          /\ SequenceOf(store[k].type, store[k].seq)
          /\ k = Key(store[k].type, store[k].seq)
      BY <1>1 DEF StoreOK
    <2> HIDE DEF seq, store
    <2>2. QED
      BY <1>2, <1>4, <2>1, KeysDistinct
  <1>7. after.store = s /\ after.type = m.type
        /\ after = [type |-> after.type, store |-> after.store]
    OBVIOUS
  <1>8. Formed(s)
    <2> HIDE DEF s, k, store
    <2>1. QED
      BY <1>1, <1>5 DEF Formed
  <1>9. Checked(m.store) /\ CheckObject(obj) => Checked(s)
    <2> HIDE DEF s, k
    <2>1. QED
      BY <1>5 DEF Checked
  <1>10. KeyTypes(after) = KeyTypes(m) \cup {obj.type}
    <2> HIDE DEF s, k
    <2>1. KeyTypes(after) = {s[j].type : j \in DOMAIN s}
      BY <1>7 DEF KeyTypes, Range
    <2>2. KeyTypes(m) = {store[j].type : j \in DOMAIN store}
      BY DEF KeyTypes, Range
    <2>3. s[k].type = obj.type
      BY <1>5
    <2> HIDE DEF new, store
    <2>4. QED
      BY <1>5, <1>6, <2>1, <2>2, <2>3
  <1> HIDE DEF s
  <1>11. Carries(s, OwedWith(due, obj))
    <2>1. CASE obj.type = IpfixMessage
      <3> DEFINE more == Append(due, obj.body)
      <3>1. OwedWith(due, obj) = more /\ ~Unique(obj.type) /\ seq = n + 1
        BY <2>1 DEF OwedWith, Unique, ChosenSequence
      <3>2. IsList(more) /\ Len(more) = n + 1 /\ more[n + 1] = obj.body
            /\ \A i \in 1 .. n : more[i] = due[i]
        BY <1>1, OneMore
      <3> HIDE DEF more, n, store
      <3>3. StoreOK(s, Len(more))
        BY <1>3, <3>1, <3>2
      <3>4. ASSUME NEW i \in 1 .. n + 1
            PROVE  Get(s, IpfixMessage, i).body = more[i]
        <4>1. CASE i = n + 1
          <5>1. Key(IpfixMessage, i) = k
            BY <2>1, <3>1, <4>1
          <5>2. Get(s, IpfixMessage, i) = obj
            <6> HIDE DEF k
            <6>1. QED
              BY <1>5, <5>1 DEF Get
          <5>3. QED
            BY <3>2, <4>1, <5>2
        <4>2. CASE i # n + 1
          <5>1. i \in 1 .. n
            BY <1>1, <4>2
          <5>2. Has(store, IpfixMessage, i)
            BY <1>1, <5>1, ReportsStored
          <5>3. Key(IpfixMessage, i) # k
            BY <1>1, <2>1, <3>1, <4>2 DEF Key, IpfixMessage
          <5>4. Get(s, IpfixMessage, i) = Get(store, IpfixMessage, i)
            <6> HIDE DEF k
            <6>1. QED
              BY <1>5, <5>2, <5>3 DEF Get, Has
          <5>5. QED
            BY <1>1, <3>2, <5>1, <5>4
        <4>3. QED
          BY <4>1, <4>2
      <3>5. Carries(s, more)
        BY <1>8, <3>2, <3>3, <3>4 DEF Carries
      <3>6. QED
        BY <3>1, <3>5
    <2>2. CASE obj.type # IpfixMessage
      <3>1. OwedWith(due, obj) = due /\ Unique(obj.type) /\ seq = 1
        BY <2>2 DEF OwedWith, Unique, ChosenSequence
      <3>2. StoreOK(s, n)
        <4> HIDE DEF n
        <4>1. QED
          BY <1>3, <3>1
      <3>3. ASSUME NEW i \in 1 .. n
            PROVE  Get(s, IpfixMessage, i).body = due[i]
        <4>1. Has(store, IpfixMessage, i)
          <5> HIDE DEF n, store
          <5>1. QED
            BY <1>1, ReportsStored
        <4>2. Key(IpfixMessage, i) # k
          <5>1. IpfixMessage \in ObjectTypes /\ i \in Nat /\ SequenceOf(IpfixMessage, i)
            BY <1>1 DEF ObjectTypes, SequenceOf, Unique
          <5> HIDE DEF seq, n
          <5>2. QED
            BY <1>2, <1>4, <2>2, <5>1, KeysDistinct
        <4>3. Get(s, IpfixMessage, i) = Get(store, IpfixMessage, i)
          <5> HIDE DEF k, store
          <5>1. QED
            BY <1>5, <4>1, <4>2 DEF Get, Has
        <4>4. QED
          BY <1>1, <4>3
      <3>4. Carries(s, due)
        BY <1>1, <1>8, <3>2, <3>3 DEF Carries
      <3>5. QED
        BY <3>1, <3>4
    <2>3. QED
      BY <2>1, <2>2
  <1>12. KeyTypes(after) \subseteq Settable(after.type)
    BY <1>7, <1>10 DEF Made
  <1>13. Made(after, OwedWith(due, obj))
    BY <1>7, <1>11, <1>12 DEF Made
  <1>14. QED
    BY <1>7, <1>9, <1>10, <1>13

(***************************************************************************)
(* The objects a node makes itself.                                        *)
(***************************************************************************)
LEMMA SimpleForm ==
    ASSUME NEW type \in SimpleTypes, NEW x \in Nat
    PROVE  LET o == SimpleObject(type, x)
           IN  o.type = type /\ Form(o) /\ CheckObject(o)
  <1> DEFINE o == SimpleObject(type, x)
  <1>1. o = [type |-> type, body |-> <<x>>, ready |-> TRUE]
    BY DEF SimpleObject, Object
  <1>2. type \in ObjectTypes /\ type # InformationCode /\ type # IpfixMessage
    BY KnownTypes DEF ObjectTypes
  <1>3. o.type = type /\ o.body = <<x>> /\ o.ready = TRUE
    BY <1>1
  <1>4. <<x>> \in Seq(Nat) /\ Len(<<x>>) = 1
    OBVIOUS
  <1> HIDE DEF o
  <1>5. Form(o)
    BY <1>1, <1>2, <1>3, <1>4, Zenon DEF Form
  <1>6. CheckObject(o)
    BY <1>3, CheckIs
  <1>7. QED
    BY <1>3, <1>5, <1>6 DEF o

LEMMA CodeForm ==
    ASSUME NEW severity \in Nat, NEW code \in Nat, NEW about \in Nat,
           severity < 256, code < 256
    PROVE  LET o == CodeObject(severity, code, about)
           IN  /\ o.type = InformationCode /\ Form(o)
               /\ severity < 16 /\ about = 0 => CheckObject(o)
  <1> DEFINE o == CodeObject(severity, code, about)
             b == <<severity, code, about>>
  <1>1. o = [type |-> InformationCode, body |-> b, ready |-> TRUE]
    BY DEF CodeObject, Object
  <1>2. InformationCode \in ObjectTypes /\ InformationCode \notin SimpleTypes
        /\ InformationCode # IpfixMessage
    BY KnownTypes DEF ObjectTypes
  <1>3. b \in Seq(Nat) /\ Len(b) = 3 /\ b[1] = severity /\ b[2] = code /\ b[3] = about
    OBVIOUS
  <1> HIDE DEF b
  <1>4. o.type = InformationCode /\ o.body = b /\ o.ready = TRUE
    BY <1>1
  <1> HIDE DEF o
  <1>5. Len(b) = 3 /\ b[1] < 256 /\ b[2] < 256
    BY <1>3
  <1>6. Form(o)
    BY <1>1, <1>2, <1>3, <1>4, <1>5, Zenon DEF Form
  <1>7. severity < 16 /\ about = 0 => CheckObject(o)
    BY <1>3, <1>4, CheckIs
  <1>8. QED
    BY <1>4, <1>6, <1>7 DEF o

LEMMA ValueIsNumber ==
    ASSUME NEW store, Formed(store), NEW type \in SimpleTypes
    PROVE  GetValue(store, type) \in Nat
  <1> DEFINE o == Get(store, type, 1)
  <1>1. CASE Has(store, type, 1) /\ o.type = type
    <2>1. Form(o)
      BY <1>1 DEF Formed, Has, Get
    <2>2. o.body \in Seq(Nat) /\ Len(o.body) = 1
      BY <1>1, <2>1, Zenon DEF Form
    <2> HIDE DEF o
    <2>3. o.body[1] \in Nat
      BY <2>2
    <2>4. QED
      BY <1>1, <2>3 DEF GetValue, o
  <1>2. CASE ~(Has(store, type, 1) /\ o.type = type)
    BY <1>2 DEF GetValue
  <1>3. QED
    BY <1>1, <1>2

(***************************************************************************)
(* The RESPONSEs of a node.                                                *)
(***************************************************************************)
LEMMA SetOne ==
    ASSUME NEW a
    PROVE  FoldLeft(SetObject, EmptyStore, <<a>>) = SetObject(EmptyStore, a)
  <1> DEFINE objs == <<a>>
  <1>1. DOMAIN objs = 1 .. 1 /\ objs[1] = a /\ 1 \in Nat
    OBVIOUS
  <1> HIDE DEF objs
  <1>2. PICK r : /\ Trace(r, "set", EmptyStore, objs, 1)
                 /\ FoldLeft(SetObject, EmptyStore, objs) = r[1]
    BY <1>1, SetObjectTraced
  <1>3. r[0] = EmptyStore /\ r[1] = SetObject(r[1 - 1], objs[1]) /\ 1 - 1 = 0
    BY <1>2 DEF Trace, FoldStep
  <1>4. QED
    BY <1>1, <1>2, <1>3 DEF objs

LEMMA SetTwo ==
    ASSUME NEW a, NEW b
    PROVE  FoldLeft(SetObject, EmptyStore, <<a, b>>)
              = SetObject(SetObject(EmptyStore, a), b)
  <1> DEFINE objs == <<a, b>>
  <1>1. DOMAIN objs = 1 .. 2 /\ objs[1] = a /\ objs[2] = b /\ 2 \in Nat
    OBVIOUS
  <1> HIDE DEF objs
  <1>2. PICK r : /\ Trace(r, "set", EmptyStore, objs, 2)
                 /\ FoldLeft(SetObject, EmptyStore, objs) = r[2]
    BY <1>1, SetObjectTraced
  <1>3. r[0] = EmptyStore /\ r[1] = SetObject(r[1 - 1], objs[1]) /\ 1 - 1 = 0
        /\ r[2] = SetObject(r[2 - 1], objs[2]) /\ 2 - 1 = 1
    BY <1>2 DEF Trace, FoldStep
  <1>4. QED
    BY <1>1, <1>2, <1>3 DEF objs

LEMMA TwoInOrder ==
    ASSUME NEW a, NEW b
    PROVE  <<a>> \o <<b>> = <<a, b>>
  <1> DEFINE X == {a, b}
             p == <<a>>
             q == <<b>>
             r == p \o q
  <1>1. p \in Seq(X) /\ q \in Seq(X) /\ Len(p) = 1 /\ Len(q) = 1
        /\ p[1] = a /\ q[1] = b
    OBVIOUS
  <1> HIDE DEF p, q, X
  <1>2. Extends(r, p, q, X)
    BY <1>1, Appended
  <1>3. r \in Seq(X) /\ Len(r) = 2 /\ r[1] = a /\ r[2] = b
    <2>1. /\ r \in Seq(X) /\ Len(r) = Len(p) + Len(q)
          /\ \A i \in 1 .. Len(p) : r[i] = p[i]
          /\ \A i \in 1 .. Len(q) : r[Len(p) + i] = q[i]
      BY <1>2 DEF Extends
    <2> HIDE DEF r
    <2>2. 1 \in 1 .. 1 /\ 1 + 1 = 2
      OBVIOUS
    <2>3. QED
      BY <1>1, <2>1, <2>2
  <1> HIDE DEF r
  <1>4. r = <<a, b>>
    BY <1>3
  <1>5. QED
    BY <1>4 DEF r, p, q

LEMMA ResponseSettable ==
    /\ Response \in MessageTypes
    /\ \A t \in {InformationCode, MsgSequenceNumber, SessionLifetime} :
          t \in Settable(Response) /\ t # IpfixMessage
    /\ MsgSequenceNumber \in SimpleTypes /\ SessionLifetime \in SimpleTypes
    /\ \A m : m.type = Response =>
          (CheckMessage(m) <=> KeyTypes(m) \subseteq Settable(m.type))
  <1>1. Settable(Response) = ResponseSets
    BY DEF Settable, Response, Configure
  <1>2. ASSUME NEW m, m.type = Response
        PROVE  CheckMessage(m) <=> KeyTypes(m) \subseteq Settable(m.type)
    <2>1. CheckMessage(m) = ResponseCheck(m)
      BY <1>2 DEF CheckMessage, Configure, Response, Refresh, Notify, Options
    <2>2. QED
      BY <1>1, <1>2, <2>1 DEF ResponseCheck
  <1>3. QED
    BY <1>1, <1>2 DEF MessageTypes, Response, ResponseSets, ResponseWrites, ToSet,
       SimpleTypes, InformationCode, MsgSequenceNumber, SessionLifetime,
       IpfixMessage, SelectionMeteringEntities, MessageHopCount

(* One object more in a RESPONSE that was in order. *)
LEMMA ResponseWith ==
    ASSUME NEW m, Sound(m, <<>>), m.type = Response,
           NEW obj, Form(obj), CheckObject(obj),
           obj.type \in {InformationCode, MsgSequenceNumber, SessionLifetime},
           NEW after, after = [type |-> Response, store |-> SetObject(m.store, obj)]
    PROVE  Sound(after, <<>>)
  <1>1. obj.type \in Settable(m.type) /\ obj.type # IpfixMessage
    BY ResponseSettable
  <1>2. after = [type |-> m.type, store |-> SetObject(m.store, obj)]
    OBVIOUS
  <1>3. Made(m, <<>>) /\ Checked(m.store)
    BY DEF Sound
  <1>4. Made(after, OwedWith(<<>>, obj)) /\ Checked(after.store)
    BY <1>1, <1>2, <1>3, SetKeeps
  <1>5. OwedWith(<<>>, obj) = <<>>
    BY <1>1 DEF OwedWith
  <1>6. after.type = Response
    OBVIOUS
  <1>7. CheckMessage(after)
    BY <1>4, <1>6, ResponseSettable DEF Made
  <1>8. QED
    BY <1>4, <1>5, <1>7 DEF Sound

AResponse(r) ==
    r.type = Response /\ r = [type |-> Response, store |-> r.store]

LEMMA ResponseSound ==
    ASSUME NEW m, m = Refused \/ Formed(m.store),
           NEW severity \in Nat, severity < 16, NEW code \in Nat, code < 256,
           NEW r, r = CreateResponse(m, severity, code)
    PROVE  Sound(r, <<>>) /\ AResponse(r)
  <1> DEFINE a == CodeObject(severity, code, 0)
             b == SimpleObject(MsgSequenceNumber, GetValue(m.store, MsgSequenceNumber))
             second == m # Refused /\ Has(m.store, MsgSequenceNumber, 1)
             m0 == NewMessage(Response)
             m1 == [type |-> Response, store |-> SetObject(EmptyStore, a)]
  <1>1. a.type = InformationCode /\ Form(a) /\ CheckObject(a)
    <2>1. 0 \in Nat /\ severity < 256
      OBVIOUS
    <2>2. QED
      BY <2>1, CodeForm
  <1>2. second => b.type = MsgSequenceNumber /\ Form(b) /\ CheckObject(b)
    <2>1. second => GetValue(m.store, MsgSequenceNumber) \in Nat
      BY ValueIsNumber, ResponseSettable
    <2>2. QED
      BY <2>1, SimpleForm, ResponseSettable
  <1>3. r = WithObjects(Response, <<a>> \o (IF second THEN <<b>> ELSE <<>>))
    BY DEF CreateResponse
  <1> HIDE DEF a, b, second
  <1>4. Sound(m0, <<>>) /\ m0.type = Response /\ m0.store = EmptyStore
    <2>1. Made(m0, <<>>) /\ Checked(m0.store)
      BY NewIsMade, ResponseSettable
    <2>2. m0.type = Response /\ m0.store = EmptyStore
      BY DEF NewMessage
    <2> HIDE DEF m0
    <2>3. CheckMessage(m0)
      BY <2>1, <2>2, ResponseSettable DEF Made
    <2>4. QED
      BY <2>1, <2>2, <2>3 DEF Sound
  <1> HIDE DEF m0
  <1>5. Sound(m1, <<>>) /\ m1.type = Response
    <2>1. m1 = [type |-> Response, store |-> SetObject(m0.store, a)]
      BY <1>4
    <2>2. m1.type = Response
      OBVIOUS
    <2> HIDE DEF m1
    <2>3. QED
      BY <1>1, <1>4, <2>1, <2>2, ResponseWith
  <1>6. CASE ~second
    <2>1. <<a>> \o <<>> = <<a>>
      OBVIOUS
    <2>2. r = WithObjects(Response, <<a>>)
      BY <1>3, <1>6, <2>1
    <2>3. r = m1
      BY <2>2, SetOne DEF WithObjects
    <2>4. m1.type = Response /\ m1 = [type |-> Response, store |-> m1.store]
      OBVIOUS
    <2> HIDE DEF m1
    <2>5. QED
      BY <1>5, <2>3, <2>4 DEF AResponse
  <1>7. CASE second
    <2> DEFINE m2 == [type |-> Response, store |-> SetObject(m1.store, b)]
    <2>1. <<a>> \o <<b>> = <<a, b>>
      BY TwoInOrder
    <2>2. r = WithObjects(Response, <<a, b>>)
      BY <1>3, <1>7, <2>1
    <2>3. r = m2
      BY <2>2, SetTwo DEF WithObjects
    <2>4. m2.type = Response /\ m2 = [type |-> Response, store |-> SetObject(m1.store, b)]
          /\ m2 = [type |-> Response, store |-> m2.store]
      OBVIOUS
    <2> HIDE DEF m1, m2
    <2>5. Sound(m2, <<>>)
      BY <1>2, <1>5, <1>7, <2>4, ResponseWith
    <2>6. QED
      BY <2>3, <2>4, <2>5 DEF AResponse
  <1>8. QED
    BY <1>6, <1>7

LEMMA SuccessSound ==
    ASSUME NEW m, Formed(m.store), NEW lifetime \in Nat,
           NEW r, r = CreateSuccessResponse(m, lifetime)
    PROVE  Sound(r, <<>>)
  <1> DEFINE q == CreateResponse(m, 2, 1)
             o == SimpleObject(SessionLifetime, lifetime)
  <1>1. Sound(q, <<>>) /\ q.type = Response /\ q = [type |-> Response, store |-> q.store]
    <2>1. 2 \in Nat /\ 2 < 16 /\ 1 \in Nat /\ 1 < 256
      OBVIOUS
    <2>2. q = CreateResponse(m, 2, 1)
      OBVIOUS
    <2> HIDE DEF q
    <2>3. m = Refused \/ Formed(m.store)
      OBVIOUS
    <2>4. Sound(q, <<>>)
      BY <2>1, <2>2, <2>3, ResponseSound
    <2>5. AResponse(q)
      BY <2>1, <2>2, <2>3, ResponseSound
    <2>6. QED
      BY <2>4, <2>5 DEF AResponse
  <1>2. o.type = SessionLifetime /\ Form(o) /\ CheckObject(o)
    BY SimpleForm, ResponseSettable
  <1>3. r = [q EXCEPT !.store = SetObject(q.store, o)]
    BY DEF CreateSuccessResponse
  <1> HIDE DEF q, o
  <1>4. r = [type |-> Response, store |-> SetObject(q.store, o)]
    BY <1>1, <1>3
  <1>5. QED
    BY <1>1, <1>2, <1>4, ResponseWith

(***************************************************************************)
(* The CONFIGURE a forwarder passes on.                                    *)
(***************************************************************************)
LEMMA WithoutIs ==
    ASSUME NEW q, NEW n \in Nat, DOMAIN q = 1 .. n, NEW kept,
           NEW k, NEW f, Increasing(f, k, (1 .. n) \ kept)
    PROVE  Without(q, kept) = [i \in 1 .. k |-> q[f[i]]]
  <1> DEFINE P == (1 .. n) \ kept
  <1>1. P \in SUBSET Int
    OBVIOUS
  <1>2. Without(q, kept) = ElementsAt(q, P)
    BY DEF Without
  <1> HIDE DEF P
  <1>3. Increasing(f, k, P)
    BY DEF P
  <1>4. Ascending(P) = f /\ DOMAIN f = 1 .. k
    BY <1>1, <1>3, AscendingIs DEF Increasing
  <1>5. QED
    BY <1>2, <1>4 DEF ElementsAt

LEMMA ListIs ==
    ASSUME NEW k \in Nat, NEW X, NEW q, q = [i \in 1 .. k |-> q[i]],
           \A i \in 1 .. k : q[i] \in X
    PROVE  q \in Seq(X) /\ Len(q) = k /\ IsList(q)
  <1>1. q \in Seq(X) /\ Len(q) = k
    OBVIOUS
  <1>2. QED
    BY <1>1 DEF IsList

(* Four simple objects and then metering objects. *)
Requested(objs, four, missing, k) ==
    /\ DOMAIN objs = 1 .. 4 + k
    /\ \A i \in 1 .. 4 : objs[i] = four[i]
    /\ \A i \in 1 .. k : objs[4 + i] = missing[i]

LEMMA FourAndMore ==
    ASSUME NEW a, NEW b, NEW c, NEW d, NEW four, four = <<a, b, c, d>>,
           NEW k \in Nat, NEW missing, missing = [i \in 1 .. k |-> missing[i]]
    PROVE  Requested(four \o missing, four, missing, k)
  <1> DEFINE X == {a, b, c, d} \cup {missing[i] : i \in 1 .. k}
             objs == four \o missing
  <1>1. four \in Seq(X) /\ Len(four) = 4
    OBVIOUS
  <1>2. missing \in Seq(X) /\ Len(missing) = k
    <2>1. \A i \in 1 .. k : missing[i] \in X
      OBVIOUS
    <2> HIDE DEF X
    <2>2. QED
      BY <2>1, ListIs
  <1> HIDE DEF X
  <1>3. Extends(objs, four, missing, X)
    BY <1>1, <1>2, Appended
  <1>4. /\ objs \in Seq(X) /\ Len(objs) = Len(four) + Len(missing)
        /\ \A i \in 1 .. Len(four) : objs[i] = four[i]
        /\ \A i \in 1 .. Len(missing) : objs[Len(four) + i] = missing[i]
    BY <1>3 DEF Extends
  <1> HIDE DEF objs
  <1>5. DOMAIN objs = 1 .. 4 + k
    BY <1>1, <1>2, <1>4
  <1>6. Requested(objs, four, missing, k)
    BY <1>1, <1>2, <1>4, <1>5 DEF Requested
  <1>7. QED
    BY <1>6 DEF objs

LEMMA ConfigureTypes ==
    /\ Configure \in MessageTypes
    /\ Settable(Configure) = ToSet(ConfigureWrites) \cup {IpfixMessage}
    /\ ToSet(ConfigureWrites) = {MsgSequenceNumber, SessionLifetime,
                                 SelectionMeteringEntities, MessageHopCount}
    /\ ToSet(ConfigureWrites) = SimpleTypes
    /\ \A m : m.type = Configure =>
          (CheckMessage(m) <=> ToSet(ConfigureWrites) \subseteq KeyTypes(m))
  <1>1. ToSet(ConfigureWrites) = {MsgSequenceNumber, SessionLifetime,
                                  SelectionMeteringEntities, MessageHopCount}
    BY DEF ConfigureWrites, ToSet
  <1>2. ToSet(ConfigureWrites) = SimpleTypes
    BY <1>1 DEF SimpleTypes
  <1>3. Settable(Configure) = ToSet(ConfigureWrites) \cup {IpfixMessage}
    BY DEF Settable, Configure, Response, ConfigureSets
  <1>4. ASSUME NEW m, m.type = Configure
        PROVE  CheckMessage(m) <=> ToSet(ConfigureWrites) \subseteq KeyTypes(m)
    <2>1. CheckMessage(m) = ConfigureCheck(m)
      BY <1>4 DEF CheckMessage, Configure, Response, Refresh, Notify, Options
    <2>2. QED
      BY <2>1 DEF ConfigureCheck
  <1>5. Configure \in MessageTypes
    BY DEF MessageTypes
  <1>6. QED
    BY <1>1, <1>2, <1>3, <1>4, <1>5

(* Any CONFIGURE made that way is in order. *)
LEMMA RequestSound ==
    ASSUME NEW four, NEW k \in Nat, NEW missing, NEW objs,
           Requested(objs, four, missing, k),
           four[1].type = SessionLifetime, four[2].type = MsgSequenceNumber,
           four[3].type = SelectionMeteringEntities,
           four[4].type = MessageHopCount,
           \A i \in 1 .. 4 : Form(four[i]) /\ CheckObject(four[i]),
           \A i \in 1 .. k : /\ missing[i].type = IpfixMessage
                             /\ Form(missing[i]) /\ CheckObject(missing[i]),
           NEW r, r = WithObjects(Configure, objs)
    PROVE  Sound(r, [i \in 1 .. k |-> missing[i].body])
  <1> DEFINE N == 4 + k
             s == FoldLeft(SetObject, EmptyStore, objs)
             g == [i \in 1 .. k |-> 4 + i]
             due == [i \in 1 .. k |-> missing[i].body]
  <1>1. /\ N \in Nat /\ DOMAIN objs = 1 .. N
        /\ \A i \in 1 .. 4 : objs[i] = four[i]
        /\ \A i \in 1 .. k : objs[4 + i] = missing[i]
    BY DEF Requested
  <1>2. /\ \A i \in 1 .. N : ~(i \in 1 .. 4) => i - 4 \in 1 .. k /\ 4 + (i - 4) = i
        /\ \A i \in 1 .. 4 : i \in 1 .. N
        /\ \A i \in 1 .. k : 4 + i \in 1 .. N /\ ~(4 + i \in 1 .. 4)
    OBVIOUS
  <1>3. r = [type |-> Configure, store |-> s]
    BY DEF WithObjects
  <1> HIDE DEF N
  <1>4. \A i \in 1 .. N : /\ Form(objs[i]) /\ CheckObject(objs[i])
                          /\ ~(i \in 1 .. 4) => objs[i].type = IpfixMessage
    <2> SUFFICES ASSUME NEW i \in 1 .. N
                 PROVE  /\ Form(objs[i]) /\ CheckObject(objs[i])
                        /\ ~(i \in 1 .. 4) => objs[i].type = IpfixMessage
      OBVIOUS
    <2>1. CASE i \in 1 .. 4
      BY <1>1, <2>1
    <2>2. CASE ~(i \in 1 .. 4)
      <3>1. i - 4 \in 1 .. k /\ 4 + (i - 4) = i
        BY <1>2, <2>2
      <3>2. objs[4 + (i - 4)] = missing[i - 4]
        BY <1>1, <3>1
      <3>3. objs[i] = missing[i - 4]
        BY <3>1, <3>2
      <3>4. QED
        BY <2>2, <3>1, <3>3
    <2>3. QED
      BY <2>1, <2>2
  <1>5. /\ objs[1].type = SessionLifetime /\ objs[2].type = MsgSequenceNumber
        /\ objs[3].type = SelectionMeteringEntities
        /\ objs[4].type = MessageHopCount
        /\ 1 \in 1 .. N /\ 2 \in 1 .. N /\ 3 \in 1 .. N /\ 4 \in 1 .. N
    BY <1>1, <1>2
  <1>6. Known(objs, N)
    <2>1. \A i \in 1 .. N : objs[i].type \in ObjectTypes
      BY <1>4, Zenon DEF Form
    <2>2. QED
      BY <2>1 DEF Known
  <1>7. \A i \in 1 .. 4 : i = 1 \/ i = 2 \/ i = 3 \/ i = 4
    OBVIOUS
  <1>8. \A i \in 1 .. N : i \in 1 .. 4 <=> objs[i].type # IpfixMessage
    BY <1>4, <1>5, <1>7 DEF SessionLifetime, MsgSequenceNumber,
       SelectionMeteringEntities, MessageHopCount, IpfixMessage
  <1>9. NoDoubles(objs, N)
    <2> SUFFICES ASSUME NEW i \in 1 .. N, NEW j \in 1 .. N, i # j,
                        objs[i].type = objs[j].type,
                        objs[i].type # IpfixMessage
                 PROVE  FALSE
      BY DEF NoDoubles
    <2>1. i \in 1 .. 4 /\ j \in 1 .. 4
      BY <1>8
    <2>2. QED
      BY <1>5, <1>7, <2>1 DEF SessionLifetime, MsgSequenceNumber,
         SelectionMeteringEntities, MessageHopCount
  <1>10. Holds(s, objs, N)
    <2> HIDE DEF s
    <2>1. FoldLeft(SetObject, EmptyStore, objs) = s
      BY DEF s
    <2>2. QED
      BY <1>1, <1>6, <1>9, <2>1, SetAll
  <1> HIDE DEF s
  <1>11. Checked(s)
    BY <1>4, <1>10, StoredAre
  <1>12. Carries(s, Bodies(objs))
    BY <1>1, <1>4, <1>10, BodiesOfObjects
  <1>13. Increasing(g, k, ReportsUpTo(objs, N))
    <2>1. \A i \in 1 .. k : g[i] = 4 + i /\ g[i] \in ReportsUpTo(objs, N)
      BY <1>2, <1>8 DEF ReportsUpTo
    <2>2. \A x \in ReportsUpTo(objs, N) : \E i \in 1 .. k : g[i] = x
      <3> SUFFICES ASSUME NEW x \in 1 .. N, objs[x].type = IpfixMessage
                   PROVE  \E i \in 1 .. k : g[i] = x
        BY DEF ReportsUpTo
      <3>1. x - 4 \in 1 .. k /\ 4 + (x - 4) = x
        BY <1>2, <1>8
      <3>2. QED
        BY <3>1
    <2>3. g = [i \in 1 .. k |-> g[i]]
      OBVIOUS
    <2>4. \A i, j \in 1 .. k : i < j => 4 + i < 4 + j
      OBVIOUS
    <2> HIDE DEF g
    <2>5. g \in [1 .. k -> ReportsUpTo(objs, N)]
      BY <2>1, <2>3
    <2>6. \A i, j \in 1 .. k : i < j => g[i] < g[j]
      BY <2>1, <2>4
    <2>7. QED
      BY <2>2, <2>5, <2>6 DEF Increasing
  <1>14. Bodies(objs) = due
    <2>1. \A i \in 1 .. k : g[i] = 4 + i
      OBVIOUS
    <2> HIDE DEF g
    <2>2. Bodies(objs) = [i \in 1 .. k |-> objs[g[i]].body]
      BY <1>1, <1>13, BodiesAlong
    <2>3. \A i \in 1 .. k : objs[g[i]].body = missing[i].body
      <3>1. \A i \in 1 .. k : objs[4 + i] = missing[i]
        BY <1>1
      <3>2. \A i \in 1 .. k : objs[g[i]] = missing[i]
        BY <2>1, <3>1
      <3>3. QED
        BY <3>2
    <2>4. QED
      BY <2>2, <2>3
  <1>15. KeyTypes(r) = {objs[i].type : i \in 1 .. N}
    <2>1. KeyTypes(r) = {s[j].type : j \in DOMAIN s}
      BY <1>3 DEF KeyTypes, Range
    <2>2. DOMAIN s = {KeyAt(objs, i) : i \in 1 .. N}
      BY <1>10 DEF Holds
    <2>3. \A i \in 1 .. N : s[KeyAt(objs, i)] = EntryAt(objs, i)
      BY <1>10 DEF Holds
    <2>4. \A i \in 1 .. N : s[KeyAt(objs, i)].type = objs[i].type
      <3>1. \A i \in 1 .. N : EntryAt(objs, i).type = objs[i].type
        BY DEF EntryAt
      <3>2. QED
        BY <2>3, <3>1
    <2>5. QED
      BY <2>1, <2>2, <2>4
  <1>16. r.type = Configure /\ r.store = s /\ r = [type |-> r.type, store |-> r.store]
    BY <1>3
  <1>17. KeyTypes(r) \subseteq Settable(r.type)
    <2>1. \A i \in 1 .. N : objs[i].type \in SimpleTypes \/ objs[i].type = IpfixMessage
      BY <1>5, <1>7, <1>8 DEF SimpleTypes
    <2>2. QED
      BY <1>15, <1>16, <2>1, ConfigureTypes
  <1>18. CheckMessage(r)
    <2>1. SimpleTypes \subseteq KeyTypes(r)
      BY <1>5, <1>15 DEF SimpleTypes
    <2>2. QED
      BY <1>16, <2>1, ConfigureTypes
  <1>19. QED
    BY <1>11, <1>12, <1>14, <1>16, <1>17, <1>18, ConfigureTypes DEF Sound, Made

LEMMA ForwardedSound ==
    ASSUME NEW m, NEW due, Carries(m.store, due), Checked(m.store),
           ~CopyFaults(m), NEW lifetime \in Nat, NEW kept,
           NEW r, r = Forwarded(m, lifetime, Without(MspecObjects(m), kept))
    PROVE  Sound(r, Without(due, kept))
  <1> DEFINE n == Len(due)
             store == m.store
             q == MspecObjects(m)
             left == (1 .. n) \ kept
             missing == Without(q, kept)
             v(type) == GetValue(store, type)
             shorter == Min({lifetime, v(SessionLifetime)})
             a == SimpleObject(SessionLifetime, shorter)
             b == SimpleObject(MsgSequenceNumber, v(MsgSequenceNumber))
             c == SimpleObject(SelectionMeteringEntities, v(SelectionMeteringEntities))
             d == SimpleObject(MessageHopCount, v(MessageHopCount))
             four == <<a, b, c, d>>
  <1>1. /\ n \in Nat /\ StoreOK(store, n) /\ Formed(store)
        /\ due = [i \in 1 .. n |-> due[i]]
        /\ \A i \in 1 .. n : Get(store, IpfixMessage, i).body = due[i]
    BY DEF Carries, IsList
  <1>2. q = [i \in 1 .. n |-> Get(store, IpfixMessage, i)]
    BY BodiesOfMessage
  <1>3. r = WithObjects(Configure, four \o missing)
    BY DEF Forwarded
  <1>4. \A i \in 1 .. n :
           LET o == Get(store, IpfixMessage, i)
           IN  o.type = IpfixMessage /\ Form(o) /\ CheckObject(o)
    <2> SUFFICES ASSUME NEW i \in 1 .. n
                 PROVE  LET o == Get(store, IpfixMessage, i)
                        IN  o.type = IpfixMessage /\ Form(o) /\ CheckObject(o)
      OBVIOUS
    <2>1. i \in Nat /\ IpfixMessage \in ObjectTypes /\ SequenceOf(IpfixMessage, i)
      BY <1>1 DEF ObjectTypes, SequenceOf, Unique
    <2> HIDE DEF n, store
    <2>2. Has(store, IpfixMessage, i)
      BY <1>1, ReportsStored
    <2>3. Get(store, IpfixMessage, i).type = IpfixMessage
      BY <1>1, <2>1, <2>2, EntryUnder
    <2>4. Form(Get(store, IpfixMessage, i)) /\ CheckObject(Get(store, IpfixMessage, i))
      BY <1>1, <2>2 DEF Formed, Checked, Has, Get, store
    <2>5. QED
      BY <2>3, <2>4
  <1>50. PICK k \in Nat : \E f : Increasing(f, k, left)
    <2>1. left \in SUBSET (1 .. n)
      OBVIOUS
    <2> HIDE DEF left
    <2>2. QED
      BY <1>1, <2>1, AscendingExists
  <1>5. PICK f : Increasing(f, k, left)
    BY <1>50
  <1>6. \A i \in 1 .. k : f[i] \in 1 .. n
    BY <1>5 DEF Increasing
  <1>7. missing = [i \in 1 .. k |-> q[f[i]]]
    <2>1. DOMAIN q = 1 .. n
      BY <1>2
    <2>2. n \in Nat /\ Increasing(f, k, (1 .. n) \ kept)
      BY <1>1, <1>5
    <2> HIDE DEF q, n
    <2>3. QED
      BY <2>1, <2>2, WithoutIs
  <1>8. Without(due, kept) = [i \in 1 .. k |-> due[f[i]]]
    <2>1. DOMAIN due = 1 .. n
      BY <1>1
    <2>2. n \in Nat /\ Increasing(f, k, (1 .. n) \ kept)
      BY <1>1, <1>5
    <2> HIDE DEF n
    <2>3. QED
      BY <2>1, <2>2, WithoutIs
  <1>9. SessionLifetime \in SimpleTypes /\ MsgSequenceNumber \in SimpleTypes
        /\ SelectionMeteringEntities \in SimpleTypes /\ MessageHopCount \in SimpleTypes
    BY DEF SimpleTypes
  <1>10. \A t \in SimpleTypes : v(t) \in Nat
    BY <1>1, ValueIsNumber
  <1>11. shorter \in Nat
    <2>1. v(SessionLifetime) \in Nat
      BY <1>9, <1>10
    <2> DEFINE w == v(SessionLifetime)
    <2> HIDE DEF w
    <2>2. w \in Nat
      BY <2>1 DEF w
    <2>3. \E x \in {lifetime, w} : \A y \in {lifetime, w} : x <= y
      BY <2>2
    <2>4. Min({lifetime, w}) \in {lifetime, w}
      BY <2>3 DEF Min
    <2>5. Min({lifetime, w}) \in Nat
      BY <2>2, <2>4
    <2>6. QED
      BY <2>5 DEF w
  <1> HIDE DEF v, shorter, q, missing
  <1>12. /\ a.type = SessionLifetime /\ Form(a) /\ CheckObject(a)
         /\ b.type = MsgSequenceNumber /\ Form(b) /\ CheckObject(b)
         /\ c.type = SelectionMeteringEntities /\ Form(c) /\ CheckObject(c)
         /\ d.type = MessageHopCount /\ Form(d) /\ CheckObject(d)
    BY <1>9, <1>10, <1>11, SimpleForm
  <1> HIDE DEF a, b, c, d
  <1>13. four[1] = a /\ four[2] = b /\ four[3] = c /\ four[4] = d
         /\ four = <<a, b, c, d>>
    OBVIOUS
  <1> HIDE DEF four
  <1>14. missing = [i \in 1 .. k |-> missing[i]]
         /\ \A i \in 1 .. k : missing[i] = Get(store, IpfixMessage, f[i])
    BY <1>2, <1>6, <1>7
  <1>15. Requested(four \o missing, four, missing, k)
    BY <1>13, <1>14, FourAndMore
  <1>16. \A i \in 1 .. 4 : Form(four[i]) /\ CheckObject(four[i])
    <2>1. \A i \in 1 .. 4 : i = 1 \/ i = 2 \/ i = 3 \/ i = 4
      OBVIOUS
    <2>2. QED
      BY <1>12, <1>13, <2>1
  <1>17. \A i \in 1 .. k : /\ missing[i].type = IpfixMessage
                           /\ Form(missing[i]) /\ CheckObject(missing[i])
    BY <1>4, <1>6, <1>14
  <1>18. Sound(r, [i \in 1 .. k |-> missing[i].body])
    <2>1. /\ four[1].type = SessionLifetime /\ four[2].type = MsgSequenceNumber
          /\ four[3].type = SelectionMeteringEntities
          /\ four[4].type = MessageHopCount
      BY <1>12, <1>13
    <2> DEFINE objs == four \o missing
    <2>2. Requested(objs, four, missing, k) /\ r = WithObjects(Configure, objs)
      BY <1>3, <1>15
    <2> HIDE DEF objs
    <2>3. QED
      BY <1>16, <1>17, <2>1, <2>2, RequestSound
  <1>19. \A i \in 1 .. k : missing[i].body = due[f[i]]
    BY <1>1, <1>6, <1>14
  <1>20. [i \in 1 .. k |-> missing[i].body] = Without(due, kept)
    BY <1>8, <1>19
  <1>21. QED
    BY <1>18, <1>20

(***************************************************************************)
(* What the reader of a message gets.                                      *)
(***************************************************************************)
Received(m, owes) ==
    /\ m = [type |-> m.type, store |-> m.store] /\ m.type \in MessageTypes
    /\ Carries(m.store, owes) /\ Checked(m.store)

LEMMA HeldIs ==
    ASSUME NEW store, NEW objs, NEW n \in Nat, DOMAIN objs = 1 .. n,
           Known(objs, n), NoDoubles(objs, n), Holds(store, objs, n)
    PROVE  /\ Cardinality(DOMAIN store) = n
           /\ ToSet(objs) = {e.obj : e \in Range(store)}
  <1> DEFINE D == DOMAIN store
             ks == [i \in 1 .. n |-> KeyAt(objs, i)]
  <1>1. D = {KeyAt(objs, i) : i \in 1 .. n}
        /\ \A i \in 1 .. n : store[KeyAt(objs, i)] = EntryAt(objs, i)
    BY DEF Holds
  <1>2. /\ ks \in [1 .. n -> D]
        /\ \A i \in 1 .. n : ks[i] = KeyAt(objs, i)
        /\ \A x \in D : \E i \in 1 .. n : ks[i] = x
    BY <1>1
  <1> HIDE DEF ks, D
  <1>3. \A i, j \in 1 .. n : i # j => ks[i] # ks[j]
    BY <1>2, KeysApart
  <1>4. Cardinality(D) = n
    BY <1>2, <1>3, Counted
  <1>5. \A i \in 1 .. n : store[KeyAt(objs, i)].obj = objs[i]
    <2>1. \A i \in 1 .. n : EntryAt(objs, i).obj = objs[i]
      BY DEF EntryAt
    <2>2. QED
      BY <1>1, <2>1
  <1>6. {e.obj : e \in Range(store)} = {store[k].obj : k \in D}
    BY DEF Range, D
  <1>7. ToSet(objs) = {objs[i] : i \in 1 .. n}
    BY DEF ToSet
  <1>8. {store[k].obj : k \in D} = {objs[i] : i \in 1 .. n}
    BY <1>1, <1>5
  <1>9. QED
    BY <1>4, <1>6, <1>7, <1>8 DEF D

PeerWords(p) ==
    SubSeq(Words(p.type, p.objs), 1, Len(Words(p.type, p.objs)) - p.cut)

PeerRead(p, m) ==
    IF Faulty(p) THEN m = Refused
    ELSE /\ m.type = p.type
         /\ Cardinality(DOMAIN m.store) = Len(p.objs)
         /\ ToSet(p.objs) = {e.obj : e \in Range(m.store)}

LEMMA PeerReceived ==
    ASSUME NEW p \in PeerMessages, NEW m, m = Deserialize(PeerWords(p))
    PROVE  /\ PeerRead(p, m)
           /\ m # Refused => Received(m, Bodies(p.objs))
  <1> DEFINE objs == p.objs
             n == Len(objs)
  <1>1. /\ Faulty(p) => m = Refused
        /\ ~Faulty(p) => /\ m = [type |-> p.type, store |-> m.store]
                         /\ p.type \in MessageTypes
                         /\ Holds(m.store, objs, n)
    <2> DEFINE words == Words(p.type, p.objs)
    <2>1. m = Deserialize(SubSeq(words, 1, Len(words) - p.cut))
      BY DEF PeerWords
    <2>2. words = Words(p.type, p.objs)
      OBVIOUS
    <2> HIDE DEF words
    <2>3. QED
      BY <2>1, <2>2, PeerIsRead
  <1>2. n \in Nat /\ Sendable(objs, n)
    BY PeerSendable
  <1>3. ~Faulty(p) => Accepted(p.type, objs, n, p.cut)
    BY FaultyIs
  <1> HIDE DEF n, objs
  <1>4. CASE Faulty(p)
    BY <1>1, <1>4 DEF PeerRead
  <1>5. CASE ~Faulty(p)
    <2>1. NoDoubles(objs, n) /\ \A i \in 1 .. n : Readable1(objs[i])
      BY <1>3, <1>5 DEF Accepted, Complete
    <2>2. Known(objs, n)
      BY <2>1 DEF Known, Readable1
    <2>3. DOMAIN objs = 1 .. n
          /\ \A i \in 1 .. n : objs[i] \in WireObjects /\ RightLength(objs[i])
      BY <1>2 DEF Sendable
    <2>4. \A i \in 1 .. n : Form(objs[i]) /\ CheckObject(objs[i])
      BY <2>1, <2>3, ReadIsForm
    <2>5. Holds(m.store, objs, n)
      BY <1>1, <1>5
    <2>6. /\ Cardinality(DOMAIN m.store) = n
          /\ ToSet(objs) = {e.obj : e \in Range(m.store)}
      BY <1>2, <2>1, <2>2, <2>3, <2>5, HeldIs
    <2>7. Carries(m.store, Bodies(objs))
      BY <1>2, <2>3, <2>4, <2>5, BodiesOfObjects
    <2>8. Checked(m.store)
      BY <2>4, <2>5, StoredAre
    <2>9. m.type = p.type
      BY <1>1, <1>5
    <2>10. PeerRead(p, m)
      BY <1>5, <2>6, <2>9 DEF PeerRead, n, objs
    <2>11. Received(m, Bodies(objs))
      BY <1>1, <1>5, <2>7, <2>8, <2>9 DEF Received
    <2>12. QED
      BY <2>10, <2>11 DEF objs
  <1>6. QED
    BY <1>4, <1>5

OwnRead(sent, m) == m = IF sent = NewMessage(Response) THEN Refused ELSE sent

LEMMA OwnReceived ==
    ASSUME NEW sent, NEW owes, Made(sent, owes), ~SerializeThrows(sent),
           NEW m, m = Deserialize(Serialize(sent))
    PROVE  OwnRead(sent, m) /\ (m # Refused => Received(m, owes))
  <1>1. MessageOK(sent, Len(owes)) /\ Formed(sent.store)
    BY MadeIsOK
  <1>2. /\ CheckMessage(sent) /\ Checked(sent.store)
        /\ m = IF sent.store = EmptyStore THEN Refused ELSE sent
    BY <1>1, RoundTrip
  <1>3. sent.store = EmptyStore <=> sent = NewMessage(Response)
    BY <1>1, <1>2, EmptyIsResponse
  <1>4. Received(sent, owes)
    BY <1>2 DEF Received, Made
  <1>5. QED
    BY <1>2, <1>3, <1>4 DEF OwnRead

LEMMA StoreTyped ==
    ASSUME NEW store, NEW owes, Carries(store, owes), NEW k \in DOMAIN store
    PROVE  LET e == store[k]
           IN  /\ k = Key(e.type, e.seq) /\ e.type \in ObjectTypes
               /\ e.obj.type = e.type
               /\ e.seq \in 1 .. (IF Unique(e.type) THEN 1
                                  ELSE MaxSequence(store, e.type))
  <1> DEFINE e == store[k]
             n == Len(owes)
  <1>1. n \in Nat /\ StoreOK(store, n)
    BY DEF Carries, IsList
  <1>2. /\ k = Key(e.type, e.seq) /\ e.type \in ObjectTypes
        /\ e.obj.type = e.type /\ e.seq \in Nat /\ SequenceOf(e.type, e.seq)
    BY <1>1 DEF StoreOK
  <1> HIDE DEF n
  <1>3. CASE Unique(e.type)
    BY <1>2, <1>3 DEF SequenceOf
  <1>4. CASE ~Unique(e.type)
    <2>1. e.type = IpfixMessage
      BY <1>4 DEF Unique
    <2>2. MaxSequence(store, IpfixMessage) = n
      BY <1>1, NextReport
    <2>3. e.seq \in 1 .. n
      BY <1>1, <2>1, ReportsStored
    <2>4. QED
      BY <1>2, <1>4, <2>1, <2>2, <2>3
  <1>5. QED
    BY <1>3, <1>4

LEMMA NoMessage ==
    /\ DOMAIN NoMsg.store = {} /\ DOMAIN Refused.store = {}
    /\ NoMsg.type \notin MessageTypes /\ Refused.type \notin MessageTypes
    /\ NoMsg # Refused
  BY DEF NoMsg, Refused, EmptyStore, MessageTypes, Configure, Response, Notify,
     Options, Refresh

(***************************************************************************)
(* The inductive invariant: what the node has made or read, and what is on *)
(* the wire, in each phase.                                                *)
(***************************************************************************)
IdleInv ==
    phase = "idle" =>
        /\ out = NoMsg /\ in = NoMsg /\ own = FALSE
        /\ given = NothingGiven /\ owed = <<>>

BuildingInv ==
    phase = "building" =>
        /\ in = NoMsg /\ given = NothingGiven
        /\ Made(out, owed) /\ (own => Sound(out, owed))

SentInv ==
    phase = "sent" =>
        /\ in = NoMsg
        /\ given = NothingGiven =>
              Made(out, owed) /\ ~SerializeThrows(out) /\ wire = Serialize(out)
        /\ given # NothingGiven =>
              /\ given \in PeerMessages /\ out = NoMsg
              /\ wire = PeerWords(given) /\ owed = Bodies(given.objs)

ReadInv ==
    phase = "read" =>
        /\ in # Refused => Received(in, owed)
        /\ given = NothingGiven => Made(out, owed) /\ OwnRead(out, in)
        /\ given # NothingGiven => out = NoMsg /\ PeerRead(given, in)

DownInv ==
    phase = "down" =>
        /\ out = NoMsg \/ Made(out, owed)
        /\ in = NoMsg \/ (Received(in, owed) /\ CopyFaults(in))
        /\ own => CopyFaults(in)

CodecInv ==
    /\ phase \in {"idle", "building", "sent", "read", "down"}
    /\ hops \in 0 .. MaxHops /\ own \in BOOLEAN
    /\ IdleInv /\ BuildingInv /\ SentInv /\ ReadInv /\ DownInv

(***************************************************************************)
(* The objects applications set have the right form.                       *)
(***************************************************************************)
LEMMA ObjectsForm ==
    ASSUME NEW obj \in Objects
    PROVE  Form(obj)
  <1>1. CASE \E t \in SimpleTypes : \E x \in Numbers[t] : obj = SimpleObject(t, x)
    <2>1. PICK t \in SimpleTypes : \E x \in Numbers[t] : obj = SimpleObject(t, x)
      BY <1>1
    <2>2. PICK x \in Nat : obj = SimpleObject(t, x)
      BY <2>1, NumbersAssumption
    <2>3. QED
      BY <2>1, <2>2, SimpleForm
  <1>2. CASE \E c \in Codes : obj = CodeObject(c.severity, c.code, c.about)
    <2>1. PICK c \in Codes : obj = CodeObject(c.severity, c.code, c.about)
      BY <1>2
    <2>2. c.severity \in 0 .. 255 /\ c.code \in 0 .. 255 /\ c.about \in Nat
      BY ZenonT(20), CodecAssumption
    <2> DEFINE severity == c.severity
               code == c.code
    <2>3. severity \in 0 .. 255 /\ code \in 0 .. 255
      BY <2>2
    <2> HIDE DEF severity, code
    <2>4. /\ severity \in Nat /\ severity < 256
          /\ code \in Nat /\ code < 256
      BY <2>3
    <2>5. QED
      BY <2>1, <2>2, <2>4, CodeForm DEF severity, code
  <1>3. CASE \E r \in Readable : \E ready \in BOOLEAN :
                obj = Object(IpfixMessage, r, ready)
    <2>1. PICK r \in Readable : \E ready \in BOOLEAN :
                obj = Object(IpfixMessage, r, ready)
      BY <1>3
    <2>2. PICK ready \in BOOLEAN : obj = Object(IpfixMessage, r, ready)
      BY <2>1
    <2>3. r \in Seq(Nat)
      BY CodecAssumption
    <2>4. obj = [type |-> IpfixMessage, body |-> r, ready |-> ready]
      BY <2>2 DEF Object
    <2>5. obj.type = IpfixMessage /\ obj.body = r /\ obj.ready = ready
      BY <2>4
    <2>6. /\ IpfixMessage \in ObjectTypes /\ IpfixMessage \notin SimpleTypes
          /\ IpfixMessage # InformationCode
      BY DEF ObjectTypes, SimpleTypes, IpfixMessage, InformationCode,
             SelectionMeteringEntities, MessageHopCount, MsgSequenceNumber,
             SessionLifetime
    <2>7. QED
      BY <2>3, <2>4, <2>5, <2>6 DEF Form
  <1>4. \/ \E t \in SimpleTypes : \E x \in Numbers[t] : obj = SimpleObject(t, x)
        \/ \E c \in Codes : obj = CodeObject(c.severity, c.code, c.about)
        \/ \E r \in Readable : \E ready \in BOOLEAN :
                obj = Object(IpfixMessage, r, ready)
    <2>1. obj \in SimpleObjects \/ obj \in CodeObjects \/ obj \in ReportObjects
      BY DEF Objects
    <2>2. obj \in SimpleObjects
             => \E t \in SimpleTypes : \E x \in Numbers[t] : obj = SimpleObject(t, x)
      BY Zenon DEF SimpleObjects
    <2>3. obj \in CodeObjects
             => \E c \in Codes : obj = CodeObject(c.severity, c.code, c.about)
      BY Zenon DEF CodeObjects
    <2>4. obj \in ReportObjects
             => \E r \in Readable : \E ready \in BOOLEAN :
                   obj = Object(IpfixMessage, r, ready)
      BY SMT DEF ReportObjects
    <2>5. QED
      BY <2>1, <2>2, <2>3, <2>4
  <1>5. QED
    BY <1>1, <1>2, <1>3, <1>4

(* At the start there is no message. *)
THEOREM CodecInit == Init => CodecInv
  <1>1. 0 \in 0 .. MaxHops
    BY CodecAssumption
  <1>2. QED
    BY <1>1 DEF Init, CodecInv, IdleInv, BuildingInv, SentInv, ReadInv, DownInv

(***************************************************************************)
(* What each operation does to the messages there are.                     *)
(***************************************************************************)
LEMMA CreateKeeps ==
    ASSUME CodecInv, NEW type \in MessageTypes, Create(type)
    PROVE  CodecInv'
  <1>1. /\ phase = "idle" /\ out = NoMsg /\ in = NoMsg /\ own = FALSE
        /\ given = NothingGiven /\ owed = <<>> /\ hops \in 0 .. MaxHops
    BY DEF CodecInv, IdleInv, Create
  <1>2. /\ phase' = "building" /\ out' = NewMessage(type)
        /\ in' = NoMsg /\ own' = FALSE /\ given' = NothingGiven
        /\ owed' = <<>> /\ hops' \in 0 .. MaxHops
    BY <1>1 DEF Create
  <1>3. Made(out', owed')
    BY <1>2, NewIsMade
  <1>4. BuildingInv'
    BY <1>2, <1>3 DEF BuildingInv
  <1>5. QED
    BY <1>2, <1>4 DEF CodecInv, IdleInv, SentInv, ReadInv, DownInv

LEMMA SetKeepsInv ==
    ASSUME CodecInv, NEW obj \in Objects, Set(obj)
    PROVE  CodecInv'
  <1>1. /\ phase = "building" /\ own = FALSE /\ hops \in 0 .. MaxHops
        /\ in = NoMsg /\ given = NothingGiven /\ Made(out, owed)
    BY DEF CodecInv, BuildingInv, Set
  <1>2. /\ phase' = "building" /\ own' = FALSE /\ hops' \in 0 .. MaxHops
        /\ in' = NoMsg /\ given' = NothingGiven
    BY <1>1 DEF Set
  <1>3. Form(obj) /\ obj.type \in Settable(out.type)
    BY ObjectsForm DEF Set
  <1>4. out' = [type |-> out.type, store |-> SetObject(out.store, obj)]
    <2>1. out = [type |-> out.type, store |-> out.store]
      BY <1>1 DEF Made
    <2>2. out' = [out EXCEPT !.store = SetObject(out.store, obj)]
      BY DEF Set
    <2>3. QED
      BY <2>1, <2>2
  <1>5. owed' = OwedWith(owed, obj)
    BY DEF Set, OwedWith
  <1>6. Made(out', owed')
    BY <1>1, <1>3, <1>4, <1>5, SetKeeps
  <1>7. BuildingInv'
    BY <1>2, <1>6 DEF BuildingInv
  <1>8. QED
    BY <1>2, <1>7 DEF CodecInv, IdleInv, SentInv, ReadInv, DownInv

LEMMA SendKeeps ==
    ASSUME CodecInv, Send
    PROVE  CodecInv'
  <1>1. /\ phase = "building" /\ own \in BOOLEAN /\ hops \in 0 .. MaxHops
        /\ in = NoMsg /\ given = NothingGiven
        /\ Made(out, owed) /\ (own => Sound(out, owed))
    BY DEF CodecInv, BuildingInv, Send
  <1>2. /\ out' = out /\ in' = NoMsg /\ own' = own /\ given' = NothingGiven
        /\ owed' = owed /\ own' \in BOOLEAN /\ hops' \in 0 .. MaxHops
    BY <1>1 DEF Send
  <1>3. Made(out', owed')
    BY <1>1, <1>2
  <1>4. CASE SerializeThrows(out)
    <2>1. phase' = "down"
      BY <1>4 DEF Send
    <2>2. ~own'
      BY <1>1, <1>2, <1>4, SoundIsSent
    <2>3. DownInv'
      BY <1>2, <1>3, <2>2 DEF DownInv
    <2>4. QED
      BY <1>2, <2>1, <2>3 DEF CodecInv, IdleInv, BuildingInv, SentInv, ReadInv
  <1>5. CASE ~SerializeThrows(out)
    <2>1. phase' = "sent" /\ wire' = Serialize(out)
      BY <1>5 DEF Send
    <2>2. ~SerializeThrows(out') /\ wire' = Serialize(out')
      BY <1>2, <1>5, <2>1
    <2>3. SentInv'
      BY <1>2, <1>3, <2>2 DEF SentInv
    <2>4. QED
      BY <1>2, <2>1, <2>3 DEF CodecInv, IdleInv, BuildingInv, ReadInv, DownInv
  <1>6. QED
    BY <1>4, <1>5

LEMMA PeerSendsKeeps ==
    ASSUME CodecInv, NEW p \in PeerMessages, PeerSends(p)
    PROVE  CodecInv'
  <1>1. /\ phase = "idle" /\ out = NoMsg /\ in = NoMsg /\ own = FALSE
        /\ hops \in 0 .. MaxHops
    BY DEF CodecInv, IdleInv, PeerSends
  <1>2. /\ phase' = "sent" /\ given' = p /\ owed' = Bodies(p.objs)
        /\ wire' = PeerWords(p)
        /\ out' = NoMsg /\ in' = NoMsg /\ own' = FALSE /\ hops' \in 0 .. MaxHops
    BY <1>1 DEF PeerSends, PeerWords
  <1>3. given' # NothingGiven
    BY <1>2, PeerAssumption
  <1>4. SentInv'
    BY <1>2, <1>3 DEF SentInv
  <1>5. QED
    BY <1>2, <1>4 DEF CodecInv, IdleInv, BuildingInv, ReadInv, DownInv

LEMMA ReceiveKeeps ==
    ASSUME CodecInv, Receive
    PROVE  CodecInv'
  <1>1. phase = "sent" /\ own \in BOOLEAN /\ hops \in 0 .. MaxHops /\ SentInv
    BY DEF CodecInv, Receive
  <1>2. /\ phase' = "read" /\ in' = Deserialize(wire) /\ own' \in BOOLEAN
        /\ out' = out /\ given' = given /\ owed' = owed
        /\ hops' \in 0 .. MaxHops
    BY <1>1 DEF Receive
  <1>3. CASE given = NothingGiven
    <2>1. /\ Made(out, owed) /\ ~SerializeThrows(out)
          /\ wire = Serialize(out)
      BY <1>1, <1>3 DEF SentInv
    <2>2. in' = Deserialize(Serialize(out))
      BY <1>2, <2>1
    <2>3. OwnRead(out, in') /\ (in' # Refused => Received(in', owed))
      BY <2>1, <2>2, OwnReceived
    <2>4. OwnRead(out', in') /\ (in' # Refused => Received(in', owed'))
          /\ Made(out', owed')
      BY <1>2, <2>1, <2>3
    <2>5. ReadInv'
      BY <1>2, <1>3, <2>4 DEF ReadInv
    <2>6. QED
      BY <1>2, <2>5 DEF CodecInv, IdleInv, BuildingInv, SentInv, DownInv
  <1>4. CASE given # NothingGiven
    <2>1. /\ given \in PeerMessages /\ out = NoMsg
          /\ wire = PeerWords(given) /\ owed = Bodies(given.objs)
      BY <1>1, <1>4 DEF SentInv
    <2>2. in' = Deserialize(PeerWords(given))
      BY <1>2, <2>1
    <2>3. /\ PeerRead(given, in')
          /\ in' # Refused => Received(in', Bodies(given.objs))
      BY <2>1, <2>2, PeerReceived
    <2>4. /\ PeerRead(given', in') /\ out' = NoMsg
          /\ in' # Refused => Received(in', owed')
      BY <1>2, <2>1, <2>3
    <2>5. ReadInv'
      BY <1>2, <1>4, <2>4 DEF ReadInv
    <2>6. QED
      BY <1>2, <2>5 DEF CodecInv, IdleInv, BuildingInv, SentInv, DownInv
  <1>5. QED
    BY <1>3, <1>4

LEMMA OneHopMore ==
    ASSUME NEW h \in 0 .. MaxHops, h < MaxHops
    PROVE  h + 1 \in 0 .. MaxHops
  BY CodecAssumption

LEMMA ReadSomething ==
    ASSUME CodecInv, phase = "read", in.type \in MessageTypes
    PROVE  Received(in, owed) /\ Carries(in.store, owed) /\ Formed(in.store)
           /\ Checked(in.store)
  <1>1. in # Refused
    BY NoMessage
  <1>2. Received(in, owed)
    BY <1>1 DEF CodecInv, ReadInv
  <1>3. QED
    BY <1>2 DEF Received, Carries

LEMMA ForwardKeeps ==
    ASSUME CodecInv, NEW lifetime \in NodeLifetimes,
           NEW kept \in SUBSET (1 .. MaxReports), Forward(lifetime, kept)
    PROVE  CodecInv'
  <1>1. /\ phase = "read" /\ in.type = Configure /\ hops \in 0 .. MaxHops
        /\ hops < MaxHops /\ ~CopyFaults(in)
    BY DEF CodecInv, Forward
  <1>2. Carries(in.store, owed) /\ Checked(in.store)
    BY <1>1, ReadSomething DEF MessageTypes
  <1>3. /\ out' = Forwarded(in, lifetime, Without(MspecObjects(in), kept))
        /\ owed' = Without(owed, kept)
    BY DEF Forward
  <1>4. lifetime \in Nat
    BY CodecAssumption
  <1>5. Sound(out', owed')
    BY <1>1, <1>2, <1>3, <1>4, ForwardedSound
  <1>6. hops' \in 0 .. MaxHops
    BY <1>1, OneHopMore DEF Forward
  <1>7. phase' = "building" /\ own' \in BOOLEAN /\ in' = NoMsg /\ given' = NothingGiven
    BY DEF Forward
  <1>8. BuildingInv'
    BY <1>5, <1>7 DEF BuildingInv, Sound
  <1>9. QED
    BY <1>6, <1>7, <1>8 DEF CodecInv, IdleInv, SentInv, ReadInv, DownInv

LEMMA ForwardFaultsKeeps ==
    ASSUME CodecInv, ForwardFaults
    PROVE  CodecInv'
  <1>1. /\ phase = "read" /\ in.type = Configure /\ hops \in 0 .. MaxHops
        /\ hops < MaxHops /\ CopyFaults(in) /\ ReadInv
    BY DEF CodecInv, ForwardFaults
  <1>2. Received(in, owed)
    BY <1>1, ReadSomething DEF MessageTypes
  <1>3. out = NoMsg \/ Made(out, owed)
    BY <1>1 DEF ReadInv
  <1>4. /\ phase' = "down" /\ own' \in BOOLEAN
        /\ out' = out /\ in' = in /\ owed' = owed
    BY DEF ForwardFaults
  <1>5. hops' \in 0 .. MaxHops
    BY <1>1, OneHopMore DEF ForwardFaults
  <1>6. DownInv'
    BY <1>1, <1>2, <1>3, <1>4 DEF DownInv
  <1>7. QED
    BY <1>4, <1>5, <1>6 DEF CodecInv, IdleInv, BuildingInv, SentInv, ReadInv

LEMMA AnsweredKeeps ==
    ASSUME CodecInv, NEW r, Answered(r), Sound(r, <<>>)
    PROVE  CodecInv'
  <1>1. hops \in 0 .. MaxHops /\ hops < MaxHops
    BY DEF CodecInv, Answered
  <1>2. /\ phase' = "building" /\ own' \in BOOLEAN /\ in' = NoMsg
        /\ given' = NothingGiven /\ Sound(out', owed')
    BY DEF Answered
  <1>3. hops' \in 0 .. MaxHops
    BY <1>1, OneHopMore DEF Answered
  <1>4. BuildingInv'
    BY <1>2 DEF BuildingInv, Sound
  <1>5. QED
    BY <1>2, <1>3, <1>4 DEF CodecInv, IdleInv, SentInv, ReadInv, DownInv

LEMMA AnswersKeep ==
    ASSUME CodecInv,
           \/ AnswerInvalid
           \/ \E lifetime \in NodeLifetimes : AnswerSuccess(lifetime)
           \/ \E severity \in 4 .. 5 : AnswerError(severity, 1)
    PROVE  CodecInv'
  <1>1. CASE AnswerInvalid
    <2>1. in = Refused /\ Answered(CreateResponse(in, 3, 0))
      BY <1>1 DEF AnswerInvalid
    <2> DEFINE r == CreateResponse(in, 3, 0)
    <2>2. 3 \in Nat /\ 3 < 16 /\ 0 \in Nat /\ 0 < 256
      OBVIOUS
    <2>3. r = CreateResponse(in, 3, 0)
      OBVIOUS
    <2> HIDE DEF r
    <2>4. Sound(r, <<>>)
      BY <2>1, <2>2, <2>3, ResponseSound
    <2>5. QED
      BY <2>1, <2>3, <2>4, AnsweredKeeps
  <1>2. ASSUME NEW lifetime \in NodeLifetimes, AnswerSuccess(lifetime)
        PROVE  CodecInv'
    <2>1. /\ phase = "read" /\ in.type \in MessageTypes
          /\ Answered(CreateSuccessResponse(in, lifetime))
      BY <1>2 DEF AnswerSuccess, Answered, MessageTypes
    <2>2. Formed(in.store) /\ lifetime \in Nat
      BY <2>1, ReadSomething, CodecAssumption
    <2>3. Sound(CreateSuccessResponse(in, lifetime), <<>>)
      BY <2>2, SuccessSound
    <2>4. QED
      BY <2>1, <2>3, AnsweredKeeps
  <1>3. ASSUME NEW severity \in 4 .. 5, AnswerError(severity, 1)
        PROVE  CodecInv'
    <2>1. /\ phase = "read" /\ in.type \in MessageTypes
          /\ Answered(CreateResponse(in, severity, 1))
      BY <1>3 DEF AnswerError, Answered, MessageTypes
    <2>2. Formed(in.store)
      BY <2>1, ReadSomething
    <2>3. severity \in Nat /\ severity < 16 /\ 1 \in Nat /\ 1 < 256
      OBVIOUS
    <2>4. Sound(CreateResponse(in, severity, 1), <<>>)
      BY <2>2, <2>3, ResponseSound
    <2>5. QED
      BY <2>1, <2>4, AnsweredKeeps
  <1>4. QED
    BY <1>1, <1>2, <1>3

LEMMA DoneKeeps ==
    ASSUME CodecInv, Done
    PROVE  CodecInv'
  <1>1. 0 \in 0 .. MaxHops
    BY CodecAssumption
  <1>2. QED
    BY <1>1 DEF Done, CodecInv, IdleInv, BuildingInv, SentInv, ReadInv, DownInv

(* Setters, serialize(), deserialize(), the handlers of a request and what *)
(* peers send: each keeps the invariant.                                   *)
THEOREM CodecStep == CodecInv /\ [Next]_vars => CodecInv'
  <1> SUFFICES ASSUME CodecInv, [Next]_vars
               PROVE  CodecInv'
    OBVIOUS
  <1>1. CASE \E type \in MessageTypes : Create(type)
    BY <1>1, CreateKeeps
  <1>2. CASE \E obj \in Objects : Set(obj)
    BY <1>2, SetKeepsInv
  <1>3. CASE Send
    BY <1>3, SendKeeps
  <1>4. CASE \E p \in PeerMessages : PeerSends(p)
    BY <1>4, PeerSendsKeeps
  <1>5. CASE Receive
    BY <1>5, ReceiveKeeps
  <1>6. CASE \E lifetime \in NodeLifetimes, kept \in SUBSET (1 .. MaxReports) :
                Forward(lifetime, kept)
    BY <1>6, ForwardKeeps
  <1>7. CASE ForwardFaults
    BY <1>7, ForwardFaultsKeeps
  <1>8. CASE \/ AnswerInvalid
             \/ \E lifetime \in NodeLifetimes : AnswerSuccess(lifetime)
             \/ \E severity \in 4 .. 5 : AnswerError(severity, 1)
    BY <1>8, AnswersKeep
  <1>9. CASE Done
    BY <1>9, DoneKeeps
  <1>10. CASE UNCHANGED vars
    BY <1>10 DEF vars, CodecInv, IdleInv, BuildingInv, SentInv, ReadInv, DownInv
  <1>11. QED
    BY <1>1, <1>2, <1>3, <1>4, <1>5, <1>6, <1>7, <1>8, <1>9, <1>10 DEF Next

(* In every reachable state the messages a node holds are what its setters *)
(* make, and what it has read is what was sent.                            *)
THEOREM CodecInvariant == Spec => []CodecInv
  BY CodecInit, CodecStep, PTL DEF Spec

(***************************************************************************)
(* What holds of every message, for every value of the constants.          *)
(***************************************************************************)
LEMMA WhatIsHeld ==
    ASSUME CodecInv
    PROVE  /\ DOMAIN out.store = {} \/ Carries(out.store, owed)
           /\ DOMAIN in.store = {} \/ (Carries(in.store, owed) /\ Checked(in.store))
  <1>1. CASE phase = "idle"
    BY <1>1, NoMessage DEF CodecInv, IdleInv
  <1>2. CASE phase = "building"
    <2>1. Made(out, owed) /\ in = NoMsg
      BY <1>2 DEF CodecInv, BuildingInv
    <2>2. QED
      BY <2>1, NoMessage DEF Made
  <1>3. CASE phase = "sent"
    <2>1. (out = NoMsg \/ Made(out, owed)) /\ in = NoMsg
      BY <1>3 DEF CodecInv, SentInv
    <2>2. QED
      BY <2>1, NoMessage DEF Made
  <1>4. CASE phase = "read"
    <2>1. /\ out = NoMsg \/ Made(out, owed)
          /\ in = Refused \/ Received(in, owed)
      BY <1>4 DEF CodecInv, ReadInv
    <2>2. QED
      BY <2>1, NoMessage DEF Made, Received
  <1>5. CASE phase = "down"
    <2>1. /\ out = NoMsg \/ Made(out, owed)
          /\ in = NoMsg \/ Received(in, owed)
      BY <1>5 DEF CodecInv, DownInv
    <2>2. QED
      BY <2>1, NoMessage DEF Made, Received
  <1>6. QED
    BY <1>1, <1>2, <1>3, <1>4, <1>5 DEF CodecInv

(* Every entry of the store of a message stands under the key of its own   *)
(* object, its metering objects numbered from 1, however many there are;   *)
(* whatever deserialize() returned passes mnslp_object::check().           *)
THEOREM CodecTyped == Spec => []CodecTypeOK
  <1>1. CodecInv => CodecTypeOK
    <2> SUFFICES ASSUME CodecInv
                 PROVE  CodecTypeOK
      OBVIOUS
    <2>1. ASSUME NEW m \in {out, in}, NEW k \in DOMAIN m.store
          PROVE  LET e == m.store[k]
                 IN  /\ k = Key(e.type, e.seq) /\ e.type \in ObjectTypes
                     /\ e.obj.type = e.type
                     /\ e.seq \in 1 .. (IF Unique(e.type) THEN 1
                                        ELSE MaxSequence(m.store, e.type))
      <3>1. Carries(m.store, owed)
        BY <2>1, WhatIsHeld
      <3>2. QED
        BY <2>1, <3>1, StoreTyped
    <2>2. \A k \in DOMAIN in.store : CheckObject(in.store[k].obj)
      BY WhatIsHeld DEF Checked
    <2>3. /\ phase \in {"idle", "building", "sent", "read", "down"}
          /\ hops \in 0 .. MaxHops /\ own \in BOOLEAN
      BY DEF CodecInv
    <2>4. QED
      BY <2>1, <2>2, <2>3 DEF CodecTypeOK
  <1>2. QED
    BY <1>1, CodecInvariant, PTL

(* Whatever objects a message has, and in whatever order they were set, it *)
(* is read by the next node as the message that was sent; and no message a *)
(* node makes of one it has received fails the checks of serialize().      *)
THEOREM SentIsReadSafe == Spec => []SentIsRead
  <1>1. CodecInv => SentIsRead
    BY DEF CodecInv, ReadInv, DownInv, OwnRead, SentIsRead
  <1>2. QED
    BY <1>1, CodecInvariant, PTL

(* The metering objects that no node has kept arrive at the next one, each *)
(* once and in the order of set_mspec_object(), however many nodes forward *)
(* the request and however many objects it has.                            *)
THEOREM OwedArriveSafe == Spec => []OwedArrive
  <1>1. CodecInv => OwedArrive
    <2> SUFFICES ASSUME CodecInv
                 PROVE  OwedArrive
      OBVIOUS
    <2>1. ASSUME phase \in {"building", "sent"}, given = NothingGiven
          PROVE  Bodies(MspecObjects(out)) = owed
      <3>1. Made(out, owed)
        BY <2>1 DEF CodecInv, BuildingInv, SentInv
      <3>2. QED
        BY <3>1, BodiesOfMessage DEF Made
    <2>2. ASSUME phase = "read", in # Refused
          PROVE  Bodies(MspecObjects(in)) = owed
      <3>1. Received(in, owed)
        BY <2>2 DEF CodecInv, ReadInv
      <3>2. QED
        BY <3>1, BodiesOfMessage DEF Received
    <2>3. QED
      BY <2>1, <2>2 DEF OwedArrive
  <1>2. QED
    BY <1>1, CodecInvariant, PTL

(* Of everything that peers may send, with any number of objects, words    *)
(* and words cut off, deserialize() refuses the faulty and nothing else.   *)
THEOREM RefusesExactlySafe == Spec => []RefusesExactly
  <1>1. CodecInv => RefusesExactly
    BY DEF CodecInv, ReadInv, PeerRead, RefusesExactly
  <1>2. QED
    BY <1>1, CodecInvariant, PTL

=============================================================================
