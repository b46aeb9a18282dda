---------------------------- MODULE Ipfix_proofs ----------------------------
(***************************************************************************)
(* The IPFIX messages: whatever the user did to one, its buffer is what    *)
(* the templates and records say now, the sizes it announces are true, and *)
(* a peer reads from it what the user put in.                              *)
(*                                                                         *)
(* In this order: induction and folds, the sums of sizes, the template and *)
(* data sets output() writes, the sizes a peer reads, the invariant        *)
(* IpfixInv, its step, and what follows from it; then what a peer makes of *)
(* a field, a record, a set and the message; last the keys and values.     *)
(***************************************************************************)
EXTENDS IpfixMessage, FiniteSetTheorems, TLAPS

(***************************************************************************)
(* Induction over the natural numbers: a non-empty set of them has a least *)
(* element.                                                                *)
(***************************************************************************)
LEMMA LeastNumber ==
    ASSUME NEW T \in SUBSET Nat, T # {}
    PROVE  \E n \in T : \A m \in T : n <= m
  <1> DEFINE R == OpToRel(<, Nat)
  <1>1. IsWellFoundedOn(R, Nat)
    BY NatLessThanWellFounded
  <1>2. PICK n \in T : \A m \in T : ~ (<<m, n>> \in R)
    <2> HIDE DEF R
    <2>1. QED
      BY <1>1, WFMin
  <1>3. \A m \in T : ~ (m < n)
    BY <1>2 DEF OpToRel
  <1> HIDE DEF R
  <1>4. QED
    BY <1>3

(* Induction, with the numbers for which the claim holds as a set. *)
LEMMA Induction ==
    ASSUME NEW T \in SUBSET Nat, 0 \in T, \A n \in T : n + 1 \in T
    PROVE  T = Nat
  <1> SUFFICES ASSUME Nat \ T # {} PROVE FALSE
    OBVIOUS
  <1>1. PICK n \in Nat \ T : \A m \in Nat \ T : n <= m
    BY LeastNumber
  <1>2. n - 1 \in T
    BY <1>1
  <1>3. (n - 1) + 1 \in T
    BY <1>2
  <1>4. QED
    BY <1>1, <1>3

(***************************************************************************)
(* FoldLeft: the steps of the folds of this module; e and k are what else  *)
(* a step depends on.                                                      *)
(***************************************************************************)
FoldStep(kind, e, k, acc, x) ==
    CASE kind = "specs" -> acc + SpecifierSize(x)
      [] kind = "sets" -> acc + SetSize(x)
      [] kind = "bytes" -> acc \o FieldBytes(e, x)
      [] kind = "writes" -> WriteRecordIfOf(acc, e, x)
      [] kind = "outputs" -> (IF OfKind(e, k, x) THEN OutputSet(acc, x) ELSE acc)
      [] kind = "due" -> (IF OfKind(e, k, x) THEN AddDataSets(e, acc, x) ELSE acc)
      [] kind = "oftemplate" -> (IF x.tid = k THEN 
            Append(acc, DataSet(k, RecordBody(e.templates[k], x))) ELSE acc)
      [] kind = "datasets" -> (IF x.kind = "record" THEN Append(acc, x) ELSE acc)
      [] kind = "templatesets" -> (IF x.kind # "record" THEN Append(acc, x) ELSE acc)
      [] kind = "chosen" -> (IF x.tid = k THEN Append(acc, x) ELSE acc)
      [] kind = "listed" -> (IF OfKind(e, k, x) THEN AddRecords(e, acc, x) ELSE acc)
      [] kind = "imports" -> ReadSet(acc, x, e)
      [] kind = "records" -> ReadRecordIfLeft(acc, e)
      [] kind = "fields" -> DecodeField(acc, x, e)

FoldsTo(g, kind, e, k, base, objs, n) ==
    g = [t \in SUBSET (1 .. n) |->
            IF t = {} THEN base
            ELSE FoldStep(kind, e, k, g[t \ {Max(t)}], objs[Max(t)])]

LEMMA MaxIsLast ==
    ASSUME NEW n \in Nat, NEW t \in SUBSET (1 .. n + 1), n + 1 \in t
    PROVE  Max(t) = n + 1
  <1>1. n + 1 \in t /\ \A y \in t : n + 1 >= y
    OBVIOUS
  <1>2. \A x \in t : (\A y \in t : x >= y) => x = n + 1
    OBVIOUS
  <1>3. QED
    BY <1>1, <1>2 DEF Max

(* The values of a fold over the sets of indices, for one index more. *)
LEMMA FoldExtends ==
    ASSUME NEW kind, NEW e, NEW k, NEW base, NEW objs, NEW n \in Nat,
           NEW h, FoldsTo(h, kind, e, k, base, objs, n)
    PROVE  \E g : FoldsTo(g, kind, e, k, base, objs, n + 1)
  <1> DEFINE Rest(g, t) == IF t = {} THEN base
                           ELSE FoldStep(kind, e, k, g[t \ {Max(t)}], objs[Max(t)])
             last(t) == FoldStep(kind, e, k, h[t \ {n + 1}], objs[n + 1])
             g == [t \in SUBSET (1 .. n + 1) |-> IF n + 1 \in t THEN last(t) ELSE h[t]]
  <1>1. ASSUME NEW t \in SUBSET (1 .. n)
        PROVE  h[t] = Rest(h, t)
    <2> DEFINE b == [u \in SUBSET (1 .. n) |-> Rest(h, u)]
    <2>1. h = b
      BY DEF FoldsTo
    <2>2. b[t] = Rest(h, t)
      OBVIOUS
    <2> HIDE DEF b, Rest
    <2>3. QED
      BY <2>1, <2>2
  <1>2. \A t \in SUBSET (1 .. n) : t \in SUBSET (1 .. n + 1) /\ n + 1 \notin t
    OBVIOUS
  <1>3. \A t \in SUBSET (1 .. n + 1) : n + 1 \notin t => t \in SUBSET (1 .. n)
    OBVIOUS
  <1>4. \A t \in SUBSET (1 .. n) : g[t] = h[t]
    <2> HIDE DEF last
    <2>1. QED
      BY <1>2
  <1>5. \A t \in SUBSET (1 .. n + 1) : n + 1 \in t => g[t] = last(t)
    <2> HIDE DEF last
    <2>1. QED
      OBVIOUS
  <1>6. g = [t \in SUBSET (1 .. n + 1) |-> g[t]]
    OBVIOUS
  <1> HIDE DEF g
  <1>7. ASSUME NEW t \in SUBSET (1 .. n + 1)
        PROVE  g[t] = Rest(g, t)
    <2>1. CASE n + 1 \in t
      <3>1. Max(t) = n + 1
        BY <2>1, MaxIsLast
      <3>2. t \ {n + 1} \in SUBSET (1 .. n) /\ t # {}
        BY <2>1
      <3>3. g[t \ {n + 1}] = h[t \ {n + 1}]
        BY <1>4, <3>2
      <3>4. g[t] = FoldStep(kind, e, k, h[t \ {n + 1}], objs[n + 1])
        BY <1>5, <2>1
      <3>5. QED
        BY <3>1, <3>2, <3>3, <3>4
    <2>2. CASE n + 1 \notin t
      <3>1. t \in SUBSET (1 .. n) /\ t \ {Max(t)} \in SUBSET (1 .. n)
        BY <1>3, <2>2
      <3>2. g[t] = h[t] /\ g[t \ {Max(t)}] = h[t \ {Max(t)}]
        BY <1>4, <3>1
      <3>3. h[t] = Rest(h, t)
        BY <1>1, <3>1
      <3>4. Rest(h, t) = Rest(g, t)
        BY <3>2
      <3>5. QED
        BY <3>2, <3>3, <3>4
    <2>3. QED
      BY <2>1, <2>2
  <1> DEFINE b == [t \in SUBSET (1 .. n + 1) |-> Rest(g, t)]
  <1>8. \A t \in SUBSET (1 .. n + 1) : g[t] = b[t]
    <2> HIDE DEF Rest
    <2>1. QED
      BY <1>7
  <1>9. b = [t \in SUBSET (1 .. n + 1) |-> b[t]]
    <2> HIDE DEF Rest
    <2>1. QED
      OBVIOUS
  <1>10. g = b
    <2> HIDE DEF b
    <2>1. QED
      BY <1>6, <1>8, <1>9
  <1>11. FoldsTo(g, kind, e, k, base, objs, n + 1)
    BY <1>10 DEF FoldsTo
  <1>12. QED
    BY <1>11

(* MapThenFoldSet's recursive function exists for every length. *)
LEMMA FoldExists ==
    ASSUME NEW kind, NEW e, NEW k, NEW base, NEW objs, NEW n \in Nat
    PROVE  \E g : FoldsTo(g, kind, e, k, base, objs, n)
  <1> DEFINE T == {m \in Nat : \E g : FoldsTo(g, kind, e, k, base, objs, m)}
  <1>1. 0 \in T
    <2> DEFINE g == [t \in SUBSET (1 .. 0) |-> base]
    <2>1. FoldsTo(g, kind, e, k, base, objs, 0)
      <3>1. \A t \in SUBSET (1 .. 0) : t = {}
        OBVIOUS
      <3>2. QED
        BY <3>1 DEF FoldsTo
    <2>2. QED
      BY <2>1
  <1>2. ASSUME NEW m \in T PROVE m + 1 \in T
    BY FoldExtends
  <1>3. T \in SUBSET Nat
    OBVIOUS
  <1> HIDE DEF T
  <1>4. T = Nat
    BY <1>1, <1>2, <1>3, Induction
  <1>5. QED
    BY <1>4 DEF T

(* The values a fold goes through. *)
Trace(r, kind, e, k, base, objs, n) ==
    /\ r[0] = base
    /\ \A i \in 1 .. n : r[i] = FoldStep(kind, e, k, r[i - 1], objs[i])

(* A fold over a sequence is the last of its results step by step. *)
LEMMA FoldTraced ==
    ASSUME NEW kind, NEW e, NEW k, NEW base, NEW objs, NEW n \in Nat,
           NEW g, FoldsTo(g, kind, e, k, base, objs, n)
    PROVE  \E r : Trace(r, kind, e, k, base, objs, n) /\ r[n] = g[1 .. n]
  <1> DEFINE Rest(t) == IF t = {} THEN base
                        ELSE FoldStep(kind, e, k, g[t \ {Max(t)}], objs[Max(t)])
             r == [i \in 0 .. n |-> g[1 .. i]]
  <1>1. ASSUME NEW t \in SUBSET (1 .. n)
        PROVE  g[t] = Rest(t)
    <2> DEFINE b == [u \in SUBSET (1 .. n) |-> Rest(u)]
    <2>1. g = b
      BY DEF FoldsTo
    <2>2. b[t] = Rest(t)
      OBVIOUS
    <2> HIDE DEF b, Rest
    <2>3. QED
      BY <2>1, <2>2
  <1>2. r[0] = base
    <2>1. 0 \in 0 .. n /\ 1 .. 0 = {} /\ 1 .. 0 \in SUBSET (1 .. n)
      OBVIOUS
    <2>2. g[1 .. 0] = base
      BY <1>1, <2>1
    <2>3. QED
      BY <2>1, <2>2
  <1>3. ASSUME NEW i \in 1 .. n
        PROVE  r[i] = FoldStep(kind, e, k, r[i - 1], objs[i])
    <2> DEFINE t == 1 .. i
    <2>1. i - 1 \in Nat /\ (i - 1) + 1 = i /\ i \in 0 .. n /\ i - 1 \in 0 .. n
      OBVIOUS
    <2>2. t \in SUBSET (1 .. n) /\ t # {} /\ i \in t
          /\ t \in SUBSET (1 .. (i - 1) + 1)
      BY <2>1
    <2>3. Max(t) = i
      <3> HIDE DEF t
      <3>1. QED
        BY <2>1, <2>2, MaxIsLast
    <2>4. t \ {i} = 1 .. i - 1
      OBVIOUS
    <2>5. g[t] = FoldStep(kind, e, k, g[1 .. i - 1], objs[i])
      <3> HIDE DEF t
      <3>1. g[t] = FoldStep(kind, e, k, g[t \ {Max(t)}], objs[Max(t)])
        BY <1>1, <2>2
      <3>2. QED
        BY <2>3, <2>4, <3>1
    <2>6. r[i] = g[t] /\ r[i - 1] = g[1 .. i - 1]
      BY <2>1
    <2> HIDE DEF r, t
    <2>7. QED
      BY <2>5, <2>6
  <1>4. r[n] = g[1 .. n]
    OBVIOUS
  <1> HIDE DEF r
  <1>5. QED
    BY <1>2, <1>3, <1>4 DEF Trace

SpecsFold(base, objs) ==
    FoldLeft(LAMBDA sum, x : sum + SpecifierSize(x), base, objs)

LEMMA SpecsTraced ==
    ASSUME NEW base, NEW objs, NEW n \in Nat, DOMAIN objs = 1 .. n
    PROVE  \E r : /\ Trace(r, "specs", 0, 0, base, objs, n)
                  /\ SpecsFold(base, objs) = r[n]
  <1> DEFINE Is(h) == h = [t \in SUBSET (1 .. n) |->
                  IF t = {} THEN base ELSE h[t \ {Max(t)}] + SpecifierSize(objs[Max(t)])]
             g == CHOOSE h : Is(h)
  <1>1. SpecsFold(base, objs) = g[1 .. n]
    BY DEF FoldLeft, MapThenFoldSet, SpecsFold
  <1>2. \A h : Is(h) <=> FoldsTo(h, "specs", 0, 0, base, objs, n)
    BY DEF FoldsTo, FoldStep
  <1> HIDE DEF Is
  <1>3. \E h : Is(h)
    BY <1>2, FoldExists
  <1>4. Is(g)
    BY <1>3
  <1> HIDE DEF g
  <1>5. FoldsTo(g, "specs", 0, 0, base, objs, n)
    BY <1>2, <1>4
  <1>6. \E r : Trace(r, "specs", 0, 0, base, objs, n) /\ r[n] = g[1 .. n]
    BY <1>5, FoldTraced
  <1>7. QED
    BY <1>1, <1>6

SetsFold(base, objs) ==
    FoldLeft(LAMBDA sum, x : sum + SetSize(x), base, objs)

LEMMA SetsTraced ==
    ASSUME NEW base, NEW objs, NEW n \in Nat, DOMAIN objs = 1 .. n
    PROVE  \E r : /\ Trace(r, "sets", 0, 0, base, objs, n)
                  /\ SetsFold(base, objs) = r[n]
  <1> DEFINE Is(h) == h = [t \in SUBSET (1 .. n) |->
                  IF t = {} THEN base ELSE h[t \ {Max(t)}] + SetSize(objs[Max(t)])]
             g == CHOOSE h : Is(h)
  <1>1. SetsFold(base, objs) = g[1 .. n]
    BY DEF FoldLeft, MapThenFoldSet, SetsFold
  <1>2. \A h : Is(h) <=> FoldsTo(h, "sets", 0, 0, base, objs, n)
    BY DEF FoldsTo, FoldStep
  <1> HIDE DEF Is
  <1>3. \E h : Is(h)
    BY <1>2, FoldExists
  <1>4. Is(g)
    BY <1>3
  <1> HIDE DEF g
  <1>5. FoldsTo(g, "sets", 0, 0, base, objs, n)
    BY <1>2, <1>4
  <1>6. \E r : Trace(r, "sets", 0, 0, base, objs, n) /\ r[n] = g[1 .. n]
    BY <1>5, FoldTraced
  <1>7. QED
    BY <1>1, <1>6

BytesFold(e, base, objs) ==
    FoldLeft(LAMBDA bytes, f : bytes \o FieldBytes(e, f), base, objs)

LEMMA BytesTraced ==
    ASSUME NEW e, NEW base, NEW objs, NEW n \in Nat, DOMAIN objs = 1 .. n
    PROVE  \E r : /\ Trace(r, "bytes", e, 0, base, objs, n)
                  /\ BytesFold(e, base, objs) = r[n]
  <1> DEFINE Is(h) == h = [t \in SUBSET (1 .. n) |->
                  IF t = {} THEN base ELSE h[t \ {Max(t)}] \o FieldBytes(e, objs[Max(t)])]
             g == CHOOSE h : Is(h)
  <1>1. BytesFold(e, base, objs) = g[1 .. n]
    BY DEF FoldLeft, MapThenFoldSet, BytesFold
  <1>2. \A h : Is(h) <=> FoldsTo(h, "bytes", e, 0, base, objs, n)
    BY DEF FoldsTo, FoldStep
  <1> HIDE DEF Is
  <1>3. \E h : Is(h)
    BY <1>2, FoldExists
  <1>4. Is(g)
    BY <1>3
  <1> HIDE DEF g
  <1>5. FoldsTo(g, "bytes", e, 0, base, objs, n)
    BY <1>2, <1>4
  <1>6. \E r : Trace(r, "bytes", e, 0, base, objs, n) /\ r[n] = g[1 .. n]
    BY <1>5, FoldTraced
  <1>7. QED
    BY <1>1, <1>6

WritesFold(e, base, objs) ==
    FoldLeft(LAMBDA v, r : WriteRecordIfOf(v, e, r), base, objs)

LEMMA WritesTraced ==
    ASSUME NEW e, NEW base, NEW objs, NEW n \in Nat, DOMAIN objs = 1 .. n
    PROVE  \E r : /\ Trace(r, "writes", e, 0, base, objs, n)
                  /\ WritesFold(e, base, objs) = r[n]
  <1> DEFINE Is(h) == h = [t \in SUBSET (1 .. n) |->
                  IF t = {} THEN base ELSE WriteRecordIfOf(h[t \ {Max(t)}], e, objs[Max(t)])]
             g == CHOOSE h : Is(h)
  <1>1. WritesFold(e, base, objs) = g[1 .. n]
    BY DEF FoldLeft, MapThenFoldSet, WritesFold
  <1>2. \A h : Is(h) <=> FoldsTo(h, "writes", e, 0, base, objs, n)
    BY DEF FoldsTo, FoldStep
  <1> HIDE DEF Is
  <1>3. \E h : Is(h)
    BY <1>2, FoldExists
  <1>4. Is(g)
    BY <1>3
  <1> HIDE DEF g
  <1>5. FoldsTo(g, "writes", e, 0, base, objs, n)
    BY <1>2, <1>4
  <1>6. \E r : Trace(r, "writes", e, 0, base, objs, n) /\ r[n] = g[1 .. n]
    BY <1>5, FoldTraced
  <1>7. QED
    BY <1>1, <1>6

OutputsFold(e, k, base, objs) ==
    FoldLeft(LAMBDA acc, x : IF OfKind(e, k, x) THEN OutputSet(acc, x) ELSE acc, base, objs)

LEMMA OutputsTraced ==
    ASSUME NEW e, NEW k, NEW base, NEW objs, NEW n \in Nat, DOMAIN objs = 1 .. n
    PROVE  \E r : /\ Trace(r, "outputs", e, k, base, objs, n)
                  /\ OutputsFold(e, k, base, objs) = r[n]
  <1> DEFINE Is(h) == h = [t \in SUBSET (1 .. n) |->
                  IF t = {} THEN base ELSE 
                     IF OfKind(e, k, objs[Max(t)]) THEN OutputSet(h[t \ {Max(t)}], objs[Max(t)]) ELSE h[t \ {Max(t)}]]
             g == CHOOSE h : Is(h)
  <1>1. OutputsFold(e, k, base, objs) = g[1 .. n]
    BY DEF FoldLeft, MapThenFoldSet, OutputsFold
  <1>2. \A h : Is(h) <=> FoldsTo(h, "outputs", e, k, base, objs, n)
    BY DEF FoldsTo, FoldStep
  <1> HIDE DEF Is
  <1>3. \E h : Is(h)
    BY <1>2, FoldExists
  <1>4. Is(g)
    BY <1>3
  <1> HIDE DEF g
  <1>5. FoldsTo(g, "outputs", e, k, base, objs, n)
    BY <1>2, <1>4
  <1>6. \E r : Trace(r, "outputs", e, k, base, objs, n) /\ r[n] = g[1 .. n]
    BY <1>5, FoldTraced
  <1>7. QED
    BY <1>1, <1>6

DueFold(e, k, base, objs) ==
    FoldLeft(LAMBDA acc, x : IF OfKind(e, k, x) THEN AddDataSets(e, acc, x) ELSE acc,
             base, objs)

LEMMA DueTraced ==
    ASSUME NEW e, NEW k, NEW base, NEW objs, NEW n \in Nat, DOMAIN objs = 1 .. n
    PROVE  \E r : /\ Trace(r, "due", e, k, base, objs, n)
                  /\ DueFold(e, k, base, objs) = r[n]
  <1> DEFINE Is(h) == h = [t \in SUBSET (1 .. n) |->
                  IF t = {} THEN base ELSE 
                     IF OfKind(e, k, objs[Max(t)]) THEN AddDataSets(e, h[t \ {Max(t)}], objs[Max(t)]) ELSE h[t \ {Max(t)}]]
             g == CHOOSE h : Is(h)
  <1>1. DueFold(e, k, base, objs) = g[1 .. n]
    BY DEF FoldLeft, MapThenFoldSet, DueFold
  <1>2. \A h : Is(h) <=> FoldsTo(h, "due", e, k, base, objs, n)
    BY DEF FoldsTo, FoldStep
  <1> HIDE DEF Is
  <1>3. \E h : Is(h)
    BY <1>2, FoldExists
  <1>4. Is(g)
    BY <1>3
  <1> HIDE DEF g
  <1>5. FoldsTo(g, "due", e, k, base, objs, n)
    BY <1>2, <1>4
  <1>6. \E r : Trace(r, "due", e, k, base, objs, n) /\ r[n] = g[1 .. n]
    BY <1>5, FoldTraced
  <1>7. QED
    BY <1>1, <1>6

OfTemplateFold(e, k, base, objs) ==
    FoldLeft(LAMBDA acc, r : IF r.tid = k
                             THEN Append(acc, DataSet(k, RecordBody(e.templates[k], r)))
                             ELSE acc,
             base, objs)

LEMMA OfTemplateTraced ==
    ASSUME NEW e, NEW k, NEW base, NEW objs, NEW n \in Nat, DOMAIN objs = 1 .. n
    PROVE  \E r : /\ Trace(r, "oftemplate", e, k, base, objs, n)
                  /\ OfTemplateFold(e, k, base, objs) = r[n]
  <1> DEFINE Is(h) == h = [t \in SUBSET (1 .. n) |->
                  IF t = {} THEN base ELSE 
                     IF objs[Max(t)].tid = k
                     THEN Append(h[t \ {Max(t)}], DataSet(k, RecordBody(e.templates[k], objs[Max(t)])))
                     ELSE h[t \ {Max(t)}]]
             g == CHOOSE h : Is(h)
  <1>1. OfTemplateFold(e, k, base, objs) = g[1 .. n]
    BY DEF FoldLeft, MapThenFoldSet, OfTemplateFold
  <1>2. \A h : Is(h) <=> FoldsTo(h, "oftemplate", e, k, base, objs, n)
    BY DEF FoldsTo, FoldStep
  <1> HIDE DEF Is
  <1>3. \E h : Is(h)
    BY <1>2, FoldExists
  <1>4. Is(g)
    BY <1>3
  <1> HIDE DEF g
  <1>5. FoldsTo(g, "oftemplate", e, k, base, objs, n)
    BY <1>2, <1>4
  <1>6. \E r : Trace(r, "oftemplate", e, k, base, objs, n) /\ r[n] = g[1 .. n]
    BY <1>5, FoldTraced
  <1>7. QED
    BY <1>1, <1>6

DataSetsFold(base, objs) ==
    FoldLeft(LAMBDA acc, s : IF s.kind = "record" THEN Append(acc, s) ELSE acc, base, objs)

LEMMA DataSetsTraced ==
    ASSUME NEW base, NEW objs, NEW n \in Nat, DOMAIN objs = 1 .. n
    PROVE  \E r : /\ Trace(r, "datasets", 0, 0, base, objs, n)
                  /\ DataSetsFold(base, objs) = r[n]
  <1> DEFINE Is(h) == h = [t \in SUBSET (1 .. n) |->
                  IF t = {} THEN base ELSE 
                     IF objs[Max(t)].kind = "record" THEN Append(h[t \ {Max(t)}], objs[Max(t)]) ELSE h[t \ {Max(t)}]]
             g == CHOOSE h : Is(h)
  <1>1. DataSetsFold(base, objs) = g[1 .. n]
    BY DEF FoldLeft, MapThenFoldSet, DataSetsFold
  <1>2. \A h : Is(h) <=> FoldsTo(h, "datasets", 0, 0, base, objs, n)
    BY DEF FoldsTo, FoldStep
  <1> HIDE DEF Is
  <1>3. \E h : Is(h)
    BY <1>2, FoldExists
  <1>4. Is(g)
    BY <1>3
  <1> HIDE DEF g
  <1>5. FoldsTo(g, "datasets", 0, 0, base, objs, n)
    BY <1>2, <1>4
  <1>6. \E r : Trace(r, "datasets", 0, 0, base, objs, n) /\ r[n] = g[1 .. n]
    BY <1>5, FoldTraced
  <1>7. QED
    BY <1>1, <1>6

TemplateSetsFold(base, objs) ==
    FoldLeft(LAMBDA acc, s : IF s.kind # "record" THEN Append(acc, s) ELSE acc,
             base, objs)

LEMMA TemplateSetsTraced ==
    ASSUME NEW base, NEW objs, NEW n \in Nat, DOMAIN objs = 1 .. n
    PROVE  \E r : /\ Trace(r, "templatesets", 0, 0, base, objs, n)
                  /\ TemplateSetsFold(base, objs) = r[n]
  <1> DEFINE Is(h) == h = [t \in SUBSET (1 .. n) |->
                  IF t = {} THEN base ELSE
                     IF objs[Max(t)].kind # "record"
                     THEN Append(h[t \ {Max(t)}], objs[Max(t)])
                     ELSE h[t \ {Max(t)}]]
             g == CHOOSE h : Is(h)
  <1>1. TemplateSetsFold(base, objs) = g[1 .. n]
    BY DEF FoldLeft, MapThenFoldSet, TemplateSetsFold
  <1>2. \A h : Is(h) <=> FoldsTo(h, "templatesets", 0, 0, base, objs, n)
    BY DEF FoldsTo, FoldStep
  <1> HIDE DEF Is
  <1>3. \E h : Is(h)
    BY <1>2, FoldExists
  <1>4. Is(g)
    BY <1>3
  <1> HIDE DEF g
  <1>5. FoldsTo(g, "templatesets", 0, 0, base, objs, n)
    BY <1>2, <1>4
  <1>6. \E r : Trace(r, "templatesets", 0, 0, base, objs, n) /\ r[n] = g[1 .. n]
    BY <1>5, FoldTraced
  <1>7. QED
    BY <1>1, <1>6

ChosenFold(k, base, objs) ==
    FoldLeft(LAMBDA acc, r : IF r.tid = k THEN Append(acc, r) ELSE acc,
             base, objs)

LEMMA ChosenTraced ==
    ASSUME NEW k, NEW base, NEW objs, NEW n \in Nat, DOMAIN objs = 1 .. n
    PROVE  \E r : /\ Trace(r, "chosen", 0, k, base, objs, n)
                  /\ ChosenFold(k, base, objs) = r[n]
  <1> DEFINE Is(h) == h = [t \in SUBSET (1 .. n) |->
                  IF t = {} THEN base ELSE
                     IF objs[Max(t)].tid = k
                     THEN Append(h[t \ {Max(t)}], objs[Max(t)])
                     ELSE h[t \ {Max(t)}]]
             g == CHOOSE h : Is(h)
  <1>1. ChosenFold(k, base, objs) = g[1 .. n]
    BY DEF FoldLeft, MapThenFoldSet, ChosenFold
  <1>2. \A h : Is(h) <=> FoldsTo(h, "chosen", 0, k, base, objs, n)
    BY DEF FoldsTo, FoldStep
  <1> HIDE DEF Is
  <1>3. \E h : Is(h)
    BY <1>2, FoldExists
  <1>4. Is(g)
    BY <1>3
  <1> HIDE DEF g
  <1>5. FoldsTo(g, "chosen", 0, k, base, objs, n)
    BY <1>2, <1>4
  <1>6. \E r : Trace(r, "chosen", 0, k, base, objs, n) /\ r[n] = g[1 .. n]
    BY <1>5, FoldTraced
  <1>7. QED
    BY <1>1, <1>6

ListedFold(e, k, base, objs) ==
    FoldLeft(LAMBDA acc, x : IF OfKind(e, k, x) THEN AddRecords(e, acc, x) ELSE acc,
             base, objs)

LEMMA ListedTraced ==
    ASSUME NEW e, NEW k, NEW base, NEW objs, NEW n \in Nat, DOMAIN objs = 1 .. n
    PROVE  \E r : /\ Trace(r, "listed", e, k, base, objs, n)
                  /\ ListedFold(e, k, base, objs) = r[n]
  <1> DEFINE Is(h) == h = [t \in SUBSET (1 .. n) |->
                  IF t = {} THEN base ELSE
                     IF OfKind(e, k, objs[Max(t)])
                     THEN AddRecords(e, h[t \ {Max(t)}], objs[Max(t)])
                     ELSE h[t \ {Max(t)}]]
             g == CHOOSE h : Is(h)
  <1>1. ListedFold(e, k, base, objs) = g[1 .. n]
    BY DEF FoldLeft, MapThenFoldSet, ListedFold
  <1>2. \A h : Is(h) <=> FoldsTo(h, "listed", e, k, base, objs, n)
    BY DEF FoldsTo, FoldStep
  <1> HIDE DEF Is
  <1>3. \E h : Is(h)
    BY <1>2, FoldExists
  <1>4. Is(g)
    BY <1>3
  <1> HIDE DEF g
  <1>5. FoldsTo(g, "listed", e, k, base, objs, n)
    BY <1>2, <1>4
  <1>6. \E r : Trace(r, "listed", e, k, base, objs, n) /\ r[n] = g[1 .. n]
    BY <1>5, FoldTraced
  <1>7. QED
    BY <1>1, <1>6

ImportsFold(e, base, objs) ==
    FoldLeft(LAMBDA q, s : ReadSet(q, s, e), base, objs)

LEMMA ImportsTraced ==
    ASSUME NEW e, NEW base, NEW objs, NEW n \in Nat, DOMAIN objs = 1 .. n
    PROVE  \E r : /\ Trace(r, "imports", e, 0, base, objs, n)
                  /\ ImportsFold(e, base, objs) = r[n]
  <1> DEFINE Is(h) == h = [t \in SUBSET (1 .. n) |->
                  IF t = {} THEN base ELSE ReadSet(h[t \ {Max(t)}], objs[Max(t)], e)]
             g == CHOOSE h : Is(h)
  <1>1. ImportsFold(e, base, objs) = g[1 .. n]
    BY DEF FoldLeft, MapThenFoldSet, ImportsFold
  <1>2. \A h : Is(h) <=> FoldsTo(h, "imports", e, 0, base, objs, n)
    BY DEF FoldsTo, FoldStep
  <1> HIDE DEF Is
  <1>3. \E h : Is(h)
    BY <1>2, FoldExists
  <1>4. Is(g)
    BY <1>3
  <1> HIDE DEF g
  <1>5. FoldsTo(g, "imports", e, 0, base, objs, n)
    BY <1>2, <1>4
  <1>6. \E r : Trace(r, "imports", e, 0, base, objs, n) /\ r[n] = g[1 .. n]
    BY <1>5, FoldTraced
  <1>7. QED
    BY <1>1, <1>6

RecordsFold(e, base, objs) ==
    FoldLeft(LAMBDA q, byte : ReadRecordIfLeft(q, e), base, objs)

LEMMA RecordsTraced ==
    ASSUME NEW e, NEW base, NEW objs, NEW n \in Nat, DOMAIN objs = 1 .. n
    PROVE  \E r : /\ Trace(r, "records", e, 0, base, objs, n)
                  /\ RecordsFold(e, base, objs) = r[n]
  <1> DEFINE Is(h) == h = [t \in SUBSET (1 .. n) |->
                  IF t = {} THEN base ELSE ReadRecordIfLeft(h[t \ {Max(t)}], e)]
             g == CHOOSE h : Is(h)
  <1>1. RecordsFold(e, base, objs) = g[1 .. n]
    BY DEF FoldLeft, MapThenFoldSet, RecordsFold
  <1>2. \A h : Is(h) <=> FoldsTo(h, "records", e, 0, base, objs, n)
    BY DEF FoldsTo, FoldStep
  <1> HIDE DEF Is
  <1>3. \E h : Is(h)
    BY <1>2, FoldExists
  <1>4. Is(g)
    BY <1>3
  <1> HIDE DEF g
  <1>5. FoldsTo(g, "records", e, 0, base, objs, n)
    BY <1>2, <1>4
  <1>6. \E r : Trace(r, "records", e, 0, base, objs, n) /\ r[n] = g[1 .. n]
    BY <1>5, FoldTraced
  <1>7. QED
    BY <1>1, <1>6

FieldsFold(e, base, objs) ==
    FoldLeft(LAMBDA d, f : DecodeField(d, f, e), base, objs)

LEMMA FieldsTraced ==
    ASSUME NEW e, NEW base, NEW objs, NEW n \in Nat, DOMAIN objs = 1 .. n
    PROVE  \E r : /\ Trace(r, "fields", e, 0, base, objs, n)
                  /\ FieldsFold(e, base, objs) = r[n]
  <1> DEFINE Is(h) == h = [t \in SUBSET (1 .. n) |->
                  IF t = {} THEN base ELSE DecodeField(h[t \ {Max(t)}], objs[Max(t)], e)]
             g == CHOOSE h : Is(h)
  <1>1. FieldsFold(e, base, objs) = g[1 .. n]
    BY DEF FoldLeft, MapThenFoldSet, FieldsFold
  <1>2. \A h : Is(h) <=> FoldsTo(h, "fields", e, 0, base, objs, n)
    BY DEF FoldsTo, FoldStep
  <1> HIDE DEF Is
  <1>3. \E h : Is(h)
    BY <1>2, FoldExists
  <1>4. Is(g)
    BY <1>3
  <1> HIDE DEF g
  <1>5. FoldsTo(g, "fields", e, 0, base, objs, n)
    BY <1>2, <1>4
  <1>6. \E r : Trace(r, "fields", e, 0, base, objs, n) /\ r[n] = g[1 .. n]
    BY <1>5, FoldTraced
  <1>7. QED
    BY <1>1, <1>6

(* A part of a fold, and the part of the sequence it stands for. *)
LEMMA TracesAgree ==
    ASSUME NEW kind, NEW e, NEW k, NEW e2, NEW k2, NEW base, NEW objs, NEW objs2,
           NEW n \in Nat, NEW r, NEW r2,
           Trace(r, kind, e, k, base, objs, n), Trace(r2, kind, e2, k2, base, objs2, n),
           \A i \in 1 .. n : \A acc :
               FoldStep(kind, e, k, acc, objs[i]) = FoldStep(kind, e2, k2, acc, objs2[i])
    PROVE  r[n] = r2[n]
  <1> DEFINE T == {i \in Nat : i <= n => r[i] = r2[i]}
  <1>1. 0 \in T
    BY DEF Trace
  <1>2. ASSUME NEW i \in T PROVE i + 1 \in T
    <2> SUFFICES ASSUME i + 1 <= n PROVE r[i + 1] = r2[i + 1]
      OBVIOUS
    <2>1. i + 1 \in 1 .. n /\ (i + 1) - 1 = i /\ r[i] = r2[i]
      OBVIOUS
    <2>2. /\ r[i + 1] = FoldStep(kind, e, k, r[i], objs[i + 1])
          /\ r2[i + 1] = FoldStep(kind, e2, k2, r2[i], objs2[i + 1])
      BY <2>1 DEF Trace
    <2>3. QED
      BY <2>1, <2>2
  <1>3. T \in SUBSET Nat
    OBVIOUS
  <1> HIDE DEF T
  <1>4. T = Nat
    BY <1>1, <1>2, <1>3, Induction
  <1>5. QED
    BY <1>4 DEF T

(* The trace of a longer sequence passes through that of its beginning. *)
LEMMA TraceOfPart ==
    ASSUME NEW kind, NEW e, NEW k, NEW base, NEW objs, NEW objs2, NEW n \in Nat, NEW r,
           Trace(r, kind, e, k, base, objs2, n + 1),
           \A i \in 1 .. n : objs2[i] = objs[i]
    PROVE  /\ Trace(r, kind, e, k, base, objs, n)
           /\ r[n + 1] = FoldStep(kind, e, k, r[n], objs2[n + 1])
  <1>1. n + 1 \in 1 .. n + 1 /\ (n + 1) - 1 = n
    OBVIOUS
  <1>2. r[n + 1] = FoldStep(kind, e, k, r[n], objs2[n + 1])
    BY <1>1 DEF Trace
  <1>3. \A i \in 1 .. n : i \in 1 .. n + 1
    OBVIOUS
  <1>4. \A i \in 1 .. n : r[i] = FoldStep(kind, e, k, r[i - 1], objs[i])
    BY <1>3 DEF Trace
  <1>5. r[0] = base
    BY DEF Trace
  <1>6. QED
    BY <1>2, <1>4, <1>5 DEF Trace

(***************************************************************************)
(* What the values of the model's variables are made of.                   *)
(***************************************************************************)
Lengths == UNION {Flengths[ft] : ft \in FieldTypes}

Fields == [ft : FieldTypes, flength : Lengths, relay : BOOLEAN]

Specifiers == [ft : FieldTypes, flength : Lengths]

Templates == [type : {"data", "option"}, maxfields : Nat, sent : BOOLEAN,
              scopefields : Seq(Fields), datafields : Seq(Fields)]

TemplateOK(t) ==
    /\ t \in Templates
    /\ NumFields(t) <= t.maxfields
    /\ t.type = "data" => t.scopefields = <<>>

WireSets == [kind : {"record", "data", "option"}, id : Tids, nscope : Nat,
             fields : Seq(Specifiers), body : Seq(Nat)]

TemplatesOK(ts, last) ==
    /\ ts = [tid \in DOMAIN ts |-> ts[tid]]
    /\ DOMAIN ts \subseteq Tids
    /\ \A tid \in DOMAIN ts : tid <= last /\ TemplateOK(ts[tid])

MessageForm(m) ==
    DOMAIN m = {"version", "network", "templates", "lasttid", "data", "nrecords", "seqno",
                "require_output", "buffer", "offset", "length", "header"}

(* What the counters of a message say of its sets. *)
Counted(m) ==
    /\ m.version = "IPFIX" => m.seqno = m.nrecords
    /\ m.version = "NF9" => Len(m.buffer) <= m.nrecords

MessageOK(m) ==
    /\ MessageForm(m) /\ Counted(m)
    /\ m.version \in {"IPFIX", "NF9"}
    /\ m.network \in BOOLEAN /\ m.require_output \in BOOLEAN
    /\ m.lasttid \in FirstTid - 1 .. FirstTid + MaxTemplates - 1
    /\ TemplatesOK(m.templates, m.lasttid)
    /\ m.data \in Seq(Records)
    /\ m.nrecords \in Nat /\ m.seqno \in Nat /\ m.offset \in Nat /\ m.length \in Nat
    /\ m.buffer \in Seq(WireSets)

(***************************************************************************)
(* The sums of sizes.                                                      *)
(***************************************************************************)
SpecSum(fs) == SumOver(fs, SpecifierSize)

SetSum(b) == SumOver(b, SetSize)

LEMMA SpecTrace ==
    ASSUME NEW fs, NEW n \in Nat, DOMAIN fs = 1 .. n
    PROVE  \E r : Trace(r, "specs", 0, 0, 0, fs, n) /\ SpecSum(fs) = r[n]
  BY SpecsTraced DEF SpecSum, SumOver, SpecsFold

LEMMA SetTrace ==
    ASSUME NEW b, NEW n \in Nat, DOMAIN b = 1 .. n
    PROVE  \E r : Trace(r, "sets", 0, 0, 0, b, n) /\ SetSum(b) = r[n]
  BY SetsTraced DEF SetSum, SumOver, SetsFold

LEMMA SpecSumNat ==
    ASSUME NEW fs, NEW n \in Nat, DOMAIN fs = 1 .. n
    PROVE  SpecSum(fs) \in Nat
  <1>1. PICK r : Trace(r, "specs", 0, 0, 0, fs, n) /\ SpecSum(fs) = r[n]
    BY SpecTrace
  <1> DEFINE T == {i \in Nat : i <= n => r[i] \in Nat}
  <1>2. 0 \in T
    BY <1>1 DEF Trace
  <1>3. ASSUME NEW i \in T PROVE i + 1 \in T
    <2> SUFFICES ASSUME i + 1 <= n PROVE r[i + 1] \in Nat
      OBVIOUS
    <2>1. i + 1 \in 1 .. n /\ (i + 1) - 1 = i /\ r[i] \in Nat
      OBVIOUS
    <2>2. r[i + 1] = FoldStep("specs", 0, 0, r[i], fs[i + 1])
      BY <1>1, <2>1 DEF Trace
    <2>3. r[i + 1] = r[i] + SpecifierSize(fs[i + 1])
      BY <2>2 DEF FoldStep
    <2>4. QED
      BY <2>1, <2>3 DEF SpecifierSize
  <1>4. T \in SUBSET Nat
    OBVIOUS
  <1> HIDE DEF T
  <1>5. T = Nat
    BY <1>2, <1>3, <1>4, Induction
  <1>6. QED
    BY <1>1, <1>5 DEF T

(* The specifiers of a template set are as long as those of the template. *)
LEMMA SpecSumSame ==
    ASSUME NEW fs, NEW gs, NEW n \in Nat, DOMAIN fs = 1 .. n, DOMAIN gs = 1 .. n,
           \A i \in 1 .. n : fs[i].ft = gs[i].ft
    PROVE  SpecSum(fs) = SpecSum(gs)
  <1>1. PICK r : Trace(r, "specs", 0, 0, 0, fs, n) /\ SpecSum(fs) = r[n]
    BY SpecTrace
  <1>2. PICK q : Trace(q, "specs", 0, 0, 0, gs, n) /\ SpecSum(gs) = q[n]
    BY SpecTrace
  <1>3. \A i \in 1 .. n : SpecifierSize(fs[i]) = SpecifierSize(gs[i])
    BY DEF SpecifierSize
  <1>4. \A i \in 1 .. n : \A acc :
            FoldStep("specs", 0, 0, acc, fs[i]) = FoldStep("specs", 0, 0, acc, gs[i])
    BY <1>3 DEF FoldStep
  <1>5. r[n] = q[n]
    BY <1>1, <1>2, <1>4, TracesAgree
  <1>6. QED
    BY <1>1, <1>2, <1>5

LEMMA SetSizeNat ==
    ASSUME NEW s \in WireSets
    PROVE  SetSize(s) \in Nat
  <1>1. Len(s.body) \in Nat /\ Len(s.fields) \in Nat
        /\ DOMAIN s.fields = 1 .. Len(s.fields)
    BY DEF WireSets
  <1>2. SpecSum(s.fields) \in Nat
    BY <1>1, SpecSumNat
  <1>3. QED
    BY <1>1, <1>2 DEF SetSize, SpecSum

LEMMA SetSumNat ==
    ASSUME NEW b \in Seq(WireSets)
    PROVE  SetSum(b) \in Nat
  <1> DEFINE n == Len(b)
  <1>1. n \in Nat /\ DOMAIN b = 1 .. n
    OBVIOUS
  <1> HIDE DEF n
  <1>2. PICK r : Trace(r, "sets", 0, 0, 0, b, n) /\ SetSum(b) = r[n]
    BY <1>1, SetTrace
  <1> DEFINE T == {i \in Nat : i <= n => r[i] \in Nat}
  <1>3. 0 \in T
    BY <1>2 DEF Trace
  <1>4. ASSUME NEW i \in T PROVE i + 1 \in T
    <2> SUFFICES ASSUME i + 1 <= n PROVE r[i + 1] \in Nat
      OBVIOUS
    <2>1. i + 1 \in 1 .. n /\ (i + 1) - 1 = i /\ r[i] \in Nat
      BY <1>1
    <2>2. r[i + 1] = FoldStep("sets", 0, 0, r[i], b[i + 1])
      BY <1>2, <2>1 DEF Trace
    <2>3. r[i + 1] = r[i] + SetSize(b[i + 1])
      BY <2>2 DEF FoldStep
    <2>4. b[i + 1] \in WireSets
      BY <1>1, <2>1
    <2>5. SetSize(b[i + 1]) \in Nat
      BY <2>4, SetSizeNat
    <2>6. QED
      BY <2>1, <2>3, <2>5
  <1>5. T \in SUBSET Nat
    OBVIOUS
  <1> HIDE DEF T
  <1>6. T = Nat
    BY <1>3, <1>4, <1>5, Induction
  <1>7. QED
    BY <1>1, <1>2, <1>6 DEF T

(* One set more at the end of the buffer: its size is added. *)
LEMMA SetSumAppend ==
    ASSUME NEW b \in Seq(WireSets), NEW s \in WireSets
    PROVE  SetSum(Append(b, s)) = SetSum(b) + SetSize(s)
  <1> DEFINE n == Len(b)
             a == Append(b, s)
  <1>1. /\ n \in Nat /\ DOMAIN b = 1 .. n /\ DOMAIN a = 1 .. n + 1
        /\ a[n + 1] = s /\ \A i \in 1 .. n : a[i] = b[i]
    OBVIOUS
  <1> HIDE DEF n, a
  <1>2. PICK r : Trace(r, "sets", 0, 0, 0, b, n) /\ SetSum(b) = r[n]
    BY <1>1, SetTrace
  <1>3. n + 1 \in Nat
    BY <1>1
  <1>4. PICK q : Trace(q, "sets", 0, 0, 0, a, n + 1) /\ SetSum(a) = q[n + 1]
    BY <1>1, <1>3, SetTrace
  <1>5. Trace(q, "sets", 0, 0, 0, b, n) /\ q[n + 1] = FoldStep("sets", 0, 0, q[n], a[n + 1])
    <2>1. n \in Nat /\ \A i \in 1 .. n : a[i] = b[i]
      BY <1>1
    <2>2. QED
      BY <1>4, <2>1, TraceOfPart
  <1>6. q[n] = r[n]
    BY <1>1, <1>2, <1>5, TracesAgree
  <1>7. q[n + 1] = r[n] + SetSize(s)
    BY <1>1, <1>5, <1>6 DEF FoldStep
  <1>8. QED
    BY <1>2, <1>4, <1>7 DEF a

LEMMA Prepended ==
    ASSUME NEW S, NEW b \in Seq(S), NEW s \in S
    PROVE  LET a == <<s>> \o b
           IN  /\ a \in Seq(S) /\ Len(a) = Len(b) + 1
               /\ DOMAIN b = 1 .. Len(b) /\ DOMAIN a = 1 .. Len(b) + 1 /\ Len(b) \in Nat
               /\ a[1] = s /\ \A i \in 1 .. Len(b) : a[i + 1] = b[i]
  OBVIOUS

(* Or at the front, where output() puts the template sets. *)
LEMMA SetSumPrepend ==
    ASSUME NEW b \in Seq(WireSets), NEW s \in WireSets
    PROVE  SetSum(<<s>> \o b) = SetSize(s) + SetSum(b)
  <1> DEFINE n == Len(b)
             a == <<s>> \o b
  <1>1. /\ n \in Nat /\ DOMAIN b = 1 .. n /\ DOMAIN a = 1 .. n + 1
        /\ a[1] = s /\ \A i \in 1 .. n : a[i + 1] = b[i]
    BY Prepended
  <1>1a. \A i \in 1 .. n : b[i] \in WireSets
    BY DEF n
  <1> HIDE DEF n, a
  <1>2. PICK r : Trace(r, "sets", 0, 0, 0, b, n) /\ SetSum(b) = r[n]
    BY <1>1, SetTrace
  <1>3. n + 1 \in Nat
    BY <1>1
  <1>4. PICK q : Trace(q, "sets", 0, 0, 0, a, n + 1) /\ SetSum(a) = q[n + 1]
    BY <1>1, <1>3, SetTrace
  <1> DEFINE T == {i \in Nat : i <= n => r[i] \in Nat /\ q[i + 1] = SetSize(s) + r[i]}
  <1>5. 0 \in T
    <2>1. 1 \in 1 .. n + 1 /\ 1 - 1 = 0 /\ 0 + 1 = 1
      BY <1>1
    <2>2. q[1] = FoldStep("sets", 0, 0, q[0], a[1]) /\ q[0] = 0 /\ r[0] = 0
      BY <1>2, <1>4, <2>1 DEF Trace
    <2>3. q[1] = 0 + SetSize(s)
      BY <1>1, <2>2 DEF FoldStep
    <2>4. SetSize(s) \in Nat
      BY SetSizeNat
    <2>5. q[0 + 1] = SetSize(s) + r[0] /\ r[0] \in Nat
      BY <2>1, <2>2, <2>3, <2>4
    <2>6. QED
      BY <2>5
  <1>6. ASSUME NEW i \in T PROVE i + 1 \in T
    <2> SUFFICES ASSUME i + 1 <= n
                 PROVE  r[i + 1] \in Nat /\ q[(i + 1) + 1] = SetSize(s) + r[i + 1]
      OBVIOUS
    <2>1. /\ i + 1 \in 1 .. n /\ (i + 1) - 1 = i /\ (i + 1) + 1 \in 1 .. n + 1
          /\ ((i + 1) + 1) - 1 = i + 1 /\ i \in Nat
          /\ r[i] \in Nat /\ q[i + 1] = SetSize(s) + r[i]
      BY <1>1
    <2>2. r[i + 1] = FoldStep("sets", 0, 0, r[i], b[i + 1])
      BY <1>2, <2>1 DEF Trace
    <2>3. q[(i + 1) + 1] = FoldStep("sets", 0, 0, q[i + 1], a[(i + 1) + 1])
      BY <1>4, <2>1 DEF Trace
    <2>4. a[(i + 1) + 1] = b[i + 1] /\ b[i + 1] \in WireSets
      BY <1>1, <1>1a, <2>1
    <2>5. PICK x : x = b[i + 1]
      OBVIOUS
    <2>6. r[i + 1] = r[i] + SetSize(x) /\ q[(i + 1) + 1] = q[i + 1] + SetSize(x)
      BY <2>2, <2>3, <2>4, <2>5 DEF FoldStep
    <2>7. SetSize(x) \in Nat /\ SetSize(s) \in Nat
      BY <2>4, <2>5, SetSizeNat
    <2>8. QED
      BY <2>1, <2>6, <2>7
  <1>7. T \in SUBSET Nat
    OBVIOUS
  <1> HIDE DEF T
  <1>8. T = Nat
    BY <1>5, <1>6, <1>7, Induction
  <1>9. q[n + 1] = SetSize(s) + r[n]
    BY <1>1, <1>8 DEF T
  <1>10. QED
    BY <1>2, <1>4, <1>9 DEF a

(***************************************************************************)
(* The data sets of a buffer.                                              *)
(***************************************************************************)
OnlyData(b) == DataSetsFold(<<>>, b)

LEMMA DataTrace ==
    ASSUME NEW b, NEW n \in Nat, DOMAIN b = 1 .. n
    PROVE  \E r : Trace(r, "datasets", 0, 0, <<>>, b, n) /\ OnlyData(b) = r[n]
  BY DataSetsTraced DEF OnlyData

LEMMA OnlyDataAppend ==
    ASSUME NEW b \in Seq(WireSets), NEW s, s.kind = "record"
    PROVE  OnlyData(Append(b, s)) = Append(OnlyData(b), s)
  <1> DEFINE n == Len(b)
             a == Append(b, s)
  <1>1. /\ n \in Nat /\ DOMAIN b = 1 .. n /\ DOMAIN a = 1 .. n + 1
        /\ a[n + 1] = s /\ \A i \in 1 .. n : a[i] = b[i]
    OBVIOUS
  <1> HIDE DEF n, a
  <1>2. PICK r : Trace(r, "datasets", 0, 0, <<>>, b, n) /\ OnlyData(b) = r[n]
    BY <1>1, DataTrace
  <1>3. n + 1 \in Nat
    BY <1>1
  <1>4. PICK q : Trace(q, "datasets", 0, 0, <<>>, a, n + 1) /\ OnlyData(a) = q[n + 1]
    BY <1>1, <1>3, DataTrace
  <1>5. /\ Trace(q, "datasets", 0, 0, <<>>, b, n)
        /\ q[n + 1] = FoldStep("datasets", 0, 0, q[n], a[n + 1])
    <2>1. n \in Nat /\ \A i \in 1 .. n : a[i] = b[i]
      BY <1>1
    <2>2. PICK base : base = <<>>
      OBVIOUS
    <2>3. Trace(q, "datasets", 0, 0, base, a, n + 1)
      BY <1>4, <2>2
    <2>4. /\ Trace(q, "datasets", 0, 0, base, b, n)
          /\ q[n + 1] = FoldStep("datasets", 0, 0, q[n], a[n + 1])
      BY <2>1, <2>3, TraceOfPart
    <2>5. QED
      BY <2>2, <2>4
  <1>6. q[n] = r[n]
    BY <1>1, <1>2, <1>5, TracesAgree
  <1>7. q[n + 1] = Append(r[n], s)
    BY <1>1, <1>5, <1>6 DEF FoldStep
  <1>8. QED
    BY <1>2, <1>4, <1>7 DEF a

LEMMA OnlyDataPrepend ==
    ASSUME NEW b \in Seq(WireSets), NEW s \in WireSets, s.kind # "record"
    PROVE  OnlyData(<<s>> \o b) = OnlyData(b)
  <1> DEFINE n == Len(b)
             a == <<s>> \o b
  <1>1. /\ n \in Nat /\ DOMAIN b = 1 .. n /\ DOMAIN a = 1 .. n + 1
        /\ a[1] = s /\ \A i \in 1 .. n : a[i + 1] = b[i]
    BY Prepended
  <1> HIDE DEF n, a
  <1>2. PICK r : Trace(r, "datasets", 0, 0, <<>>, b, n) /\ OnlyData(b) = r[n]
    BY <1>1, DataTrace
  <1>3. n + 1 \in Nat
    BY <1>1
  <1>4. PICK q : Trace(q, "datasets", 0, 0, <<>>, a, n + 1) /\ OnlyData(a) = q[n + 1]
    BY <1>1, <1>3, DataTrace
  <1> DEFINE T == {i \in Nat : i <= n => q[i + 1] = r[i]}
  <1>5. 0 \in T
    <2>1. 1 \in 1 .. n + 1 /\ 1 - 1 = 0 /\ 0 + 1 = 1
      BY <1>1
    <2>2. q[1] = FoldStep("datasets", 0, 0, q[0], a[1]) /\ q[0] = <<>> /\ r[0] = <<>>
      BY <1>2, <1>4, <2>1 DEF Trace
    <2>3. q[1] = q[0]
      BY <1>1, <2>2 DEF FoldStep
    <2>4. q[0 + 1] = r[0]
      BY <2>1, <2>2, <2>3
    <2>5. QED
      BY <2>4
  <1>6. ASSUME NEW i \in T PROVE i + 1 \in T
    <2> SUFFICES ASSUME i + 1 <= n
                 PROVE  q[(i + 1) + 1] = r[i + 1]
      OBVIOUS
    <2>1. /\ i + 1 \in 1 .. n /\ (i + 1) - 1 = i /\ (i + 1) + 1 \in 1 .. n + 1
          /\ ((i + 1) + 1) - 1 = i + 1 /\ q[i + 1] = r[i]
      BY <1>1
    <2>2. r[i + 1] = FoldStep("datasets", 0, 0, r[i], b[i + 1])
      BY <1>2, <2>1 DEF Trace
    <2>3. q[(i + 1) + 1] = FoldStep("datasets", 0, 0, q[i + 1], a[(i + 1) + 1])
      BY <1>4, <2>1 DEF Trace
    <2>4. a[(i + 1) + 1] = b[i + 1]
      BY <1>1, <2>1
    <2>5. QED
      BY <2>1, <2>2, <2>3, <2>4
  <1>7. T \in SUBSET Nat
    OBVIOUS
  <1> HIDE DEF T
  <1>8. T = Nat
    BY <1>5, <1>6, <1>7, Induction
  <1>9. q[n + 1] = r[n]
    BY <1>1, <1>8 DEF T
  <1>10. QED
    BY <1>2, <1>4, <1>9 DEF a

(***************************************************************************)
(* The order of a buffer: the template sets, each for another template,    *)
(* and then the data sets.                                                 *)
(***************************************************************************)
Ordered(b) ==
    \E n \in 0 .. Len(b) : \A i \in DOMAIN b : b[i].kind = "record" <=> i > n

Distinct(b) ==
    \A i, j \in DOMAIN b :
        b[i].kind # "record" /\ b[j].kind # "record" /\ b[i].id = b[j].id => i = j

AllSent(b, ts) ==
    \A i \in DOMAIN b : b[i].kind # "record" => ts[b[i].id].sent

LEMMA AppendedIs ==
    ASSUME NEW S, NEW b \in Seq(S), NEW s \in S
    PROVE  LET a == Append(b, s)
           IN  /\ a \in Seq(S) /\ Len(a) = Len(b) + 1
               /\ DOMAIN b = 1 .. Len(b) /\ DOMAIN a = 1 .. Len(b) + 1 /\ Len(b) \in Nat
               /\ a[Len(b) + 1] = s /\ \A i \in 1 .. Len(b) : a[i] = b[i]
  OBVIOUS

(* A template set goes to the front. *)
LEMMA PrependOrdered ==
    ASSUME NEW b \in Seq(WireSets), Ordered(b), Distinct(b), NEW ts, AllSent(b, ts),
           NEW s \in WireSets, s.kind # "record", s.id \in DOMAIN ts, ~ts[s.id].sent,
           \A i \in DOMAIN b : b[i].kind # "record" => b[i].id \in DOMAIN ts,
           NEW us, DOMAIN us = DOMAIN ts, us[s.id].sent,
           \A x \in DOMAIN ts : ts[x].sent => us[x].sent
    PROVE  LET a == <<s>> \o b IN Ordered(a) /\ Distinct(a) /\ AllSent(a, us)
  <1> DEFINE a == <<s>> \o b
             n == Len(b)
  <1>1. /\ DOMAIN b = 1 .. n /\ DOMAIN a = 1 .. n + 1 /\ n \in Nat /\ Len(a) = n + 1
        /\ a[1] = s /\ \A i \in 1 .. n : a[i + 1] = b[i]
    BY Prepended
  <1>2. PICK k \in 0 .. n : \A i \in DOMAIN b : b[i].kind = "record" <=> i > k
    BY DEF Ordered
  <1> HIDE DEF a, n
  <1>3. ASSUME NEW i \in DOMAIN a, i # 1
        PROVE  i - 1 \in DOMAIN b /\ a[i] = b[i - 1]
    <2>1. i - 1 \in 1 .. n /\ (i - 1) + 1 = i
      BY <1>1, <1>3
    <2>2. a[(i - 1) + 1] = b[i - 1]
      BY <1>1, <2>1
    <2>3. QED
      BY <1>1, <2>1, <2>2
  <1>4. Ordered(a)
    <2>1. k + 1 \in 0 .. Len(a)
      BY <1>1
    <2>2. ASSUME NEW i \in DOMAIN a
          PROVE  a[i].kind = "record" <=> i > k + 1
      <3>1. CASE i = 1
        BY <1>1, <3>1
      <3>2. CASE i # 1
        <4>1. b[i - 1].kind = "record" <=> i - 1 > k
          BY <1>2, <1>3, <3>2
        <4>2. QED
          BY <1>1, <1>3, <3>2, <4>1
      <3>3. QED
        BY <3>1, <3>2
    <2>3. QED
      BY <2>1, <2>2 DEF Ordered
  <1>5. ASSUME NEW i \in DOMAIN b, b[i].kind # "record" PROVE b[i].id # s.id
    BY <1>5 DEF AllSent
  <1>6. Distinct(a)
    <2> SUFFICES ASSUME NEW i \in DOMAIN a, NEW j \in DOMAIN a,
                        a[i].kind # "record", a[j].kind # "record", a[i].id = a[j].id
                 PROVE  i = j
      BY DEF Distinct
    <2>1. CASE i = 1 /\ j # 1
      BY <1>1, <1>3, <1>5, <2>1
    <2>2. CASE i # 1 /\ j = 1
      BY <1>1, <1>3, <1>5, <2>2
    <2>3. CASE i # 1 /\ j # 1
      <3>1. i - 1 = j - 1
        BY <1>3, <2>3 DEF Distinct
      <3>2. QED
        BY <1>1, <3>1
    <2>4. QED
      BY <2>1, <2>2, <2>3
  <1>7. AllSent(a, us)
    <2> SUFFICES ASSUME NEW i \in DOMAIN a, a[i].kind # "record" PROVE us[a[i].id].sent
      BY DEF AllSent
    <2>1. CASE i = 1
      BY <1>1, <2>1
    <2>2. CASE i # 1
      BY <1>3, <2>2 DEF AllSent
    <2>3. QED
      BY <2>1, <2>2
  <1>8. QED
    BY <1>4, <1>6, <1>7 DEF a

(* A data set goes to the end. *)
LEMMA AppendOrdered ==
    ASSUME NEW b \in Seq(WireSets), Ordered(b), Distinct(b), NEW ts, AllSent(b, ts),
           NEW s \in WireSets, s.kind = "record"
    PROVE  LET a == Append(b, s) IN Ordered(a) /\ Distinct(a) /\ AllSent(a, ts)
  <1> DEFINE a == Append(b, s)
             n == Len(b)
  <1>1. /\ DOMAIN b = 1 .. n /\ DOMAIN a = 1 .. n + 1 /\ n \in Nat /\ Len(a) = n + 1
        /\ a[n + 1] = s /\ \A i \in 1 .. n : a[i] = b[i]
    BY AppendedIs
  <1>2. PICK k \in 0 .. n : \A i \in DOMAIN b : b[i].kind = "record" <=> i > k
    BY DEF Ordered
  <1> HIDE DEF a, n
  <1>3. ASSUME NEW i \in DOMAIN a, a[i].kind # "record"
        PROVE  i \in DOMAIN b /\ a[i] = b[i]
    <2>1. i # n + 1
      BY <1>1, <1>3
    <2>2. QED
      BY <1>1, <2>1
  <1>4. Ordered(a)
    <2>1. k \in 0 .. Len(a)
      BY <1>1
    <2>2. ASSUME NEW i \in DOMAIN a
          PROVE  a[i].kind = "record" <=> i > k
      <3>1. CASE i = n + 1
        BY <1>1, <3>1
      <3>2. CASE i # n + 1
        BY <1>1, <1>2, <3>2
      <3>3. QED
        BY <3>1, <3>2
    <2>3. QED
      BY <2>1, <2>2 DEF Ordered
  <1>5. Distinct(a)
    BY <1>3 DEF Distinct
  <1>6. AllSent(a, ts)
    BY <1>3 DEF AllSent
  <1>7. QED
    BY <1>4, <1>5, <1>6 DEF a
(***************************************************************************)
(* The bytes of a record.                                                  *)
(***************************************************************************)
RecordsOver(S) ==
    [tid : Tids, vals : {v \in [S -> UNION {Values[ft] : ft \in S}] :
                            \A ft \in S : v[ft] \in Values[ft]}]

LEMMA RecordIs ==
    ASSUME NEW r \in Records
    PROVE  /\ r.tid \in Tids /\ DOMAIN r.vals \in SUBSET FieldTypes
           /\ \A g \in DOMAIN r.vals : r.vals[g] \in Values[g]
  <1>1. Records = UNION {RecordsOver(S) : S \in SUBSET FieldTypes}
    BY DEF Records, RecordsOver
  <1>2. PICK S \in SUBSET FieldTypes : r \in RecordsOver(S)
    BY <1>1
  <1> DEFINE V == UNION {Values[ft] : ft \in S}
             D == {v \in [S -> V] : \A ft \in S : v[ft] \in Values[ft]}
  <1>3. r \in [tid : Tids, vals : D]
    BY <1>2 DEF RecordsOver
  <1>4. r.tid \in Tids /\ r.vals \in D
    <2> HIDE DEF D
    <2>1. QED
      BY <1>3
  <1>5. r.vals \in [S -> V] /\ \A ft \in S : r.vals[ft] \in Values[ft]
    <2> HIDE DEF V
    <2>1. QED
      BY <1>4
  <1>6. DOMAIN r.vals = S
    <2> HIDE DEF V
    <2>1. QED
      BY <1>5
  <1>7. QED
    BY <1>4, <1>5, <1>6

LEMMA SeqOfSubset ==
    ASSUME NEW S, NEW T, \A x \in S : x \in T, NEW v \in Seq(S)
    PROVE  v \in Seq(T)
  OBVIOUS

LEMMA BytesAreNumbers ==
    ASSUME NEW v \in Seq(0 .. 255)
    PROVE  v \in Seq(Nat)
  <1> DEFINE S == 0 .. 255
  <1>1. \A x \in S : x \in Nat
    OBVIOUS
  <1>2. v \in Seq(S)
    OBVIOUS
  <1> HIDE DEF S
  <1>3. QED
    BY <1>1, <1>2, SeqOfSubset

LEMMA ValueIs ==
    ASSUME NEW r \in Records, NEW ft, RecordHas(r, ft)
    PROVE  RecordValue(r, ft) \in Seq(Nat)
  <1> DEFINE g == CHOOSE x \in DOMAIN r.vals : SameMapEntry(x, ft)
  <1>1. g \in DOMAIN r.vals
    BY DEF RecordHas
  <1>2. RecordValue(r, ft) = r.vals[g]
    BY DEF RecordValue
  <1> HIDE DEF g
  <1>3. g \in FieldTypes /\ r.vals[g] \in Values[g]
    BY <1>1, RecordIs
  <1>4. r.vals[g] \in Seq(0 .. 255)
    BY <1>3, IpfixAssumption
  <1>5. QED
    BY <1>2, <1>4, BytesAreNumbers

LEMMA ReverseIs ==
    ASSUME NEW v \in Seq(Nat)
    PROVE  Reverse(v) \in Seq(Nat)
  <1>1. Len(v) \in Nat /\ \A i \in 1 .. Len(v) : (Len(v) - i) + 1 \in 1 .. Len(v)
    OBVIOUS
  <1>2. Reverse(v) = [i \in 1 .. Len(v) |-> v[(Len(v) - i) + 1]]
    BY DEF Reverse
  <1>3. QED
    BY <1>1, <1>2

LEMMA FieldBytesAre ==
    ASSUME NEW r \in Records, NEW f, RecordHas(r, f.ft)
    PROVE  FieldBytes(r, f) \in Seq(Nat)
  <1> DEFINE v == RecordValue(r, f.ft)
  <1>1. v \in Seq(Nat) /\ Len(v) \in Nat
    BY ValueIs
  <1> HIDE DEF v
  <1>2. Encode(f.ft, v, f.relay) \in Seq(Nat)
    BY <1>1, ReverseIs DEF Encode, EncodeInt
  <1>3. LengthPrefix(f.flength, v) \in Seq(Nat)
    <2>1. Len(v) \div 256 \in Nat /\ Len(v) % 256 \in Nat
      BY <1>1
    <2>2. <<255, Len(v) \div 256, Len(v) % 256>> \in Seq(Nat) /\ <<Len(v)>> \in Seq(Nat)
          /\ <<>> \in Seq(Nat)
      BY <1>1, <2>1
    <2>3. QED
      BY <2>2 DEF LengthPrefix
  <1>4. QED
    BY <1>2, <1>3 DEF FieldBytes, v

LEMMA TemplateIs ==
    ASSUME NEW t \in Templates
    PROVE  /\ TemplateFields(t) \in Seq(Fields) /\ NumFields(t) \in Nat
           /\ Len(TemplateFields(t)) = NumFields(t)
           /\ DOMAIN TemplateFields(t) = 1 .. NumFields(t)
           /\ \A i \in 1 .. NumFields(t) : TemplateFields(t)[i] \in Fields
  <1>1. t.scopefields \in Seq(Fields) /\ t.datafields \in Seq(Fields)
    BY DEF Templates
  <1> DEFINE fs == t.scopefields \o t.datafields
  <1>1a. \A a, b \in Seq(Fields) : a \o b \in Seq(Fields) /\ Len(a \o b) = Len(a) + Len(b)
                                  /\ Len(a) \in Nat /\ Len(b) \in Nat
    OBVIOUS
  <1>1b. fs \in Seq(Fields) /\ Len(fs) = Len(t.scopefields) + Len(t.datafields)
         /\ Len(fs) \in Nat
    BY <1>1, <1>1a
  <1> HIDE DEF fs
  <1>2. fs \in Seq(Fields) /\ Len(fs) = NumFields(t) /\ NumFields(t) \in Nat
    BY <1>1b DEF NumFields
  <1>3. TemplateFields(t) = fs
    BY DEF TemplateFields, fs
  <1>4. QED
    BY <1>2, <1>3

LEMMA BodyIs ==
    ASSUME NEW t \in Templates, NEW r \in Records, ~RecordRefused(t, r)
    PROVE  RecordBody(t, r) \in Seq(Nat)
  <1> DEFINE fs == TemplateFields(t)
             n == NumFields(t)
  <1>1. n \in Nat /\ DOMAIN fs = 1 .. n
    BY TemplateIs
  <1>2. \A i \in 1 .. n : RecordHas(r, fs[i].ft)
    BY DEF RecordRefused
  <1>3. RecordBody(t, r) = BytesFold(r, <<>>, fs)
    BY DEF RecordBody, BytesFold
  <1> HIDE DEF fs, n
  <1>3a. PICK none : none = <<>>
    OBVIOUS
  <1>4. PICK q : Trace(q, "bytes", r, 0, none, fs, n) /\ RecordBody(t, r) = q[n]
    BY <1>1, <1>3, <1>3a, BytesTraced
  <1> DEFINE T == {i \in Nat : i <= n => q[i] \in Seq(Nat)}
  <1>5. 0 \in T
    <2>1. q[0] = <<>> /\ <<>> \in Seq(Nat)
      BY <1>3a, <1>4 DEF Trace
    <2>2. QED
      BY <2>1
  <1>6. ASSUME NEW i \in T PROVE i + 1 \in T
    <2> SUFFICES ASSUME i + 1 <= n PROVE q[i + 1] \in Seq(Nat)
      OBVIOUS
    <2>1. i + 1 \in 1 .. n /\ (i + 1) - 1 = i /\ q[i] \in Seq(Nat)
      BY <1>1
    <2>2. q[i + 1] = FoldStep("bytes", r, 0, q[i], fs[i + 1])
      BY <1>4, <2>1 DEF Trace
    <2>3. q[i + 1] = q[i] \o FieldBytes(r, fs[i + 1])
      BY <2>2 DEF FoldStep
    <2>4. RecordHas(r, fs[i + 1].ft)
      BY <1>2, <2>1
    <2>5. FieldBytes(r, fs[i + 1]) \in Seq(Nat)
      BY <2>4, FieldBytesAre
    <2>6. QED
      BY <2>1, <2>3, <2>5
  <1>7. T \in SUBSET Nat
    OBVIOUS
  <1> HIDE DEF T
  <1>8. T = Nat
    BY <1>5, <1>6, <1>7, Induction
  <1>9. QED
    BY <1>1, <1>4, <1>8 DEF T

(***************************************************************************)
(* The sets of a message.                                                  *)
(***************************************************************************)
LEMMA TemplateSetIs ==
    ASSUME NEW tid \in Tids, NEW t \in Templates
    PROVE  /\ TemplateSet(tid, t) \in WireSets
           /\ TemplateSet(tid, t).kind # "record" /\ TemplateSet(tid, t).id = tid
           /\ SetSize(TemplateSet(tid, t)) = TemplateSize(t)
  <1> DEFINE n == NumFields(t)
             fs == TemplateFields(t)
             gs == [i \in 1 .. n |-> [ft |-> fs[i].ft, flength |-> fs[i].flength]]
             s == [kind |-> t.type, id |-> tid, nscope |-> Len(t.scopefields),
                   fields |-> gs, body |-> <<>>]
  <1>1. n \in Nat /\ DOMAIN fs = 1 .. n /\ \A i \in 1 .. n : fs[i] \in Fields
    BY TemplateIs
  <1>2. t.type \in {"data", "option"} /\ Len(t.scopefields) \in Nat
    BY DEF Templates
  <1>3. s = TemplateSet(tid, t)
    BY DEF TemplateSet
  <1> HIDE DEF fs, n
  <1>4. \A i \in 1 .. n : [ft |-> fs[i].ft, flength |-> fs[i].flength] \in Specifiers
    BY <1>1 DEF Fields, Specifiers
  <1>5. gs \in Seq(Specifiers)
    BY <1>1, <1>4
  <1>6. DOMAIN gs = 1 .. n /\ \A i \in 1 .. n : gs[i].ft = fs[i].ft
    BY <1>1
  <1> HIDE DEF gs
  <1>7. <<>> \in Seq(Nat)
    OBVIOUS
  <1>8. s \in WireSets
    BY <1>2, <1>5, <1>7 DEF WireSets
  <1>9. SpecSum(gs) = SpecSum(fs)
    BY <1>1, <1>6, SpecSumSame
  <1>10. s.kind = t.type /\ s.fields = gs /\ s.id = tid
    OBVIOUS
  <1> HIDE DEF s
  <1>11. SetSize(s) = (IF t.type = "option" THEN 10 ELSE 8) + SpecSum(gs)
    BY <1>2, <1>10 DEF SetSize, SpecSum
  <1>12. TemplateSize(t) = (IF t.type = "option" THEN 10 ELSE 8) + SpecSum(fs)
    BY DEF TemplateSize, SpecSum, fs
  <1>13. SetSize(s) = TemplateSize(t)
    BY <1>9, <1>11, <1>12
  <1>14. s.kind # "record"
    BY <1>2, <1>10
  <1>15. QED
    BY <1>3, <1>8, <1>10, <1>13, <1>14

LEMMA DataSetIs ==
    ASSUME NEW tid \in Tids, NEW body \in Seq(Nat)
    PROVE  /\ DataSet(tid, body) \in WireSets /\ DataSet(tid, body).kind = "record"
           /\ SetSize(DataSet(tid, body)) = 4 + Len(body)
  <1>1. <<>> \in Seq(Specifiers)
    OBVIOUS
  <1>2. QED
    BY <1>1 DEF DataSet, WireSets, SetSize

(***************************************************************************)
(* The writer of output(), and what its sets are at any time: sets are the *)
(* data sets that are due so far for the message m.                        *)
(***************************************************************************)
Agree(ts, us) ==
    /\ DOMAIN ts = DOMAIN us
    /\ \A tid \in DOMAIN ts : SameTemplate(ts[tid], us[tid])

Current(b, ts) ==
    \A i \in DOMAIN b : b[i].kind # "record" =>
        b[i].id \in DOMAIN ts /\ b[i] = TemplateSet(b[i].id, ts[b[i].id])

Alike(w, m) ==
    /\ w.version = m.version /\ w.network = m.network /\ w.lasttid = m.lasttid
    /\ w.require_output = m.require_output /\ w.data = m.data
    /\ Agree(w.templates, m.templates)

Full(m, sets) ==
    /\ m.offset = SetSum(m.buffer) /\ m.offset <= BufLen
    /\ Current(m.buffer, m.templates)
    /\ OnlyData(m.buffer) = sets
    /\ Ordered(m.buffer) /\ Distinct(m.buffer) /\ AllSent(m.buffer, m.templates)

WriterForm(w) == DOMAIN w = {"m", "status", "planned"}

WriterOK(w, m, sets) ==
    /\ WriterForm(w)
    /\ w.status \in {"ok", "throws", "field index", "null string", "overrun"}
    /\ MessageOK(w.m) /\ Alike(w.m, m)
    /\ w.status = "ok" => Full(w.m, sets)

(* The check before a write: after "ok" what is written fits. *)
LEMMA RoomIs ==
    ASSUME NEW m, m.offset \in Nat, NEW size, NEW written \in Nat
    PROVE  /\ RoomStatus(m, size, written) \in {"ok", "throws", "overrun"}
           /\ RoomStatus(m, size, written) = "ok" => m.offset + written <= BufLen
  <1>1. BufLen \in Nat
    BY IpfixAssumption
  <1>2. QED
    BY <1>1 DEF RoomStatus

(* A template that was sent is the same template. *)
LEMMA SentIs ==
    ASSUME NEW t, TemplateOK(t)
    PROVE  LET u == [t EXCEPT !.sent = TRUE]
           IN  TemplateOK(u) /\ SameTemplate(u, t) /\ \A tid : TemplateSet(tid, u) = TemplateSet(tid, t)
  <1> DEFINE u == [t EXCEPT !.sent = TRUE]
  <1>1. t \in Templates /\ TRUE \in BOOLEAN
    BY DEF TemplateOK
  <1>2. u \in Templates /\ u.type = t.type /\ u.maxfields = t.maxfields
        /\ u.scopefields = t.scopefields /\ u.datafields = t.datafields
    BY <1>1 DEF Templates
  <1> HIDE DEF u
  <1>3. NumFields(u) = NumFields(t) /\ TemplateFields(u) = TemplateFields(t)
    BY <1>2 DEF NumFields, TemplateFields
  <1>4. TemplateOK(u)
    BY <1>2, <1>3 DEF TemplateOK
  <1>5. SameTemplate(u, t)
    BY <1>2 DEF SameTemplate
  <1>6. \A tid : TemplateSet(tid, u) = TemplateSet(tid, t)
    BY <1>2, <1>3 DEF TemplateSet
  <1>7. QED
    BY <1>4, <1>5, <1>6 DEF u

LEMMA UnsentIs ==
    ASSUME NEW t, TemplateOK(t)
    PROVE  LET u == [t EXCEPT !.sent = FALSE]
           IN  TemplateOK(u) /\ SameTemplate(u, t) /\ \A tid : TemplateSet(tid, u) = TemplateSet(tid, t)
  <1> DEFINE u == [t EXCEPT !.sent = FALSE]
  <1>1. t \in Templates /\ FALSE \in BOOLEAN
    BY DEF TemplateOK
  <1>2. u \in Templates /\ u.type = t.type /\ u.maxfields = t.maxfields
        /\ u.scopefields = t.scopefields /\ u.datafields = t.datafields
    BY <1>1 DEF Templates
  <1> HIDE DEF u
  <1>3. NumFields(u) = NumFields(t) /\ TemplateFields(u) = TemplateFields(t)
    BY <1>2 DEF NumFields, TemplateFields
  <1>4. TemplateOK(u)
    BY <1>2, <1>3 DEF TemplateOK
  <1>5. SameTemplate(u, t)
    BY <1>2 DEF SameTemplate
  <1>6. \A tid : TemplateSet(tid, u) = TemplateSet(tid, t)
    BY <1>2, <1>3 DEF TemplateSet
  <1>7. QED
    BY <1>4, <1>5, <1>6 DEF u

(* What writing a template makes of the message. *)
WithSent(ts, tid) ==
    [i \in DOMAIN ts |-> IF i = tid THEN [ts[i] EXCEPT !.sent = TRUE] ELSE ts[i]]

Described(v, w, tid) ==
    LET t == w.m.templates[tid] IN
    /\ WriterForm(v) /\ MessageForm(v.m) /\ v.status = w.status /\ v.planned = w.planned
    /\ v.m.version = w.m.version /\ v.m.network = w.m.network /\ v.m.lasttid = w.m.lasttid
    /\ v.m.data = w.m.data /\ v.m.seqno = w.m.seqno /\ v.m.length = w.m.length
    /\ v.m.require_output = w.m.require_output
    /\ v.m.templates = WithSent(w.m.templates, tid)
    /\ v.m.nrecords = IF w.m.version = "NF9" THEN w.m.nrecords + 1 ELSE w.m.nrecords
    /\ v.m.buffer = <<TemplateSet(tid, t)>> \o w.m.buffer
    /\ v.m.offset = w.m.offset + TemplateSize(t)

Stopped(v, w, status) ==
    /\ WriterForm(v) /\ v.m = w.m /\ v.status = status /\ v.planned = w.planned

LEMMA WriteTemplateIs ==
    ASSUME NEW w, WriterForm(w), MessageForm(w.m), NEW tid \in DOMAIN w.m.templates,
           w.m.templates = [i \in DOMAIN w.m.templates |-> w.m.templates[i]]
    PROVE  LET t == w.m.templates[tid]
               size == TemplateSize(t)
               status == IF GetFieldFaults(t) THEN "field index"
                         ELSE RoomStatus(w.m, size, size)
               v == WriteTemplate(w, tid)
           IN  IF status # "ok" THEN Stopped(v, w, status) ELSE Described(v, w, tid)
  <1> DEFINE t == w.m.templates[tid]
             size == TemplateSize(t)
             status == IF GetFieldFaults(t) THEN "field index" ELSE RoomStatus(w.m, size, size)
             new == <<TemplateSet(tid, t)>> \o w.m.buffer
             n == w.m.offset + size
             c == IF w.m.version = "NF9" THEN w.m.nrecords + 1 ELSE w.m.nrecords
             after == [w EXCEPT !.m.buffer = new, !.m.offset = n,
                                !.m.templates[tid].sent = TRUE, !.m.nrecords = c]
             v == WriteTemplate(w, tid)
  <1>1. v = IF status # "ok" THEN [w EXCEPT !.status = status] ELSE
             [w EXCEPT !.m.buffer = <<TemplateSet(tid, t)>> \o @,
                       !.m.offset = @ + size,
                       !.m.templates[tid].sent = TRUE,
                       !.m.nrecords = IF w.m.version = "NF9" THEN @ + 1 ELSE @]
    BY DEF WriteTemplate
  <1>2. [w EXCEPT !.m.buffer = <<TemplateSet(tid, t)>> \o @,
                  !.m.offset = @ + size,
                  !.m.templates[tid].sent = TRUE,
                  !.m.nrecords = IF w.m.version = "NF9" THEN @ + 1 ELSE @] = after
    BY DEF MessageForm, WriterForm
  <1> HIDE DEF t, size, status, new, n, c, v
  <1>3. [w.m.templates EXCEPT ![tid].sent = TRUE] = WithSent(w.m.templates, tid)
    BY DEF WithSent
  <1>4. /\ WriterForm(after) /\ MessageForm(after.m)
        /\ after.status = w.status /\ after.planned = w.planned
        /\ after.m.version = w.m.version /\ after.m.network = w.m.network
        /\ after.m.lasttid = w.m.lasttid
        /\ after.m.data = w.m.data /\ after.m.seqno = w.m.seqno /\ after.m.length = w.m.length
        /\ after.m.require_output = w.m.require_output
    BY DEF MessageForm, WriterForm
  <1>5. /\ after.m.templates = [w.m.templates EXCEPT ![tid].sent = TRUE]
        /\ after.m.nrecords = c /\ after.m.buffer = new /\ after.m.offset = n
    BY DEF MessageForm, WriterForm
  <1>6. Stopped([w EXCEPT !.status = status], w, status)
    BY DEF WriterForm, Stopped
  <1> HIDE DEF after
  <1>7. Described(after, w, tid)
    BY <1>3, <1>4, <1>5 DEF Described, new, n, c, size, t
  <1>8. IF status # "ok" THEN Stopped(v, w, status) ELSE Described(v, w, tid)
    BY <1>1, <1>2, <1>6, <1>7
  <1>9. QED
    BY <1>8 DEF status, size, t, v

LEMMA WithSentOK ==
    ASSUME NEW ts, NEW last, TemplatesOK(ts, last), NEW tid \in DOMAIN ts
    PROVE  /\ TemplatesOK(WithSent(ts, tid), last) /\ DOMAIN WithSent(ts, tid) = DOMAIN ts
           /\ \A i \in DOMAIN ts : SameTemplate(WithSent(ts, tid)[i], ts[i])
           /\ \A i \in DOMAIN ts : \A x : TemplateSet(x, WithSent(ts, tid)[i]) = TemplateSet(x, ts[i])
  <1> DEFINE us == WithSent(ts, tid)
  <1>1. DOMAIN us = DOMAIN ts /\ us = [i \in DOMAIN us |-> us[i]]
    BY DEF WithSent
  <1>2. \A i \in DOMAIN ts : i # tid => us[i] = ts[i]
    BY DEF WithSent
  <1>3. us[tid] = [ts[tid] EXCEPT !.sent = TRUE]
    BY DEF WithSent
  <1> HIDE DEF us
  <1>4. ASSUME NEW i \in DOMAIN ts
        PROVE  /\ TemplateOK(us[i]) /\ SameTemplate(us[i], ts[i])
               /\ \A x : TemplateSet(x, us[i]) = TemplateSet(x, ts[i])
    <2>1. TemplateOK(ts[i]) /\ TemplateOK(ts[tid])
      BY DEF TemplatesOK
    <2>2. CASE i = tid
      BY <1>3, <2>1, <2>2, SentIs
    <2>3. CASE i # tid
      BY <1>2, <2>1, <2>3 DEF SameTemplate
    <2>4. QED
      BY <2>2, <2>3
  <1>5. TemplatesOK(us, last)
    BY <1>1, <1>4 DEF TemplatesOK
  <1>6. QED
    BY <1>1, <1>4, <1>5 DEF us

LEMMA WithSentIs ==
    ASSUME NEW ts, NEW last, TemplatesOK(ts, last), NEW tid \in DOMAIN ts
    PROVE  /\ DOMAIN WithSent(ts, tid) = DOMAIN ts /\ WithSent(ts, tid)[tid].sent
           /\ \A x \in DOMAIN ts : ts[x].sent => WithSent(ts, tid)[x].sent
  <1>1. \A x \in DOMAIN ts : ts[x] \in Templates
    BY DEF TemplatesOK, TemplateOK
  <1>2. \A t \in Templates : [t EXCEPT !.sent = TRUE].sent
    BY DEF Templates
  <1>3. QED
    BY <1>1, <1>2 DEF WithSent

LEMMA AgreeTransitive ==
    ASSUME NEW ts, NEW us, NEW vs, Agree(ts, us), Agree(us, vs)
    PROVE  Agree(ts, vs)
  <1>1. DOMAIN ts = DOMAIN us /\ DOMAIN us = DOMAIN vs
    BY DEF Agree
  <1>2. ASSUME NEW tid \in DOMAIN ts
        PROVE  SameTemplate(ts[tid], vs[tid])
    <2>1. SameTemplate(ts[tid], us[tid]) /\ SameTemplate(us[tid], vs[tid])
      BY <1>1 DEF Agree
    <2>2. QED
      BY <2>1 DEF SameTemplate
  <1>3. QED
    BY <1>1, <1>2 DEF Agree

(* output() writes a template set: the offset grows by its size. *)
LEMMA WriteTemplateOK ==
    ASSUME NEW w, NEW m, NEW sets, WriterOK(w, m, sets), w.status = "ok",
           NEW tid \in DOMAIN m.templates, ~w.m.templates[tid].sent
    PROVE  WriterOK(WriteTemplate(w, tid), m, sets)
  <1> DEFINE v == WriteTemplate(w, tid)
             ts == w.m.templates
             t == ts[tid]
             size == TemplateSize(t)
             status == IF GetFieldFaults(t) THEN "field index" ELSE RoomStatus(w.m, size, size)
             s == TemplateSet(tid, t)
  <1>1. /\ WriterForm(w) /\ MessageOK(w.m) /\ Alike(w.m, m) /\ Full(w.m, sets)
        /\ MessageForm(w.m)
    BY DEF WriterOK, MessageOK
  <1>2. /\ tid \in DOMAIN ts /\ TemplatesOK(ts, w.m.lasttid) /\ tid \in Tids
        /\ ts = [i \in DOMAIN ts |-> ts[i]] /\ t \in Templates
    BY <1>1 DEF Alike, Agree, MessageOK, TemplatesOK, TemplateOK
  <1>3. IF status # "ok" THEN Stopped(v, w, status) ELSE Described(v, w, tid)
    BY <1>1, <1>2, WriteTemplateIs
  <1>4. /\ s \in WireSets /\ s.kind # "record" /\ s.id = tid /\ SetSize(s) = size
    BY <1>2, TemplateSetIs
  <1>5. size \in Nat
    BY <1>4, SetSizeNat
  <1>6. w.m.offset \in Nat /\ w.m.buffer \in Seq(WireSets)
    BY <1>1 DEF MessageOK
  <1> HIDE DEF size
  <1>7. /\ status \in {"ok", "throws", "field index", "overrun"}
        /\ status = "ok" => w.m.offset + size <= BufLen
    BY <1>5, <1>6, RoomIs
  <1>8. CASE status # "ok"
    <2>1. Stopped(v, w, status)
      BY <1>3, <1>8
    <2> HIDE DEF v, status
    <2>2. v.status # "ok" /\ v.status \in {"ok", "throws", "field index", "null string", "overrun"}
          /\ v.m = w.m /\ WriterForm(v)
      BY <1>7, <1>8, <2>1 DEF Stopped
    <2>3. QED
      BY <1>1, <2>2 DEF WriterOK, v
  <1>9. CASE status = "ok"
    <2>1. Described(v, w, tid)
      BY <1>3, <1>9
    <2>2. v.m.templates = WithSent(ts, tid) /\ v.m.buffer = <<s>> \o w.m.buffer
          /\ v.m.offset = w.m.offset + size /\ v.status = "ok"
      BY <2>1 DEF Described, size
    <2> DEFINE us == WithSent(ts, tid)
    <2>3. /\ TemplatesOK(us, w.m.lasttid) /\ DOMAIN us = DOMAIN ts
          /\ \A i \in DOMAIN ts : SameTemplate(us[i], ts[i])
          /\ \A i \in DOMAIN ts : \A x : TemplateSet(x, us[i]) = TemplateSet(x, ts[i])
      BY <1>2, WithSentOK
    <2>4. Agree(us, ts)
      BY <2>3 DEF Agree
    <2>5. Agree(us, m.templates)
      BY <1>1, <2>4, AgreeTransitive DEF Alike
    <2> HIDE DEF v, s, status, us
    <2>6. v.m.buffer \in Seq(WireSets)
      BY <1>4, <1>6, <2>2
    <2>7. v.m.offset \in Nat /\ v.m.nrecords \in Nat
      BY <1>1, <1>5, <2>1, <2>2 DEF Described, MessageOK
    <2>8. MessageOK(v.m)
      <3>1. Len(v.m.buffer) = Len(w.m.buffer) + 1 /\ Len(w.m.buffer) \in Nat
        BY <1>4, <1>6, <2>2, Prepended
      <3>2. Counted(w.m) /\ w.m.nrecords \in Nat
        BY <1>1 DEF MessageOK
      <3>3. /\ v.m.seqno = w.m.seqno /\ v.m.version = w.m.version
            /\ v.m.nrecords = IF w.m.version = "NF9" THEN w.m.nrecords + 1 ELSE w.m.nrecords
        BY <2>1 DEF Described
      <3>4. Counted(v.m)
        BY <3>1, <3>2, <3>3 DEF Counted
      <3>5. QED
        BY <1>1, <2>1, <2>2, <2>3, <2>6, <2>7, <3>4 DEF Described, MessageOK, us
    <2>9. Alike(v.m, m)
      BY <1>1, <2>1, <2>2, <2>5 DEF Described, Alike, us
    <2>10. SetSum(v.m.buffer) = v.m.offset
      <3>1. SetSum(v.m.buffer) = size + SetSum(w.m.buffer)
        BY <1>4, <1>6, <2>2, SetSumPrepend
      <3>2. SetSum(w.m.buffer) = w.m.offset
        BY <1>1 DEF Full
      <3>3. QED
        BY <1>5, <1>6, <2>2, <3>1, <3>2
    <2>11. v.m.offset <= BufLen
      BY <1>7, <1>9, <2>2
    <2>12. OnlyData(v.m.buffer) = sets
      BY <1>1, <1>4, <1>6, <2>2, OnlyDataPrepend DEF Full
    <2>13. Current(v.m.buffer, us)
      <3> DEFINE b == w.m.buffer
                 a == <<s>> \o b
      <3>1. /\ DOMAIN b = 1 .. Len(b) /\ DOMAIN a = 1 .. Len(b) + 1 /\ Len(b) \in Nat
            /\ a[1] = s /\ \A i \in 1 .. Len(b) : a[i + 1] = b[i]
        BY <1>4, <1>6, Prepended
      <3>2. Current(b, ts)
        BY <1>1 DEF Full
      <3>3. s = TemplateSet(tid, us[tid])
        BY <1>2, <2>3 DEF s
      <3> HIDE DEF a, b
      <3>4. ASSUME NEW i \in DOMAIN a, a[i].kind # "record"
            PROVE  a[i].id \in DOMAIN us /\ a[i] = TemplateSet(a[i].id, us[a[i].id])
        <4>1. CASE i = 1
          BY <1>2, <1>4, <2>3, <3>1, <3>3, <4>1
        <4>2. CASE i # 1
          <5>1. i - 1 \in DOMAIN b /\ (i - 1) + 1 = i
            BY <3>1, <4>2
          <5>2. a[i] = b[i - 1]
            BY <3>1, <5>1
          <5>3. a[i].id \in DOMAIN ts /\ a[i] = TemplateSet(a[i].id, ts[a[i].id])
            BY <3>2, <3>4, <5>1, <5>2 DEF Current
          <5>4. QED
            BY <2>3, <5>3
        <4>3. QED
          BY <4>1, <4>2
      <3>5. QED
        BY <2>2, <3>4 DEF Current, a, b
    <2>14. Full(v.m, sets)
      <3>1. /\ Ordered(w.m.buffer) /\ Distinct(w.m.buffer) /\ AllSent(w.m.buffer, ts)
            /\ \A i \in DOMAIN w.m.buffer : w.m.buffer[i].kind # "record" =>
                   w.m.buffer[i].id \in DOMAIN ts
        BY <1>1 DEF Full, Current
      <3>2. /\ DOMAIN us = DOMAIN ts /\ us[s.id].sent
            /\ \A x \in DOMAIN ts : ts[x].sent => us[x].sent
        BY <1>2, <1>4, WithSentIs DEF us
      <3>3. s.id \in DOMAIN ts /\ ~ts[s.id].sent
        BY <1>2, <1>4
      <3>4. Ordered(v.m.buffer) /\ Distinct(v.m.buffer) /\ AllSent(v.m.buffer, us)
        BY <1>4, <1>6, <2>2, <3>1, <3>2, <3>3, PrependOrdered
      <3>5. QED
        BY <2>2, <2>10, <2>11, <2>12, <2>13, <3>4 DEF Full, us
    <2>15. QED
      BY <2>1, <2>2, <2>8, <2>9, <2>14 DEF WriterOK, Described, v
  <1>10. QED
    BY <1>8, <1>9

(* What writing a record makes of the message. *)
Recorded(v, w, tid, body) ==
    /\ WriterForm(v) /\ MessageForm(v.m) /\ v.status = w.status
    /\ v.m.version = w.m.version /\ v.m.network = w.m.network /\ v.m.lasttid = w.m.lasttid
    /\ v.m.data = w.m.data /\ v.m.length = w.m.length /\ v.m.templates = w.m.templates
    /\ v.m.require_output = w.m.require_output
    /\ v.m.nrecords = w.m.nrecords + 1
    /\ v.m.seqno = IF w.m.version = "IPFIX" THEN w.m.seqno + 1 ELSE w.m.seqno
    /\ v.m.buffer = Append(w.m.buffer, DataSet(tid, body))
    /\ v.m.offset = w.m.offset + 4 + Len(body)

RecordStatus(w, t, r) ==
    IF GetFieldFaults(t) THEN "field index"
    ELSE IF RecordRefused(t, r) THEN "throws"
    ELSE IF EncodingFaults(t, r) THEN "null string"
    ELSE RoomStatus(w.m, w.planned + Len(RecordBody(t, r)), 4 + Len(RecordBody(t, r)))

LEMMA WriteRecordIs ==
    ASSUME NEW w, WriterForm(w), MessageForm(w.m), NEW tid, NEW r
    PROVE  LET t == w.m.templates[tid]
               status == RecordStatus(w, t, r)
               v == WriteRecord(w, tid, r)
           IN  IF status # "ok" THEN Stopped(v, w, status)
               ELSE Recorded(v, w, tid, RecordBody(t, r))
  <1> DEFINE t == w.m.templates[tid]
             body == RecordBody(t, r)
             planned == w.planned + Len(body)
             status == RecordStatus(w, t, r)
             new == Append(w.m.buffer, DataSet(tid, body))
             n == w.m.offset + 4 + Len(body)
             k == w.m.nrecords + 1
             c == IF w.m.version = "IPFIX" THEN w.m.seqno + 1 ELSE w.m.seqno
             after == [w EXCEPT !.planned = planned, !.m.buffer = new, !.m.offset = n,
                                !.m.nrecords = k, !.m.seqno = c]
             v == WriteRecord(w, tid, r)
  <1>1. v = IF status # "ok" THEN [w EXCEPT !.status = status] ELSE
             [w EXCEPT !.planned = planned,
                       !.m.buffer = Append(@, DataSet(tid, body)),
                       !.m.offset = @ + 4 + Len(body),
                       !.m.nrecords = @ + 1,
                       !.m.seqno = IF w.m.version = "IPFIX" THEN @ + 1 ELSE @]
    BY DEF WriteRecord, RecordStatus
  <1> HIDE DEF status, body, planned
  <1>2. [w EXCEPT !.planned = planned,
                       !.m.buffer = Append(@, DataSet(tid, body)),
                       !.m.offset = @ + 4 + Len(body),
                       !.m.nrecords = @ + 1,
                       !.m.seqno = IF w.m.version = "IPFIX" THEN @ + 1 ELSE @] = after
    BY DEF MessageForm, WriterForm
  <1> HIDE DEF t, new, n, c, k, v
  <1>3. /\ WriterForm(after) /\ MessageForm(after.m)
        /\ after.status = w.status
        /\ after.m.version = w.m.version /\ after.m.network = w.m.network
        /\ after.m.lasttid = w.m.lasttid
        /\ after.m.data = w.m.data /\ after.m.length = w.m.length
        /\ after.m.templates = w.m.templates
        /\ after.m.require_output = w.m.require_output
    BY DEF MessageForm, WriterForm
  <1>4. /\ after.m.nrecords = k /\ after.m.seqno = c
        /\ after.m.buffer = new /\ after.m.offset = n
    BY DEF MessageForm, WriterForm
  <1>5. Stopped([w EXCEPT !.status = status], w, status)
    BY DEF WriterForm, Stopped
  <1> HIDE DEF after
  <1>6. Recorded(after, w, tid, body)
    BY <1>3, <1>4 DEF Recorded, new, n, c, k
  <1>7. IF status # "ok" THEN Stopped(v, w, status) ELSE Recorded(v, w, tid, body)
    BY <1>1, <1>2, <1>5, <1>6
  <1>8. QED
    BY <1>7 DEF status, body, t, v

LEMMA SameBody ==
    ASSUME NEW t, NEW u, SameTemplate(t, u), NEW r
    PROVE  RecordBody(t, r) = RecordBody(u, r)
  <1>1. TemplateFields(t) = TemplateFields(u)
    BY DEF TemplateFields, SameTemplate
  <1>2. QED
    BY <1>1 DEF RecordBody

(* output_set(): a data set, with the length prefix it announced. *)
LEMMA WriteRecordOK ==
    ASSUME NEW w, NEW m, NEW sets, WriterOK(w, m, sets), w.status = "ok",
           NEW tid \in DOMAIN m.templates, NEW r \in Records
    PROVE  WriterOK(WriteRecord(w, tid, r), m,
                    Append(sets, DataSet(tid, RecordBody(m.templates[tid], r))))
  <1> DEFINE v == WriteRecord(w, tid, r)
             t == w.m.templates[tid]
             body == RecordBody(t, r)
             status == RecordStatus(w, t, r)
             s == DataSet(tid, body)
             due == Append(sets, DataSet(tid, RecordBody(m.templates[tid], r)))
  <1>1. /\ WriterForm(w) /\ MessageOK(w.m) /\ Alike(w.m, m) /\ Full(w.m, sets)
        /\ MessageForm(w.m)
    BY DEF WriterOK, MessageOK
  <1>2. /\ tid \in DOMAIN w.m.templates /\ tid \in Tids /\ t \in Templates
        /\ SameTemplate(t, m.templates[tid])
    BY <1>1 DEF Alike, Agree, MessageOK, TemplatesOK, TemplateOK
  <1>3. IF status # "ok" THEN Stopped(v, w, status) ELSE Recorded(v, w, tid, body)
    BY <1>1, WriteRecordIs
  <1>4. due = Append(sets, s)
    BY <1>2, SameBody
  <1>5. w.m.offset \in Nat /\ w.m.buffer \in Seq(WireSets)
    BY <1>1 DEF MessageOK
  <1> HIDE DEF t, due
  <1>6. CASE status # "ok"
    <2>1. Stopped(v, w, status)
      BY <1>3, <1>6
    <2>2. status \in {"throws", "field index", "null string", "overrun"}
      <3>1. CASE GetFieldFaults(t) \/ RecordRefused(t, r) \/ EncodingFaults(t, r)
        BY <3>1 DEF RecordStatus
      <3>2. CASE ~(GetFieldFaults(t) \/ RecordRefused(t, r) \/ EncodingFaults(t, r))
        <4>1. status = RoomStatus(w.m, w.planned + Len(body), 4 + Len(body))
          BY <3>2 DEF RecordStatus
        <4>2. body \in Seq(Nat)
          BY <1>2, <3>2, BodyIs
        <4>3. 4 + Len(body) \in Nat
          BY <4>2
        <4>4. QED
          <5> HIDE DEF body
          <5>1. QED
            BY <1>5, <1>6, <4>1, <4>3, RoomIs
      <3>3. QED
        BY <3>1, <3>2
    <2> HIDE DEF v, status
    <2>3. v.status # "ok" /\ v.status \in {"ok", "throws", "field index", "null string", "overrun"}
          /\ v.m = w.m /\ WriterForm(v)
      BY <2>2, <2>1 DEF Stopped
    <2>4. WriterOK(v, m, due)
      BY <1>1, <2>3 DEF WriterOK
    <2>5. QED
      BY <2>4 DEF v, due
  <1>7. CASE status = "ok"
    <2>1. Recorded(v, w, tid, body)
      BY <1>3, <1>7
    <2>2. ~RecordRefused(t, r) /\ RoomStatus(w.m, w.planned + Len(body), 4 + Len(body)) = "ok"
      BY <1>7 DEF RecordStatus
    <2>3. body \in Seq(Nat)
      BY <1>2, <2>2, BodyIs
    <2> HIDE DEF body
    <2>4. Len(body) \in Nat /\ 4 + Len(body) \in Nat
      BY <2>3
    <2>5. w.m.offset + (4 + Len(body)) <= BufLen
      BY <1>5, <2>2, <2>4, RoomIs
    <2>6. s \in WireSets /\ s.kind = "record" /\ SetSize(s) = 4 + Len(body)
      BY <1>2, <2>3, DataSetIs
    <2> HIDE DEF v, s, status
    <2>7. v.m.buffer = Append(w.m.buffer, s) /\ v.m.offset = w.m.offset + (4 + Len(body))
          /\ v.status = "ok"
      <3>1. v.m.buffer = Append(w.m.buffer, s) /\ v.status = "ok"
        BY <2>1 DEF Recorded, s
      <3>2. v.m.offset = w.m.offset + 4 + Len(body)
        BY <2>1 DEF Recorded
      <3>3. w.m.offset + 4 + Len(body) = w.m.offset + (4 + Len(body))
        BY <1>5, <2>4
      <3>4. QED
        BY <3>1, <3>2, <3>3
    <2>8. v.m.buffer \in Seq(WireSets) /\ v.m.offset \in Nat
      <3>1. v.m.buffer \in Seq(WireSets)
        BY <1>5, <2>6, <2>7
      <3>2. v.m.offset \in Nat
        BY <1>5, <2>4, <2>7
      <3>3. QED
        BY <3>1, <3>2
    <2>9. v.m.nrecords \in Nat /\ v.m.seqno \in Nat
      <3>1. w.m.nrecords \in Nat /\ w.m.seqno \in Nat
        BY <1>1 DEF MessageOK
      <3>2. /\ v.m.nrecords = w.m.nrecords + 1
            /\ v.m.seqno = w.m.seqno + 1 \/ v.m.seqno = w.m.seqno
        BY <2>1 DEF Recorded
      <3>3. QED
        BY <3>1, <3>2
    <2>10. MessageOK(v.m)
      <3>1. Len(v.m.buffer) = Len(w.m.buffer) + 1 /\ Len(w.m.buffer) \in Nat
        BY <1>5, <2>6, <2>7, AppendedIs
      <3>2. /\ Counted(w.m) /\ w.m.nrecords \in Nat /\ w.m.seqno \in Nat
            /\ w.m.version \in {"IPFIX", "NF9"}
        BY <1>1 DEF MessageOK
      <3>3. /\ v.m.nrecords = w.m.nrecords + 1 /\ v.m.version = w.m.version
            /\ v.m.seqno = IF w.m.version = "IPFIX" THEN w.m.seqno + 1 ELSE w.m.seqno
        BY <2>1 DEF Recorded
      <3>4. Counted(v.m)
        BY <3>1, <3>2, <3>3 DEF Counted
      <3>5. QED
        BY <1>1, <2>1, <2>8, <2>9, <3>4 DEF Recorded, MessageOK
    <2>11. Alike(v.m, m)
      BY <1>1, <2>1 DEF Recorded, Alike
    <2>12. SetSum(v.m.buffer) = v.m.offset
      <3>1. SetSum(v.m.buffer) = SetSum(w.m.buffer) + (4 + Len(body))
        BY <1>5, <2>6, <2>7, SetSumAppend
      <3>2. SetSum(w.m.buffer) = w.m.offset
        BY <1>1 DEF Full
      <3>3. QED
        BY <2>7, <3>1, <3>2
    <2>13. v.m.offset <= BufLen
      BY <2>5, <2>7
    <2>14. OnlyData(v.m.buffer) = due
      <3>1. OnlyData(w.m.buffer) = sets
        BY <1>1 DEF Full
      <3>2. OnlyData(v.m.buffer) = Append(sets, s)
        BY <1>5, <2>6, <2>7, <3>1, OnlyDataAppend
      <3>3. QED
        BY <1>4, <3>2
    <2>15. Current(v.m.buffer, v.m.templates)
      <3>1. Current(w.m.buffer, w.m.templates) /\ v.m.templates = w.m.templates
        BY <1>1, <2>1 DEF Full, Recorded
      <3> DEFINE b == w.m.buffer
                 a == Append(b, s)
                 k == Len(b)
      <3>2. /\ k \in Nat /\ DOMAIN b = 1 .. k /\ DOMAIN a = 1 .. k + 1
            /\ a[k + 1] = s /\ \A i \in 1 .. k : a[i] = b[i]
        BY <1>5
      <3> HIDE DEF a, b, k
      <3>3. ASSUME NEW i \in DOMAIN a, a[i].kind # "record"
            PROVE  i \in DOMAIN b /\ a[i] = b[i]
        <4>1. i # k + 1
          BY <2>6, <3>2, <3>3
        <4>2. QED
          BY <3>2, <4>1
      <3>4. QED
        BY <2>7, <3>1, <3>3 DEF Current, a, b
    <2>16. Full(v.m, due)
      <3>1. Ordered(w.m.buffer) /\ Distinct(w.m.buffer) /\ AllSent(w.m.buffer, w.m.templates)
        BY <1>1 DEF Full
      <3>2. v.m.templates = w.m.templates
        BY <2>1 DEF Recorded
      <3>3. Ordered(v.m.buffer) /\ Distinct(v.m.buffer) /\ AllSent(v.m.buffer, v.m.templates)
        BY <1>5, <2>6, <2>7, <3>1, <3>2, AppendOrdered
      <3>4. QED
        BY <2>12, <2>13, <2>14, <2>15, <3>3 DEF Full
    <2>17. WriterOK(v, m, due)
      BY <2>1, <2>7, <2>10, <2>11, <2>16 DEF WriterOK, Recorded
    <2>18. QED
      BY <2>17 DEF v, due
  <1>8. QED
    BY <1>6, <1>7

(* One turn of the loop over the records, beside the one over what is due. *)
LEMMA NextRecordOK ==
    ASSUME NEW w, NEW m, NEW sets, WriterOK(w, m, sets),
           NEW tid \in DOMAIN m.templates, NEW r \in Records
    PROVE  WriterOK(FoldStep("writes", tid, 0, w, r), m,
                    FoldStep("oftemplate", m, tid, sets, r))
  <1>1. FoldStep("writes", tid, 0, w, r) = WriteRecordIfOf(w, tid, r)
    BY DEF FoldStep
  <1>2. FoldStep("oftemplate", m, tid, sets, r) =
            IF r.tid = tid
            THEN Append(sets, DataSet(tid, RecordBody(m.templates[tid], r))) ELSE sets
    BY DEF FoldStep
  <1>3. CASE w.status = "ok" /\ r.tid = tid
    <2>1. WriterOK(WriteRecord(w, tid, r), m,
                   Append(sets, DataSet(tid, RecordBody(m.templates[tid], r))))
      BY <1>3, WriteRecordOK
    <2>2. WriteRecordIfOf(w, tid, r) = WriteRecord(w, tid, r)
      BY <1>3 DEF WriteRecordIfOf
    <2>3. QED
      BY <1>1, <1>2, <1>3, <2>1, <2>2
  <1>4. CASE w.status = "ok" /\ r.tid # tid
    BY <1>1, <1>2, <1>4 DEF WriteRecordIfOf
  <1>5. CASE w.status # "ok"
    <2>1. \A x : WriterOK(w, m, x)
      BY <1>5 DEF WriterOK
    <2>2. WriteRecordIfOf(w, tid, r) = w
      BY <1>5 DEF WriteRecordIfOf
    <2>3. QED
      BY <1>1, <2>1, <2>2
  <1>6. QED
    BY <1>3, <1>4, <1>5

(* The size planned for the next set is no part of what is promised. *)
LEMMA PlannedOK ==
    ASSUME NEW w, NEW m, NEW sets, WriterOK(w, m, sets)
    PROVE  WriterOK([w EXCEPT !.planned = 4], m, sets)
  <1> DEFINE v == [w EXCEPT !.planned = 4]
  <1>1. WriterForm(v) /\ v.m = w.m /\ v.status = w.status
    BY DEF WriterOK, WriterForm
  <1> HIDE DEF v
  <1>2. WriterOK(v, m, sets)
    BY <1>1 DEF WriterOK
  <1>3. QED
    BY <1>2 DEF v

(* output_set() of a template's records: the sets due for it were written. *)
LEMMA OutputSetOK ==
    ASSUME NEW w, NEW m, NEW sets, WriterOK(w, m, sets),
           NEW tid \in DOMAIN m.templates
    PROVE  WriterOK(OutputSet(w, tid), m, AddDataSets(m, sets, tid))
  <1> DEFINE w1 == IF w.status = "ok" /\ ~w.m.templates[tid].sent
                   THEN WriteTemplate(w, tid) ELSE w
             w2 == [w1 EXCEPT !.planned = 4]
             n == Len(m.data)
  <1>1. m.data \in Seq(Records) /\ w.m.data = m.data
    BY DEF WriterOK, Alike, MessageOK
  <1>2. n \in Nat /\ DOMAIN m.data = 1 .. n /\ \A i \in 1 .. n : m.data[i] \in Records
    BY <1>1
  <1>3. WriterOK(w1, m, sets)
    BY WriteTemplateOK
  <1>4. OutputSet(w, tid) = WritesFold(tid, w2, m.data)
    BY <1>1 DEF OutputSet, WritesFold
  <1>5. AddDataSets(m, sets, tid) = OfTemplateFold(m, tid, sets, m.data)
    BY DEF AddDataSets, OfTemplateFold
  <1> HIDE DEF w1, n
  <1>6. WriterOK(w2, m, sets)
    BY <1>3, PlannedOK
  <1> HIDE DEF w2
  <1>7. PICK p : Trace(p, "writes", tid, 0, w2, m.data, n) /\ WritesFold(tid, w2, m.data) = p[n]
    BY <1>2, WritesTraced
  <1>8. PICK q : /\ Trace(q, "oftemplate", m, tid, sets, m.data, n)
                 /\ OfTemplateFold(m, tid, sets, m.data) = q[n]
    BY <1>2, OfTemplateTraced
  <1> DEFINE T == {i \in Nat : i <= n => WriterOK(p[i], m, q[i])}
  <1>9. 0 \in T
    BY <1>6, <1>7, <1>8 DEF Trace
  <1>10. ASSUME NEW i \in T PROVE i + 1 \in T
    <2> SUFFICES ASSUME i + 1 <= n PROVE WriterOK(p[i + 1], m, q[i + 1])
      OBVIOUS
    <2>1. i + 1 \in 1 .. n /\ (i + 1) - 1 = i /\ WriterOK(p[i], m, q[i])
      BY <1>2
    <2>2. p[i + 1] = FoldStep("writes", tid, 0, p[i], m.data[i + 1])
      BY <1>7, <2>1 DEF Trace
    <2>3. q[i + 1] = FoldStep("oftemplate", m, tid, q[i], m.data[i + 1])
      BY <1>8, <2>1 DEF Trace
    <2>4. m.data[i + 1] \in Records
      BY <1>2, <2>1
    <2>5. QED
      BY <2>1, <2>2, <2>3, <2>4, NextRecordOK
  <1>11. T \in SUBSET Nat
    OBVIOUS
  <1> HIDE DEF T
  <1>12. T = Nat
    BY <1>9, <1>10, <1>11, Induction
  <1>13. WriterOK(p[n], m, q[n])
    BY <1>2, <1>12 DEF T
  <1>14. QED
    BY <1>4, <1>5, <1>7, <1>8, <1>13

(***************************************************************************)
(* The two loops of output(), beside what is due.                          *)
(***************************************************************************)
LEMMA OrderIs ==
    /\ MaxTemplates \in Nat /\ DOMAIN TidOrder = 1 .. MaxTemplates
  BY IpfixAssumption DEF TidOrder

(* The loop of output() over the templates and over the records of each. *)
LEMMA LoopOK ==
    ASSUME NEW w, NEW m, NEW sets, WriterOK(w, m, sets), NEW k
    PROVE  WriterOK(OutputsFold(m, k, w, TidOrder), m, DueFold(m, k, sets, TidOrder))
  <1> DEFINE n == MaxTemplates
             o == TidOrder
  <1>1. n \in Nat /\ DOMAIN o = 1 .. n
    BY OrderIs
  <1> HIDE DEF n, o
  <1>2. PICK p : Trace(p, "outputs", m, k, w, o, n) /\ OutputsFold(m, k, w, o) = p[n]
    BY <1>1, OutputsTraced
  <1>3. PICK q : Trace(q, "due", m, k, sets, o, n) /\ DueFold(m, k, sets, o) = q[n]
    BY <1>1, DueTraced
  <1> DEFINE T == {i \in Nat : i <= n => WriterOK(p[i], m, q[i])}
  <1>4. 0 \in T
    BY <1>2, <1>3 DEF Trace
  <1>5. ASSUME NEW i \in T PROVE i + 1 \in T
    <2> SUFFICES ASSUME i + 1 <= n PROVE WriterOK(p[i + 1], m, q[i + 1])
      OBVIOUS
    <2>1. i + 1 \in 1 .. n /\ (i + 1) - 1 = i /\ WriterOK(p[i], m, q[i])
      BY <1>1
    <2> DEFINE tid == o[i + 1]
    <2>2. p[i + 1] = IF OfKind(m, k, tid) THEN OutputSet(p[i], tid) ELSE p[i]
      <3>1. p[i + 1] = FoldStep("outputs", m, k, p[i], tid)
        BY <1>2, <2>1 DEF Trace
      <3>2. QED
        BY <3>1 DEF FoldStep
    <2>3. q[i + 1] = IF OfKind(m, k, tid) THEN AddDataSets(m, q[i], tid) ELSE q[i]
      <3>1. q[i + 1] = FoldStep("due", m, k, q[i], tid)
        BY <1>3, <2>1 DEF Trace
      <3>2. QED
        BY <3>1 DEF FoldStep
    <2> HIDE DEF tid
    <2>4. CASE OfKind(m, k, tid)
      <3>1. tid \in DOMAIN m.templates
        BY <2>4 DEF OfKind, HasTemplate
      <3>2. WriterOK(OutputSet(p[i], tid), m, AddDataSets(m, q[i], tid))
        BY <2>1, <3>1, OutputSetOK
      <3>3. QED
        BY <2>2, <2>3, <2>4, <3>2
    <2>5. CASE ~OfKind(m, k, tid)
      BY <2>1, <2>2, <2>3, <2>5
    <2>6. QED
      BY <2>4, <2>5
  <1>6. T \in SUBSET Nat
    OBVIOUS
  <1> HIDE DEF T
  <1>7. T = Nat
    BY <1>4, <1>5, <1>6, Induction
  <1>8. WriterOK(p[n], m, q[n])
    BY <1>1, <1>7 DEF T
  <1>9. QED
    BY <1>2, <1>3, <1>8 DEF n, o

LEMMA CurrentIs ==
    ASSUME NEW m
    PROVE  CurrentDataSets(m) =
               DueFold(m, "data", DueFold(m, "option", <<>>, TidOrder), TidOrder)
  BY DEF CurrentDataSets, InOutputOrder, ForEach, DueFold

(* The data sets that are due depend on the records and the fields only. *)
LEMMA SameDue ==
    ASSUME NEW m, NEW m2, m.data \in Seq(Records), m2.data = m.data,
           Agree(m2.templates, m.templates)
    PROVE  CurrentDataSets(m2) = CurrentDataSets(m)
  <1> DEFINE n == Len(m.data)
  <1>1. n \in Nat /\ DOMAIN m.data = 1 .. n
    OBVIOUS
  <1> HIDE DEF n
  <1>2. ASSUME NEW tid \in DOMAIN m.templates, NEW sets
        PROVE  AddDataSets(m2, sets, tid) = AddDataSets(m, sets, tid)
    <2>1. AddDataSets(m, sets, tid) = OfTemplateFold(m, tid, sets, m.data)
      BY DEF AddDataSets, OfTemplateFold
    <2>2. AddDataSets(m2, sets, tid) = OfTemplateFold(m2, tid, sets, m.data)
      BY DEF AddDataSets, OfTemplateFold
    <2>3. PICK p : /\ Trace(p, "oftemplate", m, tid, sets, m.data, n)
                   /\ OfTemplateFold(m, tid, sets, m.data) = p[n]
      BY <1>1, OfTemplateTraced
    <2>4. PICK q : /\ Trace(q, "oftemplate", m2, tid, sets, m.data, n)
                   /\ OfTemplateFold(m2, tid, sets, m.data) = q[n]
      BY <1>1, OfTemplateTraced
    <2>5. SameTemplate(m2.templates[tid], m.templates[tid])
      BY DEF Agree
    <2>6. \A r : RecordBody(m2.templates[tid], r) = RecordBody(m.templates[tid], r)
      BY <2>5, SameBody
    <2>7. \A i \in 1 .. n : \A acc :
              FoldStep("oftemplate", m2, tid, acc, m.data[i]) =
                  FoldStep("oftemplate", m, tid, acc, m.data[i])
      BY <2>6 DEF FoldStep
    <2>8. q[n] = p[n]
      BY <1>1, <2>3, <2>4, <2>7, TracesAgree
    <2>9. QED
      BY <2>1, <2>2, <2>3, <2>4, <2>8
  <1>3. ASSUME NEW tid, NEW k
        PROVE  OfKind(m2, k, tid) = OfKind(m, k, tid)
    BY DEF OfKind, HasTemplate, Agree, SameTemplate
  <1>4. ASSUME NEW k, NEW sets
        PROVE  DueFold(m2, k, sets, TidOrder) = DueFold(m, k, sets, TidOrder)
    <2> DEFINE l == MaxTemplates
               o == TidOrder
    <2>1. l \in Nat /\ DOMAIN o = 1 .. l
      BY OrderIs
    <2> HIDE DEF l, o
    <2>2. PICK p : Trace(p, "due", m, k, sets, o, l) /\ DueFold(m, k, sets, o) = p[l]
      BY <2>1, DueTraced
    <2>3. PICK q : Trace(q, "due", m2, k, sets, o, l) /\ DueFold(m2, k, sets, o) = q[l]
      BY <2>1, DueTraced
    <2>4. \A i \in 1 .. l : \A acc :
              FoldStep("due", m2, k, acc, o[i]) = FoldStep("due", m, k, acc, o[i])
      <3> SUFFICES ASSUME NEW i \in 1 .. l, NEW acc
                   PROVE  FoldStep("due", m2, k, acc, o[i]) = FoldStep("due", m, k, acc, o[i])
        OBVIOUS
      <3> DEFINE tid == o[i]
      <3>1. FoldStep("due", m2, k, acc, tid) =
                IF OfKind(m2, k, tid) THEN AddDataSets(m2, acc, tid) ELSE acc
        BY DEF FoldStep
      <3>2. FoldStep("due", m, k, acc, tid) =
                IF OfKind(m, k, tid) THEN AddDataSets(m, acc, tid) ELSE acc
        BY DEF FoldStep
      <3> HIDE DEF tid
      <3>3. OfKind(m, k, tid) => tid \in DOMAIN m.templates
        BY DEF OfKind, HasTemplate
      <3>4. OfKind(m, k, tid) => AddDataSets(m2, acc, tid) = AddDataSets(m, acc, tid)
        BY <1>2, <3>3
      <3>5. FoldStep("due", m2, k, acc, tid) = FoldStep("due", m, k, acc, tid)
        BY <1>3, <3>1, <3>2, <3>4
      <3>6. QED
        BY <3>5 DEF tid
    <2>5. q[l] = p[l]
      BY <2>1, <2>2, <2>3, <2>4, TracesAgree
    <2>6. QED
      BY <2>2, <2>3, <2>5 DEF o
  <1>5. QED
    BY <1>4, CurrentIs

LEMMA NothingWritten ==
    SetSum(<<>>) = 0 /\ OnlyData(<<>>) = <<>>
  <1> DEFINE b == <<>>
  <1>1. DOMAIN b = 1 .. 0 /\ 0 \in Nat
    OBVIOUS
  <1> HIDE DEF b
  <1>2. PICK r : Trace(r, "sets", 0, 0, 0, b, 0) /\ SetSum(b) = r[0]
    BY <1>1, SetTrace
  <1>3. PICK q : Trace(q, "datasets", 0, 0, <<>>, b, 0) /\ OnlyData(b) = q[0]
    BY <1>1, DataTrace
  <1>4. SetSum(b) = 0 /\ OnlyData(b) = <<>>
    BY <1>2, <1>3 DEF Trace
  <1>5. QED
    BY <1>4 DEF b

Started(m) ==
    [m |-> [m EXCEPT !.buffer = <<>>, !.offset = 0], status |-> "ok", planned |-> 4]

LEMMA StartedOK ==
    ASSUME NEW m, MessageOK(m)
    PROVE  WriterOK(Started(m), m, <<>>)
  <1> DEFINE v == Started(m)
             u == [m EXCEPT !.buffer = <<>>, !.offset = 0]
  <1>1. WriterForm(v) /\ v.m = u /\ v.status = "ok"
    BY DEF Started, WriterForm
  <1>2. /\ MessageForm(u) /\ u.version = m.version /\ u.network = m.network
        /\ u.lasttid = m.lasttid /\ u.templates = m.templates
        /\ u.require_output = m.require_output /\ u.data = m.data
        /\ u.nrecords = m.nrecords /\ u.seqno = m.seqno /\ u.length = m.length
        /\ u.buffer = <<>> /\ u.offset = 0
    BY DEF MessageOK, MessageForm
  <1> HIDE DEF u, v
  <1>3. <<>> \in Seq(WireSets) /\ DOMAIN <<>> = {} /\ Len(<<>>) = 0
    OBVIOUS
  <1>4. MessageOK(u)
    <2>1. Counted(m) /\ m.nrecords \in Nat
      BY DEF MessageOK
    <2>2. Counted(u)
      BY <1>2, <1>3, <2>1 DEF Counted
    <2>3. QED
      BY <1>2, <1>3, <2>2 DEF MessageOK
  <1>5. Agree(u.templates, m.templates)
    BY <1>2 DEF Agree, SameTemplate
  <1>6. Alike(u, m)
    BY <1>2, <1>5 DEF Alike
  <1>7. Current(u.buffer, u.templates)
    BY <1>2, <1>3 DEF Current
  <1>8. Full(u, <<>>)
    <2>1. Ordered(u.buffer) /\ Distinct(u.buffer) /\ AllSent(u.buffer, u.templates)
      BY <1>2, <1>3 DEF Ordered, Distinct, AllSent
    <2>2. QED
      BY <1>2, <1>7, <2>1, NothingWritten, IpfixAssumption DEF Full
  <1>9. WriterOK(v, m, <<>>)
    BY <1>1, <1>4, <1>6, <1>8 DEF WriterOK
  <1>10. QED
    BY <1>9 DEF v

(* All sets are written, the header is not. *)
SetsWritten(m) ==
    OutputsFold(m, "data", OutputsFold(m, "option", Started(m), TidOrder), TidOrder)

LEMMA SetsWrittenOK ==
    ASSUME NEW m, MessageOK(m)
    PROVE  WriterOK(SetsWritten(m), m, CurrentDataSets(m))
  <1>1. PICK none : none = <<>>
    OBVIOUS
  <1>2. WriterOK(Started(m), m, none)
    BY <1>1, StartedOK
  <1> DEFINE w == OutputsFold(m, "option", Started(m), TidOrder)
             s == DueFold(m, "option", none, TidOrder)
  <1>3. WriterOK(w, m, s)
    BY <1>2, LoopOK
  <1> HIDE DEF w, s
  <1>4. WriterOK(OutputsFold(m, "data", w, TidOrder), m, DueFold(m, "data", s, TidOrder))
    BY <1>3, LoopOK
  <1>5. CurrentDataSets(m) = DueFold(m, "data", s, TidOrder)
    BY <1>1, CurrentIs DEF s
  <1>6. QED
    BY <1>4, <1>5 DEF SetsWritten, w

LEMMA WrittenIs ==
    ASSUME NEW m
    PROVE  Written(m) = WriteHeader(SetsWritten(m))
  BY DEF Written, InOutputOrder, ForEach, SetsWritten, OutputsFold, Started

(***************************************************************************)
(* The header, and a message that may be sent.                             *)
(***************************************************************************)
HeaderOK(m) ==
    /\ m.header.count = m.nrecords /\ m.header.time = Now
    /\ m.header.seqno = IF m.version = "NF9" THEN m.seqno ELSE m.nrecords

Ready(m) ==
    /\ m.offset = HeaderSize(m) + SetSum(m.buffer) /\ m.offset <= BufLen
    /\ m.version = "IPFIX" => m.length = m.offset
    /\ Current(m.buffer, m.templates)
    /\ OnlyData(m.buffer) = CurrentDataSets(m)
    /\ Ordered(m.buffer) /\ Distinct(m.buffer) /\ HeaderOK(m)

(* What the header changes. *)
Headed(u, m) ==
    /\ MessageForm(u) /\ HeaderOK(u)
    /\ u.version = m.version /\ u.network = m.network /\ u.templates = m.templates
    /\ u.lasttid = m.lasttid /\ u.data = m.data /\ u.nrecords = m.nrecords
    /\ u.require_output = m.require_output /\ u.buffer = m.buffer
    /\ u.offset = m.offset + HeaderSize(m)
    /\ u.seqno = IF m.version = "NF9" THEN m.seqno + 1 ELSE m.seqno
    /\ u.length = IF m.version = "NF9" THEN m.length ELSE m.offset + HeaderSize(m)

LEMMA WriteHeaderIs ==
    ASSUME NEW w, WriterForm(w), MessageForm(w.m)
    PROVE  LET v == WriteHeader(w)
               status == RoomStatus(w.m, HeaderSize(w.m), HeaderSize(w.m))
           IN  IF w.status # "ok" THEN v = w
               ELSE IF status # "ok" THEN Stopped(v, w, status)
               ELSE WriterForm(v) /\ v.status = "ok" /\ Headed(v.m, w.m)
  <1> DEFINE size == HeaderSize(w.m)
             status == RoomStatus(w.m, size, size)
             n == w.m.seqno + 1
             l == w.m.offset + size
             a == [w.m EXCEPT !.seqno = n]
             b == [w.m EXCEPT !.length = l]
             m == IF w.m.version = "NF9" THEN [w.m EXCEPT !.seqno = @ + 1]
                  ELSE [w.m EXCEPT !.length = w.m.offset + size]
             h == [count |-> m.nrecords, network |-> m.network, time |-> Now,
                   seqno |-> IF m.version = "NF9" THEN m.seqno ELSE m.nrecords]
             u == [m EXCEPT !.offset = @ + size, !.header = h]
             v == WriteHeader(w)
  <1>1. CASE w.status # "ok"
    BY <1>1 DEF WriteHeader
  <1>2. CASE w.status = "ok" /\ status # "ok"
    <2>1. v = [w EXCEPT !.status = status]
      BY <1>2 DEF WriteHeader
    <2> HIDE DEF status, v
    <2>2. Stopped(v, w, status)
      BY <2>1 DEF Stopped, WriterForm
    <2>3. QED
      BY <1>2, <2>2 DEF status, v
  <1>3. CASE w.status = "ok" /\ status = "ok"
    <2>1. v = [w EXCEPT !.m = u]
      BY <1>3 DEF WriteHeader
    <2>2. m = IF w.m.version = "NF9" THEN a ELSE b
      BY DEF MessageForm
    <2> HIDE DEF size, status, v, h, n, l
    <2>3. /\ MessageForm(a) /\ a.version = w.m.version /\ a.network = w.m.network
          /\ a.templates = w.m.templates /\ a.lasttid = w.m.lasttid /\ a.data = w.m.data
          /\ a.nrecords = w.m.nrecords /\ a.require_output = w.m.require_output
          /\ a.buffer = w.m.buffer /\ a.offset = w.m.offset /\ a.seqno = n
          /\ a.length = w.m.length
      BY DEF MessageForm
    <2>4. /\ MessageForm(b) /\ b.version = w.m.version /\ b.network = w.m.network
          /\ b.templates = w.m.templates /\ b.lasttid = w.m.lasttid /\ b.data = w.m.data
          /\ b.nrecords = w.m.nrecords /\ b.require_output = w.m.require_output
          /\ b.buffer = w.m.buffer /\ b.offset = w.m.offset /\ b.seqno = w.m.seqno
          /\ b.length = l
      BY DEF MessageForm
    <2> HIDE DEF a, b, m
    <2>5. /\ MessageForm(m) /\ m.version = w.m.version /\ m.network = w.m.network
          /\ m.templates = w.m.templates /\ m.lasttid = w.m.lasttid /\ m.data = w.m.data
          /\ m.nrecords = w.m.nrecords /\ m.require_output = w.m.require_output
          /\ m.buffer = w.m.buffer /\ m.offset = w.m.offset
      BY <2>2, <2>3, <2>4
    <2>6. /\ m.seqno = IF w.m.version = "NF9" THEN n ELSE w.m.seqno
          /\ m.length = IF w.m.version = "NF9" THEN w.m.length ELSE l
      BY <2>2, <2>3, <2>4
    <2>7. /\ MessageForm(u) /\ u.version = m.version /\ u.network = m.network
          /\ u.templates = m.templates /\ u.lasttid = m.lasttid /\ u.data = m.data
          /\ u.nrecords = m.nrecords /\ u.require_output = m.require_output
          /\ u.buffer = m.buffer /\ u.offset = m.offset + size /\ u.seqno = m.seqno
          /\ u.length = m.length /\ u.header = h
      BY <2>5 DEF MessageForm
    <2> HIDE DEF u
    <2>8. Headed(u, w.m)
      <3>1. h.count = m.nrecords /\ h.time = Now
            /\ h.seqno = IF m.version = "NF9" THEN m.seqno ELSE m.nrecords
        BY DEF h
      <3>2. HeaderOK(u)
        BY <2>7, <3>1 DEF HeaderOK
      <3>3. QED
        BY <2>5, <2>6, <2>7, <3>2 DEF Headed, size, n, l
    <2>9. WriterForm(v) /\ v.status = "ok" /\ v.m = u
      BY <1>3, <2>1 DEF WriterForm
    <2>10. QED
      BY <1>3, <2>8, <2>9 DEF v, size, status
  <1>4. QED
    BY <1>1, <1>2, <1>3

LEMMA SameSize ==
    ASSUME NEW m, NEW u, u.version = m.version
    PROVE  HeaderSize(u) = HeaderSize(m) /\ HeaderSize(m) \in Nat
  BY DEF HeaderSize

(* The header in front: the length is that of the whole message. *)
LEMMA WriteHeaderOK ==
    ASSUME NEW w, NEW m, NEW sets, WriterOK(w, m, sets)
    PROVE  LET v == WriteHeader(w)
           IN  /\ v.status \in {"ok", "throws", "field index", "null string", "overrun"}
               /\ MessageOK(v.m) /\ Alike(v.m, m)
               /\ v.status = "ok" =>
                    /\ v.m.offset = HeaderSize(v.m) + SetSum(v.m.buffer)
                    /\ v.m.offset <= BufLen
                    /\ v.m.version = "IPFIX" => v.m.length = v.m.offset
                    /\ Current(v.m.buffer, v.m.templates) /\ OnlyData(v.m.buffer) = sets
                    /\ Ordered(v.m.buffer) /\ Distinct(v.m.buffer) /\ HeaderOK(v.m)
  <1> DEFINE v == WriteHeader(w)
             size == HeaderSize(w.m)
             status == RoomStatus(w.m, size, size)
  <1>1. WriterForm(w) /\ MessageOK(w.m) /\ MessageForm(w.m) /\ Alike(w.m, m)
    BY DEF WriterOK, MessageOK
  <1>2. IF w.status # "ok" THEN v = w
        ELSE IF status # "ok" THEN Stopped(v, w, status)
        ELSE WriterForm(v) /\ v.status = "ok" /\ Headed(v.m, w.m)
    BY <1>1, WriteHeaderIs
  <1> HIDE DEF v
  <1>3. w.m.offset \in Nat /\ size \in Nat
    BY <1>1, SameSize DEF MessageOK
  <1> HIDE DEF size
  <1>4. status \in {"ok", "throws", "overrun"} /\ (status = "ok" => w.m.offset + size <= BufLen)
    BY <1>3, RoomIs
  <1>5. CASE w.status # "ok"
    <2>1. v = w
      BY <1>2, <1>5
    <2>2. QED
      BY <1>1, <1>5, <2>1 DEF WriterOK, v
  <1>6. CASE w.status = "ok" /\ status # "ok"
    <2>1. Stopped(v, w, status)
      BY <1>2, <1>6
    <2> HIDE DEF status
    <2>2. v.m = w.m /\ v.status \in {"throws", "overrun"}
      BY <1>4, <1>6, <2>1 DEF Stopped
    <2>3. QED
      BY <1>1, <2>2 DEF v
  <1>7. CASE w.status = "ok" /\ status = "ok"
    <2>1. v.status = "ok" /\ Headed(v.m, w.m)
      BY <1>2, <1>7
    <2>2. w.m.offset + size <= BufLen
      BY <1>4, <1>7
    <2> HIDE DEF status
    <2>3. Full(w.m, sets)
      BY <1>7 DEF WriterOK
    <2>4. HeaderSize(v.m) = size /\ v.m.offset = w.m.offset + size /\ v.m.offset \in Nat
      BY <1>3, <2>1, SameSize DEF Headed, size
    <2>5. v.m.version = w.m.version /\ v.m.version \in {"IPFIX", "NF9"}
      BY <1>1, <2>1 DEF Headed, MessageOK
    <2>6. v.m.version = "IPFIX" => v.m.length = v.m.offset
      BY <2>1, <2>4, <2>5 DEF Headed
    <2>7. v.m.seqno \in Nat /\ v.m.length \in Nat
      <3>1. w.m.seqno \in Nat /\ w.m.length \in Nat
        BY <1>1 DEF MessageOK
      <3>2. /\ v.m.seqno = w.m.seqno + 1 \/ v.m.seqno = w.m.seqno
            /\ v.m.length = w.m.length \/ v.m.length = w.m.offset + size
        BY <2>1 DEF Headed, size
      <3>3. w.m.offset + size \in Nat
        BY <1>3
      <3>4. QED
        BY <3>1, <3>2, <3>3
    <2>8. MessageOK(v.m)
      <3>1. Counted(w.m) /\ w.m.version \in {"IPFIX", "NF9"}
        BY <1>1 DEF MessageOK
      <3>2. /\ v.m.version = w.m.version /\ v.m.buffer = w.m.buffer
            /\ v.m.nrecords = w.m.nrecords
            /\ v.m.seqno = IF w.m.version = "NF9" THEN w.m.seqno + 1 ELSE w.m.seqno
        BY <2>1 DEF Headed
      <3>3. Counted(v.m)
        BY <3>1, <3>2 DEF Counted
      <3>4. QED
        BY <1>1, <2>1, <2>4, <2>7, <3>3 DEF Headed, MessageOK
    <2>9. Alike(v.m, m)
      BY <1>1, <2>1 DEF Headed, Alike
    <2>10. v.m.buffer = w.m.buffer /\ v.m.templates = w.m.templates
      BY <2>1 DEF Headed
    <2>11. /\ w.m.offset = SetSum(w.m.buffer) /\ Current(w.m.buffer, w.m.templates)
           /\ OnlyData(w.m.buffer) = sets /\ Ordered(w.m.buffer) /\ Distinct(w.m.buffer)
      BY <2>3 DEF Full
    <2>12. v.m.offset = HeaderSize(v.m) + SetSum(v.m.buffer)
      <3>1. w.m.offset + size = size + w.m.offset
        BY <1>3
      <3>2. QED
        BY <2>4, <2>10, <2>11, <3>1
    <2>13. v.m.offset <= BufLen
      BY <2>2, <2>4
    <2>14. HeaderOK(v.m)
      BY <2>1 DEF Headed
    <2>15. QED
      BY <2>1, <2>6, <2>8, <2>9, <2>10, <2>11, <2>12, <2>13, <2>14 DEF v
  <1>8. QED
    BY <1>5, <1>6, <1>7

(* output() either fails or leaves a buffer that is ready to be sent. *)
LEMMA WrittenOK ==
    ASSUME NEW m, MessageOK(m)
    PROVE  LET w == Written(m)
           IN  /\ w.status \in {"ok", "throws", "field index", "null string", "overrun"}
               /\ MessageOK(w.m) /\ w.m.require_output = m.require_output
               /\ w.status = "ok" => Ready(w.m)
  <1> DEFINE w == Written(m)
             sets == CurrentDataSets(m)
  <1>1. WriterOK(SetsWritten(m), m, sets)
    BY SetsWrittenOK
  <1>2. w = WriteHeader(SetsWritten(m))
    BY WrittenIs
  <1> HIDE DEF w, sets
  <1>3. /\ w.status \in {"ok", "throws", "field index", "null string", "overrun"}
        /\ MessageOK(w.m) /\ Alike(w.m, m)
        /\ w.status = "ok" =>
             /\ w.m.offset = HeaderSize(w.m) + SetSum(w.m.buffer)
             /\ w.m.offset <= BufLen
             /\ w.m.version = "IPFIX" => w.m.length = w.m.offset
             /\ Current(w.m.buffer, w.m.templates) /\ OnlyData(w.m.buffer) = sets
             /\ Ordered(w.m.buffer) /\ Distinct(w.m.buffer) /\ HeaderOK(w.m)
    BY <1>1, <1>2, WriteHeaderOK
  <1>4. w.m.require_output = m.require_output
    BY <1>3 DEF Alike
  <1>5. CurrentDataSets(w.m) = sets
    <2>1. m.data \in Seq(Records) /\ w.m.data = m.data /\ Agree(w.m.templates, m.templates)
      BY <1>3 DEF Alike, MessageOK
    <2>2. QED
      BY <2>1, SameDue DEF sets
  <1>6. w.status = "ok" => Ready(w.m)
    BY <1>3, <1>5 DEF Ready
  <1>7. QED
    BY <1>3, <1>4, <1>6 DEF w

(***************************************************************************)
(* The peer's reading: it ends in a known way, and what it takes for read  *)
(* is never more than what was written.                                    *)
(***************************************************************************)
PeerFields == [ft : FieldTypes \cup {UnknownField}, flength : Lengths, relay : BOOLEAN]

PeerForm(p) ==
    DOMAIN p = {"status", "version", "templates", "lasttid", "data", "count", "seqno",
                "time", "length", "nread", "sets", "table"}

PeerTemplatesOK(ts) ==
    \A tid \in DOMAIN ts : /\ ts[tid].scopefields \in Seq(PeerFields)
                           /\ ts[tid].datafields \in Seq(PeerFields)

PeerOK(p) ==
    /\ PeerForm(p)
    /\ p.status \in {"ok", "throws", "fault", "misread"}
    /\ PeerTemplatesOK(p.templates)

DecodingOK(d) ==
    /\ DOMAIN d = {"status", "pos", "left", "vals"}
    /\ d.status \in {"ok", "throws", "misread"}

(* A field is decoded, or the status says why it was not. *)
LEMMA DecodeFieldOK ==
    ASSUME NEW d, DecodingOK(d), NEW f, NEW body
    PROVE  DecodingOK(DecodeField(d, f, body))
  <1> DEFINE l == FieldLength(f, body, d.pos)
             from == d.pos + l.bytes
             bytes == SubSeq(body, from + 1, from + l.len)
             pos == from + l.len
             left == d.left - l.len
             vals == WithValue(d.vals, f.ft, Decode(f.ft, bytes, TRUE))
             after == [d EXCEPT !.pos = pos, !.left = left, !.vals = vals]
             v == DecodeField(d, f, body)
  <1>1. DecodingOK([d EXCEPT !.status = "throws"]) /\ DecodingOK([d EXCEPT !.status = "misread"])
    BY DEF DecodingOK
  <1>2. DecodingOK(after)
    <2> HIDE DEF pos, left, vals
    <2>1. QED
      BY DEF DecodingOK
  <1>3. [d EXCEPT !.pos = from + l.len, !.left = @ - l.len,
                  !.vals = WithValue(@, f.ft, Decode(f.ft, bytes, TRUE))] = after
    <2> HIDE DEF l, bytes
    <2>1. QED
      BY DEF DecodingOK
  <1>4. \/ v = d \/ v = [d EXCEPT !.status = "throws"] \/ v = [d EXCEPT !.status = "misread"]
        \/ v = [d EXCEPT !.pos = from + l.len, !.left = @ - l.len,
                         !.vals = WithValue(@, f.ft, Decode(f.ft, bytes, TRUE))]
    BY DEF DecodeField
  <1> HIDE DEF after, v, l
  <1>5. DecodingOK(v)
    BY <1>1, <1>2, <1>3, <1>4
  <1>6. QED
    BY <1>5 DEF v

(* So is a record, field by field, *)
LEMMA DecodeRecordOK ==
    ASSUME NEW p, PeerOK(p), NEW tid \in DOMAIN p.templates, NEW body, NEW pos
    PROVE  DecodingOK(DecodeRecord(p, tid, body, pos))
  <1> DEFINE t == p.templates[tid]
             fs == TemplateFields(t)
             base == [status |-> "ok", pos |-> pos, left |-> Len(body) - pos, vals |-> <<>>]
             n == Len(fs)
  <1>1. fs \in Seq(PeerFields)
    BY DEF PeerOK, PeerTemplatesOK, TemplateFields
  <1>2. n \in Nat /\ DOMAIN fs = 1 .. n
    BY <1>1
  <1>3. DecodeRecord(p, tid, body, pos) = FieldsFold(body, base, fs)
    BY DEF DecodeRecord, FieldsFold
  <1>4. DecodingOK(base)
    BY DEF DecodingOK
  <1> HIDE DEF t, fs, base, n
  <1>5. PICK r : Trace(r, "fields", body, 0, base, fs, n) /\ FieldsFold(body, base, fs) = r[n]
    BY <1>2, FieldsTraced
  <1> DEFINE T == {i \in Nat : i <= n => DecodingOK(r[i])}
  <1>6. 0 \in T
    BY <1>4, <1>5 DEF Trace
  <1>7. ASSUME NEW i \in T PROVE i + 1 \in T
    <2> SUFFICES ASSUME i + 1 <= n PROVE DecodingOK(r[i + 1])
      OBVIOUS
    <2>1. i + 1 \in 1 .. n /\ (i + 1) - 1 = i /\ DecodingOK(r[i])
      BY <1>2
    <2>2. r[i + 1] = FoldStep("fields", body, 0, r[i], fs[i + 1])
      BY <1>5, <2>1 DEF Trace
    <2>3. r[i + 1] = DecodeField(r[i], fs[i + 1], body)
      BY <2>2 DEF FoldStep
    <2>4. QED
      BY <2>1, <2>3, DecodeFieldOK
  <1>8. T \in SUBSET Nat
    OBVIOUS
  <1> HIDE DEF T
  <1>9. T = Nat
    BY <1>6, <1>7, <1>8, Induction
  <1>10. QED
    BY <1>2, <1>3, <1>5, <1>9 DEF T

ReadingOK(q, p) ==
    /\ DOMAIN q = {"pos", "p"} /\ PeerOK(q.p)
    /\ q.p.templates = p.templates /\ q.p.nread = p.nread /\ q.p.table = p.table

LEMMA ReadRecordOK ==
    ASSUME NEW q, NEW p, ReadingOK(q, p), NEW s, s.id \in DOMAIN p.templates
    PROVE  ReadingOK(ReadRecordIfLeft(q, s), p)
  <1> DEFINE d == DecodeRecord(q.p, s.id, s.body, q.pos)
             data == IF d.status = "ok"
                     THEN Append(q.p.data, [tid |-> s.id, vals |-> d.vals]) ELSE q.p.data
             u == [q.p EXCEPT !.status = d.status, !.data = data]
             v == ReadRecord(q, s)
  <1>1. PeerOK(q.p) /\ s.id \in DOMAIN q.p.templates
    BY DEF ReadingOK
  <1>2. DecodingOK(d)
    BY <1>1, DecodeRecordOK
  <1>3. v = [pos |-> d.pos,
             p |-> [q.p EXCEPT !.status = d.status,
                               !.data = IF d.status = "ok"
                                        THEN Append(@, [tid |-> s.id, vals |-> d.vals])
                                        ELSE @]]
    BY DEF ReadRecord
  <1> HIDE DEF d, v
  <1>4. [q.p EXCEPT !.status = d.status,
                    !.data = IF d.status = "ok"
                             THEN Append(@, [tid |-> s.id, vals |-> d.vals]) ELSE @] = u
    BY <1>1 DEF PeerOK, PeerForm
  <1>5. DOMAIN v = {"pos", "p"} /\ v.p = u
    <2> HIDE DEF u
    <2>1. QED
      BY <1>3, <1>4
  <1> HIDE DEF data
  <1>6. /\ PeerForm(u) /\ u.status = d.status /\ u.templates = q.p.templates
        /\ u.nread = q.p.nread /\ u.table = q.p.table
    BY <1>1 DEF PeerOK, PeerForm
  <1> HIDE DEF u
  <1>7. PeerOK(u)
    BY <1>1, <1>2, <1>6 DEF PeerOK, DecodingOK
  <1>8. ReadingOK(v, p)
    BY <1>5, <1>6, <1>7 DEF ReadingOK
  <1>9. ReadRecordIfLeft(q, s) = q \/ ReadRecordIfLeft(q, s) = v
    BY DEF ReadRecordIfLeft, v
  <1>10. QED
    BY <1>8, <1>9

(* and a set, record by record. *)
LEMMA ReadRecordsOK ==
    ASSUME NEW p, PeerOK(p), NEW s \in WireSets
    PROVE  /\ PeerOK(ReadRecords(p, s)) /\ ReadRecords(p, s).nread = p.nread
           /\ ReadRecords(p, s).table = p.table
  <1>1. CASE ~HasTemplate(p, s.id)
    <2>1. ReadRecords(p, s) = [p EXCEPT !.status = "throws"]
      BY <1>1 DEF ReadRecords
    <2>2. QED
      BY <2>1 DEF PeerOK, PeerForm
  <1>2. CASE HasTemplate(p, s.id)
    <2> DEFINE base == [pos |-> 0, p |-> p]
               n == Len(s.body)
    <2>1. n \in Nat /\ DOMAIN s.body = 1 .. n
      BY DEF WireSets
    <2>2. s.id \in DOMAIN p.templates
      BY <1>2 DEF HasTemplate
    <2>3. ReadRecords(p, s) = RecordsFold(s, base, s.body).p
      BY <1>2 DEF ReadRecords, RecordsFold
    <2>4. ReadingOK(base, p)
      BY DEF ReadingOK
    <2> HIDE DEF base, n
    <2>5. PICK r : /\ Trace(r, "records", s, 0, base, s.body, n)
                   /\ RecordsFold(s, base, s.body) = r[n]
      BY <2>1, RecordsTraced
    <2> DEFINE T == {i \in Nat : i <= n => ReadingOK(r[i], p)}
    <2>6. 0 \in T
      BY <2>4, <2>5 DEF Trace
    <2>7. ASSUME NEW i \in T PROVE i + 1 \in T
      <3> SUFFICES ASSUME i + 1 <= n PROVE ReadingOK(r[i + 1], p)
        OBVIOUS
      <3>1. i + 1 \in 1 .. n /\ (i + 1) - 1 = i /\ ReadingOK(r[i], p)
        BY <2>1
      <3>2. r[i + 1] = FoldStep("records", s, 0, r[i], s.body[i + 1])
        BY <2>5, <3>1 DEF Trace
      <3>3. r[i + 1] = ReadRecordIfLeft(r[i], s)
        BY <3>2 DEF FoldStep
      <3>4. QED
        BY <2>2, <3>1, <3>3, ReadRecordOK
    <2>8. T \in SUBSET Nat
      OBVIOUS
    <2> HIDE DEF T
    <2>9. T = Nat
      BY <2>6, <2>7, <2>8, Induction
    <2>10. ReadingOK(r[n], p)
      BY <2>1, <2>9 DEF T
    <2>11. QED
      BY <2>3, <2>5, <2>10 DEF ReadingOK
  <1>3. QED
    BY <1>1, <1>2

LEMMA PartsOf ==
    ASSUME NEW S, NEW fs \in Seq(S), NEW k \in Nat, k <= Len(fs)
    PROVE  SubSeq(fs, 1, k) \in Seq(S) /\ SubSeq(fs, k + 1, Len(fs)) \in Seq(S)
  <1>1. Len(fs) \in Nat /\ \A i \in 1 .. Len(fs) : fs[i] \in S
    OBVIOUS
  <1>2. SubSeq(fs, 1, k) \in Seq(S)
    <2> DEFINE a == SubSeq(fs, 1, k)
    <2>1. a = [i \in 1 .. k |-> fs[i]]
      BY <1>1
    <2>2. \A i \in 1 .. k : fs[i] \in S
      BY <1>1
    <2> HIDE DEF a
    <2>3. QED
      BY <2>1, <2>2 DEF a
  <1>3. SubSeq(fs, k + 1, Len(fs)) \in Seq(S)
    <2> DEFINE n == Len(fs) - k
               a == SubSeq(fs, k + 1, Len(fs))
    <2>1. n \in Nat
      BY <1>1
    <2>2. a = [i \in 1 .. n |-> fs[i + k]]
      BY <1>1
    <2>3. \A i \in 1 .. n : fs[i + k] \in S
      BY <1>1
    <2> HIDE DEF a, n
    <2>4. QED
      BY <2>1, <2>2, <2>3 DEF a
  <1>4. QED
    BY <1>2, <1>3

LEMMA ReadFieldIs ==
    ASSUME NEW table, NEW f \in Specifiers
    PROVE  ReadField(table, f) \in PeerFields
  <1>1. f.ft \in FieldTypes /\ f.flength \in Lengths
    BY DEF Specifiers
  <1>2. TRUE \in BOOLEAN
    OBVIOUS
  <1>3. ReadField(table, f) = TemplateField(f.ft, f.flength, TRUE)
        \/ ReadField(table, f) = TemplateField(UnknownField, f.flength, TRUE)
    BY DEF ReadField
  <1>4. QED
    <2> DEFINE u == UnknownField
    <2> HIDE DEF u
    <2>1. ReadField(table, f) = TemplateField(f.ft, f.flength, TRUE)
          \/ ReadField(table, f) = TemplateField(u, f.flength, TRUE)
      BY <1>3 DEF u
    <2>2. u \in FieldTypes \cup {u}
      OBVIOUS
    <2>3. ReadField(table, f) \in [ft : FieldTypes \cup {u}, flength : Lengths, relay : BOOLEAN]
      <3> DEFINE S == FieldTypes \cup {u}
      <3>1. f.ft \in S /\ u \in S
        BY <1>1, <2>2
      <3> HIDE DEF S
      <3>2. \A x \in S : TemplateField(x, f.flength, TRUE) \in
                              [ft : S, flength : Lengths, relay : BOOLEAN]
        BY <1>1, <1>2 DEF TemplateField
      <3>3. ReadField(table, f) \in [ft : S, flength : Lengths, relay : BOOLEAN]
        BY <2>1, <3>1, <3>2
      <3>4. QED
        BY <3>3 DEF S
    <2>4. QED
      BY <2>3 DEF PeerFields, u

LEMMA ReadTemplateOK ==
    ASSUME NEW p, PeerOK(p), NEW s \in WireSets, s.nscope <= Len(s.fields)
    PROVE  /\ PeerOK(ReadTemplate(p, s)) /\ ReadTemplate(p, s).nread = p.nread
           /\ ReadTemplate(p, s).table = p.table
  <1> DEFINE tid == p.lasttid + 1
             n == Len(s.fields)
             k == s.nscope
             fields == [i \in 1 .. n |-> ReadField(p.table, s.fields[i])]
             scope == SubSeq(fields, 1, s.nscope)
             data == SubSeq(fields, s.nscope + 1, Len(fields))
             t == [NewTemplate(s.kind, Len(fields)) EXCEPT
                      !.scopefields = scope, !.datafields = data]
             ts == WithTemplate(WithoutTemplate(p, s.id), tid, t)
             after == [p EXCEPT !.lasttid = tid, !.templates = ts]
             v == ReadTemplate(p, s)
  <1>1. n \in Nat /\ k \in Nat /\ k <= n /\ \A i \in 1 .. n : s.fields[i] \in Specifiers
    BY DEF WireSets
  <1>2. fields \in Seq(PeerFields) /\ Len(fields) = n
    <2>1. \A i \in 1 .. n : ReadField(p.table, s.fields[i]) \in PeerFields
      BY <1>1, ReadFieldIs
    <2> HIDE DEF n
    <2>2. QED
      BY <1>1, <2>1
  <1>3. \/ v = p \/ v = [p EXCEPT !.status = "throws"] \/ v = [p EXCEPT !.status = "fault"]
        \/ v = after
    BY DEF ReadTemplate
  <1> HIDE DEF fields
  <1>4. scope \in Seq(PeerFields) /\ data \in Seq(PeerFields)
    BY <1>1, <1>2, PartsOf
  <1> HIDE DEF scope, data, v
  <1>5. t.scopefields = scope /\ t.datafields = data
    BY DEF NewTemplate
  <1> HIDE DEF t
  <1>6. \A i \in DOMAIN ts : \/ i \in DOMAIN p.templates /\ ts[i] = p.templates[i]
                            \/ ts[i] = t
    BY DEF WithTemplate, WithoutTemplate
  <1> HIDE DEF ts
  <1>7. PeerTemplatesOK(p.templates)
    BY DEF PeerOK
  <1>8. PeerTemplatesOK(ts)
    BY <1>4, <1>5, <1>6, <1>7 DEF PeerTemplatesOK
  <1> HIDE DEF tid
  <1>9. PeerOK(after) /\ after.nread = p.nread /\ after.table = p.table
    <2>1. /\ PeerForm(after) /\ after.status = p.status /\ after.templates = ts
          /\ after.nread = p.nread /\ after.table = p.table
      BY DEF PeerOK, PeerForm
    <2> HIDE DEF after
    <2>2. QED
      BY <1>8, <2>1 DEF PeerOK
  <1> HIDE DEF after
  <1>10. /\ PeerOK([p EXCEPT !.status = "throws"]) /\ [p EXCEPT !.status = "throws"].nread = p.nread
         /\ PeerOK([p EXCEPT !.status = "fault"]) /\ [p EXCEPT !.status = "fault"].nread = p.nread
         /\ [p EXCEPT !.status = "throws"].table = p.table
         /\ [p EXCEPT !.status = "fault"].table = p.table
    BY DEF PeerOK, PeerForm
  <1>11. PeerOK(v) /\ v.nread = p.nread /\ v.table = p.table
    BY <1>3, <1>9, <1>10
  <1>12. QED
    BY <1>11 DEF v

(* A set is read, or the reader stops: it has read as many bytes as sets it took. *)
LEMMA ReadSetOK ==
    ASSUME NEW p, PeerOK(p), p.nread \in Nat, NEW s \in WireSets, NEW total,
           s.kind # "record" => s.nscope <= Len(s.fields)
    PROVE  LET q == ReadSet(p, s, total)
           IN  /\ PeerOK(q) /\ (q.nread = p.nread \/ q.nread = p.nread + SetSize(s))
               /\ q.table = p.table
  <1> DEFINE u == IF s.kind = "record" THEN ReadRecords(p, s) ELSE ReadTemplate(p, s)
             q == ReadSet(p, s, total)
             k == SetSize(s)
  <1>1. PeerOK(u) /\ u.nread = p.nread /\ u.table = p.table
    BY ReadRecordsOK, ReadTemplateOK
  <1>2. q = p \/ q = [u EXCEPT !.nread = @ + SetSize(s), !.sets = @ + 1]
    BY DEF ReadSet
  <1> HIDE DEF u, q, k
  <1>3. q = p \/ q = [u EXCEPT !.nread = u.nread + k, !.sets = u.sets + 1]
    BY <1>1, <1>2 DEF PeerOK, PeerForm, k
  <1>4. q = p \/ (PeerOK(q) /\ q.nread = u.nread + k /\ q.table = u.table)
    BY <1>1, <1>3 DEF PeerOK, PeerForm
  <1>5. QED
    BY <1>1, <1>4 DEF q, k

LEMMA TemplateSetParts ==
    ASSUME NEW tid, NEW t \in Templates
    PROVE  TemplateSet(tid, t).nscope <= Len(TemplateSet(tid, t).fields)
  <1> DEFINE n == NumFields(t)
             fs == TemplateFields(t)
             gs == [i \in 1 .. n |-> [ft |-> fs[i].ft, flength |-> fs[i].flength]]
  <1>1. n \in Nat /\ Len(t.scopefields) <= n
    BY DEF NumFields, Templates
  <1>2. TemplateSet(tid, t).nscope = Len(t.scopefields) /\ TemplateSet(tid, t).fields = gs
    BY DEF TemplateSet
  <1> HIDE DEF n, fs
  <1>3. Len(gs) = n
    BY <1>1
  <1>4. QED
    BY <1>1, <1>2, <1>3

(* import() of a buffer that is ready ends at its end, or it fails. *)
LEMMA ImportOK ==
    ASSUME NEW table, NEW m, MessageOK(m), Ready(m)
    PROVE  LET p == Import(table, m)
           IN  /\ p.status \in {"ok", "throws", "fault", "misread", "refused"}
               /\ p.status = "ok" => p.nread = m.offset
               /\ p.table = table
  <1> DEFINE b == m.buffer
             n == Len(b)
             total == BodySize(m)
             h == HeaderSize(m)
             base == ParseHeader(table, m)
  <1>1. b \in Seq(WireSets) /\ n \in Nat /\ DOMAIN b = 1 .. n
        /\ \A i \in 1 .. n : b[i] \in WireSets
    BY DEF MessageOK
  <1>2. ASSUME NEW i \in 1 .. n, b[i].kind # "record"
        PROVE  b[i].nscope <= Len(b[i].fields)
    <2>1. b[i].id \in DOMAIN m.templates
          /\ b[i] = TemplateSet(b[i].id, m.templates[b[i].id])
      BY <1>1, <1>2 DEF Ready, Current
    <2>2. m.templates[b[i].id] \in Templates
      BY <2>1 DEF MessageOK, TemplatesOK, TemplateOK
    <2>3. QED
      BY <2>1, <2>2, TemplateSetParts
  <1>3. h \in Nat /\ m.offset = h + SetSum(b) /\ m.offset \in Nat
    BY SameSize DEF Ready, MessageOK
  <1>4. PeerOK(base) /\ base.nread = h /\ base.table = table
    <2>1. PeerForm(base) /\ base.nread = h /\ base.status \in {"ok", "fault"}
          /\ base.templates = <<>> /\ base.table = table
      BY DEF ParseHeader, PeerForm
    <2>2. DOMAIN <<>> = {}
      OBVIOUS
    <2> HIDE DEF base
    <2>3. QED
      BY <2>1, <2>2 DEF PeerOK, PeerTemplatesOK
  <1> HIDE DEF b, n, total, h, base
  <1>5. PICK r : Trace(r, "imports", total, 0, base, b, n) /\ ImportsFold(total, base, b) = r[n]
    BY <1>1, ImportsTraced
  <1>6. PICK s : Trace(s, "sets", 0, 0, 0, b, n) /\ SetSum(b) = s[n]
    BY <1>1, SetTrace
  <1> DEFINE T == {i \in Nat : i <= n =>
                       /\ PeerOK(r[i]) /\ r[i].nread \in Nat /\ s[i] \in Nat
                       /\ r[i].nread <= h + s[i] /\ r[i].table = table}
  <1>7. 0 \in T
    <2>1. r[0] = base /\ s[0] = 0
      BY <1>5, <1>6 DEF Trace
    <2>2. QED
      BY <1>3, <1>4, <2>1
  <1>8. ASSUME NEW i \in T PROVE i + 1 \in T
    <2> SUFFICES ASSUME i + 1 <= n
                 PROVE  /\ PeerOK(r[i + 1]) /\ r[i + 1].nread \in Nat /\ s[i + 1] \in Nat
                        /\ r[i + 1].nread <= h + s[i + 1] /\ r[i + 1].table = table
      OBVIOUS
    <2>1. /\ i + 1 \in 1 .. n /\ (i + 1) - 1 = i
          /\ PeerOK(r[i]) /\ r[i].nread \in Nat /\ s[i] \in Nat /\ r[i].nread <= h + s[i]
          /\ r[i].table = table
      BY <1>1
    <2> DEFINE x == b[i + 1]
    <2>2. r[i + 1] = ReadSet(r[i], x, total)
      <3>1. r[i + 1] = FoldStep("imports", total, 0, r[i], x)
        BY <1>5, <2>1 DEF Trace
      <3>2. QED
        BY <3>1 DEF FoldStep
    <2>3. s[i + 1] = s[i] + SetSize(x)
      <3>1. s[i + 1] = FoldStep("sets", 0, 0, s[i], x)
        BY <1>6, <2>1 DEF Trace
      <3>2. QED
        BY <3>1 DEF FoldStep
    <2>4. x \in WireSets /\ (x.kind # "record" => x.nscope <= Len(x.fields))
      BY <1>1, <1>2, <2>1
    <2> HIDE DEF x
    <2>5. SetSize(x) \in Nat
      BY <2>4, SetSizeNat
    <2>6. PeerOK(r[i + 1])
          /\ (r[i + 1].nread = r[i].nread \/ r[i + 1].nread = r[i].nread + SetSize(x))
          /\ r[i + 1].table = r[i].table
      BY <2>1, <2>2, <2>4, ReadSetOK
    <2>7. QED
      BY <1>3, <2>1, <2>3, <2>5, <2>6
  <1>9. T \in SUBSET Nat
    OBVIOUS
  <1> HIDE DEF T
  <1>10. T = Nat
    BY <1>7, <1>8, <1>9, Induction
  <1> DEFINE p == r[n]
  <1>11. PeerOK(p) /\ p.nread \in Nat /\ p.nread <= h + s[n] /\ p.table = table
    BY <1>1, <1>10 DEF T
  <1>12. p.nread <= m.offset
    BY <1>3, <1>6, <1>11
  <1>13. Import(table, m) = IF p.status = "ok" /\ p.nread < m.offset
                            THEN [p EXCEPT !.status = "refused"] ELSE p
    <2>1. p = FoldLeft(LAMBDA q, x : ReadSet(q, x, total), base, b)
      BY <1>5 DEF ImportsFold
    <2> HIDE DEF p
    <2>2. QED
      BY <2>1 DEF Import, total, base, b
  <1> HIDE DEF p
  <1>14. [p EXCEPT !.status = "refused"].status = "refused"
         /\ [p EXCEPT !.status = "refused"].table = table
    BY <1>11 DEF PeerOK, PeerForm
  <1>15. p.status \in {"ok", "throws", "fault", "misread"}
    BY <1>11 DEF PeerOK
  <1>16. ~ (p.nread < m.offset) => p.nread = m.offset
    BY <1>3, <1>11, <1>12
  <1>17. QED
    BY <1>11, <1>13, <1>14, <1>15, <1>16

(***************************************************************************)
(* The invariant.  The message has its type, a buffer that may be sent is  *)
(* ready, and what a peer read was such a buffer.                          *)
(***************************************************************************)
PeerInv ==
    \/ peer = Unread
    \/ /\ ~msg.require_output /\ \E table \in PeerTables : peer = Import(table, msg)
       /\ peer.status \in {"ok", "throws", "fault", "misread", "refused"}
       /\ peer.status = "ok" => peer.nread = msg.offset

IpfixInv ==
    /\ MessageOK(msg) /\ outputs \in Nat
    /\ fault \in {"none", "no such template", "field index", "null string", "overrun"}
    /\ ~msg.require_output => Ready(msg)
    /\ PeerInv

LEMMA NoTemplates ==
    ASSUME NEW last
    PROVE  TemplatesOK(<<>>, last)
  <1> DEFINE e == <<>>
  <1>1. e = [i \in {} |-> e[i]] /\ DOMAIN e = {}
    OBVIOUS
  <1> HIDE DEF e
  <1>2. TemplatesOK(e, last)
    BY <1>1 DEF TemplatesOK
  <1>3. QED
    BY <1>2 DEF e

(* Whatever operation it was: a changed message has to be output again. *)
ChangedTo(u, m) ==
    /\ MessageForm(u)
    /\ u.version = m.version /\ u.network = m.network /\ u.nrecords = m.nrecords
    /\ u.seqno = m.seqno /\ u.buffer = <<>> /\ u.offset = 0 /\ u.length = 0
    /\ u.require_output = TRUE

LEMMA ChangedToOK ==
    ASSUME NEW u, NEW m, MessageOK(m), ChangedTo(u, m),
           u.lasttid \in FirstTid - 1 .. FirstTid + MaxTemplates - 1,
           TemplatesOK(u.templates, u.lasttid), u.data \in Seq(Records)
    PROVE  MessageOK(u) /\ u.require_output = TRUE
  <1>1. <<>> \in Seq(WireSets) /\ TRUE \in BOOLEAN /\ Len(<<>>) = 0
    OBVIOUS
  <1>2. /\ m.version \in {"IPFIX", "NF9"} /\ m.network \in BOOLEAN
        /\ m.nrecords \in Nat /\ m.seqno \in Nat /\ Counted(m)
    BY DEF MessageOK
  <1>3. /\ MessageForm(u) /\ u.version \in {"IPFIX", "NF9"} /\ u.network \in BOOLEAN
        /\ u.nrecords \in Nat /\ u.seqno \in Nat /\ u.offset \in Nat /\ u.length \in Nat
    BY <1>2 DEF ChangedTo
  <1>4. u.buffer \in Seq(WireSets)
    BY <1>1 DEF ChangedTo
  <1>5. u.require_output = TRUE /\ u.require_output \in BOOLEAN
    BY DEF ChangedTo
  <1>6. Counted(u)
    BY <1>1, <1>2 DEF ChangedTo, Counted
  <1>7. MessageOK(u)
    BY <1>3, <1>4, <1>5, <1>6 DEF MessageOK
  <1>8. QED
    BY <1>5, <1>7

LEMMA ChangedIs ==
    ASSUME NEW m, MessageForm(m)
    PROVE  /\ ChangedTo(Changed(m), m) /\ Changed(m).templates = m.templates
           /\ Changed(m).lasttid = m.lasttid /\ Changed(m).data = m.data
  <1> DEFINE o == Outdated(m)
             c == [o EXCEPT !.require_output = TRUE]
  <1>1. /\ MessageForm(o) /\ o.version = m.version /\ o.network = m.network
        /\ o.nrecords = m.nrecords /\ o.seqno = m.seqno /\ o.buffer = <<>> /\ o.offset = 0
        /\ o.length = 0 /\ o.templates = m.templates /\ o.lasttid = m.lasttid
        /\ o.data = m.data /\ o.require_output = m.require_output
    BY DEF Outdated, MessageForm
  <1>2. Changed(m) = c
    BY DEF Changed
  <1> HIDE DEF o
  <1>3. ChangedTo(c, m) /\ c.templates = o.templates /\ c.lasttid = o.lasttid /\ c.data = o.data
    BY <1>1 DEF ChangedTo, MessageForm
  <1>4. QED
    BY <1>1, <1>2, <1>3

LEMMA ChangedOK ==
    ASSUME NEW m, MessageOK(m)
    PROVE  MessageOK(Changed(m)) /\ Changed(m).require_output = TRUE
  <1>1. /\ ChangedTo(Changed(m), m) /\ Changed(m).templates = m.templates
        /\ Changed(m).lasttid = m.lasttid /\ Changed(m).data = m.data
    BY ChangedIs DEF MessageOK
  <1>2. QED
    BY <1>1, ChangedToOK DEF MessageOK

(* Other templates. *)
LEMMA TemplatesChangedOK ==
    ASSUME NEW m, MessageOK(m), NEW ts, TemplatesOK(ts, m.lasttid)
    PROVE  LET u == [Changed(m) EXCEPT !.templates = ts]
           IN  MessageOK(u) /\ u.require_output = TRUE
  <1> DEFINE c == Changed(m)
             u == [c EXCEPT !.templates = ts]
  <1>1. ChangedTo(c, m) /\ c.lasttid = m.lasttid /\ c.data = m.data
    BY ChangedIs DEF MessageOK
  <1> HIDE DEF c
  <1>2. ChangedTo(u, m) /\ u.lasttid = m.lasttid /\ u.data = m.data /\ u.templates = ts
    BY <1>1 DEF ChangedTo, MessageForm
  <1> HIDE DEF u
  <1>3. MessageOK(u) /\ u.require_output = TRUE
    BY <1>2, ChangedToOK DEF MessageOK
  <1>4. QED
    BY <1>3 DEF u, c

(* delete_template() leaves a container that is well formed, *)
LEMMA WithoutOK ==
    ASSUME NEW m, NEW last, TemplatesOK(m.templates, last), NEW tid
    PROVE  TemplatesOK(WithoutTemplate(m, tid), last)
  BY DEF TemplatesOK, WithoutTemplate

(* A template that gets another field. *)
LEMMA FieldAdded ==
    ASSUME NEW t, TemplateOK(t), NumFields(t) < t.maxfields, NEW f \in Fields
    PROVE  /\ TemplateOK([t EXCEPT !.datafields = Append(t.datafields, f)])
           /\ t.type = "option" =>
                TemplateOK([t EXCEPT !.scopefields = Append(t.scopefields, f)])
  <1>1. /\ t \in Templates /\ t.scopefields \in Seq(Fields) /\ t.datafields \in Seq(Fields)
        /\ t.maxfields \in Nat
    BY DEF TemplateOK, Templates
  <1> DEFINE d == Append(t.datafields, f)
             s == Append(t.scopefields, f)
             u == [t EXCEPT !.datafields = d]
             v == [t EXCEPT !.scopefields = s]
  <1>2. ASSUME NEW q \in Seq(Fields)
        PROVE  Append(q, f) \in Seq(Fields) /\ Len(Append(q, f)) = Len(q) + 1 /\ Len(q) \in Nat
    OBVIOUS
  <1>3. d \in Seq(Fields) /\ s \in Seq(Fields) /\ Len(d) = Len(t.datafields) + 1
        /\ Len(s) = Len(t.scopefields) + 1
        /\ Len(t.datafields) \in Nat /\ Len(t.scopefields) \in Nat
    BY <1>1, <1>2
  <1> HIDE DEF d, s
  <1>4. /\ u \in Templates /\ u.type = t.type /\ u.maxfields = t.maxfields
        /\ u.scopefields = t.scopefields /\ u.datafields = d
    BY <1>1, <1>3 DEF Templates
  <1>5. /\ v \in Templates /\ v.type = t.type /\ v.maxfields = t.maxfields
        /\ v.scopefields = s /\ v.datafields = t.datafields
    BY <1>1, <1>3 DEF Templates
  <1> HIDE DEF u, v
  <1>6. NumFields(u) <= u.maxfields /\ NumFields(v) <= v.maxfields
    <2>1. /\ NumFields(u) = Len(t.scopefields) + Len(d)
          /\ NumFields(v) = Len(s) + Len(t.datafields)
          /\ NumFields(t) = Len(t.scopefields) + Len(t.datafields)
      BY <1>4, <1>5 DEF NumFields
    <2>2. NumFields(u) = NumFields(t) + 1 /\ NumFields(v) = NumFields(t) + 1
          /\ NumFields(t) \in Nat
      <3>1. PICK a, b \in Nat : a = Len(t.scopefields) /\ b = Len(t.datafields)
        BY <1>3
      <3>2. Len(d) = b + 1 /\ Len(s) = a + 1
        BY <1>3, <3>1
      <3>3. NumFields(u) = a + (b + 1) /\ NumFields(v) = (a + 1) + b /\ NumFields(t) = a + b
        BY <2>1, <3>1, <3>2
      <3>4. QED
        BY <3>3
    <2>3. NumFields(u) <= t.maxfields /\ NumFields(v) <= t.maxfields
      BY <1>1, <2>2
    <2>4. QED
      BY <1>4, <1>5, <2>3
  <1>7. TemplateOK(u)
    BY <1>4, <1>6 DEF TemplateOK
  <1>8. t.type = "option" => TemplateOK(v)
    BY <1>5, <1>6 DEF TemplateOK
  <1>9. QED
    BY <1>7, <1>8 DEF u, v, d, s

(* so does a change of one template, *)
LEMMA ReplacedOK ==
    ASSUME NEW ts, NEW last, TemplatesOK(ts, last), NEW tid \in DOMAIN ts, NEW u, TemplateOK(u)
    PROVE  TemplatesOK([ts EXCEPT ![tid] = u], last)
  BY DEF TemplatesOK

LEMMA IsField ==
    ASSUME NEW ft \in FieldTypes, NEW n \in Flengths[ft], NEW relay \in BOOLEAN
    PROVE  TemplateField(ft, n, relay) \in Fields
  <1>1. n \in Lengths
    BY DEF Lengths
  <1>2. QED
    BY <1>1 DEF TemplateField, Fields

LEMMA AddDataFieldOK ==
    ASSUME NEW m, MessageOK(m), NEW tid \in DOMAIN m.templates,
           NumFields(m.templates[tid]) < m.templates[tid].maxfields, NEW f \in Fields
    PROVE  LET u == [Changed(m) EXCEPT !.templates[tid].datafields = Append(@, f)]
           IN  MessageOK(u) /\ u.require_output = TRUE
  <1> DEFINE c == Changed(m)
             t == m.templates[tid]
             t2 == [t EXCEPT !.datafields = Append(t.datafields, f)]
             ts == [m.templates EXCEPT ![tid] = t2]
             u == [c EXCEPT !.templates[tid].datafields = Append(@, f)]
  <1>1. MessageForm(c) /\ c.templates = m.templates
    BY ChangedIs DEF MessageOK, ChangedTo
  <1>2. TemplatesOK(m.templates, m.lasttid) /\ TemplateOK(t)
    BY DEF MessageOK, TemplatesOK
  <1>3. TemplateOK(t2)
    BY <1>2, FieldAdded
  <1> HIDE DEF c, t
  <1>4. u = [c EXCEPT !.templates = ts]
    <2>1. DOMAIN c.templates[tid] = DOMAIN t /\ "datafields" \in DOMAIN t
      BY <1>1, <1>2 DEF t, TemplateOK, Templates
    <2>2. QED
      BY <1>1, <2>1 DEF MessageForm, t
  <1> HIDE DEF t2
  <1>5. TemplatesOK(ts, m.lasttid)
    BY <1>2, <1>3, ReplacedOK
  <1> HIDE DEF ts, u
  <1>6. MessageOK(u) /\ u.require_output = TRUE
    BY <1>4, <1>5, TemplatesChangedOK DEF c
  <1>7. QED
    BY <1>6 DEF u, c

LEMMA AddScopeFieldOK ==
    ASSUME NEW m, MessageOK(m), NEW tid \in DOMAIN m.templates,
           NumFields(m.templates[tid]) < m.templates[tid].maxfields, NEW f \in Fields,
           m.templates[tid].type = "option"
    PROVE  LET u == [Changed(m) EXCEPT !.templates[tid].scopefields = Append(@, f)]
           IN  MessageOK(u) /\ u.require_output = TRUE
  <1> DEFINE c == Changed(m)
             t == m.templates[tid]
             t2 == [t EXCEPT !.scopefields = Append(t.scopefields, f)]
             ts == [m.templates EXCEPT ![tid] = t2]
             u == [c EXCEPT !.templates[tid].scopefields = Append(@, f)]
  <1>1. MessageForm(c) /\ c.templates = m.templates
    BY ChangedIs DEF MessageOK, ChangedTo
  <1>2. TemplatesOK(m.templates, m.lasttid) /\ TemplateOK(t)
    BY DEF MessageOK, TemplatesOK
  <1>3. TemplateOK(t2)
    BY <1>2, FieldAdded
  <1> HIDE DEF c, t
  <1>4. u = [c EXCEPT !.templates = ts]
    <2>1. DOMAIN c.templates[tid] = DOMAIN t /\ "scopefields" \in DOMAIN t
      BY <1>1, <1>2 DEF t, TemplateOK, Templates
    <2>2. QED
      BY <1>1, <2>1 DEF MessageForm, t
  <1> HIDE DEF t2
  <1>5. TemplatesOK(ts, m.lasttid)
    BY <1>2, <1>3, ReplacedOK
  <1> HIDE DEF ts, u
  <1>6. MessageOK(u) /\ u.require_output = TRUE
    BY <1>4, <1>5, TemplatesChangedOK DEF c
  <1>7. QED
    BY <1>6 DEF u, c

(***************************************************************************)
(* The actions.                                                            *)
(***************************************************************************)
LEMMA NewTemplateOK ==
    ASSUME NEW type \in {"data", "option"}, NEW n \in Nat
    PROVE  TemplateOK(NewTemplate(type, n))
  <1>1. <<>> \in Seq(Fields) /\ FALSE \in BOOLEAN /\ Len(<<>>) = 0
    OBVIOUS
  <1>2. NewTemplate(type, n) \in Templates
    BY <1>1 DEF NewTemplate, Templates
  <1>3. NumFields(NewTemplate(type, n)) = 0 + 0
    BY <1>1 DEF NewTemplate, NumFields
  <1>4. NewTemplate(type, n).maxfields = n /\ NewTemplate(type, n).scopefields = <<>>
    BY DEF NewTemplate
  <1>5. QED
    BY <1>2, <1>3, <1>4 DEF TemplateOK

(* and a template added to it. *)
LEMMA WithTemplateOK ==
    ASSUME NEW ts, NEW last \in Nat, TemplatesOK(ts, last), NEW tid, tid \in Tids, tid = last + 1,
           NEW t, TemplateOK(t)
    PROVE  /\ TemplatesOK(WithTemplate(ts, tid, t), last + 1)
           /\ tid \in DOMAIN WithTemplate(ts, tid, t) /\ WithTemplate(ts, tid, t)[tid] = t
  <1> DEFINE us == WithTemplate(ts, tid, t)
  <1>0. tid \notin DOMAIN ts
    BY DEF TemplatesOK
  <1>1. DOMAIN us = DOMAIN ts \cup {tid} /\ us = [i \in DOMAIN us |-> us[i]]
        /\ us[tid] = t /\ \A i \in DOMAIN ts : us[i] = ts[i]
    BY <1>0 DEF WithTemplate
  <1> HIDE DEF us
  <1>2. \A i \in DOMAIN us : i <= last + 1 /\ TemplateOK(us[i])
    <2> SUFFICES ASSUME NEW i \in DOMAIN us PROVE i <= last + 1 /\ TemplateOK(us[i])
      OBVIOUS
    <2>1. CASE i = tid
      BY <1>1, <2>1
    <2>2. CASE i # tid
      <3>1. i \in DOMAIN ts /\ us[i] = ts[i]
        BY <1>1, <2>2
      <3>2. i <= last /\ TemplateOK(ts[i]) /\ i \in Tids
        BY <3>1 DEF TemplatesOK
      <3>3. i \in Int
        BY <3>2, IpfixAssumption DEF Tids, FirstTid
      <3>4. i <= last + 1
        BY <3>2, <3>3
      <3>5. QED
        BY <3>1, <3>2, <3>4
    <2>3. QED
      BY <2>1, <2>2
  <1>3. DOMAIN us \subseteq Tids
    BY <1>1 DEF TemplatesOK
  <1>4. TemplatesOK(us, last + 1)
    BY <1>1, <1>2, <1>3 DEF TemplatesOK
  <1>5. QED
    BY <1>1, <1>4 DEF us

LEMMA LastTid ==
    ASSUME NEW m, MessageOK(m)
    PROVE  /\ m.lasttid \in Nat
           /\ m.lasttid + 1 \in Tids =>
                m.lasttid + 1 \in FirstTid - 1 .. FirstTid + MaxTemplates - 1
  <1>1. MaxTemplates \in Nat
    BY IpfixAssumption
  <1>2. QED
    BY <1>1 DEF MessageOK, Tids, FirstTid

LEMMA WithNewTemplateOK ==
    ASSUME NEW m, MessageOK(m), NEW type \in {"data", "option"}, NEW n \in Nat,
           m.lasttid + 1 \in Tids
    PROVE  LET u == WithNewTemplate(m, type, n)
           IN  /\ MessageOK(u) /\ u.require_output = TRUE
               /\ u.lasttid = m.lasttid + 1 /\ u.network = m.network
               /\ u.lasttid \in DOMAIN u.templates
               /\ u.templates[u.lasttid] = NewTemplate(type, n)
               /\ ChangedTo(u, m) /\ u.data = m.data
               /\ TemplatesOK(u.templates, u.lasttid)
  <1> DEFINE c == Changed(m)
             tid == m.lasttid + 1
             t == NewTemplate(type, n)
             ts == WithTemplate(m.templates, tid, t)
             u == WithNewTemplate(m, type, n)
  <1>1. ChangedTo(c, m) /\ c.templates = m.templates /\ c.lasttid = m.lasttid /\ c.data = m.data
    BY ChangedIs DEF MessageOK
  <1>2. u = [c EXCEPT !.lasttid = @ + 1,
                      !.templates = WithTemplate(@, m.lasttid + 1, NewTemplate(type, n))]
    BY DEF WithNewTemplate
  <1> HIDE DEF c, t, u
  <1>3. u = [c EXCEPT !.lasttid = tid, !.templates = ts]
    BY <1>1, <1>2 DEF ChangedTo, MessageForm, t
  <1>4. m.lasttid \in Nat /\ tid \in Tids
        /\ tid \in FirstTid - 1 .. FirstTid + MaxTemplates - 1
    BY LastTid
  <1>5. TemplateOK(t)
    BY NewTemplateOK DEF t
  <1>6. TemplatesOK(ts, tid) /\ tid \in DOMAIN ts /\ ts[tid] = t
    <2>1. TemplatesOK(m.templates, m.lasttid)
      BY DEF MessageOK
    <2>2. QED
      BY <1>4, <1>5, <2>1, WithTemplateOK
  <1> HIDE DEF tid, ts
  <1>8. ChangedTo(u, m) /\ u.lasttid = tid /\ u.templates = ts /\ u.data = m.data
    BY <1>1, <1>3 DEF ChangedTo, MessageForm
  <1>9. MessageOK(u) /\ u.require_output = TRUE
    BY <1>4, <1>6, <1>8, ChangedToOK DEF MessageOK
  <1>10. u.network = m.network
    BY <1>8 DEF ChangedTo
  <1>11. QED
    BY <1>6, <1>8, <1>9, <1>10 DEF u, tid, t

(* make_template(): the template with its field, or none. *)
LEMMA MadeTemplateOK ==
    ASSUME NEW m, MessageOK(m), m.lasttid + 1 \in Tids, NEW f \in Fields
    PROVE  LET c == WithNewTemplate(m, "data", 1)
               u == [c EXCEPT !.templates[c.lasttid].datafields = <<f>>]
               v == [c EXCEPT !.templates = WithoutTemplate(c, c.lasttid)]
           IN  /\ MessageOK(u) /\ u.require_output = TRUE
               /\ MessageOK(v) /\ v.require_output = TRUE
  <1> DEFINE c == WithNewTemplate(m, "data", 1)
             tid == c.lasttid
             t == NewTemplate("data", 1)
             t2 == [t EXCEPT !.datafields = <<f>>]
             ts == [c.templates EXCEPT ![tid] = t2]
             us == WithoutTemplate(c, tid)
             u == [c EXCEPT !.templates[c.lasttid].datafields = <<f>>]
             v == [c EXCEPT !.templates = us]
  <1>1. /\ MessageOK(c) /\ tid \in DOMAIN c.templates /\ c.templates[tid] = t
        /\ ChangedTo(c, m) /\ c.data = m.data
        /\ TemplatesOK(c.templates, c.lasttid)
    <2>1. "data" \in {"data", "option"} /\ 1 \in Nat
      OBVIOUS
    <2> HIDE DEF t
    <2>2. QED
      BY <2>1, WithNewTemplateOK DEF t
  <1>2. TemplateOK(t2)
    <2>1. TemplateOK(t) /\ t \in Templates /\ t.scopefields = <<>> /\ t.maxfields = 1
          /\ t.type = "data"
      BY NewTemplateOK DEF TemplateOK, NewTemplate
    <2>2. <<f>> \in Seq(Fields) /\ Len(<<f>>) = 1 /\ Len(<<>>) = 0
      OBVIOUS
    <2> HIDE DEF t
    <2>3. t2 \in Templates /\ t2.scopefields = <<>> /\ t2.maxfields = 1 /\ t2.datafields = <<f>>
      BY <2>1, <2>2 DEF Templates
    <2>4. NumFields(t2) = 0 + 1
      BY <2>2, <2>3 DEF NumFields
    <2> HIDE DEF t2
    <2>5. QED
      BY <2>3, <2>4 DEF TemplateOK
  <1>3. "datafields" \in DOMAIN t
    BY DEF NewTemplate
  <1> HIDE DEF c, t
  <1>4. u = [c EXCEPT !.templates = ts]
    BY <1>1, <1>3 DEF MessageOK, MessageForm
  <1>5. TemplatesOK(ts, tid)
    <2> HIDE DEF t2
    <2>1. QED
      BY <1>1, <1>2, ReplacedOK
  <1>6. TemplatesOK(us, tid)
    BY <1>1, WithoutOK
  <1> HIDE DEF ts, us, u
  <1>7. ChangedTo(u, m) /\ u.lasttid = c.lasttid /\ u.data = m.data /\ u.templates = ts
    BY <1>1, <1>4 DEF ChangedTo, MessageForm
  <1>8. ChangedTo(v, m) /\ v.lasttid = c.lasttid /\ v.data = m.data /\ v.templates = us
    BY <1>1 DEF ChangedTo, MessageForm
  <1> HIDE DEF v
  <1>9. c.lasttid \in FirstTid - 1 .. FirstTid + MaxTemplates - 1 /\ m.data \in Seq(Records)
    BY <1>1 DEF MessageOK
  <1>10. MessageOK(u) /\ u.require_output = TRUE
    BY <1>5, <1>7, <1>9, ChangedToOK
  <1>11. MessageOK(v) /\ v.require_output = TRUE
    BY <1>6, <1>8, <1>9, ChangedToOK
  <1>12. QED
    BY <1>10, <1>11 DEF u, v, us, c

SameHeader(u, m) ==
    u.header = m.header /\ u.nrecords = m.nrecords /\ u.seqno = m.seqno

(* The copy of a message. *)
LEMMA UnsentOK ==
    ASSUME NEW m, MessageOK(m)
    PROVE  LET u == Unsent(m)
           IN  /\ MessageOK(u) /\ Alike(u, m) /\ u.buffer = m.buffer /\ u.offset = m.offset
               /\ u.length = m.length /\ SameHeader(u, m)
               /\ \A i \in DOMAIN m.templates : \A x :
                      TemplateSet(x, u.templates[i]) = TemplateSet(x, m.templates[i])
  <1> DEFINE ts == m.templates
             us == [i \in DOMAIN ts |-> [ts[i] EXCEPT !.sent = FALSE]]
             u == Unsent(m)
  <1>1. u = [m EXCEPT !.templates = us]
    BY DEF Unsent, MessageOK, MessageForm
  <1>2. \A i \in DOMAIN ts : TemplateOK(ts[i])
    BY DEF MessageOK, TemplatesOK
  <1>3. DOMAIN us = DOMAIN ts /\ us = [i \in DOMAIN us |-> us[i]]
        /\ \A i \in DOMAIN ts : us[i] = [ts[i] EXCEPT !.sent = FALSE]
    OBVIOUS
  <1> HIDE DEF u, us
  <1>4. \A i \in DOMAIN ts : /\ TemplateOK(us[i]) /\ SameTemplate(us[i], ts[i])
                             /\ \A x : TemplateSet(x, us[i]) = TemplateSet(x, ts[i])
    <2> SUFFICES ASSUME NEW i \in DOMAIN ts
                 PROVE  /\ TemplateOK(us[i]) /\ SameTemplate(us[i], ts[i])
                        /\ \A x : TemplateSet(x, us[i]) = TemplateSet(x, ts[i])
      OBVIOUS
    <2>1. PICK t : t = ts[i] /\ TemplateOK(t)
      BY <1>2
    <2>2. PICK v : v = us[i] /\ v = [t EXCEPT !.sent = FALSE]
      BY <1>3, <2>1
    <2>3. /\ TemplateOK(v) /\ SameTemplate(v, t)
          /\ \A x : TemplateSet(x, v) = TemplateSet(x, t)
      BY <2>1, <2>2, UnsentIs
    <2>4. QED
      BY <2>1, <2>2, <2>3
  <1>5. TemplatesOK(us, m.lasttid)
    BY <1>3, <1>4 DEF MessageOK, TemplatesOK
  <1>6. Agree(us, ts)
    BY <1>3, <1>4 DEF Agree
  <1>7. /\ MessageForm(u) /\ u.version = m.version /\ u.network = m.network
        /\ u.lasttid = m.lasttid /\ u.data = m.data /\ u.nrecords = m.nrecords
        /\ u.seqno = m.seqno /\ u.require_output = m.require_output
        /\ u.buffer = m.buffer /\ u.offset = m.offset /\ u.length = m.length
        /\ u.templates = us /\ u.header = m.header
    BY <1>1 DEF MessageOK, MessageForm
  <1>8. MessageOK(u)
    BY <1>5, <1>7 DEF MessageOK, Counted
  <1>9. Alike(u, m)
    BY <1>6, <1>7 DEF Alike
  <1>10. SameHeader(u, m)
    BY <1>7 DEF SameHeader
  <1>11. QED
    BY <1>4, <1>7, <1>8, <1>9, <1>10 DEF u

(* What does not touch the content leaves a buffer ready. *)
LEMMA StaysReady ==
    ASSUME NEW m, NEW u, MessageOK(m), Ready(m), u.version = m.version, u.data = m.data,
           Agree(u.templates, m.templates), u.buffer = m.buffer, u.offset = m.offset,
           u.length = m.length, SameHeader(u, m),
           \A i \in DOMAIN m.templates : \A x :
               TemplateSet(x, u.templates[i]) = TemplateSet(x, m.templates[i])
    PROVE  Ready(u)
  <1>1. CurrentDataSets(u) = CurrentDataSets(m)
    BY SameDue DEF MessageOK
  <1>2. HeaderSize(u) = HeaderSize(m)
    BY SameSize
  <1>3. DOMAIN u.templates = DOMAIN m.templates
    BY DEF Agree
  <1>4. Current(u.buffer, u.templates)
    <2>1. Current(m.buffer, m.templates)
      BY DEF Ready
    <2>2. ASSUME NEW i \in DOMAIN m.buffer, m.buffer[i].kind # "record"
          PROVE  /\ m.buffer[i].id \in DOMAIN u.templates
                 /\ m.buffer[i] = TemplateSet(m.buffer[i].id, u.templates[m.buffer[i].id])
      <3>1. /\ m.buffer[i].id \in DOMAIN m.templates
            /\ m.buffer[i] = TemplateSet(m.buffer[i].id, m.templates[m.buffer[i].id])
        BY <2>1, <2>2 DEF Current
      <3>2. QED
        BY <1>3, <3>1
    <2>3. QED
      BY <2>2 DEF Current
  <1>5. HeaderOK(u)
    BY DEF Ready, HeaderOK, SameHeader
  <1>6. QED
    BY <1>1, <1>2, <1>4, <1>5 DEF Ready

LEMMA OutdatedIs ==
    ASSUME NEW m, MessageOK(m), m.require_output = TRUE
    PROVE  MessageOK(Outdated(m)) /\ Outdated(m).require_output = TRUE
  <1> DEFINE o == Outdated(m)
  <1>1. /\ MessageForm(m) /\ TemplatesOK(m.templates, m.lasttid) /\ m.data \in Seq(Records)
        /\ m.lasttid \in FirstTid - 1 .. FirstTid + MaxTemplates - 1
    BY DEF MessageOK
  <1>2. /\ ChangedTo(o, m) /\ o.templates = m.templates /\ o.lasttid = m.lasttid
        /\ o.data = m.data
    BY <1>1 DEF ChangedTo, Outdated, MessageForm
  <1> HIDE DEF o
  <1>3. MessageOK(o) /\ o.require_output = TRUE
    BY <1>1, <1>2, ChangedToOK
  <1>4. QED
    BY <1>3 DEF o

(* A message just constructed meets the invariant: it has to be output first. *)
THEOREM IpfixInit == Init => IpfixInv
  <1> SUFFICES ASSUME Init PROVE IpfixInv
    OBVIOUS
  <1>1. PICK v \in Versions : msg = NewMessage(v)
    BY DEF Init
  <1>2. v \in {"IPFIX", "NF9"}
    BY IpfixAssumption
  <1>3. MessageOK(msg) /\ msg.require_output = TRUE
    <2>1. MessageForm(msg) /\ msg.version = v /\ msg.network = TRUE
          /\ msg.require_output = TRUE /\ msg.lasttid = FirstTid - 1 /\ msg.templates = <<>>
          /\ msg.data = <<>> /\ msg.nrecords = 0 /\ msg.seqno = 0 /\ msg.offset = 0
          /\ msg.length = 0 /\ msg.buffer = <<>>
      BY <1>1 DEF NewMessage, MessageForm
    <2>2. <<>> \in Seq(Records) /\ <<>> \in Seq(WireSets)
      OBVIOUS
    <2>3. FirstTid - 1 \in FirstTid - 1 .. FirstTid + MaxTemplates - 1
      BY IpfixAssumption DEF FirstTid
    <2>4. TemplatesOK(msg.templates, msg.lasttid)
      BY <2>1, NoTemplates
    <2>5. msg.data \in Seq(Records)
      BY <2>1, <2>2
    <2>6. msg.buffer \in Seq(WireSets)
      BY <2>1, <2>2
    <2>7. msg.lasttid \in FirstTid - 1 .. FirstTid + MaxTemplates - 1
      BY <2>1, <2>3
    <2>8. msg.network \in BOOLEAN /\ msg.require_output \in BOOLEAN
      BY <2>1
    <2>9. msg.nrecords \in Nat /\ msg.seqno \in Nat /\ msg.offset \in Nat /\ msg.length \in Nat
      BY <2>1
    <2>10. MessageForm(msg) /\ msg.version \in {"IPFIX", "NF9"}
      BY <1>2, <2>1
    <2>11. Counted(msg)
      BY <2>1 DEF Counted
    <2>12. MessageOK(msg)
      BY <2>4, <2>5, <2>6, <2>7, <2>8, <2>9, <2>10, <2>11 DEF MessageOK
    <2>13. QED
      BY <2>1, <2>12
  <1>4. outputs \in Nat /\ fault = "none" /\ PeerInv
    BY DEF Init, PeerInv
  <1>5. QED
    BY <1>3, <1>4 DEF IpfixInv

(* An operation that leaves a message that has to be output again. *)
LEMMA ChangeKeeps ==
    ASSUME IpfixInv, Live, UNCHANGED <<outputs, peer, fault>>,
           MessageOK(msg'), msg'.require_output = TRUE
    PROVE  IpfixInv'
  <1>1. peer' = Unread
    BY DEF Live
  <1>2. PeerInv'
    BY <1>1 DEF PeerInv
  <1>3. QED
    BY <1>2 DEF IpfixInv

LEMMA SetEncodeModeKeeps ==
    ASSUME IpfixInv, NEW mode \in Modes, SetEncodeMode(mode)
    PROVE  IpfixInv'
  <1>1. msg' = [msg EXCEPT !.network = mode] /\ UNCHANGED <<outputs, peer, fault>>
        /\ peer = Unread /\ ~msg.require_output
    BY DEF SetEncodeMode, Live
  <1>2. MessageOK(msg) /\ MessageForm(msg) /\ Ready(msg)
    BY <1>1 DEF IpfixInv, MessageOK
  <1>3. /\ MessageForm(msg') /\ msg'.version = msg.version /\ msg'.network = mode
        /\ msg'.lasttid = msg.lasttid /\ msg'.data = msg.data /\ msg'.nrecords = msg.nrecords
        /\ msg'.seqno = msg.seqno /\ msg'.require_output = msg.require_output
        /\ msg'.buffer = msg.buffer /\ msg'.offset = msg.offset /\ msg'.length = msg.length
        /\ msg'.templates = msg.templates /\ msg'.header = msg.header
    BY <1>1, <1>2 DEF MessageForm
  <1>4. mode \in BOOLEAN
    BY IpfixAssumption
  <1>5. MessageOK(msg')
    BY <1>2, <1>3, <1>4 DEF MessageOK, Counted
  <1>6. Agree(msg'.templates, msg.templates) /\ SameHeader(msg', msg)
    BY <1>3 DEF Agree, SameTemplate, SameHeader
  <1>7. Ready(msg')
    BY <1>2, <1>3, <1>6, StaysReady
  <1>8. PeerInv'
    BY <1>1 DEF PeerInv
  <1>9. QED
    BY <1>1, <1>5, <1>7, <1>8 DEF IpfixInv

LEMMA CopyKeeps ==
    ASSUME IpfixInv, Copy
    PROVE  IpfixInv'
  <1>1. msg' = Unsent(msg) /\ UNCHANGED <<outputs, peer, fault>> /\ peer = Unread
    BY DEF Copy, Live
  <1>2. MessageOK(msg)
    BY DEF IpfixInv
  <1>3. /\ MessageOK(msg') /\ Alike(msg', msg) /\ msg'.buffer = msg.buffer
        /\ msg'.offset = msg.offset /\ msg'.length = msg.length /\ SameHeader(msg', msg)
        /\ \A i \in DOMAIN msg.templates : \A x :
               TemplateSet(x, msg'.templates[i]) = TemplateSet(x, msg.templates[i])
    BY <1>1, <1>2, UnsentOK
  <1>4. /\ msg'.version = msg.version /\ msg'.data = msg.data
        /\ msg'.require_output = msg.require_output
        /\ Agree(msg'.templates, msg.templates)
    BY <1>3 DEF Alike
  <1>5. Ready(msg) => Ready(msg')
    BY <1>2, <1>3, <1>4, StaysReady
  <1>6. PeerInv'
    BY <1>1 DEF PeerInv
  <1>7. QED
    BY <1>1, <1>3, <1>4, <1>5, <1>6 DEF IpfixInv

LEMMA AssignKeeps ==
    ASSUME IpfixInv, Assign
    PROVE  IpfixInv'
  <1>1. msg' = Changed(Unsent(msg)) /\ UNCHANGED <<outputs, peer, fault>> /\ Live
    BY DEF Assign
  <1>2. MessageOK(Unsent(msg))
    BY UnsentOK DEF IpfixInv
  <1>3. MessageOK(msg') /\ msg'.require_output = TRUE
    BY <1>1, <1>2, ChangedOK
  <1>4. QED
    BY <1>1, <1>3, ChangeKeeps

LEMMA NewTemplatesKeep ==
    ASSUME IpfixInv, NEW n \in 1 .. MaxFields,
           NewDataTemplate(n) \/ NewOptionTemplate(n)
    PROVE  IpfixInv'
  <1>1. PICK type \in {"data", "option"} : msg' = WithNewTemplate(msg, type, n)
    BY DEF NewDataTemplate, NewOptionTemplate
  <1>2. UNCHANGED <<outputs, peer, fault>> /\ Live /\ msg.lasttid + 1 \in Tids
    BY DEF NewDataTemplate, NewOptionTemplate
  <1>3. n \in Nat
    BY IpfixAssumption
  <1>4. MessageOK(msg)
    BY DEF IpfixInv
  <1>5. MessageOK(msg') /\ msg'.require_output = TRUE
    BY <1>1, <1>2, <1>3, <1>4, WithNewTemplateOK
  <1>6. QED
    BY <1>2, <1>5, ChangeKeeps

LEMMA RefusedKeeps ==
    ASSUME IpfixInv, NewTemplateRefused
    PROVE  IpfixInv'
  <1>1. msg' = Changed(msg) /\ UNCHANGED <<outputs, peer, fault>> /\ Live
    BY DEF NewTemplateRefused
  <1>2. MessageOK(msg') /\ msg'.require_output = TRUE
    BY <1>1, ChangedOK DEF IpfixInv
  <1>3. QED
    BY <1>1, <1>2, ChangeKeeps

LEMMA AddFieldsKeep ==
    ASSUME IpfixInv, NEW tid \in Tids, NEW ft \in FieldTypes, NEW n \in Flengths[ft],
           AddField(tid, ft, n) \/ AddScopeField(tid, ft, n)
    PROVE  IpfixInv'
  <1> DEFINE f == TemplateField(ft, n, msg.network)
  <1>1. /\ UNCHANGED <<outputs, peer, fault>> /\ Live /\ tid \in DOMAIN msg.templates
        /\ NumFields(msg.templates[tid]) < msg.templates[tid].maxfields
    BY DEF AddField, AddScopeField, HasTemplate, HasRoom
  <1>2. MessageOK(msg)
    BY DEF IpfixInv
  <1>3. f \in Fields
    BY <1>2, IsField DEF MessageOK
  <1>4. \/ msg' = [Changed(msg) EXCEPT !.templates[tid].datafields = Append(@, f)]
        \/ /\ msg.templates[tid].type = "option"
           /\ msg' = [Changed(msg) EXCEPT !.templates[tid].scopefields = Append(@, f)]
    BY DEF AddField, AddScopeField
  <1> HIDE DEF f
  <1>5. MessageOK(msg') /\ msg'.require_output = TRUE
    <2>1. CASE msg' = [Changed(msg) EXCEPT !.templates[tid].datafields = Append(@, f)]
      BY <1>1, <1>2, <1>3, <2>1, AddDataFieldOK
    <2>2. CASE /\ msg.templates[tid].type = "option"
               /\ msg' = [Changed(msg) EXCEPT !.templates[tid].scopefields = Append(@, f)]
      BY <1>1, <1>2, <1>3, <2>2, AddScopeFieldOK
    <2>3. QED
      BY <1>4, <2>1, <2>2
  <1>6. QED
    BY <1>1, <1>5, ChangeKeeps

LEMMA MakeTemplateKeeps ==
    ASSUME IpfixInv, NEW ft \in FieldTypes, NEW n \in Flengths[ft], NEW known \in BOOLEAN,
           MakeTemplate(ft, n, known)
    PROVE  IpfixInv'
  <1> DEFINE c == WithNewTemplate(msg, "data", 1)
             f == TemplateField(ft, n, msg.network)
  <1>1. UNCHANGED <<outputs, peer, fault>> /\ Live /\ msg.lasttid + 1 \in Tids
    BY DEF MakeTemplate
  <1>2. MessageOK(msg)
    BY DEF IpfixInv
  <1>3. f \in Fields
    BY <1>2, IsField DEF MessageOK
  <1>4. c.network = msg.network
    BY <1>1, <1>2, WithNewTemplateOK
  <1>5. \/ msg' = [c EXCEPT !.templates[c.lasttid].datafields =
                               <<TemplateField(ft, n, c.network)>>]
        \/ msg' = [c EXCEPT !.templates = WithoutTemplate(c, c.lasttid)]
    BY DEF MakeTemplate
  <1>6. \/ msg' = [c EXCEPT !.templates[c.lasttid].datafields = <<f>>]
        \/ msg' = [c EXCEPT !.templates = WithoutTemplate(c, c.lasttid)]
    BY <1>4, <1>5
  <1> HIDE DEF f
  <1>7. MessageOK(msg') /\ msg'.require_output = TRUE
    BY <1>1, <1>2, <1>3, <1>6, MadeTemplateOK
  <1>8. QED
    BY <1>1, <1>7, ChangeKeeps

LEMMA DeleteTemplateKeeps ==
    ASSUME IpfixInv, NEW tid \in Tids, DeleteTemplate(tid)
    PROVE  IpfixInv'
  <1>1. MessageOK(msg) /\ TemplatesOK(msg.templates, msg.lasttid) /\ Live
    BY DEF IpfixInv, MessageOK, DeleteTemplate
  <1>2. CASE HasTemplate(msg, tid)
    <2>1. /\ msg' = [Changed(msg) EXCEPT !.templates = WithoutTemplate(msg, tid)]
          /\ UNCHANGED <<outputs, peer, fault>>
      BY <1>2 DEF DeleteTemplate
    <2>2. TemplatesOK(WithoutTemplate(msg, tid), msg.lasttid)
      BY <1>1, WithoutOK
    <2>3. MessageOK(msg') /\ msg'.require_output = TRUE
      BY <1>1, <2>1, <2>2, TemplatesChangedOK
    <2>4. QED
      BY <1>1, <2>1, <2>3, ChangeKeeps
  <1>3. CASE ~HasTemplate(msg, tid)
    <2>1. fault' = "no such template" /\ UNCHANGED <<msg, outputs, peer>>
      BY <1>3 DEF DeleteTemplate
    <2>2. PeerInv'
      BY <2>1 DEF IpfixInv, PeerInv
    <2>3. QED
      BY <2>1, <2>2 DEF IpfixInv
  <1>4. QED
    BY <1>2, <1>3

LEMMA DeleteAllKeeps ==
    ASSUME IpfixInv, DeleteAllTemplates
    PROVE  IpfixInv'
  <1> DEFINE none == <<>>
  <1>1. msg' = [Changed(msg) EXCEPT !.templates = none]
        /\ UNCHANGED <<outputs, peer, fault>> /\ Live
    BY DEF DeleteAllTemplates
  <1>2. TemplatesOK(none, msg.lasttid) /\ MessageOK(msg)
    BY NoTemplates DEF IpfixInv
  <1> HIDE DEF none
  <1>3. MessageOK(msg') /\ msg'.require_output = TRUE
    BY <1>1, <1>2, TemplatesChangedOK
  <1>4. QED
    BY <1>1, <1>3, ChangeKeeps

LEMMA IncludeDataKeeps ==
    ASSUME IpfixInv, NEW tid \in Tids, NEW r \in Records, IncludeData(tid, r)
    PROVE  IpfixInv'
  <1> DEFINE c == Changed(msg)
             d == Append(msg.data, r)
  <1>1. UNCHANGED <<outputs, peer, fault>> /\ Live
        /\ msg' = [c EXCEPT !.data = Append(@, r)]
    BY DEF IncludeData
  <1>2. MessageOK(msg) /\ msg.data \in Seq(Records)
    BY DEF IpfixInv, MessageOK
  <1>3. /\ ChangedTo(c, msg) /\ c.templates = msg.templates
        /\ c.lasttid = msg.lasttid /\ c.data = msg.data
    BY <1>2, ChangedIs DEF MessageOK
  <1>4. d \in Seq(Records)
    BY <1>2
  <1> HIDE DEF c
  <1>5. msg' = [c EXCEPT !.data = d]
    BY <1>1, <1>3 DEF ChangedTo, MessageForm
  <1> HIDE DEF d
  <1>6. /\ ChangedTo(msg', msg) /\ msg'.templates = msg.templates
        /\ msg'.lasttid = msg.lasttid /\ msg'.data = d
    BY <1>3, <1>5 DEF ChangedTo, MessageForm
  <1>7. MessageOK(msg') /\ msg'.require_output = TRUE
    <2>1. /\ msg'.lasttid \in FirstTid - 1 .. FirstTid + MaxTemplates - 1
          /\ TemplatesOK(msg'.templates, msg'.lasttid) /\ msg'.data \in Seq(Records)
      BY <1>2, <1>4, <1>6 DEF MessageOK
    <2>2. QED
      BY <1>2, <1>6, <2>1, ChangedToOK
  <1>8. QED
    BY <1>1, <1>7, ChangeKeeps

LEMMA OutputKeeps ==
    ASSUME IpfixInv, Output
    PROVE  IpfixInv'
  <1> DEFINE w == Written(msg)
             u == [w.m EXCEPT !.require_output = FALSE]
  <1>1. /\ outputs' = outputs + 1 /\ peer' = peer /\ peer = Unread
        /\ msg.require_output
        /\ msg' = (IF w.status = "ok" THEN u ELSE Outdated(w.m))
        /\ fault' = (IF w.status \in {"ok", "throws"} THEN "none" ELSE w.status)
    BY DEF Output, Live
  <1>2. MessageOK(msg) /\ outputs' \in Nat /\ msg.require_output = TRUE
    <2>1. MessageOK(msg) /\ outputs \in Nat
      BY DEF IpfixInv
    <2>2. msg.require_output \in BOOLEAN
      BY <2>1 DEF MessageOK
    <2>3. outputs' \in Nat
      BY <1>1, <2>1
    <2>4. msg.require_output = TRUE
      BY <1>1, <2>2
    <2>5. QED
      BY <2>1, <2>3, <2>4
  <1>3. /\ w.status \in {"ok", "throws", "field index", "null string", "overrun"}
        /\ MessageOK(w.m) /\ w.m.require_output = TRUE
        /\ w.status = "ok" => Ready(w.m)
    BY <1>1, <1>2, WrittenOK
  <1> HIDE DEF w
  <1>4. fault' \in {"none", "no such template", "field index", "null string", "overrun"}
    BY <1>1, <1>3
  <1>5. PeerInv'
    BY <1>1 DEF PeerInv
  <1>6. CASE w.status # "ok"
    <2>1. msg' = Outdated(w.m)
      BY <1>1, <1>6
    <2>2. MessageOK(msg') /\ msg'.require_output = TRUE
      BY <1>3, <2>1, OutdatedIs
    <2>3. QED
      BY <1>2, <1>4, <1>5, <2>2 DEF IpfixInv
  <1>7. CASE w.status = "ok"
    <2>1. msg' = u /\ Ready(w.m)
      BY <1>1, <1>3, <1>7
    <2>2. /\ MessageForm(u) /\ u.version = w.m.version /\ u.network = w.m.network
          /\ u.lasttid = w.m.lasttid /\ u.data = w.m.data /\ u.nrecords = w.m.nrecords
          /\ u.seqno = w.m.seqno /\ u.require_output = FALSE /\ u.buffer = w.m.buffer
          /\ u.offset = w.m.offset /\ u.length = w.m.length /\ u.templates = w.m.templates
          /\ u.header = w.m.header
      BY <1>3 DEF MessageOK, MessageForm
    <2> HIDE DEF u
    <2>3. MessageOK(u)
      BY <1>3, <2>2 DEF MessageOK, Counted
    <2>4. Agree(u.templates, w.m.templates) /\ SameHeader(u, w.m)
      BY <2>2 DEF Agree, SameTemplate, SameHeader
    <2>5. Ready(u)
      BY <1>3, <2>1, <2>2, <2>4, StaysReady
    <2>6. QED
      BY <1>2, <1>4, <1>5, <2>1, <2>3, <2>5 DEF IpfixInv
  <1>8. QED
    BY <1>6, <1>7

LEMMA DeserializeKeeps ==
    ASSUME IpfixInv, NEW table \in PeerTables, Deserialize(table)
    PROVE  IpfixInv'
  <1>1. ~msg.require_output /\ peer' = Import(table, msg) /\ UNCHANGED <<msg, outputs, fault>>
    BY DEF Deserialize
  <1>2. MessageOK(msg) /\ Ready(msg)
    BY <1>1 DEF IpfixInv
  <1>3. /\ peer'.status \in {"ok", "throws", "fault", "misread", "refused"}
        /\ peer'.status = "ok" => peer'.nread = msg.offset
    BY <1>1, <1>2, ImportOK
  <1>4. PeerInv'
    BY <1>1, <1>3 DEF PeerInv
  <1>5. QED
    BY <1>1, <1>4 DEF IpfixInv

(* Every operation of mnslp_ipfix_message keeps the invariant: one that changes *)
(* the message drops the buffer (or makes the next get_message() refuse it),    *)
(* output() leaves one that is ready, and the peer reads only such a one.       *)
THEOREM IpfixStep == IpfixInv /\ [Next]_vars => IpfixInv'
  <1> SUFFICES ASSUME IpfixInv, [Next]_vars PROVE IpfixInv'
    OBVIOUS
  <1>1. ASSUME NEW mode \in Modes, SetEncodeMode(mode) PROVE IpfixInv'
    BY <1>1, SetEncodeModeKeeps
  <1>2. ASSUME NEW n \in 1 .. MaxFields, NewDataTemplate(n) \/ NewOptionTemplate(n)
        PROVE  IpfixInv'
    BY <1>2, NewTemplatesKeep
  <1>3. ASSUME NEW tid \in Tids, NEW ft \in FieldTypes, NEW n \in Flengths[ft],
               AddField(tid, ft, n) \/ AddScopeField(tid, ft, n)
        PROVE  IpfixInv'
    BY <1>3, AddFieldsKeep
  <1>4. ASSUME NEW ft \in FieldTypes, NEW known \in BOOLEAN, NEW n \in Flengths[ft],
               MakeTemplate(ft, n, known)
        PROVE  IpfixInv'
    BY <1>4, MakeTemplateKeeps
  <1>5. ASSUME NEW tid \in Tids, DeleteTemplate(tid) PROVE IpfixInv'
    BY <1>5, DeleteTemplateKeeps
  <1>6. ASSUME NEW tid \in Tids, NEW r \in Records, IncludeData(tid, r) PROVE IpfixInv'
    BY <1>6, IncludeDataKeeps
  <1>7. ASSUME NEW table \in PeerTables, Deserialize(table) PROVE IpfixInv'
    BY <1>7, DeserializeKeeps
  <1>8. CASE NewTemplateRefused \/ DeleteAllTemplates \/ Copy \/ Assign \/ Output
    BY <1>8, RefusedKeeps, DeleteAllKeeps, CopyKeeps, AssignKeeps, OutputKeeps
  <1>9. CASE UNCHANGED vars
    <2>1. PeerInv'
      BY <1>9 DEF vars, IpfixInv, PeerInv
    <2>2. QED
      BY <1>9, <2>1 DEF vars, IpfixInv
  <1>10. QED
    BY <1>1, <1>2, <1>3, <1>4, <1>5, <1>6, <1>7, <1>8, <1>9 DEF Next

(* The invariant holds of every message, whatever the order of the calls. *)
THEOREM IpfixInvariant == Spec => []IpfixInv
  <1>1. QED
    BY IpfixInit, IpfixStep, PTL DEF Spec

(* A message is well formed: its templates have ids that the message gave out   *)
(* and at most the fields they were made for, its counters are natural numbers. *)
THEOREM IpfixTyped == Spec => []IpfixTypeOK
  <1>1. IpfixInv => IpfixTypeOK
    <2> SUFFICES ASSUME IpfixInv PROVE IpfixTypeOK
      OBVIOUS
    <2>1. MessageOK(msg) /\ TemplatesOK(msg.templates, msg.lasttid)
      BY DEF IpfixInv, MessageOK
    <2>2. ASSUME NEW tid \in DOMAIN msg.templates
          PROVE  LET t == msg.templates[tid] IN
                 /\ t.type \in {"data", "option"} /\ t.sent \in BOOLEAN
                 /\ NumFields(t) <= t.maxfields
                 /\ t.type = "data" => t.scopefields = <<>>
      <3> DEFINE t == msg.templates[tid]
      <3>1. TemplateOK(t) /\ t \in Templates
        BY <2>1 DEF TemplatesOK, TemplateOK
      <3> HIDE DEF t
      <3>2. t.type \in {"data", "option"} /\ t.sent \in BOOLEAN
        BY <3>1 DEF Templates
      <3>3. QED
        BY <3>1, <3>2 DEF TemplateOK, t
    <2>3. DOMAIN msg.templates \subseteq Tids
          /\ \A tid \in DOMAIN msg.templates : tid <= msg.lasttid
      BY <2>1 DEF TemplatesOK
    <2>4. {msg.nrecords, msg.seqno, msg.offset, msg.length, outputs} \subseteq Nat
      <3>1. msg.nrecords \in Nat /\ msg.seqno \in Nat /\ msg.offset \in Nat /\ msg.length \in Nat
        BY <2>1 DEF MessageOK
      <3>2. outputs \in Nat
        BY DEF IpfixInv
      <3>3. QED
        BY <3>1, <3>2
    <2>5. peer.status \in {"unread", "ok", "throws", "fault", "misread", "refused"}
      <3>1. CASE peer = Unread
        BY <3>1 DEF Unread
      <3>2. CASE peer # Unread
        BY <3>2 DEF IpfixInv, PeerInv
      <3>3. QED
        BY <3>1, <3>2
    <2>6. /\ msg.lasttid \in FirstTid - 1 .. FirstTid + MaxTemplates - 1
          /\ msg.data \in Seq(Records) /\ msg.require_output \in BOOLEAN
      BY <2>1 DEF MessageOK
    <2>7. QED
      BY <2>2, <2>3, <2>4, <2>5, <2>6 DEF IpfixTypeOK, IpfixInv
  <1>2. QED
    BY <1>1, IpfixInvariant, PTL

(* A buffer that may be sent says what the templates and the records say now: *)
(* no operation between output() and the sending leaves it outdated.          *)
THEOREM ExportCurrentSafe == Spec => []ExportCurrent
  <1>1. IpfixInv => ExportCurrent
    <2> SUFFICES ASSUME IpfixInv, ~msg.require_output
                 PROVE  /\ DataSets(msg) = CurrentDataSets(msg)
                        /\ \A i \in DOMAIN msg.buffer :
                              LET s == msg.buffer[i] IN
                              s.kind # "record" =>
                                  HasTemplate(msg, s.id) /\ s = TemplateSet(s.id, msg.templates[s.id])
      BY DEF ExportCurrent
    <2>1. Ready(msg)
      BY DEF IpfixInv
    <2>2. DataSets(msg) = OnlyData(msg.buffer)
      BY DEF DataSets, OnlyData, DataSetsFold
    <2>3. DataSets(msg) = CurrentDataSets(msg)
      BY <2>1, <2>2 DEF Ready
    <2>4. Current(msg.buffer, msg.templates)
      BY <2>1 DEF Ready
    <2>5. QED
      BY <2>3, <2>4 DEF Current, HasTemplate
  <1>2. QED
    BY <1>1, IpfixInvariant, PTL

LEMMA WordsOf ==
    ASSUME NEW n \in Nat
    PROVE  LET k == n + ((4 - (n % 4)) % 4)
           IN  k % 4 = 0 /\ k - n \in 0 .. 3
  <1> DEFINE q == n \div 4
             r == n % 4
  <1>1. q \in Nat /\ r \in 0 .. 3 /\ n = 4 * q + r
    OBVIOUS
  <1> HIDE DEF q, r
  <1>2. CASE r = 0
    BY <1>1, <1>2
  <1>3. CASE r # 0
    BY <1>1, <1>3
  <1>4. QED
    BY <1>2, <1>3

(* The offset that output_set() counts up by sizes announced in advance is the   *)
(* size of what was written, it fits the buffer, the length in the header is it, *)
(* and a peer that accepts the message has read as far as that.                  *)
THEOREM SizesAgreeSafe == Spec => []SizesAgree
  <1>1. IpfixInv => SizesAgree
    <2> SUFFICES ASSUME IpfixInv PROVE SizesAgree
      OBVIOUS
    <2>1. ASSUME ~msg.require_output
          PROVE  /\ msg.offset = HeaderSize(msg) + SumOver(msg.buffer, SetSize)
                 /\ msg.offset <= BufLen
                 /\ BodySize(msg) % 4 = 0 /\ BodySize(msg) - msg.offset \in 0 .. 3
                 /\ msg.version = "IPFIX" => msg.length = msg.offset
      <3>1. Ready(msg) /\ msg.offset \in Nat
        BY <2>1 DEF IpfixInv, MessageOK
      <3>2. BodySize(msg) % 4 = 0 /\ BodySize(msg) - msg.offset \in 0 .. 3
        BY <3>1, WordsOf DEF BodySize
      <3>3. msg.offset = HeaderSize(msg) + SumOver(msg.buffer, SetSize)
        BY <3>1 DEF Ready, SetSum
      <3>4. QED
        BY <3>1, <3>2, <3>3 DEF Ready
    <2>2. peer.status = "ok" => peer.nread = msg.offset
      <3>1. CASE peer = Unread
        BY <3>1 DEF Unread
      <3>2. CASE peer # Unread
        BY <3>2 DEF IpfixInv, PeerInv
      <3>3. QED
        BY <3>1, <3>2
    <2>3. QED
      BY <2>1, <2>2 DEF SizesAgree
  <1>2. QED
    BY <1>1, IpfixInvariant, PTL

(***************************************************************************)
(* The template sets of a buffer in order, and the data sets behind them.  *)
(***************************************************************************)
OnlyTemplates(b) == TemplateSetsFold(<<>>, b)

LEMMA TemplateSetsAre ==
    ASSUME NEW m
    PROVE  TemplateSets(m) = OnlyTemplates(m.buffer) /\ DataSets(m) = OnlyData(m.buffer)
  BY DEF TemplateSets, OnlyTemplates, TemplateSetsFold, DataSets, OnlyData, DataSetsFold

LEMMA OneMore ==
    ASSUME NEW S, NEW b \in Seq(S), NEW k \in Nat, NEW i \in Nat, i + 1 <= Len(b)
    PROVE  /\ k <= i => Append(SubSeq(b, k + 1, i), b[i + 1]) = SubSeq(b, k + 1, i + 1)
           /\ k > i => SubSeq(b, k + 1, i + 1) = <<>>
  OBVIOUS

(* The first n sets of a buffer are template sets, the others are data sets. *)
Parted(b, n) ==
    /\ n \in 0 .. Len(b)
    /\ \A i \in DOMAIN b : b[i].kind = "record" <=> i > n

LEMMA Partition ==
    ASSUME NEW b \in Seq(WireSets), NEW n, Parted(b, n)
    PROVE  OnlyTemplates(b) = SubSeq(b, 1, n) /\ OnlyData(b) = SubSeq(b, n + 1, Len(b))
  <1> DEFINE l == Len(b)
  <1>1. l \in Nat /\ DOMAIN b = 1 .. l /\ n \in Nat /\ n <= l
        /\ \A i \in 1 .. l : b[i].kind = "record" <=> i > n
    BY DEF Parted
  <1> HIDE DEF l
  <1>2. PICK p : /\ Trace(p, "templatesets", 0, 0, <<>>, b, l)
                 /\ TemplateSetsFold(<<>>, b) = p[l]
    BY <1>1, TemplateSetsTraced
  <1>3. PICK q : Trace(q, "datasets", 0, 0, <<>>, b, l) /\ DataSetsFold(<<>>, b) = q[l]
    BY <1>1, DataSetsTraced
  <1> DEFINE T == {i \in Nat : i <= l =>
                       /\ i <= n => p[i] = SubSeq(b, 1, i)
                       /\ n < i => p[i] = SubSeq(b, 1, n)
                       /\ i <= n => q[i] = <<>>
                       /\ n <= i => q[i] = SubSeq(b, n + 1, i)}
  <1>4. 0 \in T
    <2>1. p[0] = <<>> /\ q[0] = <<>>
      BY <1>2, <1>3 DEF Trace
    <2>2. SubSeq(b, 1, 0) = <<>> /\ (n = 0 => SubSeq(b, n + 1, 0) = <<>>)
      OBVIOUS
    <2>3. ~(n < 0) /\ (n <= 0 => n = 0)
      BY <1>1
    <2>4. p[0] = SubSeq(b, 1, 0) /\ (n <= 0 => q[0] = SubSeq(b, n + 1, 0))
      BY <2>1, <2>2, <2>3
    <2>5. QED
      BY <2>1, <2>3, <2>4
  <1>5. ASSUME NEW i \in T PROVE i + 1 \in T
    <2> SUFFICES ASSUME i + 1 <= l
                 PROVE  /\ i + 1 <= n => p[i + 1] = SubSeq(b, 1, i + 1)
                        /\ n < i + 1 => p[i + 1] = SubSeq(b, 1, n)
                        /\ i + 1 <= n => q[i + 1] = <<>>
                        /\ n <= i + 1 => q[i + 1] = SubSeq(b, n + 1, i + 1)
      OBVIOUS
    <2>1. /\ i \in Nat /\ i + 1 \in 1 .. l /\ (i + 1) - 1 = i
          /\ i <= n => p[i] = SubSeq(b, 1, i)
          /\ n < i => p[i] = SubSeq(b, 1, n)
          /\ i <= n => q[i] = <<>>
          /\ n <= i => q[i] = SubSeq(b, n + 1, i)
      BY <1>1
    <2> DEFINE x == b[i + 1]
    <2>2. p[i + 1] = IF x.kind # "record" THEN Append(p[i], x) ELSE p[i]
      <3>1. p[i + 1] = FoldStep("templatesets", 0, 0, p[i], x)
        BY <1>2, <2>1 DEF Trace
      <3>2. QED
        BY <3>1 DEF FoldStep
    <2>3. q[i + 1] = IF x.kind = "record" THEN Append(q[i], x) ELSE q[i]
      <3>1. q[i + 1] = FoldStep("datasets", 0, 0, q[i], x)
        BY <1>3, <2>1 DEF Trace
      <3>2. QED
        BY <3>1 DEF FoldStep
    <2>4. /\ Append(SubSeq(b, 1, i), x) = SubSeq(b, 1, i + 1)
          /\ n <= i => Append(SubSeq(b, n + 1, i), x) = SubSeq(b, n + 1, i + 1)
          /\ n > i => SubSeq(b, n + 1, i + 1) = <<>>
      <3>1. i + 1 <= Len(b)
        BY DEF l
      <3>2. Append(SubSeq(b, 0 + 1, i), x) = SubSeq(b, 0 + 1, i + 1)
        BY <2>1, <3>1, OneMore
      <3>3. Append(SubSeq(b, 1, i), x) = SubSeq(b, 1, i + 1)
        BY <3>2
      <3>4. n <= i => Append(SubSeq(b, n + 1, i), x) = SubSeq(b, n + 1, i + 1)
        BY <1>1, <2>1, <3>1, OneMore
      <3>5. n > i => SubSeq(b, n + 1, i + 1) = <<>>
        BY <1>1, <2>1, <3>1, OneMore
      <3>6. QED
        BY <3>3, <3>4, <3>5
    <2>5. x.kind = "record" <=> i + 1 > n
      BY <1>1, <2>1
    <2> HIDE DEF x
    <2>6. CASE i + 1 <= n
      <3>1. i <= n /\ n > i /\ ~(n < i + 1)
        BY <1>1, <2>1, <2>6
      <3>2. p[i + 1] = Append(p[i], x) /\ q[i + 1] = q[i]
        BY <1>1, <2>1, <2>2, <2>3, <2>5, <2>6
      <3>3. p[i + 1] = SubSeq(b, 1, i + 1) /\ q[i + 1] = <<>>
        BY <2>1, <2>4, <3>1, <3>2
      <3>4. q[i + 1] = SubSeq(b, n + 1, i + 1)
        BY <2>4, <3>1, <3>3
      <3>5. QED
        BY <3>1, <3>3, <3>4
    <2>7. CASE i + 1 > n
      <3>1. p[i + 1] = p[i] /\ q[i + 1] = Append(q[i], x) /\ n <= i
        BY <1>1, <2>1, <2>2, <2>3, <2>5, <2>7
      <3>2. p[i] = SubSeq(b, 1, n)
        BY <1>1, <2>1, <3>1
      <3>3. q[i + 1] = SubSeq(b, n + 1, i + 1)
        BY <2>1, <2>4, <3>1
      <3>4. QED
        BY <1>1, <2>1, <2>7, <3>1, <3>2, <3>3
    <2>8. QED
      BY <1>1, <2>1, <2>6, <2>7
  <1>6. T \in SUBSET Nat
    OBVIOUS
  <1> HIDE DEF T
  <1>7. T = Nat
    BY <1>4, <1>5, <1>6, Induction
  <1>8. p[l] = SubSeq(b, 1, n) /\ q[l] = SubSeq(b, n + 1, l)
    <2>1. l \in T
      BY <1>1, <1>7
    <2>2. /\ l <= n => p[l] = SubSeq(b, 1, l)
          /\ n < l => p[l] = SubSeq(b, 1, n)
          /\ n <= l => q[l] = SubSeq(b, n + 1, l)
      BY <1>1, <2>1 DEF T
    <2>3. QED
      BY <1>1, <2>2
  <1>9. QED
    BY <1>2, <1>3, <1>8 DEF OnlyTemplates, OnlyData, l

(***************************************************************************)
(* The data sets that are due, beside the records they are of.             *)
(***************************************************************************)
DueSet(m, r) == DataSet(r.tid, RecordBody(m.templates[r.tid], r))

DueRecords(m) ==
    {r \in Records : r.tid \in DOMAIN m.templates /\ \E i \in DOMAIN m.data : m.data[i] = r}

DueSets(m) == {DueSet(m, r) : r \in DueRecords(m)}

Matched(sets, recs, m) ==
    /\ sets \in Seq(DueSets(m)) /\ recs \in Seq(DueRecords(m))
    /\ Len(sets) = Len(recs)
    /\ \A i \in 1 .. Len(recs) : sets[i] = DueSet(m, recs[i])

LEMMA MatchOneMore ==
    ASSUME NEW m, NEW sets, NEW recs, Matched(sets, recs, m), NEW r \in DueRecords(m)
    PROVE  Matched(Append(sets, DueSet(m, r)), Append(recs, r), m)
  <1> DEFINE s == DueSet(m, r)
             n == Len(recs)
  <1>1. s \in DueSets(m)
    BY DEF DueSets
  <1>2. /\ sets \in Seq(DueSets(m)) /\ recs \in Seq(DueRecords(m)) /\ Len(sets) = n /\ n \in Nat
        /\ \A i \in 1 .. n : sets[i] = DueSet(m, recs[i])
    BY DEF Matched
  <1> HIDE DEF s
  <1>3. /\ Append(sets, s) \in Seq(DueSets(m)) /\ Len(Append(sets, s)) = n + 1
        /\ Append(sets, s)[n + 1] = s /\ \A i \in 1 .. n : Append(sets, s)[i] = sets[i]
    BY <1>1, <1>2, AppendedIs
  <1>4. /\ Append(recs, r) \in Seq(DueRecords(m)) /\ Len(Append(recs, r)) = n + 1
        /\ Append(recs, r)[n + 1] = r /\ \A i \in 1 .. n : Append(recs, r)[i] = recs[i]
    BY <1>2, AppendedIs
  <1> HIDE DEF n
  <1>5. ASSUME NEW i \in 1 .. n + 1
        PROVE  Append(sets, s)[i] = DueSet(m, Append(recs, r)[i])
    <2>1. CASE i = n + 1
      BY <1>3, <1>4, <2>1 DEF s
    <2>2. CASE i # n + 1
      <3>1. i \in 1 .. n
        BY <1>2, <2>2
      <3>2. QED
        BY <1>2, <1>3, <1>4, <3>1
    <2>3. QED
      BY <2>1, <2>2
  <1>6. QED
    BY <1>3, <1>4, <1>5 DEF Matched, s

LEMMA MatchedOfTemplate ==
    ASSUME NEW m, m.data \in Seq(Records), NEW tid \in DOMAIN m.templates,
           NEW sets, NEW recs, Matched(sets, recs, m)
    PROVE  Matched(AddDataSets(m, sets, tid), AddRecords(m, recs, tid), m)
  <1> DEFINE n == Len(m.data)
  <1>1. n \in Nat /\ DOMAIN m.data = 1 .. n /\ \A i \in 1 .. n : m.data[i] \in Records
    OBVIOUS
  <1> HIDE DEF n
  <1>2. AddDataSets(m, sets, tid) = OfTemplateFold(m, tid, sets, m.data)
    BY DEF AddDataSets, OfTemplateFold
  <1>3. AddRecords(m, recs, tid) = ChosenFold(tid, recs, m.data)
    BY DEF AddRecords, ChosenFold
  <1>4. PICK p : /\ Trace(p, "oftemplate", m, tid, sets, m.data, n)
                 /\ OfTemplateFold(m, tid, sets, m.data) = p[n]
    BY <1>1, OfTemplateTraced
  <1>5. PICK q : Trace(q, "chosen", 0, tid, recs, m.data, n) /\ ChosenFold(tid, recs, m.data) = q[n]
    BY <1>1, ChosenTraced
  <1> DEFINE T == {i \in Nat : i <= n => Matched(p[i], q[i], m)}
  <1>6. 0 \in T
    BY <1>4, <1>5 DEF Trace
  <1>7. ASSUME NEW i \in T PROVE i + 1 \in T
    <2> SUFFICES ASSUME i + 1 <= n PROVE Matched(p[i + 1], q[i + 1], m)
      OBVIOUS
    <2>1. i + 1 \in 1 .. n /\ (i + 1) - 1 = i /\ Matched(p[i], q[i], m)
      BY <1>1
    <2> DEFINE r == m.data[i + 1]
    <2>2. p[i + 1] = IF r.tid = tid
                     THEN Append(p[i], DataSet(tid, RecordBody(m.templates[tid], r))) ELSE p[i]
      <3>1. p[i + 1] = FoldStep("oftemplate", m, tid, p[i], r)
        BY <1>4, <2>1 DEF Trace
      <3>2. QED
        BY <3>1 DEF FoldStep
    <2>3. q[i + 1] = IF r.tid = tid THEN Append(q[i], r) ELSE q[i]
      <3>1. q[i + 1] = FoldStep("chosen", 0, tid, q[i], r)
        BY <1>5, <2>1 DEF Trace
      <3>2. QED
        BY <3>1 DEF FoldStep
    <2>4. r \in Records /\ i + 1 \in DOMAIN m.data
      BY <1>1, <2>1
    <2>5. CASE r.tid = tid
      <3>1. r \in DueRecords(m)
        BY <2>4, <2>5 DEF DueRecords
      <3> HIDE DEF r
      <3>2. p[i + 1] = Append(p[i], DueSet(m, r)) /\ q[i + 1] = Append(q[i], r)
        BY <2>2, <2>3, <2>5 DEF DueSet
      <3>3. QED
        BY <2>1, <3>1, <3>2, MatchOneMore
    <2>6. CASE r.tid # tid
      BY <2>1, <2>2, <2>3, <2>6
    <2>7. QED
      BY <2>5, <2>6
  <1>8. T \in SUBSET Nat
    OBVIOUS
  <1> HIDE DEF T
  <1>9. T = Nat
    BY <1>6, <1>7, <1>8, Induction
  <1>10. Matched(p[n], q[n], m)
    BY <1>1, <1>9 DEF T
  <1>11. QED
    BY <1>2, <1>3, <1>4, <1>5, <1>10

LEMMA MatchedOfKind ==
    ASSUME NEW m, m.data \in Seq(Records), NEW k, NEW sets, NEW recs, Matched(sets, recs, m)
    PROVE  Matched(DueFold(m, k, sets, TidOrder), ListedFold(m, k, recs, TidOrder), m)
  <1> DEFINE n == MaxTemplates
             o == TidOrder
  <1>1. n \in Nat /\ DOMAIN o = 1 .. n
    BY OrderIs
  <1> HIDE DEF n, o
  <1>2. PICK p : Trace(p, "due", m, k, sets, o, n) /\ DueFold(m, k, sets, o) = p[n]
    BY <1>1, DueTraced
  <1>3. PICK q : Trace(q, "listed", m, k, recs, o, n) /\ ListedFold(m, k, recs, o) = q[n]
    BY <1>1, ListedTraced
  <1> DEFINE T == {i \in Nat : i <= n => Matched(p[i], q[i], m)}
  <1>4. 0 \in T
    BY <1>2, <1>3 DEF Trace
  <1>5. ASSUME NEW i \in T PROVE i + 1 \in T
    <2> SUFFICES ASSUME i + 1 <= n PROVE Matched(p[i + 1], q[i + 1], m)
      OBVIOUS
    <2>1. i + 1 \in 1 .. n /\ (i + 1) - 1 = i /\ Matched(p[i], q[i], m)
      BY <1>1
    <2> DEFINE tid == o[i + 1]
    <2>2. p[i + 1] = IF OfKind(m, k, tid) THEN AddDataSets(m, p[i], tid) ELSE p[i]
      <3>1. p[i + 1] = FoldStep("due", m, k, p[i], tid)
        BY <1>2, <2>1 DEF Trace
      <3>2. QED
        BY <3>1 DEF FoldStep
    <2>3. q[i + 1] = IF OfKind(m, k, tid) THEN AddRecords(m, q[i], tid) ELSE q[i]
      <3>1. q[i + 1] = FoldStep("listed", m, k, q[i], tid)
        BY <1>3, <2>1 DEF Trace
      <3>2. QED
        BY <3>1 DEF FoldStep
    <2> HIDE DEF tid
    <2>4. CASE OfKind(m, k, tid)
      <3>1. tid \in DOMAIN m.templates
        BY <2>4 DEF OfKind, HasTemplate
      <3>2. QED
        BY <2>1, <2>2, <2>3, <2>4, <3>1, MatchedOfTemplate
    <2>5. CASE ~OfKind(m, k, tid)
      BY <2>1, <2>2, <2>3, <2>5
    <2>6. QED
      BY <2>4, <2>5
  <1>6. T \in SUBSET Nat
    OBVIOUS
  <1> HIDE DEF T
  <1>7. T = Nat
    BY <1>4, <1>5, <1>6, Induction
  <1>8. Matched(p[n], q[n], m)
    BY <1>1, <1>7 DEF T
  <1>9. QED
    BY <1>2, <1>3, <1>8 DEF n, o

LEMMA ExportedMatches ==
    ASSUME NEW m, m.data \in Seq(Records)
    PROVE  Matched(CurrentDataSets(m), Exported(m), m)
  <1>1. PICK none : none = <<>>
    OBVIOUS
  <1>2. Matched(none, none, m)
    BY <1>1 DEF Matched
  <1> DEFINE s == DueFold(m, "option", none, TidOrder)
             r == ListedFold(m, "option", none, TidOrder)
  <1>3. Matched(s, r, m)
    BY <1>2, MatchedOfKind
  <1>4. CurrentDataSets(m) = DueFold(m, "data", s, TidOrder)
    BY <1>1, CurrentIs
  <1>5. Exported(m) = ListedFold(m, "data", r, TidOrder)
    BY <1>1 DEF Exported, InOutputOrder, ForEach, ListedFold
  <1> HIDE DEF s, r
  <1>6. QED
    BY <1>3, <1>4, <1>5, MatchedOfKind

(***************************************************************************)
(* What a peer makes of a record: the fields one after the other, each     *)
(* with the length the exporter gave it.                                   *)
(***************************************************************************)
Legible(f) ==
    /\ f.ft \in FieldTypes /\ f.relay /\ f.ft.coding # "string"
    /\ f.flength \in {VARLEN, f.ft.length}

(* The bytes of a body from a place on. *)
Stands(body, pos, bytes) ==
    /\ pos + Len(bytes) <= Len(body)
    /\ \A i \in 1 .. Len(bytes) : body[pos + i] = bytes[i]

LEMMA PartIs ==
    ASSUME NEW body \in Seq(Nat), NEW from \in Nat, NEW v \in Seq(Nat),
           from + Len(v) <= Len(body), \A i \in 1 .. Len(v) : body[from + i] = v[i]
    PROVE  SubSeq(body, from + 1, from + Len(v)) = v
  OBVIOUS

LEMMA ConcatIs ==
    ASSUME NEW a \in Seq(Nat), NEW b \in Seq(Nat)
    PROVE  /\ a \o b \in Seq(Nat) /\ Len(a) \in Nat /\ Len(b) \in Nat
           /\ Len(a \o b) = Len(a) + Len(b)
           /\ \A i \in 1 .. Len(a) : (a \o b)[i] = a[i]
           /\ \A i \in 1 .. Len(b) : (a \o b)[Len(a) + i] = b[i]
  OBVIOUS

(* A value is as long as its field, unless its length is written before it. *)
LEMMA ValueOfType ==
    ASSUME NEW ft \in FieldTypes, ft.coding # "string", NEW v \in Values[ft]
    PROVE  /\ v \in Seq(Nat) /\ Len(v) \in Nat
           /\ ft.length # VARLEN => Len(v) = ft.length
           /\ Encode(ft, v, TRUE) = v /\ Decode(ft, v, TRUE) = v /\ ~DecodeThrows(ft, v)
  <1>1. v \in Seq(0 .. 255) /\ ValueAgrees(ft, v)
    BY IpfixAssumption
  <1>2. v \in Seq(Nat)
    BY <1>1, BytesAreNumbers
  <1>3. Len(v) \in Nat
    BY <1>2
  <1>4. CASE Numeric(ft)
    <2>1. Len(v) \in IntegerWidths /\ ft.length = Len(v)
      BY <1>1, <1>4 DEF ValueAgrees, IntegerValueAgrees, BytesValueAgrees, CharsValueAgrees,
                        Numeric
    <2>2. QED
      BY <1>2, <1>3, <1>4, <2>1 DEF Encode, EncodeInt, Decode, DecodeInt, DecodeThrows,
                                    IntegerValueAgrees
  <1>5. CASE ~Numeric(ft)
    <2>1. BytesValueAgrees(ft, Len(v))
      BY <1>1, <1>5 DEF ValueAgrees, CharsValueAgrees
    <2>2. ft.length # VARLEN => Len(v) = ft.length
      BY <2>1 DEF BytesValueAgrees
    <2>3. QED
      BY <1>2, <1>3, <1>5, <2>1, <2>2 DEF Encode, Decode, DecodeThrows
  <1>6. QED
    BY <1>4, <1>5

(* The bytes that say how long a value is say how long it is. *)
LEMMA LengthRead ==
    ASSUME NEW f, Legible(f), NEW v \in Values[f.ft], NEW body \in Seq(Nat), NEW at \in Nat,
           NEW says, says = LengthPrefix(f.flength, v),
           at + Len(says) + Len(v) <= Len(body), Stands(body, at, says)
    PROVE  /\ says \in Seq(Nat)
           /\ FieldLength(f, body, at) = [bytes |-> Len(says), len |-> Len(v)]
           /\ f.flength = VARLEN => at < Len(body)
           /\ Len(says) + Len(v) > 0
  <1>1. /\ v \in Seq(Nat) /\ Len(v) \in Nat
        /\ f.ft.length # VARLEN => Len(v) = f.ft.length
    BY ValueOfType DEF Legible
  <1>2. f.ft.length # 0 /\ MaxShortLen \in Nat /\ MaxShortLen < 255
    BY IpfixAssumption DEF Legible
  <1>3. Len(body) \in Nat /\ \A i \in 1 .. Len(says) : body[at + i] = says[i]
    BY DEF Stands
  <1>4. CASE f.flength # VARLEN
    <2>1. f.flength = f.ft.length /\ Len(v) = f.flength
      BY <1>1, <1>4 DEF Legible
    <2>2. says = <<>>
      BY <1>4 DEF LengthPrefix
    <2>3. FieldLength(f, body, at) = [bytes |-> 0, len |-> f.flength]
      BY <1>4 DEF FieldLength
    <2>4. Len(says) = 0 /\ says \in Seq(Nat)
      BY <2>2
    <2>5. QED
      BY <1>1, <1>2, <1>4, <2>1, <2>3, <2>4
  <1>5. CASE f.flength = VARLEN /\ Len(v) > MaxShortLen
    <2>1. says = <<255, Len(v) \div 256, Len(v) % 256>>
      BY <1>5 DEF LengthPrefix
    <2> DEFINE hi == Len(v) \div 256
               lo == Len(v) % 256
    <2>2. hi \in Nat /\ lo \in Nat /\ 256 * hi + lo = Len(v)
      BY <1>1
    <2> HIDE DEF hi, lo
    <2>3. says = <<255, hi, lo>>
      BY <2>1 DEF hi, lo
    <2>4. says \in Seq(Nat) /\ Len(says) = 3 /\ says[1] = 255 /\ says[2] = hi
          /\ says[3] = lo
      BY <2>2, <2>3
    <2>5. body[at + 1] = 255 /\ body[at + 2] = hi /\ body[at + 3] = lo
      <3>1. \A i \in 1 .. 3 : body[at + i] = says[i]
        BY <1>3, <2>4
      <3>2. 1 \in 1 .. 3 /\ 2 \in 1 .. 3 /\ 3 \in 1 .. 3
        OBVIOUS
      <3>3. body[at + 1] = says[1]
        BY <3>1, <3>2
      <3>4. body[at + 2] = says[2]
        BY <3>1, <3>2
      <3>5. body[at + 3] = says[3]
        BY <3>1, <3>2
      <3>6. QED
        BY <2>4, <3>3, <3>4, <3>5
    <2>6. at + 3 <= Len(body) /\ at < Len(body)
      <3>1. at + 3 + Len(v) <= Len(body)
        BY <2>4
      <3>2. QED
        BY <1>1, <1>3, <3>1
    <2>7. FieldLength(f, body, at)
              = [bytes |-> 3, len |-> 256 * body[at + 2] + body[at + 3]]
      BY <1>5, <2>5, <2>6 DEF FieldLength
    <2>8. FieldLength(f, body, at) = [bytes |-> 3, len |-> Len(v)]
      BY <2>2, <2>5, <2>7
    <2>9. Len(says) + Len(v) > 0
      BY <1>1, <2>4
    <2>10. QED
      BY <1>5, <2>4, <2>6, <2>8, <2>9
  <1>6. CASE f.flength = VARLEN /\ ~(Len(v) > MaxShortLen)
    <2>1. says = <<Len(v)>>
      BY <1>6 DEF LengthPrefix
    <2>2. says \in Seq(Nat) /\ Len(says) = 1 /\ says[1] = Len(v)
      BY <1>1, <2>1
    <2>3. body[at + 1] = Len(v)
      <3>1. 1 \in 1 .. Len(says)
        BY <2>2
      <3>2. QED
        BY <1>3, <2>2, <3>1
    <2>4. Len(v) # 255
      BY <1>1, <1>2, <1>6
    <2>5. FieldLength(f, body, at) = [bytes |-> 1, len |-> Len(v)]
      BY <1>6, <2>3, <2>4 DEF FieldLength
    <2>6. at < Len(body) /\ Len(says) + Len(v) > 0
      BY <1>1, <1>3, <2>2
    <2>7. QED
      BY <1>6, <2>2, <2>5, <2>6
  <1>7. QED
    BY <1>4, <1>5, <1>6

DecoderForm(d) == DOMAIN d = {"status", "pos", "left", "vals"}

(* One field, whose value v stands at the reader's place. *)
FieldDue(d, f, v, g, body, all) ==
    /\ DecoderForm(d) /\ d.status = "ok" /\ d.pos \in Nat
    /\ d.left \in Int /\ d.left >= Len(v)
    /\ Legible(f) /\ v \in Values[f.ft]
    /\ g.ft = f.ft /\ g.flength = f.flength
    /\ body \in Seq(Nat) /\ all = LengthPrefix(f.flength, v) \o v
    /\ Stands(body, d.pos, all)

LEMMA FieldRead ==
    ASSUME NEW d, NEW f, NEW v, NEW g, NEW body, NEW all, FieldDue(d, f, v, g, body, all)
    PROVE  LET e == DecodeField(d, g, body)
           IN  /\ DecoderForm(e) /\ e.status = "ok" /\ e.pos = d.pos + Len(all)
               /\ e.left = d.left - Len(v) /\ e.vals = WithValue(d.vals, f.ft, v)
               /\ Len(all) > 0
  <1>0. /\ DecoderForm(d) /\ d.status = "ok" /\ d.pos \in Nat
        /\ d.left \in Int /\ d.left >= Len(v)
        /\ Legible(f) /\ v \in Values[f.ft]
        /\ g.ft = f.ft /\ g.flength = f.flength
        /\ body \in Seq(Nat) /\ all = LengthPrefix(f.flength, v) \o v
        /\ Stands(body, d.pos, all)
    BY DEF FieldDue
  <1> USE <1>0
  <1> DEFINE before == LengthPrefix(f.flength, v)
             pos == d.pos
             e == DecodeField(d, g, body)
  <1>1. v \in Seq(Nat) /\ Len(v) \in Nat /\ Decode(f.ft, v, TRUE) = v /\ ~DecodeThrows(f.ft, v)
    BY ValueOfType DEF Legible
  <1>2. before \in Seq(Nat)
    <2>1. Len(v) \div 256 \in Nat /\ Len(v) % 256 \in Nat
      BY <1>1
    <2>2. QED
      BY <1>1, <2>1 DEF LengthPrefix
  <1> DEFINE k == Len(before)
             l == Len(v)
  <1>3. /\ Len(all) = k + l /\ k \in Nat /\ l \in Nat
        /\ \A i \in 1 .. k : all[i] = before[i]
        /\ \A i \in 1 .. l : all[k + i] = v[i]
    BY <1>1, <1>2, ConcatIs
  <1>4. /\ Len(body) \in Nat /\ pos + Len(all) <= Len(body)
        /\ \A i \in 1 .. Len(all) : body[pos + i] = all[i]
    BY DEF Stands
  <1>5. pos + k + l <= Len(body) /\ \A i \in 1 .. k : body[pos + i] = before[i]
    BY <1>3, <1>4
  <1>6. /\ FieldLength(f, body, pos) = [bytes |-> k, len |-> l]
        /\ f.flength = VARLEN => pos < Len(body)
        /\ k + l > 0
    <2> HIDE DEF before
    <2>1. pos + Len(before) + Len(v) <= Len(body)
      BY <1>5
    <2>2. before = LengthPrefix(f.flength, v) /\ Stands(body, pos, before)
      BY <1>3, <1>4, <1>5 DEF before, Stands
    <2>3. /\ FieldLength(f, body, pos) = [bytes |-> Len(before), len |-> Len(v)]
          /\ f.flength = VARLEN => pos < Len(body)
          /\ Len(before) + Len(v) > 0
      <3> HIDE DEF pos
      <3>1. pos \in Nat
        BY DEF pos
      <3>2. QED
        BY <2>1, <2>2, <3>1, LengthRead
    <2>4. QED
      BY <2>3
  <1>7. FieldLength(g, body, pos) = [bytes |-> k, len |-> l]
    BY <1>6 DEF FieldLength
  <1> DEFINE from == pos + k
  <1>8. \A i \in 1 .. l : body[from + i] = v[i]
    <2> SUFFICES ASSUME NEW i \in 1 .. l PROVE body[from + i] = v[i]
      OBVIOUS
    <2>1. k + i \in 1 .. k + l /\ from + i = pos + (k + i)
      BY <1>3
    <2>2. QED
      BY <1>3, <1>4, <2>1
  <1>9. SubSeq(body, from + 1, from + l) = v
    <2>1. from \in Nat /\ from + Len(v) <= Len(body)
      BY <1>3, <1>5
    <2> HIDE DEF from
    <2>2. QED
      BY <1>1, <1>8, <2>1, PartIs
  <1>10. /\ ~(g.flength = VARLEN /\ d.pos >= Len(body)) /\ ~(d.left < l)
         /\ from + l <= Len(body) /\ from + l = pos + Len(all)
    <2>1. d.left >= l /\ d.left \in Int
      OBVIOUS
    <2> HIDE DEF k, l
    <2>2. ~(d.left < l)
      BY <1>3, <2>1
    <2>3. from + l <= Len(body) /\ from + l = pos + Len(all)
      BY <1>3, <1>4, <1>5
    <2>4. ~(g.flength = VARLEN /\ d.pos >= Len(body))
      BY <1>4, <1>6
    <2>5. QED
      BY <2>2, <2>3, <2>4
  <1> DEFINE u == [d EXCEPT !.pos = from + l, !.left = @ - l,
                            !.vals = WithValue(@, g.ft, Decode(g.ft, v, TRUE))]
  <1>11. e = u
    <2> DEFINE x == FieldLength(g, body, d.pos)
               y == SubSeq(body, d.pos + x.bytes + 1, d.pos + x.bytes + x.len)
    <2>1. x.bytes = k /\ x.len = l
      BY <1>7
    <2> HIDE DEF x
    <2>2. y = v
      BY <1>9, <2>1
    <2> HIDE DEF y, k, l
    <2>3. d.left >= x.len
      BY <1>1, <1>10, <2>1 DEF l
    <2>4. ~(d.left < x.len) /\ ~(d.pos + x.bytes + x.len > Len(body)) /\ ~DecodeThrows(g.ft, y)
          /\ d.pos + x.bytes + x.len <= Len(body)
      BY <1>1, <1>3, <1>4, <1>10, <2>1, <2>2
    <2>5. e = [d EXCEPT !.pos = d.pos + x.bytes + x.len, !.left = @ - x.len,
                        !.vals = WithValue(@, g.ft, Decode(g.ft, y, TRUE))]
      BY <1>10, <2>3, <2>4 DEF DecodeField, x, y
    <2>6. QED
      BY <2>1, <2>2, <2>5
  <1>12. Decode(g.ft, v, TRUE) = v
    BY <1>1
  <1>13. u = [d EXCEPT !.pos = from + l, !.left = d.left - l,
                       !.vals = WithValue(d.vals, f.ft, v)]
    BY <1>12 DEF DecoderForm
  <1> DEFINE np == from + l
             nl == d.left - l
             nv == WithValue(d.vals, f.ft, v)
  <1>14. np = pos + Len(all) /\ u = [d EXCEPT !.pos = np, !.left = nl, !.vals = nv]
    BY <1>10, <1>13
  <1> HIDE DEF u, nv
  <1>15. DecoderForm(u) /\ u.status = "ok" /\ u.pos = np /\ u.left = nl /\ u.vals = nv
    <2> HIDE DEF np, nl
    <2>1. QED
      BY <1>14 DEF DecoderForm
  <1>16. Len(all) > 0
    BY <1>3, <1>6
  <1> HIDE DEF e
  <1>17. QED
    BY <1>11, <1>14, <1>15, <1>16 DEF nv, e

(* A sequence of bytes that another one begins with. *)
Begins(a, b) ==
    /\ a \in Seq(Nat) /\ b \in Seq(Nat) /\ Len(a) <= Len(b)
    /\ \A i \in 1 .. Len(a) : b[i] = a[i]

LEMMA BeginsLonger ==
    ASSUME NEW a, NEW b, Begins(a, b), NEW c \in Seq(Nat)
    PROVE  Begins(a, b \o c) /\ Begins(b \o c, b \o c)
  <1>1. /\ b \o c \in Seq(Nat) /\ Len(b) \in Nat /\ Len(c) \in Nat
        /\ Len(b \o c) = Len(b) + Len(c) /\ \A i \in 1 .. Len(b) : (b \o c)[i] = b[i]
    BY ConcatIs DEF Begins
  <1> DEFINE d == b \o c
  <1>2. /\ a \in Seq(Nat) /\ Len(a) \in Nat /\ Len(a) <= Len(b)
        /\ \A i \in 1 .. Len(a) : b[i] = a[i]
    BY DEF Begins
  <1>3. \A i \in 1 .. Len(a) : i \in 1 .. Len(b)
    BY <1>1, <1>2
  <1> HIDE DEF d
  <1>4. Begins(a, d)
    BY <1>1, <1>2, <1>3 DEF Begins, d
  <1>5. Begins(d, d)
    BY <1>1 DEF Begins, d
  <1>6. QED
    BY <1>4, <1>5 DEF d

LEMMA BeginsStands ==
    ASSUME NEW a \in Seq(Nat), NEW c \in Seq(Nat), NEW b, Begins(a \o c, b)
    PROVE  Stands(b, Len(a), c)
  <1> DEFINE d == a \o c
  <1>1. /\ d \in Seq(Nat) /\ Len(a) \in Nat /\ Len(c) \in Nat /\ Len(d) = Len(a) + Len(c)
        /\ \A i \in 1 .. Len(c) : d[Len(a) + i] = c[i]
    BY ConcatIs
  <1>2. Len(d) <= Len(b) /\ \A i \in 1 .. Len(d) : b[i] = d[i]
    BY DEF Begins
  <1> HIDE DEF d
  <1>3. \A i \in 1 .. Len(c) : Len(a) + i \in 1 .. Len(d)
    BY <1>1
  <1>4. QED
    BY <1>1, <1>2, <1>3 DEF Stands

(* The fields of a template name the values of a record. *)
Names(fs, r) ==
    /\ fs \in Seq(Fields)
    /\ DOMAIN r.vals = {fs[k].ft : k \in 1 .. Len(fs)}
    /\ \A k \in 1 .. Len(fs) : Legible(fs[k])

LEMMA EntryOfItself ==
    ASSUME NEW ft \in FieldTypes
    PROVE  SameMapEntry(ft, ft)
  <1>1. ft.eno \in Nat /\ ft.ftype \in Nat
    BY IpfixAssumption
  <1>2. QED
    BY <1>1 DEF SameMapEntry, KeyLess

LEMMA NamedField ==
    ASSUME NEW r \in Records, NEW fs, Names(fs, r), NEW k \in 1 .. Len(fs)
    PROVE  LET f == fs[k]
               v == r.vals[f.ft]
           IN  /\ Legible(f) /\ f.ft \in DOMAIN r.vals /\ v \in Values[f.ft]
               /\ FieldBytes(r, f) = LengthPrefix(f.flength, v) \o v
               /\ FieldBytes(r, f) \in Seq(Nat)
  <1> DEFINE f == fs[k]
             v == r.vals[f.ft]
             g == CHOOSE x \in DOMAIN r.vals : SameMapEntry(x, f.ft)
  <1>1. Legible(f) /\ f.ft \in DOMAIN r.vals
    BY DEF Names
  <1>2. /\ DOMAIN r.vals \in SUBSET FieldTypes
        /\ \A x \in DOMAIN r.vals : r.vals[x] \in Values[x]
    BY RecordIs
  <1>3. v \in Values[f.ft]
    BY <1>1, <1>2
  <1> HIDE DEF f
  <1>4. /\ v \in Seq(Nat) /\ Len(v) \in Nat /\ Encode(f.ft, v, TRUE) = v
    BY <1>1, <1>3, ValueOfType DEF Legible
  <1>5. RecordHas(r, f.ft) /\ RecordValue(r, f.ft) = v
    <2>1. SameMapEntry(f.ft, f.ft)
      BY <1>1, EntryOfItself DEF Legible
    <2>2. g \in DOMAIN r.vals /\ SameMapEntry(g, f.ft)
      BY <1>1, <2>1
    <2> HIDE DEF g
    <2>3. g = f.ft
      BY <1>1, <1>2, <2>2, IpfixAssumption
    <2>4. RecordValue(r, f.ft) = r.vals[g]
      BY DEF RecordValue, g
    <2>5. QED
      BY <1>1, <2>1, <2>3, <2>4 DEF RecordHas
  <1>6. f.relay = TRUE
    BY <1>1 DEF Legible
  <1>7. FieldBytes(r, f) = LengthPrefix(f.flength, v) \o v
    BY <1>1, <1>4, <1>5 DEF FieldBytes, Legible
  <1>8. FieldBytes(r, f) \in Seq(Nat)
    BY <1>5, FieldBytesAre
  <1>9. QED
    BY <1>1, <1>3, <1>7, <1>8 DEF f

LEMMA BeginsItself ==
    ASSUME NEW a \in Seq(Nat)
    PROVE  Begins(a, a) /\ Len(a) \in Nat
  <1>1. Len(a) \in Nat
    OBVIOUS
  <1>2. QED
    BY <1>1 DEF Begins

(* The body of a record begins with what is written of it after each field. *)
LEMMA BodyGrows ==
    ASSUME NEW r \in Records, NEW fs, Names(fs, r), NEW n, n = Len(fs),
           NEW none, none = <<>>, NEW p, Trace(p, "bytes", r, 0, none, fs, n)
    PROVE  /\ \A k \in 0 .. n : p[k] \in Seq(Nat) /\ Begins(p[k], p[n])
           /\ p[n] \in Seq(Nat)
  <1>1. n \in Nat
    BY DEF Names
  <1> DEFINE T == {i \in Nat : i <= n =>
                       p[i] \in Seq(Nat) /\ \A k \in 0 .. i : Begins(p[k], p[i])}
  <1>2. 0 \in T
    <2>1. p[0] = none /\ none \in Seq(Nat)
      BY DEF Trace
    <2>2. Begins(p[0], p[0])
      BY <2>1, BeginsItself
    <2>3. \A k \in 0 .. 0 : k = 0
      OBVIOUS
    <2>4. QED
      BY <2>1, <2>2, <2>3
  <1>3. ASSUME NEW i \in T PROVE i + 1 \in T
    <2> SUFFICES ASSUME i + 1 <= n
                 PROVE  p[i + 1] \in Seq(Nat) /\ \A k \in 0 .. i + 1 : Begins(p[k], p[i + 1])
      OBVIOUS
    <2>1. /\ i \in Nat /\ i + 1 \in 1 .. n /\ (i + 1) - 1 = i
          /\ p[i] \in Seq(Nat) /\ \A k \in 0 .. i : Begins(p[k], p[i])
      BY <1>1
    <2> DEFINE c == FieldBytes(r, fs[i + 1])
    <2>2. p[i + 1] = p[i] \o c
      <3>1. p[i + 1] = FoldStep("bytes", r, 0, p[i], fs[i + 1])
        BY <2>1 DEF Trace
      <3>2. QED
        BY <3>1 DEF FoldStep
    <2>3. c \in Seq(Nat)
      BY <2>1, NamedField
    <2> HIDE DEF c
    <2>4. p[i + 1] \in Seq(Nat)
      BY <2>1, <2>2, <2>3, ConcatIs
    <2>5. Begins(p[i + 1], p[i + 1])
      BY <2>4, BeginsItself
    <2>6. ASSUME NEW k \in 0 .. i PROVE Begins(p[k], p[i + 1])
      <3>1. Begins(p[k], p[i])
        BY <2>1
      <3>2. Begins(p[k], p[i] \o c)
        BY <2>3, <3>1, BeginsLonger
      <3>3. QED
        BY <2>2, <3>2
    <2>7. \A k \in 0 .. i + 1 : k \in 0 .. i \/ k = i + 1
      BY <2>1
    <2>8. QED
      BY <2>4, <2>5, <2>6, <2>7
  <1>4. T \in SUBSET Nat
    OBVIOUS
  <1> HIDE DEF T
  <1>5. T = Nat
    BY <1>2, <1>3, <1>4, Induction
  <1>6. p[n] \in Seq(Nat) /\ \A k \in 0 .. n : Begins(p[k], p[n])
    BY <1>1, <1>5 DEF T
  <1>7. ASSUME NEW k \in 0 .. n PROVE p[k] \in Seq(Nat)
    <2>1. k \in T /\ k <= n
      BY <1>1, <1>5
    <2>2. QED
      BY <2>1 DEF T
  <1>8. QED
    BY <1>6, <1>7

(* The values a reader has after k fields. *)
Gathered(vals, k, fs, r) == vals = [g \in {fs[j].ft : j \in 1 .. k} |-> r.vals[g]]

LEMMA GatherNone ==
    ASSUME NEW fs, NEW r, NEW none, none = <<>>
    PROVE  Gathered(none, 0, fs, r)
  <1>1. 1 .. 0 = {}
    OBVIOUS
  <1>2. {fs[j].ft : j \in 1 .. 0} = {}
    BY <1>1
  <1>3. DOMAIN none = {} /\ none = [g \in {} |-> r.vals[g]]
    OBVIOUS
  <1>4. QED
    BY <1>2, <1>3 DEF Gathered

LEMMA GatherOneMore ==
    ASSUME NEW fs, NEW r, NEW k \in Nat, NEW vals, Gathered(vals, k, fs, r),
           NEW ft, ft = fs[k + 1].ft
    PROVE  Gathered(WithValue(vals, ft, r.vals[ft]), k + 1, fs, r)
  <1> DEFINE D == {fs[j].ft : j \in 1 .. k}
             E == {fs[j].ft : j \in 1 .. k + 1}
  <1>1. E = D \cup {ft}
    <2>1. 1 .. k + 1 = (1 .. k) \cup {k + 1}
      OBVIOUS
    <2>2. QED
      BY <2>1
  <1>2. vals = [g \in D |-> r.vals[g]]
    BY DEF Gathered
  <1> HIDE DEF D, E
  <1>3. DOMAIN vals = D
    BY <1>2
  <1>4. WithValue(vals, ft, r.vals[ft])
            = [g \in D \cup {ft} |-> IF g \in D THEN vals[g] ELSE r.vals[ft]]
    BY <1>3 DEF WithValue
  <1>5. \A g \in D \cup {ft} : (IF g \in D THEN vals[g] ELSE r.vals[ft]) = r.vals[g]
    BY <1>2
  <1>6. WithValue(vals, ft, r.vals[ft]) = [g \in E |-> r.vals[g]]
    BY <1>1, <1>4, <1>5
  <1>7. QED
    BY <1>6 DEF Gathered, E

LEMMA GatherAll ==
    ASSUME NEW r \in Records, NEW fs, Names(fs, r), NEW vals, Gathered(vals, Len(fs), fs, r)
    PROVE  vals = r.vals
  <1>1. Records = UNION {RecordsOver(S) : S \in SUBSET FieldTypes}
    BY DEF Records, RecordsOver
  <1>2. PICK S \in SUBSET FieldTypes : r \in RecordsOver(S)
    BY <1>1
  <1> DEFINE V == UNION {Values[ft] : ft \in S}
             D == {v \in [S -> V] : \A ft \in S : v[ft] \in Values[ft]}
  <1>3. r \in [tid : Tids, vals : D]
    BY <1>2 DEF RecordsOver
  <1>4. r.vals \in D
    <2> HIDE DEF D
    <2>1. QED
      BY <1>3
  <1>5. r.vals \in [S -> V]
    <2> HIDE DEF V
    <2>1. QED
      BY <1>4
  <1>6. r.vals = [g \in DOMAIN r.vals |-> r.vals[g]]
    <2> HIDE DEF V
    <2>1. QED
      BY <1>5
  <1>7. DOMAIN r.vals = {fs[j].ft : j \in 1 .. Len(fs)}
    BY DEF Names
  <1>8. QED
    BY <1>6, <1>7 DEF Gathered

(* The fields a reader has for a record: those of the exporter. *)
SameSpecs(gs, fs) ==
    /\ DOMAIN gs = 1 .. Len(fs)
    /\ \A k \in 1 .. Len(fs) : gs[k].ft = fs[k].ft /\ gs[k].flength = fs[k].flength

(* A reader behind k fields, whose bytes are those before its place. *)
Behind(d, k, bytes, fs, r, total) ==
    /\ DecoderForm(d) /\ d.status = "ok" /\ d.pos = Len(bytes) /\ d.pos \in Nat
    /\ d.left \in Int /\ d.left >= total - Len(bytes)
    /\ Gathered(d.vals, k, fs, r)

LEMMA NextFieldRead ==
    ASSUME NEW r \in Records, NEW fs, Names(fs, r), NEW k \in Nat, k + 1 <= Len(fs),
           NEW gs, SameSpecs(gs, fs), NEW body \in Seq(Nat), NEW a \in Seq(Nat),
           NEW d, Behind(d, k, a, fs, r, Len(body)),
           NEW b, b = a \o FieldBytes(r, fs[k + 1]), Begins(b, body)
    PROVE  /\ Behind(DecodeField(d, gs[k + 1], body), k + 1, b, fs, r, Len(body))
           /\ Len(b) > Len(a)
  <1> DEFINE f == fs[k + 1]
             g == gs[k + 1]
             v == r.vals[f.ft]
             all == FieldBytes(r, f)
             e == DecodeField(d, g, body)
             total == Len(body)
  <1>1. k + 1 \in 1 .. Len(fs)
    BY DEF Names
  <1>2. /\ Legible(f) /\ f.ft \in DOMAIN r.vals /\ v \in Values[f.ft]
        /\ all = LengthPrefix(f.flength, v) \o v /\ all \in Seq(Nat)
    BY <1>1, NamedField
  <1>3. g.ft = f.ft /\ g.flength = f.flength
    BY <1>1 DEF SameSpecs
  <1>4. b = a \o all
    OBVIOUS
  <1>5. v \in Seq(Nat) /\ Len(v) \in Nat
    BY <1>2, ValueOfType DEF Legible
  <1>6. Len(b) = Len(a) + Len(all) /\ Len(a) \in Nat /\ Len(all) \in Nat /\ b \in Seq(Nat)
    <2> HIDE DEF all, f, v
    <2>1. a \in Seq(Nat) /\ all \in Seq(Nat)
      BY <1>2
    <2> DEFINE c == a \o all
    <2>2. c \in Seq(Nat) /\ Len(a) \in Nat /\ Len(all) \in Nat /\ Len(c) = Len(a) + Len(all)
      BY <2>1, ConcatIs
    <2>3. b = c
      BY <1>4
    <2> HIDE DEF c
    <2>4. QED
      BY <2>2, <2>3
  <1>7. Len(b) <= total /\ total \in Nat
    BY DEF Begins
  <1>8. Stands(body, d.pos, all)
    <2> HIDE DEF all
    <2>1. Stands(body, Len(a), all)
      BY <1>2, <1>4, BeginsStands
    <2>2. QED
      BY <2>1 DEF Behind
  <1>9. Len(v) <= Len(all)
    <2> DEFINE pre == LengthPrefix(f.flength, v)
    <2>1. pre \in Seq(Nat)
      <3> DEFINE l == Len(v)
      <3>0. l \in Nat
        BY <1>5
      <3> HIDE DEF l
      <3>1a. l \div 256 \in Nat /\ l % 256 \in Nat
        BY <3>0
      <3>1. Len(v) \div 256 \in Nat /\ Len(v) % 256 \in Nat
        BY <3>1a DEF l
      <3>2. \A x, y, z \in Nat : <<x, y, z>> \in Seq(Nat) /\ <<z>> \in Seq(Nat)
        OBVIOUS
      <3>3. <<>> \in Seq(Nat)
        OBVIOUS
      <3> HIDE DEF v
      <3>4. QED
        BY <1>5, <3>1, <3>2, <3>3 DEF LengthPrefix
    <2>2. all = pre \o v
      BY <1>2
    <2> HIDE DEF pre, all, v
    <2>3. Len(all) = Len(pre) + Len(v) /\ Len(pre) \in Nat /\ Len(v) \in Nat
      BY <1>5, <2>1, <2>2, ConcatIs
    <2>4. QED
      BY <1>6, <2>3
  <1>10. /\ DecoderForm(d) /\ d.status = "ok" /\ d.pos \in Nat /\ d.left \in Int
         /\ d.pos = Len(a) /\ d.left >= total - Len(a)
    BY DEF Behind
  <1> HIDE DEF f, g, v, all, e, total
  <1>11. d.left >= Len(v)
    BY <1>5, <1>6, <1>7, <1>9, <1>10
  <1>12. /\ DecoderForm(e) /\ e.status = "ok" /\ e.pos = d.pos + Len(all)
         /\ e.left = d.left - Len(v) /\ e.vals = WithValue(d.vals, f.ft, v)
         /\ Len(all) > 0
    <2>1. body \in Seq(Nat)
      OBVIOUS
    <2> DEFINE x == DecodeField(d, g, body)
    <2>2. /\ DecoderForm(x) /\ x.status = "ok" /\ x.pos = d.pos + Len(all)
          /\ x.left = d.left - Len(v) /\ x.vals = WithValue(d.vals, f.ft, v)
          /\ Len(all) > 0
      <3>1. Legible(f) /\ v \in Values[f.ft] /\ all = LengthPrefix(f.flength, v) \o v
        BY <1>2
      <3>2. g.ft = f.ft /\ g.flength = f.flength /\ Stands(body, d.pos, all)
        BY <1>3, <1>8
      <3>3. DecoderForm(d) /\ d.status = "ok" /\ d.pos \in Nat /\ d.left \in Int
            /\ d.left >= Len(v)
        BY <1>10, <1>11
      <3>4. QED
        <4>1. FieldDue(d, f, v, g, body, all)
          BY <2>1, <3>1, <3>2, <3>3 DEF FieldDue
        <4>2. QED
          BY <4>1, FieldRead
    <2>3. x = e
      BY DEF e
    <2> HIDE DEF x
    <2>4. QED
      BY <2>2, <2>3
  <1>13. Gathered(e.vals, k + 1, fs, r)
    <2>1. Gathered(d.vals, k, fs, r)
      BY DEF Behind
    <2>2. f.ft = fs[k + 1].ft
      BY DEF f
    <2>3. Gathered(WithValue(d.vals, f.ft, r.vals[f.ft]), k + 1, fs, r)
      BY <2>1, <2>2, GatherOneMore
    <2>4. QED
      BY <1>12, <2>3 DEF v
  <1>14. e.pos = Len(b) /\ e.pos \in Nat /\ e.left \in Int /\ e.left >= total - Len(b)
         /\ Len(b) > Len(a)
    BY <1>5, <1>6, <1>7, <1>9, <1>10, <1>12
  <1>15. Behind(e, k + 1, b, fs, r, total)
    BY <1>12, <1>13, <1>14 DEF Behind
  <1>16. QED
    BY <1>14, <1>15 DEF e, g, total

StartOfBody(body) == [status |-> "ok", pos |-> 0, left |-> Len(body) - 0, vals |-> <<>>]

(* All of a record is read, and it is what the user gave. *)
LEMMA RecordRead ==
    ASSUME NEW r \in Records, NEW fs, Names(fs, r), NEW gs, SameSpecs(gs, fs),
           NEW body, body = BytesFold(r, <<>>, fs)
    PROVE  LET d == FieldsFold(body, StartOfBody(body), gs)
           IN  /\ body \in Seq(Nat)
               /\ d.status = "ok" /\ d.pos = Len(body) /\ d.vals = r.vals
               /\ Len(fs) > 0 => Len(body) > 0
  <1> DEFINE n == Len(fs)
             base == StartOfBody(body)
  <1>1. n \in Nat /\ DOMAIN fs = 1 .. n /\ DOMAIN gs = 1 .. n
    BY DEF Names, SameSpecs
  <1>2. PICK none : none = <<>>
    OBVIOUS
  <1> HIDE DEF n, base
  <1>3. PICK p : Trace(p, "bytes", r, 0, none, fs, n) /\ BytesFold(r, none, fs) = p[n]
    BY <1>1, BytesTraced
  <1>4. body = p[n]
    BY <1>2, <1>3
  <1>5. PICK q : /\ Trace(q, "fields", body, 0, base, gs, n)
                 /\ FieldsFold(body, base, gs) = q[n]
    BY <1>1, FieldsTraced
  <1>6. body \in Seq(Nat) /\ \A k \in 0 .. n : p[k] \in Seq(Nat) /\ Begins(p[k], body)
    BY <1>2, <1>3, <1>4, BodyGrows DEF n
  <1> DEFINE total == Len(body)
             T == {i \in Nat : i <= n =>
                       /\ Behind(q[i], i, p[i], fs, r, total)
                       /\ i > 0 => Len(p[i]) > 0}
  <1>7. 0 \in T
    <2>1. p[0] = none /\ q[0] = base /\ Len(none) = 0 /\ total \in Nat
      BY <1>2, <1>3, <1>5, <1>6 DEF Trace
    <2>2. /\ DecoderForm(base) /\ base.status = "ok" /\ base.pos = 0
          /\ base.left = total - 0 /\ base.vals = none
      BY <1>2 DEF base, StartOfBody, DecoderForm
    <2>3. Gathered(none, 0, fs, r)
      BY <1>2, GatherNone
    <2> HIDE DEF total
    <2>4. Behind(base, 0, none, fs, r, total)
      BY <2>1, <2>2, <2>3 DEF Behind
    <2>5. QED
      BY <2>1, <2>4
  <1>8. ASSUME NEW i \in T PROVE i + 1 \in T
    <2> SUFFICES ASSUME i + 1 <= n
                 PROVE  /\ Behind(q[i + 1], i + 1, p[i + 1], fs, r, total)
                        /\ Len(p[i + 1]) > 0
      OBVIOUS
    <2>1. /\ i \in Nat /\ i + 1 \in 1 .. n /\ (i + 1) - 1 = i /\ i \in 0 .. n
          /\ i + 1 \in 0 .. n /\ Behind(q[i], i, p[i], fs, r, total)
      BY <1>1
    <2>2. p[i + 1] = p[i] \o FieldBytes(r, fs[i + 1])
      <3>1. p[i + 1] = FoldStep("bytes", r, 0, p[i], fs[i + 1])
        BY <1>3, <2>1 DEF Trace
      <3>2. QED
        BY <3>1 DEF FoldStep
    <2>3. q[i + 1] = DecodeField(q[i], gs[i + 1], body)
      <3>1. q[i + 1] = FoldStep("fields", body, 0, q[i], gs[i + 1])
        BY <1>5, <2>1 DEF Trace
      <3>2. QED
        BY <3>1 DEF FoldStep
    <2>4. p[i] \in Seq(Nat) /\ Begins(p[i + 1], body) /\ Len(p[i]) \in Nat
      BY <1>6, <2>1
    <2>5. i + 1 <= Len(fs)
      BY DEF n
    <2>6. /\ Behind(DecodeField(q[i], gs[i + 1], body), i + 1, p[i + 1], fs, r, total)
          /\ Len(p[i + 1]) > Len(p[i])
      BY <1>6, <2>1, <2>2, <2>4, <2>5, NextFieldRead
    <2>7. p[i + 1] \in Seq(Nat)
      BY <1>6, <2>1
    <2>8. Len(p[i + 1]) > 0
      BY <2>4, <2>6, <2>7
    <2>9. QED
      BY <2>3, <2>6, <2>8
  <1>9. T \in SUBSET Nat
    OBVIOUS
  <1> HIDE DEF T
  <1>10. T = Nat
    BY <1>7, <1>8, <1>9, Induction
  <1>11. Behind(q[n], n, body, fs, r, total) /\ (n > 0 => Len(body) > 0)
    BY <1>1, <1>4, <1>10 DEF T
  <1>12. q[n].vals = r.vals
    <2>1. Gathered(q[n].vals, Len(fs), fs, r)
      BY <1>11 DEF Behind, n
    <2>2. QED
      BY <2>1, GatherAll
  <1>13. q[n].status = "ok" /\ q[n].pos = Len(body)
    BY <1>11 DEF Behind
  <1>14. QED
    BY <1>5, <1>6, <1>11, <1>12, <1>13 DEF base, n

(***************************************************************************)
(* One set of the buffer.  A data set holds one record: the first turn of  *)
(* the loop reads all of it, and the other turns find nothing left.        *)
(***************************************************************************)
Gained(u, p, data) ==
    /\ PeerForm(u) /\ u.status = p.status /\ u.version = p.version
    /\ u.templates = p.templates /\ u.lasttid = p.lasttid /\ u.data = data
    /\ u.count = p.count /\ u.seqno = p.seqno /\ u.time = p.time /\ u.length = p.length
    /\ u.nread = p.nread /\ u.sets = p.sets /\ u.table = p.table

RecordDue(p, s, fs, r) ==
    /\ PeerForm(p) /\ p.status = "ok" /\ s.id \in DOMAIN p.templates
    /\ SameSpecs(TemplateFields(p.templates[s.id]), fs)
    /\ r \in Records /\ Names(fs, r) /\ fs # <<>>
    /\ s.body = BytesFold(r, <<>>, fs)

LEMMA DataSetRead ==
    ASSUME NEW p, NEW s, NEW fs, NEW r, RecordDue(p, s, fs, r)
    PROVE  Gained(ReadRecords(p, s), p, Append(p.data, [tid |-> s.id, vals |-> r.vals]))
  <1>0. /\ PeerForm(p) /\ p.status = "ok" /\ s.id \in DOMAIN p.templates
        /\ SameSpecs(TemplateFields(p.templates[s.id]), fs)
        /\ r \in Records /\ Names(fs, r) /\ fs # <<>>
        /\ s.body = BytesFold(r, <<>>, fs)
    BY DEF RecordDue
  <1> DEFINE gs == TemplateFields(p.templates[s.id])
             body == s.body
             n == Len(body)
             base == [pos |-> 0, p |-> p]
             rec == [tid |-> s.id, vals |-> r.vals]
             more == Append(p.data, rec)
             d == DecodeRecord(p, s.id, body, 0)
             u == [p EXCEPT !.status = "ok", !.data = more]
             done == [pos |-> n, p |-> u]
  <1>1. d = FieldsFold(body, StartOfBody(body), gs)
    BY DEF DecodeRecord, FieldsFold, StartOfBody
  <1>2. /\ body \in Seq(Nat) /\ d.status = "ok" /\ d.pos = n /\ d.vals = r.vals
        /\ Len(fs) > 0 => n > 0
    <2> HIDE DEF gs
    <2>1. SameSpecs(gs, fs) /\ body = BytesFold(r, <<>>, fs)
      BY <1>0 DEF gs
    <2> DEFINE x == FieldsFold(body, StartOfBody(body), gs)
    <2>2. /\ body \in Seq(Nat) /\ x.status = "ok" /\ x.pos = Len(body) /\ x.vals = r.vals
          /\ Len(fs) > 0 => Len(body) > 0
      <3> HIDE DEF body
      <3>1. QED
        BY <1>0, <2>1, RecordRead
    <2> HIDE DEF x, d
    <2>3. QED
      BY <1>1, <2>2 DEF x
  <1>3. n \in Nat /\ n > 0 /\ DOMAIN body = 1 .. n
    <2>1. fs \in Seq(Fields)
      BY <1>0 DEF Names
    <2>2. Len(fs) > 0
      BY <1>0, <2>1
    <2>3. QED
      BY <1>2, <2>2
  <1>4. ReadRecords(p, s) = RecordsFold(s, base, body).p
    BY <1>0 DEF ReadRecords, HasTemplate, RecordsFold
  <1>5. base.pos = 0 /\ base.p = p /\ done.pos = n /\ done.p = u
    OBVIOUS
  <1>6. ReadRecordIfLeft(base, s) = done
    <2>1. ReadRecordIfLeft(base, s) = ReadRecord(base, s)
      <3> HIDE DEF base, n
      <3>1. ~(base.p.status # "ok" \/ base.pos >= n)
        BY <1>0, <1>3, <1>5
      <3>2. QED
        BY <3>1 DEF ReadRecordIfLeft, n
    <2>2. ReadRecord(base, s) =
            [pos |-> d.pos,
             p |-> [p EXCEPT !.status = d.status,
                             !.data = IF d.status = "ok"
                                      THEN Append(@, [tid |-> s.id, vals |-> d.vals])
                                      ELSE @]]
      <3> HIDE DEF base
      <3>1. QED
        BY <1>5 DEF ReadRecord
    <2> HIDE DEF d, n
    <2>3. [p EXCEPT !.status = d.status,
                    !.data = IF d.status = "ok"
                             THEN Append(@, [tid |-> s.id, vals |-> d.vals]) ELSE @] = u
      <3>1. [tid |-> s.id, vals |-> d.vals] = rec
        BY <1>2
      <3> HIDE DEF rec
      <3>2. QED
        BY <1>0, <1>2, <3>1 DEF PeerForm
    <2> HIDE DEF u
    <2>4. QED
      BY <1>2, <2>1, <2>2, <2>3
  <1> HIDE DEF more
  <1>7. Gained(u, p, more)
    BY <1>0 DEF Gained, PeerForm
  <1>8. ReadRecordIfLeft(done, s) = done
    <2> HIDE DEF done, u
    <2>1. done.pos >= Len(s.body)
      <3>1. done.pos = n /\ n >= n
        BY <1>3, <1>5
      <3>2. QED
        BY <3>1
    <2>2. QED
      BY <2>1 DEF ReadRecordIfLeft
  <1> HIDE DEF base, done, u, d, n
  <1>9. PICK q : Trace(q, "records", s, 0, base, body, n) /\ RecordsFold(s, base, body) = q[n]
    BY <1>3, RecordsTraced
  <1> DEFINE T == {i \in Nat : i <= n => (IF i = 0 THEN q[i] = base ELSE q[i] = done)}
  <1>10. 0 \in T
    BY <1>9 DEF Trace
  <1>11. ASSUME NEW i \in T PROVE i + 1 \in T
    <2> SUFFICES ASSUME i + 1 <= n PROVE q[i + 1] = done
      OBVIOUS
    <2>1. i + 1 \in 1 .. n /\ (i + 1) - 1 = i /\ (IF i = 0 THEN q[i] = base ELSE q[i] = done)
      BY <1>3
    <2>2. q[i + 1] = FoldStep("records", s, 0, q[i], body[i + 1])
      BY <1>9, <2>1 DEF Trace
    <2>3. q[i + 1] = ReadRecordIfLeft(q[i], s)
      BY <2>2 DEF FoldStep
    <2>4. QED
      BY <1>6, <1>8, <2>1, <2>3
  <1>12. T \in SUBSET Nat
    OBVIOUS
  <1> HIDE DEF T
  <1>13. T = Nat
    BY <1>10, <1>11, <1>12, Induction
  <1>14. q[n] = done
    BY <1>3, <1>13 DEF T
  <1>15. ReadRecords(p, s) = u
    BY <1>4, <1>5, <1>9, <1>14
  <1>16. QED
    BY <1>7, <1>15 DEF more, rec

LEMMA ConcatParts ==
    ASSUME NEW S, NEW a \in Seq(S), NEW b \in Seq(S)
    PROVE  /\ SubSeq(a \o b, 1, Len(a)) = a
           /\ SubSeq(a \o b, Len(a) + 1, Len(a \o b)) = b
  <1>1. Len(a) \in Nat /\ Len(b) \in Nat /\ Len(a \o b) = Len(a) + Len(b)
    OBVIOUS
  <1>2. /\ \A i \in 1 .. Len(a) : (a \o b)[i] = a[i]
        /\ \A i \in 1 .. Len(b) : (a \o b)[Len(a) + i] = b[i]
    OBVIOUS
  <1>3. SubSeq(a \o b, 1, Len(a)) = a
    BY <1>1, <1>2
  <1>4. SubSeq(a \o b, Len(a) + 1, Len(a) + Len(b)) = b
    BY <1>1, <1>2
  <1>5. QED
    BY <1>1, <1>3, <1>4

(***************************************************************************)
(* A template set becomes a template with the fields that the set says.    *)
(***************************************************************************)
ReadFields(table, s) == [i \in 1 .. Len(s.fields) |-> ReadField(table, s.fields[i])]

PeerTemplate(table, s) ==
    LET fields == ReadFields(table, s)
    IN  [NewTemplate(s.kind, Len(fields)) EXCEPT
            !.scopefields = SubSeq(fields, 1, s.nscope),
            !.datafields = SubSeq(fields, s.nscope + 1, Len(fields))]

AllReadable(table, fs) == \A k \in 1 .. Len(fs) : FieldReadable(table, fs[k])

LEMMA FieldKept ==
    ASSUME NEW table, NEW f \in Fields, FieldReadable(table, f)
    PROVE  ReadField(table, [ft |-> f.ft, flength |-> f.flength]) = f
  <1>1. f = [ft |-> f.ft, flength |-> f.flength, relay |-> f.relay] /\ f.relay = TRUE
    BY DEF Fields, FieldReadable
  <1>2. HasField(table, f.ft)
    BY DEF FieldReadable
  <1>3. QED
    BY <1>1, <1>2 DEF ReadField, TemplateField

LEMMA TemplateKept ==
    ASSUME NEW table, NEW tid, NEW t \in Templates, AllReadable(table, TemplateFields(t)),
           NEW s, s = TemplateSet(tid, t)
    PROVE  LET u == PeerTemplate(table, s)
           IN  /\ u.type = t.type /\ u.maxfields = NumFields(t)
               /\ u.scopefields = t.scopefields /\ u.datafields = t.datafields
  <1> DEFINE n == NumFields(t)
             fs == TemplateFields(t)
             gs == [i \in 1 .. n |-> [ft |-> fs[i].ft, flength |-> fs[i].flength]]
             rs == ReadFields(table, s)
  <1>1. n \in Nat /\ fs \in Seq(Fields) /\ Len(fs) = n /\ \A i \in 1 .. n : fs[i] \in Fields
    BY TemplateIs
  <1>2. s.kind = t.type /\ s.nscope = Len(t.scopefields) /\ s.fields = gs
    BY DEF TemplateSet
  <1> HIDE DEF n, fs
  <1>3. Len(gs) = n /\ \A i \in 1 .. n : gs[i] = [ft |-> fs[i].ft, flength |-> fs[i].flength]
    BY <1>1
  <1> HIDE DEF gs
  <1>4. \A i \in 1 .. n : ReadField(table, gs[i]) = fs[i]
    <2> SUFFICES ASSUME NEW i \in 1 .. n PROVE ReadField(table, gs[i]) = fs[i]
      OBVIOUS
    <2>1. FieldReadable(table, fs[i]) /\ fs[i] \in Fields
      BY <1>1 DEF AllReadable, fs
    <2>2. QED
      BY <1>3, <2>1, FieldKept
  <1>5. rs = [i \in 1 .. n |-> ReadField(table, gs[i])]
    BY <1>2, <1>3 DEF ReadFields
  <1>6. rs = fs
    <2>1. rs = [i \in 1 .. n |-> fs[i]]
      BY <1>4, <1>5
    <2> HIDE DEF rs
    <2>2. QED
      BY <1>1, <2>1
  <1> HIDE DEF rs
  <1> DEFINE a == t.scopefields
             c == t.datafields
  <1>7. a \in Seq(Fields) /\ c \in Seq(Fields) /\ fs = a \o c
    BY DEF Templates, fs, TemplateFields
  <1>8. SubSeq(fs, 1, Len(a)) = a /\ SubSeq(fs, Len(a) + 1, Len(fs)) = c
    <2> HIDE DEF a, c
    <2>1. QED
      BY <1>7, ConcatParts
  <1> DEFINE x == SubSeq(rs, 1, s.nscope)
             y == SubSeq(rs, s.nscope + 1, Len(rs))
  <1>9. x = a /\ y = c
    BY <1>2, <1>6, <1>8
  <1>10. PeerTemplate(table, s) =
            [NewTemplate(s.kind, Len(rs)) EXCEPT !.scopefields = x, !.datafields = y]
    BY DEF PeerTemplate, rs
  <1> DEFINE k == Len(rs)
             u == PeerTemplate(table, s)
  <1>11. k = n
    BY <1>1, <1>6
  <1> HIDE DEF x, y, k, u
  <1>12. /\ u.type = s.kind /\ u.maxfields = k
         /\ u.scopefields = x /\ u.datafields = y
    BY <1>10 DEF NewTemplate, k, u
  <1>13. QED
    BY <1>2, <1>9, <1>11, <1>12 DEF u, n

TemplateDue(p, s) ==
    /\ PeerForm(p) /\ p.status = "ok" /\ s.fields # <<>>
    /\ s.kind \in {"data", "option"} /\ s.fields \in Seq(Specifiers)
    /\ p.version \in {"IPFIX", "NF9"} /\ (p.version = "NF9" => s.kind # "option")

Learnt(u, p, tid, ts) ==
    /\ PeerForm(u) /\ u.status = p.status /\ u.version = p.version
    /\ u.templates = ts /\ u.lasttid = tid /\ u.data = p.data
    /\ u.count = p.count /\ u.seqno = p.seqno /\ u.time = p.time /\ u.length = p.length
    /\ u.nread = p.nread /\ u.sets = p.sets /\ u.table = p.table

LEMMA TemplateSetRead ==
    ASSUME NEW p, NEW s, TemplateDue(p, s)
    PROVE  Learnt(ReadTemplate(p, s), p, p.lasttid + 1,
                  WithTemplate(WithoutTemplate(p, s.id), p.lasttid + 1,
                               PeerTemplate(p.table, s)))
  <1> DEFINE tid == p.lasttid + 1
             fields == ReadFields(p.table, s)
             t == PeerTemplate(p.table, s)
             ts == WithTemplate(WithoutTemplate(p, s.id), tid, t)
             u == [p EXCEPT !.lasttid = tid, !.templates = ts]
  <1>1. /\ PeerForm(p) /\ p.status = "ok" /\ s.fields # <<>> /\ s.kind \in {"data", "option"}
        /\ s.fields \in Seq(Specifiers)
        /\ p.version \in {"IPFIX", "NF9"} /\ (p.version = "NF9" => s.kind # "option")
    BY DEF TemplateDue
  <1>2. fields # <<>>
    <2>1. Len(s.fields) \in Nat /\ Len(s.fields) # 0
      BY <1>1
    <2>2. Len(fields) = Len(s.fields)
      BY <2>1 DEF ReadFields
    <2> HIDE DEF fields
    <2>3. QED
      BY <2>1, <2>2
  <1>3. ReadTemplate(p, s) =
          CASE s.kind = "data" /\ fields = <<>> -> p
            [] s.kind = "option" /\ p.version = "NF9" -> [p EXCEPT !.status = "throws"]
            [] s.kind = "option" /\ p.version = "IPFIX" /\ fields = <<>> ->
                  [p EXCEPT !.status = IF HasTemplate(p, s.id) THEN "throws" ELSE "fault"]
            [] OTHER -> u
    BY DEF ReadTemplate, ReadFields, PeerTemplate
  <1> HIDE DEF u, fields
  <1>4. ReadTemplate(p, s) = u
    BY <1>1, <1>2, <1>3
  <1> HIDE DEF tid, ts
  <1>5. Learnt(u, p, tid, ts)
    BY <1>1 DEF Learnt, PeerForm, u
  <1>6. QED
    BY <1>4, <1>5 DEF tid, ts

(***************************************************************************)
(* What is readable about a message that is: its n template sets can be    *)
(* read, and so can the data set of every record.                          *)
(***************************************************************************)
TemplateSetsReadable(m, n) ==
    \A i \in 1 .. n :
        /\ m.buffer[i] \in WireSets /\ m.buffer[i].fields # <<>>
        /\ m.buffer[i].kind \in {"data", "option"}
        /\ m.version = "NF9" => m.buffer[i].kind # "option"
        /\ m.buffer[i].id \in DOMAIN m.templates
        /\ m.buffer[i] = TemplateSet(m.buffer[i].id, m.templates[m.buffer[i].id])

TemplateSetsDistinct(m, n) ==
    \A i, j \in 1 .. n : m.buffer[i].id = m.buffer[j].id => i = j

(* The template of a record is at the place of its id, and reads the record. *)
RecordReadable(table, m, n, r) ==
    LET t == m.templates[r.tid]
        place == (r.tid - FirstTid) + 1
    IN  /\ r \in Records /\ r.tid \in DOMAIN m.templates /\ t \in Templates
        /\ place \in 1 .. n /\ m.buffer[place].id = r.tid
        /\ AllReadable(table, TemplateFields(t))
        /\ Names(TemplateFields(t), r) /\ TemplateFields(t) # <<>>

RecordsReadable(table, m, n) ==
    /\ Len(Exported(m)) \in Nat /\ Len(m.buffer) = n + Len(Exported(m))
    /\ \A k \in 1 .. Len(Exported(m)) :
          /\ m.buffer[n + k] = DueSet(m, Exported(m)[k])
          /\ RecordReadable(table, m, n, Exported(m)[k])

LEMMA TemplateSetsAreReadable ==
    ASSUME NEW table, NEW m, MessageOK(m), Ready(m), Readable(table, m),
           NEW n, Parted(m.buffer, n)
    PROVE  TemplateSetsReadable(m, n) /\ TemplateSetsDistinct(m, n)
  <1> DEFINE b == m.buffer
             ts == TemplateSets(m)
  <1>1. /\ b \in Seq(WireSets) /\ Len(b) \in Nat /\ n \in Nat /\ n <= Len(b)
        /\ DOMAIN b = 1 .. Len(b)
        /\ \A i \in 1 .. Len(b) : b[i] \in WireSets /\ (b[i].kind = "record" <=> i > n)
    BY DEF MessageOK, Parted
  <1>2. ts = SubSeq(b, 1, n)
    BY <1>1, TemplateSetsAre, Partition
  <1> HIDE DEF b
  <1>3. Len(ts) = n /\ \A i \in 1 .. n : ts[i] = b[i]
    BY <1>1, <1>2
  <1>4. \A i \in 1 .. Len(ts) :
            ts[i].fields # <<>> /\ (m.version = "NF9" => ts[i].kind # "option")
    BY DEF Readable
  <1> HIDE DEF ts
  <1>5. \A i \in 1 .. n : i \in 1 .. Len(b) /\ ~(i > n)
    BY <1>1
  <1>6. \A i \in 1 .. n : b[i].kind # "record"
    BY <1>1, <1>5
  <1>7. ASSUME NEW i \in 1 .. n
        PROVE  /\ b[i] \in WireSets /\ b[i].fields # <<>> /\ b[i].kind \in {"data", "option"}
               /\ m.version = "NF9" => b[i].kind # "option"
               /\ b[i].id \in DOMAIN m.templates
               /\ b[i] = TemplateSet(b[i].id, m.templates[b[i].id])
    <2>1. b[i] \in WireSets /\ b[i].kind # "record"
      BY <1>1, <1>5, <1>6
    <2>2. b[i].kind \in {"data", "option"}
      BY <2>1 DEF WireSets
    <2>3. b[i].fields # <<>> /\ (m.version = "NF9" => b[i].kind # "option")
      BY <1>3, <1>4
    <2>4. b[i].id \in DOMAIN m.templates
          /\ b[i] = TemplateSet(b[i].id, m.templates[b[i].id])
      BY <1>1, <1>5, <2>1 DEF Ready, Current, b
    <2>5. QED
      BY <2>1, <2>2, <2>3, <2>4
  <1>8. \A i, j \in 1 .. n : b[i].id = b[j].id => i = j
    <2>1. \A i, j \in DOMAIN b :
              b[i].kind # "record" /\ b[j].kind # "record" /\ b[i].id = b[j].id => i = j
      BY DEF Ready, Distinct, b
    <2>2. QED
      BY <1>1, <1>5, <1>6, <2>1
  <1>9. QED
    BY <1>7, <1>8 DEF TemplateSetsReadable, TemplateSetsDistinct, b

LEMMA ReadableIsLegible ==
    ASSUME NEW table, NEW f \in Fields, FieldReadable(table, f)
    PROVE  Legible(f)
  <1>1. f.ft \in FieldTypes
    BY DEF Fields
  <1>2. QED
    BY <1>1 DEF FieldReadable, Legible

LEMMA RecordIsReadable ==
    ASSUME NEW table, NEW m, MessageOK(m), NEW n, TemplateSetsReadable(m, n),
           NEW r \in DueRecords(m),
           (r.tid - FirstTid) + 1 <= n /\ n \in Nat,
           m.buffer[(r.tid - FirstTid) + 1].id = r.tid,
           NEW fs, fs = TemplateFields(m.templates[r.tid]),
           \A q \in Range(m.data) : q.tid = r.tid =>
               DOMAIN q.vals = {fs[k].ft : k \in 1 .. Len(fs)},
           \A k \in 1 .. Len(fs) : FieldReadable(table, fs[k])
    PROVE  RecordReadable(table, m, n, r)
  <1> DEFINE t == m.templates[r.tid]
             place == (r.tid - FirstTid) + 1
  <1>1. r \in Records /\ r.tid \in DOMAIN m.templates /\ r \in Range(m.data)
    BY DEF DueRecords, Range
  <1>2. DOMAIN m.templates \subseteq Tids /\ TemplateOK(t)
    BY <1>1 DEF MessageOK, TemplatesOK
  <1>3. t \in Templates
    BY <1>2 DEF TemplateOK
  <1>4. place \in 1 .. n
    <2>1. r.tid \in FirstTid .. FirstTid + MaxTemplates - 1
      BY <1>1, <1>2 DEF Tids
    <2>2. r.tid \in Int /\ r.tid >= FirstTid
      BY <2>1, IpfixAssumption DEF FirstTid
    <2>3. QED
      BY <2>2 DEF FirstTid
  <1>5. fs \in Seq(Fields) /\ Len(fs) = NumFields(t) /\ NumFields(t) \in Nat
        /\ \A k \in 1 .. Len(fs) : fs[k] \in Fields
    BY <1>3, TemplateIs
  <1>6. \A k \in 1 .. Len(fs) : Legible(fs[k])
    BY <1>5, ReadableIsLegible
  <1>7. DOMAIN r.vals = {fs[k].ft : k \in 1 .. Len(fs)}
    BY <1>1
  <1>8. Names(fs, r)
    BY <1>5, <1>6, <1>7 DEF Names
  <1>9. m.buffer[place].id = r.tid
    OBVIOUS
  <1> HIDE DEF place
  <1>10. fs # <<>>
    <2> DEFINE s == TemplateSet(r.tid, t)
    <2>1. m.buffer[place] = s /\ m.buffer[place].fields # <<>>
      BY <1>4, <1>9 DEF TemplateSetsReadable
    <2>2. s.fields = [i \in 1 .. NumFields(t) |-> [ft |-> TemplateFields(t)[i].ft,
                                                    flength |-> TemplateFields(t)[i].flength]]
      BY DEF TemplateSet
    <2> HIDE DEF s
    <2>3. NumFields(t) # 0
      <3> SUFFICES ASSUME NumFields(t) = 0 PROVE s.fields = <<>>
        BY <2>1
      <3>1. 1 .. NumFields(t) = {}
        OBVIOUS
      <3> HIDE DEF t
      <3>2. QED
        BY <2>2, <3>1
    <2>4. QED
      BY <1>5, <2>3
  <1>11. AllReadable(table, fs)
    BY DEF AllReadable
  <1>12. QED
    BY <1>1, <1>3, <1>4, <1>8, <1>9, <1>10, <1>11 DEF RecordReadable, place

LEMMA RecordsAreReadable ==
    ASSUME NEW table, NEW m, MessageOK(m), Ready(m), Readable(table, m),
           NEW n, Parted(m.buffer, n)
    PROVE  RecordsReadable(table, m, n)
  <1> DEFINE b == m.buffer
             ds == DataSets(m)
             recs == Exported(m)
             l == Len(recs)
  <1>1. /\ b \in Seq(WireSets) /\ Len(b) \in Nat /\ n \in Nat /\ n <= Len(b)
    BY DEF MessageOK, Parted
  <1>2. ds = SubSeq(b, n + 1, Len(b)) /\ TemplateSets(m) = SubSeq(b, 1, n)
    BY <1>1, TemplateSetsAre, Partition
  <1>3. ds = CurrentDataSets(m)
    BY TemplateSetsAre DEF Ready
  <1>4. Matched(CurrentDataSets(m), recs, m)
    BY ExportedMatches DEF MessageOK
  <1> HIDE DEF b, ds, recs, l
  <1>5. /\ recs \in Seq(DueRecords(m)) /\ Len(ds) = l /\ l \in Nat
        /\ \A k \in 1 .. l : ds[k] = DueSet(m, recs[k])
    BY <1>3, <1>4 DEF Matched, l
  <1>6. Len(ds) = Len(b) - n /\ \A k \in 1 .. Len(ds) : ds[k] = b[n + k]
    BY <1>1, <1>2
  <1>7. Len(TemplateSets(m)) = n /\ \A i \in 1 .. n : TemplateSets(m)[i] = b[i]
    BY <1>1, <1>2
  <1>8. ASSUME NEW k \in 1 .. l PROVE RecordReadable(table, m, n, recs[k])
    <2> DEFINE r == recs[k]
    <2>1. r \in DueRecords(m)
      BY <1>5 DEF l
    <2>2. ds[k].id = r.tid
      BY <1>5 DEF DueSet, DataSet
    <2> DEFINE tid == ds[k].id
               place == tid - FirstTid + 1
               fs == TemplateFields(m.templates[tid])
    <2>3. /\ place <= Len(TemplateSets(m)) /\ TemplateSets(m)[place].id = tid
          /\ \A q \in Range(m.data) : q.tid = tid =>
                 DOMAIN q.vals = {fs[j].ft : j \in 1 .. Len(fs)}
          /\ \A j \in 1 .. Len(fs) : FieldReadable(table, fs[j])
      <3>1. k \in 1 .. Len(DataSets(m))
        BY <1>5 DEF ds
      <3>2. QED
        BY <3>1 DEF Readable, ds
    <2> HIDE DEF r
    <2>4. TemplateSetsReadable(m, n)
      BY TemplateSetsAreReadable
    <2>5. r.tid \in Int /\ r.tid >= FirstTid
      <3>1. r.tid \in Tids
        BY <2>1, RecordIs DEF DueRecords
      <3>2. QED
        BY <3>1, IpfixAssumption DEF Tids, FirstTid
    <2> DEFINE at == (r.tid - FirstTid) + 1
    <2>6. place = at /\ at \in Int /\ at >= 1
      BY <2>2, <2>5 DEF FirstTid
    <2>7. at <= n /\ m.buffer[at].id = r.tid
      <3>1. at <= n /\ at \in 1 .. n
        BY <1>1, <1>7, <2>3, <2>6
      <3> HIDE DEF at, place
      <3>2. TemplateSets(m)[at] = b[at]
        BY <1>7, <3>1
      <3>3. QED
        BY <2>2, <2>3, <2>6, <3>1, <3>2 DEF b
    <2> DEFINE gs == TemplateFields(m.templates[r.tid])
    <2>8. /\ \A q \in Range(m.data) : q.tid = r.tid =>
                 DOMAIN q.vals = {gs[j].ft : j \in 1 .. Len(gs)}
          /\ \A j \in 1 .. Len(gs) : FieldReadable(table, gs[j])
      BY <2>2, <2>3
    <2> HIDE DEF gs
    <2>9. RecordReadable(table, m, n, r)
      BY <1>1, <2>1, <2>4, <2>7, <2>8, RecordIsReadable DEF gs
    <2>10. QED
      BY <2>9 DEF r
  <1>9. \A k \in 1 .. l : b[n + k] = DueSet(m, recs[k])
    BY <1>5, <1>6
  <1>10. Len(b) = n + l
    BY <1>1, <1>5, <1>6
  <1>11. QED
    BY <1>5, <1>8, <1>9, <1>10 DEF RecordsReadable, b, recs, l

(***************************************************************************)
(* The peer after i sets, and the templates it has after i template sets.  *)
(***************************************************************************)
PeerAt(p, table, m, i, at) ==
    /\ PeerForm(p) /\ p.status = "ok" /\ p.version = m.version /\ p.table = table
    /\ p.count = m.header.count /\ p.seqno = m.header.seqno /\ p.time = m.header.time
    /\ p.length = m.length /\ p.nread = at /\ p.sets = i

Knows(p, table, m, i) ==
    /\ p.lasttid = (FirstTid - 1) + i
    /\ \A tid \in DOMAIN p.templates : tid \in FirstTid .. (FirstTid - 1) + i
    /\ \A j \in 1 .. i : m.buffer[j].id = (FirstTid - 1) + j =>
          /\ m.buffer[j].id \in DOMAIN p.templates
          /\ p.templates[m.buffer[j].id] = PeerTemplate(table, m.buffer[j])

(* A template is deleted by the set with its own id only. *)
LEMMA KnowsOneMore ==
    ASSUME NEW p, NEW table, NEW m, NEW i \in Nat, Knows(p, table, m, i),
           NEW n \in Nat, i + 1 <= n, TemplateSetsDistinct(m, n),
           NEW s, s = m.buffer[i + 1], NEW u, u.lasttid = p.lasttid + 1,
           u.templates = WithTemplate(WithoutTemplate(p, s.id), p.lasttid + 1,
                                      PeerTemplate(table, s))
    PROVE  Knows(u, table, m, i + 1)
  <1> DEFINE tid == p.lasttid + 1
             rest == WithoutTemplate(p, s.id)
             t == PeerTemplate(table, s)
             ts == u.templates
  <1>1. tid = (FirstTid - 1) + (i + 1) /\ tid \notin FirstTid .. (FirstTid - 1) + i
        /\ tid \in FirstTid .. (FirstTid - 1) + (i + 1)
    BY DEF Knows, FirstTid
  <1>2. DOMAIN rest = DOMAIN p.templates \ {s.id}
        /\ \A x \in DOMAIN rest : rest[x] = p.templates[x]
    BY DEF WithoutTemplate
  <1> HIDE DEF rest, t
  <1>3. ts = [x \in DOMAIN rest \cup {tid} |-> IF x \in DOMAIN rest THEN rest[x] ELSE t]
    BY DEF WithTemplate, rest, t
  <1> HIDE DEF ts, tid
  <1>4. DOMAIN ts = DOMAIN rest \cup {tid}
        /\ \A x \in DOMAIN rest : ts[x] = rest[x]
    BY <1>3
  <1>5. tid \notin DOMAIN rest
    BY <1>1, <1>2 DEF Knows
  <1>6. ts[tid] = t /\ tid \in DOMAIN ts
    BY <1>3, <1>5
  <1>7. \A x \in DOMAIN ts : x \in FirstTid .. (FirstTid - 1) + (i + 1)
    <2>1. \A x \in FirstTid .. (FirstTid - 1) + i : x \in FirstTid .. (FirstTid - 1) + (i + 1)
      BY DEF FirstTid
    <2>2. \A x \in DOMAIN rest : x \in FirstTid .. (FirstTid - 1) + i
      BY <1>2 DEF Knows
    <2>3. QED
      BY <1>1, <1>4, <2>1, <2>2
  <1>8. ASSUME NEW j \in 1 .. i + 1, m.buffer[j].id = (FirstTid - 1) + j
        PROVE  m.buffer[j].id \in DOMAIN ts /\ ts[m.buffer[j].id] = PeerTemplate(table, m.buffer[j])
    <2>1. CASE j = i + 1
      BY <1>1, <1>6, <1>8, <2>1 DEF t
    <2>2. CASE j # i + 1
      <3>1. j \in 1 .. i /\ j \in 1 .. n /\ i + 1 \in 1 .. n
        BY <2>2
      <3>2. m.buffer[j].id # s.id
        BY <2>2, <3>1 DEF TemplateSetsDistinct
      <3>3. m.buffer[j].id \in DOMAIN p.templates
            /\ p.templates[m.buffer[j].id] = PeerTemplate(table, m.buffer[j])
        BY <1>8, <3>1 DEF Knows
      <3>4. m.buffer[j].id \in DOMAIN rest
        BY <1>2, <3>2, <3>3
      <3>5. QED
        BY <1>2, <1>4, <3>3, <3>4
    <2>3. QED
      BY <2>1, <2>2
  <1>9. u.lasttid = (FirstTid - 1) + (i + 1)
    BY <1>1 DEF tid
  <1>10. QED
    BY <1>7, <1>8, <1>9 DEF Knows, ts

(* The loop over the sets goes on. *)
GoesOn(p, total) ==
    /\ p.status = "ok" /\ p.nread \in Nat /\ total \in Nat /\ p.nread + 4 < total
    /\ p.version = "NF9" => p.sets \in Nat /\ p.count \in Nat /\ p.sets < p.count

Advanced(v, u, size) ==
    /\ PeerForm(v) /\ v.status = u.status /\ v.version = u.version
    /\ v.templates = u.templates /\ v.lasttid = u.lasttid /\ v.data = u.data
    /\ v.count = u.count /\ v.seqno = u.seqno /\ v.time = u.time /\ v.length = u.length
    /\ v.nread = u.nread + size /\ v.sets = u.sets + 1 /\ v.table = u.table

LEMMA SetRead ==
    ASSUME NEW p, NEW s, NEW total, GoesOn(p, total),
           NEW u, u = (IF s.kind = "record" THEN ReadRecords(p, s) ELSE ReadTemplate(p, s)),
           PeerForm(u)
    PROVE  Advanced(ReadSet(p, s, total), u, SetSize(s))
  <1>1. ~(\/ p.status # "ok" \/ p.nread + 4 >= total
          \/ p.version = "NF9" /\ p.sets >= p.count)
    BY DEF GoesOn
  <1>2. ReadSet(p, s, total) = [u EXCEPT !.nread = @ + SetSize(s), !.sets = @ + 1]
    BY <1>1 DEF ReadSet
  <1> DEFINE k == SetSize(s)
             a == u.nread + k
             c == u.sets + 1
             v == ReadSet(p, s, total)
  <1> HIDE DEF k, v
  <1>3. v = [u EXCEPT !.nread = a, !.sets = c]
    BY <1>2 DEF PeerForm, k, v
  <1> HIDE DEF a, c
  <1>4. /\ PeerForm(v) /\ v.status = u.status /\ v.version = u.version
        /\ v.templates = u.templates /\ v.lasttid = u.lasttid /\ v.data = u.data
        /\ v.count = u.count /\ v.seqno = u.seqno /\ v.time = u.time /\ v.length = u.length
        /\ v.nread = a /\ v.sets = c /\ v.table = u.table
    BY <1>3 DEF PeerForm
  <1>5. QED
    BY <1>4 DEF Advanced, a, c, k, v

LEMMA NextTemplateRead ==
    ASSUME NEW p, NEW table, NEW m, MessageOK(m), NEW i \in Nat, NEW at,
           PeerAt(p, table, m, i, at), Knows(p, table, m, i),
           NEW n \in Nat, i + 1 <= n, TemplateSetsReadable(m, n), TemplateSetsDistinct(m, n),
           NEW total, GoesOn(p, total), NEW s, s = m.buffer[i + 1]
    PROVE  LET v == ReadSet(p, s, total)
           IN  /\ PeerAt(v, table, m, i + 1, at + SetSize(s)) /\ Knows(v, table, m, i + 1)
               /\ v.data = p.data
  <1> DEFINE u == ReadTemplate(p, s)
             v == ReadSet(p, s, total)
             tid == p.lasttid + 1
             ts == WithTemplate(WithoutTemplate(p, s.id), tid, PeerTemplate(table, s))
  <1>1. /\ PeerForm(p) /\ p.status = "ok" /\ p.version = m.version /\ p.table = table
        /\ p.count = m.header.count /\ p.seqno = m.header.seqno /\ p.time = m.header.time
        /\ p.length = m.length /\ p.nread = at /\ p.sets = i
    BY DEF PeerAt
  <1>2. i + 1 \in 1 .. n
    OBVIOUS
  <1>3. /\ s \in WireSets /\ s.fields # <<>> /\ s.kind \in {"data", "option"}
        /\ m.version = "NF9" => s.kind # "option"
    BY <1>2 DEF TemplateSetsReadable
  <1>4. TemplateDue(p, s)
    <2>1. s.fields \in Seq(Specifiers)
      BY <1>3 DEF WireSets
    <2>2. p.version \in {"IPFIX", "NF9"} /\ (p.version = "NF9" => s.kind # "option")
      BY <1>1, <1>3 DEF MessageOK
    <2>3. QED
      BY <1>1, <1>3, <2>1, <2>2 DEF TemplateDue
  <1>5. Learnt(u, p, tid, ts)
    BY <1>1, <1>4, TemplateSetRead
  <1> HIDE DEF u, v, tid, ts
  <1>6. /\ PeerForm(u) /\ u.status = p.status /\ u.version = p.version
        /\ u.templates = ts /\ u.lasttid = tid /\ u.data = p.data
        /\ u.count = p.count /\ u.seqno = p.seqno /\ u.time = p.time /\ u.length = p.length
        /\ u.nread = p.nread /\ u.sets = p.sets /\ u.table = p.table
    BY <1>5 DEF Learnt
  <1>7. u = (IF s.kind = "record" THEN ReadRecords(p, s) ELSE ReadTemplate(p, s))
    BY <1>3 DEF u
  <1>8. Advanced(v, u, SetSize(s))
    BY <1>6, <1>7, SetRead DEF v
  <1>9. v.templates = ts /\ v.lasttid = tid
    BY <1>6, <1>8 DEF Advanced
  <1>10. Knows(v, table, m, i + 1)
    BY <1>9, KnowsOneMore DEF tid, ts
  <1>11. PeerAt(v, table, m, i + 1, at + SetSize(s)) /\ v.data = p.data
    BY <1>1, <1>6, <1>8 DEF Advanced, PeerAt
  <1>12. QED
    BY <1>10, <1>11 DEF v

LEMMA RecordParts ==
    ASSUME NEW r \in Records
    PROVE  [tid |-> r.tid, vals |-> r.vals] = r
  <1>1. Records = UNION {RecordsOver(S) : S \in SUBSET FieldTypes}
    BY DEF Records, RecordsOver
  <1>2. PICK S \in SUBSET FieldTypes : r \in RecordsOver(S)
    BY <1>1
  <1> DEFINE V == UNION {Values[ft] : ft \in S}
             D == {v \in [S -> V] : \A ft \in S : v[ft] \in Values[ft]}
  <1>3. r \in [tid : Tids, vals : D]
    BY <1>2 DEF RecordsOver
  <1> HIDE DEF D
  <1>4. QED
    BY <1>3

RecordNext(p, table, m, i, at, n, r, total, s) ==
    /\ i \in Nat /\ n \in Nat /\ PeerAt(p, table, m, i, at) /\ Knows(p, table, m, n)
    /\ TemplateSetsReadable(m, n) /\ RecordReadable(table, m, n, r)
    /\ GoesOn(p, total) /\ s = DueSet(m, r)

LEMMA NextRecordRead ==
    ASSUME NEW p, NEW table, NEW m, NEW i, NEW at, NEW n, NEW r, NEW total, NEW s,
           RecordNext(p, table, m, i, at, n, r, total, s)
    PROVE  LET v == ReadSet(p, s, total)
           IN  /\ PeerAt(v, table, m, i + 1, at + SetSize(s)) /\ Knows(v, table, m, n)
               /\ v.data = Append(p.data, r)
  <1> DEFINE u == ReadRecords(p, s)
             v == ReadSet(p, s, total)
             t == m.templates[r.tid]
             fs == TemplateFields(t)
             place == (r.tid - FirstTid) + 1
             more == Append(p.data, r)
  <1>0. /\ i \in Nat /\ n \in Nat /\ PeerAt(p, table, m, i, at) /\ Knows(p, table, m, n)
        /\ TemplateSetsReadable(m, n) /\ RecordReadable(table, m, n, r)
        /\ GoesOn(p, total) /\ s = DueSet(m, r)
    BY DEF RecordNext
  <1> USE <1>0
  <1>1. /\ PeerForm(p) /\ p.status = "ok" /\ p.version = m.version /\ p.table = table
        /\ p.count = m.header.count /\ p.seqno = m.header.seqno /\ p.time = m.header.time
        /\ p.length = m.length /\ p.nread = at /\ p.sets = i
    BY DEF PeerAt
  <1>2. /\ r \in Records /\ r.tid \in DOMAIN m.templates /\ t \in Templates
        /\ place \in 1 .. n /\ m.buffer[place].id = r.tid
        /\ AllReadable(table, fs) /\ Names(fs, r) /\ fs # <<>>
    BY DEF RecordReadable
  <1>3. s.kind = "record" /\ s.id = r.tid /\ s.body = BytesFold(r, <<>>, fs)
    BY DEF DueSet, DataSet, RecordBody, BytesFold
  <1>4. r.tid = (FirstTid - 1) + place
    <2>1. r.tid \in Int
      <3>1. r.tid \in Tids
        BY <1>2, RecordIs
      <3>2. QED
        BY <3>1, IpfixAssumption DEF Tids, FirstTid
    <2>2. QED
      BY <2>1 DEF FirstTid
  <1>5. m.buffer[place] = TemplateSet(r.tid, t)
    <2> HIDE DEF place
    <2>1. m.buffer[place] = TemplateSet(m.buffer[place].id, m.templates[m.buffer[place].id])
      BY <1>2 DEF TemplateSetsReadable
    <2>2. QED
      BY <1>2, <2>1
  <1>6. r.tid \in DOMAIN p.templates
        /\ p.templates[r.tid] = PeerTemplate(table, TemplateSet(r.tid, t))
    <2> HIDE DEF place, t
    <2>1. m.buffer[place].id \in DOMAIN p.templates
          /\ p.templates[m.buffer[place].id] = PeerTemplate(table, m.buffer[place])
      BY <1>2, <1>4 DEF Knows
    <2>2. QED
      BY <1>2, <1>5, <2>1
  <1> HIDE DEF t, place
  <1>7. TemplateFields(p.templates[r.tid]) = fs
    <2> DEFINE x == PeerTemplate(table, TemplateSet(r.tid, t))
    <2>1. x.scopefields = t.scopefields /\ x.datafields = t.datafields
      BY <1>2, TemplateKept
    <2> HIDE DEF x
    <2>2. QED
      BY <1>6, <2>1 DEF TemplateFields, x
  <1> HIDE DEF fs
  <1>8. SameSpecs(fs, fs)
    <2>1. fs \in Seq(Fields)
      BY <1>2 DEF Names
    <2>2. QED
      BY <2>1 DEF SameSpecs
  <1>9. RecordDue(p, s, fs, r)
    BY <1>1, <1>2, <1>3, <1>6, <1>7, <1>8 DEF RecordDue
  <1>10. Gained(u, p, more)
    <2>1. Gained(u, p, Append(p.data, [tid |-> s.id, vals |-> r.vals]))
      BY <1>9, DataSetRead
    <2>2. [tid |-> s.id, vals |-> r.vals] = r
      BY <1>2, <1>3, RecordParts
    <2>3. QED
      BY <2>1, <2>2
  <1> HIDE DEF u, v, more
  <1>11. u = (IF s.kind = "record" THEN ReadRecords(p, s) ELSE ReadTemplate(p, s))
    BY <1>3 DEF u
  <1>12. PeerForm(u)
    BY <1>10 DEF Gained
  <1>13. Advanced(v, u, SetSize(s))
    BY <1>11, <1>12, SetRead DEF v
  <1>14. v.templates = p.templates /\ v.lasttid = p.lasttid /\ v.data = more
    BY <1>10, <1>13 DEF Advanced, Gained
  <1>15. Knows(v, table, m, n)
    BY <1>14 DEF Knows
  <1>16. PeerAt(v, table, m, i + 1, at + SetSize(s))
    BY <1>1, <1>10, <1>13 DEF Advanced, Gained, PeerAt
  <1>17. QED
    BY <1>14, <1>15, <1>16 DEF v, more

(***************************************************************************)
(* Every set takes more than four bytes, so that the loop over the sets    *)
(* does not end before the last of them.                                   *)
(***************************************************************************)
LEMMA LargeSets ==
    ASSUME NEW table, NEW m, MessageOK(m), NEW n \in Nat, TemplateSetsReadable(m, n),
           RecordsReadable(table, m, n)
    PROVE  \A i \in 1 .. Len(m.buffer) : SetSize(m.buffer[i]) \in Nat /\ SetSize(m.buffer[i]) > 4
  <1> DEFINE b == m.buffer
             l == Len(Exported(m))
  <1>1. /\ b \in Seq(WireSets) /\ Len(b) \in Nat /\ \A i \in 1 .. Len(b) : b[i] \in WireSets
    BY DEF MessageOK
  <1>2. l \in Nat /\ Len(b) = n + l
    BY DEF RecordsReadable
  <1>3. ASSUME NEW i \in 1 .. n PROVE SetSize(b[i]) > 4
    <2>1. b[i] \in WireSets /\ b[i].kind \in {"data", "option"}
      BY DEF TemplateSetsReadable
    <2> DEFINE fs == b[i].fields
    <2>2. Len(fs) \in Nat /\ DOMAIN fs = 1 .. Len(fs)
      BY <2>1 DEF WireSets
    <2>3. SpecSum(fs) \in Nat
      BY <2>2, SpecSumNat
    <2>4. SetSize(b[i]) = (IF b[i].kind = "option" THEN 10 ELSE 8) + SpecSum(fs)
      BY <2>1 DEF SetSize, SpecSum
    <2> HIDE DEF fs
    <2>5. QED
      BY <2>3, <2>4
  <1>4. ASSUME NEW k \in 1 .. l PROVE SetSize(b[n + k]) > 4
    <2> DEFINE r == Exported(m)[k]
               fs == TemplateFields(m.templates[r.tid])
               body == BytesFold(r, <<>>, fs)
    <2>1. b[n + k] = DueSet(m, r) /\ RecordReadable(table, m, n, r)
      BY DEF RecordsReadable
    <2> HIDE DEF r
    <2>2. r \in Records /\ Names(fs, r) /\ fs # <<>>
      BY <2>1 DEF RecordReadable
    <2>3. DueSet(m, r) = DataSet(r.tid, body)
      BY DEF DueSet, RecordBody, BytesFold
    <2> HIDE DEF fs
    <2>4. fs \in Seq(Fields) /\ SameSpecs(fs, fs) /\ Len(fs) > 0
      BY <2>2 DEF Names, SameSpecs
    <2> HIDE DEF body
    <2>5. body \in Seq(Nat) /\ Len(body) > 0
      <3>1. body = BytesFold(r, <<>>, fs)
        BY DEF body
      <3>2. body \in Seq(Nat) /\ (Len(fs) > 0 => Len(body) > 0)
        BY <2>2, <2>4, <3>1, RecordRead
      <3>3. QED
        BY <2>4, <3>2
    <2>6. SetSize(b[n + k]) = 4 + Len(body) /\ Len(body) \in Nat
      BY <2>1, <2>3, <2>5 DEF SetSize, DataSet
    <2>7. QED
      BY <2>5, <2>6
  <1> HIDE DEF b, l
  <1>5. ASSUME NEW i \in 1 .. Len(b) PROVE SetSize(b[i]) \in Nat /\ SetSize(b[i]) > 4
    <2>1. SetSize(b[i]) \in Nat
      BY <1>1, SetSizeNat
    <2>2. CASE i <= n
      <3>1. i \in 1 .. n
        BY <1>1, <2>2
      <3>2. QED
        BY <1>3, <2>1, <3>1
    <2>3. CASE i > n
      <3>1. i - n \in 1 .. l /\ n + (i - n) = i
        BY <1>1, <1>2, <2>3
      <3>2. SetSize(b[n + (i - n)]) > 4
        BY <1>4, <3>1
      <3>3. QED
        BY <2>1, <3>1, <3>2
    <2>4. QED
      BY <1>1, <2>2, <2>3
  <1>6. QED
    BY <1>5 DEF b

(* The sums on the way to the sum of all sets. *)
Rises(s, b, l) ==
    /\ s[0] = 0
    /\ \A i \in 0 .. l : s[i] \in Nat /\ s[i] <= s[l]
    /\ \A i \in 1 .. l : s[i] = s[i - 1] + SetSize(b[i])

Sized(b, l) == \A i \in 1 .. l : SetSize(b[i]) \in Nat

LEMMA SumRises ==
    ASSUME NEW b, NEW l \in Nat, NEW s, Trace(s, "sets", 0, 0, 0, b, l), Sized(b, l)
    PROVE  Rises(s, b, l)
  <1>1. s[0] = 0
    BY DEF Trace
  <1>2. \A i \in 1 .. l : s[i] = s[i - 1] + SetSize(b[i])
    <2> SUFFICES ASSUME NEW i \in 1 .. l PROVE s[i] = s[i - 1] + SetSize(b[i])
      OBVIOUS
    <2>1. s[i] = FoldStep("sets", 0, 0, s[i - 1], b[i])
      BY DEF Trace
    <2>2. QED
      BY <2>1 DEF FoldStep
  <1> DEFINE N == {i \in Nat : i <= l => s[i] \in Nat}
  <1>3. 0 \in N
    BY <1>1
  <1>4. ASSUME NEW i \in N PROVE i + 1 \in N
    <2> SUFFICES ASSUME i + 1 <= l PROVE s[i + 1] \in Nat
      OBVIOUS
    <2>1. i + 1 \in 1 .. l /\ (i + 1) - 1 = i /\ s[i] \in Nat
      OBVIOUS
    <2>2. s[i + 1] = s[i] + SetSize(b[i + 1]) /\ SetSize(b[i + 1]) \in Nat
      BY <1>2, <2>1 DEF Sized
    <2>3. QED
      BY <2>1, <2>2
  <1>5. N \in SUBSET Nat
    OBVIOUS
  <1> HIDE DEF N
  <1>6. N = Nat
    BY <1>3, <1>4, <1>5, Induction
  <1>7. \A i \in 0 .. l : s[i] \in Nat
    BY <1>6 DEF N
  <1> DEFINE T == {i \in Nat : i <= l => \A k \in 0 .. i : s[k] <= s[i]}
  <1>8. 0 \in T
    <2>1. \A k \in 0 .. 0 : k = 0
      OBVIOUS
    <2>2. QED
      BY <1>1, <2>1
  <1>9. ASSUME NEW i \in T PROVE i + 1 \in T
    <2> SUFFICES ASSUME i + 1 <= l, NEW k \in 0 .. i + 1 PROVE s[k] <= s[i + 1]
      OBVIOUS
    <2>1. /\ i \in Nat /\ i + 1 \in 1 .. l /\ (i + 1) - 1 = i /\ i \in 0 .. l
          /\ i + 1 \in 0 .. l /\ k \in 0 .. l /\ \A j \in 0 .. i : s[j] <= s[i]
      OBVIOUS
    <2>2. s[i + 1] = s[i] + SetSize(b[i + 1]) /\ SetSize(b[i + 1]) \in Nat
      BY <1>2, <2>1 DEF Sized
    <2>3. s[i] \in Nat /\ s[i + 1] \in Nat /\ s[k] \in Nat
      BY <1>7, <2>1
    <2>4. CASE k = i + 1
      BY <2>3, <2>4
    <2>5. CASE k # i + 1
      <3>1. k \in 0 .. i
        BY <2>5
      <3>2. s[k] <= s[i]
        BY <2>1, <3>1
      <3>3. QED
        BY <2>2, <2>3, <3>2
    <2>6. QED
      BY <2>4, <2>5
  <1>10. T \in SUBSET Nat
    OBVIOUS
  <1> HIDE DEF T
  <1>11. T = Nat
    BY <1>8, <1>9, <1>10, Induction
  <1>12. \A i \in 0 .. l : s[i] <= s[l]
    BY <1>11 DEF T
  <1>13. QED
    BY <1>1, <1>2, <1>7, <1>12 DEF Rises

(***************************************************************************)
(* The whole import: the templates first, and then record by record.       *)
(***************************************************************************)
AllIsReadable(table, m, n) ==
    /\ MessageOK(m) /\ n \in Nat /\ n <= Len(m.buffer)
    /\ TemplateSetsReadable(m, n) /\ TemplateSetsDistinct(m, n)
    /\ RecordsReadable(table, m, n)

Progress(p, table, m, n, i, at) ==
    /\ PeerAt(p, table, m, i, at)
    /\ Knows(p, table, m, IF i <= n THEN i ELSE n)
    /\ p.data = SubSeq(Exported(m), 1, IF i <= n THEN 0 ELSE i - n)

LEMMA FirstMore ==
    ASSUME NEW S, NEW b \in Seq(S), NEW k \in Nat, k + 1 <= Len(b)
    PROVE  Append(SubSeq(b, 1, k), b[k + 1]) = SubSeq(b, 1, k + 1)
  <1>1. 0 \in Nat /\ 0 <= k /\ 0 + 1 = 1
    OBVIOUS
  <1>2. Append(SubSeq(b, 0 + 1, k), b[k + 1]) = SubSeq(b, 0 + 1, k + 1)
    BY <1>1, OneMore
  <1>3. QED
    BY <1>1, <1>2

LEMMA NextSetRead ==
    ASSUME NEW table, NEW m, NEW n, AllIsReadable(table, m, n),
           NEW i \in Nat, i + 1 <= Len(m.buffer), NEW at, NEW p, Progress(p, table, m, n, i, at),
           NEW total, GoesOn(p, total), NEW s, s = m.buffer[i + 1]
    PROVE  Progress(ReadSet(p, s, total), table, m, n, i + 1, at + SetSize(s))
  <1> DEFINE v == ReadSet(p, s, total)
             recs == Exported(m)
             l == Len(recs)
             to == at + SetSize(s)
  <1>1. /\ MessageOK(m) /\ n \in Nat /\ n <= Len(m.buffer)
        /\ TemplateSetsReadable(m, n) /\ TemplateSetsDistinct(m, n)
        /\ RecordsReadable(table, m, n)
    BY DEF AllIsReadable
  <1>2. Matched(CurrentDataSets(m), recs, m)
    BY <1>1, ExportedMatches DEF MessageOK
  <1>3. recs \in Seq(DueRecords(m)) /\ l \in Nat /\ Len(m.buffer) = n + l
    BY <1>1, <1>2 DEF Matched, RecordsReadable
  <1> HIDE DEF v, recs, l, to
  <1>4. /\ PeerAt(p, table, m, i, at)
        /\ Knows(p, table, m, IF i <= n THEN i ELSE n)
        /\ p.data = SubSeq(recs, 1, IF i <= n THEN 0 ELSE i - n)
    BY DEF Progress, recs
  <1>5. CASE i + 1 <= n
    <2>1. i <= n
      BY <1>1, <1>5
    <2>2. Knows(p, table, m, i) /\ p.data = SubSeq(recs, 1, 0)
      BY <1>4, <2>1
    <2>3. PeerAt(v, table, m, i + 1, to) /\ Knows(v, table, m, i + 1) /\ v.data = p.data
      BY <1>1, <1>4, <1>5, <2>2, NextTemplateRead DEF v, to
    <2>4. Progress(v, table, m, n, i + 1, to)
      BY <1>5, <2>2, <2>3 DEF Progress, recs
    <2>5. QED
      BY <2>4 DEF v, to
  <1>6. CASE i + 1 > n
    <2> DEFINE k == i - n
               r == recs[k + 1]
    <2>1. i >= n /\ k \in Nat /\ k + 1 \in 1 .. l /\ n + (k + 1) = i + 1
      BY <1>1, <1>3, <1>6
    <2>2. Knows(p, table, m, n)
      <3>1. CASE i = n
        BY <1>4, <3>1
      <3>2. CASE i # n
        BY <1>1, <1>4, <2>1, <3>2
      <3>3. QED
        BY <3>1, <3>2
    <2>3. p.data = SubSeq(recs, 1, k)
      <3>1. CASE i = n
        BY <1>1, <1>4, <3>1
      <3>2. CASE i # n
        <4>1. ~(i <= n)
          BY <1>1, <2>1, <3>2
        <4>2. QED
          BY <1>4, <4>1
      <3>3. QED
        BY <3>1, <3>2
    <2> HIDE DEF k
    <2>4. s = DueSet(m, r) /\ RecordReadable(table, m, n, r)
      BY <1>1, <2>1 DEF RecordsReadable, recs, l
    <2> HIDE DEF r
    <2>5. PeerAt(v, table, m, i + 1, to) /\ Knows(v, table, m, n) /\ v.data = Append(p.data, r)
      <3> DEFINE w == ReadSet(p, s, total)
                 size == at + SetSize(s)
      <3>1. PeerAt(p, table, m, i, at) /\ Knows(p, table, m, n) /\ GoesOn(p, total)
        BY <1>4, <2>2
      <3>2. TemplateSetsReadable(m, n) /\ RecordReadable(table, m, n, r) /\ s = DueSet(m, r)
            /\ n \in Nat /\ i \in Nat
        BY <1>1, <2>4
      <3>3. PeerAt(w, table, m, i + 1, size) /\ Knows(w, table, m, n) /\ w.data = Append(p.data, r)
        <4>1. RecordNext(p, table, m, i, at, n, r, total, s)
          BY <3>1, <3>2 DEF RecordNext
        <4>2. QED
          BY <4>1, NextRecordRead
      <3>4. w = v /\ size = to
        BY DEF v, to
      <3> HIDE DEF w, size
      <3>5. QED
        BY <3>3, <3>4
    <2>6. v.data = SubSeq(recs, 1, k + 1)
      <3>1. k + 1 <= Len(recs) /\ 0 \in Nat /\ 0 <= k
        BY <1>3, <2>1 DEF l
      <3>2. Append(SubSeq(recs, 1, k), recs[k + 1]) = SubSeq(recs, 1, k + 1)
        <4> DEFINE S == DueRecords(m)
        <4>1. recs \in Seq(S)
          BY <1>3
        <4> HIDE DEF S
        <4>2. k \in Nat /\ 0 \in Nat /\ k + 1 <= Len(recs) /\ 0 <= k
          BY <2>1, <3>1
        <4>3. QED
          BY <4>1, <4>2, FirstMore
      <3>3. QED
        BY <2>3, <2>5, <3>2 DEF r
    <2>7. ~(i + 1 <= n) /\ (i + 1) - n = k + 1
      BY <1>1, <1>6 DEF k
    <2>8. Progress(v, table, m, n, i + 1, to)
      BY <2>5, <2>6, <2>7 DEF Progress, recs
    <2>9. QED
      BY <2>8 DEF v, to
  <1>7. QED
    BY <1>1, <1>5, <1>6

LEMMA ImportReads ==
    ASSUME NEW table, NEW m, MessageOK(m), Ready(m), Readable(table, m),
           NEW n, Parted(m.buffer, n)
    PROVE  LET p == Import(table, m)
           IN  /\ AllIsReadable(table, m, n)
               /\ PeerAt(p, table, m, Len(m.buffer), m.offset)
               /\ Knows(p, table, m, n) /\ p.data = Exported(m)
  <1> DEFINE b == m.buffer
             l == Len(b)
             h == HeaderSize(m)
             total == BodySize(m)
             recs == Exported(m)
             base == ParseHeader(table, m)
  <1>1. /\ b \in Seq(WireSets) /\ l \in Nat /\ DOMAIN b = 1 .. l /\ n \in Nat /\ n <= l
        /\ m.header.network = TRUE /\ m.offset \in Nat /\ h \in Nat
        /\ m.version \in {"IPFIX", "NF9"}
    <2>1. m.header.network \in {TRUE} <=> m.header.network = TRUE
      OBVIOUS
    <2>2. h \in Nat
      BY DEF HeaderSize
    <2>3. /\ b \in Seq(WireSets) /\ l \in Nat /\ DOMAIN b = 1 .. l /\ n \in Nat /\ n <= l
          /\ m.offset \in Nat /\ m.version \in {"IPFIX", "NF9"}
      BY DEF MessageOK, Parted
    <2>4. m.header.network
      BY DEF Readable
    <2>5. QED
      BY <2>2, <2>3, <2>4
  <1>2. AllIsReadable(table, m, n)
    BY <1>1, TemplateSetsAreReadable, RecordsAreReadable DEF AllIsReadable
  <1>3. recs \in Seq(DueRecords(m)) /\ Len(recs) \in Nat /\ l = n + Len(recs)
    BY <1>2, ExportedMatches DEF MessageOK, Matched, AllIsReadable, RecordsReadable
  <1>4. PICK s : Trace(s, "sets", 0, 0, 0, b, l) /\ SetSum(b) = s[l]
    BY <1>1, SetTrace
  <1>5. \A i \in 1 .. l : SetSize(b[i]) \in Nat /\ SetSize(b[i]) > 4
    BY <1>2, LargeSets DEF AllIsReadable
  <1> HIDE DEF b, l
  <1>6. /\ s[0] = 0 /\ \A i \in 0 .. l : s[i] \in Nat /\ s[i] <= s[l]
        /\ \A i \in 1 .. l : s[i] = s[i - 1] + SetSize(b[i])
    <2>1. Sized(b, l)
      BY <1>5 DEF Sized
    <2>2. Rises(s, b, l)
      BY <1>1, <1>4, <2>1, SumRises
    <2>3. QED
      BY <2>2 DEF Rises
  <1>7. m.offset = h + s[l] /\ total \in Nat /\ total >= m.offset
    <2>1. m.offset = h + SetSum(b)
      BY DEF Ready, b
    <2> DEFINE pad == (4 - (m.offset % 4)) % 4
    <2>2. pad \in Nat /\ total = m.offset + pad
      BY <1>1 DEF BodySize
    <2> HIDE DEF pad, total
    <2>3. QED
      BY <1>1, <1>4, <2>1, <2>2
  <1>8. m.version = "NF9" => m.header.count \in Nat /\ l <= m.header.count
    BY DEF Ready, HeaderOK, MessageOK, Counted, l, b
  <1> HIDE DEF h, total
  <1>9. Progress(base, table, m, n, 0, h + s[0])
    <2>1. /\ PeerForm(base) /\ base.status = "ok" /\ base.version = m.version
          /\ base.table = table /\ base.count = m.header.count
          /\ base.seqno = m.header.seqno /\ base.time = m.header.time
          /\ base.length = m.length /\ base.nread = h
          /\ base.sets = 0 /\ base.lasttid = FirstTid - 1
          /\ base.data = <<>> /\ base.templates = <<>>
      BY <1>1 DEF ParseHeader, PeerForm, h
    <2> HIDE DEF base, recs
    <2>2. h = h + s[0]
      BY <1>1, <1>6
    <2>3. PeerAt(base, table, m, 0, h + s[0])
      BY <2>1, <2>2 DEF PeerAt
    <2>4. DOMAIN <<>> = {} /\ 1 .. 0 = {} /\ (FirstTid - 1) + 0 = FirstTid - 1
      BY DEF FirstTid
    <2>5. Knows(base, table, m, 0)
      BY <2>1, <2>4 DEF Knows
    <2>6. SubSeq(recs, 1, 0) = <<>>
      BY <1>3
    <2>7. 0 <= n
      BY <1>1
    <2>8. QED
      BY <2>1, <2>3, <2>5, <2>6, <2>7 DEF Progress, recs
  <1> HIDE DEF base
  <1>10. PICK q : Trace(q, "imports", total, 0, base, b, l) /\ ImportsFold(total, base, b) = q[l]
    BY <1>1, ImportsTraced
  <1> DEFINE T == {i \in Nat : i <= l => Progress(q[i], table, m, n, i, h + s[i])}
  <1>11. 0 \in T
    BY <1>9, <1>10 DEF Trace
  <1>12. ASSUME NEW i \in T PROVE i + 1 \in T
    <2> SUFFICES ASSUME i + 1 <= l PROVE Progress(q[i + 1], table, m, n, i + 1, h + s[i + 1])
      OBVIOUS
    <2> DEFINE x == b[i + 1]
               at == h + s[i]
               p == q[i]
    <2>1. /\ i \in Nat /\ i + 1 \in 1 .. l /\ (i + 1) - 1 = i /\ i \in 0 .. l
          /\ i + 1 \in 0 .. l /\ Progress(p, table, m, n, i, at)
      BY <1>1
    <2>2. q[i + 1] = ReadSet(p, x, total)
      <3>1. q[i + 1] = FoldStep("imports", total, 0, q[i], x)
        BY <1>10, <2>1 DEF Trace
      <3>2. QED
        BY <3>1 DEF FoldStep
    <2>3. /\ s[i + 1] = s[i] + SetSize(x) /\ SetSize(x) \in Nat /\ SetSize(x) > 4
          /\ s[i] \in Nat /\ s[i + 1] \in Nat /\ s[l] \in Nat /\ s[i + 1] <= s[l]
      <3>1. l \in 0 .. l
        BY <1>1
      <3>2. QED
        BY <1>5, <1>6, <2>1, <3>1
    <2>4. at \in Nat /\ at + 4 < total /\ at + SetSize(x) = h + s[i + 1]
      <3> DEFINE k == SetSize(x)
                 y == s[i + 1]
                 z == s[l]
      <3>1. y = s[i] + k /\ k \in Nat /\ k > 4 /\ s[i] \in Nat /\ y \in Nat /\ z \in Nat /\ y <= z
        BY <2>3
      <3>2. total >= h + z /\ total \in Nat /\ h \in Nat
        BY <1>1, <1>7
      <3> HIDE DEF k, y, z
      <3>3. at \in Nat /\ at + 4 < total /\ at + k = h + y
        BY <3>1, <3>2
      <3>4. QED
        BY <3>3 DEF k, y
    <2> HIDE DEF at, p, x
    <2>5. GoesOn(p, total)
      <3>1. /\ p.status = "ok" /\ p.nread = at /\ p.version = m.version /\ p.sets = i
            /\ p.count = m.header.count
        BY <2>1 DEF Progress, PeerAt
      <3>2. p.version = "NF9" => p.sets \in Nat /\ p.count \in Nat /\ p.sets < p.count
        BY <1>1, <1>8, <2>1, <3>1
      <3>3. QED
        BY <1>7, <2>4, <3>1, <3>2 DEF GoesOn
    <2>6. Progress(ReadSet(p, x, total), table, m, n, i + 1, at + SetSize(x))
      <3>1. i + 1 <= Len(m.buffer) /\ x = m.buffer[i + 1]
        BY DEF x, b, l
      <3>2. QED
        BY <1>2, <2>1, <2>5, <3>1, NextSetRead
    <2>7. QED
      BY <2>2, <2>4, <2>6
  <1>13. T \in SUBSET Nat
    OBVIOUS
  <1> HIDE DEF T
  <1>14. T = Nat
    BY <1>11, <1>12, <1>13, Induction
  <1> DEFINE p == q[l]
  <1>15. Progress(p, table, m, n, l, m.offset)
    BY <1>1, <1>7, <1>14 DEF T
  <1> HIDE DEF p
  <1>16. PeerAt(p, table, m, l, m.offset)
    BY <1>15 DEF Progress
  <1>17. Knows(p, table, m, n)
    <2>1. Knows(p, table, m, IF l <= n THEN l ELSE n)
      BY <1>15 DEF Progress
    <2>2. CASE l <= n
      <3>1. l = n
        BY <1>1, <2>2
      <3>2. QED
        BY <2>1, <3>1
    <2>3. CASE ~(l <= n)
      BY <2>1, <2>3
    <2>4. QED
      BY <2>2, <2>3
  <1>18. p.data = recs
    <2> HIDE DEF recs
    <2>1. p.data = SubSeq(recs, 1, IF l <= n THEN 0 ELSE l - n)
      BY <1>15 DEF Progress, recs
    <2>2. (IF l <= n THEN 0 ELSE l - n) = Len(recs)
      BY <1>1, <1>3
    <2>3. SubSeq(recs, 1, Len(recs)) = recs
      BY <1>3
    <2>4. QED
      BY <2>1, <2>2, <2>3
  <1>19. Import(table, m) = p
    <2>1. p = FoldLeft(LAMBDA x, y : ReadSet(x, y, total), base, b)
      BY <1>10 DEF ImportsFold, p
    <2>2. Import(table, m) = IF p.status = "ok" /\ p.nread < m.offset
                             THEN [p EXCEPT !.status = "refused"] ELSE p
      BY <2>1 DEF Import, total, base, b
    <2>3. ~(p.nread < m.offset)
      BY <1>1, <1>16 DEF PeerAt
    <2>4. QED
      BY <2>2, <2>3
  <1>20. QED
    BY <1>2, <1>16, <1>17, <1>18, <1>19 DEF l, b, recs

(* A peer that knows the elements reads every record of a message that is    *)
(* readable, in the order of output(), under the id of its template and with *)
(* the values the user gave: import() is the inverse of output() there.      *)
THEOREM PeerReadsSafe == Spec => []PeerReads
  <1>1. IpfixInv => PeerReads
    <2> SUFFICES ASSUME IpfixInv, peer.status # "unread", Readable(peer.table, msg)
                 PROVE  peer.status = "ok" /\ peer.data = Exported(msg)
      BY DEF PeerReads
    <2>1. peer # Unread
      BY DEF Unread
    <2>2. MessageOK(msg) /\ Ready(msg)
      BY <2>1 DEF IpfixInv, PeerInv
    <2>3. PICK table \in PeerTables : peer = Import(table, msg)
      BY <2>1 DEF IpfixInv, PeerInv
    <2>4. peer.table = table
      BY <2>2, <2>3, ImportOK
    <2>5. Readable(table, msg)
      BY <2>4
    <2>6. PICK n : Parted(msg.buffer, n)
      BY <2>2 DEF Ready, Ordered, Parted
    <2>7. PeerAt(peer, table, msg, Len(msg.buffer), msg.offset) /\ peer.data = Exported(msg)
      BY <2>2, <2>3, <2>5, <2>6, ImportReads
    <2>8. QED
      BY <2>7 DEF PeerAt
  <1>2. QED
    BY <1>1, IpfixInvariant, PTL

(***************************************************************************)
(* The templates of a complete message are those the peer has.             *)
(***************************************************************************)
SameTemplates(m, p) ==
    /\ DOMAIN m.templates = DOMAIN p.templates
    /\ \A tid \in DOMAIN m.templates : SameTemplate(m.templates[tid], p.templates[tid])

LEMMA TemplatesReachPeer ==
    ASSUME NEW table, NEW m, NEW n, Parted(m.buffer, n), AllIsReadable(table, m, n),
           Complete(table, m), NEW p, Knows(p, table, m, n)
    PROVE  SameTemplates(m, p)
  <1> DEFINE b == m.buffer
             D == DOMAIN m.templates
             E == DOMAIN p.templates
             ts == TemplateSets(m)
  <1>1. /\ b \in Seq(WireSets) /\ Len(b) \in Nat /\ n \in Nat /\ n <= Len(b)
        /\ MessageOK(m) /\ TemplateSetsReadable(m, n)
    BY DEF AllIsReadable, MessageOK
  <1>2. ts = SubSeq(b, 1, n)
    BY <1>1, TemplateSetsAre, Partition
  <1> HIDE DEF b, D, E
  <1>3. Len(ts) = n /\ \A i \in 1 .. n : ts[i] = b[i]
    BY <1>1, <1>2
  <1>4. /\ {ts[i].id : i \in 1 .. Len(ts)} = D
        /\ \A i \in 1 .. Len(ts) : ts[i].id = FirstTid + i - 1
    BY DEF Complete, D
  <1> HIDE DEF ts
  <1>5. \A i \in 1 .. n : b[i].id = (FirstTid - 1) + i /\ b[i].id \in D
    <2> SUFFICES ASSUME NEW i \in 1 .. n PROVE b[i].id = (FirstTid - 1) + i /\ b[i].id \in D
      OBVIOUS
    <2>1. ts[i].id = FirstTid + i - 1 /\ ts[i].id \in D /\ ts[i] = b[i]
      BY <1>3, <1>4
    <2>2. FirstTid + i - 1 = (FirstTid - 1) + i
      BY DEF FirstTid
    <2>3. QED
      BY <2>1, <2>2
  <1>6. ASSUME NEW tid \in D PROVE \E i \in 1 .. n : b[i].id = tid
    BY <1>3, <1>4
  <1>7. ASSUME NEW i \in 1 .. n
        PROVE  b[i].id \in E /\ p.templates[b[i].id] = PeerTemplate(table, b[i])
    BY <1>5 DEF Knows, b, E
  <1>8. D = E
    <2>1. ASSUME NEW tid \in D PROVE tid \in E
      BY <1>6, <1>7
    <2>2. ASSUME NEW tid \in E PROVE tid \in D
      <3>1. tid \in FirstTid .. (FirstTid - 1) + n
        BY DEF Knows, E
      <3> DEFINE i == tid - (FirstTid - 1)
      <3>2. i \in 1 .. n /\ (FirstTid - 1) + i = tid
        BY <1>1, <3>1 DEF FirstTid
      <3> HIDE DEF i
      <3>3. QED
        BY <1>5, <3>2
    <2>3. QED
      BY <2>1, <2>2
  <1>9. ASSUME NEW tid \in D
        PROVE  SameTemplate(m.templates[tid], p.templates[tid])
    <2> DEFINE t == m.templates[tid]
    <2>1. PICK i \in 1 .. n : b[i].id = tid
      BY <1>6
    <2>2. p.templates[tid] = PeerTemplate(table, b[i])
      BY <1>7, <2>1
    <2>3. b[i] = TemplateSet(tid, t)
      BY <1>1, <2>1 DEF TemplateSetsReadable, b
    <2>4. t \in Templates
      BY <1>1 DEF MessageOK, TemplatesOK, TemplateOK, D
    <2>5. /\ NumFields(t) = t.maxfields
          /\ \A k \in 1 .. NumFields(t) : FieldReadable(table, TemplateFields(t)[k])
      BY DEF Complete, D
    <2> HIDE DEF t
    <2>6. AllReadable(table, TemplateFields(t))
      BY <2>4, <2>5, TemplateIs DEF AllReadable
    <2> DEFINE u == PeerTemplate(table, b[i])
    <2>7. /\ u.type = t.type /\ u.maxfields = NumFields(t)
          /\ u.scopefields = t.scopefields /\ u.datafields = t.datafields
      BY <2>3, <2>4, <2>6, TemplateKept
    <2> HIDE DEF u
    <2>8. SameTemplate(t, u)
      BY <2>5, <2>7 DEF SameTemplate
    <2>9. QED
      BY <2>2, <2>8 DEF t, u
  <1>10. QED
    BY <1>8, <1>9 DEF SameTemplates, D, E

(***************************************************************************)
(* What is left of isEqual() for such a peer: the counters in IPFIX, and   *)
(* in NetFlow 9 a time that the message itself does not have.              *)
(***************************************************************************)
LEMMA EqualIsCounted ==
    ASSUME NEW table, NEW m, MessageOK(m), Ready(m), Readable(table, m), Complete(table, m),
           NEW p, p = Import(table, m)
    PROVE  IsEqual(m, p) <=> m.version = "IPFIX" /\ m.nrecords = Len(m.data)
  <1>1. PICK n : Parted(m.buffer, n)
    BY DEF Ready, Ordered, Parted
  <1>2. /\ PeerAt(p, table, m, Len(m.buffer), m.offset)
        /\ Knows(p, table, m, n) /\ p.data = Exported(m)
    BY <1>1, ImportReads
  <1>3. /\ AllIsReadable(table, m, n) /\ SameTemplates(m, p)
    BY <1>1, <1>2, ImportReads, TemplatesReachPeer
  <1>4. p.data = m.data
    BY <1>2 DEF Complete
  <1>5. /\ p.version = m.version /\ p.time = Now /\ p.length = m.length
        /\ p.nread = m.offset /\ p.seqno = IF m.version = "NF9" THEN m.seqno ELSE m.nrecords
    BY <1>2 DEF PeerAt, Ready, HeaderOK
  <1>6. CASE m.version = "NF9"
    <2>1. OwnTime(m) # p.time
      BY <1>5, <1>6, IpfixAssumption DEF OwnTime
    <2>2. ~IsEqual(m, p)
      BY <2>1 DEF IsEqual
    <2>3. QED
      BY <1>6, <2>2
  <1>7. CASE m.version = "IPFIX"
    <2>1. OwnTime(m) = p.time
      BY <1>5, <1>7 DEF OwnTime, Ready, HeaderOK
    <2>2. m.seqno = p.seqno
      BY <1>5, <1>7 DEF MessageOK, Counted
    <2>3. /\ DOMAIN m.templates = DOMAIN p.templates
          /\ \A tid \in DOMAIN m.templates : SameTemplate(m.templates[tid], p.templates[tid])
      BY <1>3 DEF SameTemplates
    <2>4. \A i \in 1 .. Len(m.data) : m.data[i].vals = p.data[i].vals
      BY <1>4
    <2>5. IsEqual(m, p) <=> m.nrecords = Len(m.data)
      BY <1>4, <1>5, <1>7, <2>1, <2>2, <2>3, <2>4 DEF IsEqual
    <2>6. QED
      BY <1>7, <2>5
  <1>8. QED
    BY <1>6, <1>7 DEF MessageOK

(***************************************************************************)
(* isEqual() of such a message and of what the peer read of it: never in   *)
(* NetFlow 9, because the time in the header does not reach the exporter's *)
(* own message, and in IPFIX exactly when the counters are those of one    *)
(* output: templates, values, sizes, times and order always agree there.   *)
(***************************************************************************)
THEOREM EqualOnlyTheFirstTimeSafe == Spec => []EqualOnlyTheFirstTime
  <1>1. IpfixInv => EqualOnlyTheFirstTime
    <2> SUFFICES ASSUME IpfixInv, peer.status = "ok", Readable(peer.table, msg),
                        Complete(peer.table, msg)
                 PROVE  IsEqual(msg, peer) <=>
                            msg.version = "IPFIX" /\ msg.nrecords = Len(msg.data)
      BY DEF EqualOnlyTheFirstTime
    <2>1. peer # Unread
      BY DEF Unread
    <2>2. MessageOK(msg) /\ Ready(msg)
      BY <2>1 DEF IpfixInv, PeerInv
    <2>3. PICK table \in PeerTables : peer = Import(table, msg)
      BY <2>1 DEF IpfixInv, PeerInv
    <2>4. peer.table = table
      BY <2>2, <2>3, ImportOK
    <2>5. Readable(table, msg) /\ Complete(table, msg)
      BY <2>4
    <2>6. QED
      BY <2>2, <2>3, <2>5, EqualIsCounted
  <1>2. QED
    BY <1>1, IpfixInvariant, PTL

(***************************************************************************)
(* A data record is a std::map with the order of mnslp_ipfix_field_key.    *)
(* That order takes two keys for the same exactly when == does, as long as *)
(* an element's number has at most three digits: the largest one in the    *)
(* tables of both vendors is 334.                                          *)
(***************************************************************************)
THEOREM KeyOrderSound ==
    ASSUME NEW a, NEW b, a.eno \in Nat, b.eno \in Nat,
           a.ftype \in 0 .. 999, b.ftype \in 0 .. 999
    PROVE  SameMapEntry(a, b) <=> KeyEqual(a, b)
  <1>1. PICK x, y, i, j : x = a.eno /\ y = b.eno /\ i = a.ftype /\ j = b.ftype
    OBVIOUS
  <1>2. (KeyLess(a, b) <=> x * 1000 + i < y * 1000 + j)
        /\ (KeyLess(b, a) <=> y * 1000 + j < x * 1000 + i)
    BY <1>1 DEF KeyLess
  <1>3. SameMapEntry(a, b) <=> x = y /\ i = j
    <2>1. /\ x \in Nat /\ y \in Nat /\ i \in 0 .. 999 /\ j \in 0 .. 999
      BY <1>1
    <2>2. CASE x < y
      BY <1>2, <2>1, <2>2, Z3T(20) DEF SameMapEntry
    <2>3. CASE y < x
      BY <1>2, <2>1, <2>3, Z3T(20) DEF SameMapEntry
    <2>4. CASE x = y
      BY <1>2, <2>1, <2>4, Z3T(20) DEF SameMapEntry
    <2>5. QED
      BY <2>1, <2>2, <2>3, <2>4
  <1>4. QED
    BY <1>1, <1>3 DEF KeyEqual

LEMMA ReverseTwice ==
    ASSUME NEW v \in Seq(Nat)
    PROVE  /\ Reverse(v) \in Seq(Nat) /\ Len(Reverse(v)) = Len(v)
           /\ Reverse(Reverse(v)) = v
  <1> DEFINE r == Reverse(v)
  <1>1. Len(v) \in Nat /\ \A i \in 1 .. Len(v) : (Len(v) - i) + 1 \in 1 .. Len(v)
    OBVIOUS
  <1>2. r = [i \in 1 .. Len(v) |-> v[(Len(v) - i) + 1]]
    BY DEF Reverse
  <1>3. r \in Seq(Nat) /\ Len(r) = Len(v)
    BY <1>1, <1>2
  <1>4. Reverse(r) = [i \in 1 .. Len(v) |-> r[(Len(v) - i) + 1]]
    BY <1>3 DEF Reverse
  <1> HIDE DEF r
  <1>5. \A i \in 1 .. Len(v) : r[(Len(v) - i) + 1] = v[i]
    <2> SUFFICES ASSUME NEW i \in 1 .. Len(v)
                 PROVE  r[(Len(v) - i) + 1] = v[i]
      OBVIOUS
    <2>1. (Len(v) - ((Len(v) - i) + 1)) + 1 = i
      BY <1>1
    <2>2. QED
      BY <1>1, <1>2, <2>1
  <1>6. Reverse(r) = [i \in 1 .. Len(v) |-> v[i]]
    BY <1>4, <1>5
  <1>7. QED
    BY <1>3, <1>6 DEF r

(***************************************************************************)
(* A value that get_ipfix_value_field() accepted is decoded to the same    *)
(* bytes by a peer that uses the same byte order: encode_int() and         *)
(* decode_int() are inverse for every width, and decode() accepts what     *)
(* encode() wrote.  Strings and floats are not encoded (see EncodeFaults). *)
(***************************************************************************)
THEOREM ValueSurvives ==
    ASSUME NEW ft, NEW v \in Seq(Nat), NEW relay \in BOOLEAN,
           ft.coding \in {"int", "uint", "ntp", "bytes", "ipaddr"},
           ValueAgrees(ft, v)
    PROVE  LET bytes == Encode(ft, v, relay)
           IN  ~DecodeThrows(ft, bytes) /\ Decode(ft, bytes, relay) = v
  <1> DEFINE bytes == Encode(ft, v, relay)
  <1>1. CASE Numeric(ft)
    <2>1. IntegerValueAgrees(ft, Len(v))
      BY <1>1 DEF Numeric, ValueAgrees, BytesValueAgrees, CharsValueAgrees
    <2>2. bytes = (IF relay THEN v ELSE Reverse(v)) /\ Len(bytes) = Len(v)
      BY <1>1, ReverseTwice DEF Encode, EncodeInt
    <2>3. ~DecodeThrows(ft, bytes)
      BY <1>1, <2>1, <2>2 DEF DecodeThrows
    <2>4. DecodeInt(bytes, relay) = v
      BY <2>1, <2>2, ReverseTwice DEF DecodeInt, IntegerValueAgrees
    <2>5. QED
      BY <1>1, <2>3, <2>4 DEF Decode
  <1>2. CASE ~Numeric(ft)
    <2>1. bytes = v /\ BytesValueAgrees(ft, Len(v))
      BY <1>2 DEF Numeric, ValueAgrees, CharsValueAgrees, Encode
    <2>2. QED
      BY <1>2, <2>1 DEF DecodeThrows, Decode
  <1>3. QED
    BY <1>1, <1>2

=============================================================================
