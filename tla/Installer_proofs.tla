-------------------------- MODULE Installer_proofs --------------------------
(***************************************************************************)
(* The tasks of the meter and the rules of the daemon, for any number of   *)
(* sessions and objects, any messages and any files: who is responsible    *)
(* for a task, that nothing that passed check() fails later, and that the  *)
(* tasks meter and export what their objects ask for.                      *)
(***************************************************************************)
EXTENDS Installer, FiniteSetTheorems, TLAPS

Phases == {"none", "installing", "installed", "removing"}

Daemons == {"down", "up", "hung", "crashed"}

IsSession(r) == r = [phase |-> r.phase, rule |-> r.rule, keys |-> r.keys,
                     todo |-> r.todo]

IdsOf(tasks) == {t.id : t \in tasks}

(* The shape of a session's record: the keys belong to its own objects,    *)
(* and an installed rule has keys for every object.                        *)
RuleOK(s) ==
    /\ IsSession(sess[s]) /\ sess[s].phase \in Phases
    /\ DOMAIN sess[s].rule \subseteq 1 .. next - 1
    /\ \A k \in DOMAIN sess[s].rule : sess[s].rule[k] \in Messages
    /\ DOMAIN sess[s].keys \subseteq DOMAIN sess[s].rule
    /\ \A k \in DOMAIN sess[s].keys :
           sess[s].keys[k] # {} /\ sess[s].keys[k] \subseteq {k} \X Nat
    /\ sess[s].phase = "none" => DOMAIN sess[s].keys = {}
    /\ sess[s].phase = "installed" => DOMAIN sess[s].rule = DOMAIN sess[s].keys
    /\ sess[s].phase # "none" => installer # "none"

(* What is still to be sent is about the objects of the session.           *)
TodoOK(s) ==
    /\ sess[s].phase = "installing" =>
          /\ installer = "netmate"
          /\ sess[s].todo \subseteq CommandsOf(sess[s].rule)
          /\ \A t \in sess[s].todo : t.id \notin HeldIds(s)
    /\ sess[s].phase = "removing" =>
          /\ sess[s].todo \subseteq HeldIds(s)
          /\ sess[s].todo # {} => installer = "netmate"

(* The tasks of an object are those its message asks for, and have been    *)
(* sent.                                                                   *)
TasksOK(s) ==
    \A t \in meter : t.id[1] \in DOMAIN sess[s].rule =>
        /\ installer = "netmate" /\ sess[s].phase # "none"
        /\ t \in CommandsOf(sess[s].rule)
        /\ sess[s].phase = "installing" => t \notin sess[s].todo

(* A key names a task, or one the meter refused.                           *)
HeldOK(s) ==
    installer = "netmate" /\ sess[s].phase \in {"installing", "installed"}
        => HeldIds(s) \subseteq IdsOf(meter) \cup refused

(* What a removal has dealt with is gone or counted as lost.               *)
RemovalOK(s) ==
    sess[s].phase = "removing" =>
        \A t \in meter \ orphans : t.id \in HeldIds(s) => t.id \in sess[s].todo

(* A task is lost because its key is not kept, or when it is to be removed. *)
OrphansOK(s) ==
    installer = "netmate" =>
        \A t \in orphans : t.id \in HeldIds(s) =>
            sess[s].phase = "removing" /\ t.id \notin sess[s].todo

(* check() has looked at the objects of a rule.                            *)
CheckedOK(s) ==
    installer = "netmate" =>
        \A k \in DOMAIN sess[s].rule : NetmateCheck(sess[s].rule[k])

Apart == \A s, u \in Sessions :
             s # u => DOMAIN sess[s].rule \cap DOMAIN sess[u].rule = {}

TasksOwned == \A t \in meter \ orphans : \E s \in Sessions : t.id \in HeldIds(s)

(* The meter's side: every id is that of an object there has been.         *)
MeterOK ==
    /\ installer \in {"none", "netmate", "nop"} /\ is_meter \in BOOLEAN
    /\ next \in 1 .. MaxObjects + 1 /\ orphans \subseteq meter
    /\ IdsOf(meter) \cup refused \subseteq (1 .. next - 1) \X Nat

InstallerInv ==
    /\ DOMAIN sess = Sessions /\ daemon \in Daemons /\ next \in Nat \ {0}
    /\ daemon = "down" => \A s \in Sessions : sess[s] = NoRule
    /\ installer # "netmate" => meter \subseteq orphans
    /\ Apart /\ TasksOwned /\ MeterOK
    /\ \A s \in Sessions : RuleOK(s) /\ TodoOK(s) /\ HeldOK(s) /\ RemovalOK(s)
                           /\ CheckedOK(s) /\ TasksOK(s) /\ OrphansOK(s)

(***************************************************************************)
(* Facts on the helpers.                                                   *)
(***************************************************************************)
LEMMA EmptyMapDomain == DOMAIN EmptyMap = {}
  BY DEF EmptyMap

LEMMA NoRuleIs ==
    /\ IsSession(NoRule) /\ NoRule.phase = "none"
    /\ DOMAIN NoRule.rule = {} /\ DOMAIN NoRule.keys = {} /\ NoRule.todo = {}
  BY EmptyMapDomain DEF NoRule, IsSession

LEMMA WithKeyIs ==
    ASSUME NEW keys, NEW id
    PROVE  /\ DOMAIN WithKey(keys, id) = DOMAIN keys \cup {id[1]}
           /\ \A k \in DOMAIN keys \ {id[1]} : WithKey(keys, id)[k] = keys[k]
           /\ \A x : x \in WithKey(keys, id)[id[1]]
                       <=> (x = id \/ (id[1] \in DOMAIN keys /\ x \in keys[id[1]]))
  BY DEF WithKey, Replace

LEMMA WithKeyHolds ==
    ASSUME NEW keys, NEW id
    PROVE  UNION Range(WithKey(keys, id)) = (UNION Range(keys)) \cup {id}
  <1> DEFINE more == WithKey(keys, id)
  <1>1. /\ DOMAIN more = DOMAIN keys \cup {id[1]}
        /\ \A k \in DOMAIN keys \ {id[1]} : more[k] = keys[k]
        /\ \A x : x \in more[id[1]]
                    <=> (x = id \/ (id[1] \in DOMAIN keys /\ x \in keys[id[1]]))
    BY WithKeyIs
  <1> HIDE DEF more
  <1>2. ASSUME NEW x \in UNION Range(more)
        PROVE  x \in (UNION Range(keys)) \cup {id}
    <2>1. PICK k \in DOMAIN more : x \in more[k]
      BY DEF Range
    <2>2. x = id \/ (k \in DOMAIN keys /\ x \in keys[k])
      BY <1>1, <2>1
    <2>3. QED
      BY <2>2 DEF Range
  <1>3. ASSUME NEW x \in UNION Range(keys)
        PROVE  x \in UNION Range(more)
    <2>1. PICK k \in DOMAIN keys : x \in keys[k]
      BY DEF Range
    <2>2. k \in DOMAIN more /\ x \in more[k]
      BY <1>1, <2>1
    <2>3. QED
      BY <2>2 DEF Range
  <1>4. id \in UNION Range(more)
    BY <1>1 DEF Range
  <1>5. UNION Range(more) = (UNION Range(keys)) \cup {id}
    BY <1>2, <1>3, <1>4
  <1>6. QED
    BY <1>5 DEF more

(***************************************************************************)
(* The commands of a message.                                              *)
(***************************************************************************)
LEMMA SetToSeqIs ==
    ASSUME NEW S, IsFiniteSet(S)
    PROVE  DOMAIN SetToSeq(S) \subseteq Nat /\ Range(SetToSeq(S)) = S
  <1> DEFINE n == Cardinality(S)
             f == SetToSeq(S)
  <1>1. n \in Nat /\ ExistsBijection(1 .. n, S)
    BY FS_CardinalityType
  <1>2. \E g \in [1 .. n -> S] : IsInjective(g)
    BY <1>1 DEF ExistsBijection, Bijection, Injection
  <1>3. f \in [1 .. n -> S] /\ IsInjective(f)
    BY <1>2 DEF SetToSeq
  <1> HIDE DEF f
  <1>4. f \in Injection(1 .. n, S) /\ IsFiniteSet(1 .. n) /\ Cardinality(1 .. n) = n
    BY <1>1, <1>3, FS_Interval DEF Injection
  <1>5. f \in Surjection(1 .. n, S)
    BY <1>4, FS_Injection
  <1>6. DOMAIN f \subseteq Nat /\ Range(f) = S
    BY <1>1, <1>3, <1>5 DEF Surjection, Range
  <1>7. QED
    BY <1>6 DEF f

Template == [type : {"data", "option"}, fields : Seq(DOMAIN FieldTypes)]

LEMMA MessageIs ==
    ASSUME NEW m \in Messages
    PROVE  m.templates \in Seq(Template) /\ DOMAIN m.records \subseteq Nat
  BY InstallerAssumption DEF Template

LEMMA TemplateThere ==
    ASSUME NEW m \in Messages, Len(m.templates) = 2, NEW type
    PROVE  TemplateOf(m, type) \in DOMAIN m.templates
  <1> DEFINE places == {i \in 1 .. Len(m.templates) : m.templates[i].type = type}
             least == CHOOSE x \in places : \A y \in places : x <= y
  <1>1. DOMAIN m.templates = 1 .. 2
    <2>1. m.templates \in Seq(Template)
      BY MessageIs
    <2>2. QED
      BY <2>1
  <1>2. places \subseteq 1 .. 2
    OBVIOUS
  <1>3. places # {} => least \in places
    <2>1. CASE 1 \in places
      <3>1. 1 \in places /\ \A y \in places : 1 <= y
        BY <1>2, <2>1
      <3>2. QED
        BY <3>1
    <2>2. CASE 1 \notin places /\ places # {}
      <3>1. 2 \in places /\ \A y \in places : 2 <= y
        BY <1>2, <2>2
      <3>2. QED
        BY <3>1
    <2>3. QED
      BY <2>1, <2>2
  <1>4. TemplateOf(m, type) = IF places # {} THEN least ELSE Len(m.templates)
    <2>1. SelectInSeq(m.templates, LAMBDA t : t.type = type)
            = IF places # {} THEN least ELSE 0
      BY DEF SelectInSeq, Min
    <2>2. places # {} => least \in 1 .. 2
      BY <1>2, <1>3, Zenon
    <2> HIDE DEF places, least
    <2>3. QED
      BY <2>1, <2>2 DEF TemplateOf
  <1>5. QED
    BY <1>1, <1>2, <1>3, <1>4

LEMMA FieldsFinite ==
    ASSUME NEW m \in Messages, NEW i \in DOMAIN m.templates
    PROVE  IsFiniteSet(Range(FieldsAt(m, i)))
  <1> DEFINE fields == FieldsAt(m, i)
             n == Len(fields)
  <1>1. fields \in Seq(DOMAIN FieldTypes)
    <2>1. m.templates \in Seq(Template)
      BY MessageIs
    <2>2. m.templates[i] \in Template
      BY <2>1
    <2>3. QED
      BY <2>2 DEF FieldsAt, Template
  <1> HIDE DEF fields
  <1>2. n \in Nat /\ DOMAIN fields = 1 .. n
    BY <1>1
  <1>3. fields \in Surjection(1 .. n, Range(fields))
    BY <1>2, <1>1 DEF Surjection, Range
  <1>4. QED
    BY <1>2, <1>3, FS_Surjection, FS_Interval DEF fields

LEMMA TargetsInOrder ==
    ASSUME NEW m \in Messages, Len(m.templates) = 2, NEW k
    PROVE  LET targets == SetToSeq(DOMAIN Exports(k, m)) IN
           DOMAIN targets \subseteq Nat /\ Range(targets) = Targets(k, m)
  <1>1. IsFiniteSet(ExportedFields(m))
    BY TemplateThere, FieldsFinite, FS_Subset DEF ExportedFields, ExportTemplate
  <1>2. IsFiniteSet(Targets(k, m))
    <2> DEFINE g == [f \in ExportedFields(m) |-> Target(k, Package(f))]
    <2>1. g \in Surjection(ExportedFields(m), Targets(k, m))
      BY DEF Surjection, Targets
    <2>2. QED
      BY <1>1, <2>1, FS_Surjection
  <1>3. DOMAIN Exports(k, m) = Targets(k, m)
    BY DEF Exports
  <1>4. QED
    BY <1>2, <1>3, SetToSeqIs

(* Every command of an object carries the key of the object. *)
LEMMA CommandKeyed ==
    ASSUME NEW m \in Messages, Len(m.templates) = 2, NEW k,
           NEW t \in Range(Commands(k, m))
    PROVE  t.id \in {k} \X Nat
  <1>1. PICK n \in DOMAIN Commands(k, m) : t = Commands(k, m)[n]
    BY DEF Range
  <1>2. t.id = <<k, n>> /\ n \in DOMAIN SetToSeq(DOMAIN Exports(k, m))
    BY <1>1 DEF Commands
  <1>3. QED
    BY <1>2, TargetsInOrder

(* Two commands of one object have different ids. *)
LEMMA CommandIdsDiffer ==
    ASSUME NEW m, NEW k, NEW t \in Range(Commands(k, m)),
           NEW c \in Range(Commands(k, m)), t.id = c.id
    PROVE  t = c
  <1>1. PICK n \in DOMAIN Commands(k, m) : t = Commands(k, m)[n]
    BY DEF Range
  <1>2. PICK i \in DOMAIN Commands(k, m) : c = Commands(k, m)[i]
    BY DEF Range
  <1>3. t.id = <<k, n>> /\ c.id = <<k, i>>
    BY <1>1, <1>2 DEF Commands
  <1>4. QED
    BY <1>1, <1>2, <1>3

(* One command for each package and target that the object asks for. *)
LEMMA CommandsExport ==
    ASSUME NEW m \in Messages, Len(m.templates) = 2, NEW k
    PROVE  \A f \in ExportedFields(m) :
              \E c \in Range(Commands(k, m)) :
                  /\ Package(f).metering \in c.packages
                  /\ c.target = Target(k, Package(f))
  <1> DEFINE exports == Exports(k, m)
             targets == SetToSeq(DOMAIN exports)
  <1>1. Range(targets) = Targets(k, m)
    BY TargetsInOrder
  <1> HIDE DEF exports, targets
  <1>2. ASSUME NEW f \in ExportedFields(m)
        PROVE  \E c \in Range(Commands(k, m)) :
                  /\ Package(f).metering \in c.packages
                  /\ c.target = Target(k, Package(f))
    <2> DEFINE t == Target(k, Package(f))
    <2>1. t \in Targets(k, m) /\ f \in ExportedTo(k, m, t)
      BY DEF Targets, ExportedTo
    <2>2. Package(f).metering \in exports[t]
      BY <2>1 DEF Exports, exports
    <2>3. PICK n \in DOMAIN targets : targets[n] = t
      BY <1>1, <2>1 DEF Range
    <2>4. DOMAIN Commands(k, m) = DOMAIN targets
          /\ Commands(k, m)[n] = [id |-> <<k, n>>, packages |-> exports[targets[n]],
                                  target |-> targets[n], filter |-> BuildFilter(m)]
      BY DEF Commands, exports, targets
    <2>5. QED
      BY <2>2, <2>3, <2>4 DEF Range
  <1>3. QED
    BY <1>2

LEMMA FirstOfOne ==
    ASSUME NEW n \in Nat
    PROVE  First({n}) = n
  BY DEF First

LEMMA PlacesAreNumbers ==
    ASSUME NEW m \in Messages, Len(m.templates) = 2
    PROVE  FilterPlaces(m) \subseteq Nat /\ FilterRecords(m) \subseteq Nat
  <1>1. FilterTemplate(m) \in DOMAIN m.templates
    BY TemplateThere DEF FilterTemplate
  <1>2. FieldsAt(m, FilterTemplate(m)) \in Seq(DOMAIN FieldTypes)
    <2>1. m.templates \in Seq(Template)
      BY MessageIs
    <2>2. m.templates[FilterTemplate(m)] \in Template
      BY <1>1, <2>1
    <2>3. QED
      BY <2>2 DEF FieldsAt, Template
  <1>3. DOMAIN FieldsAt(m, FilterTemplate(m)) \subseteq Nat
    BY <1>2
  <1>4. DOMAIN m.records \subseteq Nat
    BY MessageIs
  <1>5. QED
    BY <1>3, <1>4 DEF FilterPlaces, FilterRecords, RecordsOf

LEMMA FilterIsAsked ==
    ASSUME NEW m \in Messages, Len(m.templates) = 2, FilterRecords(m) # {},
           ~SeveralRecords(m), ~NamesCollide(m), ~ValueCut(m)
    PROVE  {<<x, BuildFilter(m)[x]>> : x \in DOMAIN BuildFilter(m)} = AskedFilter(m)
  <1>1. FilterPlaces(m) \subseteq Nat /\ FilterRecords(m) \subseteq Nat
    BY PlacesAreNumbers
  <1>2. PICK n \in FilterRecords(m) : FilterRecords(m) = {n}
    BY <1>1 DEF SeveralRecords
  <1>3. First(FilterRecords(m)) = n
    BY <1>1, <1>2, FirstOfOne
  <1> DEFINE asked(p) == m.records[n].values[FilterField(m, p)]
             named(x) == {p \in FilterPlaces(m) : Name(m, p) = x}
             filter == BuildFilter(m)
  <1>4. ASSUME NEW p \in FilterPlaces(m)
        PROVE  First(named(Name(m, p))) = p
    <2>1. named(Name(m, p)) = {p}
      BY <1>1 DEF NamesCollide
    <2>2. QED
      BY <1>1, <2>1, FirstOfOne
  <1>5. ASSUME NEW p \in FilterPlaces(m)
        PROVE  Text(FilterField(m, p), asked(p)) = asked(p)
    BY <1>2 DEF ValueCut
  <1>6. filter = [x \in {Name(m, p) : p \in FilterPlaces(m)} |->
                    Text(FilterField(m, First(named(x))), asked(First(named(x))))]
    BY <1>2, <1>3 DEF BuildFilter, FilterOf
  <1>7. AskedFilter(m) = {<<Name(m, p), asked(p)>> : p \in FilterPlaces(m)}
    BY <1>2 DEF AskedFilter
  <1> HIDE DEF asked, named, filter
  <1>8. \A p \in FilterPlaces(m) : filter[Name(m, p)] = asked(p)
    BY <1>4, <1>5, <1>6
  <1>9. DOMAIN filter = {Name(m, p) : p \in FilterPlaces(m)}
    BY <1>6
  <1>10. {<<x, filter[x]>> : x \in DOMAIN filter}
           = {<<Name(m, p), asked(p)>> : p \in FilterPlaces(m)}
    BY <1>8, <1>9
  <1>11. QED
    BY <1>7, <1>10 DEF filter

(* What install() is to send is about the objects of the rule. *)
Checked(rule) ==
    \A k \in DOMAIN rule : rule[k] \in Messages /\ NetmateCheck(rule[k])

LEMMA CommandsKeyed ==
    ASSUME NEW rule, Checked(rule), NEW t \in CommandsOf(rule)
    PROVE  /\ t.id \in (DOMAIN rule) \X Nat
           /\ t \in Range(Commands(t.id[1], rule[t.id[1]]))
  <1>1. PICK k \in DOMAIN rule : t \in Range(Commands(k, rule[k]))
    BY DEF CommandsOf
  <1>2. rule[k] \in Messages /\ Len(rule[k].templates) = 2
    BY DEF Checked, NetmateCheck
  <1>3. t.id \in {k} \X Nat
    BY <1>1, <1>2, CommandKeyed
  <1>4. QED
    BY <1>1, <1>3

(* The ids a session holds are about its own objects. *)
LEMMA HeldKeyed ==
    ASSUME InstallerInv, NEW s \in Sessions, NEW id \in HeldIds(s)
    PROVE  id[1] \in DOMAIN sess[s].rule /\ DOMAIN sess[s].keys # {}
  <1>1. PICK k \in DOMAIN sess[s].keys : id \in sess[s].keys[k]
    BY DEF HeldIds, Range
  <1>2. QED
    BY <1>1 DEF InstallerInv, RuleOK

LEMMA HeldByOne ==
    ASSUME InstallerInv, NEW s \in Sessions, NEW u \in Sessions, s # u,
           NEW id \in HeldIds(s)
    PROVE  id \notin HeldIds(u)
  <1> SUFFICES ASSUME id \in HeldIds(u) PROVE FALSE
    OBVIOUS
  <1>1. id[1] \in DOMAIN sess[s].rule /\ id[1] \in DOMAIN sess[u].rule
    BY HeldKeyed
  <1>2. QED
    BY <1>1 DEF InstallerInv, Apart

LEMMA InitHolds == Init => InstallerInv
  <1> SUFFICES ASSUME Init PROVE InstallerInv
    OBVIOUS
  <1>1. \A s \in Sessions : sess[s] = NoRule
    BY DEF Init
  <1>2. \A s \in Sessions : RuleOK(s) /\ TodoOK(s) /\ HeldOK(s) /\ RemovalOK(s)
                            /\ CheckedOK(s)
    BY <1>1, NoRuleIs DEF RuleOK, TodoOK, HeldOK, RemovalOK, CheckedOK, Phases, Init
  <1>3. Apart /\ TasksOwned /\ \A s \in Sessions : TasksOK(s) /\ OrphansOK(s)
    BY <1>1, NoRuleIs DEF Apart, TasksOwned, Init, TasksOK, OrphansOK
  <1>4. MeterOK
    <2>1. next = 1 /\ 1 \in 1 .. MaxObjects + 1
      BY InstallerAssumption DEF Init
    <2>2. IdsOf(meter) = {} /\ refused = {}
      BY DEF Init, IdsOf
    <2>3. QED
      BY <2>1, <2>2 DEF MeterOK, Init
  <1>5. DOMAIN sess = Sessions /\ daemon \in Daemons /\ next \in Nat \ {0}
        /\ meter \subseteq orphans
    BY DEF Init, Daemons
  <1>6. QED
    BY <1>1, <1>2, <1>3, <1>4, <1>5 DEF InstallerInv

(***************************************************************************)
(* A step of one session s of a running daemon: what has to be shown of s, *)
(* and of the tasks of the others.                                         *)
(***************************************************************************)
SessionOK(s) == /\ RuleOK(s) /\ TodoOK(s) /\ HeldOK(s) /\ RemovalOK(s)
                /\ CheckedOK(s) /\ TasksOK(s) /\ OrphansOK(s)

(* The files stay as they are, so that the same commands are built and the *)
(* same messages pass.                                                     *)
FilesKept == UNCHANGED <<installer, apps, actions>>

LEMMA SameLookups ==
    ASSUME FilesKept, NEW s
    PROVE  /\ CommandsOf(sess[s].rule)' = CommandsOf(sess'[s].rule)
           /\ \A k : NetmateCheck(sess[s].rule[k])' = NetmateCheck(sess'[s].rule[k])
  <1>1. apps' = apps /\ actions' = actions
    BY DEF FilesKept
  <1>2. CommandsOf(sess[s].rule)' = CommandsOf(sess'[s].rule)
    BY <1>1 DEF CommandsOf, Commands, Exports, Targets, ExportedTo, ExportedFields,
                Package, BuildFilter, FilterOf, FilterPlaces, Name
  <1>3. \A k : NetmateCheck(sess[s].rule[k])' = NetmateCheck(sess'[s].rule[k])
    BY <1>1 DEF NetmateCheck, HandleExportFields, HandleFilterFields
  <1>4. QED
    BY <1>2, <1>3

OthersKeep(s) ==
    /\ DOMAIN sess' = Sessions
    /\ \A u \in Sessions \ {s} : sess'[u] = sess[u]

(* No id that another session holds loses or gains a task. *)
TasksKept(s) ==
    \A u \in Sessions \ {s} : \A id \in HeldIds(u) :
        /\ id \in IdsOf(meter) \cup refused => id \in IdsOf(meter') \cup refused'
        /\ \A t \in meter' \ orphans' : t.id = id => t \in meter \ orphans

(* A task that is new, or lost, is about an object of s. *)
NewTasks(s) ==
    \A t \in (meter' \ meter) \cup (orphans' \ orphans) :
        t.id[1] \in DOMAIN sess[s].rule

(* Every task that counts has been there, or s holds its id from now on. *)
TasksFollow(s) ==
    \A t \in meter' \ orphans' :
        t.id \in HeldIds(s)' \/ (t \in meter \ orphans /\ t.id \notin HeldIds(s))

LEMMA OtherSession ==
    ASSUME InstallerInv, NEW s \in Sessions, NEW u \in Sessions, u # s,
           OthersKeep(s), TasksKept(s), NewTasks(s), FilesKept,
           next' \in Nat \ {0}, next <= next'
    PROVE  SessionOK(u)'
  <1>1. sess'[u] = sess[u] /\ HeldIds(u)' = HeldIds(u) /\ installer' = installer
    BY DEF OthersKeep, HeldIds, FilesKept
  <1>2. RuleOK(u) /\ TodoOK(u) /\ HeldOK(u) /\ RemovalOK(u) /\ CheckedOK(u)
        /\ TasksOK(u) /\ OrphansOK(u) /\ next \in Nat \ {0}
    BY DEF InstallerInv
  <1>3. RuleOK(u)'
    BY <1>1, <1>2 DEF RuleOK
  <1>4. TodoOK(u)'
    BY <1>1, <1>2, SameLookups DEF TodoOK
  <1>5. HeldOK(u)'
    BY <1>1, <1>2 DEF HeldOK, TasksKept
  <1>6. RemovalOK(u)'
    BY <1>1, <1>2 DEF RemovalOK, TasksKept
  <1>7. CheckedOK(u)'
    BY <1>1, <1>2, SameLookups DEF CheckedOK
  <1>8. TasksOK(u)'
    <2>1. \A t \in meter' \ meter : t.id[1] \notin DOMAIN sess[u].rule
      BY DEF NewTasks, InstallerInv, Apart
    <2>2. QED
      BY <1>1, <1>2, <2>1, SameLookups DEF TasksOK
  <1>9. OrphansOK(u)'
    <2>1. ASSUME NEW t \in orphans' \ orphans PROVE t.id \notin HeldIds(u)
      BY HeldKeyed DEF NewTasks, InstallerInv, Apart
    <2>2. QED
      BY <1>1, <1>2, <2>1 DEF OrphansOK
  <1>10. QED
    BY <1>3, <1>4, <1>5, <1>6, <1>7, <1>8, <1>9 DEF SessionOK

(* A session without a rule. *)
LEMMA NoRuleSession ==
    ASSUME NEW s \in Sessions, sess'[s] = NoRule, next' \in Nat \ {0}
    PROVE  SessionOK(s)'
  BY NoRuleIs DEF SessionOK, RuleOK, TodoOK, HeldOK, RemovalOK, CheckedOK, TasksOK,
                  OrphansOK, Phases, HeldIds, Range

(* A session whose rule stays. *)
LEMMA RuleKept ==
    ASSUME InstallerInv, NEW s \in Sessions, FilesKept, sess'[s].rule = sess[s].rule
    PROVE  /\ CheckedOK(s)'
           /\ CommandsOf(sess[s].rule)' = CommandsOf(sess[s].rule)
           /\ meter' \subseteq meter /\ sess'[s].phase \notin {"none", "installing"}
                  => TasksOK(s)'
  <1>1. CheckedOK(s) /\ TasksOK(s) /\ installer' = installer
    BY DEF InstallerInv, FilesKept
  <1>2. CommandsOf(sess[s].rule)' = CommandsOf(sess[s].rule)
    BY SameLookups
  <1>3. CheckedOK(s)'
    BY <1>1, SameLookups DEF CheckedOK
  <1>4. meter' \subseteq meter /\ sess'[s].phase \notin {"none", "installing"}
            => TasksOK(s)'
    BY <1>1, <1>2 DEF TasksOK
  <1>5. QED
    BY <1>2, <1>3, <1>4

LEMMA SessionStep ==
    ASSUME InstallerInv, NEW s \in Sessions, OthersKeep(s), TasksKept(s),
           TasksFollow(s), NewTasks(s), SessionOK(s)', MeterOK', FilesKept,
           daemon' \in Daemons \ {"down"},
           next' \in Nat \ {0}, next <= next',
           DOMAIN sess'[s].rule \subseteq DOMAIN sess[s].rule \cup next .. next',
           installer # "netmate" => meter' \subseteq orphans'
    PROVE  InstallerInv'
  <1>1. \A u \in Sessions : SessionOK(u)'
    BY OtherSession
  <1>2. Apart'
    <2>1. \A u \in Sessions : DOMAIN sess[u].rule \subseteq 1 .. next - 1
      BY DEF InstallerInv, RuleOK
    <2>2. \A u \in Sessions \ {s} :
              DOMAIN sess'[u].rule \cap DOMAIN sess'[s].rule = {}
      BY <2>1 DEF InstallerInv, Apart, OthersKeep
    <2>3. QED
      BY <2>2 DEF InstallerInv, Apart, OthersKeep
  <1>3. TasksOwned'
    <2> SUFFICES ASSUME NEW t \in meter' \ orphans'
                 PROVE  \E u \in Sessions : t.id \in HeldIds(u)'
      BY DEF TasksOwned
    <2>1. CASE t.id \in HeldIds(s)'
      BY <2>1
    <2>2. CASE t.id \notin HeldIds(s)'
      <3>1. t \in meter \ orphans /\ t.id \notin HeldIds(s)
        BY <2>2 DEF TasksFollow
      <3>2. PICK u \in Sessions : t.id \in HeldIds(u)
        BY <3>1 DEF InstallerInv, TasksOwned
      <3>3. HeldIds(u)' = HeldIds(u)
        BY <3>1, <3>2 DEF OthersKeep, HeldIds
      <3>4. QED
        BY <3>2, <3>3
    <2>3. QED
      BY <2>1, <2>2
  <1>4. DOMAIN sess' = Sessions /\ installer' = installer
    BY DEF OthersKeep, FilesKept
  <1>5. QED
    BY <1>1, <1>2, <1>3, <1>4 DEF InstallerInv, SessionOK

(***************************************************************************)
(* The meter is left alone and so is what s holds.                         *)
(***************************************************************************)
LEMMA MeterAlone ==
    ASSUME NEW s \in Sessions, InstallerInv, OthersKeep(s),
           UNCHANGED <<installer, is_meter, next, meter, orphans, refused>>,
           HeldIds(s)' = HeldIds(s)
    PROVE  TasksKept(s) /\ TasksFollow(s) /\ NewTasks(s) /\ MeterOK'
  <1>1. TasksKept(s)
    BY DEF TasksKept
  <1>2. TasksFollow(s)
    BY DEF TasksFollow
  <1>3. NewTasks(s)
    BY DEF NewTasks
  <1>4. MeterOK'
    BY DEF InstallerInv, MeterOK, IdsOf
  <1>5. QED
    BY <1>1, <1>2, <1>3, <1>4

LEMMA CheckObjectInv ==
    ASSUME InstallerInv, NEW s \in Sessions, NEW m \in Messages, CheckObject(s, m)
    PROVE  InstallerInv'
  <1> DEFINE more == Insert(sess[s].rule, next, m)
  <1>1. RuleOK(s) /\ CheckedOK(s) /\ next \in Nat \ {0} /\ DOMAIN sess = Sessions
        /\ (installer # "netmate" => meter \subseteq orphans)
    BY DEF InstallerInv
  <1>2. next \notin DOMAIN sess[s].rule
    BY <1>1 DEF RuleOK
  <1>3. /\ DOMAIN more = DOMAIN sess[s].rule \cup {next} /\ more[next] = m
        /\ \A k \in DOMAIN sess[s].rule : more[k] = sess[s].rule[k]
    BY <1>2 DEF Insert, Replace
  <1> HIDE DEF more
  <1>4. sess' = [sess EXCEPT ![s].rule = more] /\ sess[s].phase = "none"
    BY DEF CheckObject, more
  <1>5. OthersKeep(s)
    BY <1>1, <1>4 DEF OthersKeep
  <1>6. sess'[s] = [phase |-> "none", rule |-> more, keys |-> sess[s].keys,
                    todo |-> sess[s].todo]
    BY <1>1, <1>4 DEF RuleOK, IsSession
  <1>7. HeldIds(s)' = HeldIds(s)
    BY <1>6 DEF HeldIds
  <1>8. UNCHANGED <<installer, is_meter, apps, actions, meter, orphans, refused>>
        /\ next' = next + 1 /\ next <= MaxObjects
    BY DEF CheckObject
  <1>9. TasksKept(s)
    BY <1>8 DEF TasksKept
  <1>10. TasksFollow(s)
    BY <1>7, <1>8 DEF TasksFollow
  <1>11. NewTasks(s)
    BY <1>8 DEF NewTasks
  <1>12. MeterOK'
    <2>1. next' \in 1 .. MaxObjects + 1 /\ 1 .. next - 1 \subseteq 1 .. next' - 1
      BY <1>1, <1>8, InstallerAssumption
    <2>2. IdsOf(meter)' = IdsOf(meter)
      BY <1>8 DEF IdsOf
    <2>3. QED
      BY <1>8, <2>1, <2>2 DEF InstallerInv, MeterOK
  <1>13. FilesKept
    BY <1>8 DEF FilesKept
  <1>14. RuleOK(s)'
    <2>1. DOMAIN more \subseteq 1 .. next' - 1
      <3>1. next' = next + 1
        BY <1>8
      <3>2. \A k \in DOMAIN sess[s].rule : k \in 1 .. next - 1
        BY <1>1 DEF RuleOK
      <3>3. \A k \in DOMAIN more : k \in 1 .. next - 1 \/ k = next
        BY <1>3, <3>2
      <3>4. next \in 1 .. next
        BY <1>1, <1>4 DEF InstallerInv, CheckObject
      <3>5. QED
        BY <1>1, <3>1, <3>3, <3>4
    <2>2. sess[s].phase = "none"
      BY <1>4
    <2>3. QED
      BY <1>1, <1>3, <1>6, <2>1, <2>2 DEF RuleOK, IsSession, Phases
  <1>15. TasksOK(s)'
    <2>1. \A t \in meter : t.id[1] # next
      BY DEF InstallerInv, MeterOK, IdsOf
    <2>2. \A t \in meter : t.id[1] \notin DOMAIN sess[s].rule
      BY <1>4 DEF InstallerInv, TasksOK
    <2>3. sess'[s].rule = more /\ meter' = meter
      BY <1>6, <1>8
    <2>4. QED
      BY <1>3, <2>1, <2>2, <2>3 DEF TasksOK
  <1>16. CheckedOK(s)'
    <2>1. installer = "netmate" => NetmateCheck(m)
      BY DEF CheckObject, Check
    <2>2. installer = "netmate" => \A k \in DOMAIN more : NetmateCheck(more[k])
      BY <1>1, <1>3, <2>1 DEF CheckedOK
    <2>3. sess'[s].rule = more /\ installer' = installer
      BY <1>6, <1>8
    <2>4. QED
      BY <1>13, <2>2, <2>3, SameLookups DEF CheckedOK
  <1>17. OrphansOK(s)'
    BY <1>4, <1>6, <1>7, <1>8 DEF InstallerInv, OrphansOK
  <1>18. SessionOK(s)'
    BY <1>6, <1>14, <1>16, <1>15, <1>17 DEF SessionOK, TodoOK, HeldOK, RemovalOK
  <1>19. /\ next' \in Nat \ {0} /\ next <= next' /\ installer' = installer
         /\ daemon' \in Daemons \ {"down"} /\ UNCHANGED <<meter, orphans>>
    BY <1>1 DEF CheckObject, Up, Daemons
  <1>20. DOMAIN sess'[s].rule \subseteq DOMAIN sess[s].rule \cup next .. next'
    BY <1>1, <1>3, <1>6, <1>19
  <1>21. QED
    BY <1>1, <1>5, <1>18, <1>19, <1>20, <1>9, <1>10, <1>11, <1>12, <1>13,
       SessionStep

LEMMA AbandonInv ==
    ASSUME InstallerInv, NEW s \in Sessions, Abandon(s)
    PROVE  InstallerInv'
  <1>1. RuleOK(s) /\ next \in Nat \ {0} /\ DOMAIN sess = Sessions
        /\ (installer # "netmate" => meter \subseteq orphans)
    BY DEF InstallerInv
  <1>2. OthersKeep(s) /\ sess'[s] = NoRule /\ sess[s].phase = "none"
    BY <1>1 DEF Abandon, OthersKeep
  <1>3. HeldIds(s)' = HeldIds(s)
    BY <1>1, <1>2, NoRuleIs DEF HeldIds, RuleOK, Range
  <1>4. TasksKept(s) /\ TasksFollow(s) /\ NewTasks(s) /\ MeterOK' /\ FilesKept
    BY <1>2, <1>3, MeterAlone DEF Abandon, FilesKept
  <1>5. SessionOK(s)'
    BY <1>1, <1>2, NoRuleSession DEF Abandon
  <1>6. QED
    BY <1>1, <1>2, <1>4, <1>5, NoRuleIs, SessionStep DEF Abandon, Up, Daemons

LEMMA StartInstallInv ==
    ASSUME InstallerInv, NEW s \in Sessions, StartInstall(s)
    PROVE  InstallerInv'
  <1>1. RuleOK(s) /\ CheckedOK(s) /\ next \in Nat \ {0} /\ DOMAIN sess = Sessions
    BY DEF InstallerInv
  <1>2. installer = "netmate" /\ sess[s].phase = "none" /\ installer' = installer
    BY DEF StartInstall
  <1>3. ASSUME NEW k \in DOMAIN sess[s].rule
        PROVE  ~Unexpected(sess[s].rule[k])
    <2>1. IncludeAllDataFields(sess[s].rule[k], FilterTemplate(sess[s].rule[k]))
      BY <1>1, <1>2 DEF CheckedOK, NetmateCheck
    <2> DEFINE m == sess[s].rule[k]
    <2>2. ASSUME NEW p \in FilterPlaces(m), NEW n \in FilterRecords(m)
          PROVE  FilterField(m, p) \in DOMAIN m.records[n].values
      <3>1. FilterField(m, p) \in Range(FieldsAt(m, FilterTemplate(m)))
        BY DEF FilterPlaces, FilterField, Range
      <3>2. QED
        BY <2>1, <3>1 DEF IncludeAllDataFields, FilterRecords
    <2>3. QED
      BY <2>2 DEF Unexpected
  <1>4. /\ sess' = [sess EXCEPT ![s].phase = "installing",
                                ![s].todo = CommandsOf(sess[s].rule)]
        /\ UNCHANGED <<daemon, installer, is_meter, next, meter, orphans, refused>>
        /\ FilesKept
    BY <1>3 DEF StartInstall, FilesKept
  <1>5. OthersKeep(s)
    BY <1>1, <1>4 DEF OthersKeep
  <1>6. sess'[s] = [phase |-> "installing", rule |-> sess[s].rule,
                    keys |-> sess[s].keys, todo |-> CommandsOf(sess[s].rule)]
    BY <1>1, <1>4 DEF RuleOK, IsSession
  <1>7. HeldIds(s)' = HeldIds(s) /\ HeldIds(s) = {}
    BY <1>1, <1>2, <1>6 DEF HeldIds, RuleOK, Range
  <1>8. TasksKept(s) /\ TasksFollow(s) /\ NewTasks(s) /\ MeterOK'
    BY <1>4, <1>5, <1>7, MeterAlone
  <1>9. RuleOK(s)'
    BY <1>1, <1>2, <1>4, <1>6 DEF RuleOK, IsSession, Phases
  <1>10. CheckedOK(s)' /\ CommandsOf(sess[s].rule)' = CommandsOf(sess[s].rule)
    <2>1. sess'[s].rule = sess[s].rule
      BY <1>6
    <2>2. QED
      BY <1>4, <2>1, RuleKept
  <1>11. TasksOK(s)'
    BY <1>2, <1>4, <1>6 DEF InstallerInv, TasksOK
  <1>12. TodoOK(s)' /\ HeldOK(s)' /\ RemovalOK(s)' /\ OrphansOK(s)'
    BY <1>2, <1>6, <1>7, <1>10 DEF TodoOK, HeldOK, RemovalOK, OrphansOK
  <1>13. daemon' \in Daemons \ {"down"}
    BY <1>4 DEF StartInstall, Up, Daemons
  <1>14. SessionOK(s)'
    BY <1>9, <1>10, <1>12, <1>11 DEF SessionOK
  <1>15. DOMAIN sess'[s].rule = DOMAIN sess[s].rule
    BY <1>6
  <1>16. QED
    BY <1>1, <1>2, <1>4, <1>5, <1>8, <1>13, <1>14, <1>15, SessionStep

LEMMA AddTaskInv ==
    ASSUME InstallerInv, NEW s \in Sessions, NEW outcome \in Outcomes,
           AddTask(s, outcome)
    PROVE  InstallerInv'
  <1>1. /\ RuleOK(s) /\ CheckedOK(s) /\ TodoOK(s) /\ HeldOK(s) /\ TasksOK(s)
        /\ OrphansOK(s) /\ MeterOK /\ next \in Nat \ {0} /\ DOMAIN sess = Sessions
    BY DEF InstallerInv
  <1>2. /\ sess[s].phase = "installing" /\ installer = "netmate"
        /\ UNCHANGED <<daemon, installer, is_meter, next>> /\ FilesKept
        /\ daemon' \in Daemons \ {"down"}
    BY <1>1 DEF AddTask, TodoOK, FilesKept, Up, Daemons
  <1>3. PICK task \in sess[s].todo :
          /\ meter' = IF CarriedOut(outcome) THEN meter \cup {task} ELSE meter
          /\ sess' = [sess EXCEPT
                ![s].todo = @ \ {task},
                ![s].keys = IF Throws(outcome) THEN @ ELSE WithKey(@, task.id)]
          /\ orphans' = IF outcome = "reply_lost" THEN orphans \cup {task} ELSE orphans
          /\ refused' = IF outcome = "refused" THEN refused \cup {task.id} ELSE refused
    BY DEF AddTask
  <1> DEFINE keys == IF Throws(outcome) THEN sess[s].keys
                     ELSE WithKey(sess[s].keys, task.id)
             id == task.id
  <1>4. /\ task \in CommandsOf(sess[s].rule) /\ id \notin HeldIds(s)
        /\ id \in (DOMAIN sess[s].rule) \X Nat /\ id[1] \in DOMAIN sess[s].rule
        /\ id \in {id[1]} \X Nat
        /\ \A t \in CommandsOf(sess[s].rule) : t.id = id => t = task
    <2>1. Checked(sess[s].rule)
      BY <1>1, <1>2 DEF RuleOK, CheckedOK, Checked
    <2>2. sess[s].todo \subseteq CommandsOf(sess[s].rule) /\ id \notin HeldIds(s)
      BY <1>1, <1>2, <1>3 DEF TodoOK
    <2>3. \A t \in CommandsOf(sess[s].rule) :
             /\ t.id \in (DOMAIN sess[s].rule) \X Nat
             /\ t \in Range(Commands(t.id[1], sess[s].rule[t.id[1]]))
      BY <2>1, CommandsKeyed
    <2>4. \A t \in CommandsOf(sess[s].rule) : t.id = id => t = task
      <3> HIDE DEF id
      <3>1. ASSUME NEW t \in CommandsOf(sess[s].rule), t.id = task.id PROVE t = task
        BY <2>2, <2>3, <3>1, CommandIdsDiffer
      <3>2. QED
        BY <3>1 DEF id
    <2>5. id \in (DOMAIN sess[s].rule) \X Nat
      BY <2>2, <2>3
    <2>6. QED
      BY <2>2, <2>4, <2>5
  <1>5. OthersKeep(s)
    BY <1>1, <1>3 DEF OthersKeep
  <1>6. sess'[s] = [phase |-> "installing", rule |-> sess[s].rule,
                    keys |-> keys, todo |-> sess[s].todo \ {task}]
    BY <1>1, <1>2, <1>3 DEF RuleOK, IsSession
  <1>7. HeldIds(s)' = IF Throws(outcome) THEN HeldIds(s) ELSE HeldIds(s) \cup {id}
    BY <1>6, WithKeyHolds DEF HeldIds
  <1>8. \A u \in Sessions \ {s} : id \notin HeldIds(u)
    BY <1>4, HeldKeyed DEF InstallerInv, Apart
  <1>9. TasksKept(s)
    BY <1>3, <1>8 DEF TasksKept, IdsOf
  <1>10. TasksFollow(s)
    <2>1. ASSUME NEW t \in meter' \ orphans'
          PROVE  t \in meter \ orphans \/ (t = task /\ ~Throws(outcome))
      BY <1>3, <2>1 DEF CarriedOut, Throws, Outcomes
    <2>2. QED
      BY <1>7, <2>1 DEF TasksFollow
  <1>11. NewTasks(s)
    BY <1>3, <1>4 DEF NewTasks
  <1>12. MeterOK'
    <2>1. id \in (1 .. next - 1) \X Nat
      BY <1>1, <1>4 DEF RuleOK
    <2>2. orphans' \subseteq meter'
      BY <1>1, <1>3 DEF MeterOK, CarriedOut
    <2>3. IdsOf(meter') \cup refused' \subseteq IdsOf(meter) \cup refused \cup {id}
      BY <1>3 DEF IdsOf
    <2>4. QED
      BY <1>1, <1>2, <2>1, <2>2, <2>3 DEF MeterOK, IdsOf
  <1>13. RuleOK(s)'
    <2>1. CASE Throws(outcome)
      <3>1. sess'[s].rule = sess[s].rule /\ sess'[s].keys = sess[s].keys
            /\ sess'[s].phase = "installing" /\ IsSession(sess'[s])
        BY <1>6, <2>1 DEF IsSession
      <3>2. QED
        BY <1>1, <1>2, <3>1 DEF RuleOK, Phases
    <2>2. CASE ~Throws(outcome)
      <3>1. DOMAIN keys = DOMAIN sess[s].keys \cup {id[1]}
        <4>1. keys = WithKey(sess[s].keys, id)
          BY <2>2
        <4> HIDE DEF keys, id
        <4>2. DOMAIN WithKey(sess[s].keys, id) = DOMAIN sess[s].keys \cup {id[1]}
          BY WithKeyIs
        <4>3. QED
          BY <4>1, <4>2
      <3>4. \A k \in DOMAIN keys : keys[k] # {}
        <4>1. \A k \in DOMAIN sess[s].keys : sess[s].keys[k] # {}
          BY <1>1 DEF RuleOK
        <4>2. id \in WithKey(sess[s].keys, id)[id[1]]
          BY WithKeyIs
        <4>3. \A k \in DOMAIN sess[s].keys \ {id[1]} :
                  WithKey(sess[s].keys, id)[k] = sess[s].keys[k]
          BY WithKeyIs
        <4>4. QED
          BY <2>2, <3>1, <4>1, <4>2, <4>3
      <3>2. ASSUME NEW k \in DOMAIN keys, NEW x \in keys[k] PROVE x \in {k} \X Nat
        <4>1. CASE k = id[1]
          <5>1. x = id \/ (id[1] \in DOMAIN sess[s].keys /\ x \in sess[s].keys[id[1]])
            BY <2>2, <3>2, <4>1, WithKeyIs
          <5>2. QED
            BY <1>1, <1>4, <4>1, <5>1 DEF RuleOK
        <4>2. CASE k # id[1]
          <5>1. k \in DOMAIN sess[s].keys /\ x \in sess[s].keys[k]
            <6>1. \A j \in DOMAIN sess[s].keys \ {id[1]} :
                      WithKey(sess[s].keys, id)[j] = sess[s].keys[j]
              BY WithKeyIs
            <6>2. k \in DOMAIN sess[s].keys \ {id[1]}
              BY <3>1, <3>2, <4>2
            <6>3. keys[k] = sess[s].keys[k]
              BY <2>2, <6>1, <6>2
            <6>4. QED
              BY <3>2, <6>2, <6>3
          <5>2. QED
            BY <1>1, <5>1 DEF RuleOK
        <4>3. QED
          BY <4>1, <4>2
      <3> HIDE DEF keys
      <3>3. QED
        BY <1>1, <1>2, <1>4, <1>6, <3>1, <3>2, <3>4 DEF RuleOK, IsSession, Phases
    <2>3. QED
      BY <2>1, <2>2
  <1>14. sess'[s].rule = sess[s].rule
    BY <1>6
  <1>15. CheckedOK(s)' /\ CommandsOf(sess[s].rule)' = CommandsOf(sess[s].rule)
    BY <1>2, <1>14, RuleKept
  <1>16. TasksOK(s)'
    <2>1. /\ sess'[s].todo = sess[s].todo \ {task}
          /\ sess'[s].phase = "installing"
      BY <1>6
    <2>2. \A t \in meter' : t \in meter \/ t = task
      BY <1>3
    <2>3. QED
      BY <1>1, <1>2, <1>4, <1>14, <1>15, <2>1, <2>2 DEF TasksOK
  <1>17. TodoOK(s)'
    <2>1. /\ sess'[s].todo = sess[s].todo \ {task}
          /\ sess'[s].phase = "installing"
      BY <1>6
    <2>2. sess'[s].todo \subseteq CommandsOf(sess[s].rule)
      BY <1>1, <1>2, <2>1 DEF TodoOK
    <2>3. \A t \in sess'[s].todo : t.id \notin HeldIds(s)'
      <3> HIDE DEF id
      <3>1. ASSUME NEW t \in sess'[s].todo PROVE t.id # id /\ t.id \notin HeldIds(s)
        BY <1>1, <1>2, <1>4, <2>1 DEF TodoOK
      <3>2. QED
        BY <1>7, <3>1
    <2>4. QED
      BY <1>2, <1>15, <2>1, <2>2, <2>3 DEF TodoOK
  <1>18. RemovalOK(s)'
    BY <1>6 DEF RemovalOK
  <1>19. OrphansOK(s)'
    <2>1. \A t \in orphans : t.id \in HeldIds(s) => FALSE
      BY <1>1, <1>2 DEF OrphansOK
    <2>2. \A t \in orphans : t.id # id
      BY <1>1, <1>2, <1>4 DEF MeterOK, TasksOK
    <2>3. \A t \in orphans' : t \in orphans \/ (t = task /\ Throws(outcome))
      BY <1>3 DEF Throws
    <2> HIDE DEF id, keys
    <2>4. task.id = id
      BY DEF id
    <2>5. QED
      BY <1>4, <1>7, <2>1, <2>2, <2>3, <2>4 DEF OrphansOK
  <1>20. HeldOK(s)'
    <2>1. HeldIds(s) \subseteq IdsOf(meter) \cup refused
      BY <1>1, <1>2 DEF HeldOK
    <2>2. ~Throws(outcome) => task \in meter' \/ id \in refused'
      BY <1>3 DEF Throws, CarriedOut, Outcomes
    <2>3. HeldIds(s)' \subseteq IdsOf(meter') \cup refused'
      BY <1>3, <1>7, <2>1, <2>2 DEF IdsOf
    <2>4. QED
      BY <2>3 DEF HeldOK, IdsOf
  <1>21. SessionOK(s)'
    BY <1>13, <1>17, <1>20, <1>15, <1>16, <1>18, <1>19 DEF SessionOK
  <1>22. QED
    BY <1>1, <1>2, <1>5, <1>9, <1>10, <1>21, <1>11, <1>12, <1>14, SessionStep

LEMMA FinishInstallInv ==
    ASSUME InstallerInv, NEW s \in Sessions, FinishInstall(s)
    PROVE  InstallerInv'
  <1> DEFINE kept == Restrict(sess[s].rule, DOMAIN sess[s].keys)
  <1>1. /\ RuleOK(s) /\ CheckedOK(s) /\ TodoOK(s) /\ HeldOK(s) /\ TasksOK(s)
        /\ OrphansOK(s) /\ next \in Nat \ {0} /\ DOMAIN sess = Sessions
        /\ (installer # "netmate" => meter \subseteq orphans)
    BY DEF InstallerInv
  <1>2. DOMAIN kept = DOMAIN sess[s].keys /\ DOMAIN kept \subseteq DOMAIN sess[s].rule
        /\ \A k \in DOMAIN kept : kept[k] = sess[s].rule[k]
    BY <1>1 DEF Restrict, RuleOK
  <1> HIDE DEF kept
  <1>3. /\ sess' = [sess EXCEPT ![s].phase = "installed", ![s].rule = kept]
        /\ sess[s].phase = "installing" /\ FilesKept
        /\ UNCHANGED <<daemon, installer, is_meter, next, meter, orphans, refused>>
    BY DEF FinishInstall, FilesKept, kept
  <1>4. OthersKeep(s)
    BY <1>1, <1>3 DEF OthersKeep
  <1>5. sess'[s] = [phase |-> "installed", rule |-> kept, keys |-> sess[s].keys,
                    todo |-> sess[s].todo]
    BY <1>1, <1>3 DEF RuleOK, IsSession
  <1>6. HeldIds(s)' = HeldIds(s)
    BY <1>5 DEF HeldIds
  <1>7. TasksKept(s) /\ TasksFollow(s) /\ NewTasks(s) /\ MeterOK'
    BY <1>3, <1>4, <1>6, MeterAlone
  <1>8. RuleOK(s)'
    BY <1>1, <1>2, <1>3, <1>5 DEF RuleOK, IsSession, Phases
  <1>9. TodoOK(s)' /\ RemovalOK(s)'
    BY <1>5 DEF TodoOK, RemovalOK
  <1>10. HeldOK(s)' /\ OrphansOK(s)'
    BY <1>1, <1>3, <1>6 DEF HeldOK, OrphansOK
  <1>11. sess'[s].rule = kept /\ installer' = installer /\ meter' = meter
    BY <1>3, <1>5
  <1>12. CheckedOK(s)'
    <2>1. installer = "netmate" => \A k \in DOMAIN kept : NetmateCheck(kept[k])
      BY <1>1, <1>2 DEF CheckedOK
    <2>2. QED
      BY <1>3, <1>11, <2>1, SameLookups DEF CheckedOK
  <1>13. TasksOK(s)'
    <2>1. ASSUME NEW t \in meter, t.id[1] \in DOMAIN kept
          PROVE  t \in CommandsOf(kept)
      <3>1. installer = "netmate" /\ Checked(sess[s].rule)
        BY <1>1, <1>3 DEF RuleOK, CheckedOK, TodoOK, Checked
      <3>2. t \in CommandsOf(sess[s].rule)
        BY <1>1, <1>2, <2>1 DEF TasksOK
      <3>3. t \in Range(Commands(t.id[1], sess[s].rule[t.id[1]]))
        BY <3>1, <3>2, CommandsKeyed
      <3>4. QED
        BY <1>2, <2>1, <3>3 DEF CommandsOf
    <2>2. sess'[s].phase = "installed"
      BY <1>5
    <2>3. QED
      BY <1>1, <1>3, <1>11, <2>1, <2>2, SameLookups DEF TasksOK, TodoOK
  <1>14. SessionOK(s)'
    BY <1>8, <1>9, <1>10, <1>12, <1>13 DEF SessionOK
  <1>15. DOMAIN sess'[s].rule \subseteq DOMAIN sess[s].rule
    BY <1>2, <1>5
  <1>16. daemon' \in Daemons \ {"down"}
    BY DEF FinishInstall, Up, Daemons
  <1>17. QED
    BY <1>1, <1>3, <1>4, <1>7, <1>14, <1>15, <1>16, SessionStep

LEMMA NopInstallInv ==
    ASSUME InstallerInv, NEW s \in Sessions, NopInstall(s)
    PROVE  InstallerInv'
  <1> DEFINE keys == [k \in DOMAIN sess[s].rule |-> {<<k, 0>>}]
  <1>1. /\ RuleOK(s) /\ TasksOK(s) /\ MeterOK /\ next \in Nat \ {0}
        /\ DOMAIN sess = Sessions /\ meter \subseteq orphans /\ installer = "nop"
        /\ sess[s].phase = "none"
    BY DEF InstallerInv, NopInstall
  <1>2. /\ sess' = [sess EXCEPT ![s].phase = "installed", ![s].keys = keys]
        /\ UNCHANGED <<daemon, installer, is_meter, next, meter, orphans, refused>>
        /\ FilesKept /\ daemon' \in Daemons \ {"down"}
    BY DEF NopInstall, FilesKept, Up, Daemons
  <1>3. DOMAIN keys = DOMAIN sess[s].rule
        /\ \A k \in DOMAIN keys : keys[k] # {} /\ keys[k] \subseteq {k} \X Nat
    <2>1. \A k \in DOMAIN keys : keys[k] = {<<k, 0>>}
      OBVIOUS
    <2>2. \A k : <<k, 0>> \in {k} \X Nat
      OBVIOUS
    <2>3. QED
      BY <2>1, <2>2
  <1> HIDE DEF keys
  <1>4. OthersKeep(s)
    BY <1>1, <1>2 DEF OthersKeep
  <1>5. sess'[s] = [phase |-> "installed", rule |-> sess[s].rule, keys |-> keys,
                    todo |-> sess[s].todo]
    BY <1>1, <1>2 DEF RuleOK, IsSession
  <1>6. TasksKept(s) /\ TasksFollow(s) /\ NewTasks(s)
    BY <1>1, <1>2 DEF TasksKept, TasksFollow, NewTasks
  <1>7. MeterOK'
    BY <1>1, <1>2 DEF MeterOK, IdsOf
  <1>8. RuleOK(s)'
    BY <1>1, <1>2, <1>3, <1>5 DEF RuleOK, IsSession, Phases
  <1>9. TodoOK(s)' /\ HeldOK(s)' /\ RemovalOK(s)' /\ CheckedOK(s)' /\ OrphansOK(s)'
    BY <1>1, <1>2, <1>5 DEF TodoOK, HeldOK, RemovalOK, CheckedOK, OrphansOK
  <1>10. TasksOK(s)'
    BY <1>1, <1>2, <1>5 DEF TasksOK
  <1>11. SessionOK(s)'
    BY <1>8, <1>9, <1>10 DEF SessionOK
  <1>12. DOMAIN sess'[s].rule = DOMAIN sess[s].rule
    BY <1>5
  <1>13. QED
    BY <1>1, <1>2, <1>4, <1>6, <1>7, <1>11, <1>12, SessionStep

LEMMA StartRemoveInv ==
    ASSUME InstallerInv, NEW s \in Sessions, StartRemove(s)
    PROVE  InstallerInv'
  <1> DEFINE todo == IF installer = "nop" THEN {} ELSE HeldIds(s)
  <1>1. /\ RuleOK(s) /\ OrphansOK(s) /\ next \in Nat \ {0} /\ DOMAIN sess = Sessions
        /\ (installer # "netmate" => meter \subseteq orphans) /\ MeterOK
    BY DEF InstallerInv
  <1>2. /\ sess' = [sess EXCEPT ![s].phase = "removing", ![s].todo = todo]
        /\ sess[s].phase = "installed" /\ FilesKept /\ daemon' \in Daemons \ {"down"}
        /\ UNCHANGED <<daemon, installer, is_meter, next, meter, orphans, refused>>
    BY DEF StartRemove, HeldIds, FilesKept, Up, Daemons
  <1>3. OthersKeep(s)
    BY <1>1, <1>2 DEF OthersKeep
  <1>4. sess'[s] = [phase |-> "removing", rule |-> sess[s].rule,
                    keys |-> sess[s].keys, todo |-> todo]
    BY <1>1, <1>2 DEF RuleOK, IsSession
  <1>5. HeldIds(s)' = HeldIds(s)
    BY <1>4 DEF HeldIds
  <1>6. TasksKept(s) /\ TasksFollow(s) /\ NewTasks(s) /\ MeterOK'
    BY <1>2, <1>3, <1>5, MeterAlone
  <1>7. RuleOK(s)'
    BY <1>1, <1>2, <1>4 DEF RuleOK, IsSession, Phases
  <1>8. CheckedOK(s)' /\ TasksOK(s)'
    <2>1. sess'[s].rule = sess[s].rule /\ sess'[s].phase = "removing"
      BY <1>4
    <2>2. QED
      BY <1>2, <2>1, RuleKept
  <1>9. TodoOK(s)' /\ HeldOK(s)'
    BY <1>1, <1>2, <1>4, <1>5 DEF TodoOK, HeldOK, RuleOK, MeterOK
  <1>10. RemovalOK(s)' /\ OrphansOK(s)'
    BY <1>1, <1>2, <1>4, <1>5 DEF RemovalOK, OrphansOK
  <1>11. SessionOK(s)'
    BY <1>7, <1>8, <1>9, <1>10 DEF SessionOK
  <1>12. DOMAIN sess'[s].rule = DOMAIN sess[s].rule
    BY <1>4
  <1>13. QED
    BY <1>1, <1>2, <1>3, <1>6, <1>11, <1>12, SessionStep

LEMMA RemoveTaskInv ==
    ASSUME InstallerInv, NEW s \in Sessions, NEW outcome \in Outcomes,
           RemoveTask(s, outcome)
    PROVE  InstallerInv'
  <1>1. /\ RuleOK(s) /\ TodoOK(s) /\ RemovalOK(s) /\ OrphansOK(s) /\ MeterOK
        /\ next \in Nat \ {0} /\ DOMAIN sess = Sessions
        /\ (installer # "netmate" => meter \subseteq orphans)
    BY DEF InstallerInv
  <1>2. /\ sess[s].phase = "removing" /\ FilesKept /\ daemon' \in Daemons \ {"down"}
        /\ UNCHANGED <<daemon, installer, is_meter, next, refused>>
    BY DEF RemoveTask, FilesKept, Up, Daemons
  <1>3. PICK id \in sess[s].todo :
          /\ meter' = IF CarriedOut(outcome) THEN meter \ Named({id}) ELSE meter
          /\ orphans' = IF CarriedOut(outcome) THEN orphans
                        ELSE orphans \cup Named({id})
          /\ sess' = [sess EXCEPT ![s].todo = @ \ {id}]
    BY DEF RemoveTask
  <1>4. OthersKeep(s)
    BY <1>1, <1>3 DEF OthersKeep
  <1>5. sess'[s] = [phase |-> "removing", rule |-> sess[s].rule,
                    keys |-> sess[s].keys, todo |-> sess[s].todo \ {id}]
    BY <1>1, <1>2, <1>3 DEF RuleOK, IsSession
  <1>6. HeldIds(s)' = HeldIds(s) /\ id \in HeldIds(s)
    BY <1>1, <1>2, <1>5 DEF HeldIds, TodoOK
  <1>7. /\ \A u \in Sessions \ {s} : id \notin HeldIds(u)
        /\ id[1] \in DOMAIN sess[s].rule /\ installer = "netmate"
    BY <1>1, <1>2, <1>6, HeldByOne, HeldKeyed DEF TodoOK
  <1>8. /\ meter' \subseteq meter /\ meter' \ orphans' \subseteq meter \ orphans
        /\ \A t \in meter' \ orphans' : t.id # id
        /\ \A t \in meter : t.id # id => t \in meter'
        /\ \A t \in orphans' \ orphans : t.id = id
    BY <1>3 DEF Named
  <1>9. TasksKept(s) /\ NewTasks(s)
    BY <1>2, <1>7, <1>8 DEF TasksKept, NewTasks, IdsOf
  <1>10. TasksFollow(s)
    BY <1>6, <1>8 DEF TasksFollow
  <1>11. MeterOK'
    <2>1. \A t \in orphans : t.id # id
      BY <1>1, <1>6, <1>7 DEF OrphansOK
    <2>2. orphans' \subseteq meter'
      BY <1>1, <1>3, <2>1 DEF MeterOK, Named
    <2>3. QED
      BY <1>1, <1>2, <1>8, <2>2 DEF MeterOK, IdsOf
  <1>12. RuleOK(s)' /\ HeldOK(s)'
    BY <1>1, <1>2, <1>5 DEF RuleOK, IsSession, Phases, HeldOK
  <1>13. CheckedOK(s)' /\ TasksOK(s)'
    BY <1>2, <1>5, <1>8, RuleKept
  <1>14. TodoOK(s)' /\ RemovalOK(s)'
    BY <1>1, <1>2, <1>5, <1>6, <1>8 DEF TodoOK, RemovalOK
  <1>15. OrphansOK(s)'
    BY <1>1, <1>2, <1>5, <1>6, <1>8 DEF OrphansOK
  <1>16. SessionOK(s)'
    BY <1>12, <1>13, <1>14, <1>15 DEF SessionOK
  <1>17. DOMAIN sess'[s].rule = DOMAIN sess[s].rule
    BY <1>5
  <1>18. QED
    BY <1>1, <1>2, <1>4, <1>7, <1>9, <1>10, <1>11, <1>16, <1>17, SessionStep

LEMMA FinishRemoveInv ==
    ASSUME InstallerInv, NEW s \in Sessions, FinishRemove(s)
    PROVE  InstallerInv'
  <1>1. RuleOK(s) /\ RemovalOK(s) /\ next \in Nat \ {0} /\ DOMAIN sess = Sessions
        /\ (installer # "netmate" => meter \subseteq orphans) /\ MeterOK
    BY DEF InstallerInv
  <1>2. /\ sess' = [sess EXCEPT ![s] = NoRule] /\ FilesKept
        /\ sess[s].phase = "removing" /\ sess[s].todo = {}
        /\ UNCHANGED <<daemon, installer, is_meter, next, meter, orphans, refused>>
    BY DEF FinishRemove, RemovedKeys, FilesKept
  <1>3. OthersKeep(s) /\ sess'[s] = NoRule
    BY <1>1, <1>2 DEF OthersKeep
  <1>4. TasksKept(s) /\ NewTasks(s)
    BY <1>2 DEF TasksKept, NewTasks
  <1>5. TasksFollow(s)
    BY <1>1, <1>2 DEF TasksFollow, RemovalOK
  <1>6. MeterOK'
    BY <1>1, <1>2 DEF MeterOK, IdsOf
  <1>7. SessionOK(s)'
    BY <1>1, <1>2, <1>3, NoRuleSession
  <1>8. QED
    BY <1>1, <1>2, <1>3, <1>4, <1>5, <1>6, <1>7, NoRuleIs, SessionStep
       DEF FinishRemove, Up, Daemons

(***************************************************************************)
(* The start and the end of the daemon: no session has a rule.             *)
(***************************************************************************)
LEMMA NoRulesInv ==
    ASSUME DOMAIN sess' = Sessions, \A s \in Sessions : sess'[s] = NoRule,
           daemon' \in Daemons, next' \in Nat \ {0}, meter' \subseteq orphans', MeterOK'
    PROVE  InstallerInv'
  <1>1. DOMAIN sess' = Sessions /\ \A s \in Sessions : sess'[s] = NoRule
    OBVIOUS
  <1>2. \A s \in Sessions : SessionOK(s)'
    BY <1>1, NoRuleSession
  <1>3. Apart' /\ TasksOwned'
    BY <1>1, NoRuleIs DEF Apart, TasksOwned
  <1>4. QED
    BY <1>1, <1>2, <1>3 DEF InstallerInv, SessionOK

LEMMA StartupInv ==
    ASSUME InstallerInv, Startup
    PROVE  InstallerInv'
  <1>1. UNCHANGED <<sess, next, meter, orphans, refused>> /\ daemon = "down"
    BY DEF Startup
  <1>2. DOMAIN sess = Sessions /\ \A s \in Sessions : sess[s] = NoRule
    BY <1>1 DEF InstallerInv
  <1>3. meter \subseteq orphans
    BY <1>2, NoRuleIs DEF InstallerInv, TasksOwned, HeldIds, Range
  <1>4. /\ daemon' \in Daemons /\ installer' \in {"netmate", "nop"}
        /\ is_meter' \in BOOLEAN
    BY DEF Startup, Setup, Daemons
  <1>5. MeterOK'
    BY <1>1, <1>4 DEF InstallerInv, MeterOK, IdsOf
  <1>6. QED
    BY <1>1, <1>2, <1>3, <1>4, <1>5, NoRulesInv DEF InstallerInv

LEMMA DownInv ==
    ASSUME InstallerInv, Down, meter' = orphans', meter' \subseteq meter
    PROVE  InstallerInv'
  <1>1. DOMAIN sess' = Sessions /\ \A s \in Sessions : sess'[s] = NoRule
    BY DEF Down
  <1>2. daemon' \in Daemons /\ next' \in Nat \ {0}
    BY DEF Down, Daemons, InstallerInv
  <1>3. MeterOK'
    <2>1. /\ MeterOK /\ installer' = "none" /\ is_meter' = FALSE
          /\ next' = next /\ refused' = refused
      BY DEF Down, InstallerInv
    <2>2. IdsOf(meter') \subseteq IdsOf(meter) /\ IdsOf(meter)' = IdsOf(meter')
      BY DEF IdsOf
    <2>3. QED
      BY <2>1, <2>2 DEF MeterOK
  <1>4. QED
    BY <1>1, <1>2, <1>3, NoRulesInv

LEMMA StutterInv ==
    ASSUME InstallerInv, UNCHANGED vars
    PROVE  InstallerInv'
  <1>1. FilesKept /\ UNCHANGED <<daemon, is_meter, next, sess, meter, orphans, refused>>
    BY DEF vars, FilesKept
  <1>2. ASSUME NEW s \in Sessions
        PROVE  RuleOK(s)' /\ TodoOK(s)' /\ HeldOK(s)' /\ RemovalOK(s)'
               /\ CheckedOK(s)' /\ TasksOK(s)' /\ OrphansOK(s)'
    <2>1. installer' = installer /\ HeldIds(s)' = HeldIds(s)
      BY <1>1 DEF FilesKept, HeldIds
    <2>2. RuleOK(s)' /\ HeldOK(s)' /\ RemovalOK(s)' /\ OrphansOK(s)'
      BY <1>1, <2>1 DEF InstallerInv, RuleOK, HeldOK, RemovalOK, OrphansOK, IdsOf
    <2>3. CommandsOf(sess[s].rule)' = CommandsOf(sess[s].rule) /\ CheckedOK(s)'
      BY <1>1, RuleKept
    <2>4. TodoOK(s)' /\ TasksOK(s)'
      BY <1>1, <2>1, <2>3 DEF InstallerInv, TodoOK, TasksOK
    <2>5. QED
      BY <2>2, <2>3, <2>4
  <1>3. Apart' /\ TasksOwned' /\ MeterOK'
    BY <1>1 DEF InstallerInv, Apart, TasksOwned, MeterOK, HeldIds, IdsOf, FilesKept
  <1>4. QED
    BY <1>1, <1>2, <1>3 DEF InstallerInv, FilesKept

LEMMA InstallerNext ==
    ASSUME InstallerInv, [Next]_vars
    PROVE  InstallerInv'
  <1>1. CASE Startup
    BY <1>1, StartupInv
  <1>2. ASSUME NEW s \in Sessions, NEW m \in Messages, CheckObject(s, m)
        PROVE  InstallerInv'
    BY <1>2, CheckObjectInv
  <1>3. ASSUME NEW s \in Sessions, Abandon(s)
        PROVE  InstallerInv'
    BY <1>3, AbandonInv
  <1>4. ASSUME NEW s \in Sessions, StartInstall(s)
        PROVE  InstallerInv'
    BY <1>4, StartInstallInv
  <1>5. ASSUME NEW s \in Sessions, FinishInstall(s)
        PROVE  InstallerInv'
    BY <1>5, FinishInstallInv
  <1>6. ASSUME NEW s \in Sessions, NopInstall(s)
        PROVE  InstallerInv'
    BY <1>6, NopInstallInv
  <1>7. ASSUME NEW s \in Sessions, NEW outcome \in Outcomes, AddTask(s, outcome)
        PROVE  InstallerInv'
    BY <1>7, AddTaskInv
  <1>8. ASSUME NEW s \in Sessions, NEW outcome \in Outcomes, RemoveTask(s, outcome)
        PROVE  InstallerInv'
    BY <1>8, RemoveTaskInv
  <1>9. ASSUME NEW s \in Sessions, StartRemove(s)
        PROVE  InstallerInv'
    BY <1>9, StartRemoveInv
  <1>10. ASSUME NEW s \in Sessions, FinishRemove(s)
         PROVE  InstallerInv'
    BY <1>10, FinishRemoveInv
  <1>11. ASSUME NEW outcome \in Outcomes, Shutdown(outcome)
         PROVE  InstallerInv'
    BY <1>11, DownInv DEF Shutdown
  <1>12. CASE Crash
    BY <1>12, DownInv DEF Crash
  <1>13. CASE UNCHANGED vars
    BY <1>13, StutterInv
  <1>14. QED
    BY <1>1, <1>2, <1>3, <1>4, <1>5, <1>6, <1>7, <1>8, <1>9, <1>10, <1>11,
       <1>12, <1>13 DEF Next

LEMMA InstallerInvariant == Spec => []InstallerInv
  <1>1. InstallerInv /\ [Next]_vars => InstallerInv'
    BY InstallerNext
  <1>2. QED
    BY InitHolds, <1>1, PTL DEF Spec

(***************************************************************************)
(* install() and remove() against a meter that refuses commands or whose   *)
(* answers are lost: every task belongs to the rule of a session or is one *)
(* the daemon has lost track of, and every key names a task or a refusal.  *)
(***************************************************************************)
THEOREM TasksAccounted == Spec => []MeterMatchesRules
  <1>1. InstallerInv => MeterMatchesRules
    BY DEF InstallerInv, TasksOwned, HeldOK, MeterMatchesRules, IdsOf
  <1>2. QED
    BY <1>1, InstallerInvariant, PTL

(***************************************************************************)
(* An object that passed check() can be turned into commands: no function  *)
(* declared throw() ever throws.  No removal is reported as failed.        *)
(***************************************************************************)
THEOREM CheckedIsInstallable == Spec => []NothingComesBack
  <1>1. InstallerInv => NothingComesBack
    BY DEF InstallerInv, NothingComesBack, Daemons, RuleOK, Phases
  <1>2. QED
    BY <1>1, InstallerInvariant, PTL

(***************************************************************************)
(* Ids are never used again: every rule, key and task is about an object   *)
(* that passed check(), and what the daemon lost track of is in the meter. *)
(***************************************************************************)
THEOREM InstallerTyped == Spec => []InstallerTypeOK
  <1>1. ASSUME InstallerInv, NEW s \in Sessions
        PROVE  /\ sess[s].phase \in {"none", "installing", "installed", "removing", "error"}
               /\ DOMAIN sess[s].rule \subseteq 1 .. next - 1
               /\ DOMAIN sess[s].keys \subseteq DOMAIN sess[s].rule
               /\ \A k \in DOMAIN sess[s].keys : sess[s].keys[k] \subseteq {k} \X Nat
    BY <1>1 DEF InstallerInv, RuleOK, Phases
  <1>2. ASSUME InstallerInv
        PROVE  IdsOf(meter) \cup refused \subseteq Ids
    <2>1. 1 .. next - 1 \subseteq Keys
      BY <1>2, InstallerAssumption DEF InstallerInv, MeterOK, Keys
    <2>2. IdsOf(meter) \cup refused \subseteq (1 .. next - 1) \X Nat
      BY <1>2 DEF InstallerInv, MeterOK
    <2>3. QED
      BY <2>1, <2>2 DEF Ids
  <1>3. InstallerInv => InstallerTypeOK
    BY <1>1, <1>2 DEF InstallerTypeOK, IdsOf, InstallerInv, MeterOK, Daemons
  <1>4. QED
    BY <1>3, InstallerInvariant, PTL

(* A task in the meter is one of the commands of the object it is named for. *)
LEMMA TaskIsCommand ==
    ASSUME InstallerInv, NEW s \in Sessions, NEW k \in DOMAIN sess[s].rule,
           NEW t \in meter, t.id[1] = k
    PROVE  installer = "netmate" /\ t \in Range(Commands(k, sess[s].rule[k]))
  <1>1. installer = "netmate" /\ t \in CommandsOf(sess[s].rule)
    BY DEF InstallerInv, TasksOK
  <1>2. Checked(sess[s].rule)
    BY <1>1 DEF InstallerInv, RuleOK, CheckedOK, Checked
  <1>3. QED
    BY <1>1, <1>2, CommandsKeyed

(***************************************************************************)
(* build_command_filter_fields(): a task meters the traffic its object     *)
(* asks for, but for the three kinds of objects the property names.        *)
(***************************************************************************)
THEOREM TasksMeterWhatIsAsked == Spec => []FilterFaithful
  <1>1. ASSUME InstallerInv, NEW s \in Sessions, NEW k \in DOMAIN sess[s].rule,
               NEW t \in meter, t.id[1] = k
        PROVE  LET m == sess[s].rule[k] IN
               \/ {<<x, t.filter[x]>> : x \in DOMAIN t.filter} = AskedFilter(m)
               \/ SeveralRecords(m) \/ NamesCollide(m) \/ ValueCut(m)
    <2> DEFINE m == sess[s].rule[k]
    <2>1. installer = "netmate" /\ t \in Range(Commands(k, m))
      BY <1>1, TaskIsCommand
    <2>2. t.filter = BuildFilter(m)
      BY <2>1 DEF Commands, Range
    <2>3. m \in Messages /\ NetmateCheck(m)
      BY <1>1, <2>1 DEF InstallerInv, RuleOK, CheckedOK
    <2>4. Len(m.templates) = 2 /\ FilterRecords(m) # {}
      BY <2>3 DEF NetmateCheck, IncludeAllDataFields, FilterRecords
    <2> HIDE DEF m
    <2>5. SeveralRecords(m) \/ NamesCollide(m) \/ ValueCut(m)
          \/ {<<x, t.filter[x]>> : x \in DOMAIN t.filter} = AskedFilter(m)
      BY <2>2, <2>3, <2>4, FilterIsAsked
    <2>6. QED
      BY <2>5 DEF m
  <1>2. InstallerInv => FilterFaithful
    BY <1>1 DEF FilterFaithful
  <1>3. QED
    BY <1>2, InstallerInvariant, PTL

(***************************************************************************)
(* build_command_export_fields(): nothing an installed object is to export *)
(* is forgotten, unless the command for it failed.                         *)
(***************************************************************************)
THEOREM InstalledIsExported == Spec => []ExportsCovered
  <1>1. ASSUME InstallerInv, installer = "netmate", NEW s \in Sessions,
               sess[s].phase = "installed", NEW k \in DOMAIN sess[s].rule,
               NEW f \in Range(FieldsAt(sess[s].rule[k], ExportTemplate(sess[s].rule[k])))
        PROVE  LET m == sess[s].rule[k] IN
               \E c \in Range(Commands(k, m)) :
                   /\ Package(f).metering \in c.packages
                   /\ c.target = Target(k, Package(f))
                   /\ c.id \in sess[s].keys[k] => c \in meter \/ c.id \in refused
    <2> DEFINE m == sess[s].rule[k]
    <2>1. m \in Messages /\ NetmateCheck(m) /\ DOMAIN sess[s].keys = DOMAIN sess[s].rule
          /\ HeldOK(s)
      BY <1>1 DEF InstallerInv, RuleOK, CheckedOK
    <2>2. f \in ExportedFields(m) /\ Len(m.templates) = 2
      BY <1>1, <2>1 DEF NetmateCheck, HandleExportFields, ExportedFields
    <2>3. PICK c \in Range(Commands(k, m)) :
              Package(f).metering \in c.packages /\ c.target = Target(k, Package(f))
      BY <2>1, <2>2, CommandsExport
    <2>4. ASSUME c.id \in sess[s].keys[k], c.id \notin refused
          PROVE  c \in meter
      <3>1. c.id \in HeldIds(s) /\ c.id[1] = k
        <4>1. c.id \in HeldIds(s)
          BY <2>1, <2>4 DEF HeldIds, Range
        <4>2. sess[s].keys[k] \subseteq {k} \X Nat
          BY <1>1, <2>1 DEF InstallerInv, RuleOK
        <4>3. QED
          BY <2>4, <4>1, <4>2
      <3>2. PICK t \in meter : t.id = c.id
        BY <1>1, <2>1, <2>4, <3>1 DEF HeldOK, IdsOf
      <3>3. t \in Range(Commands(k, m))
        BY <1>1, <3>1, <3>2, TaskIsCommand
      <3>4. t = c
        BY <3>2, <3>3, CommandIdsDiffer
      <3>5. QED
        BY <3>4
    <2>5. QED
      BY <2>3, <2>4
  <1>2. ASSUME InstallerInv, installer = "netmate", NEW s \in Sessions,
               sess[s].phase = "installed", NEW k \in DOMAIN sess[s].rule
        PROVE  sess[s].keys[k] # {}
    BY <1>2 DEF InstallerInv, RuleOK
  <1>3. InstallerInv => ExportsCovered
    BY <1>1, <1>2 DEF ExportsCovered
  <1>4. QED
    BY <1>3, InstallerInvariant, PTL

=============================================================================
