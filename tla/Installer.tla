----------------------------- MODULE Installer -----------------------------
(***************************************************************************)
(* The policy rule installers of a node and the meter they drive:          *)
(* netmate_ipfix_policy_rule_installer, nop_policy_rule_installer,         *)
(* mt_policy_rule and the set-up and shutdown of mnslp_daemon around them. *)
(* Sessions check the objects of a CONFIGURE, install the rule they make   *)
(* of them, and remove it later.  Every command is an HTTP request of its  *)
(* own; the requests of several dispatcher threads interleave.             *)
(*                                                                         *)
(* The meter is external: it keeps its tasks whatever happens to the       *)
(* daemon.  A request is carried out and answered, refused in the answer,  *)
(* carried out though the answer is lost, or never arrives.                *)
(*                                                                         *)
(* Abstraction.  A message is its templates in the order of their ids and  *)
(* its data records, with numbers for values; a task is its id and what    *)
(* the command asks for.  Keys (uuids) are numbers that are never reused.  *)
(* orphans and refused are history: the tasks the daemon has lost track    *)
(* of, and the ids of the tasks the meter would not take.                  *)
(***************************************************************************)
EXTENDS PolicyMapping, FiniteSets

CONSTANTS Sessions,           \* sessions that have rules in this node
          Messages,           \* IPFIX messages a CONFIGURE may carry
          FieldTypes,         \* field -> its type, as in the field container
          ConfigFiles,        \* contents the configuration file may have
          ExportFiles,        \* contents the export file may have
          MeteringApp,        \* configuration parameter: the application
          ExportDirectory,    \* configuration parameter: default directory
          MaxObjects          \* bound: objects put into rules

ASSUME InstallerAssumption ==
    /\ MaxObjects \in Nat \ {0}
    /\ MeteringApp \in NetmateApps
    /\ \A m \in Messages :
           /\ m.templates \in Seq([type : {"data", "option"},
                                  fields : Seq(DOMAIN FieldTypes)])
           /\ DOMAIN m.records \subseteq Nat

Fields == INSTANCE IpfixFields

VARIABLES daemon, installer, is_meter, apps, actions, sess, next, meter,
          orphans, refused

vars == <<daemon, installer, is_meter, apps, actions, sess, next, meter,
          orphans, refused>>

Keys == 1 .. MaxObjects

Outcomes == {"done", "refused", "reply_lost", "broken"}

(* execute_command() throws; the code of the answer is never looked at. *)
Throws(outcome) == outcome \in {"reply_lost", "broken"}

CarriedOut(outcome) == outcome \in {"done", "reply_lost"}

NoRule == [phase |-> "none", rule |-> EmptyMap, keys |-> EmptyMap, todo |-> {}]

Init ==
    /\ daemon = "down" /\ installer = "none" /\ is_meter = FALSE
    /\ apps = EmptyMap /\ actions = EmptyMap
    /\ sess = [s \in Sessions |-> NoRule] /\ next = 1
    /\ meter = {} /\ orphans = {} /\ refused = {}

(***************************************************************************)
(* The message: get_filter_template() and get_export_template() stop at    *)
(* the first template of their type and otherwise return the last one.     *)
(***************************************************************************)
TemplateOf(m, type) ==
    LET i == SelectInSeq(m.templates, LAMBDA t : t.type = type) IN
    IF i # 0 THEN i ELSE Len(m.templates)

FilterTemplate(m) == TemplateOf(m, "option")

ExportTemplate(m) == TemplateOf(m, "data")

FieldsAt(m, i) == m.templates[i].fields

(* The places of the records of a template among the records. *)
RecordsOf(m, i) == {n \in DOMAIN m.records : m.records[n].template = i}

(* Mutant: the names of the fields are not compared. *)
IncludeAnyData(m, i) == RecordsOf(m, i) # {}

(* mnslp_ipfix_message::include_all_data_fields() *)
IncludeAllDataFields(m, i) ==
    /\ RecordsOf(m, i) # {}
    /\ \A n \in RecordsOf(m, i) :
           LET values == m.records[n].values IN
           /\ Cardinality(DOMAIN values) = Len(FieldsAt(m, i))
           /\ Range(FieldsAt(m, i)) \subseteq DOMAIN values

HandleExportFields(m, i) ==
    \A f \in Range(FieldsAt(m, i)) :
        /\ IsExportField(apps, MeteringApp, f)
        /\ CheckActionAvailability(actions, MeteringApp, f)

HandleFilterFields(m, i) ==
    \A f \in Range(FieldsAt(m, i)) : CheckFieldAvailability(apps, MeteringApp, f)

(* check() of the two installers. *)
NetmateCheck(m) ==
    /\ Len(m.templates) = 2
    /\ HandleExportFields(m, ExportTemplate(m))
    /\ IncludeAllDataFields(m, FilterTemplate(m))
    /\ HandleFilterFields(m, FilterTemplate(m))

(* dispatcher::check() *)
Check(m) == is_meter /\ (installer = "netmate" => NetmateCheck(m))

(***************************************************************************)
(* build_command_filter_fields(), print_filter_values(): the first value   *)
(* of the first field with a name goes into the map, the rest do not.      *)
(***************************************************************************)
FilterField(m, p) == FieldsAt(m, FilterTemplate(m))[p]

FilterRecords(m) == RecordsOf(m, FilterTemplate(m))

(* The places of the fields to filter by among those of the template. *)
FilterPlaces(m) ==
    {p \in DOMAIN FieldsAt(m, FilterTemplate(m)) :
        IsFilterField(apps, MeteringApp, FilterField(m, p))}

Name(m, p) == GetFieldTraslate(apps, MeteringApp, FilterField(m, p))

Text(f, n) == Fields!PrintValue(FieldTypes[f], n)

First(places) == CHOOSE p \in places : \A q \in places : p <= q

FilterOf(m, places) ==
    LET Value(f) == Text(f, m.records[First(FilterRecords(m))].values[f]) IN
    IF FilterRecords(m) = {} THEN EmptyMap
    ELSE [name \in {Name(m, p) : p \in places} |->
             Value(FilterField(m, First({p \in places : Name(m, p) = name})))]

(* Mutant: the loop starts at the second field. *)
BuildFilterFromOne(m) == FilterOf(m, FilterPlaces(m) \ {1})

BuildFilter(m) == FilterOf(m, FilterPlaces(m))

(* A record without the field makes a function declared throw() throw. *)
Unexpected(m) ==
    \E p \in FilterPlaces(m), n \in FilterRecords(m) :
        FilterField(m, p) \notin DOMAIN m.records[n].values

(***************************************************************************)
(* build_command_export_fields(): the packages by the target they export   *)
(* to, one command for each target.                                        *)
(***************************************************************************)
Package(f) == GetPackage(actions, MeteringApp, f)

Target(key, p) ==
    CASE p.procedure = "file"  -> <<"file", p.directory, key>>
      [] p.procedure = "ipfix" -> <<"ipfix">>
      [] OTHER                 -> <<"file", ExportDirectory, key>>

ExportedFields(m) ==
    {f \in Range(FieldsAt(m, ExportTemplate(m))) : IsExportField(apps, MeteringApp, f)}

ExportedTo(key, m, target) ==
    {f \in ExportedFields(m) : Target(key, Package(f)) = target}

Targets(key, m) == {Target(key, Package(f)) : f \in ExportedFields(m)}

(* Mutant: a second package for a target takes the place of the first. *)
ExportsOverwrite(key, m) ==
    [t \in Targets(key, m) |->
        {Package(CHOOSE f \in ExportedTo(key, m, t) : TRUE).metering}]

Exports(key, m) ==
    [t \in Targets(key, m) |-> {Package(f).metering : f \in ExportedTo(key, m, t)}]

(* create_postfield_command() *)
Commands(key, m) ==
    LET exports == Exports(key, m)
        targets == SetToSeq(DOMAIN exports) IN
    [n \in DOMAIN targets |->
        [id |-> <<key, n>>, packages |-> exports[targets[n]],
         target |-> targets[n], filter |-> BuildFilter(m)]]

(***************************************************************************)
(* policy_rule_installer::setup(): a file that cannot be used turns        *)
(* metering off and leaves what has been read of it.  It does not speak to *)
(* the meter.  unset is what an uninitialized priority happens to be.      *)
(***************************************************************************)
Setup(c, e, unset) ==
    LET outcome == IF ApplicationsThrow(c) THEN "throws" ELSE ActionsOutcome(e) IN
    /\ daemon' = CASE outcome = "crashes" -> "crashed" [] outcome = "hangs" -> "hung"
                   [] OTHER -> "up"
    /\ is_meter' = (outcome = "read")
    /\ apps' = IF c.opens THEN ReadApplications(c) ELSE EmptyMap
    /\ actions' = IF outcome = "read" THEN ReadActions(e, unset) ELSE EmptyMap

(***************************************************************************)
(* mnslp_daemon::startup(): the installer follows the configuration, and   *)
(* stays chosen when its files turn out to be of no use.                   *)
(***************************************************************************)
Startup ==
    /\ daemon = "down"
    /\ \E meterable, install \in BOOLEAN :
           /\ installer' = IF meterable /\ install THEN "netmate" ELSE "nop"
           /\ IF meterable /\ install
              THEN \E c \in ConfigFiles, e \in ExportFiles, unset \in {0, 2} :
                       Setup(c, e, unset)
              ELSE /\ daemon' = "up" /\ is_meter' = meterable
                   /\ UNCHANGED <<apps, actions>>
    /\ UNCHANGED <<sess, next, meter, orphans, refused>>

(***************************************************************************)
(* The sessions.                                                           *)
(***************************************************************************)
Up == daemon = "up"

(* Mutant: the key of the next object. *)
CheckObjectNextKey(s, m) ==
    /\ Up /\ sess[s].phase = "none" /\ next <= MaxObjects /\ Check(m)
    /\ sess' = [sess EXCEPT ![s].rule = Insert(@, next + 1, m)]
    /\ next' = next + 1
    /\ UNCHANGED <<daemon, installer, is_meter, apps, actions, meter, orphans,
                   refused>>

(* A CONFIGURE: the objects that pass the check make the rule. *)
CheckObject(s, m) ==
    /\ Up /\ sess[s].phase = "none" /\ next <= MaxObjects /\ Check(m)
    /\ sess' = [sess EXCEPT ![s].rule = Insert(@, next, m)]
    /\ next' = next + 1
    /\ UNCHANGED <<daemon, installer, is_meter, apps, actions, meter, orphans,
                   refused>>

(* The session ends before it installs anything. *)
Abandon(s) ==
    /\ Up /\ sess[s].phase = "none" /\ sess[s].rule # EmptyMap
    /\ sess' = [sess EXCEPT ![s] = NoRule]
    /\ UNCHANGED <<daemon, installer, is_meter, apps, actions, next, meter,
                   orphans, refused>>

(* install(): the commands of all objects.  They, and the removals, go out  *)
(* object by object, those of one object in the order of their numbers.     *)
CommandsOf(rule) == UNION {Range(Commands(k, rule[k])) : k \in DOMAIN rule}

Precedes(id, other) ==
    id[1] < other[1] \/ (id[1] = other[1] /\ id[2] <= other[2])

IsFirst(id, ids) == \A other \in ids : Precedes(id, other)

StartInstall(s) ==
    /\ Up /\ installer = "netmate" /\ sess[s].phase = "none"
    /\ sess[s].rule # EmptyMap
    /\ IF \E k \in DOMAIN sess[s].rule : Unexpected(sess[s].rule[k])
       THEN daemon' = "terminated" /\ UNCHANGED sess
       ELSE /\ sess' = [sess EXCEPT ![s].phase = "installing",
                                    ![s].todo = CommandsOf(sess[s].rule)]
            /\ UNCHANGED daemon
    /\ UNCHANGED <<installer, is_meter, apps, actions, next, meter, orphans,
                   refused>>

(* Mutant: the keys of an object are replaced by the latest. *)
WithLastKey(keys, id) == Replace(keys, id[1], {id})

WithKey(keys, id) ==
    Replace(keys, id[1], {id} \cup IF id[1] \in DOMAIN keys THEN keys[id[1]] ELSE {})

(* One request; an exception is caught and the command forgotten. *)
AddTask(s, outcome) ==
    /\ Up /\ sess[s].phase = "installing"
    /\ \E task \in sess[s].todo :
       /\ IsFirst(task.id, {t.id : t \in sess[s].todo})
       /\ meter' = IF CarriedOut(outcome) THEN meter \cup {task} ELSE meter
       /\ sess' = [sess EXCEPT
              ![s].todo = @ \ {task},
              ![s].keys = IF Throws(outcome) THEN @ ELSE WithKey(@, task.id)]
       /\ orphans' = IF outcome = "reply_lost" THEN orphans \cup {task} ELSE orphans
       /\ refused' = IF outcome = "refused" THEN refused \cup {task.id} ELSE refused
    /\ UNCHANGED <<daemon, installer, is_meter, apps, actions, next>>

(* The rule that is returned has the objects with at least one command. *)
FinishInstall(s) ==
    /\ Up /\ sess[s].phase = "installing" /\ sess[s].todo = {}
    /\ sess' = [sess EXCEPT ![s].phase = "installed",
                            ![s].rule = Restrict(@, DOMAIN sess[s].keys)]
    /\ UNCHANGED <<daemon, installer, is_meter, apps, actions, next, meter,
                   orphans, refused>>

(* nop_policy_rule_installer::install(): every object under its own key. *)
NopInstall(s) ==
    /\ Up /\ installer = "nop" /\ sess[s].phase = "none"
    /\ sess[s].rule # EmptyMap
    /\ sess' = [sess EXCEPT ![s].phase = "installed",
                            ![s].keys = [k \in DOMAIN sess[s].rule |-> {<<k, 0>>}]]
    /\ UNCHANGED <<daemon, installer, is_meter, apps, actions, next, meter,
                   orphans, refused>>

(* remove(): the nop installer has nothing to ask the meter for. *)
StartRemove(s) ==
    /\ Up /\ sess[s].phase = "installed"
    /\ sess' = [sess EXCEPT ![s].phase = "removing",
                            ![s].todo = IF installer = "nop" THEN {}
                                        ELSE UNION Range(sess[s].keys)]
    /\ UNCHANGED <<daemon, installer, is_meter, apps, actions, next, meter,
                   orphans, refused>>

Named(ids) == {t \in meter : t.id \in ids}

RemoveTask(s, outcome) ==
    /\ Up /\ sess[s].phase = "removing"
    /\ \E id \in sess[s].todo :
       /\ IsFirst(id, sess[s].todo)
       /\ meter' = IF CarriedOut(outcome) THEN meter \ Named({id}) ELSE meter
       /\ orphans' = IF CarriedOut(outcome) THEN orphans
                     ELSE orphans \cup Named({id})
       /\ sess' = [sess EXCEPT ![s].todo = @ \ {id}]
    /\ UNCHANGED <<daemon, installer, is_meter, apps, actions, next, refused>>

(***************************************************************************)
(* The rule that remove() returns has an entry for every object, whatever  *)
(* became of its tasks; dispatcher::remove_policy_rules() compares the     *)
(* numbers of entries, and throws when they differ.                        *)
(***************************************************************************)
RemovedKeys(keys) == DOMAIN keys

FinishRemove(s) ==
    /\ Up /\ sess[s].phase = "removing" /\ sess[s].todo = {}
    /\ sess' = [sess EXCEPT ![s] =
           IF Cardinality(RemovedKeys(@.keys)) = Cardinality(DOMAIN @.keys)
           THEN NoRule ELSE [NoRule EXCEPT !.phase = "error"]]
    /\ UNCHANGED <<daemon, installer, is_meter, apps, actions, next, meter,
                   orphans, refused>>

(***************************************************************************)
(* The end of the daemon: an orderly one asks for the removal of the whole *)
(* group of rules, a crash asks for nothing.  The sessions are gone.       *)
(***************************************************************************)
Down == /\ daemon' = "down" /\ is_meter' = FALSE /\ installer' = "none"
        /\ apps' = EmptyMap /\ actions' = EmptyMap
        /\ sess' = [s \in Sessions |-> NoRule]
        /\ UNCHANGED <<next, refused>>

(* mnslp_daemon::shutdown(), remove_all(): a failure goes unnoticed. *)
Shutdown(outcome) ==
    /\ Up /\ Down
    /\ meter' = IF installer = "netmate" /\ CarriedOut(outcome) THEN {} ELSE meter
    /\ orphans' = meter'

Crash ==
    /\ daemon # "down" /\ Down
    /\ orphans' = meter /\ UNCHANGED meter

Next ==
    \/ Startup
    \/ \E s \in Sessions :
        \/ \E m \in Messages : CheckObject(s, m)
        \/ Abandon(s) \/ StartInstall(s) \/ FinishInstall(s) \/ NopInstall(s)
        \/ \E outcome \in Outcomes : AddTask(s, outcome) \/ RemoveTask(s, outcome)
        \/ StartRemove(s) \/ FinishRemove(s)
    \/ \E outcome \in Outcomes : Shutdown(outcome)
    \/ Crash

Spec == Init /\ [][Next]_vars

(***************************************************************************)
(* Properties.                                                             *)
(***************************************************************************)
Ids == Keys \X Nat

(* The state of the installer, the sessions' rules and the meter. *)
InstallerTypeOK ==
    /\ daemon \in {"down", "up", "hung", "crashed", "terminated"}
    /\ installer \in {"none", "netmate", "nop"} /\ is_meter \in BOOLEAN
    /\ next \in 1 .. MaxObjects + 1
    /\ \A s \in Sessions :
           /\ sess[s].phase \in {"none", "installing", "installed", "removing", "error"}
           /\ DOMAIN sess[s].rule \subseteq 1 .. next - 1
           /\ DOMAIN sess[s].keys \subseteq DOMAIN sess[s].rule
           /\ \A k \in DOMAIN sess[s].keys : sess[s].keys[k] \subseteq {k} \X Nat
    /\ orphans \subseteq meter /\ {t.id : t \in meter} \cup refused \subseteq Ids

HeldIds(s) == UNION Range(sess[s].keys)

(***************************************************************************)
(* install() and remove() keep no more and no less than the rule keys.  A  *)
(* task of the meter belongs to a session that will ask for its removal,   *)
(* or the daemon has lost track of it: the answer to its installation was  *)
(* lost, its removal failed, or the daemon crashed.  A key of an installed *)
(* rule names a task of the meter unless the meter refused it in an answer *)
(* nobody read.                                                            *)
(***************************************************************************)
MeterMatchesRules ==
    /\ \A t \in meter \ orphans : \E s \in Sessions : t.id \in HeldIds(s)
    /\ \A s \in Sessions :
           installer = "netmate" /\ sess[s].phase \in {"installing", "installed"}
               => HeldIds(s) \subseteq {t.id : t \in meter} \cup refused

(* What the message asks the meter to select: every value of every filter. *)
AskedFilter(m) ==
    {<<Name(m, p), m.records[n].values[FilterField(m, p)]>> :
         p \in FilterPlaces(m), n \in FilterRecords(m)}

NamesCollide(m) ==
    \E p, q \in FilterPlaces(m) : p < q /\ Name(m, p) = Name(m, q)

SeveralRecords(m) == \E n, k \in FilterRecords(m) : n < k

ValueCut(m) ==
    \E p \in FilterPlaces(m), n \in FilterRecords(m) :
        LET f == FilterField(m, p) IN
        Text(f, m.records[n].values[f]) # m.records[n].values[f]

(***************************************************************************)
(* The traffic a task meters is the traffic its object asked for, unless   *)
(* the object has several records, of which only the first is used; two of *)
(* its fields have the same name in the meter; or a value has more digits  *)
(* than its type has bytes, which print_value() cuts off.                  *)
(***************************************************************************)
FilterFaithful ==
    \A s \in Sessions : \A k \in DOMAIN sess[s].rule : \A t \in meter :
        t.id[1] = k =>
            LET m == sess[s].rule[k] IN
            \/ {<<x, t.filter[x]>> : x \in DOMAIN t.filter} = AskedFilter(m)
            \/ SeveralRecords(m) \/ NamesCollide(m) \/ ValueCut(m)

(***************************************************************************)
(* Of an object that counts as installed, every field to be exported is    *)
(* metered by the package and for the target its action says, or the       *)
(* command that would have done so failed: one command is enough for the   *)
(* object to count.                                                        *)
(***************************************************************************)
ExportsCovered ==
    \A s \in Sessions :
        installer = "netmate" /\ sess[s].phase = "installed" =>
            \A k \in DOMAIN sess[s].rule :
                LET m == sess[s].rule[k] IN
                /\ sess[s].keys[k] # {}
                /\ \A f \in Range(FieldsAt(m, ExportTemplate(m))) :
                       \E c \in Range(Commands(k, m)) :
                           /\ Package(f).metering \in c.packages
                           /\ c.target = Target(k, Package(f))
                           /\ c.id \in sess[s].keys[k] => c \in meter \/ c.id \in refused

(***************************************************************************)
(* What has passed check() can be turned into commands: the functions that *)
(* are declared throw() do not throw.  And no removal is ever reported as  *)
(* failed, though tasks stay behind: the sessions never learn of it.       *)
(***************************************************************************)
NothingComesBack ==
    daemon # "terminated" /\ \A s \in Sessions : sess[s].phase # "error"

============================================================================
