--------------------------- MODULE PolicyMapping ---------------------------
(***************************************************************************)
(* The two configuration files of a metering node and what is looked up    *)
(* in them.  The configuration file says, for every metering application,  *)
(* which IPFIX fields it knows, what for and under what name               *)
(* (policy_application_configuration_container, policy_field_mapping).     *)
(* The export file says, for every action, which fields it can meter and   *)
(* with which package (policy_action_container, policy_action,             *)
(* policy_action_mapping).                                                 *)
(*                                                                         *)
(* Abstraction.  A file is the tree libxml2 makes of it: opens, whether    *)
(* there is one to read; valid, whether it fits its DTD; and the elements  *)
(* in their order.  Names of actions are numbers in the order of the       *)
(* strings.  A field is known by its key.  Files that are not well-formed  *)
(* are left out.                                                           *)
(***************************************************************************)
EXTENDS Integers, Sequences, SequencesExt, TLC

CONSTANTS NetmateApps   \* the application names that read NETMATE in capitals

NoTraslation == "NoTraslation"

EmptyMap == [x \in {} |-> x]

(* std::map::insert() keeps the entry that is there, operator[] does not. *)
Replace(map, key, value) ==
    [k \in DOMAIN map \cup {key} |-> IF k = key THEN value ELSE map[k]]

Insert(map, key, value) ==
    IF key \in DOMAIN map THEN map ELSE Replace(map, key, value)

(***************************************************************************)
(* application_field_mapping: a field that is for configuration only needs *)
(* no name, every other one must have one.                                 *)
(***************************************************************************)
ConfigurationOnly(e) == e.configuration /\ ~e.filter /\ ~e.export

BadlyConfigured(e) == ~ConfigurationOnly(e) /\ e.text = NoTraslation

ApplicationFieldMapping(e) ==
    [configuration |-> e.configuration, filter |-> e.filter, export |-> e.export,
     text |-> IF ConfigurationOnly(e) THEN "" ELSE e.text]

(***************************************************************************)
(* policy_field_mapping::read_from_xml(), processNode(): set_field() does  *)
(* not replace a definition.                                               *)
(***************************************************************************)
ReadFieldMapping(entries) ==
    FoldLeft(LAMBDA map, e : Insert(map, e.field, ApplicationFieldMapping(e)),
             EmptyMap, entries)

FieldMappingThrows(entries) == \E i \in DOMAIN entries : BadlyConfigured(entries[i])

(***************************************************************************)
(* policy_application_configuration_container::read_from_xml(): an         *)
(* application that is listed twice keeps its first list.                  *)
(***************************************************************************)
ReadApplications(file) ==
    FoldLeft(LAMBDA apps, a : Insert(apps, a.app, ReadFieldMapping(a.fields)),
             EmptyMap, file.apps)

ApplicationsThrow(file) ==
    \/ ~file.opens \/ ~file.valid
    \/ \E i \in DOMAIN file.apps : FieldMappingThrows(file.apps[i].fields)

(***************************************************************************)
(* netmate_ipfix_policy_action_mapping::read_from_xml(): the fields of one *)
(* package, all of them for export, and how to run it.                     *)
(***************************************************************************)
ExportEntry(e) ==
    [field |-> e.field, configuration |-> FALSE, filter |-> FALSE,
     export |-> TRUE, text |-> e.text]

ExportEntries(item) == [i \in DOMAIN item.fields |-> ExportEntry(item.fields[i])]

ReadActionMapping(item) ==
    [fields |-> ReadFieldMapping(ExportEntries(item)), package |-> item.package]

(***************************************************************************)
(* policy_action::read_from_xml().  The constructor leaves the priority    *)
(* unset: without a PRIORITY element it is whatever was in memory.         *)
(***************************************************************************)
ItemsOfKind(action, kind) == SelectSeq(action.items, LAMBDA i : i.kind = kind)

ReadAction(action, unset) ==
    LET priorities == ItemsOfKind(action, "PRIORITY") IN
    [priority |-> IF priorities = <<>> THEN unset ELSE Last(priorities).priority,
     mappings |-> FoldLeft(LAMBDA m, i : Replace(m, i.app, ReadActionMapping(i)),
                           EmptyMap, ItemsOfKind(action, "ACTION"))]

(* policy_action::operator=() adds the mappings to the ones there are. *)
SetPolicyAction(actions, name, a) ==
    Replace(actions, name,
            [a EXCEPT !.mappings =
                 IF name \in DOMAIN actions THEN @ @@ actions[name].mappings ELSE @])

ReadActions(file, unset) ==
    FoldLeft(LAMBDA acts, a : SetPolicyAction(acts, a.name, ReadAction(a, unset)),
             EmptyMap, file.actions)

(* policy_action_mapping::make() returns NULL, which is then called. *)
Unknown(item) == item.kind = "ACTION" /\ item.app \notin NetmateApps

(* Neither an ACTION nor a PRIORITY: the reader never advances past it. *)
Stuck(item) == item.kind = "other"

Throwing(item) == item.kind = "ACTION" /\ FieldMappingThrows(ExportEntries(item))

(* policy_action_container::read_from_xml(): the first bad element decides. *)
ActionsOutcome(file) ==
    LET items == FlattenSeq([i \in DOMAIN file.actions |-> file.actions[i].items])
        first == SelectInSeq(items, LAMBDA i : Unknown(i) \/ Stuck(i) \/ Throwing(i))
    IN CASE ~file.opens           -> "throws"
         [] first # 0             -> IF Unknown(items[first]) THEN "crashes"
                                     ELSE IF Stuck(items[first]) THEN "hangs"
                                     ELSE "throws"
         [] ~file.valid           -> "throws"
         [] OTHER                 -> "read"

(***************************************************************************)
(* Looking up a field of the configured application.                       *)
(***************************************************************************)
FieldsOf(apps, app) == IF app \in DOMAIN apps THEN apps[app] ELSE EmptyMap

CheckFieldAvailability(apps, app, f) == f \in DOMAIN FieldsOf(apps, app)

IsFilterField(apps, app, f) ==
    CheckFieldAvailability(apps, app, f) /\ FieldsOf(apps, app)[f].filter

IsExportField(apps, app, f) ==
    CheckFieldAvailability(apps, app, f) /\ FieldsOf(apps, app)[f].export

GetFieldTraslate(apps, app, f) == FieldsOf(apps, app)[f].text

(***************************************************************************)
(* The actions that can meter a field, and the package of the one whose    *)
(* priority, then name, comes first.                                       *)
(***************************************************************************)
ActionsWith(actions, app, f) ==
    {n \in DOMAIN actions : /\ app \in DOMAIN actions[n].mappings
                            /\ f \in DOMAIN actions[n].mappings[app].fields}

CheckActionAvailability(actions, app, f) == ActionsWith(actions, app, f) # {}

Before(actions, n, m) ==
    \/ actions[n].priority < actions[m].priority
    \/ actions[n].priority = actions[m].priority /\ n <= m

GetPackage(actions, app, f) ==
    LET names == ActionsWith(actions, app, f)
        name  == CHOOSE n \in names : \A m \in names : Before(actions, n, m)
    IN actions[name].mappings[app].package

============================================================================
