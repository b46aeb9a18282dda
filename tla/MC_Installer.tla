---------------------------- MODULE MC_Installer ----------------------------
(* Two ports with one name in the meter, an address, and two counters that  *)
(* are exported to different targets, or to one.                            *)
EXTENDS Installer

Port == Fields!FieldType(0, 7, 2, "uint")
Port2 == Fields!FieldType(0, 11, 2, "uint")
Address == Fields!FieldType(0, 8, 4, "ipaddr")
Bytes == Fields!FieldType(0, 1, 8, "uint")
Packets == Fields!FieldType(0, 2, 8, "uint")

MCFieldTypes ==
    ("port" :> Port) @@ ("port2" :> Port2) @@ ("address" :> Address)
    @@ ("bytes" :> Bytes) @@ ("packets" :> Packets)

(* Configuration files. *)
Entry(f, c, flt, exp, text) ==
    [field |-> f, configuration |-> c, filter |-> flt, export |-> exp, text |-> text]

GoodFields ==
    <<Entry("port", FALSE, TRUE, FALSE, "DstPort"),
      Entry("port2", FALSE, TRUE, FALSE, "DstPort"),
      Entry("address", TRUE, FALSE, FALSE, NoTraslation),
      Entry("bytes", FALSE, FALSE, TRUE, "octets"),
      Entry("packets", FALSE, FALSE, TRUE, "packets")>>

ConfigFile(opens, valid, fields) ==
    [opens |-> opens, valid |-> valid, apps |-> <<[app |-> "NETMATE", fields |-> fields]>>]

MCConfigFiles ==
    {ConfigFile(TRUE, TRUE, GoodFields), ConfigFile(FALSE, TRUE, <<>>),
     ConfigFile(TRUE, TRUE, <<Entry("port", FALSE, TRUE, FALSE, NoTraslation)>>)}

(* Export files. *)
Action(app, fields, metering, procedure) ==
    [kind |-> "ACTION", app |-> app, priority |-> 0,
     fields |-> [i \in DOMAIN fields |-> [field |-> fields[i], text |-> "x"]],
     package |-> [metering |-> metering, procedure |-> procedure, directory |-> "dir"]]

Plain(kind, p) == [kind |-> kind, app |-> "NETMATE", priority |-> p, fields |-> <<>>,
                   package |-> [metering |-> "", procedure |-> "", directory |-> ""]]

ExportFile(valid, actions_) ==
    [opens |-> TRUE, valid |-> valid,
     actions |-> [i \in DOMAIN actions_ |-> [name |-> i, items |-> actions_[i]]]]

Counts == <<Action("NETMATE", <<"bytes">>, "count", "file"), Plain("PRIORITY", 1)>>
Both == <<Action("NETMATE", <<"bytes", "packets">>, "capture", "ipfix")>>
Disk == <<Action("NETMATE", <<"packets">>, "capture", "file"), Plain("PRIORITY", 3)>>

MCExportFiles ==
    {ExportFile(TRUE, <<Counts, Both>>), ExportFile(TRUE, <<Counts, Disk>>),
     ExportFile(FALSE, <<Counts>>),
     ExportFile(TRUE, <<<<Action("Other", <<>>, "", "")>>>>),
     ExportFile(TRUE, <<<<Plain("other", 0)>>>>)}

(* Messages: the counters asked for, and the filter. *)
Data(fields) == [type |-> "data", fields |-> fields]
Option(fields) == [type |-> "option", fields |-> fields]
Record(i, values) == [template |-> i, values |-> values]

Asks(exported, filtered, records) ==
    [templates |-> <<Data(exported), Option(filtered)>>, records |-> records]

Counters == <<"bytes", "packets">>

MCMessages ==
    {Asks(Counters, <<"port">>, <<Record(2, "port" :> 80)>>),
     Asks(Counters, <<"port">>, <<Record(2, "port" :> 443)>>),
     Asks(<<>>, <<"port">>, <<Record(2, "port" :> 80)>>),
     Asks(<<"bytes">>, <<"address", "port">>,
          <<Record(2, ("address" :> 5) @@ ("port" :> 80))>>),
     Asks(<<"bytes">>, <<"port">>, <<Record(2, "port" :> 80), Record(2, "port" :> 22)>>),
     Asks(<<"bytes">>, <<"port", "port2">>,
          <<Record(2, ("port" :> 80) @@ ("port2" :> 22))>>),
     Asks(<<"bytes">>, <<"port", "port2">>, <<Record(2, "port" :> 80)>>),
     [templates |-> <<Data(<<"bytes">>), Data(<<"port">>)>>,
      records |-> <<Record(2, "port" :> 80)>>]}

============================================================================
