# M-NSLP: a verification project in TLA+

M-NSLP is a daemon for configuring metering (IPFIX) along the path of a data
flow. It sits on top of GIST, the NSIS transport layer. A user asks the
initiator to meter a set of objects; the nodes on the path split the objects
among them, install rules in a local metering process and keep the whole as
soft state that has to be refreshed.

This directory holds TLA+ modules of the parts of the daemon that decide
something, TLC configurations that check them on small instances, and theorems
with proofs for TLAPS. `PROJECT.json` maps every definition to the source lines
it models and lists runs, mutants, findings, hazards and theorems.

## 1. Inventory of the system

| Part | State | Operations | Interacts with |
|---|---|---|---|
| NI session, `ni_session` | CLOSE / PENDING / METERING, MSN, lifetime, refresh interval, the last CONFIGURE and REFRESH, two retry counters, two timers, the policy rule | open on the API's request, retry, refresh, tear down, wind up | dispatcher (send, timers, install, remove) |
| NF session, `nf_session` | the same states, MSN, lifetime, last CONFIGURE and REFRESH, a state timer, a response timer, the rule | take what it can meter, forward the rest, install on success, prolong, give up | dispatcher |
| NR session, `nr_session` | CLOSE / METERING, MSN, lifetime, a state timer, the rule | accept or refuse, prolong, tear down, expire | dispatcher |
| `session` | id, mutex, MSN | lock and process, next MSN, lifetime check, participation by role | all sessions |
| Dispatcher and session manager | the session table, the session objects, one mutex for the table | map, look up, create, process, remove, delete | input queue, sessions |
| Event mapping, `gistka_mapper` | none | GIST or timer message to event; serialise and send a message | dispatcher, message codec |
| Timers | the id of the timer started last | start, restart, stop (stop only forgets the id) | sessions, daemon |
| Installers, `netmate_ipfix_policy_rule_installer`, `nop_policy_rule_installer` | whether the node meters, the task group of the metering process | set up, check an object, install a rule, remove a rule, remove everything | dispatcher, mappings, the netmate process over HTTP |
| Policy rules, `mt_policy_rule` | objects and task names by key | add an object, set the tasks of an object | sessions, installers |
| Policy mappings | what the two XML files say: fields by application, actions by field | read, look up a field, find the package of a field | installers |
| Message codec, `mnslp_msg`, `ie_store`, `mnslp_object` | the objects of a message by type and number | set, serialise, deserialise, check | event mapping, sessions |
| IPFIX messages, `mnslp_ipfix_message` | templates, data records, the written buffer, counters | new and delete template, add field, include data, output, import, copy, compare | codec (as the body of an object), installers |
| Daemon, configuration, journal, test client | threads, parameters | start, stop | everything |

What is hard about it:

* **Timers are never cancelled.** `stop()` and `restart()` forget an id; the old
  timer still fires, in whatever state the session is by then.
* **Two or more dispatcher threads** share the session objects. The manager
  protects its table, a session protects its handlers, and nothing protects the
  pointer in between.
* **Retries race answers.** A CONFIGURE or REFRESH that is sent again reaches
  nodes that have already moved on.
* **Nodes must agree** on lifetime, sequence number and on who meters what, over
  a transport that keeps order but may lose a message with its association.
* **Assertions are active** in the build (`-g -O2`, no `NDEBUG`), so a NULL
  message that a handler dereferences ends the daemon.
* **Partial installation**: the metering process takes some objects only, its
  answers may be lost and are not examined, and it outlives the daemon.
* **Caches and counters of the IPFIX message**: the buffer is a cache that every
  change of the content has to invalidate; templates count as sent across
  outputs; ids are counted up on both sides independently.
* **Keys compared by a sum** in `ie_store`, and readers and writers of a message
  that check different things.

## 2. The modules

| Module | Models | State variables |
|---|---|---|
| `MsnArithmetic` | `next_msg_sequence_number()`, `is_greater_than()` | none |
| `MnslpMessages` | CONFIGURE, REFRESH, RESPONSE, `create_response()`, `is_mnslp_response()`, `check_participating()` | none |
| `NISession` | `ni_session` | `ni` (the object), `ni_out` (queue to GIST) |
| `NFSession` | `nf_session` | `nf`, `to_nr`, `to_ni` |
| `NRSession` | `nr_session` | `nr`, `nr_out` |
| `MeteringContract` | abstract: what a node promises about installed rules | `phase`, `rules` |
| `SignalingPath`, `MC_SignalingPath` | NI, NF and NR joined by GIST | those of the three sessions, and `meters`, `requested`, `placed`, `lost` |
| `Dispatcher` | dispatcher threads, session manager, life of session objects | `session_table`, `heap`, `lock`, `pc`, `evt`, `cur`, `fault` |
| `PolicyMapping` | the XML files, `policy_field_mapping`, `policy_action`, their containers | none |
| `Installer`, `MC_Installer` | both installers, `mt_policy_rule`, start-up, shutdown and crash of the daemon as far as rules are concerned | `daemon`, `installer`, `is_meter`, `apps`, `actions`, `sess`, `next`, `meter` (the tasks of the metering process), and the history `orphans`, `refused` |
| `MessageCodec`, `MC_MessageCodec` | the five message classes, the objects, `ie_store`, `MNSLP_IEManager`, `create_api_msg()`, `map_api_receive_message()`, forwarding and answering | `phase`, `out`, `wire`, `in`, `hops`, and the history `own`, `given`, `owed` |
| `IpfixFields` | field keys, accepted values, encoding, decoding and printing of values | none |
| `IpfixMessage`, `MC_IpfixMessage` | `mnslp_ipfix_message`, `ipfix_t`, templates and data records, the reading peer | `msg`, `outputs`, `peer`, `fault` |
| `NISession_proofs`, `NFSession_proofs`, `NRSession_proofs`, `Dispatcher_proofs`, `Installer_proofs`, `SignalingPath_proofs` | theorems about the modules of the same names; those about `MsnArithmetic` are in `NFSession_proofs` | |
| `Codec_proofs` | theorems about `MessageCodec` | |
| `Ipfix_proofs` | theorems about `IpfixMessage` and `IpfixFields` | |

Conventions.

* State CLOSE of a session stands for "there is no object": the dispatcher
  deletes a session as soon as it is final. `NiClosed`, `NfClosed` and `NrClosed`
  throw the object away and keep what survives it: the rules in the metering
  process, and for the forwarder its timers.
* `metered` is the content of the metering process, `rule_keys` what the policy
  rule knows. `remove_policy_rules()` takes away exactly the keys of the rule.
  The installer is used nondeterministically: it installs any subset, and the
  handlers branch on whether that is everything.
* A failed assertion sets `abort`; the daemon then does nothing any more.
* A timer field says whether the timer started last is still going to fire. For
  the NI and the NR an outdated timer event changes nothing and is a stuttering
  step. For the NF it matters, because in METERING the comparison with the last
  REFRESH, which may be NULL, comes before the case that discards such events;
  `outdated` records that one is under way.
* `NiPartlyInstalled` models the branch of `handle_state_pending()` that falls
  off the end of a non-void function: the next state is a nondeterministic
  choice, a value outside of the enumeration included.
* Time is not modelled: a running timer may fire at any moment. The lengths
  that are properties (the refresh interval) are modelled as numbers.
* `Installer`: an exchange with the metering process has four outcomes: carried
  out, refused in an answer, carried out with the answer lost, or not even
  reached. The code throws in the last two and never looks at the code of an
  answer, so it takes a refusal for a success. `orphans` are the tasks the
  daemon has lost track of.
* `MessageCodec` counts in 32-bit words. Every object of this code is a whole
  number of them. A metering object is a body of words; `Readable` are the
  bodies its IPFIX parser accepts.
* `IpfixMessage`: `buffer` is the sequence of sets that were written, with the
  bytes of data records; sizes are computed from it. `fault` records undefined
  behaviour that was met (an index outside of a vector, a write past the buffer).
  `peer` is what one call of `deserialize()` makes of the buffer.
* Left out because the code never reaches it: proxy mode and refused
  authorization (`is_authorized()` returns true).

## 3. What is checked

| Run | Instance | States | Shows |
|---|---|---|---|
| `ni` | 6 MSNs, 2 objects, lifetimes up to 3, 1 retry | 133 000 | rules accounted for, one timer runs, a retry has its message, refresh before expiry, setup and refresh are resolved |
| `nf` | 4 MSNs, 2 objects asked for together and any part of them meterable, lifetimes up to 2, maximum 1 | 44 000 | rules accounted for, soft state, the answer to a REFRESH is available, MSN forward, implements `MeteringContract` |
| `nr` | 6 MSNs, 2 objects, all selections | 1 400 | lifetime capped, rules soft and accounted for, MSN forward, implements `MeteringContract` |
| `path` | 2 objects, 2 requests, 3 placements, 2 retries, 1 loss, 2 refreshes, MSNs wrap | 211 000 | nothing unmetered, MSN agreement, the responder outlasts the initiator, rules released in the end |
| `ipfix` | IPFIX and NetFlow 9, 2 elements (one sent with variable length, one an enterprise's that a peer may not know), up to 2 templates, 2 fields, 3 calls of `include_data()` and `output()`, a buffer of 60 bytes | 3 640 000 | the buffer is current, sizes agree, a readable message is read as it was exported, an IPFIX message compares equal to what was read of it only after a first output, a NetFlow 9 message never |
| `installer` | 2 sessions, 2 objects, 3 configuration and 5 export files, 8 messages | 179 000 | tasks and rules agree, filters are faithful, exports are covered, nothing comes back |
| `codec` | 2 metering bodies, 2 lifetimes, 3 codes, messages of peers with up to 3 objects, 2 hops | 13 700 | stores are sound, what is sent is read, metering objects arrive, exactly the malformed messages are refused |
| `dispatcher` | 2 threads, 2 session ids, 3 objects | 105 000 | table and objects agree, no memory fault, no orphan, final sessions deleted |

The invariants of `installer`, `codec` and `ipfix` state exactly under which
conditions the promise fails, and hold with them: `FilterFaithful` names the three
cases in which a task meters other traffic than it was asked to,
`MeterMatchesRules` the ways a task can be left behind, `SentIsRead` the two
messages that are not read as they were sent, `Readable` what a user of the IPFIX
class has to observe. A change of the code that removes such a case, or adds
one, shows in the run.

Four more runs show where the code departs from what its comments say
("findings" in `PROJECT.json`):

* `nf_outdated_timer`: "Outdated timer event, discard and don't log." The event
  fails an assertion in a forwarder that has seen no REFRESH yet.
* `nf_install_error`: "Send an error message to the ni." The message leaves
  towards the NR.
* `path_lifetime`: the lifetime the NI takes over from the response can be longer
  than the one the NF holds, when the first CONFIGURE was lost behind the NF.
* `dispatcher_threads`: "it is enough that the used components (session_manager
  etc.) are thread-safe". With several threads a session is used after it was
  deleted. `Serialized` is the switch: the run `dispatcher` has it TRUE, and then
  the design is right. The default of one dispatcher thread guarantees it.

Bounds, and why they are enough. A session compares sequence numbers only with
its own or with the one stored last, so a number space of 4 or 6 contains every
outcome of the comparison, the wrap around and the incomparable pair. Two
objects allow "all", "some" and "none" for a node's share and for what the
installer installs of it. One retry distinguishes "retry" from
"used up"; the path has two, so that a CONFIGURE that is sent again can reach the
responder with another lifetime than the first. `QueueBound`, `RefreshBound`, `LossBound` and `Addresses` only cut off
behaviours that would repeat; they are guards of the model and named as bounds
where they are declared. The sessions are checked alone with an environment that
may send any message at any time, which is more than a peer does; the path is
checked with the real peers.

`installer`: two sessions are enough for a task of one to be mistaken for
a task of the other, two objects for a rule with "some" installed; one message has
two exports that go to different targets, one has two filters with one name, one
has two records, one a value that is cut off, one two templates of one type.
`codec`: two metering objects make order and duplicates visible; three objects
in a peer's message contain every pair of a good and a bad one; a hop is
forwarding or answering, and what comes after is again a message of a node.
`ipfix`: the buffer is shortened from 1400 to 60 bytes so that a message can be
too long, and the longest value with a one-byte length from 254 bytes to 1, so
that a value of two bytes takes the branch of the three-byte length (the branch
of the one-byte length is modelled and not taken in this instance); two
templates suffice for their order in the buffer, for a deleted one before one
that is kept, and for a record that names another one.

`CHECK_DEADLOCK FALSE` is set where the system may really stop: a daemon that
failed an assertion, a path whose only session is over, and a dispatcher whose
bounded supply of ids and addresses is used up.

Fairness.

* `NISession`: a response timer fires unless it is stopped first, because the
  daemon's timer module delivers every timer, and GIST empties its queue. No
  fairness is assumed of the user, of the refresh timer or of any answer.
* `SignalingPath`: GIST delivers a message or loses it; the state timers of NF
  and NR fire unless they are started again. Nothing is assumed of the NI.
* `Dispatcher`: a thread in the middle of `process()` goes on. Nothing forces a
  thread to take another message.

Every property of a passing run has a mutant in `PROJECT.json`: a plausible bug
in a mapped definition (a dropped guard, a forgotten stop, an uncapped lifetime)
under which TLC finds it violated.

## 4. What is proved

`NISession_proofs`, for every number space, set of objects, range of lifetimes,
retry limit and queue bound (`LimitAssumption`, `MaxLifetimeAssumption`,
`NIAssumption`; nothing else is assumed):

* `NiTypeCorrect`, `NiRulesSafe`, `NiTimersSafe`, `NiRetrySafe`,
  `NiIntervalSafe`: `NiSpec` implies that `NiTypeOK`, `NiRulesAccounted`,
  `NiOneTimerRuns`, `NiRetryHasMessage` and `NiRefreshBeforeExpiry` always hold.

The argument. `NiInv` is the conjunction of these five and of
`NiIntervalOfSetup`. None is inductive alone: that winding up a session empties
the metering process needs `metered \subseteq rule_keys`; that a retry finds its
message needs to know in which situations the response timer runs; and
`NiRefreshBeforeExpiry` needs that in PENDING the interval is the one
`setup_session()` computed, because an answer that leaves the lifetime alone
keeps it. The two formulas for the interval are bounded by `CeilingBelow` (a
nonlinear fact on the ceiling of a quotient) and `CalRefreshIntervalBelow`. There
is one lemma per handler, `NiNextInv` puts them together, and the temporal step
is `NiInvariant`.

`NRSession_proofs`, for every number space, set of objects, range and maximum of
lifetimes and set of requests (`LimitAssumption`, `MaxLifetimeAssumption`,
`NRAssumption`):

* `NrTypeCorrect`, `NrRulesSafe`: the invariants `NrTypeOK` and
  `NrRulesAccounted`, which are inductive together (`NrInv`);
* `NrMsnSafe`: the action property `NrMsnForward`;
* `NrRefinesContract`: the responder implements `MeteringContract`.

The argument. Each handler has a lemma, and `NrStep` sorts every step into four
kinds: it leaves the rules alone, installs them on the way from CLOSE to
METERING, prolongs the session with a greater sequence number, or releases
everything. The action property and the refinement both follow from these
kinds; the refinement also needs `NrInv`, because the contract installs only
where nothing is installed.

`NFSession_proofs`, for every number space, set of objects, range and maximum of
lifetimes and queue bound (`LimitAssumption`, `MaxLifetimeAssumption`,
`NFAssumption`):

* `NfTypeCorrect`, `NfRulesSafe`, `NfStateIsSoft`, `NfTimerSafe`: the invariants
  `NfTypeOK`, `NfRulesAccounted`, `NfSoftState`, `NfTimeoutHasRefresh`;
* `NfMsnSafe`: the action property `NfMsnForward`;
* `NfRefinesContract`: the forwarder implements `MeteringContract`.

The argument. `NfInv` is the conjunction of the four invariants; they hold each
other up, because a state timer that fires in METERING removes the keys of the
rule, and a response timer that fires there looks at the last REFRESH. There is
one lemma per handler, and every step is of one of six kinds (`NfQuiet`,
`NfOpens`, `NfInstalls`, `NfProlongs`, `NfReleases`, `NfDies`); the action
property and the refinement follow from the kinds.

`NFSession_proofs` starts with the comparison of numbers, for every size of the number
space (`LIMIT >= 2`):

* `NextMsnGreater`: the next number is greater than the current one, at the wrap
  around too, so a node that follows the numbers never takes a new REFRESH for
  an old one;
* `GreaterAsymmetric`: the comparison never holds both ways;
* `GreaterIsSerialOrder`: the comparison is the serial-number order of RFC 1982,
  "fewer than LIMIT increments ahead".

`SignalingPath_proofs`, for every set of objects, every request and placement,
every retry limit and number space, any number of messages lost, any caps at the
forwarder and the responder (`NodesAssumption`, `PathAssumption`):

* `PathKeepsSessions`: `NiInv`, `NfInv` and `NrInv` hold on the path too;
* `NothingUnmeteredSafe`: the invariant `NothingUnmetered`;
* `ResponderOutlastsSafe`: the invariant `ResponderOutlasts`;
* `MsnAgreementSafe`: the invariant `MsnAgreement`.

The argument. The session proofs are instantiated for the three nodes
(`Initiator`, `Forwarder`, `Responder`; a forwarder there may be asked for any set
of objects), and every step of the path is a step of these sessions or leaves
them alone: that is `SessionsInvariant`. `PathInv` then says what the initiator may
conclude from what it sees, as long as it holds the CONFIGURE it sent:

* `SentOK`: on the way to the forwarder there are only copies of that CONFIGURE,
  and REFRESHes of the agreed lifetime once it was answered;
* `PassedOK`: behind the forwarder the CONFIGURE still carries what neither the
  initiator nor the forwarder (`Share`) takes, and a lifetime between the cap of
  the forwarder and what was asked for. A REFRESH that is there before the
  answer is the forwarder's own teardown, with a number of its own;
* `GrantOK`: a success response to the CONFIGURE is only under way when what it
  stands for is installed: between responder and forwarder everything but the
  share of the forwarder, behind the forwarder that too;
* `ForwarderOK`: a pending forwarder holds that CONFIGURE and exactly its share, so
  that the success it passes on installs what `GrantOK` promises;
* `ResponderOK`: what the responder holds, before and after the first REFRESH;
* `InitiatorOK` and `Pristine`: the initiator has left, waits or meters, and
  nothing happens before the user asks.

None of these is inductive without the others. `PathInv` was checked by TLC on the
instance of the run `path` before it was proved.

`MsnAgreement` needs more, because numbers wrap around and are taken over from
whatever request arrives. `MsnInv` follows them through the four queues:

* a base `b` and a window `w <= 2`: every request that can still raise a node's
  number is at most `w` beyond `b` on the circle (`Offset`, `Within`). A node
  compares numbers at most two apart, so that `LIMIT >= 2` is enough for
  `is_greater_than()` to order them (`OffsetOrder`);
* requests do not overtake each other (`Pipe`, `Reached`): once a node or a queue
  holds a number one or two beyond the base, everything behind it on the way is
  as far. This alone gives the first half of `MsnAgreement`;
* the window stays small because the NI refreshes only when its last REFRESH was
  answered. At `w = 2` the answer must have been the answer to the last REFRESH,
  not a late one to an earlier request, and by then nothing older is under way
  downstream (`Top`, `InOrder`, `NoneOlder`): the last number becomes the base
  and `w` starts again from 1. This is the step `OnPathRefreshes`;
* an NI whose session was installed only in part counts its number up although it
  has no CONFIGURE any more (`Partly`). What it sends has lifetime 0, which does
  not raise a number, and the first of these messages ends the session of the
  forwarder, while no CONFIGURE that could open it again is left behind it.

The lemmas `OnPath...` say what each kind of step does to this invariant as a
statement about any sequences and records; the lemmas `...Msn` show that the
actions of the path are such steps. `MsnInv` was checked by TLC too.

`Dispatcher_proofs`, for any number of threads, session ids and objects, each
theorem under the assumption `Serialized` (the events of one session are handed
out one by one):

* `DispatcherTypeCorrect`, `TableAlwaysSound`, `DispatcherMemorySafe`,
  `NoSessionOrphaned`: the invariants `TypeOK`, `TableSound`, `NoFault` and
  `NoOrphan`.

The argument. A thread owns the id of its event until it is through with it, so
the unprotected pointer it holds cannot be deleted by anyone else.
`DispatcherInv` says what each thread may rely on at each place of `process()`
(`ThreadOK`), that no two threads have events of one id (`OneThreadEach`), and
that a living object has an id (`LiveHasId`). Without `Serialized` the theorem is
false: that is the run `dispatcher_threads`.

`Installer_proofs`, for any number of sessions and objects, any messages and any
files, proves every invariant of the run `installer`:

* `InstallerTyped`: the type invariant `InstallerTypeOK`;
* `TasksAccounted`: the invariant `MeterMatchesRules`;
* `TasksMeterWhatIsAsked`: the invariant `FilterFaithful`;
* `InstalledIsExported`: the invariant `ExportsCovered`;
* `CheckedIsInstallable`: the invariant `NothingComesBack`.

The assumption used, `InstallerAssumption`, is that a message is what the IPFIX
parser makes: a sequence of templates with sequences of fields, and records.

The argument. `InstallerInv` is inductive. The rules of two sessions have no key
in common (`Apart`), so the removal of one session never takes away a task another
one holds; a removal has either taken away or counted as lost what it has asked
for (`RemovalOK`), and nothing it still asks for has been lost before
(`OrphansOK`); only the netmate installer leaves tasks behind that count; every
object of a rule has passed `check()` (`CheckedOK`), which is what
`get_field_data_values()` and `get_package()` rely on; and a task in the meter
that is named for an object of a rule is one of the commands its message asks for
(`TasksOK`): ids are never used again, and the commands of one message have
different ids. That makes the last two invariants statements about one message:
`FilterIsAsked` and `CommandsExport`. `SessionStep` is the common part of the
steps of a session: what has to be shown of it, and of the tasks of the others.

`Codec_proofs`, about messages, proves every invariant of the run `codec`, for any
numbers, codes, report bodies, peers, number of metering objects and of hops
(`CodecAssumption`, `NumbersAssumption`, `PeerAssumption`):

* `CodecTyped`: the type invariant `CodecTypeOK`;
* `SentIsReadSafe`: the invariant `SentIsRead`;
* `OwedArriveSafe`: the invariant `OwedArrive`;
* `RefusesExactlySafe`: the invariant `RefusesExactly`;
* `KeysDistinct`: keys are compared by type plus sequence number, and still no
  two keys that `set_object()` uses are taken for one another. The reason is that
  the object types are consecutive numbers and the only one that counts up is
  the last;
* `SetObjectSound`: `set_object()` keeps any store in order, gives a metering
  object a place of its own, and touches no other object. `StoreOK` is the
  condition on the store, `EmptyStoreOK` says that it holds of a new message.

What is assumed of peers: an object has the length of its type, as the parsers of
the simple objects and of the information code take one word whatever the header
says, and what is cut off is at most the body of the last object. Without a bound
on the cut `RefusesExactly` is false: a message without its whole last object,
header included, is a well-formed shorter one.

The argument. A message is read and written by recursion over its words and folds
over its objects, so most of it is induction. `Induction` is the form used: a set
of numbers that has 0 and with every number the next one is all of `Nat`
(`LeastNumber`, from the library's well-foundedness of `<`). With it:

* `FoldLeft` over a sequence is one step after the other (`FoldsTo` and what
  follows), the sum of `get_serialized_size()` over the store does not depend on
  the order in which it is taken (`SumsTo`, `Names`), and an `Ascending` set of
  places can be counted through (`Increasing`);
* `Holds` says which store `set_object()` builds from a list of objects, and
  which `deserialize()` builds: they are the same;
* `ReadsBack` reads one object from its words, the two halves of a code word
  included; `DeserializeIs` and `PeerIsRead` a whole message, up to the first
  object that is broken;
* `WrittenAll` is the converse for `serialize()`, which writes first the objects of
  its list of types and then the metering objects: set again in this order, they
  get the keys they had. With `SizeExact` (the buffer has just the right size) this
  gives `RoundTrip`;
* `BodiesOfMessage` says that `get_mspec_objects()` yields the metering objects in
  the order of their numbers, `ForwardedSound`, `ResponseSound` and
  `SuccessSound` that the messages a node makes of what it has read pass the checks
  of `serialize()`.

`CodecInv` then says, for each phase, that the node's own message is one its setters
make and carries what is owed (`Made`; `Sound` if the node made it by itself),
that the words on the wire are those of that message or of the peer, and that what
has been read is what was sent (`Received`, `OwnRead`, `PeerRead`). Each of the
four invariants follows from it in a few lines. TLC checked it on the instance of
the run `codec` before it was proved.

`Ipfix_proofs`, about messages, for any field types, values, lengths, peers and modes,
any number of templates, fields and calls, and any size of the buffer
(`IpfixAssumption`: values are bytes and are accepted by their fields; the clock is
not at 0; of the tables of elements, that numbers are not negative, no length is 0,
and no two elements have the same key; of the encoding, that a one-byte length is
never 255), proves every invariant of the run `ipfix`:

* `IpfixTyped`: the type invariant `IpfixTypeOK`;
* `ExportCurrentSafe`: the invariant `ExportCurrent`;
* `SizesAgreeSafe`: the invariant `SizesAgree`;
* `PeerReadsSafe`: the invariant `PeerReads`;
* `EqualOnlyTheFirstTimeSafe`: the invariant `EqualOnlyTheFirstTime`.

The argument. `IpfixInv` (theorem `IpfixInvariant`) has three parts: the message is
well formed (`MessageOK`), its counters included (`Counted`); a buffer that need not
be output again is `Ready` (its sets are those of the current templates and records,
the template sets first and with different ids, its offset is the sum of their sizes,
and its header has the counters); and what a peer has made of a message is `import()`
of such a buffer, read to its end if it was accepted (`PeerInv`). The operations
that change the message ask for a new output (`Changed`), and the two that do not,
the copy and the change of the byte order, leave everything `Ready` speaks about as
it is (`StaysReady`). So all the work is in `output()` and `import()`, which are folds
inside folds:

* `FoldTraced` turns a fold over a sequence into its results step by step (`Trace`),
  for each fold of the model (`FoldStep`), so that `Induction` applies;
* `SetSumAppend`, `SetSumPrepend`: data sets are written behind the others and template
  sets before them, and in both cases the sizes add up;
* `WriterOK` relates a writer in the middle of `output()` to the data sets that are due
  by then: `LoopOK` follows the loop of `output()` and the fold that says what is
  due side by side, template by template and record by record. The size
  planned for a set (`datasetlen`, never reset) is no part of it: `offset` grows by
  what is written, and `RoomIs` says that this fits;
* on the way back, `ImportOK` follows the reader: `nread` grows by the size of
  each set it takes, so it never passes `offset`, and a reader that stops before it
  refuses.

What a peer reads is then a statement about `import()` of one buffer that is `Ready`:

* `FieldRead`: a field whose bytes stand at the reader's place (`Stands`) is read with
  the length the exporter wrote, in each of the three forms of a length;
* `RecordRead` follows the writer and the reader of a record side by side, field by
  field: the reader is behind the bytes the writer had written (`BodyGrows`, `Behind`)
  and has the values of these fields (`Gathered`);
* `DataSetRead`: a data set holds one record, so that the first turn of the loop over
  its records reads all of it;
* `KnowsOneMore`: the reader counts up its own template ids, and a template is lost
  only to a set with its id, of which there is one;
* `ExportedMatches`: the data sets that are due and the records that are exported
  are two folds in step, and `Partition` separates both kinds of sets of a buffer;
* `ImportReads` is the induction over the sets; `LargeSets` is why the test
  `nread + 4 >= total` does not end the loop before the last set.

`EqualIsCounted` adds that the templates of a complete message are those of the peer
(`TemplatesReachPeer`), so that of `isEqual()` only the counters and the times are left.
In IPFIX `_write_hdr()` keeps the time it writes, and both sides have it. In NetFlow 9 it
writes `now` into the buffer only: the exporter's own `unixtime` stays 0
(`OwnTime`), the peer's is `now`, and the two are never equal. `IpfixAssumption`
needs no more of the clock than that `Now` is not 0.

The attempt to prove `PeerReads` showed that it had been too strong. A string field
was readable in it, because an empty string is encoded without a fault, but
`decode()` makes a value of bytes, which a string field does not accept, and throws.
The run has no string field, so TLC had not met it. `FieldReadable`
leaves out strings now.

TLC checked `IpfixInv` on the instance of the run `ipfix` before it was proved.

`Ipfix_proofs`, about fields:

* `KeyOrderSound`: the order of field keys, which compares
  `vendor * 1000 + element`, takes two keys for the same exactly when they are
  equal, for element numbers below 1000. The largest number in the tables is 334;
* `ValueSurvives`: a value the field accepts is read back as it was written, for
  every width and both byte orders.

Only model-checked:

* the liveness properties (`NiSetupResolved`, `NiRefreshResolved`,
  `EventuallyReleased`, `FinalDeleted`), because fairness and ENABLED are out of
  the prover's reach.

## 5. Plan

Done: the three sessions, their composition, the contract, the dispatcher, the
installers with the policy rules and mappings, the message codec, the IPFIX
messages, and proofs of every invariant that the passing runs check.
Left, in this order:

1. Paths with more than one forwarder, and two sessions on one path.
2. `Daemon`: the GIST threads, the timer queue, and shutdown while dispatcher
   threads still have events.

## 6. Not modelled

* GIST, the queues and the timer module of NSIS-ka, and the netmate process are
  external; the modules model what `src/` relies on (order, possible loss, every
  timer delivered; an answer that is refused or lost).
* Configuration parsing, the benchmark journal and the test client: no protocol
  state. Parameters are CONSTANTS here.
* The tables of standard IPFIX elements (`mnslp_ipfix_field.cpp`) are data; the
  modules use elements with the properties of some of them. No number occurs
  twice for one vendor, and none is above 334.
* Encoding of floating-point values: a bit copy, without a decision.
* XML files that are not well formed; `PolicyMapping` starts from the elements.
* The classes `netmate_policy_*`, `netmate_ipxfix_*` and `policy_filter_*` are in
  the tree and not in the build.
* `ipap_template_field_t` in `mnslp_ipfix_template.h` line 77 is declared
  nowhere; the modules read it as `ipfix_template_field_t`.
* Treatment bits of objects (always mandatory in messages of this code), and a
  metering object longer than the 12 bits of its length: an IPFIX buffer ends at
  1400 bytes.
* NOTIFY and OPTIONS messages are in `MessageCodec`; no session sends or answers
  one.

## 7. Running

    tlc -workers 2 -config NISession.cfg NISession
    tlc -workers 2 -config MC_SignalingPath.cfg MC_SignalingPath
    tlc -workers 2 -config MC_Installer.cfg MC_Installer
    tlc -workers 2 -config MC_MessageCodec.cfg MC_MessageCodec
    tlc -workers 2 -config MC_IpfixMessage.cfg MC_IpfixMessage    # three minutes
    tlapm NFSession_proofs.tla

and the same for the other modules; the name of a run's configuration is in
`PROJECT.json`.
