# Verification of dragino-packages

TLA+ models of the parts of this repository that have a protocol or a state
machine of their own, the TLC runs that check them on small instances, and the
TLAPS proofs of theorems about them for every size. Paths are relative to the
repository (`src/`); `socket_io.c` is `src/socket_io/src/socket_io.c`, the Python
files are in `src/cpu-mcu-bridge/dragino-yun-bridge/bridge/`, `smsd.c` and its
neighbours in `src/smstools3-openwrt/src/`, `chan_lantiq.c` in
`src/asterisk-1.8.x-siod/src-lantiq/channels/`, `main.c` is the one of
`src/lg01-pkt-fwd/src/`.

How to run: `tlc -config mesh_sync.cfg MCSIODMesh.tla` (every run is a `.cfg` and
the module in `PROJECT.json`), `tlapm SIODMeshProofs.tla`.

## Inventory

| Component | Sources | State it keeps | Operations | Interacts with |
|---|---|---|---|---|
| SIOD mesh controller | `socket_io.c` | GST (rows of IO lines), IPT (addresses), IVR timer, relays, `siod.@output` | Put, Set, Get, TimeRangeOut, GSTCheckSum, ConfigRes, IVRSetReq, startup, PLCexec | other SIODs by UDP broadcast and unicast; clients; Asterisk by a fifo |
| SIOD PLC rules | `socket_io.c` 879-934, 2639-2912 | PLCT, its `triggered` flags, the list `siod.plcrules.rule` | PLC message (add, delete), startup, PLCexec | the mesh: conditions read the GST, actions send Set |
| SIOD time range | `socket_io.c` 2430-2631 | the range as two broken-down times and as a text in the configuration | TimeRange message, start, CheckTimeRange | the clock; asked by the Set and IVRSetReq handlers |
| SIOD configuration messages | `socket_io.c` | uci options, staged and committed; what the services were started with | ConfigBatman, Config, ConfigAsterisk, ConfigNTP, RestartNetworkService, their requests | uci, which other programs commit too |
| YunBridge serial link | `packet.py`, `bridge.py` | expected packet number, last response | packets, repetitions, reset | the sketch on the microcontroller |
| YunBridge mailbox | `mailbox.py`, `bridgeclient.py` | queue of messages, data store | SEND, RECV, AVAILABLE, DATASTORE_*, raw, get, put, delete | the sketch; TCP clients with JSON |
| YunBridge console | `console.py` | clients, their send buffers, a receive buffer | accept, receive, write, drop a starving client | TCP clients; the sketch |
| YunBridge processes, files, sockets | `processes.py`, `files.py`, `sockets.py`, `sockets_udp.py` | tables by identifier; a buffer for each stream and direction | run, wait, read, write, connect, close | the sketch; processes, files, peers |
| LoRa packet forwarder and radio sketch | `main.c`, `single_pkt_fwd.ino` | files in `/var/iot`, a mutex, the exit flags | thread_up, thread_down, main; loop of the sketch | each other by files; the LoRa server by UDP |
| TCP client | `tcp_client/src/tcp_client.c` | the data files | read, truncate, send | the sketch that appends; a server |
| Telephone ports of Asterisk | `chan_lantiq.c` | ports, dial timer, channels, three locks | monitor events, dial timeout, request, call, answer, hangup, unload | the TAPI device; Asterisk's channel threads and scheduler |
| SMS server: spool | `smsd.c`, `locking.c`, `extras.c` | files in outgoing, queue, sent, failed; lock files | check, move to a queue, take, send, retry, move away | one main process, one process for each modem, users |
| SMS server: modem dialogue | `modeminit.c`, `smsd.c` send_part | port, what is known of modem and network | initmodem, PIN, registration, AT+CMGS | the modem, its SIM, the network |
| SMS server: receiving | `smsd.c` | concatenation store, files in incoming | read a place, keep or combine, delete, purge | the memory of the modem |
| SMS server: modem process | `smsd.c` devicespooler | message count, port, missed calls seen | send, receive, calls, regular_run, suspend, limit, end | users: suspend file, signals, alerts |
| SMS server: splitting and packing | `smsd.c` send1sms, `pdu.c` | the plan of a message, reference number | split, number, pack, unpack | the receiver of the parts |
| udpcli, IVR, luci, provisioning, scripts, GPS | various | - | one datagram, forms, polling | surroundings of the models |
| SMS server: configuration, lists, statistics, alarms | `smsd_cfg.c`, ... | settings, counters | parsing and output | constants of the models |
| Teensy loader, parson, base64 | third party | - | - | not considered |

What is hard, and what makes each part correct:

- **Mesh.** Several processes share nothing but unacknowledged UDP. A row in a
  GST is stale while the Put that corrects it is in flight; the answer that
  completes a discovery crosses others; processes restart without memory; a
  Set names no SIOD, so a stale address moves another device's relay; rules of
  several SIODs trigger each other. Correct when: stale rows are always about
  to be corrected; everybody known has been answered; addresses are right; relay,
  configuration and row agree; the mesh falls silent in sync; rules act.
- **What one SIOD is told.** Rules are kept in a table of ten and in a list
  read back through a buffer of 100 bytes; ranges are read into times that
  keep fields of earlier ranges; settings are changed one uci command at a
  time while others commit; tables are arrays that fill up. Correct when:
  one rule for an output, and a restart brings the same ones back; outputs
  are released at the times the range names; what is in force was given by
  one message whole; a row says what was heard last.
- **Serial link, mailbox and what the bridge keeps open.** Packets and
  answers get lost and repeated, either side restarts alone, TCP clients
  write meanwhile; processes and peers end with data on the way; identifiers
  are used again; starving clients are dropped. Correct when: each call acts
  exactly once and returns its own result; no message, and nothing in any
  stream, is lost, doubled or reordered, or its end seen too early.
- **Packet forwarder and TCP client.** Files that are read, truncated or
  replaced by one process while another writes them; a mutex, a signal and a
  join. Correct when: packets go on whole and once but for those races;
  downlinks are emitted once at most; a forwarder told to stop stops.
- **Telephone ports.** Hook events, a timer and Asterisk's own threads each
  change a port, with the lock and without. Correct when: port and channel
  name each other; what is dialled is what was keyed; calls end.
- **SMS server.** Processes share directories; a file is moved by copying;
  a lock file is looked for and then created; modems time out after they
  have sent; kills come anywhere; parts arrive in any order and places.
  Correct when: one owner for a message, sent once, never vanishing, filed as
  what happened to it, handled in the end; received ones kept and combined
  right; one wrong PIN; the network gets what it can read.

`PROJECT.json` lists the hazards at their lines with the properties that
would catch them.

## Modules

| Module | What it is |
|---|---|
| `SIODMesh` | the mesh: every handler that changes state, PLCexec step by step, startup, crashes, the network, and its properties |
| `MCSIODMesh` | small meshes: rule sets, bounds on what the surroundings do, fairness |
| `SIODMeshProofs` | types of the mesh; relay, configuration and row; addresses and where Sets go; rows and the Puts that correct them; discovery |
| `SIODPlc`, `MCSIODPlc` | table and configuration of the PLC rules of one SIOD |
| `SIODTimeRange` | the range, the clock, and CheckTimeRange |
| `SIODSettings` | configuration messages over uci |
| `SIODTables` | GST and IPT as the arrays they are |
| `SIODConfig`, `SIODConfigProofs` | composes the last four, for any constants: what one SIOD is configured with and hears; rules, settings and time range |
| `MCSIODConfig` | `SIODConfig` with bounds on messages and crashes |
| `Sublist`, `SublistProofs` | the entries of a sequence that are in a set, as a recursive function, and its laws; used by `SIODPlc` and `SmsReceive` |
| `Mailbox` | what commands do to the mailbox, as operators |
| `BridgeCalls` | abstract: calls that act on the mailbox exactly once |
| `YunBridge`, `MCYunBridge`, `YunBridgeProofs` | packets, losses, repetitions and restarts; refines `BridgeCalls` |
| `BridgeStreams` | processes, files and sockets behind the bridge |
| `BridgeConsole` | its console |
| `PktFwd` | packet forwarder and radio sketch |
| `TcpClient` | the TCP client of the data files |
| `Box`, `BoxProofs` | composes the last five modules, for any constants: the programs that serve the microcontroller; packets, downlinks and data files |
| `MCBox` | `Box` with a budget for what happens outside |
| `ChanLantiq` | the driver of the telephone ports |
| `SmsSpool` | main process and modem processes of smsd over the spool directories |
| `SmsSpoolProofs` | types and owners; messages stay whole; parts are sent once |
| `SmsModem`, `SmsReceive`, `SmsDevice`, `SmsSplit` | the inside of a modem process: dialogue, receiving, its loop, splitting |
| `Phones` | composes `ChanLantiq`, `SmsSpool` and the four inside, for any constants: telephone lines and the SMS server |
| `PhonesProofs`, `PhonesLineProofs` | PIN and readiness of the dialogue, receiving, missed calls, splitting; the telephone driver, and the types of all |
| `MCPhones` | `Phones` with budgets for what users, networks, modems and the power do |

The compositions join parts that share no state. In `SIODConfig`, `Box` and `Phones` a step is a
step of one of them, and the theorems are about those. For TLC, in `MCBox`, `MCPhones` and
`MCSIODConfig`, a behaviour is one of one part, chosen at the start, with the events
from outside bounded for that part, while the others stay as they began. So the state
space is the sum of the parts and not their product, and nothing is lost by it.

### SIODMesh and the code

| Variables | Code |
|---|---|
| `GST[n]` | `GST` and `GPIOs`, which are assigned together everywhere |
| `IPT[n]` | `IPT` |
| `triggered[n]`, `scan[n]` | `PLCT.triggered`, the loop variable of PLCexec (0 outside) |
| `IVRSet_counter[n]`, `fifo[n]` | the variable and the last answer in `/tmp/ivrfifo` |
| `wire[n]` | the pins: relay feedback and inputs |
| `saved[n]` | `siod.@output[x].value` |
| `inRange[n]` | what CheckTimeRange would return |
| `net[s][d]` | datagrams between two SIODs |

`socket_io` is one thread around `select`: a datagram is served to its end, or
after 100 ms of silence PLCexec runs. A handler is therefore one action
(`RecvPut`, `RecvSet`, `ClientSet`, ...), with its calls of `setgpio`,
`getgpio`, `IPTset` and `broadcast` as operators that assign parts of the
state. PLCexec is one action per rule (`Tick` samples the lines, then one of
`PLCSkip`, `PLCRearm`, `PLCFire...` for each rule), because SIODs run in
parallel and its Sets and Puts interleave with what the others do. `setgpio`
pulses the relay, sleeps 100 ms and commits the configuration after it:
`CrashInSetgpio` is the power loss in between.

The rules are a constant here and change in `SIODPlc`. A SIOD and its address
are one value (static addresses). Datagrams to clients leave the model, and
clients send any Set, Get or query at any time. `Unheard` drops a datagram to
a device whose process is down. The ghosts `aim`, `impersonated` and
`disturbed` are read by no guard.

### SIODPlc, SIODTimeRange, SIODSettings, SIODTables and the code

`SIODPlc`: `PLCT` is the table; `config` the committed list; `staged` what
PLCdel_config has put back so far; `mode` and `unread` place the loops of
PLCread_config and PLCdel_config, one text per step, so that a power loss can
fall between two commands. Texts are modelled by what the code can tell apart:
the output, the condition, and how many characters are left of the text after
`uciget`, which returns 99 characters of the list. A cut text that makes the
code use a field that was never set gets every outcome: refused, added, or the
end of the process.

`SIODTimeRange`: `start` and `end` are the members of TIMERANGE that are
compared; `strptime` and `mktime` are what ParseTimeRange gets from the C
library, with the fields they leave alone. The TimeRange message parses into
the static variables and commits later (`pc`), so a power loss can fall between the
two. CheckTimeRange returns the set of its possible outcomes: of an exact date
with times it compares variables nobody has set.

`SIODSettings`: an option's value is the message it came from. `todo` holds
the uci commands a handler still has to run, in the order of the source, and each
is a step; `view` is what uci get sees (staged included), `committed` what
flash has, `inuse` what the services were last started with. `OtherCommit` is
any other program's commit.

`SIODTables`: rows of `GST` and `IPT` in the order they were heard, ended by an
id of zero; `Number` gives what atoi makes of an id and an unsigned short keeps.
`overrun` is a read or write past a table.

### YunBridge, BridgeStreams, BridgeConsole and the code

`index` and `last_response` are the fields of PacketReader. `ProcessReset`,
`ProcessRepeated` and `ProcessCommand` are the ways through
`PacketReader.process` for a packet that arrived whole; one that did not is
`LosePacket`. `Arrive` is `Mailbox.run`, which serves at most one message of a
TCP client before each packet; it touches nothing the packet does, so it may
as well come at any time. The sketch is not in the repository. It is modelled as
the client this protocol is written for: one packet at a time, repeated until
its number is answered; after a reboot a reset packet, with any number, on a
line that has gone quiet. Values are texts; AVAILABLE answers with the length of
the next message modulo 65536, as its two octets do; DATASTORE_PUT answers
`Malformed` to data without exactly one separator and stores nothing. A packet
`XXXXX` ends the bridge, as `Restart` does.

`BridgeCalls` is the promise: Call, Execute, Return, each once. The refinement
maps a call to "done" exactly when the index has moved past its packet, with
`last_response` as the result it will return; so the answer that is given to a
repeated packet must be the one of its first execution. Restart of the bridge
breaks the session until a reset reopens it.

`BridgeStreams`: the four modules of the bridge keep their streams in the same
way, in a table of identifiers (`table`, `next_id`), so one module models all
four and `kind` says which one a behaviour is about. A stream counts
what it has produced and what was said to it; `rxbuff` and `txbuff` are its
buffers. `Reading` is a thread of a process or the `run` of a socket. WAIT
blocks the bridge (`waiting`), for ever when the process waits for its pipe
(`stuck`).

`BridgeConsole`: `con` is the object Console, `link` the other ends of its
sockets. `Run` is one pass of `run`: accept, then each client in turn.

### PktFwd, TcpClient and the code

The places of `sketch`, `up`, `down` and `main` are the points between which the
other processes can run: each print of the sketch through the bridge, each
system call on a file, each wait. `cfgdata` and `data` know which packet they
tell of and how much of it is there, holes included: a writer whose file was
truncated goes on at its old place. `thread_up` takes and gives `mx_meas_up` where
the code does, and `main` takes it for its statistics. `TcpClient` has three
places: before the read, before the truncation, before the sending.

### ChanLantiq and the code

`pvt` is `struct lantiq_pvt` without what no condition reads; `iflock` and
`monlock` are the mutexes, with their holders, and `mon`, `timer` and each
channel's `frames` say where a thread stands. A function that holds `iflock`
from its beginning to its end is one action; one that
gives it up, waits for it, or runs without it is one action for each stretch.
The timer is the scheduler entry that `dial_timer` names, and `orphans` are
entries no variable names any more. `Handset` is the user, and events wait in
the device until the monitor thread reads them.

### The SMS server and its modules

`SmsSpool`: `copy` says for every directory whether it has no, half or the whole
file; `lock` is the lock file's creator. movefile copies and then unlinks, each
a step; looking for a lock file and creating one are two steps (`StatFile`,
`LockFile`, the latter with O_EXCL). `CheckhandlerMoves` is an external
checkhandler that moves a file, `SignalTerm` and `Kill` an orderly end and one at any
step, `Start` a new start with its removal of lock files. `SmsModem` has one step per
`put_command`, and the words of an answer that the program looks for.
`SmsReceive` has the memory of the modem, the concatenation store line by line
and its rewriting through a temporary file. `SmsDevice` has the loop of
devicespooler, whose sending and receiving are one step here. `SmsSplit` is
send1sms and make_pdu one part at a time, and the inverse as `pdu.c` reads what
others sent; a text is its length, a septet the position of its first bit.

Why the parts of one process can be checked apart: SmsDevice calls them one after the
other and they share `modem_handle` alone, which each opens or finds closed;
SmsModem and SmsDevice both have the case that it was closed before.

## Runs

| Run | Properties | Instance |
|---|---|---|
| `mesh_sync` | StaleOnlyInFlight | 2 SIODs, rules on both, 3 events among input changes, Sets, Gets, crashes, range changes; ordered, lossless |
| `mesh_faults` | TypeOK, RelayAgrees, InputBitsAreRead, OutputsOnlyInRange | 2 SIODs, a rule on the other's output, 2 events of every kind, with loss, reordering, faults and crashes inside setgpio |
| `mesh_addresses` | AddressTable, SetReachesTarget | 3 SIODs after discovery, 2 events among input changes, IVR requests, queries, losses |
| `mesh_live` | NewcomerAnswered, FallsSilent, EventuallyInSync, RuleTakesEffect | 2 SIODs from before the first boot, 2 input changes or Sets, lossless, fair |
| `plc_rules` | TablesHold, OneRulePerOutput, OthersUntouched, ConfigCoversTable, InTimeRange, SettingsWhole | one SIOD: 6 PLC messages for 3 outputs; or 2 of 60 time ranges on a clock of 8 days; or 3 of 21 messages about settings; or 4 messages of 5 other SIODs for tables of 3; 1 power loss |
| `bridge` | BoxTypeOK, MailboxIntact, ImplementsCalls, EveryCallReturns, StreamsInOrder, ForwardedOnce, DownlinksKept, ForwarderGoesOn, InOrderOnce | the line with 2 calls after the reset, 1 TCP message, 1 reboot, 1 restart; or 5 events at 3 streams of a kind and 2 identifiers; or 5 at 2 clients of the console; or 3 packets, downlinks and signals of the forwarder; or 3 data in 2 files |
| `phones` | PhonesTypeOK, OwnerMatches, DialsWhatWasKeyed, CallEnds, OneOwner, SentOnce, NeverVanishes, Handled, NothingLost, Combined, WrongPinOnce, SendsWhenReady, CallsOnce, ReadAsSent | one port and 2 channels; or 4 messages and 2 modem processes; or one modem, with 3 received messages of 2 parts, with its dialogue, with 2 missed calls; or every split of 32 lengths |
| `bad_restart` | NewcomerAnswered is violated | 1 crash |
| `bad_ivr_answer` | IVRSetAnswered is violated | 1 IVR request |
| `bad_plc_range` | OutputsOnlyInRange is violated | a rule on the own output, the range closes |
| `bad_set4` | InputBitsAreRead is violated | Set/4 |
| `bad_plc_restart` | RestartKeepsRules is violated | 4 rules, table of 10, buffer of 100 |

Every property of a passing run has a mutant in `PROJECT.json`: one definition of
the model changed as a plausible bug would change it, which makes TLC find
the property violated under the same bounds.

Why these bounds are enough to mean something:

- Two SIODs have every pairwise exchange of the protocol: discovery in both
  orders, stale rows, Sets crossing Puts. Three are needed only where a third
  speaks in the name of a second (`mesh_addresses`).
- One relay and one input per device: lines do not influence each other but
  for `Set/4`, for which `bad_set4` adds the number 4, and relay 2 is the one
  it pulses. The rule sets contain a rule on another SIOD's output, one on the
  own output, "and" and "or", and two rules of different SIODs on the same
  relay.
- `MaxEvents` bounds only what the surroundings do. The SIODs' own messages are not
  bounded; `FallsSilent` is what keeps the state space finite.
- In `plc_rules` a list of four texts exceeds the buffer of 100 characters, so
  cut texts occur, in TablesHold, OneRulePerOutput and OthersUntouched.
  ConfigCoversTable is about lists that have never exceeded it. The clock runs
  from the first of a month, a Monday, past a Sunday to the next Monday;
  days of the week and of the month, weeks that end on a Sunday or go over it, equal
  and exchanged times are all among the ranges. Tables of 3 are filled by the own
  SIOD and 2 of the others, and two ids that are the same or zero are heard too.
  One of the others changes its address.
- In `bridge` numbers of packets wrap: the reset and two calls use all three. A line of
  three packets holds a packet, its repetition and an answer. Two
  identifiers for three streams make every identifier be used again. One
  datum fills a buffer, so every limit is met.
- In `phones` the budgets (`Budget`) bound what users, networks, modems
  and the power do: 4 events at the port, 2 faults or further messages in the
  spool (a lost answer, a kill and so a start, a full disk, a closed port), 1 at
  the memory of the modem, 2 in the dialogue, 2 at the process.
  The modules stay without a violation with more: 6 at the port, 3 in the spool,
  4 in the dialogue, 4 at the process, 3 at the memory (the last one to depth
  25). The lengths are on both sides of each limit in send1sms: one part,
  9, 99 and 255 parts, and the largest text of the buffer.
- `CHECK_DEADLOCK FALSE` in the three compositions: the clock has
  run out, the sketch has made its last call, smsd has ended, or the budget is used up.

### Restrictions in the properties

- StaleOnlyInFlight, NewcomerAnswered, FallsSilent and EventuallyInSync hold
  without loss only: a Put is sent once (line 1848), and nothing repairs a row whose
  Put was lost. Loss, reordering, relay faults and IVR requests are switched
  off in those runs by `Kinds`, not in the model.
- NewcomerAnswered holds until the first restart (`bad_restart`).
- OutputsOnlyInRange holds for Sets, wherever they come from, and not for a
  rule on the own output (`bad_plc_range`), which `mesh_faults` does not have.
- RelayAgrees excepts an output whose setgpio was cut short or whose relay moved on
  its own, until the next setgpio or start.
- RuleTakesEffect asks for an address of the target before the rule triggers;
  see PLCFireNowhere below.
- InTimeRange excepts the four kinds of ranges that its comment names;
  SettingsWhole what a killed or overtaken handler leaves (`half`); TablesHold
  ids that the tables cannot tell apart, and full tables.
- ForwardedOnce and DownlinksKept except packets and downlinks whose file was read
  or replaced while the other side was at it (`raced`, `missed`): that is the
  race the code has, and the ghosts are set in exactly those steps.
  InOrderOnce excepts what was written between read and truncation.
- StreamsInOrder excepts SSL, where data arrive again (below), and holes in UDP.
- The properties of the driver except a port at which one of four things
  went wrong before (`spoiled`, see the comment of `Fine`); each of the four is a race
  of the code and is listed below.
- SentOnce and OneOwner except a message of which an answer was lost or that was in
  hand when smsd was killed or started (`excused`). NeverVanishes excepts
  less: kills and lost answers are no excuse, only a lock removed, or a file
  moved, by somebody else under a process at work (`unguarded`).
- NothingLost and Combined except messages the network delivered twice, or with whose
  reference, store or deletion something failed. CallsOnce excepts
  calls under which the list moved.
- ReadAsSent excepts `TooMany` and `TooLarge`, two limits the code does not look at.

### Fairness

- Mesh: the loop takes a datagram that is there and otherwise runs PLCexec, so
  `Tick`, `PLCStep` and `Unheard` are weakly fair. `Receive` is strongly fair per
  channel: PLCexec disables it again and again for the time of its walk, while
  the socket's queue is first in first out. `Boot` is weakly fair: the process is
  started by `siod.init` at every power-up, and a device is powered up in the
  end. It is not respawned; a crash is the last thing a device does until then.
- Bridge: `bridge.py` reads in an endless loop (`Process`); the sketch repeats
  and listens; both are strongly fair together with the delivery of a packet, that is,
  a line on which every packet may be lost but not all of them.
- Forwarder: each of its threads and the sketch are weakly fair: they loop, and
  their waits have timeouts.
- Telephone driver: the monitor thread polls and the scheduler runs what is due;
  a channel whose frames contain a hangup is hung up by its thread.
- SMS server: the main process and each modem process are loops with sleeps, each
  weakly fair; so is the receiving of a modem process.

Nothing is assumed of inputs, clients, users, crashes or losses.

## Proofs

All for every number of SIODs, messages, processes and packets, every set of lines, all
rules and every value of the other constants that the named assumptions allow.

| Theorem | Statement | Argument |
|---|---|---|
| `SIODMeshProofs!Typing` | `Spec => []TypeOK` | inductive: `Typed` = TypeOK and `OwnRow` (a running SIOD has its own row and so can compute with it). Without OwnRow `GST[n][n][x]` of a running SIOD may be undefined and the type of the rows it broadcasts is lost |
| `SIODMeshProofs!Relays` | `Spec => []RelayAgrees` | inductive relative to Typed: setgpio and the start write all three places, every other action none of them for an output that is not disturbed; getgpio writes the relay feedback into the row, which agrees by the invariant itself |
| `SIODMeshProofs!Addresses` | `Spec => []AddressTable` | strengthened by `Carries`: every datagram in flight comes from the SIOD it speaks of or from one that impersonated it; IPTset then keeps the table right |
| `SIODMeshProofs!Sets` | `Spec => []SetReachesTarget` | the same invariant: a Set is sent to an address of the table |
| `SIODMeshProofs!AddressesWithoutIVR` | without remote IVR requests addresses are exact | from Addresses and `impersonated = {}`, which is then invariant |
| `SIODMeshProofs!RowsAreCorrected` | `SetX \subseteq Outputs => (OrderlySpec => []StaleOnlyInFlight)` | the invariant `Mapped`, see below |
| `SIODMeshProofs!Discovery` | `FaithfulSpec => []NewcomerAnswered` | the invariant `Greeting`, see below |
| `SIODMeshProofs!InputsAreSampled` | `SetX \subseteq Outputs => (Spec => InputBitsAreRead)` | relative to Typed: every Set in flight and every rule is about an output, so only getgpio writes the bit of an input of a running SIOD |
| `SIODMeshProofs!RangeIsObeyed` | no rule is about an output of its own SIOD `=> (Spec => OutputsOnlyInRange)` | relative to Typed: each action that moves a relay looks at the range, ends the process or leaves the relay disturbed |
| `SIODConfigProofs!Typing` | `Spec => []TypeOK` | the table never exceeds RULES_MAX, for any buffer |
| `SIODConfigProofs!OneRule` | `Spec => []OneRulePerOutput` | PLCdel removes the only rule of an output (`Unique` of the table), so PLCadd appends the only one; Without keeps uniqueness because it only moves entries |
| `SIODConfigProofs!OthersStay` | `Spec => OthersUntouched` | what PLCdel leaves out is of the output it was asked for, so the table skips nothing of the others (`OnlySkips`); PLCadd appends to that |
| `SIODConfigProofs!ConfigCovers` | `Spec => []ConfigCoversTable` | the invariant `CoverInv`, see below |
| `SIODConfigProofs!SettingsAreWhole` | `ConfigSpec => []SettingsWhole` | the invariant `SetInv`, see below |
| `SIODConfigProofs!RangeIsKept` | `ConfigSpec => []InTimeRange` | `RangeInv`: what `ParseTimeRange` has left in the two broken-down times, see below |
| `SIODConfigProofs!TablesAreTrue` | `ConfigSpec => []TablesHold` | the invariant `TabInv` with the types of the other parts, see below |
| `YunBridgeProofs!Typing` | `Spec => []TypeOK` | inductive |
| `YunBridgeProofs!Refinement` | `Spec => ImplementsCalls` | every step is a step of BridgeCalls or a stutter, by the invariant `Linked`, see below |
| `YunBridgeProofs!Messages` | `Spec => []MailboxIntact` | `Intact` adds to Linked the balance for every open session (`Balance`), and that nothing has been taken before the reset that opens a session is executed (`Fresh`) |
| `BoxProofs!PacketsForwarded` | `BoxSpec => []ForwardedOnce` | the invariant `ForwardInv`, see below |
| `BoxProofs!DownlinksWait` | `BoxSpec => []DownlinksKept` | the invariant `DownlinkInv`, see below |
| `BoxProofs!DataInOrder` | `BoxSpec => []InOrderOnce` | the invariant `ClientInv`, see below |
| `BoxProofs!InOrderBothWays` | `BoxSpec => []StreamsInOrder` | the invariants `StreamsInv` and `ConsoleInv`, see below |
| `BoxProofs!BoxTyped` | `BoxSpec => []BoxTypeOK` | inductive for forwarder and TCP client; for streams and console with the invariants above, from which the bounds of what was fed, said and kept follow |
| `PhonesLineProofs!LineInvariant` | `PhonesSpec => []LineInv` | inductive, see below |
| `PhonesLineProofs!OwnersMatch` | `PhonesSpec => []OwnerMatches` | from `Names` and `PortGood` in LineInv |
| `PhonesLineProofs!DialsKeyed` | `PhonesSpec => []DialsWhatWasKeyed` | from `PortGood` and `Tracked` in LineInv |
| `PhonesLineProofs!PhonesTyped` | `PhonesSpec => []PhonesTypeOK` | the invariants of the six parts together, with the types of the driver's locks (`LocksTyped`) |
| `PhonesProofs!ModemTyped` | the state of modem and dialogue has its types | inductive |
| `PhonesProofs!PinOnce` | `PhonesSpec => []WrongPinOnce` | `PinInv`: after a wrong PIN nothing makes the SIM answer READY and no old READY is in the buffer, so the next answer ends the process |
| `PhonesProofs!SendsReady` | `PhonesSpec => []SendsWhenReady` | `ReadyInv`: what the program may rely on at each place (`Known`), and by which ways it gets to one that sends (`Flow`) |
| `PhonesProofs!PartsKept` | `PhonesSpec => []NothingLost` | the invariant `ReceiveInv`, see below |
| `PhonesProofs!CallsReportedOnce` | `PhonesSpec => CallsOnce` | `DeviceInv`, see below |
| `PhonesProofs!PartsReadAsSent` | `PhonesSpec => []ReadAsSent` | `SplitInv` over what a plan can be (`Cut`, `Unsplit`), see below |
| `SmsSpoolProofs!Typing` | `Spec => []TypeOK` | inductive with `ModemWorks` and `MainWorks`, that a process at work has a message |
| `SmsSpoolProofs!MessageHasOneOwner` | `Spec => []OneOwner` | `ModemLock` and `MainLock`: a process that holds a message that is not excused is the one its lock file names, and O_EXCL lets one process create it |
| `SmsSpoolProofs!MessagesStayWhole` | `Spec => NeverVanishes` | the invariant `Moves`, see below |
| `SmsSpoolProofs!PartsSentOnce` | `Spec => []SentOnce` | the invariant `Once` on top of it, see below |

Loss and reordering are part of the mesh's `Spec`, so its theorems hold under them:
`Carries` is about the set of datagrams in flight and does not see their order. Two
theorems are about fewer behaviours, because their properties fail in the others, in the
model and in the code: `OrderlySpec` has no loss, no overtaking, no relay that moves
by itself and no Put in the name of another SIOD; `FaithfulSpec` has no loss and no
crash. Both keep starts, clients, rules, inputs, ranges and datagrams nobody hears, and
OrderlySpec crashes, also in the middle of setgpio. Two hypotheses about constants are
what the runs that expect a violation are about: that `SetX` has no inputs
(`bad_set4`), and that no rule is about an output of its own SIOD (`bad_plc_range`). Kills, full disks, lost answers and new starts are part of
`Spec` of SmsSpool.

What is assumed of the constants has a name and a reason in its module. The program's
own constants are positive; a port is reopened at one of the tries; the values that stand
for "none" are not among the others; ranges have the days and times `ParseTimeRange`
accepts (`RangeAssumption`); ids in the tables are of sixteen bits, gpios are octets and a
Put of one line names one of eight (`TablesAssumption`); a text has less than `MAXTEXT` octets, the
header of its sender fits a short message and the first reference is an octet
(`TextsAssumption`); the sketch is not one of the clients of its console
(`ConsoleAssumption`); and messages about the settings are of the kinds of `process_udp`
(`SettingsAssumption`). One assumption is about senders:
`ReceiveAssumption` says that one uses the reference of a message of
several parts again only when that message is over, as one with 256 of them does. The
model has one sender, because parts of different ones differ for the code. How long a
message of which something was lost (`confused`) keeps its reference in doubt is not
assumed: its successors are in doubt too.

### Inductive invariants

`Mapped` (mesh) follows a row through the network. For a running SIOD `m` and
another `n`, look at the channel from `m` to `n`: the last datagram that speaks of a line
says what `m`'s own row says; and if none does, `n` has that value already or knows nothing
of `m` (`Consistent`). This is inductive only for a channel that carries its sender's own
words (`Carries Own`), while getgpio finds nothing of which it would not report a
change (`Calm`, with RelayAgrees), and while a SIOD that is down knows nobody (`Blank`).

`Greeting` (mesh): who has the row of another SIOD is known to it, or its own PutAll is on
its way there (`Greeted`); only running SIODs greet (`Greeters`), and in these behaviours
nobody stops.

`CoverInv` (PLC) says what each loop has left to do. PLCread_config: what the table does
not have of the list is still to be visited (`Refilling`); PLCdel_config: what was put back
and what is to be visited are the list without the deleted output, and shorter than it
(`Rewriting`). Because such a list fits the answer of uci, uciget returns it as it is
(`UcigetWhole`, from the offsets of its texts), and a full table with a rule for each of its
outputs has no room for an output outside the list (`FullTable`, by
cardinality): so PLCadd refuses a rule for which the list has no text.

`SetInv` (settings) counts the commands of a handler. It has done the first `n` of those
of its message (`InPlace`), and what they have changed is there (`SetSoFar`), so
that at the commit all options of the kind are from that message. Of each kind,
what is seen, committed, in use and told is from one message and the one
promised, except where a half was left (`Settled`); what is seen may be half while its handler
is at work (`Under`). SettingsWhole does not speak of what is only seen, and a
commit, also somebody else's, is what makes that count.

`RangeInv` (time range): the two broken-down times keep the day of the week, the day of the
month and the times of the range, and the year tells the week from the dates (`Reads`).
It is inductive because a range of the week leaves the year zero, over which
the next range of the week is read to the same fields. That CheckTimeRange then says what the
range means is arithmetic of days and seconds: a moment is compared by its day first
(`DaysFirst`), and only the week of the moment, or the one before it, can contain it.

`TabInv` (tables) adds to TablesHold what makes it inductive. The rows with an id come first and
each id is in one of them (`Keyed`), so that the row which GSTget finds first is the only one; a row
is of a SIOD that was heard, and a table that is not full has one of each of them
(`StatesSaid`, `AddressesSaid`); the own row is the first one as long as there is one
(`OwnFirst`), because setgpio writes row 1 without a look at its id. Rows and SIODs heard
are then in bijection, and the two sums over them are the same (`SumRenamed`). A Put of one
line is computed from the row, a Put of all lines goes through eight characters: that a bit can be
set in an octet (`WithLineType`) and eight digits are read as the octet that was written
(`OctetRead`) is arithmetic of powers of two.

`Linked` (serial link) says what is on the line. MailboxIntact and the refinement are not
inductive: a repeated packet is harmless only because of what else is there.
Packets on the line carry the number of the open call or, all of them in front
of those, the number before it (`Numbers`, `Order`); the bridge
expects the number of the open call or the one after it; and a reply that has
the number of the open call carries `last_response` (`Answered`). So a packet
that is out of order is always a repetition of the last one that was executed,
and the answer it is given is the one of its first execution.

`ForwardInv` (forwarder): thread_up goes by a packet that was heard (`ToldHeard`);
cfgdata is not complete while the sketch prints it, and what thread_up handles then is
another packet or has raced (`NotWhilePrinting`); and what was sent and has not raced
can be sent again only by a cfgdata that tells of it, which the thread is about to truncate
(`SentIsOver`). `DownlinkInv`: a downlink that waits is in the file of its node, and
neither with the server nor in the hands of thread_down (`InItsFile`); the file that
is about to be filled is empty, or was removed and the downlink has been missed
(`BeingWritten`); what was emitted is in a file only until the sketch removes it
(`EmittedIsOver`).

`ClientInv` (TCP client): data are known by where they were written (`WrittenOnce`). The
server has what was written before the client's buffer, that has what was written before
the file (`ServerInOrder`, `ReadInOrder`, `FileInOrder`), and until the truncation the
buffer is the beginning of the file.

`StreamsInv` (streams) has two parts. `Held`: under an identifier the sketch holds, the table has
the stream it was given out for, in every state of the bridge. `StreamOK`, of one stream: what was
heard and, behind it, what is in the buffer is all that was taken from the other side, in order
(`ReadSoFar`); so is what has arrived there with what still waits to be sent (`WrittenSoFar`); and a
socket that did not fail is closed only when all was taken (`ClosedLate`). A command
reads and writes the stream of the table, which by the first part is the one the sketch
means; without it a step of one stream could take from the buffer of another.

`ConsoleInv` (console) adds to ConsoleInOrder that no client is in the list twice, that nothing is
kept for one outside the list, and which clients the list has, by the state of
their ends of the connection. The loops of `run` are walks over the clients, and the
invariant is kept one client of the walk at a time (`GiveOK`, `CloseOK`, `ReceiveAllOK`,
`DropStarvingOK`): what a client has got and what is kept for it is what the others have said
since it came, also while some of the clients have been read and the others not.

`LineInv` (telephone driver): a port and its channels name each other (`Names`); each port
is in a state that the functions of the driver can meet (`PortGood`: owner, dial timer
and the digits keyed against those collected); and the hook as the driver knows it becomes
the one of the handset by the event the monitor thread handles and those that still wait in the
device (`Tracked`, `Ahead`, `Shows`). Without the last one a user could seem to
key digits into a port that believes the handset to be down.

`ReceiveInv` (receiving): a part whose message nothing excuses is in one place at a time,
or in the modem and with the process that has it in hand (`Apart`), and nowhere to be lost
(`Somewhere`); what is put together is one message, all of it (`Combining`); a file holds one
message, which no other file has (`Files`); and a part has come only when the earlier
messages of its reference were over (`Turn`), so that the parts of one reference in the
store are of one message.

`DeviceInv` (device) says where a missed call is (`CallsKept`). The modem has each call once in
its list; what the process has read is that list, unless what moved it since then excused the
calls in it; and a call that waits was reported exactly if the process is about to
remove it. A process that is suspended goes on at a place outside of the reading of the
calls (`Returns`), so that nothing comes between a report and the removal.

`SplitInv` (splitting): the plan is the one made of the message, the part sent last is what its
place in the plan makes it (`PduOf`), and the receiver has the text as far as that part goes. The
rest is about plans. A message is left in one part (`Unsplit`), or so many parts that they cover it and
the part before the last does not (`Cut`), each with the room left in it that its numbers take; three
rooms are tried for numbers in the text, and a GSM text with its numbers in the header is too short
for 256 parts, because of the size of the buffer (`GsmParts`). From this follows where a part ends
and that it fits (`PartEnds`); that its end is where the next begins; and that the header and
the bits behind it are whole septets (`FillIs`), so that the receiver finds the text.

`Moves` (spool) says why a copy may be unlinked. A process is about to unlink an
original that is whole only when the copy is whole (`Copied`, `Moving`), and nobody
else touches either, because the process has the lock (`MainGuard`,
`ModemGuard`). A modem process may move a file that is half a copy itself, which a
killed main process left in the queue: then the original is still in the outgoing
directory (`Halves`), and it cannot have been rejected, since the same
checks let it pass before. `unguarded` is where this argument ends: a new start
removes the lock of a process that still lives, and a checkhandler that
moves a file does not look at locks.

`Once` (spool) says what the network has of a message. While no process has locked
it, or a process has but has not read it, nothing was sent (`New`, `Queued`); while its
owner sends it, all that was sent lies before the part that is next, and the text
is whole, because the main process held the lock as long as its copy was half
(`Copying`); when its owner moves it, success is 1 exactly if the last part was
sent; and before the lock goes the file has left the queue, so that nobody
takes it a second time. A name is used when no directory has it, and then no process
has found it either (`Nowhere`). Messages whose lock was there when
smsd died or started, or of which an answer was lost, are excused: the code does send their
parts again.

### Sequences

The prover cannot use the induction theorems of the library, which take an operator as a
parameter. What the proofs need of sequences is proved without them: `Only` (the entries
of a sequence that are in a set) and `Total` (the length of a list of texts) are recursive
functions, and `SublistProofs` and `SIODConfigProofs` show that such a function exists, by the
least number for which there would be none (`LeastNatural`, from the well-foundedness
of `<` on the naturals), and what it is for a sequence that grows, loses its head or skips an
entry, the same way. The walks of the console over its clients are such functions too.
A fold over a finite set is a recursive function on its subsets: it exists (`FoldExists`, by
as many rounds as there are elements), it is the same whichever element is taken first
(`SumOne`), and a sum does not change when its elements are renamed (`SumRenamed`), by the least
cardinality for which that would be false.

### Only model-checked

Every invariant and every action property of the passing runs is stated by a theorem. What stays
with TLC:

- Liveness and everything under fairness (FallsSilent, EventuallyInSync, RuleTakesEffect,
  EveryCallReturns, ForwarderGoesOn, CallEnds, Handled, Combined): out of the prover's reach.

## Where the code and its comments disagree

Runs (details in `PROJECT.json`): a restarted SIOD is not answered
(`bad_restart`); an IVRSetReq for another SIOD does nothing
(`bad_ivr_answer`); local rules ignore the time range (`bad_plc_range`);
`Set/4` writes an input bit (`bad_set4`); a restart loses all rules but the first three
(`bad_plc_restart`).

Seen while modelling, without a run of their own. Of the mesh:

- An IVRSetReq broadcasts a Put in the name of another SIOD (line 1431), and
  receivers store the sender's address for it (line 1122): AddressTable says what
  remains true, AddressesCorrect what line 64 says.
- A rule whose target has no address is marked as triggered without a Set
  (line 2904, `PLCFireNowhere`) and waits until its condition becomes false.
- A lost Put is never repaired although "GST should stay in sync for all
  SIODs" (line 1102); the check sum that would detect it (line 1202) is only logged.
- TimeRangeOut goes to the sender of the Set alone (line 857); line 819
  says broadcast.
- A relay whose feedback differs changes the row without a Put (line 2174).

Of what one SIOD is told:

- A PLC message for a full table is not answered although lines 888-889 say so.
- A rule that replaces another leaves the old text in the list; returning to the
  first rule appends nothing, so the next start brings the second back.
- Ranges: exact dates with times compare variables that were never set. A range of the week
  that follows the factory range `/` finds `tm_year` at -1 and is in force never, or, for
  a Sunday, every day, until the next start. A
  second time that is the smaller one is never reached, although the description says
  the next day. A range over the end of the week is not in force in the new
  week. A range that is refused has already changed the start of the one in force.
- ConfigAsterisk commits nothing and does not look at the number of its
  arguments; ConfigNTP commits the emptied list first. The commit of any message writes what
  others staged. ConfigReq joins the old address of the interface with the new gateway
  until RestartNetworkService.
- Ids: `siod.init` takes six hexadecimal digits, the web form 0000, and the
  tables the number that atoi reads, cut to 16 bits. With the number 0 the own row
  does not exist, and another SIOD's becomes the first.
- The buffer of GSTReq has room for 7 rows. IPTset and GSTget run past a full table.

Of the bridge:

- `bridge.py` 58-60 looks for `reset` on the keys of the command table, which are
  strings: it is never called. Identifiers of before a reboot of the sketch stay taken, and
  the search for a free one does not end when all 256 are.
- `mailbox.py` 75: delete leaves a value that is empty or zero in the store.
- A value that is not a text, put by a TCP client, ends the bridge when the
  sketch asks for it (`len` and `crc.write` of a number).
- WAIT blocks the bridge, and for ever when the process is waiting for room in its pipe.
- A file command with an unknown identifier, a write to a process that has ended,
  and a second CLOSE of a UDP socket (an undefined name) end the bridge.
- `sendall` of an SSL socket returns nothing, so the same data are sent again and again.
- The limit of the console's buffers closes a client inside the loop over the
  clients: the next one is skipped in that round.
- `BridgeClient.recv` keeps only the last piece of an answer that comes in pieces.

Of packet forwarder and TCP client: the races at their files (`raced`,
`excused`); a size that is read before it is written counts as 0; a downlink of less than
three bytes makes the sketch deaf until another one comes.

Of the driver of the telephone ports:

- A requester that refuses its destination returns with `iflock` held, after which every
  thread that asks for it waits.
- `! pvt->channel_state == ONHOOK` (line 941) says what is meant only because ONHOOK is 0.
- A new channel displaces the owner of a port (`"owner"`); a refused call hangs up the
  dialling of the user (`"refused"`); the timeout dials at a port that does not dial
  any more (`"timer"`); digits of a dialling that was given up stay (`"digits"`).

Of the SMS server:

- A new start removes the lock files of modem processes that still live, and a
  checkhandler may move a file that is locked. Either can lose a message (`unguarded`).
- An admin message goes to a closed port; `readphonecalls` reads from a
  closed port after the message limit.
- The end of a suspension sends no start string when the file was removed. Device names
  match by their beginning: GSM1 is suspended with GSM10.
- `run_rr` does not look at what `try_openmodem` returned.
- The PIN becomes "ignore" after READY and is not entered when the modem has
  lost its power since. An ERROR to CREG switches the check of the network off.
- pdu.c:497 takes a reference of 16 bits times 0xFF for 0x100.
- More than 255 parts with a header for each are numbered modulo 256, except
  for plain GSM text. UCS2 with the sender's own header may exceed 140 octets.
  A text in UTF-8 that needs GSM characters alone is split at 140, not 160.
- Two modem processes may use the same reference for the same receiver.

## Not modelled

- What one system command, a library or a table does: the other
  configuration messages of the SIOD, provisioning, scripts, web forms, GPS, statistics,
  configuration files of smsd and alarms. They have no interleaving of their own.
- Formats: JSON, base64, character sets, headers of SMS files, CRC. Where a property
  depends on what a conversion does (ids, ranges, texts of rules, septets, lengths) the
  conversion is modelled by its effect.
- Voice, tones, jitter and line feed of the telephone ports; registers of the radio.
- LISTEN and accepted connections of the sketch, seek and tell of files, exit codes; PULL_DATA and its
  acknowledgements; delivery reports, other check_memory_methods, more than
  one queue, priorities; USSD and voice calls.
- Third-party code: Teensy loader, parson, base64, and Asterisk itself.

## Plan

Done: the mesh with its proofs, PLC rules, serial link and mailbox with the
refinement; tables, ranges and settings of one SIOD; streams and console of the bridge;
forwarder and TCP client; telephone ports; the SMS server in five parts; the proofs
above. Left, in this order:

1. `StatusBoard`: abstract, every SIOD publishes and reads rows; the mesh over lossless
   ordered channels implements it, by RowsAreCorrected.
2. SIODTables as an implementation of the functions GST and IPT of SIODMesh, and
   SIODTimeRange behind its `inRange`; rules of SIODPlc that change while the mesh runs.
3. SmsDevice with SmsModem inside, instead of one step for each sending.
4. LISTEN and accepted connections in BridgeStreams; delivery reports in SmsReceive.
