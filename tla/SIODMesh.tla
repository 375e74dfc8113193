------------------------------ MODULE SIODMesh ------------------------------
(***************************************************************************)
(* The mesh of SIOD devices run by src/socket_io/src/socket_io.c.          *)
(*                                                                         *)
(* Every SIOD drives relays, samples inputs, and keeps in memory           *)
(*   - GST, the Global Status Table: the IO lines of every SIOD it heard   *)
(*     of, its own row first;                                              *)
(*   - IPT, the address to use for every SIOD it heard of;                 *)
(*   - the PLC rules with their `triggered' flags.                         *)
(* One thread serves a select loop: either one UDP datagram is processed   *)
(* to the end, or 100 ms passed and PLCexec and IVRSetTimer run.           *)
(*                                                                         *)
(* A SIOD and its address are the same value: addresses are static.  The   *)
(* module watches a subset Outputs \cup Inputs of the eight lines of each  *)
(* device, under the numbers they have in the code (0..3 and 4..7).        *)
(* GPIOs and GST[0].gpios are assigned together everywhere (lines 2074 and *)
(* 2079, 2097 and 2111, 2160 and 2162, 2181 and 2186), so one variable,    *)
(* GST[n][n], stands for both.                                             *)
(***************************************************************************)
EXTENDS Integers, Sequences

CONSTANTS
    Node,           \* the SIODs of the mesh
    Outputs,        \* the watched relay lines, some of 0..3
    Inputs,         \* the watched input lines, some of 4..7
    Rules,          \* the PLC rules each SIOD reads from its configuration
    SetX,           \* the output numbers that clients put in a Set message
    IVRSETTIMEOUT,  \* ticks an IVRSetReq waits for a Put
    Unknown         \* no row in the GST, no address in the IPT

OUTPUTS_NUM == 4
RULES_MAX == 10
IO == Outputs \cup Inputs
Row == [IO -> BOOLEAN]

(* A rule "id1/x1/y1/id2/x2/y2/conn/id3/x3/y3" as PLCadd accepts it.       *)
Rule == [id1 : Node, x1 : Outputs, y1 : BOOLEAN,
         id2 : Node, x2 : IO, y2 : BOOLEAN, conn : {"and", "or"},
         id3 : Node, x3 : IO, y3 : BOOLEAN]

NumRules(n) == Len(Rules[n])    \* PLCT.n

(* The relay that setgpio pulses for output number x: the address lines    *)
(* REL0 and REL1 carry x > 1 and x % 2.                                    *)
Relay(x) == (IF x > 1 THEN 2 ELSE 0) + (x % 2)

ASSUME LinesAssumption ==
    /\ Outputs \subseteq 0..3
    /\ Inputs \subseteq 4..7
    /\ SetX \subseteq IO \cap (0..OUTPUTS_NUM)
    /\ \A x \in SetX : Relay(x) \in Outputs

ASSUME RulesAssumption ==
    /\ Rules \in [Node -> Seq(Rule)]
    /\ \A n \in Node : NumRules(n) <= RULES_MAX

ASSUME TimeoutAssumption == IVRSETTIMEOUT \in Nat

ASSUME UnknownAssumption == Unknown \notin Row /\ Unknown \notin Node

(***************************************************************************)
(* The datagrams.  Put with an empty X carries all lines (PutAll); a Set   *)
(* names no SIOD, `aim' is a ghost: the SIOD its sender meant.  The last   *)
(* three only tell the receiver the address of SIOD `id'.                  *)
(***************************************************************************)
PutMsg    == [kind : {"Put"}, id : Node, x : IO, y : BOOLEAN]
PutAllMsg == [kind : {"PutAll"}, id : Node, row : Row]
SetMsg    == [kind : {"Set"}, x : Outputs, y : BOOLEAN, aim : Node]
IdMsg     == [kind : {"TimeRangeOut", "GSTCheckSum", "ConfigRes"}, id : Node]
Msg == PutMsg \cup PutAllMsg \cup SetMsg \cup IdMsg

Put(n, x, y)   == [kind |-> "Put", id |-> n, x |-> x, y |-> y]
PutAll(n, row) == [kind |-> "PutAll", id |-> n, row |-> row]
Tell(kind, n)  == [kind |-> kind, id |-> n]

VARIABLES
    \* memory of the process, lost with it
    up,             \* is socket_io running on the device?
    GST,            \* GST[n][m]: the row of SIOD m in n's table
    IPT,            \* IPT[n][m]: the address n uses for SIOD m
    triggered,      \* PLCT.triggered
    scan,           \* the rule PLCexec is at; 0 in the select loop
    IVRSet_counter, \* 0, or the ticks since the last remote IVRSetReq
    fifo,           \* the last answer in /tmp/ivrfifo to an IVRSetReq
    \* the device
    wire,           \* the levels getgpio reads: relay feedback and inputs
    saved,          \* siod.@output[x].value in the configuration
    inRange,        \* does CheckTimeRange allow output changes now?
    \* the network
    net,            \* net[s][d]: the datagrams in flight from s to d
    \* history, read by no guard
    impersonated,   \* <<n, m>>: n broadcast a Put in the name of m
    disturbed       \* <<n, x>>: relay x of n moved without a completed setgpio

memory  == <<up, GST, IPT, triggered, scan, IVRSet_counter, fifo>>
device  == <<wire, saved, inRange>>
history == <<impersonated, disturbed>>
vars    == <<memory, device, net, history>>

TypeOK ==
    /\ up \in [Node -> BOOLEAN]
    /\ GST \in [Node -> [Node -> Row \cup {Unknown}]]
    /\ IPT \in [Node -> [Node -> Node \cup {Unknown}]]
    /\ triggered \in [Node -> [1 .. RULES_MAX -> BOOLEAN]]
    /\ scan \in [Node -> Nat]
    /\ \A n \in Node : scan[n] <= NumRules(n)
    /\ IVRSet_counter \in [Node -> 0 .. IVRSETTIMEOUT + 1]
    /\ fifo \in [Node -> {"none", "IVRSetRes", "IVRSetRes///",
                          "IVRSetRes/TimeRangeOut", "IVRGetRes"}]
    /\ wire \in [Node -> Row]
    /\ saved \in [Node -> [Outputs -> BOOLEAN]]
    /\ inRange \in [Node -> BOOLEAN]
    /\ net \in [Node -> [Node -> Seq(Msg)]]
    /\ impersonated \subseteq Node \X Node
    /\ disturbed \subseteq Node \X Outputs

-----------------------------------------------------------------------------
Init ==
    /\ up = [n \in Node |-> FALSE]
    /\ GST = [n \in Node |-> [m \in Node |-> Unknown]]
    /\ IPT = [n \in Node |-> [m \in Node |-> Unknown]]
    /\ triggered = [n \in Node |-> [k \in 1 .. RULES_MAX |-> FALSE]]
    /\ scan = [n \in Node |-> 0]
    /\ IVRSet_counter = [n \in Node |-> 0]
    /\ fifo = [n \in Node |-> "none"]
    /\ wire \in [Node -> Row]
    /\ saved = [n \in Node |-> [x \in Outputs |-> wire[n][x]]]
    /\ inRange \in [Node -> BOOLEAN]
    /\ net = [s \in Node |-> [d \in Node |-> <<>>]]
    /\ impersonated = {}
    /\ disturbed = {}

(***************************************************************************)
(* Sending.  A broadcast comes back to its sender, who ignores it, so it   *)
(* is put in flight to the others only.  Datagrams to an external client   *)
(* leave the model.                                                        *)
(***************************************************************************)
Broadcast(nt, n, msgs) ==
    [nt EXCEPT ![n] = [d \in Node |-> IF d = n THEN @[d] ELSE @[d] \o msgs]]

Unicast(nt, n, d, msg) == [nt EXCEPT ![n][d] = Append(@, msg)]

(* The network without the datagram that n is about to process.            *)
Taken(s, n) == [net EXCEPT ![s][n] = Tail(@)]

(* Mutant of IPTset: the search of the table takes any row for the one of  *)
(* the SIOD and overwrites it.                                             *)
IPTsetAnyRow(n, id, s) ==
    IPT' = [IPT EXCEPT ![n] =
               [m \in Node |-> IF m = id \/ @[m] # Unknown THEN s ELSE @[m]]]

IPTset(n, id, s) == IPT' = [IPT EXCEPT ![n][id] = s]

(***************************************************************************)
(* setgpio(X, Y) with one digit: pulse the relay, set the bit, save it.    *)
(* The index is checked with x > OUTPUTS_NUM, so 4 is accepted: it pulses  *)
(* relay 2, sets the bit of the first input, and has no uci section.       *)
(***************************************************************************)
setgpio(n, x, y) ==
    /\ wire' = [wire EXCEPT ![n][Relay(x)] = y]
    /\ GST' = [GST EXCEPT ![n][n][x] = y]
    /\ saved' = IF x \in Outputs THEN [saved EXCEPT ![n][x] = y] ELSE saved
    /\ disturbed' = IF x \in Outputs THEN disturbed \ {<<n, x>>}
                                     ELSE disturbed \cup {<<n, Relay(x)>>}
    /\ UNCHANGED inRange

(* Mutants of setgpioAll: nothing is written to the configuration; the row *)
(* is rebuilt from the outputs alone.                                      *)
setgpioAllUnsaved(n, ys) ==
    /\ wire' = [wire EXCEPT ![n] =
                   [x \in IO |-> IF x \in Outputs THEN ys[x] ELSE @[x]]]
    /\ GST' = [GST EXCEPT ![n][n] =
                   [x \in IO |-> IF x \in Outputs THEN ys[x] ELSE @[x]]]
    /\ disturbed' = disturbed \ ({n} \X Outputs)
    /\ UNCHANGED <<saved, inRange>>

setgpioAllBlank(n, ys) ==
    /\ wire' = [wire EXCEPT ![n] =
                   [x \in IO |-> IF x \in Outputs THEN ys[x] ELSE @[x]]]
    /\ GST' = [GST EXCEPT ![n][n] = [x \in IO |-> x \in Outputs /\ ys[x]]]
    /\ saved' = [saved EXCEPT ![n] = ys]
    /\ disturbed' = disturbed \ ({n} \X Outputs)
    /\ UNCHANGED inRange

(* setgpio("", YYYY): all the outputs.                                     *)
setgpioAll(n, ys) ==
    LET new == [x \in IO |-> IF x \in Outputs THEN ys[x] ELSE GST[n][n][x]]
    IN  /\ wire' = [wire EXCEPT ![n] =
                       [x \in IO |-> IF x \in Outputs THEN ys[x] ELSE @[x]]]
        /\ GST' = [GST EXCEPT ![n][n] = new]
        /\ saved' = [saved EXCEPT ![n] = ys]
        /\ disturbed' = disturbed \ ({n} \X Outputs)
        /\ UNCHANGED inRange

(* getgpio: read the lines xs, broadcast every input among them that       *)
(* changed, in the order of their numbers.  A relay feedback that differs  *)
(* overwrites the bit in silence.                                          *)
Report(n, x, xs) ==
    IF x \in Inputs \cap xs /\ wire[n][x] # GST[n][n][x]
    THEN <<Put(n, x, wire[n][x])>> ELSE <<>>

Reports(n, xs) ==
    Report(n, 4, xs) \o Report(n, 5, xs) \o Report(n, 6, xs) \o Report(n, 7, xs)

getgpio(n, xs) ==
    GST' = [GST EXCEPT ![n][n] =
               [x \in IO |-> IF x \in xs THEN wire[n][x] ELSE @[x]]]

(***************************************************************************)
(* main: the configuration is read, gpios_init samples the inputs and      *)
(* drives the saved outputs, and all lines are broadcast.                  *)
(***************************************************************************)
Boot(n) ==
    LET row == [x \in IO |-> IF x \in Outputs THEN saved[n][x] ELSE wire[n][x]]
    IN  /\ ~up[n]
        /\ up' = [up EXCEPT ![n] = TRUE]
        /\ wire' = [wire EXCEPT ![n] = row]
        /\ GST' = [GST EXCEPT ![n][n] = row]
        /\ net' = Broadcast(net, n, <<PutAll(n, row)>>)
        /\ disturbed' = disturbed \ ({n} \X Outputs)
        /\ UNCHANGED <<IPT, triggered, scan, IVRSet_counter, fifo,
                       saved, inRange, impersonated>>

(* Power loss or a killed process: all memory is gone, the device stays.   *)
Forget(n) ==
    /\ up' = [up EXCEPT ![n] = FALSE]
    /\ GST' = [GST EXCEPT ![n] = [m \in Node |-> Unknown]]
    /\ IPT' = [IPT EXCEPT ![n] = [m \in Node |-> Unknown]]
    /\ triggered' = [triggered EXCEPT ![n] = [k \in 1 .. RULES_MAX |-> FALSE]]
    /\ scan' = [scan EXCEPT ![n] = 0]
    /\ IVRSet_counter' = [IVRSet_counter EXCEPT ![n] = 0]
    /\ fifo' = [fifo EXCEPT ![n] = "none"]

Crash(n) ==
    /\ up[n]
    /\ Forget(n)
    /\ UNCHANGED <<device, net, history>>

(* The same while setgpio serves a client's Set: the relay has been pulsed *)
(* (and 100 ms slept), the configuration has not been committed yet.       *)
CrashInSetgpio(n, x, y) ==
    /\ up[n] /\ scan[n] = 0 /\ inRange[n]
    /\ x \in Outputs
    /\ wire' = [wire EXCEPT ![n][x] = y]
    /\ disturbed' = disturbed \cup {<<n, x>>}
    /\ Forget(n)
    /\ UNCHANGED <<saved, inRange, net, impersonated>>

-----------------------------------------------------------------------------
(* The surroundings: an input changes, a relay moves on its own (a fault,  *)
(* a manual switch), the clock enters or leaves the time range.            *)
Flip(n, x) ==
    /\ x \in Inputs
    /\ wire' = [wire EXCEPT ![n][x] = ~@]
    /\ UNCHANGED <<memory, saved, inRange, net, history>>

RelayFault(n, x) ==
    /\ x \in Outputs
    /\ wire' = [wire EXCEPT ![n][x] = ~@]
    /\ disturbed' = disturbed \cup {<<n, x>>}
    /\ UNCHANGED <<memory, saved, inRange, net, impersonated>>

WindowChange(n) ==
    /\ inRange' = [inRange EXCEPT ![n] = ~@]
    /\ UNCHANGED <<memory, wire, saved, net, history>>

(* The network: UDP loses a datagram, or delivers two in the other order;  *)
(* nothing listens on a device whose process is down.                      *)
Lose(s, d, i) ==
    /\ i \in 1 .. Len(net[s][d])
    /\ net' = [net EXCEPT ![s][d] = SubSeq(@, 1, i - 1) \o SubSeq(@, i + 1, Len(@))]
    /\ UNCHANGED <<memory, device, history>>

Overtake(s, d, i) ==
    /\ i \in 1 .. Len(net[s][d]) - 1
    /\ net' = [net EXCEPT ![s][d] = [@ EXCEPT ![i] = net[s][d][i + 1],
                                              ![i + 1] = net[s][d][i]]]
    /\ UNCHANGED <<memory, device, history>>

Unheard(s, d) ==
    /\ ~up[d]
    /\ net[s][d] # <<>>
    /\ net' = Taken(s, d)
    /\ UNCHANGED <<memory, device, history>>

-----------------------------------------------------------------------------
(***************************************************************************)
(* One turn of the select loop: datagram from s, the head of net[s][n].    *)
(***************************************************************************)
Idle(n) == up[n] /\ scan[n] = 0

Arrived(s, n, kinds) ==
    /\ Idle(n)
    /\ net[s][n] # <<>>
    /\ Head(net[s][n]).kind \in kinds

(* A Put in the receiver's own name changes nothing.                       *)
RecvPutOwn(s, n) ==
    /\ Arrived(s, n, {"Put", "PutAll"})
    /\ Head(net[s][n]).id = n
    /\ net' = Taken(s, n)
    /\ UNCHANGED <<memory, device, history>>

RecvPut(s, n) ==
    LET m == Head(net[s][n])
    IN  /\ Arrived(s, n, {"Put"})
        /\ m.id # n
        /\ IPTset(n, m.id, s)
        /\ GST' = IF GST[n][m.id] = Unknown THEN GST
                  ELSE [GST EXCEPT ![n][m.id][m.x] = m.y]
        /\ net' = Taken(s, n)
        /\ UNCHANGED <<up, triggered, scan, IVRSet_counter, fifo,
                       device, history>>

(* Mutants of RecvPutAll: a newcomer is not answered; everybody is; a row  *)
(* that is there is kept.                                                  *)
RecvPutAllWith(s, n, row, answer) ==
    LET m == Head(net[s][n])
    IN  /\ Arrived(s, n, {"PutAll"})
        /\ m.id # n
        /\ IPTset(n, m.id, s)
        /\ fifo' = IF IVRSet_counter[n] # 0
                   THEN [fifo EXCEPT ![n] = "IVRGetRes"] ELSE fifo
        /\ GST' = [GST EXCEPT ![n][m.id] = row]
        /\ net' = IF answer THEN Unicast(Taken(s, n), n, s, PutAll(n, GST[n][n]))
                            ELSE Taken(s, n)
        /\ UNCHANGED <<up, triggered, scan, IVRSet_counter, device, history>>

RecvPutAllSilent(s, n) ==
    net[s][n] # <<>> /\ RecvPutAllWith(s, n, Head(net[s][n]).row, FALSE)

RecvPutAllChatty(s, n) ==
    net[s][n] # <<>> /\ RecvPutAllWith(s, n, Head(net[s][n]).row, TRUE)

RecvPutAllKeeps(s, n) ==
    /\ Arrived(s, n, {"PutAll"})
    /\ LET old == GST[n][Head(net[s][n]).id]
       IN  IF old = Unknown THEN RecvPutAllWith(s, n, Head(net[s][n]).row, TRUE)
                            ELSE RecvPutAllWith(s, n, old, FALSE)

(* All lines: the row is added or replaced; a row that is new makes n send *)
(* its own lines to the source, and only then.                             *)
RecvPutAll(s, n) ==
    LET m == Head(net[s][n])
    IN  /\ Arrived(s, n, {"PutAll"})
        /\ m.id # n
        /\ IPTset(n, m.id, s)
        /\ fifo' = IF IVRSet_counter[n] # 0
                   THEN [fifo EXCEPT ![n] = "IVRGetRes"] ELSE fifo
        /\ GST' = [GST EXCEPT ![n][m.id] = m.row]
        /\ net' = IF GST[n][m.id] = Unknown
                  THEN Unicast(Taken(s, n), n, s, PutAll(n, GST[n][n]))
                  ELSE Taken(s, n)
        /\ UNCHANGED <<up, triggered, scan, IVRSet_counter, device, history>>

(* Mutant of RecvSet: the time range is not looked at.                     *)
RecvSetAnytime(s, n) ==
    LET m == Head(net[s][n])
    IN  /\ Arrived(s, n, {"Set"})
        /\ setgpio(n, m.x, m.y)
        /\ net' = Broadcast(Taken(s, n), n, <<Put(n, m.x, m.y)>>)
        /\ UNCHANGED <<up, IPT, triggered, scan, IVRSet_counter, fifo,
                       impersonated>>

(* Set/X/Y: n cannot tell whether it is the SIOD the sender meant.         *)
RecvSet(s, n) ==
    LET m == Head(net[s][n])
    IN  /\ Arrived(s, n, {"Set"})
        /\ IF inRange[n]
           THEN /\ setgpio(n, m.x, m.y)
                /\ net' = Broadcast(Taken(s, n), n, <<Put(n, m.x, m.y)>>)
           ELSE /\ net' = Unicast(Taken(s, n), n, s, Tell("TimeRangeOut", n))
                /\ UNCHANGED <<GST, device, disturbed>>
        /\ UNCHANGED <<up, IPT, triggered, scan, IVRSet_counter, fifo,
                       impersonated>>

(* TimeRangeOut, GSTCheckSum and ConfigRes: the address is remembered, the *)
(* check sum is compared for a log line and nothing else.                  *)
RecvTell(s, n) ==
    LET m == Head(net[s][n])
    IN  /\ Arrived(s, n, {"TimeRangeOut", "GSTCheckSum", "ConfigRes"})
        /\ IPTset(n, m.id, s)
        /\ net' = Taken(s, n)
        /\ UNCHANGED <<up, GST, triggered, scan, IVRSet_counter, fifo,
                       device, history>>

-----------------------------------------------------------------------------
(* The same loop, serving a client outside the mesh (the configuration PC, *)
(* or Asterisk on the device itself).                                      *)
ClientSet(n, x, y) ==
    /\ Idle(n)
    /\ inRange[n]           \* otherwise only the client hears TimeRangeOut
    /\ x \in SetX
    /\ setgpio(n, x, y)
    /\ net' = Broadcast(net, n, <<Put(n, x, y)>>)
    /\ UNCHANGED <<up, IPT, triggered, scan, IVRSet_counter, fifo, impersonated>>

(* Mutant of ClientSetAll: the Put is put together before the outputs are  *)
(* set.                                                                    *)
ClientSetAllEarly(n, ys) ==
    /\ Idle(n)
    /\ inRange[n]
    /\ ys \in [Outputs -> BOOLEAN]
    /\ net' = Broadcast(net, n, <<PutAll(n, GST[n][n])>>)
    /\ setgpioAll(n, ys)
    /\ UNCHANGED <<up, IPT, triggered, scan, IVRSet_counter, fifo, impersonated>>

ClientSetAll(n, ys) ==
    /\ Idle(n)
    /\ inRange[n]
    /\ ys \in [Outputs -> BOOLEAN]
    /\ setgpioAll(n, ys)
    /\ net' = Broadcast(net, n, <<PutAll(n, GST'[n][n])>>)
    /\ UNCHANGED <<up, IPT, triggered, scan, IVRSet_counter, fifo, impersonated>>

(* Get/X reads one line and Get/ all of them, which may announce an input  *)
(* change before PLCexec does.                                             *)
ClientGet(n, xs) ==
    /\ Idle(n)
    /\ xs = IO \/ \E x \in IO : xs = {x}
    /\ getgpio(n, xs)
    /\ net' = Broadcast(net, n, Reports(n, xs))
    /\ UNCHANGED <<up, IPT, triggered, scan, IVRSet_counter, fifo,
                   device, history>>

(* GSTCheckSumReq and ConfigReq are answered by a broadcast.               *)
ClientQuery(n, kind) ==
    /\ Idle(n)
    /\ kind \in {"GSTCheckSum", "ConfigRes"}
    /\ net' = Broadcast(net, n, <<Tell(kind, n)>>)
    /\ UNCHANGED <<memory, device, history>>

(* IVRSetReq/AAAA/X/Y for the SIOD itself is a Set that answers the IVR.   *)
IVRSetReqOwn(n, x, y) ==
    /\ Idle(n)
    /\ x \in Outputs
    /\ IF inRange[n]
       THEN /\ setgpio(n, x, y)
            /\ net' = Broadcast(net, n, <<Put(n, x, y)>>)
            /\ fifo' = [fifo EXCEPT ![n] = "IVRSetRes"]
       ELSE /\ fifo' = [fifo EXCEPT ![n] = "IVRSetRes/TimeRangeOut"]
            /\ UNCHANGED <<GST, device, disturbed, net>>
    /\ UNCHANGED <<up, IPT, triggered, scan, IVRSet_counter, impersonated>>

IVRSetReqUnknown(n, m) ==
    /\ Idle(n)
    /\ m # n /\ GST[n][m] = Unknown
    /\ fifo' = [fifo EXCEPT ![n] = "IVRSetRes///"]
    /\ UNCHANGED <<up, GST, IPT, triggered, scan, IVRSet_counter,
                   device, net, history>>

(* For another SIOD it broadcasts a Put in the name of that SIOD and       *)
(* starts the timer.  The IVR has taken the answers to its earlier         *)
(* requests out of the fifo.                                               *)
IVRSetReqRemote(n, m, x, y) ==
    /\ Idle(n)
    /\ m # n /\ GST[n][m] # Unknown
    /\ x \in Outputs
    /\ net' = Broadcast(net, n, <<Put(m, x, y)>>)
    /\ IVRSet_counter' = [IVRSet_counter EXCEPT ![n] = 1]
    /\ fifo' = [fifo EXCEPT ![n] = "none"]
    /\ impersonated' = impersonated \cup {<<n, m>>}
    /\ UNCHANGED <<up, GST, IPT, triggered, scan, device, disturbed>>

-----------------------------------------------------------------------------
(***************************************************************************)
(* The 100 ms timeout: PLCexec samples all lines, then walks the rules,    *)
(* one action per rule; IVRSetTimer runs after the last one.  Datagrams    *)
(* that arrive meanwhile wait, since Idle(n) does not hold.                *)
(***************************************************************************)
(* Mutant of IVRSetTimer: the timer never times out.                       *)
IVRSetTimerForever(c) == IF c = 0 THEN 0 ELSE c + 1

IVRSetTimer(c) ==
    IF c = 0 THEN 0 ELSE IF c > IVRSETTIMEOUT THEN 0 ELSE c + 1

Advance(n) ==
    IF scan[n] < NumRules(n)
    THEN /\ scan' = [scan EXCEPT ![n] = @ + 1]
         /\ UNCHANGED IVRSet_counter
    ELSE /\ scan' = [scan EXCEPT ![n] = 0]
         /\ IVRSet_counter' = [IVRSet_counter EXCEPT ![n] = IVRSetTimer(@)]

Tick(n) ==
    /\ Idle(n)
    /\ getgpio(n, IO)
    /\ net' = Broadcast(net, n, Reports(n, IO))
    /\ Advance(n)
    /\ UNCHANGED <<up, IPT, triggered, fifo, device, history>>

ThisRule(n) == Rules[n][scan[n]]

Known(n) == GST[n][ThisRule(n).id2] # Unknown /\ GST[n][ThisRule(n).id3] # Unknown

(* Mutant of Holds: the connector of the rule is ignored.                  *)
HoldsBoth(n) ==
    LET r == ThisRule(n)
    IN  GST[n][r.id2][r.x2] = r.y2 /\ GST[n][r.id3][r.x3] = r.y3

Holds(n) ==
    LET r == ThisRule(n)
        first  == GST[n][r.id2][r.x2] = r.y2
        second == GST[n][r.id3][r.x3] = r.y3
    IN  IF r.conn = "or" THEN first \/ second ELSE first /\ second

(* The rule names a SIOD without a row (it is not even rearmed), or it has *)
(* already triggered.                                                      *)
PLCSkip(n) ==
    /\ up[n] /\ scan[n] # 0
    /\ Known(n) => Holds(n) /\ triggered[n][scan[n]]
    /\ Advance(n)
    /\ UNCHANGED <<up, GST, IPT, triggered, fifo, device, net, history>>

PLCRearm(n) ==
    /\ up[n] /\ scan[n] # 0
    /\ Known(n) /\ ~Holds(n)
    /\ triggered' = [triggered EXCEPT ![n][scan[n]] = FALSE]
    /\ Advance(n)
    /\ UNCHANGED <<up, GST, IPT, fifo, device, net, history>>

Fires(n) ==
    /\ up[n] /\ scan[n] # 0
    /\ Known(n) /\ Holds(n) /\ ~triggered[n][scan[n]]
    /\ triggered' = [triggered EXCEPT ![n][scan[n]] = TRUE]
    /\ Advance(n)

(* The own output is set without a look at the time range.                 *)
PLCFireLocal(n) ==
    LET r == ThisRule(n)
    IN  /\ Fires(n)
        /\ r.id1 = n
        /\ setgpio(n, r.x1, r.y1)
        /\ net' = Broadcast(net, n, <<Put(n, r.x1, r.y1)>>)
        /\ UNCHANGED <<up, IPT, fifo, impersonated>>

(* Mutant of PLCFireRemote: the Set is broadcast, as a Put is.             *)
PLCFireEverywhere(n) ==
    LET r == ThisRule(n)
    IN  /\ Fires(n)
        /\ r.id1 # n /\ IPT[n][r.id1] # Unknown
        /\ net' = Broadcast(net, n, <<[kind |-> "Set", x |-> r.x1, y |-> r.y1,
                                       aim |-> r.id1]>>)
        /\ UNCHANGED <<up, GST, IPT, fifo, device, history>>

PLCFireRemote(n) ==
    LET r == ThisRule(n)
    IN  /\ Fires(n)
        /\ r.id1 # n /\ IPT[n][r.id1] # Unknown
        /\ net' = Unicast(net, n, IPT[n][r.id1],
                          [kind |-> "Set", x |-> r.x1, y |-> r.y1, aim |-> r.id1])
        /\ UNCHANGED <<up, GST, IPT, fifo, device, history>>

(* No address for the target: a log line, and the rule has triggered.      *)
PLCFireNowhere(n) ==
    /\ Fires(n)
    /\ ThisRule(n).id1 # n /\ IPT[n][ThisRule(n).id1] = Unknown
    /\ UNCHANGED <<up, GST, IPT, fifo, device, net, history>>

-----------------------------------------------------------------------------
Receive(s, n) == \/ RecvPutOwn(s, n) \/ RecvPut(s, n) \/ RecvPutAll(s, n)
                 \/ RecvSet(s, n) \/ RecvTell(s, n)

PLCStep(n) == \/ PLCSkip(n) \/ PLCRearm(n)
              \/ PLCFireLocal(n) \/ PLCFireRemote(n) \/ PLCFireNowhere(n)

Process(n) ==
    \/ \E s \in Node \ {n} : Receive(s, n)
    \/ Tick(n)
    \/ PLCStep(n)

Client(n) ==
    \/ \E x \in SetX, y \in BOOLEAN : ClientSet(n, x, y)
    \/ \E ys \in [Outputs -> BOOLEAN] : ClientSetAll(n, ys)
    \/ \E xs \in {IO} \cup {{x} : x \in IO} : ClientGet(n, xs)
    \/ \E kind \in {"GSTCheckSum", "ConfigRes"} : ClientQuery(n, kind)

IVR(n) ==
    \/ \E x \in Outputs, y \in BOOLEAN : IVRSetReqOwn(n, x, y)
    \/ \E m \in Node : IVRSetReqUnknown(n, m)
    \/ \E m \in Node, x \in Outputs, y \in BOOLEAN : IVRSetReqRemote(n, m, x, y)

Failure(n) ==
    \/ Crash(n)
    \/ \E x \in Outputs, y \in BOOLEAN : CrashInSetgpio(n, x, y)

Surroundings(n) ==
    \/ \E x \in Inputs : Flip(n, x)
    \/ WindowChange(n)

Network(s, d) ==
    \/ \E i \in 1 .. Len(net[s][d]) : Lose(s, d, i) \/ Overtake(s, d, i)
    \/ Unheard(s, d)

Next ==
    \/ \E n \in Node : \/ Boot(n)
                       \/ Process(n)
                       \/ Client(n)
                       \/ IVR(n)
                       \/ Failure(n)
                       \/ Surroundings(n)
                       \/ \E x \in Outputs : RelayFault(n, x)
    \/ \E s, d \in Node : Network(s, d)

Spec == Init /\ [][Next]_vars

-----------------------------------------------------------------------------
(* Safety.                                                                 *)

(* The IPT of a SIOD holds, for every other SIOD, that SIOD's own address  *)
(* or the address of one that spoke in its name (IVRSetReq).               *)
AddressTable ==
    \A n, m \in Node : \/ IPT[n][m] \in {Unknown, m}
                       \/ <<IPT[n][m], m>> \in impersonated

(* A Set carries no SIOD id, so it acts wherever it arrives: it is on its  *)
(* way to the SIOD that the PLC rule names, or to one that spoke in the    *)
(* name of that SIOD.                                                      *)
SetReachesTarget ==
    \A s, d \in Node : \A i \in 1 .. Len(net[s][d]) :
        net[s][d][i].kind = "Set" =>
            \/ net[s][d][i].aim = d
            \/ <<d, net[s][d][i].aim>> \in impersonated

(* Relay, configuration and own GST row agree on every output, unless a    *)
(* setgpio for it was cut short or the relay moved on its own: no message, *)
(* restart or PLC rule makes them drift apart.                             *)
RelayAgrees ==
    \A n \in Node, x \in Outputs :
        <<n, x>> \notin disturbed =>
            /\ wire[n][x] = saved[n][x]
            /\ up[n] => GST[n][n][x] = wire[n][x]

(* The GST is a map of the mesh: with ordered, lossless delivery a row     *)
(* that differs from its owner's is corrected by the last datagram in      *)
(* flight that speaks of the line.                                         *)
SpeaksOf(q, i, m, x) ==
    /\ q[i].kind \in {"Put", "PutAll"}
    /\ q[i].id = m
    /\ q[i].kind = "Put" => q[i].x = x

StaleOnlyInFlight ==
    \A m, n \in Node : \A x \in IO :
        m # n /\ up[m] /\ up[n] =>
            LET q == net[m][n]
                about == {i \in 1 .. Len(q) : SpeaksOf(q, i, m, x)}
            IN  IF about = {}
                THEN GST[n][m] # Unknown => GST[n][m][x] = GST[m][m][x]
                ELSE \A i \in about : (\A j \in about : j <= i) =>
                        GST[m][m][x] = IF q[i].kind = "Put"
                                       THEN q[i].y ELSE q[i].row[x]

(* "initial SIOD startup is detected: we send our local gpios so the newly *)
(* started SIOD updates its GST" (lines 1144-1145): when n has the row of  *)
(* m and nothing is in flight between them, m has the row of n.            *)
NewcomerAnswered ==
    \A n, m \in Node :
        /\ up[n] /\ up[m] /\ GST[n][m] # Unknown
        /\ net[n][m] = <<>> /\ net[m][n] = <<>>
        => GST[m][n] # Unknown

(* "IP address we can use to send message to this SIOD" (line 64).         *)
AddressesCorrect == \A n, m \in Node : IPT[n][m] \in {Unknown, m}

(* Action property: while the process runs, an input bit of the own row    *)
(* only ever takes the level of its pin; Set reaches outputs only ("number *)
(* of an output [0, 1, .. 3]", line 811).                                  *)
InputBitsAreRead ==
    [][\A n \in Node, x \in Inputs :
          up[n] /\ up'[n] /\ GST'[n][n][x] # GST[n][n][x]
            => GST'[n][n][x] = wire[n][x]]_vars

(* "If the target SIOD has a time range specified then the rule output can *)
(* be updated only within this time range" (lines 882-883): a relay moves  *)
(* inside the time range only, except at startup and on its own.           *)
OutputsOnlyInRange ==
    [][\A n \in Node, x \in Outputs :
          up[n] /\ up'[n] /\ wire'[n][x] # wire[n][x]
            => inRange[n] \/ <<n, x>> \in disturbed']_vars

-----------------------------------------------------------------------------
(* Liveness.                                                               *)

(* Once the surroundings are calm the mesh falls silent: discovery answers *)
(* and PLC rules do not feed on each other.                                *)
FallsSilent == <>[](\A s, d \in Node : net[s][d] = <<>>)

(* "GST should stay in sync for all SIODs" (line 1102): in the end every   *)
(* SIOD has the row of every SIOD as its owner has it, and the inputs in   *)
(* it are the levels of the pins.                                          *)
EventuallyInSync ==
    <>[](\A n, m \in Node :
            /\ up[m] /\ GST[n][m] = GST[m][m]
            /\ \A x \in Inputs : GST[m][m][x] = wire[m][x])

RuleHolds(n, r) ==
    /\ up[n] /\ GST[n][r.id2] # Unknown /\ GST[n][r.id3] # Unknown
    /\ LET first  == GST[n][r.id2][r.x2] = r.y2
           second == GST[n][r.id3][r.x3] = r.y3
       IN  IF r.conn = "or" THEN first \/ second ELSE first /\ second

(* A rule whose condition stays true moves the output of its target, if it *)
(* had an address for the target before it triggered.                      *)
RuleTakesEffect ==
    \A n \in Node : \A k \in 1 .. NumRules(n) :
        LET r == Rules[n][k]
        IN  (/\ ~triggered[n][k]
             /\ r.id1 = n \/ IPT[n][r.id1] # Unknown
             /\ [](RuleHolds(n, r) /\ inRange[r.id1]))
            ~> (wire[r.id1][r.x1] = r.y1)

(* "broadcasts Set message and if it gets a Put message sends IVRSetRes to *)
(* the IVR" (line 1388).                                                   *)
IVRSetAnswered ==
    \A n \in Node : (IVRSet_counter[n] = 1) ~> (fifo[n] = "IVRSetRes")
=============================================================================
