--------------------------- MODULE SIODMeshProofs ---------------------------
(* Theorems about SIODMesh, for every mesh, every set of rules and every   *)
(* choice of watched lines.                                                *)
EXTENDS SIODMesh, SequenceTheorems, TLAPS

-----------------------------------------------------------------------------
(* The operators the actions are built from.                               *)

(* For a real output number, setgpio pulses the relay of that number.      *)
LEMMA RelayOfOutput == \A x \in Outputs : Relay(x) = x
  <1> SUFFICES ASSUME NEW x \in Outputs PROVE Relay(x) = x
    OBVIOUS
  <1>1. x \in 0..3
    BY LinesAssumption
  <1>2. x = 0 \/ x = 1 \/ x = 2 \/ x = 3
    BY <1>1
  <1> QED
    BY <1>2 DEF Relay

(* Broadcasting sequences of messages of M keeps channels in Seq(M).       *)
LEMMA BroadcastType ==
  ASSUME NEW M, NEW nt \in [Node -> [Node -> Seq(M)]], NEW n \in Node, NEW msgs \in Seq(M)
  PROVE  Broadcast(nt, n, msgs) \in [Node -> [Node -> Seq(M)]]
  BY DEF Broadcast

LEMMA UnicastType ==
  ASSUME NEW M, NEW nt \in [Node -> [Node -> Seq(M)]], NEW n \in Node, NEW d \in Node,
         NEW msg \in M
  PROVE  Unicast(nt, n, d, msg) \in [Node -> [Node -> Seq(M)]]
  BY DEF Unicast

LEMMA TakenType ==
  ASSUME NEW M, net \in [Node -> [Node -> Seq(M)]], NEW s \in Node, NEW n \in Node,
         net[s][n] # <<>>
  PROVE  /\ Taken(s, n) \in [Node -> [Node -> Seq(M)]]
         /\ Head(net[s][n]) \in M
  BY DEF Taken

(* setgpio of a line a Set may name, and of all outputs.                   *)
OwnRow == \A n \in Node : up[n] => GST[n][n] # Unknown

GSTType  == /\ GST \in [Node -> [Node -> Row \cup {Unknown}]]
            /\ OwnRow
PinsType == /\ wire \in [Node -> Row]
            /\ saved \in [Node -> [Outputs -> BOOLEAN]]
            /\ inRange \in [Node -> BOOLEAN]
            /\ disturbed \subseteq Node \X Outputs

LEMMA SetgpioType ==
  ASSUME GSTType, PinsType, UNCHANGED up,
         NEW n \in Node, up[n], NEW x \in IO, x \in Outputs \/ x \in SetX,
         NEW y \in BOOLEAN, setgpio(n, x, y)
  PROVE  GSTType' /\ PinsType'
  <1>1. Relay(x) \in Outputs /\ Relay(x) \in IO
    BY RelayOfOutput, LinesAssumption DEF IO
  <1>2. GST[n][n] \in Row
    BY DEF GSTType, OwnRow
  <1>3. [GST[n][n] EXCEPT ![x] = y] \in Row /\ [GST[n][n] EXCEPT ![x] = y] # Unknown
    BY <1>2, UnknownAssumption DEF Row
  <1>4. GSTType'
    BY <1>3 DEF GSTType, OwnRow, setgpio
  <1>5. wire' \in [Node -> Row]
    BY <1>1 DEF PinsType, setgpio, Row
  <1>6. PinsType'
    BY <1>1, <1>5 DEF PinsType, setgpio
  <1> QED
    BY <1>4, <1>6

LEMMA SetgpioAllType ==
  ASSUME GSTType, PinsType, UNCHANGED up,
         NEW n \in Node, up[n], NEW ys \in [Outputs -> BOOLEAN], setgpioAll(n, ys)
  PROVE  GSTType' /\ PinsType' /\ GST'[n][n] \in Row
  <1> DEFINE new == [x \in IO |-> IF x \in Outputs THEN ys[x] ELSE GST[n][n][x]]
             pins == [x \in IO |-> IF x \in Outputs THEN ys[x] ELSE wire[n][x]]
  <1>1. GST[n][n] \in Row
    BY DEF GSTType, OwnRow
  <1>2. new \in Row /\ new # Unknown
    BY <1>1, UnknownAssumption DEF Row
  <1>3. pins \in Row
    BY DEF PinsType, Row
  <1>4. GST' = [GST EXCEPT ![n][n] = new] /\ wire' = [wire EXCEPT ![n] = pins]
    BY DEF setgpioAll
  <1>5. GSTType' /\ GST'[n][n] \in Row
    <2> HIDE DEF new
    <2> QED BY <1>2, <1>4 DEF GSTType, OwnRow
  <1>6. PinsType'
    <2>1. wire' \in [Node -> Row]
      <3> HIDE DEF pins
      <3> QED BY <1>3, <1>4 DEF PinsType
    <2> QED BY <2>1 DEF PinsType, setgpioAll
  <1> QED
    BY <1>5, <1>6

(* getgpio copies levels into the own row.                                 *)
LEMMA GetgpioType ==
  ASSUME GSTType, PinsType, UNCHANGED up,
         NEW n \in Node, up[n], NEW xs \in SUBSET IO, getgpio(n, xs)
  PROVE  GSTType'
  <1> DEFINE new == [x \in IO |-> IF x \in xs THEN wire[n][x] ELSE GST[n][n][x]]
  <1>1. GST[n][n] \in Row /\ wire[n] \in Row
    BY DEF GSTType, OwnRow, PinsType
  <1>2. new \in Row /\ new # Unknown
    BY <1>1, UnknownAssumption DEF Row
  <1>3. GST' = [GST EXCEPT ![n][n] = new]
    BY DEF getgpio
  <1> HIDE DEF new
  <1> QED
    BY <1>2, <1>3 DEF GSTType, OwnRow

(* Its reports are Puts of the SIOD itself.                                *)
LEMMA ReportsType ==
  ASSUME PinsType, NEW n \in Node, NEW xs \in SUBSET IO, NEW M,
         \A x \in IO, y \in BOOLEAN : Put(n, x, y) \in M
  PROVE  Reports(n, xs) \in Seq(M)
  <1>1. \A x : Report(n, x, xs) \in Seq(M)
    BY DEF Report, PinsType, Row, IO
  <1> QED
    BY <1>1 DEF Reports

(* What PLCexec finds when it is at a rule.                                *)
LEMMA RulesLength == \A m \in Node : NumRules(m) \in Nat
  <1> SUFFICES ASSUME NEW m \in Node PROVE NumRules(m) \in Nat
    OBVIOUS
  <1>1. Rules[m] \in Seq(Rule)
    BY RulesAssumption
  <1> QED
    BY <1>1 DEF NumRules

LEMMA ThisRuleType ==
  ASSUME TypeOK, NEW n \in Node, scan[n] # 0
  PROVE  /\ ThisRule(n) \in Rule
         /\ scan[n] \in 1 .. RULES_MAX
  <1>1. scan[n] \in 1 .. NumRules(n)
    BY RulesLength DEF TypeOK
  <1>2. ThisRule(n) \in Rule
    <2>1. Rules[n] \in Seq(Rule) /\ scan[n] \in 1 .. Len(Rules[n])
      BY <1>1, RulesAssumption DEF NumRules
    <2> QED
      BY <2>1 DEF ThisRule
  <1> QED
    BY <1>1, <1>2, RulesLength, RulesAssumption DEF RULES_MAX

LEMMA AdvanceType ==
  ASSUME TypeOK, NEW n \in Node, Advance(n)
  PROVE  /\ scan' \in [Node -> Nat]
         /\ \A m \in Node : scan'[m] <= NumRules(m)
         /\ IVRSet_counter' \in [Node -> 0 .. IVRSETTIMEOUT + 1]
  <1>0. \A m \in Node : NumRules(m) \in Nat
    BY RulesLength
  <1>1. scan' \in [Node -> Nat] /\ \A m \in Node : scan'[m] <= NumRules(m)
    <2>1. scan \in [Node -> Nat] /\ \A m \in Node : scan[m] <= NumRules(m)
      BY DEF TypeOK
    <2>2. CASE scan[n] < NumRules(n)
      <3>1. scan' = [scan EXCEPT ![n] = scan[n] + 1]
        BY <2>2 DEF Advance
      <3>2. scan[n] + 1 \in Nat /\ scan[n] + 1 <= NumRules(n)
        BY <1>0, <2>1, <2>2
      <3> QED
        BY <2>1, <3>1, <3>2
    <2>3. CASE ~(scan[n] < NumRules(n))
      <3>1. scan' = [scan EXCEPT ![n] = 0]
        BY <2>3 DEF Advance
      <3> QED
        BY <1>0, <2>1, <3>1
    <2> QED
      BY <2>2, <2>3
  <1>2. IVRSetTimer(IVRSet_counter[n]) \in 0 .. IVRSETTIMEOUT + 1
    BY TimeoutAssumption DEF TypeOK, IVRSetTimer
  <1>3. IVRSet_counter' \in [Node -> 0 .. IVRSETTIMEOUT + 1]
    BY <1>2 DEF TypeOK, Advance
  <1> QED
    BY <1>1, <1>3

-----------------------------------------------------------------------------
(* Type correctness.  The type of a step depends on the own row being      *)
(* there while the process runs, so the two are proved together.           *)
Typed == TypeOK /\ OwnRow

LEMMA TypedParts == Typed => GSTType /\ PinsType
  BY DEF Typed, TypeOK, GSTType, PinsType

LEMMA PutTypes ==
  /\ \A n \in Node, x \in IO, y \in BOOLEAN : Put(n, x, y) \in Msg
  /\ \A n \in Node, row \in Row : PutAll(n, row) \in Msg
  /\ \A n \in Node, kind \in {"TimeRangeOut", "GSTCheckSum", "ConfigRes"} :
        Tell(kind, n) \in Msg
  BY DEF Put, PutAll, Tell, Msg, PutMsg, PutAllMsg, IdMsg

LEMMA HeadTypes ==
  ASSUME Typed, NEW s \in Node, NEW n \in Node, net[s][n] # <<>>
  PROVE  LET m == Head(net[s][n])
         IN  /\ Taken(s, n) \in [Node -> [Node -> Seq(Msg)]]
             /\ m.kind = "Put" => m \in PutMsg
             /\ m.kind = "PutAll" => m \in PutAllMsg
             /\ m.kind = "Set" => m \in SetMsg
             /\ m.kind \in {"TimeRangeOut", "GSTCheckSum", "ConfigRes"} => m \in IdMsg
  <1>1. net \in [Node -> [Node -> Seq(Msg)]]
    BY DEF Typed, TypeOK
  <1>2. Taken(s, n) \in [Node -> [Node -> Seq(Msg)]] /\ Head(net[s][n]) \in Msg
    BY <1>1, TakenType
  <1> QED
    BY <1>2 DEF Msg, PutMsg, PutAllMsg, SetMsg, IdMsg

LEMMA InitTyped == Init => Typed
  <1> SUFFICES ASSUME Init PROVE Typed
    OBVIOUS
  <1>1. TypeOK
    <2>1. \A n \in Node : scan[n] <= NumRules(n)
      <3> SUFFICES ASSUME NEW n \in Node PROVE scan[n] <= NumRules(n)
        OBVIOUS
      <3>1. scan[n] = 0
        BY DEF Init
      <3>2. NumRules(n) \in Nat
        BY RulesLength
      <3> QED
        BY <3>1, <3>2
    <2>2. saved \in [Node -> [Outputs -> BOOLEAN]]
      <3>1. \A n \in Node : [x \in Outputs |-> wire[n][x]] \in [Outputs -> BOOLEAN]
        BY DEF Init, Row, IO
      <3> QED
        BY <3>1 DEF Init
    <2>3. IVRSet_counter \in [Node -> 0 .. IVRSETTIMEOUT + 1]
      BY TimeoutAssumption DEF Init
    <2>4. triggered \in [Node -> [1 .. RULES_MAX -> BOOLEAN]]
      BY DEF Init
    <2>5. net \in [Node -> [Node -> Seq(Msg)]]
      BY DEF Init
    <2> QED
      BY <2>1, <2>2, <2>3, <2>4, <2>5 DEF Init, TypeOK
  <1>2. OwnRow
    BY DEF Init, OwnRow
  <1> QED
    BY <1>1, <1>2 DEF Typed

(* A step that only takes a message off, or touches the surroundings.      *)
LEMMA NetworkTyped ==
  ASSUME Typed, NEW s \in Node, NEW d \in Node, Network(s, d)
  PROVE  Typed'
  <1> USE DEF Typed, TypeOK, OwnRow, memory, device, history
  <1>1. ASSUME NEW i \in 1 .. Len(net[s][d]), Lose(s, d, i)
        PROVE  Typed'
    <2>1. net[s][d] \in Seq(Msg)
      OBVIOUS
    <2>2. SubSeq(net[s][d], 1, i - 1) \in Seq(Msg)
          /\ SubSeq(net[s][d], i + 1, Len(net[s][d])) \in Seq(Msg)
      BY <2>1
    <2>3. net' \in [Node -> [Node -> Seq(Msg)]]
      BY <1>1, <2>2 DEF Lose
    <2> QED
      BY <1>1, <2>3 DEF Lose
  <1>2. ASSUME NEW i \in 1 .. Len(net[s][d]), Overtake(s, d, i)
        PROVE  Typed'
    <2> DEFINE q == net[s][d]
               swapped == [q EXCEPT ![i] = q[i + 1], ![i + 1] = q[i]]
    <2>1. q \in Seq(Msg) /\ i \in 1 .. Len(q) - 1
      BY <1>2 DEF Overtake
    <2>2. swapped \in Seq(Msg)
      BY <2>1
    <2>3. net' = [net EXCEPT ![s][d] = swapped]
      BY <1>2 DEF Overtake
    <2>4. net' \in [Node -> [Node -> Seq(Msg)]]
      <3> HIDE DEF swapped
      <3> QED BY <2>2, <2>3
    <2> QED
      BY <1>2, <2>4 DEF Overtake
  <1>3. CASE Unheard(s, d)
    <2>1. net' \in [Node -> [Node -> Seq(Msg)]]
      BY <1>3, HeadTypes DEF Unheard
    <2> QED
      BY <1>3, <2>1 DEF Unheard
  <1> QED
    BY <1>1, <1>2, <1>3 DEF Network

LEMMA ForgetTyped ==
  ASSUME Typed, NEW n \in Node, Forget(n), UNCHANGED <<saved, inRange, net>>,
         wire' \in [Node -> Row], disturbed' \subseteq Node \X Outputs,
         UNCHANGED impersonated
  PROVE  Typed'
  <1> DEFINE none == [m \in Node |-> Unknown]
  <1>1. none \in [Node -> Row \cup {Unknown}] /\ none \in [Node -> Node \cup {Unknown}]
    OBVIOUS
  <1>2. /\ GST' = [GST EXCEPT ![n] = none] /\ IPT' = [IPT EXCEPT ![n] = none]
        /\ up' = [up EXCEPT ![n] = FALSE] /\ scan' = [scan EXCEPT ![n] = 0]
    BY DEF Forget
  <1>3. /\ GST' \in [Node -> [Node -> Row \cup {Unknown}]]
        /\ IPT' \in [Node -> [Node -> Node \cup {Unknown}]]
        /\ OwnRow'
    <2> HIDE DEF none
    <2> QED BY <1>1, <1>2 DEF Typed, TypeOK, OwnRow
  <1>4. triggered' \in [Node -> [1 .. RULES_MAX -> BOOLEAN]]
    BY DEF Typed, TypeOK, Forget
  <1>5. scan' \in [Node -> Nat] /\ \A m \in Node : scan'[m] <= NumRules(m)
    BY <1>2, RulesLength DEF Typed, TypeOK
  <1>6. IVRSet_counter' \in [Node -> 0 .. IVRSETTIMEOUT + 1]
    BY TimeoutAssumption DEF Typed, TypeOK, Forget
  <1>7. up' \in [Node -> BOOLEAN] /\ fifo' \in [Node -> {"none", "IVRSetRes",
           "IVRSetRes///", "IVRSetRes/TimeRangeOut", "IVRGetRes"}]
    BY DEF Typed, TypeOK, Forget
  <1> QED
    BY <1>3, <1>4, <1>5, <1>6, <1>7 DEF Typed, TypeOK

LEMMA FailureTyped ==
  ASSUME Typed, NEW n \in Node, Failure(n)
  PROVE  Typed'
  <1>1. CASE Crash(n)
    BY <1>1, ForgetTyped DEF Crash, device, history, Typed, TypeOK
  <1>2. ASSUME NEW x \in Outputs, NEW y \in BOOLEAN, CrashInSetgpio(n, x, y)
        PROVE  Typed'
    <2>1. wire' \in [Node -> Row]
      BY <1>2 DEF CrashInSetgpio, Typed, TypeOK, Row, IO
    <2>2. disturbed' \subseteq Node \X Outputs
      BY <1>2 DEF CrashInSetgpio, Typed, TypeOK
    <2> QED
      BY <1>2, <2>1, <2>2, ForgetTyped DEF CrashInSetgpio
  <1> QED
    BY <1>1, <1>2 DEF Failure

LEMMA SurroundingsTyped ==
  ASSUME Typed, NEW n \in Node,
         Surroundings(n) \/ \E x \in Outputs : RelayFault(n, x)
  PROVE  Typed'
  <1>1. /\ UNCHANGED <<memory, saved, net, impersonated>>
        /\ wire' \in [Node -> Row]
        /\ inRange' \in [Node -> BOOLEAN]
        /\ disturbed' \subseteq Node \X Outputs
    <2>1. ASSUME NEW x \in IO, wire' = [wire EXCEPT ![n][x] = ~@]
          PROVE  wire' \in [Node -> Row]
      <3>1. wire[n] \in [IO -> BOOLEAN] /\ (~wire[n][x]) \in BOOLEAN
        BY DEF Typed, TypeOK, Row
      <3>2. [wire[n] EXCEPT ![x] = ~@] \in Row
        BY <3>1 DEF Row
      <3>3. wire' = [wire EXCEPT ![n] = [wire[n] EXCEPT ![x] = ~@]]
        BY <2>1
      <3> QED
        BY <3>2, <3>3 DEF Typed, TypeOK
    <2>2. ASSUME NEW x \in Inputs, Flip(n, x) PROVE <1>1!:
      BY <2>1, <2>2 DEF Flip, IO, history, Typed, TypeOK
    <2>3. CASE WindowChange(n)
      <3>1. inRange' \in [Node -> BOOLEAN]
        BY <2>3 DEF WindowChange, Typed, TypeOK
      <3> QED
        BY <2>3, <3>1 DEF WindowChange, history, Typed, TypeOK
    <2>4. ASSUME NEW x \in Outputs, RelayFault(n, x) PROVE <1>1!:
      <3>1. wire' \in [Node -> Row]
        BY <2>1, <2>4 DEF RelayFault, IO
      <3>2. disturbed' \subseteq Node \X Outputs
        BY <2>4 DEF RelayFault, Typed, TypeOK
      <3>3. inRange' \in [Node -> BOOLEAN]
        BY <2>4 DEF RelayFault, Typed, TypeOK
      <3> QED
        BY <2>4, <3>1, <3>2, <3>3 DEF RelayFault
    <2> QED
      BY <2>2, <2>3, <2>4 DEF Surroundings
  <1> QED
    BY <1>1 DEF Typed, TypeOK, OwnRow, memory

LEMMA BootTyped ==
  ASSUME Typed, NEW n \in Node, Boot(n)
  PROVE  Typed'
  <1> DEFINE row == [x \in IO |-> IF x \in Outputs THEN saved[n][x] ELSE wire[n][x]]
  <1>1. row \in Row
    BY DEF Typed, TypeOK, Row
  <1>2. row # Unknown
    BY <1>1, UnknownAssumption
  <1>3. PutAll(n, row) \in Msg
    <2> HIDE DEF row
    <2> QED BY <1>1, PutTypes
  <1>4. /\ up' = [up EXCEPT ![n] = TRUE]
        /\ GST' = [GST EXCEPT ![n][n] = row]
        /\ wire' = [wire EXCEPT ![n] = row]
        /\ net' = Broadcast(net, n, <<PutAll(n, row)>>)
        /\ disturbed' = disturbed \ ({n} \X Outputs)
        /\ UNCHANGED <<IPT, triggered, scan, IVRSet_counter, fifo,
                       saved, inRange, impersonated>>
    BY DEF Boot
  <1> HIDE DEF row
  <1>5. net' \in [Node -> [Node -> Seq(Msg)]]
    <2>1. <<PutAll(n, row)>> \in Seq(Msg)
      BY <1>3
    <2> QED
      BY <1>4, <2>1, BroadcastType DEF Typed, TypeOK
  <1>6. /\ GST' \in [Node -> [Node -> Row \cup {Unknown}]]
        /\ wire' \in [Node -> Row]
        /\ OwnRow'
    BY <1>1, <1>2, <1>4 DEF Typed, TypeOK, OwnRow
  <1> QED
    BY <1>4, <1>5, <1>6 DEF Typed, TypeOK

LEMMA SingleType ==
  ASSUME NEW M, NEW m \in M
  PROVE  <<m>> \in Seq(M)
  OBVIOUS

(* The datagrams processed by the select loop.                             *)
LEMMA ReceiveTyped ==
  ASSUME Typed, NEW n \in Node, NEW s \in Node, Receive(s, n)
  PROVE  Typed'
  <1> DEFINE m == Head(net[s][n])
  <1>0. /\ net[s][n] # <<>> /\ up[n]
        /\ Taken(s, n) \in [Node -> [Node -> Seq(Msg)]]
        /\ m.kind = "Put" => m \in PutMsg
        /\ m.kind = "PutAll" => m \in PutAllMsg
        /\ m.kind = "Set" => m \in SetMsg
        /\ m.kind \in {"TimeRangeOut", "GSTCheckSum", "ConfigRes"} => m \in IdMsg
    <2>1. net[s][n] # <<>> /\ up[n]
      BY DEF Receive, RecvPutOwn, RecvPut, RecvPutAll, RecvSet, RecvTell, Arrived, Idle
    <2> QED
      BY <2>1, HeadTypes
  <1>1. ASSUME NEW id \in Node, IPTset(n, id, s)
        PROVE  IPT' \in [Node -> [Node -> Node \cup {Unknown}]]
    BY <1>1 DEF IPTset, Typed, TypeOK
  <1>2. CASE RecvPutOwn(s, n)
    BY <1>0, <1>2 DEF RecvPutOwn, memory, device, history, Typed, TypeOK, OwnRow
  <1>3. CASE RecvPut(s, n)
    <2>1. m \in PutMsg /\ m.id # n
      BY <1>0, <1>3 DEF RecvPut, Arrived
    <2>2. IPT' \in [Node -> [Node -> Node \cup {Unknown}]]
      BY <1>1, <1>3, <2>1 DEF RecvPut, PutMsg
    <2>3. GST' \in [Node -> [Node -> Row \cup {Unknown}]] /\ OwnRow'
      <3>1. CASE GST[n][m.id] = Unknown
        BY <1>3, <3>1 DEF RecvPut, Typed, TypeOK, OwnRow
      <3>2. CASE GST[n][m.id] # Unknown
        <4>1. m.id \in Node /\ m.x \in IO /\ m.y \in BOOLEAN
          BY <2>1 DEF PutMsg
        <4> DEFINE new == [GST[n][m.id] EXCEPT ![m.x] = m.y]
        <4>2. GST[n][m.id] \in Row
          BY <3>2, <4>1 DEF Typed, TypeOK
        <4>3. new \in Row
          BY <4>1, <4>2 DEF Row
        <4>4. GST' = [GST EXCEPT ![n][m.id] = new]
          BY <1>3, <3>2 DEF RecvPut
        <4>5. UNCHANGED up
          BY <1>3 DEF RecvPut
        <4> HIDE DEF new, m
        <4> QED
          BY <2>1, <4>1, <4>3, <4>4, <4>5 DEF Typed, TypeOK, OwnRow
      <3> QED
        BY <3>1, <3>2
    <2> QED
      BY <1>0, <1>3, <2>2, <2>3 DEF RecvPut, device, history, Typed, TypeOK
  <1>4. CASE RecvPutAll(s, n)
    <2>1. m \in PutAllMsg /\ m.id # n
      BY <1>0, <1>4 DEF RecvPutAll, Arrived
    <2>2. m.id \in Node /\ m.row \in Row
      BY <2>1 DEF PutAllMsg
    <2>3. IPT' \in [Node -> [Node -> Node \cup {Unknown}]]
      BY <1>1, <1>4, <2>2 DEF RecvPutAll
    <2>4. GST' \in [Node -> [Node -> Row \cup {Unknown}]] /\ OwnRow'
      <3>1. GST' = [GST EXCEPT ![n][m.id] = m.row] /\ UNCHANGED up
        BY <1>4 DEF RecvPutAll
      <3> HIDE DEF m
      <3> QED
        BY <2>1, <2>2, <3>1 DEF Typed, TypeOK, OwnRow
    <2>5. net' \in [Node -> [Node -> Seq(Msg)]]
      <3>1. PutAll(n, GST[n][n]) \in Msg
        BY <1>0, PutTypes DEF Typed, TypeOK, OwnRow
      <3>2. Unicast(Taken(s, n), n, s, PutAll(n, GST[n][n]))
              \in [Node -> [Node -> Seq(Msg)]]
        BY <1>0, <3>1, UnicastType
      <3> QED
        BY <1>0, <1>4, <3>2 DEF RecvPutAll
    <2>6. fifo' \in [Node -> {"none", "IVRSetRes", "IVRSetRes///",
                              "IVRSetRes/TimeRangeOut", "IVRGetRes"}]
      BY <1>4 DEF RecvPutAll, Typed, TypeOK
    <2> QED
      BY <1>4, <2>3, <2>4, <2>5, <2>6 DEF RecvPutAll, device, history, Typed, TypeOK
  <1>5. CASE RecvSet(s, n)
    <2>1. m \in SetMsg
      BY <1>0, <1>5 DEF RecvSet, Arrived
    <2>2. m.x \in Outputs /\ m.x \in IO /\ m.y \in BOOLEAN
      BY <2>1 DEF SetMsg, IO
    <2>3. UNCHANGED <<up, IPT, triggered, scan, IVRSet_counter, fifo, impersonated>>
      BY <1>5 DEF RecvSet
    <2>4. CASE inRange[n]
      <3>1. /\ setgpio(n, m.x, m.y)
            /\ net' = Broadcast(Taken(s, n), n, <<Put(n, m.x, m.y)>>)
        BY <1>5, <2>4 DEF RecvSet
      <3>2. GSTType' /\ PinsType'
        BY <1>0, <2>2, <2>3, <3>1, SetgpioType, TypedParts
      <3>3. <<Put(n, m.x, m.y)>> \in Seq(Msg)
        BY <2>2, PutTypes, SingleType
      <3>4. net' \in [Node -> [Node -> Seq(Msg)]]
        BY <1>0, <3>1, <3>3, BroadcastType
      <3> QED
        BY <2>3, <3>2, <3>4 DEF Typed, TypeOK, OwnRow, GSTType, PinsType
    <2>5. CASE ~inRange[n]
      <3>1. /\ net' = Unicast(Taken(s, n), n, s, Tell("TimeRangeOut", n))
            /\ UNCHANGED <<GST, device, disturbed>>
        BY <1>5, <2>5 DEF RecvSet
      <3>2. net' \in [Node -> [Node -> Seq(Msg)]]
        BY <1>0, <3>1, UnicastType, PutTypes
      <3> QED
        BY <2>3, <3>1, <3>2 DEF device, Typed, TypeOK, OwnRow
    <2> QED
      BY <2>4, <2>5
  <1>6. CASE RecvTell(s, n)
    <2>1. m \in IdMsg
      BY <1>0, <1>6 DEF RecvTell, Arrived
    <2>2. IPT' \in [Node -> [Node -> Node \cup {Unknown}]]
      BY <1>1, <1>6, <2>1 DEF RecvTell, IdMsg
    <2> QED
      BY <1>0, <1>6, <2>2 DEF RecvTell, device, history, Typed, TypeOK, OwnRow
  <1> QED
    BY <1>2, <1>3, <1>4, <1>5, <1>6 DEF Receive

(* A setgpio of one line followed by the broadcast of its Put.             *)
LEMMA SetAndPutTyped ==
  ASSUME Typed, NEW n \in Node, up[n], UNCHANGED up,
         NEW x \in IO, x \in Outputs \/ x \in SetX, NEW y \in BOOLEAN,
         setgpio(n, x, y), net' = Broadcast(net, n, <<Put(n, x, y)>>)
  PROVE  /\ GSTType' /\ PinsType'
         /\ net' \in [Node -> [Node -> Seq(Msg)]]
  <1>1. GSTType' /\ PinsType'
    BY SetgpioType, TypedParts
  <1>2. <<Put(n, x, y)>> \in Seq(Msg)
    BY PutTypes, SingleType
  <1> QED
    BY <1>1, <1>2, BroadcastType DEF Typed, TypeOK

(* A reading of lines followed by the broadcast of what changed.           *)
LEMMA GetAndReportTyped ==
  ASSUME Typed, NEW n \in Node, up[n], UNCHANGED <<up, device, disturbed>>,
         NEW xs \in SUBSET IO, getgpio(n, xs),
         net' = Broadcast(net, n, Reports(n, xs))
  PROVE  /\ GSTType' /\ PinsType'
         /\ net' \in [Node -> [Node -> Seq(Msg)]]
  <1>1. GSTType'
    BY GetgpioType, TypedParts
  <1>2. PinsType'
    BY DEF Typed, TypeOK, PinsType, device
  <1>3. Reports(n, xs) \in Seq(Msg)
    BY ReportsType, PutTypes, TypedParts
  <1> QED
    BY <1>1, <1>2, <1>3, BroadcastType DEF Typed, TypeOK

LEMMA ClientTyped ==
  ASSUME Typed, NEW n \in Node, Client(n)
  PROVE  Typed'
  <1>1. ASSUME NEW x \in SetX, NEW y \in BOOLEAN, ClientSet(n, x, y)
        PROVE  Typed'
    <2>1. x \in IO
      BY LinesAssumption
    <2>2. GSTType' /\ PinsType' /\ net' \in [Node -> [Node -> Seq(Msg)]]
      BY <1>1, <2>1, SetAndPutTyped DEF ClientSet, Idle
    <2> QED
      BY <1>1, <2>2 DEF ClientSet, Typed, TypeOK, GSTType, PinsType
  <1>2. ASSUME NEW ys \in [Outputs -> BOOLEAN], ClientSetAll(n, ys)
        PROVE  Typed'
    <2>1. GSTType' /\ PinsType' /\ GST'[n][n] \in Row
      BY <1>2, SetgpioAllType, TypedParts DEF ClientSetAll, Idle
    <2>2. <<PutAll(n, GST'[n][n])>> \in Seq(Msg)
      BY <2>1, PutTypes, SingleType
    <2>3. net' \in [Node -> [Node -> Seq(Msg)]]
      BY <1>2, <2>2, BroadcastType DEF ClientSetAll, Typed, TypeOK
    <2> QED
      BY <1>2, <2>1, <2>3 DEF ClientSetAll, Typed, TypeOK, GSTType, PinsType
  <1>3. ASSUME NEW xs \in SUBSET IO, ClientGet(n, xs)
        PROVE  Typed'
    <2>1. GSTType' /\ PinsType' /\ net' \in [Node -> [Node -> Seq(Msg)]]
      BY <1>3, GetAndReportTyped DEF ClientGet, Idle, history
    <2> QED
      BY <1>3, <2>1 DEF ClientGet, history, Typed, TypeOK, GSTType, PinsType
  <1>4. ASSUME NEW kind \in {"GSTCheckSum", "ConfigRes"}, ClientQuery(n, kind)
        PROVE  Typed'
    <2>1. <<Tell(kind, n)>> \in Seq(Msg)
      BY PutTypes, SingleType
    <2>2. net' \in [Node -> [Node -> Seq(Msg)]]
      BY <1>4, <2>1, BroadcastType DEF ClientQuery, Typed, TypeOK
    <2> QED
      BY <1>4, <2>2 DEF ClientQuery, memory, device, history, Typed, TypeOK, OwnRow
  <1> QED
    BY <1>1, <1>2, <1>3, <1>4 DEF Client

LEMMA IVRTyped ==
  ASSUME Typed, NEW n \in Node, IVR(n)
  PROVE  Typed'
  <1> DEFINE Answers == {"none", "IVRSetRes", "IVRSetRes///",
                         "IVRSetRes/TimeRangeOut", "IVRGetRes"}
  <1>1. ASSUME NEW x \in Outputs, NEW y \in BOOLEAN, IVRSetReqOwn(n, x, y)
        PROVE  Typed'
    <2>1. x \in IO
      BY DEF IO
    <2>2. UNCHANGED <<up, IPT, triggered, scan, IVRSet_counter, impersonated>>
          /\ up[n]
      BY <1>1 DEF IVRSetReqOwn, Idle
    <2>3. fifo' \in [Node -> Answers]
      BY <1>1 DEF IVRSetReqOwn, Typed, TypeOK
    <2>4. CASE inRange[n]
      <3>1. setgpio(n, x, y) /\ net' = Broadcast(net, n, <<Put(n, x, y)>>)
        BY <1>1, <2>4 DEF IVRSetReqOwn
      <3>2. GSTType' /\ PinsType' /\ net' \in [Node -> [Node -> Seq(Msg)]]
        BY <2>1, <2>2, <3>1, SetAndPutTyped
      <3> QED
        BY <2>2, <2>3, <3>2 DEF Typed, TypeOK, GSTType, PinsType
    <2>5. CASE ~inRange[n]
      <3>1. UNCHANGED <<GST, device, disturbed, net>>
        BY <1>1, <2>5 DEF IVRSetReqOwn
      <3> QED
        BY <2>2, <2>3, <3>1 DEF device, Typed, TypeOK, OwnRow
    <2> QED
      BY <2>4, <2>5
  <1>2. ASSUME NEW m \in Node, IVRSetReqUnknown(n, m)
        PROVE  Typed'
    <2>1. fifo' \in [Node -> Answers]
      BY <1>2 DEF IVRSetReqUnknown, Typed, TypeOK
    <2> QED
      BY <1>2, <2>1 DEF IVRSetReqUnknown, device, history, Typed, TypeOK, OwnRow
  <1>3. ASSUME NEW m \in Node, NEW x \in Outputs, NEW y \in BOOLEAN,
               IVRSetReqRemote(n, m, x, y)
        PROVE  Typed'
    <2>1. <<Put(m, x, y)>> \in Seq(Msg)
      BY PutTypes, SingleType DEF IO
    <2>2. net' \in [Node -> [Node -> Seq(Msg)]]
      BY <1>3, <2>1, BroadcastType DEF IVRSetReqRemote, Typed, TypeOK
    <2>3. IVRSet_counter' \in [Node -> 0 .. IVRSETTIMEOUT + 1]
      <3>1. 1 \in 0 .. IVRSETTIMEOUT + 1
        BY TimeoutAssumption
      <3> QED
        BY <1>3, <3>1 DEF IVRSetReqRemote, Typed, TypeOK
    <2>4. impersonated' \subseteq Node \X Node /\ fifo' \in [Node -> Answers]
      BY <1>3 DEF IVRSetReqRemote, Typed, TypeOK
    <2> QED
      BY <1>3, <2>2, <2>3, <2>4 DEF IVRSetReqRemote, device, Typed, TypeOK, OwnRow
  <1> QED
    BY <1>1, <1>2, <1>3 DEF IVR

(* The timeout of the select loop.                                         *)
LEMMA TickTyped ==
  ASSUME Typed, NEW n \in Node, Tick(n)
  PROVE  Typed'
  <1>1. GSTType' /\ PinsType' /\ net' \in [Node -> [Node -> Seq(Msg)]]
    BY GetAndReportTyped DEF Tick, Idle, history
  <1>2. /\ scan' \in [Node -> Nat]
        /\ \A m \in Node : scan'[m] <= NumRules(m)
        /\ IVRSet_counter' \in [Node -> 0 .. IVRSETTIMEOUT + 1]
    BY AdvanceType DEF Tick, Typed
  <1> QED
    BY <1>1, <1>2 DEF Tick, history, Typed, TypeOK, GSTType, PinsType

LEMMA FlagType ==
  ASSUME NEW D, NEW f \in [Node -> [D -> BOOLEAN]], NEW n \in Node, NEW k \in D,
         NEW b \in BOOLEAN
  PROVE  [f EXCEPT ![n][k] = b] \in [Node -> [D -> BOOLEAN]]
  <1>1. [f[n] EXCEPT ![k] = b] \in [D -> BOOLEAN]
    OBVIOUS
  <1> QED
    BY <1>1, Zenon

LEMMA PLCStepTyped ==
  ASSUME Typed, NEW n \in Node, PLCStep(n)
  PROVE  Typed'
  <1> DEFINE r == ThisRule(n)
  <1>1. up[n] /\ r \in Rule /\ scan[n] \in 1 .. RULES_MAX
    BY ThisRuleType DEF PLCStep, PLCSkip, PLCRearm, PLCFireLocal, PLCFireRemote,
       PLCFireNowhere, Fires, Typed
  <1>2. /\ scan' \in [Node -> Nat]
        /\ \A m \in Node : scan'[m] <= NumRules(m)
        /\ IVRSet_counter' \in [Node -> 0 .. IVRSETTIMEOUT + 1]
    BY AdvanceType DEF PLCStep, PLCSkip, PLCRearm, PLCFireLocal, PLCFireRemote,
       PLCFireNowhere, Fires, Typed
  <1>3. triggered' \in [Node -> [1 .. RULES_MAX -> BOOLEAN]]
    <2>1. \/ UNCHANGED triggered
          \/ triggered' = [triggered EXCEPT ![n][scan[n]] = FALSE]
          \/ triggered' = [triggered EXCEPT ![n][scan[n]] = TRUE]
      BY DEF PLCStep, PLCSkip, PLCRearm, PLCFireLocal, PLCFireRemote,
         PLCFireNowhere, Fires
    <2>2. triggered \in [Node -> [1 .. RULES_MAX -> BOOLEAN]]
      BY DEF Typed, TypeOK
    <2>3. /\ [triggered EXCEPT ![n][scan[n]] = FALSE] \in [Node -> [1 .. RULES_MAX -> BOOLEAN]]
          /\ [triggered EXCEPT ![n][scan[n]] = TRUE] \in [Node -> [1 .. RULES_MAX -> BOOLEAN]]
      BY <1>1, <2>2, FlagType
    <2> QED
      BY <2>1, <2>2, <2>3
  <1>4. UNCHANGED <<up, IPT, fifo, impersonated>>
    BY DEF PLCStep, PLCSkip, PLCRearm, PLCFireLocal, PLCFireRemote,
       PLCFireNowhere, history
  <1>5. CASE PLCSkip(n) \/ PLCRearm(n) \/ PLCFireNowhere(n)
    <2>1. UNCHANGED <<GST, device, net, disturbed>>
      BY <1>5 DEF PLCSkip, PLCRearm, PLCFireNowhere, history
    <2> QED
      BY <1>2, <1>3, <1>4, <2>1 DEF device, Typed, TypeOK, OwnRow
  <1>6. CASE PLCFireLocal(n)
    <2>1. r.x1 \in Outputs /\ r.x1 \in IO /\ r.y1 \in BOOLEAN
      BY <1>1 DEF Rule, IO
    <2>2. setgpio(n, r.x1, r.y1) /\ net' = Broadcast(net, n, <<Put(n, r.x1, r.y1)>>)
      BY <1>6 DEF PLCFireLocal
    <2>3. GSTType' /\ PinsType' /\ net' \in [Node -> [Node -> Seq(Msg)]]
      <3> HIDE DEF r
      <3> QED BY <1>1, <1>4, <2>1, <2>2, SetAndPutTyped
    <2> QED
      BY <1>2, <1>3, <1>4, <2>3 DEF Typed, TypeOK, GSTType, PinsType
  <1>7. CASE PLCFireRemote(n)
    <2> DEFINE d == IPT[n][r.id1]
               msg == [kind |-> "Set", x |-> r.x1, y |-> r.y1, aim |-> r.id1]
    <2>1. /\ net' = Unicast(net, n, d, msg)
          /\ d # Unknown
          /\ UNCHANGED <<GST, device, disturbed>>
      BY <1>7 DEF PLCFireRemote, history
    <2>2. r.id1 \in Node /\ msg \in Msg
      BY <1>1 DEF Rule, Msg, SetMsg
    <2>3. d \in Node
      BY <2>1, <2>2 DEF Typed, TypeOK
    <2>4. net' \in [Node -> [Node -> Seq(Msg)]]
      <3> HIDE DEF d, msg
      <3> QED BY <2>1, <2>2, <2>3, UnicastType DEF Typed, TypeOK
    <2> QED
      BY <1>2, <1>3, <1>4, <2>1, <2>4 DEF device, Typed, TypeOK, OwnRow
  <1> QED
    BY <1>5, <1>6, <1>7 DEF PLCStep

LEMMA NextTyped == Typed /\ [Next]_vars => Typed'
  <1> SUFFICES ASSUME Typed, [Next]_vars PROVE Typed'
    OBVIOUS
  <1>1. CASE UNCHANGED vars
    BY <1>1 DEF vars, memory, device, history, Typed, TypeOK, OwnRow
  <1>2. ASSUME NEW n \in Node, Process(n) PROVE Typed'
    BY <1>2, ReceiveTyped, TickTyped, PLCStepTyped DEF Process
  <1>3. ASSUME NEW n \in Node, Surroundings(n) \/ \E x \in Outputs : RelayFault(n, x)
        PROVE  Typed'
    BY <1>3, SurroundingsTyped
  <1> QED
    BY <1>1, <1>2, <1>3, BootTyped, ClientTyped, IVRTyped, FailureTyped, NetworkTyped
    DEF Next

(* Every reachable state has its type, and a running SIOD has its own row. *)
THEOREM Typing == Spec => [](TypeOK /\ OwnRow)
  <1>1. Init => Typed
    BY InitTyped
  <1>2. Typed /\ [Next]_vars => Typed'
    BY NextTyped
  <1>3. Typed => TypeOK /\ OwnRow
    BY DEF Typed
  <1> QED
    BY <1>1, <1>2, <1>3, PTL DEF Spec

-----------------------------------------------------------------------------
(* The relay, the configuration and the own GST row of an output agree,    *)
(* for every mesh: RelayAgrees is inductive once the state has its type.   *)

(* What RelayAgrees says of one output.                                    *)
Agrees(n, x) ==
    <<n, x>> \notin disturbed =>
        /\ wire[n][x] = saved[n][x]
        /\ up[n] => GST[n][n][x] = wire[n][x]

LEMMA RelayParts == RelayAgrees <=> \A n \in Node, x \in Outputs : Agrees(n, x)
  BY DEF RelayAgrees, Agrees

(* A step that touches none of the three, or forgets the memory.           *)
LEMMA KeepsRelays ==
  ASSUME RelayAgrees, UNCHANGED <<wire, saved, disturbed>>,
         \A n \in Node : up'[n] => up[n] /\ GST'[n][n] = GST[n][n]
  PROVE  RelayAgrees'
  BY DEF RelayAgrees

(* setgpio writes the three together; when it is given the number of an    *)
(* input it moves a relay behind the back of the other two.                *)
LEMMA SetgpioAgrees ==
  ASSUME Typed, RelayAgrees, NEW n \in Node, up[n], UNCHANGED up,
         NEW x \in IO, x \in Outputs \/ x \in SetX, NEW y \in BOOLEAN,
         setgpio(n, x, y)
  PROVE  RelayAgrees'
  <1>1. Relay(x) \in Outputs
    BY RelayOfOutput, LinesAssumption
  <1>2. GST[n][n] \in Row /\ wire[n] \in Row
    BY DEF Typed, TypeOK, OwnRow
  <1>3. SUFFICES ASSUME NEW m \in Node, NEW z \in Outputs PROVE Agrees(m, z)'
    BY DEF RelayAgrees, Agrees
  <1>4. Agrees(m, z) /\ z \in IO
    BY RelayParts DEF IO
  <1>5. CASE m # n
    BY <1>4, <1>5 DEF setgpio, Agrees, Typed, TypeOK
  <1>6. CASE m = n /\ x \in Outputs
    <2>1. Relay(x) = x
      BY <1>6, RelayOfOutput
    <2>2. /\ wire' = [wire EXCEPT ![n][x] = y]
          /\ GST' = [GST EXCEPT ![n][n][x] = y]
          /\ saved' = [saved EXCEPT ![n][x] = y]
          /\ disturbed' = disturbed \ {<<n, x>>}
      BY <1>6, <2>1 DEF setgpio
    <2>3. wire'[n] = [wire[n] EXCEPT ![x] = y] /\ saved'[n] = [saved[n] EXCEPT ![x] = y]
          /\ GST'[n][n] = [GST[n][n] EXCEPT ![x] = y]
      BY <2>2 DEF Typed, TypeOK
    <2>4. saved[n] \in [Outputs -> BOOLEAN]
      BY DEF Typed, TypeOK
    <2> QED
      BY <1>2, <1>4, <1>6, <2>2, <2>3, <2>4 DEF Agrees, Row
  <1>7. CASE m = n /\ x \notin Outputs
    <2>1. /\ wire' = [wire EXCEPT ![n][Relay(x)] = y]
          /\ GST' = [GST EXCEPT ![n][n][x] = y]
          /\ saved' = saved
          /\ disturbed' = disturbed \cup {<<n, Relay(x)>>}
      BY <1>7 DEF setgpio
    <2>2. CASE z = Relay(x)
      BY <1>7, <2>1, <2>2 DEF Agrees
    <2>3. CASE z # Relay(x)
      <3>1. wire'[n][z] = wire[n][z] /\ GST'[n][n][z] = GST[n][n][z]
        BY <1>2, <1>4, <1>7, <2>1, <2>3 DEF Typed, TypeOK, Row
      <3> QED
        BY <1>4, <1>7, <2>1, <3>1 DEF Agrees
    <2> QED
      BY <2>2, <2>3
  <1> QED
    BY <1>5, <1>6, <1>7

LEMMA SetgpioAllAgrees ==
  ASSUME Typed, RelayAgrees, NEW n \in Node, up[n], UNCHANGED up,
         NEW ys \in [Outputs -> BOOLEAN], setgpioAll(n, ys)
  PROVE  RelayAgrees'
  <1> DEFINE new == [x \in IO |-> IF x \in Outputs THEN ys[x] ELSE GST[n][n][x]]
             pins == [x \in IO |-> IF x \in Outputs THEN ys[x] ELSE wire[n][x]]
  <1>1. /\ GST' = [GST EXCEPT ![n][n] = new]
        /\ wire' = [wire EXCEPT ![n] = pins]
        /\ saved' = [saved EXCEPT ![n] = ys]
        /\ disturbed' = disturbed \ ({n} \X Outputs)
    BY DEF setgpioAll
  <1>2. \A z \in Outputs : new[z] = ys[z] /\ pins[z] = ys[z]
    BY DEF IO
  <1> HIDE DEF new, pins
  <1>3. SUFFICES ASSUME NEW m \in Node, NEW z \in Outputs PROVE Agrees(m, z)'
    BY DEF RelayAgrees, Agrees
  <1>4. Agrees(m, z)
    BY RelayParts
  <1>5. CASE m # n
    BY <1>1, <1>4, <1>5 DEF Agrees, Typed, TypeOK
  <1>6. CASE m = n
    <2>1. GST'[n][n] = new /\ wire'[n] = pins /\ saved'[n] = ys
      BY <1>1 DEF Typed, TypeOK
    <2> QED
      BY <1>2, <1>6, <2>1 DEF Agrees
  <1> QED
    BY <1>5, <1>6

(* getgpio copies the feedback of a relay into the row.                    *)
LEMMA GetgpioAgrees ==
  ASSUME Typed, RelayAgrees, NEW n \in Node, up[n],
         UNCHANGED <<up, wire, saved, disturbed>>,
         NEW xs \in SUBSET IO, getgpio(n, xs)
  PROVE  RelayAgrees'
  <1> DEFINE new == [x \in IO |-> IF x \in xs THEN wire[n][x] ELSE GST[n][n][x]]
  <1>1. GST' = [GST EXCEPT ![n][n] = new]
    BY DEF getgpio
  <1>2. \A z \in Outputs : new[z] = wire[n][z] \/ new[z] = GST[n][n][z]
    BY DEF IO
  <1> HIDE DEF new
  <1>3. SUFFICES ASSUME NEW m \in Node, NEW z \in Outputs PROVE Agrees(m, z)'
    BY DEF RelayAgrees, Agrees
  <1>4. Agrees(m, z)
    BY RelayParts
  <1>5. CASE m # n
    BY <1>1, <1>4, <1>5 DEF Agrees, Typed, TypeOK
  <1>6. CASE m = n
    <2>1. GST'[n][n] = new
      BY <1>1 DEF Typed, TypeOK
    <2> QED
      BY <1>2, <1>4, <1>6, <2>1 DEF Agrees
  <1> QED
    BY <1>5, <1>6

(* At startup the saved outputs are driven.                                *)
LEMMA BootAgrees ==
  ASSUME Typed, RelayAgrees, NEW n \in Node, Boot(n)
  PROVE  RelayAgrees'
  <1> DEFINE row == [x \in IO |-> IF x \in Outputs THEN saved[n][x] ELSE wire[n][x]]
  <1>1. /\ up' = [up EXCEPT ![n] = TRUE]
        /\ wire' = [wire EXCEPT ![n] = row]
        /\ GST' = [GST EXCEPT ![n][n] = row]
        /\ saved' = saved
        /\ disturbed' = disturbed \ ({n} \X Outputs)
    BY DEF Boot
  <1>2. \A z \in Outputs : row[z] = saved[n][z]
    BY DEF IO
  <1> HIDE DEF row
  <1>3. SUFFICES ASSUME NEW m \in Node, NEW z \in Outputs PROVE Agrees(m, z)'
    BY DEF RelayAgrees, Agrees
  <1>4. Agrees(m, z)
    BY RelayParts
  <1>5. CASE m # n
    BY <1>1, <1>4, <1>5 DEF Agrees, Typed, TypeOK
  <1>6. CASE m = n
    <2>1. GST'[n][n] = row /\ wire'[n] = row
      BY <1>1 DEF Typed, TypeOK
    <2> QED
      BY <1>1, <1>2, <1>6, <2>1 DEF Agrees
  <1> QED
    BY <1>5, <1>6

(* Messages about other SIODs leave the own row alone; a Set is a setgpio. *)
LEMMA ReceiveAgrees ==
  ASSUME Typed, RelayAgrees, NEW n \in Node, NEW s \in Node, Receive(s, n)
  PROVE  RelayAgrees'
  <1> DEFINE m == Head(net[s][n])
  <1>1. CASE RecvPutOwn(s, n) \/ RecvTell(s, n)
    BY <1>1, KeepsRelays DEF RecvPutOwn, RecvTell, memory, device, history
  <1>2. CASE RecvPut(s, n) \/ RecvPutAll(s, n)
    <2>1. m.id # n /\ UNCHANGED <<up, wire, saved, disturbed>>
      BY <1>2 DEF RecvPut, RecvPutAll, device, history
    <2>2. \/ UNCHANGED GST
          \/ GST' = [GST EXCEPT ![n][m.id][m.x] = m.y]
          \/ GST' = [GST EXCEPT ![n][m.id] = m.row]
      BY <1>2 DEF RecvPut, RecvPutAll
    <2>3. \A k \in Node : GST'[k][k] = GST[k][k]
      <3>1. ASSUME NEW id, id # n, NEW row, NEW k \in Node,
                   GST' = [GST EXCEPT ![n][id] = row]
            PROVE  GST'[k][k] = GST[k][k]
        BY <3>1 DEF Typed, TypeOK
      <3>2. GST' = [GST EXCEPT ![n][m.id][m.x] = m.y]
              => GST' = [GST EXCEPT ![n][m.id] = [GST[n][m.id] EXCEPT ![m.x] = m.y]]
        OBVIOUS
      <3> HIDE DEF m
      <3> QED
        BY <2>1, <2>2, <3>1, <3>2
    <2> QED
      BY <2>1, <2>3, KeepsRelays
  <1>3. CASE RecvSet(s, n) /\ inRange[n]
    <2>1. /\ setgpio(n, m.x, m.y) /\ up[n] /\ UNCHANGED up
          /\ m.kind = "Set" /\ net[s][n] # <<>>
      BY <1>3 DEF RecvSet, Arrived, Idle
    <2>2. m.x \in Outputs /\ m.x \in IO /\ m.y \in BOOLEAN
      BY <2>1, HeadTypes DEF SetMsg, IO
    <2> QED
      BY <2>1, <2>2, SetgpioAgrees
  <1>4. CASE RecvSet(s, n) /\ ~inRange[n]
    BY <1>4, KeepsRelays DEF RecvSet, device
  <1> QED
    BY <1>1, <1>2, <1>3, <1>4 DEF Receive

LEMMA ClientAgrees ==
  ASSUME Typed, RelayAgrees, NEW n \in Node, Client(n)
  PROVE  RelayAgrees'
  <1>1. ASSUME NEW x \in SetX, NEW y \in BOOLEAN, ClientSet(n, x, y)
        PROVE  RelayAgrees'
    <2>1. x \in IO
      BY LinesAssumption
    <2> QED
      BY <1>1, <2>1, SetgpioAgrees DEF ClientSet, Idle
  <1>2. ASSUME NEW ys \in [Outputs -> BOOLEAN], ClientSetAll(n, ys)
        PROVE  RelayAgrees'
    BY <1>2, SetgpioAllAgrees DEF ClientSetAll, Idle
  <1>3. ASSUME NEW xs \in SUBSET IO, ClientGet(n, xs)
        PROVE  RelayAgrees'
    BY <1>3, GetgpioAgrees DEF ClientGet, Idle, device, history
  <1>4. ASSUME NEW kind, ClientQuery(n, kind)
        PROVE  RelayAgrees'
    BY <1>4, KeepsRelays DEF ClientQuery, memory, device, history
  <1> QED
    BY <1>1, <1>2, <1>3, <1>4 DEF Client

LEMMA IVRAgrees ==
  ASSUME Typed, RelayAgrees, NEW n \in Node, IVR(n)
  PROVE  RelayAgrees'
  <1>1. ASSUME NEW x \in Outputs, NEW y \in BOOLEAN, IVRSetReqOwn(n, x, y)
        PROVE  RelayAgrees'
    <2>1. x \in IO /\ up[n] /\ UNCHANGED up
      BY <1>1 DEF IO, IVRSetReqOwn, Idle
    <2>2. CASE inRange[n]
      BY <1>1, <2>1, <2>2, SetgpioAgrees DEF IVRSetReqOwn
    <2>3. CASE ~inRange[n]
      BY <1>1, <2>1, <2>3, KeepsRelays DEF IVRSetReqOwn, device
    <2> QED
      BY <2>2, <2>3
  <1>2. ASSUME NEW m \in Node, IVRSetReqUnknown(n, m)
        PROVE  RelayAgrees'
    BY <1>2, KeepsRelays DEF IVRSetReqUnknown, device, history
  <1>3. ASSUME NEW m \in Node, NEW x \in Outputs, NEW y \in BOOLEAN,
               IVRSetReqRemote(n, m, x, y)
        PROVE  RelayAgrees'
    BY <1>3, KeepsRelays DEF IVRSetReqRemote, device
  <1> QED
    BY <1>1, <1>2, <1>3 DEF IVR

(* A rule moves a relay through setgpio only.                              *)
LEMMA PLCAgrees ==
  ASSUME Typed, RelayAgrees, NEW n \in Node, Tick(n) \/ PLCStep(n)
  PROVE  RelayAgrees'
  <1>1. CASE Tick(n)
    BY <1>1, GetgpioAgrees DEF Tick, Idle, device, history
  <1>2. CASE PLCSkip(n) \/ PLCRearm(n) \/ PLCFireRemote(n) \/ PLCFireNowhere(n)
    <2>1. UNCHANGED <<up, GST, wire, saved, disturbed>>
      BY <1>2 DEF PLCSkip, PLCRearm, PLCFireRemote, PLCFireNowhere, device, history
    <2> QED
      BY <2>1, KeepsRelays
  <1>3. CASE PLCFireLocal(n)
    <2> DEFINE r == ThisRule(n)
    <2>1. up[n] /\ UNCHANGED up /\ setgpio(n, r.x1, r.y1) /\ scan[n] # 0
      BY <1>3 DEF PLCFireLocal, Fires
    <2>2. r \in Rule
      BY <2>1, ThisRuleType DEF Typed
    <2>3. r.x1 \in Outputs /\ r.x1 \in IO /\ r.y1 \in BOOLEAN
      BY <2>2 DEF Rule, IO
    <2> QED
      BY <2>1, <2>3, SetgpioAgrees
  <1> QED
    BY <1>1, <1>2, <1>3 DEF PLCStep

(* A relay that is cut short, or moves on its own, is disturbed.           *)
LEMMA MishapAgrees ==
  ASSUME Typed, RelayAgrees, NEW n \in Node,
         \/ Failure(n) \/ Surroundings(n) \/ \E x \in Outputs : RelayFault(n, x)
  PROVE  RelayAgrees'
  <1>1. ASSUME NEW x \in Outputs, NEW y,
               wire' = [wire EXCEPT ![n][x] = y],
               disturbed' = disturbed \cup {<<n, x>>}, UNCHANGED saved,
               \A k \in Node : up'[k] => up[k] /\ GST'[k][k] = GST[k][k]
        PROVE  RelayAgrees'
    <2>1. SUFFICES ASSUME NEW m \in Node, NEW z \in Outputs PROVE Agrees(m, z)'
      BY DEF RelayAgrees, Agrees
    <2>2. Agrees(m, z)
      BY RelayParts
    <2>3. CASE m = n /\ z = x
      BY <1>1, <2>3 DEF Agrees
    <2>4. CASE ~(m = n /\ z = x)
      <3>1. wire'[m][z] = wire[m][z]
        BY <1>1, <2>4 DEF Typed, TypeOK, Row
      <3> QED
        BY <1>1, <2>2, <3>1 DEF Agrees
    <2> QED
      BY <2>3, <2>4
  <1>2. ASSUME Forget(n)
        PROVE  \A k \in Node : up'[k] => up[k] /\ GST'[k][k] = GST[k][k]
    BY <1>2 DEF Forget, Typed, TypeOK
  <1>3. CASE Crash(n)
    BY <1>2, <1>3, KeepsRelays DEF Crash, device, history
  <1>4. ASSUME NEW x \in Outputs, NEW y \in BOOLEAN, CrashInSetgpio(n, x, y)
        PROVE  RelayAgrees'
    BY <1>1, <1>2, <1>4 DEF CrashInSetgpio
  <1>5. ASSUME NEW x \in Outputs, RelayFault(n, x)
        PROVE  RelayAgrees'
    <2>1. wire' = [wire EXCEPT ![n][x] = ~wire[n][x]] /\ UNCHANGED <<up, GST>>
      BY <1>5 DEF RelayFault, memory
    <2> QED
      BY <1>1, <1>5, <2>1 DEF RelayFault
  <1>6. ASSUME NEW x \in Inputs, Flip(n, x)
        PROVE  RelayAgrees'
    <2>1. \A m \in Node, z \in Outputs : wire'[m][z] = wire[m][z]
      <3>1. \A z \in Outputs : z # x /\ z \in IO
        BY LinesAssumption DEF IO
      <3> QED
        BY <1>6, <3>1 DEF Flip, Typed, TypeOK, Row
    <2> QED
      BY <1>6, <2>1 DEF Flip, RelayAgrees, memory, history
  <1>7. CASE WindowChange(n)
    BY <1>7, KeepsRelays DEF WindowChange, memory, history
  <1> QED
    BY <1>3, <1>4, <1>5, <1>6, <1>7 DEF Failure, Surroundings

LEMMA NextAgrees == Typed /\ RelayAgrees /\ [Next]_vars => RelayAgrees'
  <1> SUFFICES ASSUME Typed, RelayAgrees, [Next]_vars PROVE RelayAgrees'
    OBVIOUS
  <1>1. CASE UNCHANGED vars
    BY <1>1, KeepsRelays DEF vars, memory, device, history
  <1>2. ASSUME NEW s \in Node, NEW d \in Node, Network(s, d)
        PROVE  RelayAgrees'
    <2>1. UNCHANGED <<memory, device, history>>
      BY <1>2 DEF Network, Lose, Overtake, Unheard
    <2> QED
      BY <2>1, KeepsRelays DEF memory, device, history
  <1>3. ASSUME NEW n \in Node, Process(n) PROVE RelayAgrees'
    BY <1>3, ReceiveAgrees, PLCAgrees DEF Process
  <1> QED
    BY <1>1, <1>2, <1>3, BootAgrees, ClientAgrees, IVRAgrees, MishapAgrees DEF Next

(* Relay, configuration and own row of an output agree in every reachable  *)
(* state, unless a setgpio was cut short or the relay moved on its own.    *)
THEOREM Relays == Spec => []RelayAgrees
  <1>1. Init => Typed /\ RelayAgrees
    <2>1. Init => RelayAgrees
      BY DEF Init, RelayAgrees
    <2> QED
      BY <2>1, InitTyped
  <1>2. Typed /\ RelayAgrees /\ [Next]_vars => Typed' /\ RelayAgrees'
    BY NextTyped, NextAgrees
  <1> QED
    BY <1>1, <1>2, PTL DEF Spec

-----------------------------------------------------------------------------
(* Where messages come from and go to, for every mesh.  A SIOD learns an   *)
(* address from a datagram, and a PLC rule sends a Set to an address it    *)
(* learnt, so AddressTable and SetReachesTarget are inductive only with    *)
(* what the datagrams in flight say of their sender and their receiver.    *)

(* The datagrams that may be in flight from s to d.                        *)
Legit == [s \in Node |-> [d \in Node |->
    {m \in Msg : IF m.kind = "Set"
                 THEN m.aim = d \/ <<d, m.aim>> \in impersonated
                 ELSE m.id = s \/ <<s, m.id>> \in impersonated}]]

(* The network nt carries what L allows.                                   *)
Carries(nt, L) ==
    /\ nt \in [Node -> [Node -> Seq(Msg)]]
    /\ \A s, d \in Node : nt[s][d] \in Seq(L[s][d])

Addressed == Typed /\ AddressTable /\ Carries(net, Legit)

-----------------------------------------------------------------------------
(* Sending and receiving keep what is carried.                             *)
LEMMA SequenceFacts ==
  /\ \A S, q, m : q \in Seq(S) /\ m \in S => Append(q, m) \in Seq(S)
  /\ \A S, q, p : q \in Seq(S) /\ p \in Seq(S) => q \o p \in Seq(S)
  /\ \A S, q : q \in Seq(S) /\ q # <<>> => Head(q) \in S /\ Tail(q) \in Seq(S)
  OBVIOUS

LEMMA BroadcastCarries ==
  ASSUME NEW nt, NEW L, NEW n \in Node, NEW msgs \in Seq(Msg), Carries(nt, L),
         \A d \in Node : msgs \in Seq(L[n][d])
  PROVE  Carries(Broadcast(nt, n, msgs), L)
  <1>1. Broadcast(nt, n, msgs) \in [Node -> [Node -> Seq(Msg)]]
    BY BroadcastType DEF Carries
  <1>2. ASSUME NEW s \in Node, NEW d \in Node
        PROVE  Broadcast(nt, n, msgs)[s][d] \in Seq(L[s][d])
    <2>1. Broadcast(nt, n, msgs)[s][d] = nt[s][d]
          \/ (s = n /\ Broadcast(nt, n, msgs)[s][d] = nt[s][d] \o msgs)
      BY DEF Broadcast, Carries
    <2>2. nt[s][d] \in Seq(L[s][d]) /\ (s = n => msgs \in Seq(L[s][d]))
      BY DEF Carries
    <2>3. s = n => nt[s][d] \o msgs \in Seq(L[s][d])
      BY <2>2, SequenceFacts, Zenon
    <2> QED
      BY <2>1, <2>2, <2>3, Zenon
  <1> QED
    BY <1>1, <1>2 DEF Carries

LEMMA UnicastCarries ==
  ASSUME NEW nt, NEW L, NEW n \in Node, NEW e \in Node, NEW msg \in Msg,
         Carries(nt, L), msg \in L[n][e]
  PROVE  Carries(Unicast(nt, n, e, msg), L)
  <1>1. Unicast(nt, n, e, msg) \in [Node -> [Node -> Seq(Msg)]]
    BY UnicastType DEF Carries
  <1>2. ASSUME NEW s \in Node, NEW d \in Node
        PROVE  Unicast(nt, n, e, msg)[s][d] \in Seq(L[s][d])
    <2>1. Unicast(nt, n, e, msg)[s][d] = nt[s][d]
          \/ (s = n /\ d = e /\ Unicast(nt, n, e, msg)[s][d] = Append(nt[s][d], msg))
      BY DEF Unicast, Carries
    <2>2. nt[s][d] \in Seq(L[s][d])
      BY DEF Carries
    <2>3. s = n /\ d = e => Append(nt[s][d], msg) \in Seq(L[s][d])
      BY <2>2, SequenceFacts, Zenon
    <2> QED
      BY <2>1, <2>2, <2>3, Zenon
  <1> QED
    BY <1>1, <1>2 DEF Carries

LEMMA TakenCarries ==
  ASSUME NEW s \in Node, NEW n \in Node, net[s][n] # <<>>, NEW L, Carries(net, L)
  PROVE  Carries(Taken(s, n), L) /\ Head(net[s][n]) \in L[s][n]
  <1>1. Taken(s, n) \in [Node -> [Node -> Seq(Msg)]]
    BY TakenType DEF Carries
  <1>2. net[s][n] \in Seq(L[s][n])
    BY DEF Carries
  <1>3. Head(net[s][n]) \in L[s][n] /\ Tail(net[s][n]) \in Seq(L[s][n])
    BY <1>2, SequenceFacts, Zenon
  <1>4. \A a, b \in Node : \/ Taken(s, n)[a][b] = net[a][b]
                           \/ a = s /\ b = n /\ Taken(s, n)[a][b] = Tail(net[a][b])
    BY DEF Taken, Carries
  <1> QED
    BY <1>1, <1>3, <1>4 DEF Carries

(* A SIOD may say anything in its own name.                                *)
LEMMA OwnName ==
  ASSUME NEW n \in Node, NEW d \in Node
  PROVE  /\ \A x \in IO, y \in BOOLEAN : Put(n, x, y) \in Legit[n][d]
         /\ \A row \in Row : PutAll(n, row) \in Legit[n][d]
         /\ \A kind \in {"TimeRangeOut", "GSTCheckSum", "ConfigRes"} :
               Tell(kind, n) \in Legit[n][d]
  BY PutTypes DEF Legit, Put, PutAll, Tell

(* History only grows, and then more datagrams are legitimate.             *)
LEMMA LegitGrows ==
  ASSUME impersonated \subseteq impersonated', NEW nt, Carries(nt, Legit)
  PROVE  Carries(nt, Legit')
  <1>1. \A s, d \in Node : Legit[s][d] \subseteq Legit'[s][d]
    BY DEF Legit
  <1>2. \A S, T, q : S \subseteq T /\ q \in Seq(S) => q \in Seq(T)
    OBVIOUS
  <1> QED
    BY <1>1, <1>2 DEF Carries

(* So a step that keeps the history and the addresses is judged by what it *)
(* sends.                                                                  *)
LEMMA KeepsAddresses ==
  ASSUME Addressed, Typed', UNCHANGED <<IPT, impersonated>>, Carries(net', Legit)
  PROVE  Addressed'
  <1>1. Carries(net', Legit')
    BY LegitGrows
  <1> QED
    BY <1>1 DEF Addressed, AddressTable, Carries

LEMMA LearnsAddress ==
  ASSUME Addressed, Typed', UNCHANGED impersonated, Carries(net', Legit),
         NEW s \in Node, NEW n \in Node, net[s][n] # <<>>,
         Head(net[s][n]).kind # "Set", IPTset(n, Head(net[s][n]).id, s)
  PROVE  Addressed'
  <1> DEFINE id == Head(net[s][n]).id
  <1>1. Head(net[s][n]) \in Legit[s][n]
    BY TakenCarries DEF Addressed
  <1>2. id = s \/ <<s, id>> \in impersonated
    BY <1>1 DEF Legit
  <1>3. IPT' = [IPT EXCEPT ![n][id] = s]
    BY DEF IPTset
  <1> HIDE DEF id
  <1>4. AddressTable'
    <2> SUFFICES ASSUME NEW a \in Node, NEW b \in Node
                 PROVE  IPT'[a][b] \in {Unknown, b} \/ <<IPT'[a][b], b>> \in impersonated
      BY DEF AddressTable
    <2>1. IPT'[a][b] = IPT[a][b] \/ (b = id /\ IPT'[a][b] = s)
      BY <1>3 DEF Addressed, Typed, TypeOK
    <2> QED
      BY <1>2, <2>1 DEF Addressed, AddressTable
  <1>5. Carries(net', Legit')
    BY LegitGrows
  <1> QED
    BY <1>4, <1>5 DEF Addressed, Carries

-----------------------------------------------------------------------------
LEMMA ReceiveAddressed ==
  ASSUME Addressed, Typed', NEW s \in Node, NEW n \in Node, Receive(s, n)
  PROVE  Addressed'
  <1> DEFINE m == Head(net[s][n])
  <1>1. up[n] /\ net[s][n] # <<>> /\ Typed /\ Carries(net, Legit)
    BY DEF Addressed, Receive, RecvPutOwn, RecvPut, RecvPutAll, RecvSet, RecvTell,
       Arrived, Idle
  <1>2. Carries(Taken(s, n), Legit)
    BY <1>1, TakenCarries
  <1>3. CASE RecvPutOwn(s, n)
    BY <1>2, <1>3, KeepsAddresses DEF RecvPutOwn, memory, history
  <1>4. CASE RecvPut(s, n)
    BY <1>1, <1>2, <1>4, LearnsAddress DEF RecvPut, Arrived, history
  <1>5. CASE RecvPutAll(s, n)
    <2>1. GST[n][n] \in Row
      BY <1>1 DEF Typed, TypeOK, OwnRow
    <2>2. Carries(Unicast(Taken(s, n), n, s, PutAll(n, GST[n][n])), Legit)
      BY <1>2, <2>1, UnicastCarries, OwnName, PutTypes
    <2>3. Carries(net', Legit)
      BY <1>2, <1>5, <2>2 DEF RecvPutAll
    <2> QED
      BY <1>1, <1>5, <2>3, LearnsAddress DEF RecvPutAll, Arrived, history
  <1>6. CASE RecvSet(s, n)
    <2>1. m \in SetMsg
      BY <1>1, <1>6, HeadTypes DEF RecvSet, Arrived
    <2>2. m.x \in IO /\ m.y \in BOOLEAN
      BY <2>1 DEF SetMsg, IO
    <2>3. Carries(Broadcast(Taken(s, n), n, <<Put(n, m.x, m.y)>>), Legit)
      <3>1. <<Put(n, m.x, m.y)>> \in Seq(Msg)
        BY <2>2, PutTypes, SingleType
      <3>2. \A d \in Node : <<Put(n, m.x, m.y)>> \in Seq(Legit[n][d])
        BY <2>2, OwnName, SingleType
      <3> QED
        BY <1>2, <3>1, <3>2, BroadcastCarries
    <2>4. Carries(Unicast(Taken(s, n), n, s, Tell("TimeRangeOut", n)), Legit)
      BY <1>2, UnicastCarries, OwnName, PutTypes
    <2>5. Carries(net', Legit) /\ UNCHANGED <<IPT, impersonated>>
      BY <1>6, <2>3, <2>4 DEF RecvSet
    <2> QED
      BY <2>5, KeepsAddresses
  <1>7. CASE RecvTell(s, n)
    BY <1>1, <1>2, <1>7, LearnsAddress DEF RecvTell, Arrived, history
  <1> QED
    BY <1>3, <1>4, <1>5, <1>6, <1>7 DEF Receive

(* What a SIOD broadcasts of itself.                                       *)
LEMMA SpeaksForItself ==
  ASSUME Addressed, Typed', NEW n \in Node, UNCHANGED <<IPT, impersonated>>,
         NEW msgs \in Seq(Msg), \A d \in Node : msgs \in Seq(Legit[n][d]),
         net' = Broadcast(net, n, msgs)
  PROVE  Addressed'
  BY BroadcastCarries, KeepsAddresses DEF Addressed

LEMMA PutsItself ==
  ASSUME Addressed, Typed', NEW n \in Node, UNCHANGED <<IPT, impersonated>>,
         NEW x \in IO, NEW y \in BOOLEAN,
         net' = Broadcast(net, n, <<Put(n, x, y)>>)
  PROVE  Addressed'
  <1>1. <<Put(n, x, y)>> \in Seq(Msg)
    BY PutTypes, SingleType
  <1>2. \A d \in Node : <<Put(n, x, y)>> \in Seq(Legit[n][d])
    BY OwnName, SingleType
  <1> QED
    BY <1>1, <1>2, SpeaksForItself

LEMMA PutsAllOfItself ==
  ASSUME Addressed, Typed', NEW n \in Node, UNCHANGED <<IPT, impersonated>>,
         NEW row \in Row, net' = Broadcast(net, n, <<PutAll(n, row)>>)
  PROVE  Addressed'
  <1>1. <<PutAll(n, row)>> \in Seq(Msg)
    BY PutTypes, SingleType
  <1>2. \A d \in Node : <<PutAll(n, row)>> \in Seq(Legit[n][d])
    BY OwnName, SingleType
  <1> QED
    BY <1>1, <1>2, SpeaksForItself

LEMMA ReportsItself ==
  ASSUME Addressed, Typed', NEW n \in Node, UNCHANGED <<IPT, impersonated>>,
         NEW xs \in SUBSET IO, net' = Broadcast(net, n, Reports(n, xs))
  PROVE  Addressed'
  <1>1. PinsType
    BY TypedParts DEF Addressed
  <1>2. Reports(n, xs) \in Seq(Msg)
    BY <1>1, PutTypes, ReportsType
  <1>3. \A d \in Node : Reports(n, xs) \in Seq(Legit[n][d])
    <2> SUFFICES ASSUME NEW d \in Node PROVE Reports(n, xs) \in Seq(Legit[n][d])
      OBVIOUS
    <2>1. \A x \in IO, y \in BOOLEAN : Put(n, x, y) \in Legit[n][d]
      BY OwnName
    <2> QED
      BY <1>1, <2>1, ReportsType
  <1> QED
    BY <1>2, <1>3, SpeaksForItself

LEMMA ClientAddressed ==
  ASSUME Addressed, Typed', NEW n \in Node, Client(n)
  PROVE  Addressed'
  <1>1. ASSUME NEW x \in SetX, NEW y \in BOOLEAN, ClientSet(n, x, y)
        PROVE  Addressed'
    <2>1. x \in IO
      BY LinesAssumption
    <2> QED
      BY <1>1, <2>1, PutsItself DEF ClientSet
  <1>2. ASSUME NEW ys \in [Outputs -> BOOLEAN], ClientSetAll(n, ys)
        PROVE  Addressed'
    <2>1. GST'[n][n] \in Row
      BY <1>2, SetgpioAllType, TypedParts DEF Addressed, ClientSetAll, Idle
    <2> QED
      BY <1>2, <2>1, PutsAllOfItself DEF ClientSetAll
  <1>3. ASSUME NEW xs \in SUBSET IO, ClientGet(n, xs)
        PROVE  Addressed'
    BY <1>3, ReportsItself DEF ClientGet, history
  <1>4. ASSUME NEW kind \in {"GSTCheckSum", "ConfigRes"}, ClientQuery(n, kind)
        PROVE  Addressed'
    <2>1. <<Tell(kind, n)>> \in Seq(Msg)
      BY PutTypes, SingleType
    <2>2. \A d \in Node : <<Tell(kind, n)>> \in Seq(Legit[n][d])
      BY OwnName, SingleType
    <2> QED
      BY <1>4, <2>1, <2>2, SpeaksForItself DEF ClientQuery, memory, history
  <1> QED
    BY <1>1, <1>2, <1>3, <1>4 DEF Client

(* The IVR makes a SIOD speak in the name of another, and records it.      *)
LEMMA IVRAddressed ==
  ASSUME Addressed, Typed', NEW n \in Node, IVR(n)
  PROVE  Addressed'
  <1>1. ASSUME NEW x \in Outputs, NEW y \in BOOLEAN, IVRSetReqOwn(n, x, y)
        PROVE  Addressed'
    <2>1. x \in IO /\ UNCHANGED <<IPT, impersonated>>
      BY <1>1 DEF IO, IVRSetReqOwn
    <2>2. CASE inRange[n]
      BY <1>1, <2>1, <2>2, PutsItself DEF IVRSetReqOwn
    <2>3. CASE ~inRange[n]
      BY <1>1, <2>1, <2>3, KeepsAddresses DEF IVRSetReqOwn, Addressed
    <2> QED
      BY <2>2, <2>3
  <1>2. ASSUME NEW m \in Node, IVRSetReqUnknown(n, m)
        PROVE  Addressed'
    BY <1>2, KeepsAddresses DEF IVRSetReqUnknown, Addressed, history
  <1>3. ASSUME NEW m \in Node, NEW x \in Outputs, NEW y \in BOOLEAN,
               IVRSetReqRemote(n, m, x, y)
        PROVE  Addressed'
    <2>1. /\ net' = Broadcast(net, n, <<Put(m, x, y)>>)
          /\ impersonated' = impersonated \cup {<<n, m>>}
          /\ UNCHANGED IPT
      BY <1>3 DEF IVRSetReqRemote
    <2>2. Carries(net, Legit')
      BY <2>1, LegitGrows DEF Addressed
    <2>3. Put(m, x, y) \in Msg
      BY PutTypes DEF IO
    <2>4. \A d \in Node : Put(m, x, y) \in Legit'[n][d]
      BY <2>1, <2>3 DEF Legit, Put
    <2>5. Carries(net', Legit')
      <3> HIDE DEF Legit
      <3> QED BY <2>1, <2>2, <2>3, <2>4, BroadcastCarries, SingleType
    <2>6. AddressTable'
      BY <2>1 DEF Addressed, AddressTable
    <2> QED
      BY <2>5, <2>6 DEF Addressed, Carries
  <1> QED
    BY <1>1, <1>2, <1>3 DEF IVR

(* A rule sends its Set to the address it has for the target.              *)
LEMMA PLCAddressed ==
  ASSUME Addressed, Typed', NEW n \in Node, Tick(n) \/ PLCStep(n)
  PROVE  Addressed'
  <1> DEFINE r == ThisRule(n)
  <1>1. CASE Tick(n)
    BY <1>1, ReportsItself DEF Tick, history
  <1>2. CASE PLCSkip(n) \/ PLCRearm(n) \/ PLCFireNowhere(n)
    <2>1. UNCHANGED <<IPT, impersonated, net>>
      BY <1>2 DEF PLCSkip, PLCRearm, PLCFireNowhere, history
    <2> QED
      BY <2>1, KeepsAddresses DEF Addressed
  <1>3. ASSUME scan[n] # 0 PROVE r \in Rule
    BY <1>3, ThisRuleType DEF Addressed, Typed
  <1>4. CASE PLCFireLocal(n)
    <2>1. r \in Rule
      BY <1>3, <1>4 DEF PLCFireLocal, Fires
    <2>2. r.x1 \in IO /\ r.y1 \in BOOLEAN
      BY <2>1 DEF Rule, IO
    <2> QED
      BY <1>4, <2>2, PutsItself DEF PLCFireLocal
  <1>5. CASE PLCFireRemote(n)
    <2> DEFINE d == IPT[n][r.id1]
               msg == [kind |-> "Set", x |-> r.x1, y |-> r.y1, aim |-> r.id1]
    <2>1. r \in Rule
      BY <1>3, <1>5 DEF PLCFireRemote, Fires
    <2>2. /\ net' = Unicast(net, n, d, msg) /\ d # Unknown
          /\ UNCHANGED <<IPT, impersonated>>
      BY <1>5 DEF PLCFireRemote, history
    <2>3. msg \in Msg /\ msg.kind = "Set" /\ msg.aim = r.id1 /\ r.id1 \in Node
      BY <2>1 DEF Rule, Msg, SetMsg
    <2>4. d \in Node
      BY <2>2, <2>3 DEF Addressed, Typed, TypeOK
    <2>5. r.id1 = d \/ <<d, r.id1>> \in impersonated
      BY <2>2, <2>3 DEF Addressed, AddressTable
    <2> HIDE DEF d, msg
    <2>6. msg \in Legit[n][d]
      BY <2>3, <2>4, <2>5 DEF Legit
    <2>7. Carries(net', Legit)
      BY <2>2, <2>3, <2>4, <2>6, UnicastCarries DEF Addressed
    <2> QED
      BY <2>2, <2>7, KeepsAddresses
  <1> QED
    BY <1>1, <1>2, <1>4, <1>5 DEF PLCStep

(* Loss and reordering move nothing to another pair of SIODs.              *)
LEMMA NetworkAddressed ==
  ASSUME Addressed, Typed', NEW s \in Node, NEW d \in Node, Network(s, d)
  PROVE  Addressed'
  <1> DEFINE q == net[s][d]
             L == Legit[s][d]
  <1>1. q \in Seq(L) /\ net \in [Node -> [Node -> Seq(Msg)]]
    BY DEF Addressed, Carries
  <1>2. ASSUME NEW p \in Seq(L), net' = [net EXCEPT ![s][d] = p],
               UNCHANGED <<IPT, impersonated>>
        PROVE  Addressed'
    <2>1. net' \in [Node -> [Node -> Seq(Msg)]]
      BY DEF Typed, TypeOK
    <2>2. \A a, b \in Node : net'[a][b] = net[a][b] \/ (a = s /\ b = d /\ net'[a][b] = p)
      BY <1>1, <1>2
    <2>3. Carries(net', Legit)
      <3> HIDE DEF L
      <3>1. p \in Seq(Legit[s][d])
        BY <1>2 DEF L
      <3> QED BY <2>1, <2>2, <3>1 DEF Addressed, Carries
    <2> QED
      BY <1>2, <2>3, KeepsAddresses
  <1>3. CASE Unheard(s, d)
    <2>1. Carries(net', Legit) /\ UNCHANGED <<IPT, impersonated>>
      BY <1>3, TakenCarries DEF Unheard, Addressed, memory, history
    <2> QED
      BY <2>1, KeepsAddresses
  <1>4. ASSUME NEW i \in 1 .. Len(q), Lose(s, d, i)
        PROVE  Addressed'
    <2> DEFINE p == SubSeq(q, 1, i - 1) \o SubSeq(q, i + 1, Len(q))
    <2>1. p \in Seq(L)
      <3> HIDE DEF L
      <3> QED BY <1>1
    <2>2. net' = [net EXCEPT ![s][d] = p] /\ UNCHANGED <<IPT, impersonated>>
      BY <1>4 DEF Lose, memory, history
    <2> QED
      BY <1>2, <2>1, <2>2
  <1>5. ASSUME NEW i \in 1 .. Len(q), Overtake(s, d, i)
        PROVE  Addressed'
    <2> DEFINE p == [q EXCEPT ![i] = q[i + 1], ![i + 1] = q[i]]
    <2>1. p \in Seq(L)
      <3> HIDE DEF L
      <3>1. i \in 1 .. Len(q) - 1
        BY <1>5 DEF Overtake
      <3> QED BY <1>1, <3>1
    <2>2. net' = [net EXCEPT ![s][d] = p] /\ UNCHANGED <<IPT, impersonated>>
      BY <1>5 DEF Overtake, memory, history
    <2> QED
      BY <1>2, <2>1, <2>2
  <1> QED
    BY <1>3, <1>4, <1>5 DEF Network

(* A restart forgets addresses, and learns none.                           *)
LEMMA DeviceAddressed ==
  ASSUME Addressed, Typed', NEW n \in Node,
         \/ Boot(n) \/ Failure(n) \/ Surroundings(n)
         \/ \E x \in Outputs : RelayFault(n, x)
  PROVE  Addressed'
  <1>1. CASE Boot(n)
    <2> DEFINE row == [x \in IO |-> IF x \in Outputs THEN saved[n][x] ELSE wire[n][x]]
    <2>1. row \in Row
      BY DEF Addressed, Typed, TypeOK, Row
    <2>2. net' = Broadcast(net, n, <<PutAll(n, row)>>) /\ UNCHANGED <<IPT, impersonated>>
      BY <1>1 DEF Boot
    <2> HIDE DEF row
    <2> QED
      BY <2>1, <2>2, PutsAllOfItself
  <1>2. CASE Failure(n)
    <2>1. /\ IPT' = [IPT EXCEPT ![n] = [m \in Node |-> Unknown]]
          /\ UNCHANGED <<net, impersonated>>
      BY <1>2 DEF Failure, Crash, CrashInSetgpio, Forget, history
    <2>2. AddressTable'
      BY <2>1 DEF Addressed, Typed, TypeOK, AddressTable
    <2>3. Carries(net', Legit')
      BY <2>1, LegitGrows DEF Addressed
    <2> QED
      BY <2>2, <2>3 DEF Addressed, Carries
  <1>3. CASE Surroundings(n) \/ \E x \in Outputs : RelayFault(n, x)
    <2>1. UNCHANGED <<IPT, impersonated, net>>
      BY <1>3 DEF Surroundings, Flip, WindowChange, RelayFault, memory, history
    <2> QED
      BY <2>1, KeepsAddresses DEF Addressed
  <1> QED
    BY <1>1, <1>2, <1>3

LEMMA NextAddressed == Addressed /\ [Next]_vars => Addressed'
  <1> SUFFICES ASSUME Addressed, [Next]_vars PROVE Addressed'
    OBVIOUS
  <1>1. Typed'
    BY NextTyped DEF Addressed
  <1>2. CASE UNCHANGED vars
    BY <1>1, <1>2, KeepsAddresses DEF vars, memory, history, Addressed
  <1>3. ASSUME NEW n \in Node, Process(n) PROVE Addressed'
    BY <1>1, <1>3, ReceiveAddressed, PLCAddressed DEF Process
  <1> QED
    BY <1>1, <1>2, <1>3, ClientAddressed, IVRAddressed, NetworkAddressed, DeviceAddressed
    DEF Next

LEMMA AlwaysAddressed == Spec => []Addressed
  <1>1. Init => Addressed
    <2>1. Init => AddressTable /\ Carries(net, Legit)
      BY DEF Init, AddressTable, Carries
    <2> QED
      BY <2>1, InitTyped DEF Addressed
  <1> QED
    BY <1>1, NextAddressed, PTL DEF Spec

(* Every address that a SIOD holds for another is that SIOD's own, or the  *)
(* address of one that the IVR let speak in its name.                      *)
THEOREM Addresses == Spec => []AddressTable
  <1>1. Addressed => AddressTable
    BY DEF Addressed
  <1> QED
    BY <1>1, AlwaysAddressed, PTL

(* Every Set in flight is on its way to the SIOD that the PLC rule names,  *)
(* or to one that the IVR let speak in its name.                           *)
THEOREM Sets == Spec => []SetReachesTarget
  <1>1. Addressed => SetReachesTarget
    <2> SUFFICES ASSUME Addressed, NEW s \in Node, NEW d \in Node,
                        NEW i \in 1 .. Len(net[s][d]), net[s][d][i].kind = "Set"
                 PROVE  \/ net[s][d][i].aim = d
                        \/ <<d, net[s][d][i].aim>> \in impersonated
      BY DEF SetReachesTarget
    <2>1. net[s][d] \in Seq(Legit[s][d])
      BY DEF Addressed, Carries
    <2>2. net[s][d][i] \in Legit[s][d]
      BY <2>1
    <2> QED
      BY <2>2 DEF Legit
  <1> QED
    BY <1>1, AlwaysAddressed, PTL

(* As long as the IVR lets nobody speak in another's name, addresses are   *)
(* exact.                                                                  *)
COROLLARY AddressesWithoutIVR ==
  Spec /\ [](impersonated = {}) => []AddressesCorrect
  <1>1. AddressTable /\ impersonated = {} => AddressesCorrect
    BY DEF AddressTable, AddressesCorrect
  <1> QED
    BY <1>1, Addresses, PTL

-----------------------------------------------------------------------------
(* The Global Status Table as a map of the mesh.  A datagram of m that      *)
(* speaks of its line x says the level that the line had when it was sent,  *)
(* so while datagrams neither get lost nor overtake each other the last one *)
(* of them in flight to n says the level of now, and when there is none n   *)
(* has it already.                                                          *)
Says(msg, x) == IF msg.kind = "Put" THEN msg.y ELSE msg.row[x]

Silent(q, m, x) == \A i \in 1 .. Len(q) : ~ SpeaksOf(q, i, m, x)

Only(q, m, x, v) == \A i \in 1 .. Len(q) : SpeaksOf(q, i, m, x) => Says(q[i], x) = v

LastOf(q, i, m, x) ==
    SpeaksOf(q, i, m, x) /\ \A j \in 1 .. Len(q) : SpeaksOf(q, j, m, x) => j <= i

(* The channel q from m, and what the receiver knows of m.                  *)
Consistent(q, known, m, x, v) ==
    /\ \A i \in 1 .. Len(q) : LastOf(q, i, m, x) => Says(q[i], x) = v
    /\ Silent(q, m, x) => known = Unknown \/ known[x] = v

InSync(nt, tbl, u) ==
    \A m, n \in Node : \A x \in IO :
       m # n /\ u[m] => Consistent(nt[m][n], tbl[n][m], m, x, tbl[m][m][x])

LEMMA Joined ==
  ASSUME NEW S, NEW q \in Seq(S), NEW r \in Seq(S), NEW m, NEW x, NEW v
  PROVE  /\ Silent(q \o r, m, x) <=> Silent(q, m, x) /\ Silent(r, m, x)
         /\ Only(q \o r, m, x, v) <=> Only(q, m, x, v) /\ Only(r, m, x, v)
         /\ \A known : /\ ~ Silent(r, m, x) /\ Only(r, m, x, v)
                            => Consistent(q \o r, known, m, x, v)
                       /\ Silent(r, m, x) /\ Consistent(q, known, m, x, v)
                            => Consistent(q \o r, known, m, x, v)
  <1>1. PICK a \in Nat : a = Len(q)  OBVIOUS
  <1>2. PICK b \in Nat : b = Len(r)  OBVIOUS
  <1>0. q \o r \in Seq(S)  OBVIOUS
  <1>3. PICK p \in Seq(S) : p = q \o r  BY <1>0, Zenon
  <1>4. Len(p) = a + b  BY <1>1, <1>2, <1>3
  <1>5. \A i \in 1 .. a : p[i] = q[i]  BY <1>1, <1>3
  <1>6. \A i \in 1 .. b : a + i \in 1 .. a + b /\ p[a + i] = r[i]
    BY <1>1, <1>2, <1>3
  <1>7. \A i \in 1 .. a + b : i \in 1 .. a \/ i - a \in 1 .. b  OBVIOUS
  <1>8. \A i \in 1 .. a : SpeaksOf(p, i, m, x) <=> SpeaksOf(q, i, m, x)
    BY <1>5 DEF SpeaksOf
  <1>9. \A i \in 1 .. b : SpeaksOf(p, a + i, m, x) <=> SpeaksOf(r, i, m, x)
    BY <1>6 DEF SpeaksOf
  <1>10. \A i \in 1 .. a + b : i \in 1 .. a \/ \E j \in 1 .. b : i = a + j
    <2> SUFFICES ASSUME NEW i \in 1 .. a + b, i \notin 1 .. a
                 PROVE  \E j \in 1 .. b : i = a + j
      OBVIOUS
    <2>1. i - a \in 1 .. b /\ i = a + (i - a)  OBVIOUS
    <2> QED  BY <2>1
  <1>11. Silent(p, m, x) <=> Silent(q, m, x) /\ Silent(r, m, x)
    <2>1. ASSUME Silent(p, m, x) PROVE Silent(q, m, x) /\ Silent(r, m, x)
      BY <1>1, <1>2, <1>4, <1>6, <1>8, <1>9, <2>1 DEF Silent
    <2>2. ASSUME Silent(q, m, x), Silent(r, m, x) PROVE Silent(p, m, x)
      BY <1>1, <1>2, <1>4, <1>8, <1>9, <1>10, <2>2 DEF Silent
    <2> QED  BY <2>1, <2>2
  <1>12. Only(p, m, x, v) <=> Only(q, m, x, v) /\ Only(r, m, x, v)
    <2>1. ASSUME Only(p, m, x, v) PROVE Only(q, m, x, v) /\ Only(r, m, x, v)
      BY <1>1, <1>2, <1>4, <1>5, <1>6, <1>8, <1>9, <2>1 DEF Only
    <2>2. ASSUME Only(q, m, x, v), Only(r, m, x, v),
                 NEW i \in 1 .. a + b, SpeaksOf(p, i, m, x)
          PROVE  Says(p[i], x) = v
      <3>1. CASE i \in 1 .. a
        BY <1>1, <1>5, <1>8, <2>2, <3>1 DEF Only
      <3>2. ASSUME NEW j \in 1 .. b, i = a + j PROVE Says(p[i], x) = v
        BY <1>2, <1>6, <1>9, <2>2, <3>2 DEF Only
      <3> QED  BY <1>10, <3>1, <3>2
    <2>3. ASSUME Only(q, m, x, v), Only(r, m, x, v) PROVE Only(p, m, x, v)
      BY <1>4, <2>2, <2>3 DEF Only
    <2> QED  BY <2>1, <2>3
  <1>13. ASSUME NEW known, ~ Silent(r, m, x), Only(r, m, x, v)
         PROVE  Consistent(p, known, m, x, v)
    <2>1. PICK j \in 1 .. b : SpeaksOf(r, j, m, x)  BY <1>2, <1>13 DEF Silent
    <2>2. SpeaksOf(p, a + j, m, x) /\ a + j \in 1 .. a + b  BY <1>6, <1>9, <2>1
    <2>3. ~ Silent(p, m, x)  BY <1>11, <1>13
    <2>4. ASSUME NEW i \in 1 .. a + b, LastOf(p, i, m, x) PROVE Says(p[i], x) = v
      <3>1. a + j <= i  BY <1>4, <2>2, <2>4 DEF LastOf
      <3>2. PICK k \in 1 .. b : i = a + k  BY <1>10, <3>1
      <3>3. SpeaksOf(r, k, m, x) /\ p[i] = r[k]  BY <1>6, <1>9, <2>4, <3>2 DEF LastOf
      <3> QED  BY <1>2, <1>13, <3>3 DEF Only
    <2> QED  BY <1>4, <2>3, <2>4 DEF Consistent
  <1>14. ASSUME NEW known, Silent(r, m, x), Consistent(q, known, m, x, v)
         PROVE  Consistent(p, known, m, x, v)
    <2>1. ASSUME NEW i \in 1 .. a + b, LastOf(p, i, m, x) PROVE Says(p[i], x) = v
      <3>1. i \in 1 .. a
        BY <1>2, <1>9, <1>10, <1>14, <2>1 DEF Silent, LastOf
      <3>2. LastOf(q, i, m, x)
        <4>1. \A j \in 1 .. a : SpeaksOf(q, j, m, x) => j <= i
          BY <1>4, <1>8, <2>1 DEF LastOf
        <4> QED  BY <1>1, <1>8, <2>1, <3>1, <4>1 DEF LastOf
      <3> QED  BY <1>1, <1>5, <1>14, <3>1, <3>2 DEF Consistent
    <2>2. Silent(p, m, x) => known = Unknown \/ known[x] = v
      BY <1>11, <1>14 DEF Consistent
    <2> QED  BY <1>4, <2>1, <2>2 DEF Consistent
  <1> QED  BY <1>3, <1>11, <1>12, <1>13, <1>14

(* The receiver takes the first datagram, and knows what it says, or what   *)
(* it knew before when it does not speak of the line, or nothing.           *)
Learns(q, known, new, m, x) ==
    \/ new = Unknown
    \/ SpeaksOf(q, 1, m, x) /\ new[x] = Says(q[1], x)
    \/ ~ SpeaksOf(q, 1, m, x) /\ known # Unknown /\ new[x] = known[x]

LEMMA FirstTaken ==
  ASSUME NEW S, NEW q \in Seq(S), q # <<>>, NEW m, NEW x, NEW v, NEW known, NEW new,
         Consistent(q, known, m, x, v), Learns(q, known, new, m, x)
  PROVE  Consistent(Tail(q), new, m, x, v)
  <1>1. PICK a \in Nat : Len(q) = a + 1
    <2>1. Len(q) - 1 \in Nat /\ Len(q) = (Len(q) - 1) + 1  OBVIOUS
    <2> QED  BY <2>1
  <1>0. Tail(q) \in Seq(S)  OBVIOUS
  <1>2. PICK p \in Seq(S) : p = Tail(q)  BY <1>0, Zenon
  <1>3. Len(p) = a /\ \A i \in 1 .. a : p[i] = q[i + 1]  BY <1>1, <1>2
  <1>4. \A i \in 1 .. a : i + 1 \in 1 .. a + 1
                          /\ (SpeaksOf(p, i, m, x) <=> SpeaksOf(q, i + 1, m, x))
    BY <1>3 DEF SpeaksOf
  <1>5. \A i \in 1 .. a + 1 : i = 1 \/ \E j \in 1 .. a : i = j + 1
    <2> SUFFICES ASSUME NEW i \in 1 .. a + 1, i # 1 PROVE \E j \in 1 .. a : i = j + 1
      OBVIOUS
    <2>1. i - 1 \in 1 .. a /\ i = (i - 1) + 1  OBVIOUS
    <2> QED  BY <2>1
  <1>6. ASSUME NEW i \in 1 .. a, LastOf(p, i, m, x) PROVE Says(p[i], x) = v
    <2>1. \A j \in 1 .. a + 1 : SpeaksOf(q, j, m, x) => j <= i + 1
      <3> SUFFICES ASSUME NEW j \in 1 .. a + 1, SpeaksOf(q, j, m, x) PROVE j <= i + 1
        OBVIOUS
      <3>1. CASE j = 1  BY <3>1
      <3>2. ASSUME NEW k \in 1 .. a, j = k + 1 PROVE j <= i + 1
        <4>1. SpeaksOf(p, k, m, x)  BY <1>4, <3>2
        <4>2. k <= i  BY <1>3, <1>6, <4>1 DEF LastOf
        <4> QED  BY <3>2, <4>2
      <3> QED  BY <1>5, <3>1, <3>2
    <2>2. LastOf(q, i + 1, m, x)  BY <1>1, <1>4, <1>6, <2>1 DEF LastOf
    <2> QED  BY <1>1, <1>3, <1>4, <2>2 DEF Consistent
  <1>7. ASSUME Silent(p, m, x) PROVE new = Unknown \/ new[x] = v
    <2>1. \A i \in 1 .. a + 1 : SpeaksOf(q, i, m, x) => i = 1
      BY <1>3, <1>4, <1>5, <1>7 DEF Silent
    <2>2. 1 \in 1 .. a + 1  OBVIOUS
    <2>3. CASE SpeaksOf(q, 1, m, x)
      <3>1. LastOf(q, 1, m, x)  BY <1>1, <2>1, <2>3 DEF LastOf
      <3> QED  BY <1>1, <2>2, <2>3, <3>1 DEF Consistent, Learns
    <2>4. CASE ~ SpeaksOf(q, 1, m, x)
      <3>1. Silent(q, m, x)  BY <1>1, <2>1, <2>4 DEF Silent
      <3> QED  BY <2>4, <3>1 DEF Consistent, Learns
    <2> QED  BY <2>3, <2>4
  <1> QED  BY <1>2, <1>3, <1>6, <1>7 DEF Consistent

(* The datagrams in flight while nobody speaks in the name of another.      *)
Own == [s \in Node |-> [d \in Node |-> {m \in Msg : m.kind # "Set" => m.id = s}]]

-----------------------------------------------------------------------------
(* n says something to everybody about its own lines; u2 has n running.     *)
LEMMA SaidInSync ==
  ASSUME NEW nt \in [Node -> [Node -> Seq(Msg)]], NEW tbl, NEW u, InSync(nt, tbl, u),
         NEW n \in Node, NEW msgs \in Seq(Msg), NEW tbl2, NEW u2,
         \A a, m \in Node : a # n \/ m # n => tbl2[a][m] = tbl[a][m],
         \A m \in Node \ {n} : u2[m] => u[m],
         \A x \in IO : \/ ~ Silent(msgs, n, x) /\ Only(msgs, n, x, tbl2[n][n][x])
                       \/ u[n] /\ Silent(msgs, n, x) /\ tbl2[n][n][x] = tbl[n][n][x]
  PROVE  InSync(Broadcast(nt, n, msgs), tbl2, u2)
  <1> SUFFICES ASSUME NEW m \in Node, NEW a \in Node, NEW x \in IO, m # a, u2[m]
               PROVE  Consistent(Broadcast(nt, n, msgs)[m][a], tbl2[a][m], m, x, tbl2[m][m][x])
    BY DEF InSync
  <1>1. tbl2[a][m] = tbl[a][m]  OBVIOUS
  <1>2. CASE m # n
    <2>1. Broadcast(nt, n, msgs)[m][a] = nt[m][a]  BY <1>2 DEF Broadcast
    <2>2. u[m] /\ tbl2[m][m] = tbl[m][m]  BY <1>2
    <2> QED  BY <1>1, <2>1, <2>2 DEF InSync
  <1>3. CASE m = n
    <2>1. Broadcast(nt, n, msgs)[m][a] = nt[m][a] \o msgs  BY <1>3 DEF Broadcast
    <2>2. nt[m][a] \in Seq(Msg)  OBVIOUS
    <2>3. CASE ~ Silent(msgs, n, x) /\ Only(msgs, n, x, tbl2[n][n][x])
      BY <1>3, <2>1, <2>2, <2>3, Joined
    <2>4. CASE u[n] /\ Silent(msgs, n, x) /\ tbl2[n][n][x] = tbl[n][n][x]
      <3>1. Consistent(nt[m][a], tbl[a][m], m, x, tbl2[m][m][x])
        BY <1>3, <2>4 DEF InSync
      <3> QED  BY <1>1, <1>3, <2>1, <2>2, <2>4, <3>1, Joined
    <2> QED  BY <2>3, <2>4
  <1> QED  BY <1>2, <1>3

(* n sends e something that is true of it, or not about it.                 *)
LEMMA SentInSync ==
  ASSUME NEW nt \in [Node -> [Node -> Seq(Msg)]], NEW tbl, NEW u, InSync(nt, tbl, u),
         NEW n \in Node, NEW e \in Node, NEW msg \in Msg,
         \A x \in IO : \/ ~ Silent(<<msg>>, n, x) /\ Only(<<msg>>, n, x, tbl[n][n][x])
                       \/ Silent(<<msg>>, n, x)
  PROVE  InSync(Unicast(nt, n, e, msg), tbl, u)
  <1> SUFFICES ASSUME NEW m \in Node, NEW a \in Node, NEW x \in IO, m # a, u[m]
               PROVE  Consistent(Unicast(nt, n, e, msg)[m][a], tbl[a][m], m, x, tbl[m][m][x])
    BY DEF InSync
  <1>1. Consistent(nt[m][a], tbl[a][m], m, x, tbl[m][m][x])  BY DEF InSync
  <1>2. CASE m # n \/ a # e
    <2>1. Unicast(nt, n, e, msg)[m][a] = nt[m][a]  BY <1>2 DEF Unicast
    <2> QED  BY <1>1, <2>1
  <1>3. CASE m = n /\ a = e
    <2>1. PICK q \in Seq(Msg) : q = nt[m][a]  OBVIOUS
    <2>2. Unicast(nt, n, e, msg)[m][a] = Append(q, msg)  BY <1>3, <2>1 DEF Unicast
    <2>3. Append(q, msg) = q \o <<msg>> /\ <<msg>> \in Seq(Msg)  OBVIOUS
    <2>4. Consistent(q, tbl[a][m], m, x, tbl[m][m][x])  BY <1>1, <2>1
    <2>5. \/ ~ Silent(<<msg>>, m, x) /\ Only(<<msg>>, m, x, tbl[m][m][x])
          \/ Silent(<<msg>>, m, x)
      BY <1>3
    <2>6. Consistent(q \o <<msg>>, tbl[a][m], m, x, tbl[m][m][x])
      BY <2>3, <2>4, <2>5, Joined
    <2> QED  BY <2>2, <2>3, <2>6
  <1> QED  BY <1>2, <1>3

(* n takes what s sent, and learns from it about s only.                    *)
LEMMA TakenInSync ==
  ASSUME Carries(net, Own), NEW tbl, NEW u, InSync(net, tbl, u),
         NEW s \in Node, NEW n \in Node, s # n, net[s][n] # <<>>, NEW tbl2,
         \A a, m \in Node : a # n \/ m # s => tbl2[a][m] = tbl[a][m],
         \A x \in IO : Learns(net[s][n], tbl[n][s], tbl2[n][s], s, x)
  PROVE  InSync(Taken(s, n), tbl2, u)
  <1> SUFFICES ASSUME NEW m \in Node, NEW a \in Node, NEW x \in IO, m # a, u[m]
               PROVE  Consistent(Taken(s, n)[m][a], tbl2[a][m], m, x, tbl2[m][m][x])
    BY DEF InSync
  <1>1. Consistent(net[m][a], tbl[a][m], m, x, tbl[m][m][x]) /\ net[m][a] \in Seq(Msg)
    BY DEF InSync, Carries
  <1>2. tbl2[m][m] = tbl[m][m]  OBVIOUS
  <1>3. CASE m # s \/ a # n
    <2>1. Taken(s, n)[m][a] = net[m][a]  BY <1>3 DEF Taken, Carries
    <2>2. tbl2[a][m] = tbl[a][m]  BY <1>3
    <2> QED  BY <1>1, <1>2, <2>1, <2>2
  <1>4. CASE m = s /\ a = n
    <2>1. Taken(s, n)[m][a] = Tail(net[m][a])  BY <1>4 DEF Taken, Carries
    <2>2. Learns(net[m][a], tbl[a][m], tbl2[a][m], m, x)  BY <1>4
    <2>3. net[m][a] # <<>>  BY <1>4
    <2> QED  BY <1>1, <1>2, <2>1, <2>2, <2>3, FirstTaken
  <1> QED  BY <1>3, <1>4

(* What single datagrams say.                                               *)
LEMMA SinglesSay ==
  ASSUME NEW n
  PROVE  /\ \A x, y : Only(<<Put(n, x, y)>>, n, x, y) /\ ~ Silent(<<Put(n, x, y)>>, n, x)
         /\ \A x, y, z : z # x => Silent(<<Put(n, x, y)>>, n, z)
         /\ \A row, x : /\ Only(<<PutAll(n, row)>>, n, x, row[x])
                        /\ ~ Silent(<<PutAll(n, row)>>, n, x)
         /\ \A msg, x : msg.kind \notin {"Put", "PutAll"} => Silent(<<msg>>, n, x)
  <1>1. \A msg : Len(<<msg>>) = 1 /\ <<msg>>[1] = msg  OBVIOUS
  <1>2. 1 .. 1 = {1}  OBVIOUS
  <1>3. \A msg, x : Silent(<<msg>>, n, x) <=> ~ SpeaksOf(<<msg>>, 1, n, x)
    BY <1>1, <1>2 DEF Silent
  <1>4. \A msg, x, v : Only(<<msg>>, n, x, v) <=> (SpeaksOf(<<msg>>, 1, n, x) => Says(msg, x) = v)
    BY <1>1, <1>2 DEF Only
  <1>5. \A x, y, z : SpeaksOf(<<Put(n, x, y)>>, 1, n, z) <=> x = z
    BY <1>1 DEF SpeaksOf, Put
  <1>6. \A row, x : SpeaksOf(<<PutAll(n, row)>>, 1, n, x)
    BY <1>1 DEF SpeaksOf, PutAll
  <1>7. \A msg, x : msg.kind \notin {"Put", "PutAll"} => ~ SpeaksOf(<<msg>>, 1, n, x)
    BY <1>1 DEF SpeaksOf
  <1>8. \A x, y : Says(Put(n, x, y), x) = y  BY DEF Says, Put
  <1>9. \A row, x : Says(PutAll(n, row), x) = row[x]  BY DEF Says, PutAll
  <1> QED  BY <1>3, <1>4, <1>5, <1>6, <1>7, <1>8, <1>9

(* getgpio reports the inputs that changed, with their levels.              *)
LEMMA ReportsSay ==
  ASSUME PinsType, NEW n \in Node, NEW xs \in SUBSET IO, NEW x \in IO
  PROVE  /\ Only(Reports(n, xs), n, x, wire[n][x])
         /\ Silent(Reports(n, xs), n, x)
              <=> ~ (x \in Inputs \cap xs /\ wire[n][x] # GST[n][n][x])
  <1>1. \A k : /\ Report(n, k, xs) \in Seq(Msg)
               /\ Only(Report(n, k, xs), n, x, wire[n][x])
               /\ Silent(Report(n, k, xs), n, x)
                    <=> ~ (k = x /\ x \in Inputs \cap xs /\ wire[n][x] # GST[n][n][x])
    <2> SUFFICES ASSUME NEW k
                 PROVE  /\ Report(n, k, xs) \in Seq(Msg)
                        /\ Only(Report(n, k, xs), n, x, wire[n][x])
                        /\ Silent(Report(n, k, xs), n, x)
                             <=> ~ (k = x /\ x \in Inputs \cap xs /\ wire[n][x] # GST[n][n][x])
      OBVIOUS
    <2>1. CASE k \in Inputs \cap xs /\ wire[n][k] # GST[n][n][k]
      <3>1. Report(n, k, xs) = <<Put(n, k, wire[n][k])>>  BY <2>1 DEF Report
      <3>2. k \in IO /\ wire[n][k] \in BOOLEAN  BY <2>1 DEF PinsType, Row, IO
      <3>3. <<Put(n, k, wire[n][k])>> \in Seq(Msg)  BY <3>2, PutTypes, SingleType
      <3>4. CASE k = x  BY <2>1, <3>1, <3>3, <3>4, SinglesSay
      <3>5. CASE k # x
        <4>1. Silent(<<Put(n, k, wire[n][k])>>, n, x)  BY <3>5, SinglesSay
        <4> QED  BY <3>1, <3>3, <3>5, <4>1 DEF Silent, Only
      <3> QED  BY <3>4, <3>5
    <2>2. CASE ~ (k \in Inputs \cap xs /\ wire[n][k] # GST[n][n][k])
      <3>1. Report(n, k, xs) = <<>>  BY <2>2 DEF Report
      <3> QED  BY <2>2, <3>1 DEF Silent, Only
    <2> QED  BY <2>1, <2>2
  <1> DEFINE a == Report(n, 4, xs)
             b == Report(n, 5, xs)
             c == Report(n, 6, xs)
             d == Report(n, 7, xs)
  <1>2. x \in Inputs => x = 4 \/ x = 5 \/ x = 6 \/ x = 7  BY LinesAssumption
  <1>3. Reports(n, xs) = a \o b \o c \o d  BY DEF Reports
  <1>4. /\ a \in Seq(Msg) /\ b \in Seq(Msg) /\ c \in Seq(Msg) /\ d \in Seq(Msg)
        /\ Only(a, n, x, wire[n][x]) /\ Only(b, n, x, wire[n][x])
        /\ Only(c, n, x, wire[n][x]) /\ Only(d, n, x, wire[n][x])
        /\ Silent(a, n, x) /\ Silent(b, n, x) /\ Silent(c, n, x) /\ Silent(d, n, x)
             <=> ~ (x \in Inputs \cap xs /\ wire[n][x] # GST[n][n][x])
    BY <1>1, <1>2
  <1> HIDE DEF a, b, c, d
  <1>5. a \o b \in Seq(Msg) /\ a \o b \o c \in Seq(Msg)  BY <1>4
  <1>6. /\ Only(a \o b, n, x, wire[n][x])
        /\ Silent(a \o b, n, x) <=> Silent(a, n, x) /\ Silent(b, n, x)
    BY <1>4, Joined
  <1>7. /\ Only(a \o b \o c, n, x, wire[n][x])
        /\ Silent(a \o b \o c, n, x) <=> Silent(a \o b, n, x) /\ Silent(c, n, x)
    BY <1>4, <1>5, <1>6, Joined
  <1>8. /\ Only(a \o b \o c \o d, n, x, wire[n][x])
        /\ Silent(a \o b \o c \o d, n, x) <=> Silent(a \o b \o c, n, x) /\ Silent(d, n, x)
    BY <1>4, <1>5, <1>7, Joined
  <1> QED  BY <1>3, <1>4, <1>6, <1>7, <1>8

-----------------------------------------------------------------------------
(* The invariant.  A SIOD that runs has driven its relays itself, so that   *)
(* getgpio finds nothing new there (it would not report it); one that does  *)
(* not run knows nobody.                                                    *)
Calm  == \A n \in Node, x \in Outputs : up[n] => <<n, x>> \notin disturbed
Blank == \A n, m \in Node : ~ up[n] => GST[n][m] = Unknown

Flow == Carries(net, Own) /\ InSync(net, GST, up)

Mapped == Typed /\ RelayAgrees /\ Calm /\ Blank /\ Flow

(* A SIOD may say anything in its own name, and Sets.                       *)
LEMMA OwnWords ==
  ASSUME NEW n \in Node, NEW d \in Node
  PROVE  /\ \A x \in IO, y \in BOOLEAN : Put(n, x, y) \in Own[n][d]
         /\ \A row \in Row : PutAll(n, row) \in Own[n][d]
         /\ \A kind \in {"TimeRangeOut", "GSTCheckSum", "ConfigRes"} :
               Tell(kind, n) \in Own[n][d]
         /\ \A m \in SetMsg : m \in Own[n][d]
  BY PutTypes DEF Own, Put, PutAll, Tell, SetMsg, Msg

(* What n announces of itself, after it has taken a datagram or not.        *)
LEMMA AnnouncesFlow ==
  ASSUME NEW nt, Carries(nt, Own), InSync(nt, GST, up), NEW n \in Node,
         NEW msgs \in Seq(Msg), \A d \in Node : msgs \in Seq(Own[n][d]),
         net' = Broadcast(nt, n, msgs), \A m \in Node \ {n} : up'[m] => up[m],
         \A a, m \in Node : a # n \/ m # n => GST'[a][m] = GST[a][m],
         \A x \in IO : \/ ~ Silent(msgs, n, x) /\ Only(msgs, n, x, GST'[n][n][x])
                       \/ up[n] /\ Silent(msgs, n, x) /\ GST'[n][n][x] = GST[n][n][x]
  PROVE  Flow'
  <1>1. nt \in [Node -> [Node -> Seq(Msg)]]  BY DEF Carries
  <1>2. Carries(net', Own)  BY BroadcastCarries
  <1>3. PICK tbl2, u2 : tbl2 = GST' /\ u2 = up'  OBVIOUS
  <1>4. InSync(Broadcast(nt, n, msgs), tbl2, u2)  BY <1>1, <1>3, SaidInSync
  <1> QED  BY <1>2, <1>3, <1>4 DEF Flow

(* setgpio of an output, and the Put that follows it.                       *)
LEMMA SetAndPutFlow ==
  ASSUME Mapped, NEW nt, Carries(nt, Own), InSync(nt, GST, up), NEW n \in Node, up[n],
         UNCHANGED up, NEW x \in Outputs, NEW y \in BOOLEAN, setgpio(n, x, y),
         net' = Broadcast(nt, n, <<Put(n, x, y)>>)
  PROVE  Calm' /\ Blank' /\ Flow'
  <1>1. x \in IO /\ GST[n][n] \in Row
    BY DEF IO, Mapped, Typed, TypeOK, OwnRow
  <1>2. GST' = [GST EXCEPT ![n][n][x] = y] /\ disturbed' = disturbed \ {<<n, x>>}
    BY DEF setgpio
  <1>3. Calm'  BY <1>2 DEF Mapped, Calm
  <1>4. \A a, m \in Node : a # n \/ m # n => GST'[a][m] = GST[a][m]
    BY <1>2 DEF Mapped, Typed, TypeOK
  <1>5. Blank'  BY <1>4 DEF Mapped, Blank
  <1>6. \A z \in IO : GST'[n][n][z] = IF z = x THEN y ELSE GST[n][n][z]
    BY <1>1, <1>2 DEF Mapped, Typed, TypeOK, Row
  <1>7. <<Put(n, x, y)>> \in Seq(Msg)  BY <1>1, PutTypes, SingleType
  <1>8. \A d \in Node : <<Put(n, x, y)>> \in Seq(Own[n][d])
    BY <1>1, OwnWords, SingleType
  <1>9. ASSUME NEW z \in IO
        PROVE  \/ /\ ~ Silent(<<Put(n, x, y)>>, n, z)
                  /\ Only(<<Put(n, x, y)>>, n, z, GST'[n][n][z])
               \/ up[n] /\ Silent(<<Put(n, x, y)>>, n, z) /\ GST'[n][n][z] = GST[n][n][z]
    <2>1. CASE z = x
      <3>1. GST'[n][n][z] = y  BY <1>6, <2>1
      <3>2. Only(<<Put(n, x, y)>>, n, x, y) /\ ~ Silent(<<Put(n, x, y)>>, n, x)
        BY SinglesSay
      <3> QED  BY <2>1, <3>1, <3>2
    <2>2. CASE z # x
      <3>1. Silent(<<Put(n, x, y)>>, n, z)  BY <2>2, SinglesSay
      <3> QED  BY <1>6, <2>2, <3>1
    <2> QED  BY <2>1, <2>2
  <1>10. Flow'  BY <1>4, <1>7, <1>8, <1>9, AnnouncesFlow
  <1> QED  BY <1>3, <1>5, <1>10

(* All lines: the start, and a Set of all outputs.                          *)
LEMMA AllFlow ==
  ASSUME Mapped, NEW n \in Node, NEW row \in Row,
         \A m \in Node : up'[m] <=> up[m] \/ m = n,
         GST' = [GST EXCEPT ![n][n] = row], disturbed' = disturbed \ ({n} \X Outputs),
         net' = Broadcast(net, n, <<PutAll(n, row)>>)
  PROVE  Calm' /\ Blank' /\ Flow'
  <1>1. GST'[n][n] = row /\ \A a, m \in Node : a # n \/ m # n => GST'[a][m] = GST[a][m]
    BY DEF Mapped, Typed, TypeOK
  <1>2. Calm'  BY DEF Mapped, Calm
  <1>3. Blank'  BY <1>1 DEF Mapped, Blank
  <1>4. <<PutAll(n, row)>> \in Seq(Msg)  BY PutTypes, SingleType
  <1>5. \A d \in Node : <<PutAll(n, row)>> \in Seq(Own[n][d])
    BY OwnWords, SingleType
  <1>6. \A z \in IO : /\ ~ Silent(<<PutAll(n, row)>>, n, z)
                      /\ Only(<<PutAll(n, row)>>, n, z, GST'[n][n][z])
    BY <1>1, SinglesSay
  <1>7. Flow'  BY <1>1, <1>4, <1>5, <1>6, AnnouncesFlow DEF Mapped, Flow
  <1> QED  BY <1>2, <1>3, <1>7

(* getgpio and what it reports: a relay brings nothing new.                 *)
LEMMA GetAndReportFlow ==
  ASSUME Mapped, NEW n \in Node, up[n], UNCHANGED <<up, disturbed>>,
         NEW xs \in SUBSET IO, getgpio(n, xs), net' = Broadcast(net, n, Reports(n, xs))
  PROVE  Calm' /\ Blank' /\ Flow'
  <1> DEFINE new == [z \in IO |-> IF z \in xs THEN wire[n][z] ELSE GST[n][n][z]]
  <1>1. PinsType  BY TypedParts DEF Mapped
  <1>2. GST' = [GST EXCEPT ![n][n] = new]  BY DEF getgpio
  <1>3. \A z \in IO : new[z] = IF z \in xs THEN wire[n][z] ELSE GST[n][n][z]  OBVIOUS
  <1> HIDE DEF new
  <1>4. GST'[n][n] = new /\ \A a, m \in Node : a # n \/ m # n => GST'[a][m] = GST[a][m]
    BY <1>2 DEF Mapped, Typed, TypeOK
  <1>5. Calm'  BY DEF Mapped, Calm
  <1>6. Blank'  BY <1>4 DEF Mapped, Blank
  <1>7. Reports(n, xs) \in Seq(Msg)  BY <1>1, PutTypes, ReportsType
  <1>8. ASSUME NEW d \in Node PROVE Reports(n, xs) \in Seq(Own[n][d])
    BY <1>1, OwnWords, ReportsType
  <1>9. ASSUME NEW z \in IO
        PROVE  \/ ~ Silent(Reports(n, xs), n, z) /\ Only(Reports(n, xs), n, z, GST'[n][n][z])
               \/ up[n] /\ Silent(Reports(n, xs), n, z) /\ GST'[n][n][z] = GST[n][n][z]
    <2>1. /\ Only(Reports(n, xs), n, z, wire[n][z])
          /\ Silent(Reports(n, xs), n, z)
               <=> ~ (z \in Inputs \cap xs /\ wire[n][z] # GST[n][n][z])
      BY <1>1, ReportsSay
    <2>2. CASE z \in Inputs \cap xs /\ wire[n][z] # GST[n][n][z]
      BY <1>3, <1>4, <2>1, <2>2
    <2>3. CASE ~ (z \in Inputs \cap xs /\ wire[n][z] # GST[n][n][z])
      <3>1. z \in Outputs => GST[n][n][z] = wire[n][z]
        BY DEF Mapped, Calm, RelayAgrees
      <3>2. z \in Outputs \/ z \in Inputs  BY DEF IO
      <3> QED  BY <1>3, <1>4, <2>1, <2>3, <3>1, <3>2
    <2> QED  BY <2>2, <2>3
  <1>10. Flow'  BY <1>4, <1>7, <1>8, <1>9, AnnouncesFlow DEF Mapped, Flow
  <1> QED  BY <1>5, <1>6, <1>10

(* A step that leaves tables, relays and network alone.                     *)
LEMMA KeepsFlow ==
  ASSUME Mapped, UNCHANGED <<up, GST, disturbed, net>>
  PROVE  Calm' /\ Blank' /\ Flow'
  <1>1. Calm' /\ Blank'  BY DEF Mapped, Calm, Blank
  <1>2. Carries(net, Own) /\ InSync(net, GST, up)  BY DEF Mapped, Flow
  <1>3. PICK c : c = Own  OBVIOUS
  <1> QED  BY <1>1, <1>2 DEF Flow, Carries, Own

(* A datagram has been taken, and perhaps one that is true has been sent.   *)
LEMMA TakenFlow ==
  ASSUME Mapped, NEW s \in Node, NEW n \in Node, s # n, net[s][n] # <<>>, UNCHANGED up,
         UNCHANGED disturbed, up[n] \/ UNCHANGED GST,
         \A a, m \in Node : a # n \/ m # s => GST'[a][m] = GST[a][m],
         \A x \in IO : Learns(net[s][n], GST[n][s], GST'[n][s], s, x),
         \/ net' = Taken(s, n)
         \/ \E msg \in Msg : /\ net' = Unicast(Taken(s, n), n, s, msg)
                             /\ msg \in Own[n][s]
                             /\ \A x \in IO :
                                   \/ /\ ~ Silent(<<msg>>, n, x)
                                      /\ Only(<<msg>>, n, x, GST[n][n][x])
                                   \/ Silent(<<msg>>, n, x)
  PROVE  Calm' /\ Blank' /\ Flow'
  <1>1. Calm' /\ Blank'  BY DEF Mapped, Calm, Blank
  <1>2. Carries(net, Own) /\ InSync(net, GST, up)  BY DEF Mapped, Flow
  <1>3. Carries(Taken(s, n), Own)  BY <1>2, TakenCarries
  <1>4. Taken(s, n) \in [Node -> [Node -> Seq(Msg)]]  BY <1>3 DEF Carries
  <1>5. PICK tbl : tbl = GST'  OBVIOUS
  <1>6. InSync(Taken(s, n), tbl, up)  BY <1>2, <1>5, TakenInSync
  <1>7. CASE net' = Taken(s, n)
    BY <1>1, <1>3, <1>5, <1>6, <1>7 DEF Flow
  <1>8. ASSUME NEW msg \in Msg, net' = Unicast(Taken(s, n), n, s, msg), msg \in Own[n][s],
               \A x \in IO : \/ /\ ~ Silent(<<msg>>, n, x)
                                /\ Only(<<msg>>, n, x, GST[n][n][x])
                             \/ Silent(<<msg>>, n, x)
        PROVE  Calm' /\ Blank' /\ Flow'
    <2>1. tbl[n][n] = GST[n][n]  BY <1>5
    <2>2. Carries(net', Own)  BY <1>3, <1>8, UnicastCarries
    <2>3. InSync(Unicast(Taken(s, n), n, s, msg), tbl, up)
      BY <1>4, <1>6, <1>8, <2>1, SentInSync
    <2> QED  BY <1>1, <1>5, <1>8, <2>2, <2>3 DEF Flow
  <1> QED  BY <1>7, <1>8

LEMMA ReceiveFlow ==
  ASSUME Mapped, NEW s \in Node, NEW n \in Node, s # n, Receive(s, n)
  PROVE  Calm' /\ Blank' /\ Flow'
  <1> DEFINE m == Head(net[s][n])
  <1>1. up[n] /\ net[s][n] # <<>> /\ Typed
    BY DEF Mapped, Receive, RecvPutOwn, RecvPut, RecvPutAll, RecvSet, RecvTell, Arrived, Idle
  <1>2. GST \in [Node -> [Node -> Row \cup {Unknown}]] /\ GST[n][n] \in Row
    BY <1>1 DEF Typed, TypeOK, OwnRow
  <1>3. Carries(net, Own) /\ InSync(net, GST, up)  BY DEF Mapped, Flow
  <1>4. Carries(Taken(s, n), Own) /\ m \in Own[s][n]  BY <1>1, <1>3, TakenCarries
  <1>5. m.kind # "Set" => m.id = s  BY <1>4 DEF Own
  <1>6. net[s][n][1] = m
    <2>1. net[s][n] \in Seq(Msg)  BY <1>3 DEF Carries
    <2> QED  BY <1>1, <2>1
  <1>7. /\ m.kind = "Put" => m \in PutMsg
        /\ m.kind = "PutAll" => m \in PutAllMsg
        /\ m.kind = "Set" => m \in SetMsg
    BY <1>1, HeadTypes
  <1>8. \A x : SpeaksOf(net[s][n], 1, s, x)
               <=> m.kind \in {"Put", "PutAll"} /\ (m.kind = "Put" => m.x = x)
    BY <1>5, <1>6 DEF SpeaksOf
  <1> HIDE DEF m
  <1>9. CASE RecvPutOwn(s, n)
    BY <1>5, <1>9 DEF RecvPutOwn, Arrived, m
  <1>10. CASE RecvPut(s, n)
    <2>1. /\ m.kind = "Put" /\ UNCHANGED <<up, disturbed>> /\ net' = Taken(s, n)
          /\ GST' = IF GST[n][m.id] = Unknown THEN GST
                    ELSE [GST EXCEPT ![n][m.id][m.x] = m.y]
      BY <1>10 DEF RecvPut, Arrived, device, history, m
    <2>2. m.x \in IO /\ m.y \in BOOLEAN /\ m.id = s
      BY <1>5, <1>7, <2>1 DEF PutMsg
    <2>3. CASE GST[n][s] = Unknown
      <3>1. GST' = GST  BY <2>1, <2>2, <2>3
      <3> QED  BY <1>1, <2>1, <2>3, <3>1, TakenFlow DEF Learns
    <2>4. CASE GST[n][s] # Unknown
      <3>1. GST' = [GST EXCEPT ![n][s][m.x] = m.y]  BY <2>1, <2>2, <2>4
      <3>2. GST[n][s] \in [IO -> BOOLEAN]  BY <1>2, <2>4 DEF Row
      <3>3. \A a, b \in Node : a # n \/ b # s => GST'[a][b] = GST[a][b]
        BY <1>2, <3>1
      <3>4. \A x \in IO : GST'[n][s][x] = IF x = m.x THEN m.y ELSE GST[n][s][x]
        BY <1>2, <2>2, <3>1, <3>2
      <3>5. ASSUME NEW x \in IO PROVE Learns(net[s][n], GST[n][s], GST'[n][s], s, x)
        <4>1. Says(net[s][n][1], m.x) = m.y  BY <1>6, <2>1 DEF Says
        <4> QED  BY <1>8, <2>1, <2>4, <3>4, <4>1 DEF Learns
      <3> QED  BY <1>1, <2>1, <3>3, <3>5, TakenFlow
    <2> QED  BY <2>3, <2>4
  <1>11. CASE RecvPutAll(s, n)
    <2>1. /\ m.kind = "PutAll" /\ UNCHANGED <<up, disturbed>>
          /\ GST' = [GST EXCEPT ![n][m.id] = m.row]
          /\ net' = Taken(s, n) \/ net' = Unicast(Taken(s, n), n, s, PutAll(n, GST[n][n]))
      BY <1>11 DEF RecvPutAll, Arrived, device, history, m
    <2>2. m.id = s  BY <1>5, <2>1
    <2>3. GST'[n][s] = m.row /\ \A a, b \in Node : a # n \/ b # s => GST'[a][b] = GST[a][b]
      BY <1>2, <2>1, <2>2
    <2>4. ASSUME NEW x \in IO PROVE Learns(net[s][n], GST[n][s], GST'[n][s], s, x)
      <3>1. Says(net[s][n][1], x) = m.row[x]  BY <1>6, <2>1 DEF Says
      <3> QED  BY <1>8, <2>1, <2>3, <3>1 DEF Learns
    <2>5. /\ PutAll(n, GST[n][n]) \in Msg /\ PutAll(n, GST[n][n]) \in Own[n][s]
          /\ \A x \in IO : /\ ~ Silent(<<PutAll(n, GST[n][n])>>, n, x)
                           /\ Only(<<PutAll(n, GST[n][n])>>, n, x, GST[n][n][x])
      BY <1>2, PutTypes, OwnWords, SinglesSay
    <2> QED  BY <1>1, <2>1, <2>3, <2>4, <2>5, TakenFlow
  <1>12. ASSUME m.kind \notin {"Put", "PutAll"}, NEW x \in IO
         PROVE  Learns(net[s][n], GST[n][s], GST[n][s], s, x)
    BY <1>8, <1>12 DEF Learns
  <1>13. CASE RecvSet(s, n)
    <2>1. m.kind = "Set" /\ UNCHANGED up  BY <1>13 DEF RecvSet, Arrived, m
    <2>2. m.x \in Outputs /\ m.y \in BOOLEAN  BY <1>7, <2>1 DEF SetMsg
    <2>3. CASE inRange[n]
      <3>1. setgpio(n, m.x, m.y) /\ net' = Broadcast(Taken(s, n), n, <<Put(n, m.x, m.y)>>)
        BY <1>13, <2>3 DEF RecvSet, m
      <3>2. InSync(Taken(s, n), GST, up)
        BY <1>1, <1>3, <1>12, <2>1, TakenInSync
      <3> QED  BY <1>1, <1>4, <2>1, <2>2, <3>1, <3>2, SetAndPutFlow
    <2>4. CASE ~ inRange[n]
      <3>1. /\ net' = Unicast(Taken(s, n), n, s, Tell("TimeRangeOut", n))
            /\ UNCHANGED <<GST, disturbed>>
        BY <1>13, <2>4 DEF RecvSet
      <3>2. /\ Tell("TimeRangeOut", n) \in Msg /\ Tell("TimeRangeOut", n) \in Own[n][s]
            /\ Tell("TimeRangeOut", n).kind = "TimeRangeOut"
        BY PutTypes, OwnWords DEF Tell
      <3>3. \A x \in IO : Silent(<<Tell("TimeRangeOut", n)>>, n, x)
        BY <3>2, SinglesSay
      <3> QED  BY <1>1, <1>12, <2>1, <3>1, <3>2, <3>3, TakenFlow
    <2> QED  BY <2>3, <2>4
  <1>14. CASE RecvTell(s, n)
    <2>1. /\ m.kind \in {"TimeRangeOut", "GSTCheckSum", "ConfigRes"}
          /\ UNCHANGED <<up, GST, disturbed>> /\ net' = Taken(s, n)
      BY <1>14 DEF RecvTell, Arrived, device, history, m
    <2> QED  BY <1>1, <1>12, <2>1, TakenFlow
  <1> QED  BY <1>9, <1>10, <1>11, <1>13, <1>14 DEF Receive

(* A Set to an unknown place, and a Set that PLCexec sends, say nothing of  *)
(* the sender.                                                              *)
LEMMA PLCFlow ==
  ASSUME Mapped, NEW n \in Node, PLCStep(n)
  PROVE  Calm' /\ Blank' /\ Flow'
  <1>1. up[n] /\ scan[n] # 0
    BY DEF PLCStep, PLCSkip, PLCRearm, PLCFireLocal, PLCFireRemote, PLCFireNowhere, Fires
  <1>2. ThisRule(n) \in Rule  BY <1>1, ThisRuleType DEF Mapped, Typed
  <1>3. /\ ThisRule(n).x1 \in Outputs /\ ThisRule(n).y1 \in BOOLEAN
        /\ ThisRule(n).id1 \in Node
    BY <1>2 DEF Rule
  <1>4. CASE PLCSkip(n) \/ PLCRearm(n) \/ PLCFireNowhere(n)
    BY <1>4, KeepsFlow DEF PLCSkip, PLCRearm, PLCFireNowhere, device, history
  <1>5. CASE PLCFireLocal(n)
    BY <1>1, <1>3, <1>5, SetAndPutFlow DEF PLCFireLocal, Mapped, Flow
  <1>6. CASE PLCFireRemote(n)
    <2> DEFINE r == ThisRule(n)
               msg == [kind |-> "Set", x |-> r.x1, y |-> r.y1, aim |-> r.id1]
    <2>1. /\ net' = Unicast(net, n, IPT[n][r.id1], msg) /\ IPT[n][r.id1] # Unknown
          /\ UNCHANGED <<up, GST, disturbed>>
      BY <1>6 DEF PLCFireRemote, history
    <2>2. IPT[n][r.id1] \in Node
      BY <1>3, <2>1 DEF Mapped, Typed, TypeOK
    <2>3. PICK e \in Node : e = IPT[n][r.id1]  BY <2>2, Zenon
    <2>4. msg \in SetMsg /\ msg.kind = "Set"  BY <1>3 DEF SetMsg
    <2>5. msg \in Msg /\ msg \in Own[n][e]  BY <2>4, OwnWords DEF Msg
    <2>6. \A x \in IO : Silent(<<msg>>, n, x)  BY <2>4, SinglesSay
    <2> HIDE DEF msg
    <2>7. net' = Unicast(net, n, e, msg)  BY <2>1, <2>3
    <2>8. net \in [Node -> [Node -> Seq(Msg)]]  BY DEF Mapped, Typed, TypeOK
    <2>9. Carries(net', Own)  BY <2>5, <2>7, UnicastCarries DEF Mapped, Flow
    <2>10. InSync(net', GST, up)  BY <2>5, <2>6, <2>7, <2>8, SentInSync DEF Mapped, Flow
    <2>11. Calm' /\ Blank'  BY <2>1 DEF Mapped, Calm, Blank
    <2> QED  BY <2>1, <2>9, <2>10, <2>11 DEF Flow
  <1> QED  BY <1>4, <1>5, <1>6 DEF PLCStep

LEMMA ClientFlow ==
  ASSUME Mapped, SetX \subseteq Outputs, NEW n \in Node, Client(n) \/ Tick(n)
  PROVE  Calm' /\ Blank' /\ Flow'
  <1>1. ASSUME NEW x \in SetX, NEW y \in BOOLEAN, ClientSet(n, x, y)
        PROVE  Calm' /\ Blank' /\ Flow'
    BY <1>1, SetAndPutFlow DEF ClientSet, Idle, Mapped, Flow
  <1>2. ASSUME NEW ys \in [Outputs -> BOOLEAN], ClientSetAll(n, ys)
        PROVE  Calm' /\ Blank' /\ Flow'
    <2> DEFINE new == [x \in IO |-> IF x \in Outputs THEN ys[x] ELSE GST[n][n][x]]
    <2>1. /\ up[n] /\ UNCHANGED up /\ GST' = [GST EXCEPT ![n][n] = new]
          /\ disturbed' = disturbed \ ({n} \X Outputs)
          /\ net' = Broadcast(net, n, <<PutAll(n, GST'[n][n])>>)
      BY <1>2 DEF ClientSetAll, setgpioAll, Idle
    <2>2. GST[n][n] \in Row /\ GST \in [Node -> [Node -> Row \cup {Unknown}]]
      BY <2>1 DEF Mapped, Typed, TypeOK, OwnRow
    <2>3. new \in Row  BY <2>2 DEF Row
    <2> HIDE DEF new
    <2>4. GST'[n][n] = new  BY <2>1, <2>2
    <2> QED  BY <2>1, <2>3, <2>4, AllFlow
  <1>3. ASSUME NEW xs \in SUBSET IO, ClientGet(n, xs)
        PROVE  Calm' /\ Blank' /\ Flow'
    BY <1>3, GetAndReportFlow DEF ClientGet, Idle, history
  <1>4. ASSUME NEW kind \in {"GSTCheckSum", "ConfigRes"}, ClientQuery(n, kind)
        PROVE  Calm' /\ Blank' /\ Flow'
    <2>1. /\ up[n] /\ UNCHANGED <<up, GST, disturbed>>
          /\ net' = Broadcast(net, n, <<Tell(kind, n)>>)
      BY <1>4 DEF ClientQuery, Idle, memory, history
    <2>2. <<Tell(kind, n)>> \in Seq(Msg)  BY PutTypes, SingleType
    <2>3. \A d \in Node : <<Tell(kind, n)>> \in Seq(Own[n][d])  BY OwnWords, SingleType
    <2>4. Tell(kind, n).kind = kind  BY DEF Tell
    <2>5. \A x \in IO : Silent(<<Tell(kind, n)>>, n, x)  BY <2>4, SinglesSay
    <2>6. Flow'  BY <2>1, <2>2, <2>3, <2>5, AnnouncesFlow DEF Mapped, Flow
    <2>7. Calm' /\ Blank'  BY <2>1 DEF Mapped, Calm, Blank
    <2> QED  BY <2>6, <2>7
  <1>5. CASE Tick(n)
    BY <1>5, GetAndReportFlow DEF Tick, Idle, history
  <1> QED  BY <1>1, <1>2, <1>3, <1>4, <1>5 DEF Client

(* A SIOD that starts tells everybody; one that dies is not asked.          *)
LEMMA DeviceFlow ==
  ASSUME Mapped, NEW n \in Node, Boot(n) \/ Failure(n) \/ Surroundings(n)
  PROVE  Calm' /\ Blank' /\ Flow'
  <1>1. CASE Boot(n)
    <2> DEFINE row == [x \in IO |-> IF x \in Outputs THEN saved[n][x] ELSE wire[n][x]]
    <2>1. row \in Row  BY DEF Mapped, Typed, TypeOK, Row
    <2>2. /\ up' = [up EXCEPT ![n] = TRUE] /\ GST' = [GST EXCEPT ![n][n] = row]
          /\ disturbed' = disturbed \ ({n} \X Outputs)
          /\ net' = Broadcast(net, n, <<PutAll(n, row)>>)
      BY <1>1 DEF Boot
    <2> HIDE DEF row
    <2>3. \A m \in Node : up'[m] <=> up[m] \/ m = n
      BY <2>2 DEF Mapped, Typed, TypeOK
    <2> QED  BY <2>1, <2>2, <2>3, AllFlow
  <1>2. CASE Failure(n)
    <2>1. /\ up' = [up EXCEPT ![n] = FALSE]
          /\ GST' = [GST EXCEPT ![n] = [m \in Node |-> Unknown]]
          /\ UNCHANGED net
      BY <1>2 DEF Failure, Crash, CrashInSetgpio, Forget
    <2>2. \A m, x : <<m, x>> \in disturbed' => <<m, x>> \in disturbed \/ m = n
      BY <1>2 DEF Failure, Crash, CrashInSetgpio, history
    <2>3. /\ \A m \in Node : up'[m] <=> up[m] /\ m # n
          /\ \A a, m \in Node : GST'[a][m] = IF a = n THEN Unknown ELSE GST[a][m]
      BY <2>1 DEF Mapped, Typed, TypeOK
    <2>4. Calm'  BY <2>2, <2>3 DEF Mapped, Calm
    <2>5. Blank'  BY <2>3 DEF Mapped, Blank
    <2>6. PICK tbl, u : tbl = GST' /\ u = up'  OBVIOUS
    <2>7. InSync(net, tbl, u)
      <3> SUFFICES ASSUME NEW m \in Node, NEW a \in Node, NEW x \in IO, m # a, u[m]
                   PROVE  Consistent(net[m][a], tbl[a][m], m, x, tbl[m][m][x])
        BY DEF InSync
      <3>1. Consistent(net[m][a], GST[a][m], m, x, GST[m][m][x])
        BY <2>3, <2>6 DEF Mapped, Flow, InSync
      <3>2. tbl[m][m] = GST[m][m] /\ (tbl[a][m] = GST[a][m] \/ tbl[a][m] = Unknown)
        BY <2>3, <2>6
      <3> QED  BY <3>1, <3>2 DEF Consistent
    <2>8. Flow'  BY <2>1, <2>6, <2>7 DEF Mapped, Flow
    <2> QED  BY <2>4, <2>5, <2>8
  <1>3. CASE Surroundings(n)
    BY <1>3, KeepsFlow DEF Surroundings, Flip, WindowChange, memory, history
  <1> QED  BY <1>1, <1>2, <1>3

(* Nobody listens: there is nothing to become stale.                        *)
LEMMA UnheardFlow ==
  ASSUME Mapped, NEW s \in Node, NEW d \in Node, Unheard(s, d)
  PROVE  Calm' /\ Blank' /\ Flow'
  <1>1. /\ ~ up[d] /\ net[s][d] # <<>> /\ net' = Taken(s, d)
        /\ UNCHANGED <<up, GST, disturbed>>
    BY DEF Unheard, memory, history
  <1>2. GST[d][s] = Unknown  BY <1>1 DEF Mapped, Blank
  <1>3. CASE s # d
    BY <1>1, <1>2, <1>3, TakenFlow DEF Learns
  <1>4. CASE s = d
    <2>1. Carries(net', Own)  BY <1>1, TakenCarries DEF Mapped, Flow
    <2>2. \A m, n \in Node : m # n => Taken(s, d)[m][n] = net[m][n]
      BY <1>4 DEF Taken, Mapped, Typed, TypeOK
    <2>3. InSync(Taken(s, d), GST, up)  BY <2>2 DEF Mapped, Flow, InSync
    <2>4. Calm' /\ Blank'  BY <1>1 DEF Mapped, Calm, Blank
    <2> QED  BY <1>1, <2>1, <2>3, <2>4 DEF Flow
  <1> QED  BY <1>3, <1>4

-----------------------------------------------------------------------------
(* A mesh whose datagrams arrive in order, whose relays move only when they *)
(* are told to, and whose IVR sends no Put in the name of another SIOD.     *)
(* SIODs start, crash and start again as they like.                         *)
OrderlyNext ==
    \/ \E n \in Node :
          \/ Boot(n) \/ Process(n) \/ Client(n) \/ Failure(n) \/ Surroundings(n)
          \/ \E x \in Outputs, y \in BOOLEAN : IVRSetReqOwn(n, x, y)
          \/ \E m \in Node : IVRSetReqUnknown(n, m)
    \/ \E s, d \in Node : Unheard(s, d)

OrderlySpec == Init /\ [][OrderlyNext]_vars

LEMMA OrderlyNextMapped ==
  ASSUME SetX \subseteq Outputs, Mapped, [OrderlyNext]_vars
  PROVE  Mapped'
  <1>1. [Next]_vars  BY DEF OrderlyNext, Next, IVR, Network
  <1>2. Typed' /\ RelayAgrees'  BY <1>1, NextTyped, NextAgrees DEF Mapped
  <1>3. CASE UNCHANGED vars
    BY <1>2, <1>3, KeepsFlow DEF Mapped, vars, memory, history
  <1>4. ASSUME NEW n \in Node, Process(n) PROVE Calm' /\ Blank' /\ Flow'
    BY <1>4, ReceiveFlow, PLCFlow, ClientFlow DEF Process
  <1>5. ASSUME NEW n \in Node, NEW x \in Outputs, NEW y \in BOOLEAN, IVRSetReqOwn(n, x, y)
        PROVE  Calm' /\ Blank' /\ Flow'
    <2>1. CASE inRange[n]
      BY <1>5, <2>1, SetAndPutFlow DEF IVRSetReqOwn, Idle, Mapped, Flow
    <2>2. CASE ~ inRange[n]
      BY <1>5, <2>2, KeepsFlow DEF IVRSetReqOwn
    <2> QED  BY <2>1, <2>2
  <1>6. ASSUME NEW n \in Node, NEW m \in Node, IVRSetReqUnknown(n, m)
        PROVE  Calm' /\ Blank' /\ Flow'
    BY <1>6, KeepsFlow DEF IVRSetReqUnknown, history
  <1>7. ASSUME OrderlyNext PROVE Calm' /\ Blank' /\ Flow'
    BY <1>4, <1>5, <1>6, <1>7, ClientFlow, DeviceFlow, UnheardFlow DEF OrderlyNext
  <1> QED  BY <1>2, <1>3, <1>7 DEF Mapped

(* In an orderly mesh a row that differs from its owner's is corrected by   *)
(* the last datagram in flight that speaks of the line, for every mesh,     *)
(* all rules, and through every crash and start, when clients set outputs   *)
(* only.                                                                    *)
THEOREM RowsAreCorrected ==
  SetX \subseteq Outputs /\ OrderlySpec => []StaleOnlyInFlight
  <1>1. Init => Mapped
    <2> SUFFICES ASSUME Init PROVE Mapped  OBVIOUS
    <2>1. Typed  BY InitTyped
    <2>2. RelayAgrees /\ Calm /\ Blank  BY DEF Init, RelayAgrees, Calm, Blank
    <2>3. Carries(net, Own) /\ InSync(net, GST, up)  BY DEF Init, Carries, InSync
    <2> QED  BY <2>1, <2>2, <2>3 DEF Mapped, Flow
  <1>2. Mapped => StaleOnlyInFlight
    <2> SUFFICES ASSUME Mapped, NEW m \in Node, NEW n \in Node, NEW x \in IO,
                        m # n, up[m], up[n]
                 PROVE  LET q == net[m][n]
                            about == {i \in 1 .. Len(q) : SpeaksOf(q, i, m, x)}
                        IN  IF about = {}
                            THEN GST[n][m] # Unknown => GST[n][m][x] = GST[m][m][x]
                            ELSE \A i \in about : (\A j \in about : j <= i) =>
                                    GST[m][m][x] = IF q[i].kind = "Put"
                                                   THEN q[i].y ELSE q[i].row[x]
      BY DEF StaleOnlyInFlight
    <2>1. Consistent(net[m][n], GST[n][m], m, x, GST[m][m][x])
      BY DEF Mapped, Flow, InSync
    <2> QED  BY <2>1 DEF Consistent, Silent, LastOf, Says
  <1>3. SetX \subseteq Outputs /\ Mapped /\ [OrderlyNext]_vars => Mapped'
    BY OrderlyNextMapped
  <1>4. CASE SetX \subseteq Outputs
    <2>1. Mapped /\ [OrderlyNext]_vars => Mapped'  BY <1>3, <1>4
    <2> QED  BY <1>1, <1>2, <2>1, PTL DEF OrderlySpec
  <1> QED  BY <1>4

-----------------------------------------------------------------------------
(* Discovery.  Who has the row of another has heard from it, and the other  *)
(* has its row in turn, or the PutAll with it is on its way: for as long as *)
(* nothing is lost and nobody crashes.                                      *)
Greets(q) == \E i \in 1 .. Len(q) : q[i].kind = "PutAll"

Greeted(nt, tbl, u) ==
    \A n, m \in Node :
       n # m /\ u[n] /\ tbl[n][m] # Unknown
         => u[m] /\ (tbl[m][n] # Unknown \/ Greets(nt[n][m]))

Greeters(nt, u) == \A n, m \in Node : Greets(nt[n][m]) => u[n]

Stranger == \A n, m \in Node : n # m /\ ~ up[n] => GST[n][m] = Unknown

(* A PutAll speaks of its sender, whatever the IVR does.                    *)
OwnRows == [s \in Node |-> [d \in Node |-> {m \in Msg : m.kind = "PutAll" => m.id = s}]]

Greeting ==
    /\ Typed /\ Carries(net, OwnRows) /\ Stranger
    /\ Greeters(net, up) /\ Greeted(net, GST, up)

(* No greeting is lost between nt and nt2, and who greets runs.             *)
Grows(nt, nt2, u) ==
    \A n, m \in Node : /\ Greets(nt[n][m]) => Greets(nt2[n][m])
                       /\ Greets(nt2[n][m]) => Greets(nt[n][m]) \/ u[n]

LEMMA GreetsJoined ==
  ASSUME NEW S, NEW q \in Seq(S), NEW r \in Seq(S)
  PROVE  Greets(q) => Greets(q \o r)
  <1>1. ASSUME NEW i \in 1 .. Len(q), q[i].kind = "PutAll" PROVE Greets(q \o r)
    <2>1. i \in 1 .. Len(q \o r) /\ (q \o r)[i] = q[i]  OBVIOUS
    <2> QED  BY <1>1, <2>1 DEF Greets
  <1> QED  BY <1>1 DEF Greets

LEMMA GreetsAppended ==
  ASSUME NEW S, NEW q \in Seq(S), NEW msg \in S
  PROVE  /\ Greets(q) => Greets(Append(q, msg))
         /\ msg.kind = "PutAll" => Greets(Append(q, msg))
  <1>1. Append(q, msg) = q \o <<msg>> /\ <<msg>> \in Seq(S)  OBVIOUS
  <1>2. /\ Len(q) + 1 \in 1 .. Len(Append(q, msg))
        /\ Append(q, msg)[Len(q) + 1] = msg
    OBVIOUS
  <1>3. msg.kind = "PutAll" => Greets(Append(q, msg))  BY <1>2 DEF Greets
  <1> QED  BY <1>1, <1>3, GreetsJoined

LEMMA GreetsTaken ==
  ASSUME NEW S, NEW q \in Seq(S), q # <<>>
  PROVE  /\ Greets(Tail(q)) => Greets(q)
         /\ Greets(q) /\ Head(q).kind # "PutAll" => Greets(Tail(q))
         /\ Head(q).kind = "PutAll" => Greets(q)
  <1>1. ASSUME NEW i \in 1 .. Len(Tail(q)), Tail(q)[i].kind = "PutAll" PROVE Greets(q)
    <2>1. i + 1 \in 1 .. Len(q) /\ Tail(q)[i] = q[i + 1]  OBVIOUS
    <2> QED  BY <1>1, <2>1 DEF Greets
  <1>2. ASSUME NEW i \in 1 .. Len(q), q[i].kind = "PutAll", Head(q).kind # "PutAll"
        PROVE  Greets(Tail(q))
    <2>1. Head(q) = q[1]  OBVIOUS
    <2>2. i # 1  BY <1>2, <2>1
    <2>3. i - 1 \in 1 .. Len(Tail(q)) /\ Tail(q)[i - 1] = q[i]  BY <2>2
    <2> QED  BY <1>2, <2>3 DEF Greets
  <1>3. Head(q) = q[1] /\ 1 \in 1 .. Len(q)  OBVIOUS
  <1> QED  BY <1>1, <1>2, <1>3 DEF Greets

LEMMA BroadcastGrows ==
  ASSUME NEW nt \in [Node -> [Node -> Seq(Msg)]], NEW n \in Node, NEW msgs \in Seq(Msg),
         NEW u, u[n]
  PROVE  Grows(nt, Broadcast(nt, n, msgs), u)
  <1> SUFFICES ASSUME NEW a \in Node, NEW b \in Node
               PROVE  LET p == Broadcast(nt, n, msgs)[a][b]
                      IN  /\ Greets(nt[a][b]) => Greets(p)
                          /\ Greets(p) => Greets(nt[a][b]) \/ u[a]
    BY DEF Grows
  <1>1. \/ Broadcast(nt, n, msgs)[a][b] = nt[a][b]
        \/ a = n /\ Broadcast(nt, n, msgs)[a][b] = nt[a][b] \o msgs
    BY DEF Broadcast
  <1>2. nt[a][b] \in Seq(Msg)  OBVIOUS
  <1> QED  BY <1>1, <1>2, GreetsJoined

LEMMA UnicastGrows ==
  ASSUME NEW nt \in [Node -> [Node -> Seq(Msg)]], NEW n \in Node, NEW e \in Node,
         NEW msg \in Msg, NEW u, u[n]
  PROVE  /\ Grows(nt, Unicast(nt, n, e, msg), u)
         /\ msg.kind = "PutAll" => Greets(Unicast(nt, n, e, msg)[n][e])
  <1>1. ASSUME NEW a \in Node, NEW b \in Node
        PROVE  LET p == Unicast(nt, n, e, msg)[a][b]
               IN  /\ Greets(nt[a][b]) => Greets(p)
                   /\ Greets(p) => Greets(nt[a][b]) \/ u[a]
    <2>1. \/ Unicast(nt, n, e, msg)[a][b] = nt[a][b]
          \/ a = n /\ Unicast(nt, n, e, msg)[a][b] = Append(nt[a][b], msg)
      BY DEF Unicast
    <2>2. nt[a][b] \in Seq(Msg)  OBVIOUS
    <2> QED  BY <2>1, <2>2, GreetsAppended
  <1>2. Unicast(nt, n, e, msg)[n][e] = Append(nt[n][e], msg) /\ nt[n][e] \in Seq(Msg)
    BY DEF Unicast
  <1> QED  BY <1>1, <1>2, GreetsAppended DEF Grows

LEMMA GrowsOn ==
  \A n1, n2, n3, u : Grows(n1, n2, u) /\ Grows(n2, n3, u) => Grows(n1, n3, u)
  BY DEF Grows

(* A datagram that is no greeting has been taken.                           *)
LEMMA TakenGrows ==
  ASSUME net \in [Node -> [Node -> Seq(Msg)]], NEW s \in Node, NEW n \in Node,
         net[s][n] # <<>>, Head(net[s][n]).kind # "PutAll", NEW u
  PROVE  Grows(net, Taken(s, n), u)
  <1> SUFFICES ASSUME NEW a \in Node, NEW b \in Node
               PROVE  Greets(net[a][b]) <=> Greets(Taken(s, n)[a][b])
    BY DEF Grows
  <1>1. \/ Taken(s, n)[a][b] = net[a][b]
        \/ a = s /\ b = n /\ Taken(s, n)[a][b] = Tail(net[a][b])
    BY DEF Taken
  <1>2. net[a][b] \in Seq(Msg)  OBVIOUS
  <1> QED  BY <1>1, <1>2, GreetsTaken

(* A step after which nobody has the row of another who had not before.     *)
LEMMA KeepsGreeting ==
  ASSUME Greeting, Typed', Carries(net', OwnRows), Grows(net, net', up'),
         \A n \in Node : up[n] => up'[n],
         \A n, m \in Node : n # m => (GST'[n][m] = Unknown <=> GST[n][m] = Unknown)
  PROVE  Greeting'
  <1>1. Stranger'  BY DEF Greeting, Stranger
  <1>2. PICK nt, tbl, u : nt = net' /\ tbl = GST' /\ u = up'  OBVIOUS
  <1>3. Greeters(nt, u)  BY <1>2 DEF Greeting, Greeters, Grows
  <1>4. Greeted(nt, tbl, u)
    <2> SUFFICES ASSUME NEW n \in Node, NEW m \in Node, n # m, u[n], tbl[n][m] # Unknown
                 PROVE  u[m] /\ (tbl[m][n] # Unknown \/ Greets(nt[n][m]))
      BY DEF Greeted
    <2>1. GST[n][m] # Unknown  BY <1>2
    <2>2. up[n]  BY <2>1 DEF Greeting, Stranger
    <2>3. up[m] /\ (GST[m][n] # Unknown \/ Greets(net[n][m]))
      BY <2>1, <2>2 DEF Greeting, Greeted
    <2> QED  BY <1>2, <2>3 DEF Grows
  <1> QED  BY <1>1, <1>2, <1>3, <1>4 DEF Greeting, Carries, OwnRows

LEMMA RowWords ==
  ASSUME NEW n \in Node, NEW d \in Node
  PROVE  /\ \A m \in Node, x \in IO, y \in BOOLEAN : Put(m, x, y) \in OwnRows[n][d]
         /\ \A row \in Row : PutAll(n, row) \in OwnRows[n][d]
         /\ \A kind \in {"TimeRangeOut", "GSTCheckSum", "ConfigRes"} :
               Tell(kind, n) \in OwnRows[n][d]
         /\ \A m \in SetMsg : m \in OwnRows[n][d]
  BY PutTypes DEF OwnRows, Put, PutAll, Tell, SetMsg, Msg

(* n broadcasts, after it has taken a datagram that is no greeting or none. *)
LEMMA SpeaksGreeting ==
  ASSUME Greeting, Typed', NEW nt, Carries(nt, OwnRows), NEW n \in Node, up'[n],
         Grows(net, nt, up'), NEW msgs \in Seq(Msg),
         \A d \in Node : msgs \in Seq(OwnRows[n][d]), net' = Broadcast(nt, n, msgs),
         \A m \in Node : up[m] => up'[m],
         \A a, m \in Node : a # m => (GST'[a][m] = Unknown <=> GST[a][m] = Unknown)
  PROVE  Greeting'
  <1>1. nt \in [Node -> [Node -> Seq(Msg)]]  BY DEF Carries
  <1>2. Carries(net', OwnRows)  BY BroadcastCarries
  <1>3. PICK u : u = up'  OBVIOUS
  <1>4. Grows(nt, net', u)  BY <1>1, <1>3, BroadcastGrows
  <1>5. Grows(net, net', up')  BY <1>3, <1>4, GrowsOn
  <1> QED  BY <1>2, <1>5, KeepsGreeting

LEMMA GrowsItself == ASSUME NEW nt, NEW u PROVE Grows(nt, nt, u)
  BY DEF Grows

(* n puts a line of itself, or another in whose name it speaks.             *)
LEMMA PutGreeting ==
  ASSUME Greeting, Typed', NEW nt, Carries(nt, OwnRows), NEW n \in Node, up[n], UNCHANGED up,
         Grows(net, nt, up), NEW m \in Node, NEW x \in IO, NEW y \in BOOLEAN,
         net' = Broadcast(nt, n, <<Put(m, x, y)>>),
         \A a, b \in Node : a # b => (GST'[a][b] = Unknown <=> GST[a][b] = Unknown)
  PROVE  Greeting'
  <1>1. <<Put(m, x, y)>> \in Seq(Msg)  BY PutTypes, SingleType
  <1>2. \A d \in Node : <<Put(m, x, y)>> \in Seq(OwnRows[n][d])  BY RowWords, SingleType
  <1> QED  BY <1>1, <1>2, SpeaksGreeting

LEMMA AllGreeting ==
  ASSUME Greeting, Typed', NEW n \in Node, NEW row \in Row, up'[n],
         \A m \in Node : up[m] => up'[m], net' = Broadcast(net, n, <<PutAll(n, row)>>),
         \A a, b \in Node : a # b => (GST'[a][b] = Unknown <=> GST[a][b] = Unknown)
  PROVE  Greeting'
  <1>1. <<PutAll(n, row)>> \in Seq(Msg)  BY PutTypes, SingleType
  <1>2. \A d \in Node : <<PutAll(n, row)>> \in Seq(OwnRows[n][d])  BY RowWords, SingleType
  <1> QED  BY <1>1, <1>2, SpeaksGreeting, GrowsItself DEF Greeting

LEMMA ReportsGreeting ==
  ASSUME Greeting, Typed', NEW n \in Node, up[n], UNCHANGED up, NEW xs \in SUBSET IO,
         getgpio(n, xs), net' = Broadcast(net, n, Reports(n, xs))
  PROVE  Greeting'
  <1>1. PinsType  BY TypedParts DEF Greeting
  <1>2. Reports(n, xs) \in Seq(Msg)  BY <1>1, PutTypes, ReportsType
  <1>3. ASSUME NEW d \in Node PROVE Reports(n, xs) \in Seq(OwnRows[n][d])
    BY <1>1, RowWords, ReportsType
  <1>4. \A a, b \in Node : a # b => GST'[a][b] = GST[a][b]
    BY DEF getgpio, Greeting, Typed, TypeOK
  <1> QED  BY <1>2, <1>3, <1>4, SpeaksGreeting, GrowsItself DEF Greeting

(* A newcomer is answered, and greeted in turn.                             *)
LEMMA RecvPutAllGreeting ==
  ASSUME Greeting, Typed', NEW s \in Node, NEW n \in Node, s # n, RecvPutAll(s, n)
  PROVE  Greeting'
  <1> DEFINE m == Head(net[s][n])
  <1>1. /\ up[n] /\ net[s][n] # <<>> /\ m.kind = "PutAll" /\ UNCHANGED up
        /\ GST' = [GST EXCEPT ![n][m.id] = m.row]
        /\ net' = IF GST[n][m.id] = Unknown
                  THEN Unicast(Taken(s, n), n, s, PutAll(n, GST[n][n])) ELSE Taken(s, n)
    BY DEF RecvPutAll, Arrived, Idle
  <1>2. GST \in [Node -> [Node -> Row \cup {Unknown}]] /\ GST[n][n] \in Row
    BY <1>1 DEF Greeting, Typed, TypeOK, OwnRow
  <1>3. Carries(Taken(s, n), OwnRows) /\ m \in OwnRows[s][n]
    BY <1>1, TakenCarries DEF Greeting
  <1>4. m.id = s  BY <1>1, <1>3 DEF OwnRows
  <1>5. m.row \in Row  BY <1>1, HeadTypes DEF Greeting, PutAllMsg
  <1> HIDE DEF m
  <1>6. /\ GST'[n][s] # Unknown
        /\ \A a, b \in Node : a # n \/ b # s => GST'[a][b] = GST[a][b]
    BY <1>1, <1>2, <1>4, <1>5, UnknownAssumption
  <1>7. net[s][n] \in Seq(Msg) /\ net \in [Node -> [Node -> Seq(Msg)]]
    BY DEF Greeting, Carries
  <1>8. up[s]
    <2>1. Greets(net[s][n])  BY <1>1, <1>7, GreetsTaken DEF m
    <2> QED  BY <2>1 DEF Greeting, Greeters
  <1>9. \A a, b \in Node :
           /\ Greets(net[a][b]) => Greets(Taken(s, n)[a][b]) \/ (a = s /\ b = n)
           /\ Greets(Taken(s, n)[a][b]) => Greets(net[a][b])
    <2> SUFFICES ASSUME NEW a \in Node, NEW b \in Node
                 PROVE  /\ Greets(net[a][b]) => Greets(Taken(s, n)[a][b]) \/ (a = s /\ b = n)
                        /\ Greets(Taken(s, n)[a][b]) => Greets(net[a][b])
      OBVIOUS
    <2>1. \/ ~ (a = s /\ b = n) /\ Taken(s, n)[a][b] = net[a][b]
          \/ a = s /\ b = n /\ Taken(s, n)[a][b] = Tail(net[s][n])
      BY <1>7 DEF Taken
    <2> QED  BY <1>1, <1>7, <2>1, GreetsTaken
  <1>10. PICK nt, tbl : nt = net' /\ tbl = GST'  OBVIOUS
  <1>11. /\ Carries(nt, OwnRows) /\ Grows(Taken(s, n), nt, up)
         /\ GST[n][s] = Unknown => Greets(nt[n][s])
    <2>1. CASE GST[n][s] = Unknown
      <3>1. nt = Unicast(Taken(s, n), n, s, PutAll(n, GST[n][n]))
        BY <1>1, <1>4, <1>10, <2>1
      <3>2. PICK msg \in Msg : msg = PutAll(n, GST[n][n])  BY <1>2, PutTypes, Zenon
      <3>3. msg \in OwnRows[n][s]  BY <1>2, <3>2, RowWords
      <3>4. msg.kind = "PutAll"  BY <3>2 DEF PutAll
      <3>5. Taken(s, n) \in [Node -> [Node -> Seq(Msg)]]  BY <1>3 DEF Carries
      <3> QED  BY <1>1, <1>3, <3>1, <3>2, <3>3, <3>4, <3>5, UnicastCarries, UnicastGrows
    <2>2. CASE GST[n][s] # Unknown
      BY <1>1, <1>3, <1>4, <1>10, <2>2, GrowsItself
    <2> QED  BY <2>1, <2>2
  <1>12. Greeters(nt, up)
    BY <1>9, <1>11 DEF Greeting, Greeters, Grows
  <1>13. Stranger'  BY <1>1, <1>6 DEF Greeting, Stranger
  <1>14. Greeted(nt, tbl, up)
    <2> SUFFICES ASSUME NEW a \in Node, NEW b \in Node, a # b, up[a], tbl[a][b] # Unknown
                 PROVE  up[b] /\ (tbl[b][a] # Unknown \/ Greets(nt[a][b]))
      BY DEF Greeted
    <2>1. CASE GST[a][b] # Unknown
      <3>1. up[b] /\ (GST[b][a] # Unknown \/ Greets(net[a][b]))
        BY <2>1 DEF Greeting, Greeted
      <3>2. GST[b][a] # Unknown => tbl[b][a] # Unknown  BY <1>6, <1>10
      <3>3. CASE a = s /\ b = n  BY <1>6, <1>8, <1>10, <3>1, <3>3, <1>1 DEF Greeting, Greeted
      <3>4. CASE ~ (a = s /\ b = n)  BY <1>9, <1>11, <3>1, <3>2, <3>4 DEF Grows
      <3> QED  BY <3>3, <3>4
    <2>2. CASE GST[a][b] = Unknown
      <3>1. a = n /\ b = s  BY <1>6, <1>10, <2>2
      <3> QED  BY <1>8, <1>11, <2>2, <3>1
    <2> QED  BY <2>1, <2>2
  <1> QED  BY <1>1, <1>10, <1>11, <1>12, <1>13, <1>14 DEF Greeting, Carries, OwnRows

LEMMA ReceiveGreeting ==
  ASSUME Greeting, Typed', NEW s \in Node, NEW n \in Node, s # n, Receive(s, n)
  PROVE  Greeting'
  <1> DEFINE m == Head(net[s][n])
  <1>1. up[n] /\ net[s][n] # <<>> /\ Typed /\ UNCHANGED up
    BY DEF Greeting, Receive, RecvPutOwn, RecvPut, RecvPutAll, RecvSet, RecvTell, Arrived,
       Idle, memory
  <1>2. GST \in [Node -> [Node -> Row \cup {Unknown}]] /\ GST[n][n] \in Row
        /\ net \in [Node -> [Node -> Seq(Msg)]]
    BY <1>1 DEF Typed, TypeOK, OwnRow
  <1>3. Carries(Taken(s, n), OwnRows) /\ m \in OwnRows[s][n]
    BY <1>1, TakenCarries DEF Greeting
  <1>4. /\ m.kind = "Put" => m \in PutMsg
        /\ m.kind = "PutAll" => m \in PutAllMsg
        /\ m.kind = "Set" => m \in SetMsg
    BY <1>1, HeadTypes
  <1>5. m.kind # "PutAll" => Grows(net, Taken(s, n), up)
    BY <1>1, <1>2, TakenGrows
  <1> HIDE DEF m
  <1>6. CASE RecvPutOwn(s, n)
    <2>1. m.kind \in {"Put", "PutAll"} /\ m.id = n /\ net' = Taken(s, n) /\ UNCHANGED GST
      BY <1>6 DEF RecvPutOwn, Arrived, memory, m
    <2>2. m.kind # "PutAll"  BY <1>3, <2>1 DEF OwnRows
    <2> QED  BY <1>1, <1>3, <1>5, <2>1, <2>2, KeepsGreeting
  <1>7. CASE RecvPut(s, n)
    <2>1. /\ m.kind = "Put" /\ net' = Taken(s, n)
          /\ GST' = IF GST[n][m.id] = Unknown THEN GST
                    ELSE [GST EXCEPT ![n][m.id][m.x] = m.y]
      BY <1>7 DEF RecvPut, Arrived, m
    <2>2. m.id \in Node /\ m.x \in IO /\ m.y \in BOOLEAN  BY <1>4, <2>1 DEF PutMsg
    <2>3. \A a, b \in Node : GST'[a][b] = Unknown <=> GST[a][b] = Unknown
      <3>1. CASE GST[n][m.id] = Unknown  BY <2>1, <3>1
      <3>2. CASE GST[n][m.id] # Unknown
        <4>1. PICK row : row = [GST[n][m.id] EXCEPT ![m.x] = m.y]  OBVIOUS
        <4>2. row \in Row  BY <1>2, <2>2, <3>2, <4>1 DEF Row
        <4>3. GST' = [GST EXCEPT ![n][m.id] = row]  BY <2>1, <3>2, <4>1
        <4> QED  BY <1>2, <2>2, <3>2, <4>2, <4>3, UnknownAssumption
      <3> QED  BY <3>1, <3>2
    <2>4. m.kind # "PutAll"  BY <2>1
    <2> QED  BY <1>1, <1>3, <1>5, <2>1, <2>3, <2>4, KeepsGreeting
  <1>8. CASE RecvSet(s, n)
    <2>1. m.kind = "Set"  BY <1>8 DEF RecvSet, Arrived, m
    <2>2. m.x \in IO /\ m.y \in BOOLEAN  BY <1>4, <2>1 DEF SetMsg, IO
    <2>3. Grows(net, Taken(s, n), up)  BY <1>5, <2>1
    <2>4. CASE inRange[n]
      <3>1. /\ net' = Broadcast(Taken(s, n), n, <<Put(n, m.x, m.y)>>)
            /\ GST' = [GST EXCEPT ![n][n][m.x] = m.y]
        BY <1>8, <2>4 DEF RecvSet, setgpio, m
      <3>2. \A a, b \in Node : a # b => GST'[a][b] = GST[a][b]  BY <1>2, <3>1
      <3> QED  BY <1>1, <1>3, <2>2, <2>3, <3>1, <3>2, PutGreeting
    <2>5. CASE ~ inRange[n]
      <3>1. /\ net' = Unicast(Taken(s, n), n, s, Tell("TimeRangeOut", n))
            /\ UNCHANGED GST
        BY <1>8, <2>5 DEF RecvSet
      <3>2. PICK msg \in Msg : msg = Tell("TimeRangeOut", n)  BY PutTypes, Zenon
      <3>3. msg \in OwnRows[n][s]  BY <3>2, RowWords
      <3>4. Taken(s, n) \in [Node -> [Node -> Seq(Msg)]]  BY <1>3 DEF Carries
      <3>5. Carries(net', OwnRows) /\ Grows(Taken(s, n), net', up)
        BY <1>1, <1>3, <3>1, <3>2, <3>3, <3>4, UnicastCarries, UnicastGrows
      <3>6. Grows(net, net', up)  BY <2>3, <3>5, GrowsOn
      <3> QED  BY <1>1, <3>1, <3>5, <3>6, KeepsGreeting
    <2> QED  BY <2>4, <2>5
  <1>9. CASE RecvTell(s, n)
    <2>1. /\ m.kind # "PutAll" /\ net' = Taken(s, n) /\ UNCHANGED GST
      BY <1>9 DEF RecvTell, Arrived, m
    <2> QED  BY <1>1, <1>3, <1>5, <2>1, KeepsGreeting
  <1> QED  BY <1>6, <1>7, <1>8, <1>9, RecvPutAllGreeting DEF Receive

(* What a client of n makes n do.                                          *)
LEMMA ClientGreeting ==
  ASSUME Greeting, Typed', NEW n \in Node, Client(n)
  PROVE  Greeting'
  <1>1. Typed /\ GST \in [Node -> [Node -> Row \cup {Unknown}]]
        /\ Carries(net, OwnRows) /\ Grows(net, net, up)
    BY GrowsItself DEF Greeting, Typed, TypeOK
  <1>2. ASSUME NEW x \in SetX, NEW y \in BOOLEAN, ClientSet(n, x, y)
        PROVE  Greeting'
    <2>1. /\ x \in IO /\ up[n] /\ UNCHANGED up
          /\ net' = Broadcast(net, n, <<Put(n, x, y)>>)
          /\ GST' = [GST EXCEPT ![n][n][x] = y]
      BY <1>2, LinesAssumption DEF ClientSet, Idle, setgpio
    <2>2. \A a, b \in Node : a # b => GST'[a][b] = GST[a][b]
      BY <1>1, <2>1
    <2> QED
      BY <1>1, <2>1, <2>2, PutGreeting
  <1>3. ASSUME NEW ys \in [Outputs -> BOOLEAN], ClientSetAll(n, ys)
        PROVE  Greeting'
    <2>1. /\ up[n] /\ UNCHANGED up
          /\ net' = Broadcast(net, n, <<PutAll(n, GST'[n][n])>>)
      BY <1>3 DEF ClientSetAll, Idle
    <2>2. GST'[n][n] \in Row
      BY <1>1, <1>3, SetgpioAllType, TypedParts DEF ClientSetAll, Idle
    <2>3. PICK row \in Row : row = GST'[n][n]
      BY <2>2
    <2>4. \A a, b \in Node : a # b => GST'[a][b] = GST[a][b]
      BY <1>1, <1>3 DEF ClientSetAll, setgpioAll
    <2> QED
      BY <2>1, <2>3, <2>4, AllGreeting
  <1>4. ASSUME NEW xs \in SUBSET IO, ClientGet(n, xs)
        PROVE  Greeting'
    BY <1>4, ReportsGreeting DEF ClientGet, Idle
  <1>5. ASSUME NEW kind \in {"GSTCheckSum", "ConfigRes"}, ClientQuery(n, kind)
        PROVE  Greeting'
    <2>1. /\ up[n] /\ UNCHANGED <<up, GST>>
          /\ net' = Broadcast(net, n, <<Tell(kind, n)>>)
      BY <1>5 DEF ClientQuery, Idle, memory
    <2>2. <<Tell(kind, n)>> \in Seq(Msg)
      BY PutTypes, SingleType
    <2>3. \A d \in Node : <<Tell(kind, n)>> \in Seq(OwnRows[n][d])
      BY RowWords, SingleType
    <2> QED
      BY <1>1, <2>1, <2>2, <2>3, SpeaksGreeting
  <1> QED
    BY <1>2, <1>3, <1>4, <1>5 DEF Client

(* The IVR makes n speak in the name of another, but never greet in it.    *)
LEMMA IVRGreeting ==
  ASSUME Greeting, Typed', NEW n \in Node, IVR(n)
  PROVE  Greeting'
  <1>1. Typed /\ GST \in [Node -> [Node -> Row \cup {Unknown}]]
        /\ Carries(net, OwnRows) /\ Grows(net, net, up)
    BY GrowsItself DEF Greeting, Typed, TypeOK
  <1>2. ASSUME NEW x \in Outputs, NEW y \in BOOLEAN, IVRSetReqOwn(n, x, y)
        PROVE  Greeting'
    <2>1. x \in IO /\ up[n] /\ UNCHANGED up
      BY <1>2 DEF IO, IVRSetReqOwn, Idle
    <2>2. CASE inRange[n]
      <3>1. /\ net' = Broadcast(net, n, <<Put(n, x, y)>>)
            /\ GST' = [GST EXCEPT ![n][n][x] = y]
        BY <1>2, <2>2 DEF IVRSetReqOwn, setgpio
      <3>2. \A a, b \in Node : a # b => GST'[a][b] = GST[a][b]
        BY <1>1, <3>1
      <3> QED
        BY <1>1, <2>1, <3>1, <3>2, PutGreeting
    <2>3. CASE ~ inRange[n]
      <3>1. UNCHANGED <<up, GST, net>>
        BY <1>2, <2>3 DEF IVRSetReqOwn
      <3> QED
        BY <1>1, <3>1, KeepsGreeting
    <2> QED
      BY <2>2, <2>3
  <1>3. ASSUME NEW m \in Node, IVRSetReqUnknown(n, m)
        PROVE  Greeting'
    <2>1. UNCHANGED <<up, GST, net>>
      BY <1>3 DEF IVRSetReqUnknown
    <2> QED
      BY <1>1, <2>1, KeepsGreeting
  <1>4. ASSUME NEW m \in Node, NEW x \in Outputs, NEW y \in BOOLEAN,
               IVRSetReqRemote(n, m, x, y)
        PROVE  Greeting'
    <2>1. /\ x \in IO /\ up[n] /\ UNCHANGED <<up, GST>>
          /\ net' = Broadcast(net, n, <<Put(m, x, y)>>)
      BY <1>4 DEF IO, IVRSetReqRemote, Idle
    <2> QED
      BY <1>1, <2>1, PutGreeting
  <1> QED
    BY <1>2, <1>3, <1>4 DEF IVR

(* The timeout of the select loop, and the rules it walks.                 *)
LEMMA PLCGreeting ==
  ASSUME Greeting, Typed', NEW n \in Node, Tick(n) \/ PLCStep(n)
  PROVE  Greeting'
  <1> DEFINE r == ThisRule(n)
  <1>1. Typed /\ GST \in [Node -> [Node -> Row \cup {Unknown}]]
        /\ Carries(net, OwnRows) /\ Grows(net, net, up)
    BY GrowsItself DEF Greeting, Typed, TypeOK
  <1>2. CASE Tick(n)
    BY <1>2, ReportsGreeting DEF Tick, Idle
  <1>3. CASE PLCSkip(n) \/ PLCRearm(n) \/ PLCFireNowhere(n)
    <2>1. UNCHANGED <<up, GST, net>>
      BY <1>3 DEF PLCSkip, PLCRearm, PLCFireNowhere, Fires
    <2> QED
      BY <1>1, <2>1, KeepsGreeting
  <1>4. ASSUME scan[n] # 0 PROVE r \in Rule
    BY <1>1, <1>4, ThisRuleType DEF Typed
  <1>5. CASE PLCFireLocal(n)
    <2>1. r \in Rule /\ up[n] /\ UNCHANGED up
      BY <1>4, <1>5 DEF PLCFireLocal, Fires
    <2>2. PICK x \in IO, y \in BOOLEAN : x = r.x1 /\ y = r.y1
      BY <2>1 DEF Rule, IO
    <2>3. /\ net' = Broadcast(net, n, <<Put(n, x, y)>>)
          /\ GST' = [GST EXCEPT ![n][n][x] = y]
      BY <1>5, <2>2 DEF PLCFireLocal, setgpio
    <2>4. \A a, b \in Node : a # b => GST'[a][b] = GST[a][b]
      BY <1>1, <2>3
    <2> QED
      BY <1>1, <2>1, <2>3, <2>4, PutGreeting
  <1>6. CASE PLCFireRemote(n)
    <2>1. r \in Rule /\ up[n] /\ UNCHANGED <<up, GST>>
      BY <1>4, <1>6 DEF PLCFireRemote, Fires
    <2>2. PICK d, msg :
            /\ d = IPT[n][r.id1] /\ d # Unknown
            /\ msg = [kind |-> "Set", x |-> r.x1, y |-> r.y1, aim |-> r.id1]
            /\ net' = Unicast(net, n, d, msg)
      BY <1>6 DEF PLCFireRemote
    <2>3. d \in Node /\ msg \in SetMsg /\ msg \in Msg
      <3>1. r.id1 \in Node
        BY <2>1 DEF Rule
      <3>2. d \in Node
        BY <1>1, <2>2, <3>1 DEF Typed, TypeOK
      <3>3. msg \in SetMsg
        BY <2>1, <2>2 DEF Rule, SetMsg
      <3> QED
        BY <3>2, <3>3 DEF Msg
    <2>4. msg \in OwnRows[n][d]
      BY <2>3, RowWords
    <2>5. Carries(net', OwnRows)
      BY <1>1, <2>2, <2>3, <2>4, UnicastCarries
    <2>6. Grows(net, net', up)
      BY <1>1, <2>1, <2>2, <2>3, UnicastGrows DEF Carries
    <2> QED
      BY <2>1, <2>5, <2>6, KeepsGreeting
  <1> QED
    BY <1>2, <1>3, <1>5, <1>6 DEF PLCStep

(* A SIOD starts and greets everybody.                                     *)
LEMMA BootGreeting ==
  ASSUME Greeting, Typed', NEW n \in Node, Boot(n)
  PROVE  Greeting'
  <1>1. PICK row : row = [x \in IO |-> IF x \in Outputs THEN saved[n][x] ELSE wire[n][x]]
    OBVIOUS
  <1>2. row \in Row
    BY <1>1 DEF Greeting, Typed, TypeOK, Row
  <1>3. /\ up' = [up EXCEPT ![n] = TRUE]
        /\ GST' = [GST EXCEPT ![n][n] = row]
        /\ net' = Broadcast(net, n, <<PutAll(n, row)>>)
    BY <1>1 DEF Boot
  <1>4. /\ up'[n] /\ \A m \in Node : up[m] => up'[m]
        /\ \A a, b \in Node : a # b => GST'[a][b] = GST[a][b]
    BY <1>3 DEF Greeting, Typed, TypeOK
  <1> QED
    BY <1>2, <1>3, <1>4, AllGreeting

(* Two datagrams change places; one reaches a SIOD that is down, which no  *)
(* running SIOD has the row of.                                            *)
LEMMA ReorderedGreeting ==
  ASSUME Greeting, Typed', NEW s \in Node, NEW d \in Node,
         NEW i \in 1 .. Len(net[s][d]), Overtake(s, d, i)
  PROVE  Greeting'
  <1>1. PICK q : q = net[s][d]
    OBVIOUS
  <1>2. PICK L : L = OwnRows[s][d]
    OBVIOUS
  <1>3. q \in Seq(L) /\ q \in Seq(Msg) /\ net \in [Node -> [Node -> Seq(Msg)]]
    BY <1>1, <1>2 DEF Greeting, Carries
  <1>4. PICK p : p = [q EXCEPT ![i] = q[i + 1], ![i + 1] = q[i]]
    OBVIOUS
  <1>5. /\ i \in 1 .. Len(q) - 1 /\ UNCHANGED <<up, GST>>
        /\ net' = [net EXCEPT ![s][d] = p]
    BY <1>1, <1>4 DEF Overtake, memory
  <1>6. p \in Seq(L)
    BY <1>3, <1>4, <1>5
  <1>7. Greets(p) <=> Greets(q)
    <2>1. /\ Len(p) = Len(q) /\ p[i] = q[i + 1] /\ p[i + 1] = q[i]
          /\ \A k \in 1 .. Len(q) : k # i /\ k # i + 1 => p[k] = q[k]
          /\ i \in 1 .. Len(q) /\ i + 1 \in 1 .. Len(q)
      BY <1>3, <1>4, <1>5
    <2>2. ASSUME NEW k \in 1 .. Len(q), p[k].kind = "PutAll" PROVE Greets(q)
      BY <2>1, <2>2 DEF Greets
    <2>3. ASSUME NEW k \in 1 .. Len(q), q[k].kind = "PutAll" PROVE Greets(p)
      BY <2>1, <2>3 DEF Greets
    <2> QED
      BY <2>1, <2>2, <2>3 DEF Greets
  <1>8. \A a, b \in Node : net'[a][b] = net[a][b] \/ (a = s /\ b = d /\ net'[a][b] = p)
    BY <1>3, <1>5
  <1>9. Carries(net', OwnRows)
    <2>1. net' \in [Node -> [Node -> Seq(Msg)]]
      BY DEF Typed, TypeOK
    <2> QED
      BY <1>2, <1>6, <1>8, <2>1 DEF Greeting, Carries
  <1>10. PICK nt : nt = net'
    OBVIOUS
  <1>11. Grows(net, nt, up)
    BY <1>1, <1>7, <1>8, <1>10 DEF Grows
  <1> QED
    BY <1>5, <1>9, <1>10, <1>11, KeepsGreeting

LEMMA UnheardGreeting ==
  ASSUME Greeting, Typed', NEW s \in Node, NEW d \in Node, Unheard(s, d)
  PROVE  Greeting'
  <1>1. /\ ~ up[d] /\ net[s][d] # <<>> /\ net' = Taken(s, d) /\ UNCHANGED <<up, GST>>
    BY DEF Unheard, memory
  <1>2. Carries(Taken(s, d), OwnRows)
    BY <1>1, TakenCarries DEF Greeting
  <1>3. net \in [Node -> [Node -> Seq(Msg)]]
    BY DEF Greeting, Carries
  <1>4. \A a, b \in Node :
           \/ Taken(s, d)[a][b] = net[a][b]
           \/ a = s /\ b = d /\ Taken(s, d)[a][b] = Tail(net[a][b])
    BY <1>3 DEF Taken
  <1>5. \A a, b \in Node : Greets(Taken(s, d)[a][b]) => Greets(net[a][b])
    <2> SUFFICES ASSUME NEW a \in Node, NEW b \in Node
                 PROVE  Greets(Taken(s, d)[a][b]) => Greets(net[a][b])
      OBVIOUS
    <2>1. net[s][d] \in Seq(Msg)
      BY <1>3
    <2> QED
      BY <1>1, <1>4, <2>1, GreetsTaken
  <1>6. PICK nt : nt = Taken(s, d)
    OBVIOUS
  <1>7. Greeters(nt, up)
    BY <1>5, <1>6 DEF Greeting, Greeters
  <1>8. Greeted(nt, GST, up)
    BY <1>1, <1>4, <1>6 DEF Greeting, Greeted
  <1> QED
    BY <1>1, <1>2, <1>6, <1>7, <1>8 DEF Greeting, Stranger, Carries, OwnRows

(* A mesh in which no datagram is lost and no SIOD crashes.  Datagrams may *)
(* overtake each other, and what arrives before a SIOD runs is unheard.    *)
FaithfulNext ==
    \/ \E n \in Node :
          \/ Boot(n) \/ Process(n) \/ Client(n) \/ IVR(n) \/ Surroundings(n)
          \/ \E x \in Outputs : RelayFault(n, x)
    \/ \E s, d \in Node : \/ \E i \in 1 .. Len(net[s][d]) : Overtake(s, d, i)
                          \/ Unheard(s, d)

FaithfulSpec == Init /\ [][FaithfulNext]_vars

LEMMA NextGreeting ==
  ASSUME Greeting, [FaithfulNext]_vars
  PROVE  Greeting'
  <1>1. [Next]_vars
    BY DEF FaithfulNext, Next, Network
  <1>2. Typed'
    BY <1>1, NextTyped DEF Greeting
  <1>3. ASSUME UNCHANGED <<up, GST, net>> PROVE Greeting'
    BY <1>2, <1>3, KeepsGreeting, GrowsItself DEF Greeting
  <1>4. CASE UNCHANGED vars
    BY <1>3, <1>4 DEF vars, memory
  <1>5. ASSUME NEW n \in Node, Process(n) PROVE Greeting'
    BY <1>2, <1>5, ReceiveGreeting, PLCGreeting DEF Process
  <1>6. ASSUME NEW n \in Node, Surroundings(n) \/ \E x \in Outputs : RelayFault(n, x)
        PROVE  Greeting'
    BY <1>3, <1>6 DEF Surroundings, Flip, WindowChange, RelayFault, memory
  <1>7. CASE FaithfulNext
    BY <1>2, <1>5, <1>6, <1>7, BootGreeting, ClientGreeting, IVRGreeting,
       ReorderedGreeting, UnheardGreeting DEF FaithfulNext
  <1> QED
    BY <1>4, <1>7

(* "initial SIOD startup is detected: we send our local gpios" (line 1144): *)
(* when nothing is in flight between two running SIODs and one has the row *)
(* of the other, it is known in turn, however many SIODs start in whatever *)
(* order, whatever clients, the IVR and the PLC rules do meanwhile and     *)
(* however the datagrams overtake each other, as long as none is lost and  *)
(* nobody crashes.                                                         *)
THEOREM Discovery == FaithfulSpec => []NewcomerAnswered
  <1>1. Init => Greeting
    <2> SUFFICES ASSUME Init PROVE Greeting
      OBVIOUS
    <2>1. Typed /\ Carries(net, OwnRows) /\ Stranger
      BY InitTyped DEF Init, Carries, Stranger
    <2>2. Greeters(net, up) /\ Greeted(net, GST, up)
      BY DEF Init, Greeters, Greeted, Greets
    <2> QED
      BY <2>1, <2>2 DEF Greeting
  <1>2. Greeting => NewcomerAnswered
    <2> SUFFICES ASSUME Greeting, NEW n \in Node, NEW m \in Node, up[n], up[m],
                        GST[n][m] # Unknown, net[n][m] = <<>>
                 PROVE  GST[m][n] # Unknown
      BY DEF NewcomerAnswered
    <2>1. ~ Greets(net[n][m])
      BY DEF Greets
    <2>2. CASE n = m
      BY <2>2
    <2>3. CASE n # m
      BY <2>1, <2>3 DEF Greeting, Greeted
    <2> QED
      BY <2>2, <2>3
  <1>3. Greeting /\ [FaithfulNext]_vars => Greeting'
    BY NextGreeting
  <1> QED
    BY <1>1, <1>2, <1>3, PTL DEF FaithfulSpec

-----------------------------------------------------------------------------
(* What a step does to the bits of the inputs, and to the relays.          *)
Sampled(n, x) ==
    up[n] /\ up'[n] /\ GST'[n][n][x] # GST[n][n][x] => GST'[n][n][x] = wire[n][x]

Permitted(n, x) ==
    up[n] /\ up'[n] /\ wire'[n][x] # wire[n][x] => inRange[n] \/ <<n, x>> \in disturbed'

(* A setgpio of an output changes no bit of an input.                      *)
LEMMA SetgpioSamples ==
  ASSUME Typed, NEW n \in Node, up[n], NEW x \in Outputs, NEW y \in BOOLEAN, setgpio(n, x, y),
         NEW m \in Node, NEW z \in Inputs
  PROVE  Sampled(m, z)
  <1>1. GST' = [GST EXCEPT ![n][n] = [GST[n][n] EXCEPT ![x] = y]]
    BY DEF setgpio
  <1>2. GST[n][n] \in Row /\ GST \in [Node -> [Node -> Row \cup {Unknown}]]
    BY DEF Typed, TypeOK, OwnRow
  <1>3. z # x /\ z \in IO
    BY LinesAssumption DEF IO
  <1>4. [GST[n][n] EXCEPT ![x] = y][z] = GST[n][n][z]
    BY <1>2, <1>3 DEF Row
  <1>5. GST'[m][m][z] = GST[m][m][z]
    BY <1>1, <1>2, <1>4
  <1> QED
    BY <1>5 DEF Sampled

LEMMA SetgpioAllSamples ==
  ASSUME Typed, NEW n \in Node, up[n], NEW ys \in [Outputs -> BOOLEAN], setgpioAll(n, ys),
         NEW m \in Node, NEW z \in Inputs
  PROVE  Sampled(m, z)
  <1> DEFINE new == [x \in IO |-> IF x \in Outputs THEN ys[x] ELSE GST[n][n][x]]
  <1>1. GST' = [GST EXCEPT ![n][n] = new]
    BY DEF setgpioAll
  <1>2. z \notin Outputs /\ z \in IO
    BY LinesAssumption DEF IO
  <1>3. new[z] = GST[n][n][z]
    BY <1>2
  <1> HIDE DEF new
  <1>4. GST'[m][m][z] = GST[m][m][z]
    BY <1>1, <1>3 DEF Typed, TypeOK
  <1> QED
    BY <1>4 DEF Sampled

LEMMA GetgpioSamples ==
  ASSUME Typed, NEW n \in Node, NEW xs \in SUBSET IO, getgpio(n, xs),
         NEW m \in Node, NEW z \in Inputs
  PROVE  Sampled(m, z)
  <1> DEFINE new == [x \in IO |-> IF x \in xs THEN wire[n][x] ELSE GST[n][n][x]]
  <1>1. GST' = [GST EXCEPT ![n][n] = new]
    BY DEF getgpio
  <1>2. new[z] = wire[n][z] \/ new[z] = GST[n][n][z]
    BY DEF IO
  <1> HIDE DEF new
  <1>3. GST'[m][m][z] = wire[m][z] \/ GST'[m][m][z] = GST[m][m][z]
    BY <1>1, <1>2 DEF Typed, TypeOK
  <1> QED
    BY <1>3 DEF Sampled

(* A step that leaves the own rows alone, or stops the process.            *)
LEMMA SameRowSamples ==
  ASSUME NEW m, NEW z, up'[m] => ~ up[m] \/ GST'[m][m] = GST[m][m]
  PROVE  Sampled(m, z)
  BY DEF Sampled

(* A message about another SIOD leaves the own rows alone.                 *)
LEMMA ReceiveOwnRows ==
  ASSUME Typed, NEW n \in Node, NEW s \in Node, RecvPut(s, n) \/ RecvPutAll(s, n)
  PROVE  \A k \in Node : GST'[k][k] = GST[k][k]
  <1> DEFINE m == Head(net[s][n])
  <1>1. m.id # n
    BY DEF RecvPut, RecvPutAll
  <1>2. \/ UNCHANGED GST
        \/ GST' = [GST EXCEPT ![n][m.id] = [GST[n][m.id] EXCEPT ![m.x] = m.y]]
        \/ GST' = [GST EXCEPT ![n][m.id] = m.row]
    BY DEF RecvPut, RecvPutAll
  <1>3. ASSUME NEW id, id # n, NEW row, NEW k \in Node, GST' = [GST EXCEPT ![n][id] = row]
        PROVE  GST'[k][k] = GST[k][k]
    BY <1>3 DEF Typed, TypeOK
  <1>4. \E id, row : id # n /\ (UNCHANGED GST \/ GST' = [GST EXCEPT ![n][id] = row])
    <2> HIDE DEF m
    <2>1. PICK id : id = m.id
      OBVIOUS
    <2>2. \E row : UNCHANGED GST \/ GST' = [GST EXCEPT ![n][id] = row]
      BY <1>2, <2>1
    <2> QED
      BY <1>1, <2>1, <2>2
  <1>5. PICK id, row : id # n /\ (UNCHANGED GST \/ GST' = [GST EXCEPT ![n][id] = row])
    BY <1>4
  <1> QED
    BY <1>3, <1>5

LEMMA NextSamples ==
  ASSUME SetX \subseteq Outputs, Typed, [Next]_vars, NEW m \in Node, NEW z \in Inputs
  PROVE  Sampled(m, z)
  <1>1. CASE UNCHANGED GST
    BY <1>1, SameRowSamples
  <1>2. ASSUME NEW n \in Node, Boot(n) PROVE Sampled(m, z)
    <2>1. m # n => GST'[m][m] = GST[m][m]
      BY <1>2 DEF Boot, Typed, TypeOK
    <2> QED
      BY <1>2, <2>1, SameRowSamples DEF Boot
  <1>3. ASSUME NEW n \in Node, NEW s \in Node, Receive(s, n) PROVE Sampled(m, z)
    <2>1. CASE RecvPutOwn(s, n) \/ RecvTell(s, n)
      BY <1>1, <2>1 DEF RecvPutOwn, RecvTell, memory
    <2>2. CASE RecvPut(s, n) \/ RecvPutAll(s, n)
      BY <2>2, ReceiveOwnRows, SameRowSamples
    <2>3. CASE RecvSet(s, n)
      <3>1. CASE ~ inRange[n]
        BY <1>1, <2>3, <3>1 DEF RecvSet
      <3>2. CASE inRange[n]
        <4>1. PICK x, y : /\ x = Head(net[s][n]).x /\ y = Head(net[s][n]).y /\ setgpio(n, x, y)
                          /\ up[n] /\ Head(net[s][n]).kind = "Set" /\ net[s][n] # <<>>
          BY <2>3, <3>2 DEF RecvSet, Arrived, Idle
        <4>2. x \in Outputs /\ y \in BOOLEAN
          BY <4>1, HeadTypes DEF SetMsg
        <4> QED
          BY <4>1, <4>2, SetgpioSamples
      <3> QED
        BY <3>1, <3>2
    <2> QED
      BY <1>3, <2>1, <2>2, <2>3 DEF Receive
  <1>4. ASSUME NEW n \in Node, Tick(n) \/ PLCStep(n) PROVE Sampled(m, z)
    <2>1. CASE Tick(n)
      BY <2>1, GetgpioSamples DEF Tick
    <2>2. CASE PLCSkip(n) \/ PLCRearm(n) \/ PLCFireRemote(n) \/ PLCFireNowhere(n)
      BY <1>1, <2>2 DEF PLCSkip, PLCRearm, PLCFireRemote, PLCFireNowhere
    <2>3. CASE PLCFireLocal(n)
      <3>1. PICK r : r = ThisRule(n) /\ up[n] /\ setgpio(n, r.x1, r.y1) /\ scan[n] # 0
        BY <2>3 DEF PLCFireLocal, Fires
      <3>2. r.x1 \in Outputs /\ r.y1 \in BOOLEAN
        BY <3>1, ThisRuleType DEF Typed, Rule
      <3> QED
        BY <3>1, <3>2, SetgpioSamples
    <2> QED
      BY <1>4, <2>1, <2>2, <2>3 DEF PLCStep
  <1>5. ASSUME NEW n \in Node, Client(n) PROVE Sampled(m, z)
    <2>1. ASSUME NEW x \in SetX, NEW y \in BOOLEAN, ClientSet(n, x, y) PROVE Sampled(m, z)
      BY <2>1, SetgpioSamples DEF ClientSet, Idle
    <2>2. ASSUME NEW ys \in [Outputs -> BOOLEAN], ClientSetAll(n, ys) PROVE Sampled(m, z)
      BY <2>2, SetgpioAllSamples DEF ClientSetAll, Idle
    <2>3. ASSUME NEW xs \in SUBSET IO, ClientGet(n, xs) PROVE Sampled(m, z)
      BY <2>3, GetgpioSamples DEF ClientGet
    <2>4. ASSUME NEW kind, ClientQuery(n, kind) PROVE Sampled(m, z)
      BY <1>1, <2>4 DEF ClientQuery, memory
    <2> QED
      BY <1>5, <2>1, <2>2, <2>3, <2>4 DEF Client
  <1>6. ASSUME NEW n \in Node, IVR(n) PROVE Sampled(m, z)
    <2>1. ASSUME NEW x \in Outputs, NEW y \in BOOLEAN, IVRSetReqOwn(n, x, y)
          PROVE  Sampled(m, z)
      BY <1>1, <2>1, SetgpioSamples DEF IVRSetReqOwn, Idle
    <2>2. ASSUME NEW k, NEW x, NEW y,
                 IVRSetReqUnknown(n, k) \/ IVRSetReqRemote(n, k, x, y)
          PROVE  Sampled(m, z)
      BY <1>1, <2>2 DEF IVRSetReqUnknown, IVRSetReqRemote
    <2> QED
      BY <1>6, <2>1, <2>2 DEF IVR
  <1>7. ASSUME NEW n \in Node, Failure(n) PROVE Sampled(m, z)
    <2>1. Forget(n)
      BY <1>7 DEF Failure, Crash, CrashInSetgpio
    <2>2. m # n => GST'[m][m] = GST[m][m]
      BY <2>1 DEF Forget, Typed, TypeOK
    <2>3. m = n => ~ up'[m]
      BY <2>1 DEF Forget, Typed, TypeOK
    <2> QED
      BY <2>2, <2>3, SameRowSamples
  <1>8. ASSUME NEW n \in Node, Surroundings(n) \/ \E x \in Outputs : RelayFault(n, x)
        PROVE  Sampled(m, z)
    BY <1>1, <1>8 DEF Surroundings, Flip, WindowChange, RelayFault, memory
  <1>9. ASSUME NEW s \in Node, NEW d \in Node, Network(s, d) PROVE Sampled(m, z)
    BY <1>1, <1>9 DEF Network, Lose, Overtake, Unheard, memory
  <1>10. CASE UNCHANGED vars
    BY <1>1, <1>10 DEF vars, memory
  <1>11. ASSUME NEW n \in Node, Process(n) PROVE Sampled(m, z)
    BY <1>3, <1>4, <1>11 DEF Process
  <1> QED
    BY <1>2, <1>5, <1>6, <1>7, <1>8, <1>9, <1>10, <1>11 DEF Next

(* "number of an output [0, 1, .. 3]" (line 811): as long as clients name  *)
(* outputs only, no Set, rule, IVR request or message of another SIOD ever *)
(* changes the bit of an input; only getgpio does, to the level of the pin. *)
THEOREM InputsAreSampled == SetX \subseteq Outputs => (Spec => InputBitsAreRead)
  <1> SUFFICES ASSUME SetX \subseteq Outputs PROVE Spec => InputBitsAreRead
    OBVIOUS
  <1>1. Typed /\ [Next]_vars =>
           [\A n \in Node, x \in Inputs :
               up[n] /\ up'[n] /\ GST'[n][n][x] # GST[n][n][x]
                 => GST'[n][n][x] = wire[n][x]]_vars
    BY NextSamples DEF Sampled
  <1>2. Init => Typed
    BY InitTyped
  <1>3. Typed /\ [Next]_vars => Typed'
    BY NextTyped
  <1> QED
    BY <1>1, <1>2, <1>3, PTL DEF Spec, InputBitsAreRead

-----------------------------------------------------------------------------
(* A step that moves no relay of a SIOD that goes on running, and one of a *)
(* SIOD that is in its range.                                              *)
LEMMA StillPermitted ==
  ASSUME NEW m, NEW z, up[m] /\ up'[m] => wire'[m] = wire[m] \/ inRange[m]
  PROVE  Permitted(m, z)
  BY DEF Permitted

LEMMA NextPermitted ==
  ASSUME \A n \in Node : \A k \in 1 .. NumRules(n) : Rules[n][k].id1 # n,
         Typed, [Next]_vars, NEW m \in Node, NEW z \in Outputs
  PROVE  Permitted(m, z)
  <1>0. wire \in [Node -> Row] /\ up \in [Node -> BOOLEAN]
    BY DEF Typed, TypeOK
  <1>1. CASE UNCHANGED wire
    BY <1>1, StillPermitted
  <1>2. ASSUME NEW n \in Node, inRange[n] \/ ~ up[n] \/ ~ up'[n],
               NEW w, wire' = [wire EXCEPT ![n] = w]
        PROVE  Permitted(m, z)
    BY <1>0, <1>2, StillPermitted
  <1>3. ASSUME NEW n \in Node, NEW x, NEW y, setgpio(n, x, y), inRange[n]
        PROVE  Permitted(m, z)
    <2>1. wire' = [wire EXCEPT ![n] = [wire[n] EXCEPT ![Relay(x)] = y]]
      BY <1>3 DEF setgpio
    <2> QED
      BY <1>2, <1>3, <2>1
  <1>4. ASSUME NEW n \in Node, NEW s \in Node, Receive(s, n) PROVE Permitted(m, z)
    <2>1. CASE RecvPutOwn(s, n) \/ RecvTell(s, n) \/ RecvPut(s, n) \/ RecvPutAll(s, n)
      BY <1>1, <2>1 DEF RecvPutOwn, RecvTell, RecvPut, RecvPutAll, device
    <2>2. CASE RecvSet(s, n)
      BY <1>1, <1>3, <2>2 DEF RecvSet, device
    <2> QED
      BY <1>4, <2>1, <2>2 DEF Receive
  <1>5. ASSUME NEW n \in Node, Tick(n) \/ PLCStep(n) PROVE Permitted(m, z)
    <2>1. CASE ~ PLCFireLocal(n)
      BY <1>1, <1>5, <2>1
         DEF Tick, PLCStep, PLCSkip, PLCRearm, PLCFireRemote, PLCFireNowhere, device
    <2>2. CASE PLCFireLocal(n)
      <3>1. scan[n] # 0 /\ Rules[n][scan[n]].id1 = n
        BY <2>2 DEF PLCFireLocal, Fires, ThisRule
      <3>2. scan[n] \in 1 .. NumRules(n)
        <4>1. scan[n] \in Nat /\ scan[n] <= NumRules(n)
          BY DEF Typed, TypeOK
        <4> QED
          BY <3>1, <4>1, RulesLength
      <3> QED
        BY <3>1, <3>2
    <2> QED
      BY <2>1, <2>2
  <1>6. ASSUME NEW n \in Node, Client(n) PROVE Permitted(m, z)
    <2>1. ASSUME NEW x, NEW y, ClientSet(n, x, y) PROVE Permitted(m, z)
      BY <1>3, <2>1 DEF ClientSet
    <2>2. ASSUME NEW ys, ClientSetAll(n, ys) PROVE Permitted(m, z)
      BY <1>2, <2>2 DEF ClientSetAll, setgpioAll
    <2>3. ASSUME NEW xs, ClientGet(n, xs) PROVE Permitted(m, z)
      BY <1>1, <2>3 DEF ClientGet, device
    <2>4. ASSUME NEW kind, ClientQuery(n, kind) PROVE Permitted(m, z)
      BY <1>1, <2>4 DEF ClientQuery, device
    <2> QED
      BY <1>6, <2>1, <2>2, <2>3, <2>4 DEF Client
  <1>7. ASSUME NEW n \in Node, IVR(n) PROVE Permitted(m, z)
    <2>1. ASSUME NEW x, NEW y, IVRSetReqOwn(n, x, y) PROVE Permitted(m, z)
      BY <1>1, <1>3, <2>1 DEF IVRSetReqOwn, device
    <2>2. ASSUME NEW k, NEW x, NEW y,
                 IVRSetReqUnknown(n, k) \/ IVRSetReqRemote(n, k, x, y)
          PROVE  Permitted(m, z)
      BY <1>1, <2>2 DEF IVRSetReqUnknown, IVRSetReqRemote, device
    <2> QED
      BY <1>7, <2>1, <2>2 DEF IVR
  <1>8. ASSUME NEW n \in Node, Boot(n) PROVE Permitted(m, z)
    BY <1>2, <1>8 DEF Boot
  <1>9. ASSUME NEW n \in Node, Failure(n) PROVE Permitted(m, z)
    <2>1. ~ up'[n]
      BY <1>0, <1>9 DEF Failure, Crash, CrashInSetgpio, Forget
    <2>2. CASE Crash(n)
      BY <1>1, <2>2 DEF Crash, device
    <2>3. ASSUME NEW x, NEW y, CrashInSetgpio(n, x, y) PROVE Permitted(m, z)
      <3>1. wire' = [wire EXCEPT ![n] = [wire[n] EXCEPT ![x] = y]]
        BY <2>3 DEF CrashInSetgpio
      <3> QED
        BY <1>2, <2>1, <3>1
    <2> QED
      BY <1>9, <2>2, <2>3 DEF Failure
  <1>10. ASSUME NEW n \in Node, NEW x \in IO, NEW y, wire' = [wire EXCEPT ![n][x] = y],
                x \notin Outputs \/ <<n, x>> \in disturbed'
         PROVE  Permitted(m, z)
    <2>1. ~ (m = n /\ z = x) => wire'[m][z] = wire[m][z]
      BY <1>0, <1>10 DEF Row, IO
    <2>2. m = n /\ z = x => <<m, z>> \in disturbed'
      BY <1>10
    <2> QED
      BY <2>1, <2>2 DEF Permitted
  <1>11. ASSUME NEW n \in Node, Surroundings(n) PROVE Permitted(m, z)
    <2>1. ASSUME NEW x \in Inputs, Flip(n, x) PROVE Permitted(m, z)
      <3>1. x \in IO /\ x \notin Outputs
        BY LinesAssumption DEF IO
      <3>2. wire' = [wire EXCEPT ![n][x] = ~ wire[n][x]]
        BY <2>1 DEF Flip
      <3> QED
        BY <1>10, <3>1, <3>2
    <2>2. CASE WindowChange(n)
      BY <1>1, <2>2 DEF WindowChange
    <2> QED
      BY <1>11, <2>1, <2>2 DEF Surroundings
  <1>12. ASSUME NEW n \in Node, NEW x \in Outputs, RelayFault(n, x) PROVE Permitted(m, z)
    <2>1. x \in IO /\ <<n, x>> \in disturbed' /\ wire' = [wire EXCEPT ![n][x] = ~ wire[n][x]]
      BY <1>12 DEF RelayFault, IO
    <2> QED
      BY <1>10, <2>1
  <1>13. ASSUME NEW s \in Node, NEW d \in Node, Network(s, d) PROVE Permitted(m, z)
    BY <1>1, <1>13 DEF Network, Lose, Overtake, Unheard, device
  <1>14. CASE UNCHANGED vars
    BY <1>1, <1>14 DEF vars, device
  <1>15. ASSUME NEW n \in Node, Process(n) PROVE Permitted(m, z)
    BY <1>4, <1>5, <1>15 DEF Process
  <1> QED
    BY <1>6, <1>7, <1>8, <1>9, <1>11, <1>12, <1>13, <1>14, <1>15 DEF Next

(* "the rule output can be updated only within this time range" (lines     *)
(* 882-883): outside it no Set of a client, a rule of another SIOD or an   *)
(* IVR request moves a relay, in whatever order they arrive, as long as no *)
(* rule is about an output of the SIOD that has the rule.                  *)
THEOREM RangeIsObeyed ==
  (\A n \in Node : \A k \in 1 .. NumRules(n) : Rules[n][k].id1 # n)
    => (Spec => OutputsOnlyInRange)
  <1> SUFFICES ASSUME \A n \in Node : \A k \in 1 .. NumRules(n) : Rules[n][k].id1 # n
               PROVE  Spec => OutputsOnlyInRange
    OBVIOUS
  <1>1. Typed /\ [Next]_vars =>
           [\A n \in Node, x \in Outputs :
               up[n] /\ up'[n] /\ wire'[n][x] # wire[n][x]
                 => inRange[n] \/ <<n, x>> \in disturbed']_vars
    BY NextPermitted DEF Permitted
  <1>2. Init => Typed
    BY InitTyped
  <1>3. Typed /\ [Next]_vars => Typed'
    BY NextTyped
  <1> QED
    BY <1>1, <1>2, <1>3, PTL DEF Spec, OutputsOnlyInRange
=============================================================================
