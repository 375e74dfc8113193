--------------------------- MODULE YunBridgeProofs ---------------------------
(* Proofs about the serial bridge, for every number of packet numbers and   *)
(* every capacity of the line.  The invariant behind all of them is about   *)
(* the numbers on the line: besides those of the open call only the one     *)
(* before is left, and it is never behind the new one.                      *)
EXTENDS YunBridge, SequenceTheorems, TLAPS

Follows(i) == (i + 1) % INDEXES

LEMMA IndexFacts ==
    \A i \in Index : Follows(i) \in Index /\ Follows(i) # i /\ i # NOT_RESET
  BY IndexAssumption DEF Follows, Index, NOT_RESET

(* What is left of a queue when one element is lost.                        *)
LEMMA WithoutFacts ==
  ASSUME NEW S, NEW q \in Seq(S), NEW i \in 1 .. Len(q)
  PROVE  /\ Without(q, i) \in Seq(S)
         /\ Len(Without(q, i)) = Len(q) - 1
         /\ \A j \in 1 .. Len(q) - 1 :
               Without(q, i)[j] = IF j < i THEN q[j] ELSE q[j + 1]
  <1> DEFINE a == SubSeq(q, 1, i - 1)
             b == SubSeq(q, i + 1, Len(q))
  <1>1. /\ a \in Seq(S) /\ Len(a) = i - 1
        /\ \A j \in 1 .. i - 1 : a[j] = q[j]
    OBVIOUS
  <1>2. /\ b \in Seq(S) /\ Len(b) = Len(q) - i
        /\ \A j \in 1 .. Len(q) - i : b[j] = q[i + j]
    OBVIOUS
  <1>3. Without(q, i) = a \o b
    BY DEF Without
  <1> HIDE DEF a, b
  <1>4. a \o b \in Seq(S) /\ Len(a \o b) = Len(q) - 1
    <2>1. a \o b \in Seq(S) /\ Len(a \o b) = Len(a) + Len(b)
      BY <1>1, <1>2, ConcatProperties
    <2>2. (i - 1) + (Len(q) - i) = Len(q) - 1
      OBVIOUS
    <2> QED
      BY <1>1, <1>2, <2>1, <2>2
  <1>5. ASSUME NEW j \in 1 .. Len(q) - 1
        PROVE  (a \o b)[j] = IF j < i THEN q[j] ELSE q[j + 1]
    <2>1. CASE j < i
      BY <1>1, <1>2, <2>1
    <2>2. CASE ~(j < i)
      <3>1. j - (i - 1) \in 1 .. Len(q) - i
        BY <2>2
      <3>2. b[j - (i - 1)] = q[i + (j - (i - 1))]
        BY <1>2, <3>1
      <3>3. i + (j - (i - 1)) = j + 1
        OBVIOUS
      <3> QED
        BY <1>1, <1>2, <2>2, <3>1, <3>2, <3>3
    <2> QED
      BY <2>1, <2>2
  <1> QED
    BY <1>3, <1>4, <1>5

LEMMA AppendFacts ==
  ASSUME NEW S, NEW q \in Seq(S), NEW e \in S
  PROVE  /\ Append(q, e) \in Seq(S)
         /\ Len(Append(q, e)) = Len(q) + 1
         /\ \A j \in 1 .. Len(q) : Append(q, e)[j] = q[j]
         /\ Append(q, e)[Len(q) + 1] = e
  OBVIOUS

LEMMA TailFacts ==
  ASSUME NEW S, NEW q \in Seq(S), q # <<>>
  PROVE  /\ Head(q) \in S /\ Head(q) = q[1] /\ Len(q) >= 1
         /\ Tail(q) \in Seq(S)
         /\ Len(Tail(q)) = Len(q) - 1
         /\ \A j \in 1 .. Len(q) - 1 : Tail(q)[j] = q[j + 1]
  OBVIOUS

-----------------------------------------------------------------------------
(* Types.                                                                   *)
LEMMA NewBoxType == NewBox \in Box
  BY DEF NewBox, Box, Text

LEMMA MailboxTypes ==
  ASSUME NEW b \in Box
  PROVE  /\ \A cmd \in Command : Answer(cmd, b) \in Result /\ After(cmd, b) \in Box
         /\ \A cmd \in ExtCommand : ext_command(cmd, b) \in Box
  <1>1. b.incoming \in Seq(Message) /\ b.data_store \in [Key -> Text]
        /\ b.outgoing \in Seq(Message)
    BY DEF Box
  <1>3. ASSUME NEW cmd \in Command
        PROVE  Answer(cmd, b) \in Result /\ After(cmd, b) \in Box
    <2>1. CASE cmd \in [op : {"RECV", "AVAILABLE", "DATASTORE_PUT_malformed"}]
      <3>1. cmd.op \in {"RECV", "AVAILABLE", "DATASTORE_PUT_malformed"}
        BY <2>1
      <3>2. b.incoming # <<>> => /\ Head(b.incoming) \in Message
                                 /\ Tail(b.incoming) \in Seq(Message)
        BY <1>1
      <3>3. ASSUME NEW m \in Message
            PROVE  Length[m] % OCTETS \in 0 .. OCTETS - 1
        <4>1. Length[m] \in Nat
          BY LengthAssumption
        <4>2. \A n \in Nat : n % OCTETS \in 0 .. OCTETS - 1
          BY DEF OCTETS
        <4> QED
          BY <4>1, <4>2
      <3>4. 0 \in 0 .. OCTETS - 1
        BY DEF OCTETS
      <3>5. CASE cmd.op = "RECV"
        BY <1>1, <3>2, <3>5 DEF Answer, After, Result, Text, Box
      <3>6. CASE cmd.op = "AVAILABLE"
        BY <3>2, <3>3, <3>4, <3>6 DEF Answer, After, Result
      <3>7. CASE cmd.op = "DATASTORE_PUT_malformed"
        BY <3>7 DEF Answer, After, Result
      <3> QED
        BY <3>1, <3>5, <3>6, <3>7
    <2>2. CASE cmd \in [op : {"SEND"}, msg : Message]
      <3>1. cmd.op = "SEND" /\ cmd.msg \in Message
        BY <2>2
      <3>2. Append(b.outgoing, cmd.msg) \in Seq(Message)
        BY <1>1, <3>1
      <3>3. After(cmd, b) = [b EXCEPT !.outgoing = Append(b.outgoing, cmd.msg)]
        BY <3>1 DEF After
      <3>4. Answer(cmd, b) = Empty
        BY <3>1 DEF Answer
      <3>5. After(cmd, b) \in Box
        BY <1>1, <3>2, <3>3 DEF Box
      <3> QED
        BY <3>4, <3>5 DEF Result, Text
    <2>3. CASE cmd \in [op : {"DATASTORE_GET"}, key : Key]
      BY <1>1, <2>3 DEF Answer, After, Result
    <2>4. CASE cmd \in [op : {"DATASTORE_PUT"}, key : Key, value : Text]
      BY <1>1, <2>4 DEF Answer, After, Result, Box
    <2> QED
      BY <2>1, <2>2, <2>3, <2>4 DEF Command
  <1>4. ASSUME NEW cmd \in ExtCommand
        PROVE  ext_command(cmd, b) \in Box
    <2>1. CASE cmd \in [op : {"raw"}, data : Message]
      <3>1. cmd.op = "raw" /\ cmd.data \in Message
        BY <2>1
      <3>2. Append(b.incoming, cmd.data) \in Seq(Message)
        BY <1>1, <3>1
      <3>3. ext_command(cmd, b) = [b EXCEPT !.incoming = Append(b.incoming, cmd.data)]
        BY <3>1 DEF ext_command
      <3> QED
        BY <1>1, <3>2, <3>3 DEF Box
    <2>2. CASE cmd \in [op : {"put"}, key : Key, value : Text]
      BY <1>1, <2>2 DEF ext_command, Box
    <2>3. CASE cmd \in [op : {"delete"}, key : Key]
      BY <1>1, <2>3 DEF ext_command, Box, Text
    <2> QED
      BY <2>1, <2>2, <2>3 DEF ExtCommand
  <1> QED
    BY <1>3, <1>4

LEMMA InitTyped == Init => TypeOK
  BY NewBoxType, IndexAssumption
  DEF Init, TypeOK, Index, Packet, RESET

LEMMA SketchTyped ==
  ASSUME TypeOK,
         (\E cmd \in Command : Call(cmd)) \/ Repeat \/ TakeReply \/ DropReply
           \/ \E i \in Index : Reboot(i)
  PROVE  TypeOK'
  <1>1. ASSUME NEW cmd \in Command, Call(cmd)
        PROVE  TypeOK'
    <2>1. [index |-> seq, cmd |-> cmd] \in Packet
      BY DEF TypeOK, Packet
    <2> QED
      BY <1>1, <2>1 DEF Call, TypeOK, bridge, history
  <1>2. CASE Repeat
    <2>1. [index |-> seq, cmd |-> call] \in Packet
      BY <1>2 DEF TypeOK, Packet, Repeat
    <2> QED
      BY <1>2, <2>1 DEF Repeat, TypeOK, sketch, bridge, history
  <1>3. CASE TakeReply
    <2>1. Head(up) \in Reply /\ Tail(up) \in Seq(Reply)
      BY <1>3, TailFacts DEF TakeReply, TypeOK
    <2>2. seq' \in Index
      BY <1>3, IndexFacts DEF TakeReply, TypeOK, Follows
    <2>3. Head(up).result \in Result
      BY <2>1 DEF Reply
    <2>4. taken' \in Seq(Result)
      BY <1>3, <2>3 DEF TakeReply, TypeOK
    <2> QED
      BY <1>3, <2>1, <2>2, <2>4 DEF TakeReply, TypeOK, bridge
  <1>4. CASE DropReply
    <2>1. Tail(up) \in Seq(Reply)
      BY <1>4, TailFacts DEF DropReply, TypeOK
    <2> QED
      BY <1>4, <2>1 DEF DropReply, TypeOK, sketch, bridge, history
  <1>5. ASSUME NEW i \in Index, Reboot(i)
        PROVE  TypeOK'
    BY <1>5 DEF Reboot, TypeOK, bridge, Packet, Box
  <1> QED
    BY <1>1, <1>2, <1>3, <1>4, <1>5

LEMMA LineTyped ==
  ASSUME TypeOK, \E i \in 1 .. LINE_CAPACITY : LosePacket(i) \/ LoseReply(i)
  PROVE  TypeOK'
  <1>1. ASSUME NEW i, LosePacket(i)
        PROVE  TypeOK'
    <2>1. down' \in Seq(Packet)
      BY <1>1, WithoutFacts DEF LosePacket, TypeOK
    <2> QED
      BY <1>1, <2>1 DEF LosePacket, TypeOK, sketch, bridge, history
  <1>2. ASSUME NEW i, LoseReply(i)
        PROVE  TypeOK'
    <2>1. up' \in Seq(Reply)
      BY <1>2, WithoutFacts DEF LoseReply, TypeOK
    <2> QED
      BY <1>2, <2>1 DEF LoseReply, TypeOK, sketch, bridge, history
  <1> QED
    BY <1>1, <1>2

LEMMA SendType ==
  ASSUME TypeOK, NEW i \in Index, NEW r \in Result, send(i, r)
  PROVE  up' \in Seq(Reply)
  BY DEF TypeOK, send, Reply

LEMMA HeadPacket ==
  ASSUME TypeOK, down # <<>>
  PROVE  /\ Head(down).index \in Index
         /\ Head(down).cmd \in Command \cup {RESET}
         /\ Tail(down) \in Seq(Packet)
  <1>1. Head(down) \in Packet /\ Tail(down) \in Seq(Packet)
    BY TailFacts DEF TypeOK
  <1> QED
    BY <1>1 DEF Packet

LEMMA BridgeTyped ==
  ASSUME TypeOK, Process \/ (\E cmd \in ExtCommand : Arrive(cmd)) \/ Restart
  PROVE  TypeOK'
  <1>1. CASE ProcessReset
    <2>1. /\ Head(down).index \in Index /\ Tail(down) \in Seq(Packet)
          /\ index' \in Index
      BY <1>1, HeadPacket, IndexFacts DEF ProcessReset, Follows
    <2>2. Done \in Result
      BY DEF Result
    <2>3. up' \in Seq(Reply)
      BY <1>1, <2>1, <2>2, SendType DEF ProcessReset
    <2> QED
      BY <1>1, <2>1, <2>2, <2>3 DEF ProcessReset, TypeOK, sketch, history
  <1>2. CASE ProcessRepeated
    <2>1. Head(down).index \in Index /\ Tail(down) \in Seq(Packet)
      BY <1>2, HeadPacket DEF ProcessRepeated, OutOfOrder
    <2>2. up' \in Seq(Reply)
      BY <1>2, <2>1, SendType DEF ProcessRepeated, TypeOK
    <2> QED
      BY <1>2, <2>1, <2>2 DEF ProcessRepeated, TypeOK, sketch, bridge, history
  <1>3. CASE ProcessCommand
    <2> DEFINE cmd == Head(down).cmd
    <2>1. /\ index \in Index /\ Tail(down) \in Seq(Packet)
          /\ index' \in Index /\ cmd \in Command
      BY <1>3, HeadPacket, IndexFacts DEF ProcessCommand, Follows
    <2>2. Answer(cmd, box) \in Result /\ After(cmd, box) \in Box
      BY <2>1, MailboxTypes DEF TypeOK
    <2>3. up' \in Seq(Reply)
      BY <1>3, <2>1, <2>2, SendType DEF ProcessCommand
    <2> QED
      BY <1>3, <2>1, <2>2, <2>3 DEF ProcessCommand, TypeOK, sketch, history
  <1>4. ASSUME NEW cmd \in ExtCommand, Arrive(cmd)
        PROVE  TypeOK'
    <2>1. box' \in Box
      BY <1>4, MailboxTypes DEF Arrive, TypeOK
    <2>2. cmd.op = "raw" => cmd.data \in Message
      BY DEF ExtCommand
    <2>3. arrived' \in Seq(Message)
      BY <1>4, <2>2 DEF Arrive, TypeOK
    <2> QED
      BY <1>4, <2>1, <2>3 DEF Arrive, TypeOK, sketch, line
  <1>5. CASE Restart
    BY <1>5, NewBoxType DEF Restart, TypeOK, sketch, line
  <1> QED
    BY <1>1, <1>2, <1>3, <1>4, <1>5 DEF Process

LEMMA NextTyped == TypeOK /\ [Next]_vars => TypeOK'
  <1> SUFFICES ASSUME TypeOK, [Next]_vars PROVE TypeOK'
    OBVIOUS
  <1>1. CASE UNCHANGED vars
    BY <1>1 DEF TypeOK, vars, sketch, line, bridge, history
  <1> QED
    BY <1>1, SketchTyped, LineTyped, BridgeTyped DEF Next

(* Every reachable state of the bridge, the sketch and the line has its     *)
(* type; packet numbers stay below INDEXES on both sides.                   *)
THEOREM Typing == Spec => []TypeOK
  BY InitTyped, NextTyped, PTL DEF Spec

-----------------------------------------------------------------------------
(* The line, replies first, holds numbers of the previous packet and then   *)
(* of the one without an answer.  A reset packet has no previous one.       *)
Old(i) == call # RESET /\ Follows(i) = seq
New(i) == call # None /\ i = seq

Numbers ==
    /\ \A j \in 1 .. Len(down) :
          \/ Old(down[j].index)
          \/ (New(down[j].index) /\ down[j].cmd = call)
    /\ \A j \in 1 .. Len(up) : Old(up[j].index) \/ New(up[j].index)

Order ==
    /\ \A i, j \in 1 .. Len(down) :
          i < j /\ Old(down[j].index) => Old(down[i].index)
    /\ \A i, j \in 1 .. Len(up) :
          i < j /\ Old(up[j].index) => Old(up[i].index)
    /\ \A i \in 1 .. Len(up), j \in 1 .. Len(down) :
          Old(down[j].index) => Old(up[i].index)

(* In a session the bridge is at the packet without an answer or past it.   *)
(* When it is past, it holds the answer, nothing older is on its way to it, *)
(* and every reply to the packet is that answer.                            *)
Answered ==
    index # NOT_RESET =>
      /\ call # RESET => index = seq \/ (call # None /\ index = Follows(seq))
      /\ (\E i \in 1 .. Len(up) : New(up[i].index)) => index = Follows(seq)
      /\ call \notin {None, RESET} /\ index # seq =>
           /\ \A j \in 1 .. Len(down) : New(down[j].index)
           /\ \A i \in 1 .. Len(up) :
                 New(up[i].index) => up[i].result = last_response

Linked == TypeOK /\ Numbers /\ Order /\ Answered

LEMMA Indexes ==
  ASSUME TypeOK
  PROVE  /\ \A j \in 1 .. Len(down) : /\ down[j].index \in Index
                                      /\ down[j].cmd \in Command \cup {RESET}
         /\ \A j \in 1 .. Len(up) : up[j].index \in Index
         /\ \A i \in Index : ~(Old(i) /\ New(i))
         /\ seq \in Index
  <1>1. ASSUME NEW j \in 1 .. Len(down)
        PROVE  down[j] \in Packet
    BY DEF TypeOK
  <1>2. ASSUME NEW j \in 1 .. Len(up)
        PROVE  up[j] \in Reply
    BY DEF TypeOK
  <1>3. \A i \in Index : ~(Old(i) /\ New(i))
    BY IndexFacts DEF Old, New, TypeOK
  <1> QED
    BY <1>1, <1>2, <1>3 DEF Packet, Reply, TypeOK

(* The bridge takes a packet from the line, and puts its number back, or    *)
(* nothing.                                                                 *)
LEMMA ProcessLinks ==
  ASSUME TypeOK, Numbers, Order, down # <<>>, UNCHANGED sketch,
         down' = Tail(down),
         NEW r \in Result, UNCHANGED up \/ send(Head(down).index, r)
  PROVE  Numbers' /\ Order'
  <1>1. /\ Len(down) >= 1 /\ Head(down) = down[1]
        /\ Len(down') = Len(down) - 1
        /\ \A j \in 1 .. Len(down') : j + 1 \in 1 .. Len(down)
                                     /\ down'[j] = down[j + 1]
    BY TailFacts DEF TypeOK
  <1>2. /\ Len(up') \in {Len(up), Len(up) + 1}
        /\ \A j \in 1 .. Len(up') : \/ (j \in 1 .. Len(up) /\ up'[j] = up[j])
                                   \/ (j = Len(up) + 1 /\ up'[j].index = down[1].index)
    <2>1. CASE UNCHANGED up
      BY <2>1 DEF TypeOK
    <2>2. CASE send(Head(down).index, r)
      <3>1. [index |-> Head(down).index, result |-> r] \in Reply
        BY HeadPacket DEF Reply
      <3> QED
        BY <1>1, <2>2, <3>1, AppendFacts DEF TypeOK, send
    <2> QED
      BY <2>1, <2>2
  <1>3. 1 \in 1 .. Len(down) /\ Len(up) \in Nat
    BY <1>1 DEF TypeOK
  <1>4. \A i : (Old(i))' = Old(i) /\ (New(i))' = New(i)
    BY DEF Old, New, sketch
  <1>5. Numbers'
    BY <1>1, <1>2, <1>3 DEF Numbers, Old, New, sketch
  <1>6. Order'
    <2>1. ASSUME NEW i \in 1 .. Len(down'), NEW j \in 1 .. Len(down'),
                 i < j, Old(down'[j].index)
          PROVE  Old(down'[i].index)
      BY <1>1, <2>1 DEF Order
    <2>2. ASSUME NEW i \in 1 .. Len(up'), NEW j \in 1 .. Len(up'),
                 i < j, Old(up'[j].index)
          PROVE  Old(up'[i].index)
      BY <1>2, <1>3, <2>2 DEF Order
    <2>3. ASSUME NEW i \in 1 .. Len(up'), NEW j \in 1 .. Len(down'),
                 Old(down'[j].index)
          PROVE  Old(up'[i].index)
      BY <1>1, <1>2, <1>3, <2>3 DEF Order
    <2> QED
      BY <2>1, <2>2, <2>3 DEF Order, Old, sketch
  <1> QED
    BY <1>5, <1>6

(* What the packet at the head of the line is.                              *)
LEMMA HeadIs ==
  ASSUME Linked, down # <<>>
  PROVE  /\ Head(down).index \in Index
         /\ \/ (Old(Head(down).index) /\ ~New(Head(down).index)
                /\ \A i \in 1 .. Len(up) : ~New(up[i].index))
            \/ (~Old(Head(down).index) /\ New(Head(down).index)
                /\ Head(down).cmd = call
                /\ \A j \in 1 .. Len(down) : New(down[j].index))
  <1>1. 1 \in 1 .. Len(down) /\ Head(down) = down[1]
    BY TailFacts DEF Linked, TypeOK
  <1>2. Head(down).index \in Index
    BY <1>1, Indexes DEF Linked
  <1>3. CASE Old(Head(down).index)
    <2>1. ASSUME NEW i \in 1 .. Len(up)
          PROVE  Old(up[i].index) /\ ~New(up[i].index)
      BY <1>1, <1>3, Indexes DEF Linked, Order
    <2> QED
      BY <1>2, <1>3, <2>1, Indexes DEF Linked
  <1>4. CASE ~Old(Head(down).index)
    <2>1. New(Head(down).index) /\ Head(down).cmd = call
      BY <1>1, <1>4 DEF Linked, Numbers
    <2>2. ASSUME NEW j \in 1 .. Len(down)
          PROVE  New(down[j].index)
      <3>1. CASE j = 1
        BY <1>1, <2>1, <3>1
      <3>2. CASE j # 1
        <4>1. 1 < j
          BY <3>2
        <4>2. ~Old(down[j].index)
          BY <1>1, <1>4, <4>1 DEF Linked, Order
        <4> QED
          BY <4>2 DEF Linked, Numbers
      <3> QED
        BY <3>1, <3>2
    <2> QED
      BY <1>2, <1>4, <2>1, <2>2
  <1> QED
    BY <1>3, <1>4

LEMMA RepeatedLinks ==
  ASSUME Linked, ProcessRepeated
  PROVE  Linked'
  <1>1. /\ down # <<>> /\ UNCHANGED sketch /\ UNCHANGED <<index, last_response>>
        /\ down' = Tail(down) /\ Head(down).cmd # RESET /\ Head(down).index # index
    BY DEF ProcessRepeated, OutOfOrder, bridge
  <1>2. last_response \in Result \cup {None}
    BY DEF Linked, TypeOK
  <1>3. \E r \in Result : UNCHANGED up \/ send(Head(down).index, r)
    <2>1. Done \in Result
      BY DEF Result
    <2> QED
      BY <1>2, <2>1 DEF ProcessRepeated
  <1>4. Numbers' /\ Order'
    BY <1>1, <1>3, ProcessLinks DEF Linked
  <1>5. TypeOK'
    BY BridgeTyped DEF Linked, Process
  <1>6. ASSUME index # NOT_RESET
        PROVE  Answered'
    <2>1. /\ \A j \in 1 .. Len(down') : down'[j] = down[j + 1] /\ j + 1 \in 1 .. Len(down)
      BY <1>1, TailFacts DEF Linked, TypeOK
    <2>2. \A j \in 1 .. Len(up') :
             \/ (j \in 1 .. Len(up) /\ up'[j] = up[j])
             \/ (up'[j].index = Head(down).index /\ up'[j].result = last_response)
      <3>1. CASE UNCHANGED up
        BY <3>1
      <3>2. CASE last_response # None /\ send(Head(down).index, last_response)
        <4>1. [index |-> Head(down).index, result |-> last_response] \in Reply
          BY <1>2, <3>2, HeadIs, <1>1 DEF Reply
        <4> QED
          BY <3>2, <4>1, AppendFacts DEF Linked, TypeOK, send
      <3> QED
        BY <3>1, <3>2 DEF ProcessRepeated
    <2>3. call # RESET
      BY <1>1, HeadIs DEF Old
    <2>4. index = seq \/ (call # None /\ index = Follows(seq))
      BY <1>6, <2>3 DEF Linked, Answered
    <2>5. index = seq => ~New(Head(down).index)
      BY <1>1 DEF New
    <2>6. index = seq => \A i \in 1 .. Len(up) : ~New(up[i].index)
      BY <1>1, <2>5, HeadIs
    <2>7. (\E i \in 1 .. Len(up') : New(up'[i].index)) => index = Follows(seq)
      BY <2>2, <2>4, <2>5, <2>6
    <2>8. call \notin {None, RESET} /\ index # seq =>
           /\ \A j \in 1 .. Len(down') : New(down'[j].index)
           /\ \A i \in 1 .. Len(up') :
                 New(up'[i].index) => up'[i].result = last_response
      BY <1>6, <2>1, <2>2 DEF Linked, Answered
    <2> QED
      BY <1>1, <2>4, <2>7, <2>8 DEF Answered, New, sketch
  <1>7. ASSUME index = NOT_RESET
        PROVE  Answered'
    BY <1>1, <1>7 DEF Answered
  <1> QED
    BY <1>4, <1>5, <1>6, <1>7 DEF Linked

LEMMA ResetLinks ==
  ASSUME Linked, ProcessReset
  PROVE  Linked'
  <1>1. /\ down # <<>> /\ UNCHANGED sketch /\ Head(down).cmd = RESET
        /\ down' = Tail(down) /\ send(Head(down).index, Done)
        /\ index' = Follows(Head(down).index)
    BY DEF ProcessReset, Follows
  <1>2. Done \in Result
    BY DEF Result
  <1>3. Numbers' /\ Order'
    BY <1>1, <1>2, ProcessLinks DEF Linked
  <1>4. TypeOK'
    BY BridgeTyped DEF Linked, Process
  <1>5. CASE call = RESET
    <2>1. Head(down).index = seq
      BY <1>1, <1>5, HeadIs DEF Old, New
    <2> QED
      BY <1>1, <1>3, <1>4, <1>5, <2>1 DEF Linked, Answered, sketch
  <1>6. CASE call # RESET
    <2>1. /\ Old(Head(down).index) /\ ~New(Head(down).index)
          /\ \A i \in 1 .. Len(up) : ~New(up[i].index)
      BY <1>1, <1>6, HeadIs
    <2>2. index' = seq
      BY <1>1, <2>1 DEF Old
    <2>3. [index |-> Head(down).index, result |-> Done] \in Reply
      BY <1>1, <1>2, HeadIs DEF Reply
    <2>4. \A i \in 1 .. Len(up') : ~New(up'[i].index)
      <3>1. \A i \in 1 .. Len(up') : \/ (i \in 1 .. Len(up) /\ up'[i] = up[i])
                                     \/ up'[i].index = Head(down).index
        BY <1>1, <2>3, AppendFacts DEF Linked, TypeOK, send
      <3> QED
        BY <2>1, <3>1
    <2>5. Answered'
      BY <1>1, <2>2, <2>4 DEF Answered, New, sketch
    <2> QED
      BY <1>3, <1>4, <2>5 DEF Linked
  <1> QED
    BY <1>5, <1>6

(* In a session a command in order is the one the sketch waits for, and it  *)
(* has not been executed before.                                            *)
LEMMA CommandIs ==
  ASSUME Linked, ProcessCommand
  PROVE  /\ index # NOT_RESET /\ index = seq /\ Head(down).index = seq
         /\ Head(down).cmd = call /\ call \in Command
         /\ \A j \in 1 .. Len(down) : New(down[j].index)
         /\ \A i \in 1 .. Len(up) : ~New(up[i].index)
  <1>1. down # <<>> /\ Head(down).cmd # RESET /\ Head(down).index = index
    BY DEF ProcessCommand
  <1>2. index # NOT_RESET /\ seq \in Index
    BY <1>1, HeadIs, IndexFacts DEF Linked, TypeOK
  <1>3. call # RESET
    BY <1>1, HeadIs DEF Old
  <1>4. CASE Old(Head(down).index)
    <2>1. \A j \in 1 .. Len(down) : j = 1 => ~New(down[j].index)
      BY <1>1, <1>4, HeadIs, TailFacts DEF Linked, TypeOK
    <2>2. 1 \in 1 .. Len(down)
      BY <1>1 DEF Linked, TypeOK
    <2>3. index = seq \/ (call \notin {None, RESET} /\ index # seq)
      BY <1>2, <1>3 DEF Linked, Answered
    <2>4. index = seq
      BY <1>2, <2>1, <2>2, <2>3 DEF Linked, Answered
    <2>5. FALSE
      BY <1>1, <1>2, <1>4, <2>4, IndexFacts DEF Old
    <2> QED
      BY <2>5
  <1>5. CASE ~Old(Head(down).index)
    <2>1. /\ New(Head(down).index) /\ Head(down).cmd = call
          /\ \A j \in 1 .. Len(down) : New(down[j].index)
      BY <1>1, <1>5, HeadIs
    <2>2. index = seq /\ call # None
      BY <1>1, <2>1 DEF New
    <2>3. \A i \in 1 .. Len(up) : ~New(up[i].index)
      BY <1>2, <2>2, IndexFacts DEF Linked, Answered
    <2> QED
      BY <1>1, <1>2, <1>3, <2>1, <2>2, <2>3 DEF Linked, TypeOK
  <1> QED
    BY <1>4, <1>5

LEMMA CommandLinks ==
  ASSUME Linked, ProcessCommand
  PROVE  Linked'
  <1> DEFINE r == Answer(call, box)
  <1>1. /\ down # <<>> /\ UNCHANGED sketch /\ down' = Tail(down)
        /\ send(Head(down).index, r)
        /\ index' = Follows(seq) /\ last_response' = r
    BY CommandIs DEF ProcessCommand, Follows
  <1>2. r \in Result
    BY CommandIs, MailboxTypes DEF Linked, TypeOK
  <1> HIDE DEF r
  <1>3. Numbers' /\ Order'
    BY <1>1, <1>2, ProcessLinks DEF Linked
  <1>4. TypeOK'
    BY BridgeTyped DEF Linked, Process
  <1>5. \A j \in 1 .. Len(down') : New(down'[j].index)
    <2>1. \A j \in 1 .. Len(down') : down'[j] = down[j + 1] /\ j + 1 \in 1 .. Len(down)
      BY <1>1, TailFacts DEF Linked, TypeOK
    <2> QED
      BY <2>1, CommandIs
  <1>6. \A i \in 1 .. Len(up') : New(up'[i].index) => up'[i].result = r
    <2>1. [index |-> Head(down).index, result |-> r] \in Reply
      BY <1>1, <1>2, HeadIs DEF Reply
    <2>2. \A i \in 1 .. Len(up') : \/ (i \in 1 .. Len(up) /\ up'[i] = up[i])
                                   \/ up'[i].result = r
      BY <1>1, <2>1, AppendFacts DEF Linked, TypeOK, send
    <2> QED
      BY <2>2, CommandIs
  <1>7. Answered'
    BY <1>1, <1>5, <1>6, CommandIs DEF Answered, New, sketch, Linked, TypeOK
  <1> QED
    BY <1>3, <1>4, <1>7 DEF Linked

-----------------------------------------------------------------------------
(* Losing elements of the line keeps the invariant: f and g tell which ones *)
(* are left.                                                                *)
LEMMA LossLinks ==
  ASSUME Linked, TypeOK', UNCHANGED <<sketch, index, last_response>>,
         NEW f \in [1 .. Len(down') -> 1 .. Len(down)],
         \A i, j \in 1 .. Len(down') : i < j => f[i] < f[j],
         \A j \in 1 .. Len(down') : down'[j] = down[f[j]],
         NEW g \in [1 .. Len(up') -> 1 .. Len(up)],
         \A i, j \in 1 .. Len(up') : i < j => g[i] < g[j],
         \A j \in 1 .. Len(up') : up'[j] = up[g[j]]
  PROVE  Linked'
  <1>1. \A j \in 1 .. Len(down') : f[j] \in 1 .. Len(down) /\ down'[j] = down[f[j]]
    OBVIOUS
  <1>2. \A j \in 1 .. Len(up') : g[j] \in 1 .. Len(up) /\ up'[j] = up[g[j]]
    OBVIOUS
  <1>3. Numbers'
    <2>1. ASSUME NEW j \in 1 .. Len(down')
          PROVE  \/ Old(down'[j].index)
                 \/ (New(down'[j].index) /\ down'[j].cmd = call)
      BY <1>1 DEF Linked, Numbers
    <2>2. ASSUME NEW j \in 1 .. Len(up')
          PROVE  Old(up'[j].index) \/ New(up'[j].index)
      BY <1>2 DEF Linked, Numbers
    <2> QED
      BY <2>1, <2>2 DEF Numbers, Old, New, sketch
  <1>4. Order'
    <2>1. ASSUME NEW i \in 1 .. Len(down'), NEW j \in 1 .. Len(down'),
                 i < j, Old(down'[j].index)
          PROVE  Old(down'[i].index)
      <3>1. f[i] < f[j]
        BY <2>1
      <3> QED
        BY <1>1, <2>1, <3>1 DEF Linked, Order
    <2>2. ASSUME NEW i \in 1 .. Len(up'), NEW j \in 1 .. Len(up'),
                 i < j, Old(up'[j].index)
          PROVE  Old(up'[i].index)
      <3>1. g[i] < g[j]
        BY <2>2
      <3> QED
        BY <1>2, <2>2, <3>1 DEF Linked, Order
    <2>3. ASSUME NEW i \in 1 .. Len(up'), NEW j \in 1 .. Len(down'),
                 Old(down'[j].index)
          PROVE  Old(up'[i].index)
      BY <1>1, <1>2, <2>3 DEF Linked, Order
    <2> QED
      BY <2>1, <2>2, <2>3 DEF Order, Old, sketch
  <1>5. ASSUME index # NOT_RESET
        PROVE  Answered'
    <2>1. (\E i \in 1 .. Len(up') : New(up'[i].index)) => index = Follows(seq)
      BY <1>2, <1>5 DEF Linked, Answered
    <2>2. call \notin {None, RESET} /\ index # seq =>
           /\ \A j \in 1 .. Len(down') : New(down'[j].index)
           /\ \A i \in 1 .. Len(up') :
                 New(up'[i].index) => up'[i].result = last_response
      BY <1>1, <1>2, <1>5 DEF Linked, Answered
    <2>3. call # RESET => index = seq \/ (call # None /\ index = Follows(seq))
      BY <1>5 DEF Linked, Answered
    <2> QED
      BY <2>1, <2>2, <2>3 DEF Answered, New, sketch
  <1>6. ASSUME index = NOT_RESET
        PROVE  Answered'
    BY <1>6 DEF Answered
  <1> QED
    BY <1>3, <1>4, <1>5, <1>6 DEF Linked

LEMMA LosePacketLinks ==
  ASSUME Linked, NEW k \in 1 .. LINE_CAPACITY, LosePacket(k)
  PROVE  Linked'
  <1> DEFINE f == [j \in 1 .. Len(down') |-> IF j < k THEN j ELSE j + 1]
             g == [j \in 1 .. Len(up') |-> j]
  <1>1. /\ Len(down') = Len(down) - 1
        /\ \A j \in 1 .. Len(down') :
              down'[j] = IF j < k THEN down[j] ELSE down[j + 1]
    BY WithoutFacts DEF LosePacket, Linked, TypeOK
  <1>2. TypeOK' /\ Len(down) \in Nat
    BY LineTyped DEF Linked, TypeOK
  <1>3. /\ f \in [1 .. Len(down') -> 1 .. Len(down)]
        /\ \A i, j \in 1 .. Len(down') : i < j => f[i] < f[j]
        /\ \A j \in 1 .. Len(down') : down'[j] = down[f[j]]
    BY <1>1, <1>2
  <1>4. /\ g \in [1 .. Len(up') -> 1 .. Len(up)]
        /\ \A i, j \in 1 .. Len(up') : i < j => g[i] < g[j]
        /\ \A j \in 1 .. Len(up') : up'[j] = up[g[j]]
    BY DEF LosePacket
  <1>5. UNCHANGED <<sketch, index, last_response>>
    BY DEF LosePacket, bridge
  <1> HIDE DEF f, g
  <1> QED
    BY <1>2, <1>3, <1>4, <1>5, LossLinks

LEMMA LoseReplyLinks ==
  ASSUME Linked, NEW k \in 1 .. LINE_CAPACITY, LoseReply(k)
  PROVE  Linked'
  <1> DEFINE f == [j \in 1 .. Len(down') |-> j]
             g == [j \in 1 .. Len(up') |-> IF j < k THEN j ELSE j + 1]
  <1>1. /\ Len(up') = Len(up) - 1
        /\ \A j \in 1 .. Len(up') :
              up'[j] = IF j < k THEN up[j] ELSE up[j + 1]
    BY WithoutFacts DEF LoseReply, Linked, TypeOK
  <1>2. TypeOK' /\ Len(up) \in Nat
    BY LineTyped DEF Linked, TypeOK
  <1>3. /\ f \in [1 .. Len(down') -> 1 .. Len(down)]
        /\ \A i, j \in 1 .. Len(down') : i < j => f[i] < f[j]
        /\ \A j \in 1 .. Len(down') : down'[j] = down[f[j]]
    BY DEF LoseReply
  <1>4. /\ g \in [1 .. Len(up') -> 1 .. Len(up)]
        /\ \A i, j \in 1 .. Len(up') : i < j => g[i] < g[j]
        /\ \A j \in 1 .. Len(up') : up'[j] = up[g[j]]
    BY <1>1, <1>2
  <1>5. UNCHANGED <<sketch, index, last_response>>
    BY DEF LoseReply, bridge
  <1> HIDE DEF f, g
  <1> QED
    BY <1>2, <1>3, <1>4, <1>5, LossLinks

LEMMA DropReplyLinks ==
  ASSUME Linked, DropReply
  PROVE  Linked'
  <1> DEFINE f == [j \in 1 .. Len(down') |-> j]
             g == [j \in 1 .. Len(up') |-> j + 1]
  <1>1. /\ Len(up') = Len(up) - 1
        /\ \A j \in 1 .. Len(up') : up'[j] = up[j + 1]
    BY TailFacts DEF DropReply, Linked, TypeOK
  <1>2. TypeOK' /\ Len(up) \in Nat
    BY SketchTyped DEF Linked, TypeOK
  <1>3. /\ f \in [1 .. Len(down') -> 1 .. Len(down)]
        /\ \A i, j \in 1 .. Len(down') : i < j => f[i] < f[j]
        /\ \A j \in 1 .. Len(down') : down'[j] = down[f[j]]
    BY DEF DropReply
  <1>4. /\ g \in [1 .. Len(up') -> 1 .. Len(up)]
        /\ \A i, j \in 1 .. Len(up') : i < j => g[i] < g[j]
        /\ \A j \in 1 .. Len(up') : up'[j] = up[g[j]]
    BY <1>1, <1>2
  <1>5. UNCHANGED <<sketch, index, last_response>>
    BY DEF DropReply, bridge
  <1> HIDE DEF f, g
  <1> QED
    BY <1>2, <1>3, <1>4, <1>5, LossLinks

-----------------------------------------------------------------------------
(* The sketch.                                                              *)
LEMMA CommandFacts ==
  RESET # None /\ \A cmd \in Command : cmd # RESET /\ cmd # None
  <1>1. ASSUME NEW cmd \in Command
        PROVE  cmd.op # "RESET"
    BY DEF Command
  <1> QED
    BY <1>1, NoneAssumption DEF RESET

LEMMA CallLinks ==
  ASSUME Linked, NEW cmd \in Command, Call(cmd)
  PROVE  Linked'
  <1>1. /\ call = None /\ call' = cmd /\ cmd # RESET /\ cmd # None
        /\ UNCHANGED <<seq, up, index, last_response>>
    BY CommandFacts DEF Call, bridge
  <1>2. TypeOK'
    BY SketchTyped DEF Linked
  <1>3. /\ \A j \in 1 .. Len(down) : Old(down[j].index)
        /\ \A j \in 1 .. Len(up) : Old(up[j].index) /\ up[j].index # seq
    BY <1>1, Indexes, IndexFacts DEF Linked, Numbers, Old, New
  <1>4. call # RESET /\ (index # NOT_RESET => index = seq)
    BY <1>1, CommandFacts DEF Linked, Answered
  <1>5. /\ Len(down') = Len(down) + 1
        /\ \A j \in 1 .. Len(down) : down'[j] = down[j]
        /\ down'[Len(down) + 1] = [index |-> seq, cmd |-> cmd]
    <2>1. [index |-> seq, cmd |-> cmd] \in Packet
      BY Indexes DEF Linked, Packet
    <2> QED
      BY <2>1, AppendFacts DEF Call, Linked, TypeOK
  <1>6. /\ Len(down) \in Nat /\ Follows(seq) # seq
        /\ \A j \in 1 .. Len(down') : j \in 1 .. Len(down) \/ j = Len(down) + 1
    BY <1>5, IndexFacts DEF Linked, TypeOK
  <1>7. Numbers'
    <2>1. ASSUME NEW j \in 1 .. Len(down')
          PROVE  \/ Follows(down'[j].index) = seq
                 \/ (down'[j].index = seq /\ down'[j].cmd = cmd)
      BY <1>3, <1>5, <1>6 DEF Old
    <2>2. \A j \in 1 .. Len(up) : Follows(up[j].index) = seq
      BY <1>3 DEF Old
    <2> QED
      BY <1>1, <2>1, <2>2 DEF Numbers, Old, New
  <1>8. Order'
    <2>1. ASSUME NEW i \in 1 .. Len(down'), NEW j \in 1 .. Len(down'), i < j
          PROVE  Follows(down'[i].index) = seq
      <3>1. i \in 1 .. Len(down)
        BY <1>6, <2>1
      <3> QED
        BY <1>3, <1>5, <3>1 DEF Old
    <2>2. \A j \in 1 .. Len(up) : Follows(up[j].index) = seq
      BY <1>3 DEF Old
    <2> QED
      BY <1>1, <2>1, <2>2 DEF Order, Old
  <1>9. Answered'
    BY <1>1, <1>3, <1>4 DEF Answered, New
  <1> QED
    BY <1>2, <1>7, <1>8, <1>9 DEF Linked

LEMMA RepeatLinks ==
  ASSUME Linked, Repeat
  PROVE  Linked'
  <1>1. call # None /\ UNCHANGED <<seq, call, up, index, last_response>>
    BY DEF Repeat, sketch, bridge
  <1>2. TypeOK'
    BY SketchTyped DEF Linked
  <1>3. /\ Len(down') = Len(down) + 1
        /\ \A j \in 1 .. Len(down) : down'[j] = down[j]
        /\ down'[Len(down) + 1] = [index |-> seq, cmd |-> call]
    <2>1. [index |-> seq, cmd |-> call] \in Packet
      BY <1>1 DEF Linked, TypeOK, Packet
    <2> QED
      BY <2>1, AppendFacts DEF Repeat, Linked, TypeOK
  <1>4. /\ Len(down) \in Nat /\ Follows(seq) # seq
        /\ \A j \in 1 .. Len(down') : j \in 1 .. Len(down) \/ j = Len(down) + 1
    BY <1>3, IndexFacts DEF Linked, TypeOK
  <1>5. Numbers'
    <2>1. ASSUME NEW j \in 1 .. Len(down')
          PROVE  \/ Old(down'[j].index)
                 \/ (New(down'[j].index) /\ down'[j].cmd = call)
      <3>1. CASE j \in 1 .. Len(down)
        BY <1>3, <3>1 DEF Linked, Numbers
      <3>2. CASE j = Len(down) + 1
        BY <1>1, <1>3, <3>2 DEF New
      <3> QED
        BY <1>4, <3>1, <3>2
    <2> QED
      BY <1>1, <2>1 DEF Linked, Numbers, Old, New
  <1>6. Order'
    <2>1. ASSUME NEW i \in 1 .. Len(down'), NEW j \in 1 .. Len(down'),
                 i < j, Old(down'[j].index)
          PROVE  Old(down'[i].index)
      <3>1. j \in 1 .. Len(down)
        BY <1>3, <1>4, <2>1 DEF Old
      <3>2. i \in 1 .. Len(down)
        BY <1>4, <2>1, <3>1
      <3> QED
        BY <1>3, <2>1, <3>1, <3>2 DEF Linked, Order
    <2>2. ASSUME NEW i \in 1 .. Len(up), NEW j \in 1 .. Len(down'),
                 Old(down'[j].index)
          PROVE  Old(up[i].index)
      <3>1. j \in 1 .. Len(down)
        BY <1>3, <1>4, <2>2 DEF Old
      <3> QED
        BY <1>3, <2>2, <3>1 DEF Linked, Order
    <2> QED
      BY <1>1, <2>1, <2>2 DEF Linked, Order, Old
  <1>7. ASSUME index # NOT_RESET, call \notin {None, RESET}, index # seq
        PROVE  \A j \in 1 .. Len(down') : New(down'[j].index)
    BY <1>1, <1>3, <1>4, <1>7 DEF Linked, Answered, New
  <1>8. Answered'
    BY <1>1, <1>7 DEF Linked, Answered, New
  <1> QED
    BY <1>2, <1>5, <1>6, <1>8 DEF Linked

LEMMA TakeReplyLinks ==
  ASSUME Linked, TakeReply
  PROVE  Linked'
  <1>1. /\ up # <<>> /\ call # None /\ Head(up).index = seq
        /\ seq' = Follows(seq) /\ call' = None
        /\ up' = Tail(up) /\ UNCHANGED <<down, index, last_response>>
    BY DEF TakeReply, bridge, Follows
  <1>2. TypeOK'
    BY SketchTyped DEF Linked
  <1>3. /\ 1 \in 1 .. Len(up) /\ Head(up) = up[1]
        /\ Len(up') = Len(up) - 1
        /\ \A j \in 1 .. Len(up') : j + 1 \in 1 .. Len(up) /\ up'[j] = up[j + 1]
    BY <1>1, TailFacts DEF Linked, TypeOK
  <1>4. New(up[1].index) /\ ~Old(up[1].index)
    BY <1>1, <1>3, Indexes DEF Linked, New
  <1>5. \A j \in 1 .. Len(down) : down[j].index = seq
    BY <1>3, <1>4 DEF Linked, Order, Numbers, New
  <1>6. \A j \in 1 .. Len(up') : up'[j].index = seq
    <2>1. ASSUME NEW j \in 1 .. Len(up')
          PROVE  ~Old(up[j + 1].index)
      BY <1>3, <1>4 DEF Linked, Order
    <2> QED
      BY <1>3, <2>1 DEF Linked, Numbers, New
  <1>7. RESET # None
    BY CommandFacts
  <1>8. Numbers' /\ Order'
    BY <1>1, <1>5, <1>6, <1>7 DEF Numbers, Order, Old, New
  <1>9. index # NOT_RESET => index = Follows(seq)
    BY <1>3, <1>4 DEF Linked, Answered
  <1>10. Answered'
    BY <1>1, <1>9 DEF Answered, New
  <1> QED
    BY <1>2, <1>8, <1>10 DEF Linked

LEMMA RebootLinks ==
  ASSUME Linked, NEW i \in Index, Reboot(i)
  PROVE  Linked'
  <1>1. /\ seq' = i /\ call' = RESET /\ up' = <<>>
        /\ Len(down') = 1 /\ down'[1] = [index |-> i, cmd |-> RESET]
    BY DEF Reboot
  <1>2. TypeOK'
    BY SketchTyped DEF Linked
  <1>3. RESET # None
    BY CommandFacts
  <1> QED
    BY <1>1, <1>2, <1>3 DEF Linked, Numbers, Order, Answered, Old, New

LEMMA RestartLinks ==
  ASSUME Linked, Restart
  PROVE  Linked'
  <1>1. TypeOK'
    BY BridgeTyped DEF Linked
  <1> QED
    BY <1>1 DEF Restart, Linked, Numbers, Order, Answered, Old, New, sketch, line

LEMMA ArriveLinks ==
  ASSUME Linked, NEW cmd \in ExtCommand, Arrive(cmd)
  PROVE  Linked'
  <1>1. TypeOK'
    BY BridgeTyped DEF Linked
  <1> QED
    BY <1>1 DEF Arrive, Linked, Numbers, Order, Answered, Old, New, sketch, line

LEMMA InitLinks == Init => Linked
  <1> SUFFICES ASSUME Init PROVE Linked
    OBVIOUS
  <1>1. /\ seq = 0 /\ call = RESET /\ up = <<>> /\ index = NOT_RESET
        /\ Len(down) = 1 /\ down[1] = [index |-> 0, cmd |-> RESET]
    BY DEF Init
  <1>2. RESET # None
    BY CommandFacts
  <1> QED
    BY <1>1, <1>2, InitTyped DEF Linked, Numbers, Order, Answered, Old, New

LEMMA NextLinks == Linked /\ [Next]_vars => Linked'
  <1> SUFFICES ASSUME Linked, [Next]_vars PROVE Linked'
    OBVIOUS
  <1>1. CASE UNCHANGED vars
    BY <1>1 DEF Linked, TypeOK, Numbers, Order, Answered, Old, New,
                vars, sketch, line, bridge, history
  <1>2. CASE Process
    BY <1>2, ResetLinks, RepeatedLinks, CommandLinks DEF Process
  <1>3. CASE \E i \in 1 .. LINE_CAPACITY : LosePacket(i) \/ LoseReply(i)
    BY <1>3, LosePacketLinks, LoseReplyLinks
  <1> QED
    BY <1>1, <1>2, <1>3, CallLinks, RepeatLinks, TakeReplyLinks, DropReplyLinks,
       RebootLinks, RestartLinks, ArriveLinks DEF Next

LEMMA AlwaysLinked == Spec => []Linked
  BY InitLinks, NextLinks, PTL DEF Spec

-----------------------------------------------------------------------------
(* The bridge implements BridgeCalls.                                       *)
LEMMA PhaseIs ==
  ASSUME Linked
  PROVE  /\ index = NOT_RESET => Phase = "broken"
         /\ index # NOT_RESET /\ call \in {None, RESET} => Phase = "idle"
         /\ index # NOT_RESET /\ call \notin {None, RESET} /\ index = seq
              => Phase = "called"
         /\ index # NOT_RESET /\ call \notin {None, RESET} /\ index # seq
              => Phase = "done"
  BY DEF Phase

LEMMA InitCalls == Init => Calls!Init
  BY DEF Init, Calls!Init, Phase, NewBox, Calls!NewBox

LEMMA CallCalls ==
  ASSUME Linked, NEW cmd \in Command, Call(cmd)
  PROVE  [Calls!Next]_Calls!vars
  <1>1. /\ call = None /\ call' = cmd /\ cmd \notin {None, RESET}
        /\ UNCHANGED <<seq, index, last_response, box>>
    BY CommandFacts DEF Call, bridge
  <1>2. CASE index = NOT_RESET
    BY <1>1, <1>2 DEF Calls!vars, Phase
  <1>3. CASE index # NOT_RESET
    <2>1. index = seq
      BY <1>1, <1>3, CommandFacts DEF Linked, Answered
    <2>2. Phase = "idle" /\ Phase' = "called"
      BY <1>1, <1>3, <2>1 DEF Phase
    <2>3. Calls!Call(cmd)
      BY <1>1, <2>2 DEF Calls!Call
    <2> QED
      BY <2>3 DEF Calls!Next, Command, Calls!Command, Text, Calls!Text
  <1> QED
    BY <1>2, <1>3

LEMMA TakeReplyCalls ==
  ASSUME Linked, TakeReply
  PROVE  [Calls!Next]_Calls!vars
  <1>1. /\ call # None /\ call' = None /\ seq' = Follows(seq)
        /\ UNCHANGED <<index, last_response, box>>
    BY DEF TakeReply, bridge, Follows
  <1>2. /\ 1 \in 1 .. Len(up) /\ New(up[1].index)
    BY TailFacts DEF TakeReply, Linked, TypeOK, New
  <1>3. CASE index = NOT_RESET \/ call = RESET
    BY <1>1, <1>3 DEF Calls!vars, Phase
  <1>4. CASE index # NOT_RESET /\ call # RESET
    <2>1. index = Follows(seq) /\ Follows(seq) # seq
      BY <1>2, <1>4, IndexFacts DEF Linked, Answered, TypeOK
    <2>2. Phase = "done" /\ Phase' = "idle"
      BY <1>1, <1>4, <2>1 DEF Phase
    <2>3. Calls!Return
      BY <1>1, <2>2 DEF Calls!Return
    <2> QED
      BY <2>3 DEF Calls!Next
  <1> QED
    BY <1>3, <1>4

LEMMA QuietCalls ==
  ASSUME \/ Repeat \/ DropReply
         \/ \E i \in 1 .. LINE_CAPACITY : LosePacket(i) \/ LoseReply(i)
         \/ ProcessRepeated \/ UNCHANGED vars
  PROVE  [Calls!Next]_Calls!vars
  <1>1. UNCHANGED <<sketch, bridge>>
    BY DEF Repeat, DropReply, LosePacket, LoseReply, ProcessRepeated, vars
  <1> QED
    BY <1>1 DEF Calls!vars, Phase, sketch, bridge

LEMMA RebootCalls ==
  ASSUME Linked, NEW i \in Index, Reboot(i)
  PROVE  [Calls!Next]_Calls!vars
  <1>1. call' = RESET /\ UNCHANGED bridge
    BY DEF Reboot
  <1>2. CASE index = NOT_RESET
    BY <1>1, <1>2 DEF Calls!vars, Phase, bridge
  <1>3. CASE index # NOT_RESET
    <2>1. Phase \in {"idle", "called", "done"} /\ Phase' = "idle"
      BY <1>1, <1>3 DEF Phase, bridge
    <2>2. Calls!Reset
      BY <1>1, <2>1 DEF Calls!Reset, bridge
    <2> QED
      BY <2>2 DEF Calls!Next
  <1> QED
    BY <1>2, <1>3

LEMMA ResetCalls ==
  ASSUME Linked, ProcessReset
  PROVE  [Calls!Next]_Calls!vars
  <1>1. /\ UNCHANGED <<seq, call, box>> /\ down # <<>> /\ Head(down).cmd = RESET
        /\ index' = Follows(Head(down).index)
    BY DEF ProcessReset, sketch, Follows
  <1>2. index' # NOT_RESET
    BY <1>1, HeadIs, IndexFacts
  <1>3. call # RESET => index' = seq /\ Old(Head(down).index)
    BY <1>1, HeadIs DEF Old
  <1>4. index # NOT_RESET /\ call \notin {None, RESET} => index = seq
    <2>1. 1 \in 1 .. Len(down) /\ Head(down) = down[1]
      BY <1>1, TailFacts DEF Linked, TypeOK
    <2>2. call # RESET => ~New(down[1].index)
      BY <1>1, <2>1, HeadIs
    <2> QED
      BY <2>1, <2>2 DEF Linked, Answered
  <1>5. CASE index # NOT_RESET
    BY <1>1, <1>2, <1>3, <1>4, <1>5 DEF Calls!vars, Phase
  <1>6. CASE index = NOT_RESET
    <2>1. Phase = "broken"
      BY <1>6 DEF Phase
    <2>2. CASE call \in {None, RESET}
      <3>1. Phase' = "idle"
        BY <1>1, <1>2, <2>2 DEF Phase
      <3>2. Calls!Open
        BY <1>1, <2>1, <3>1 DEF Calls!Open
      <3> QED
        BY <3>2 DEF Calls!Next
    <2>3. CASE call \notin {None, RESET}
      <3>1. Phase' = "called"
        BY <1>1, <1>2, <1>3, <2>3 DEF Phase
      <3>2. call \in Calls!Command
        BY <2>3 DEF Linked, TypeOK, Command, Calls!Command, Text, Calls!Text
      <3>3. Calls!Open
        BY <1>1, <2>1, <3>1, <3>2 DEF Calls!Open
      <3> QED
        BY <3>3 DEF Calls!Next
    <2> QED
      BY <2>2, <2>3
  <1> QED
    BY <1>5, <1>6

LEMMA CommandCalls ==
  ASSUME Linked, ProcessCommand
  PROVE  [Calls!Next]_Calls!vars
  <1>1. /\ index # NOT_RESET /\ index = seq /\ call \in Command
        /\ Head(down).cmd = call
    BY CommandIs
  <1>2. /\ UNCHANGED <<seq, call>> /\ index' = Follows(seq)
        /\ last_response' = Answer(call, box) /\ box' = After(call, box)
    BY <1>1 DEF ProcessCommand, sketch, Follows
  <1>3. index' # NOT_RESET /\ index' # seq /\ call \notin {None, RESET}
    BY <1>1, <1>2, IndexFacts, CommandFacts DEF Linked, TypeOK
  <1>4. Phase = "called" /\ Phase' = "done"
    BY <1>1, <1>2, <1>3 DEF Phase
  <1>5. /\ Answer(call, box) = Calls!Answer(call, box)
        /\ After(call, box) = Calls!After(call, box)
    BY DEF Answer, Calls!Answer, After, Calls!After, OCTETS, Calls!OCTETS
  <1>6. Calls!Execute
    BY <1>2, <1>4, <1>5 DEF Calls!Execute
  <1> QED
    BY <1>6 DEF Calls!Next

LEMMA ArriveCalls ==
  ASSUME NEW cmd \in ExtCommand, Arrive(cmd)
  PROVE  [Calls!Next]_Calls!vars
  <1>1. UNCHANGED <<seq, call, index, last_response>> /\ box' = ext_command(cmd, box)
    BY DEF Arrive, sketch
  <1>2. UNCHANGED Phase
    BY <1>1 DEF Phase
  <1>3. ext_command(cmd, box) = Calls!ext_command(cmd, box)
    BY DEF ext_command, Calls!ext_command
  <1>4. Calls!Arrive(cmd)
    BY <1>1, <1>2, <1>3 DEF Calls!Arrive
  <1> QED
    BY <1>4 DEF Calls!Next, ExtCommand, Calls!ExtCommand, Text, Calls!Text

LEMMA RestartCalls ==
  ASSUME Restart
  PROVE  [Calls!Next]_Calls!vars
  <1>1. Phase' = "broken" /\ box' = NewBox
    BY DEF Restart, Phase
  <1>2. Calls!Break
    BY <1>1 DEF Calls!Break, NewBox, Calls!NewBox
  <1> QED
    BY <1>2 DEF Calls!Next

(* Whatever is lost, repeated or restarted, in any order: every call of the *)
(* sketch acts on the mailbox exactly once and returns its own result.      *)
THEOREM Refinement == Spec => ImplementsCalls
  <1>1. Linked /\ [Next]_vars => [Calls!Next]_Calls!vars
    BY CallCalls, TakeReplyCalls, QuietCalls, RebootCalls, ResetCalls,
       CommandCalls, ArriveCalls, RestartCalls DEF Next, Process
  <1> QED
    BY InitCalls, AlwaysLinked, <1>1, PTL DEF Spec, ImplementsCalls, Calls!Spec

-----------------------------------------------------------------------------
(* Messages.                                                                *)
Any == Result \cup {None}

LEMMA SequenceLaws ==
  ASSUME NEW s \in Seq(Any), NEW t \in Seq(Any)
  PROVE  /\ s \o <<>> = s /\ <<>> \o s = s
         /\ \A e \in Any : /\ Append(s, e) = s \o <<e>>
                           /\ Append(s \o t, e) = s \o Append(t, e)
         /\ t # <<>> => (s \o <<Head(t)>>) \o Tail(t) = s \o t
  <1>1. s \o <<>> = s /\ <<>> \o s = s
    BY ConcatEmptySeq
  <1>2. ASSUME NEW e \in Any
        PROVE  /\ Append(s, e) = s \o <<e>>
               /\ Append(s \o t, e) = s \o Append(t, e)
    <2>1. <<e>> \in Seq(Any) /\ s \o t \in Seq(Any)
      BY ConcatProperties
    <2>2. /\ Append(s, e) = s \o <<e>> /\ Append(t, e) = t \o <<e>>
          /\ Append(s \o t, e) = (s \o t) \o <<e>>
      BY <2>1, AppendIsConcat
    <2>3. (s \o t) \o <<e>> = s \o (t \o <<e>>)
      BY <2>1, ConcatAssociative
    <2> QED
      BY <2>2, <2>3
  <1>3. ASSUME t # <<>>
        PROVE  (s \o <<Head(t)>>) \o Tail(t) = s \o t
    <2>1. Head(t) \in Any /\ Tail(t) \in Seq(Any) /\ <<Head(t)>> \in Seq(Any)
      BY <1>3, TailFacts
    <2>2. <<Head(t)>> \o Tail(t) = t
      BY <1>3, <2>1
    <2>3. (s \o <<Head(t)>>) \o Tail(t) = s \o (<<Head(t)>> \o Tail(t))
      BY <2>1, ConcatAssociative
    <2> QED
      BY <2>2, <2>3
  <1> QED
    BY <1>1, <1>2, <1>3

(* The message that RECV has taken and the sketch has not got.              *)
Underway == IF Phase = "done" /\ call.op = "RECV" /\ last_response # Empty
            THEN <<last_response>> ELSE <<>>

(* MailboxIntact is not inductive: it has to say as well that a session     *)
(* begins with nothing taken, for which no reset packet may be left on the  *)
(* line of a broken session in which the sketch still receives.             *)
Fresh ==
    /\ index = NOT_RESET \/ call = RESET => arrived = box.incoming
    /\ call = RESET => taken = <<>>
    /\ index = NOT_RESET /\ (\E j \in 1 .. Len(down) : down[j].cmd = RESET)
          => taken = <<>>

Balance == index # NOT_RESET /\ call # RESET =>
               (taken \o Underway) \o box.incoming = arrived

Intact == Linked /\ Fresh /\ Balance

LEMMA MessageTypes ==
  ASSUME Linked
  PROVE  /\ taken \in Seq(Any) /\ box.incoming \in Seq(Any)
         /\ Underway \in Seq(Any) /\ arrived \in Seq(Any)
         /\ taken \o Underway \in Seq(Any)
         /\ box.incoming \in Seq(Message)
  <1>1. /\ taken \in Seq(Result) /\ arrived \in Seq(Message)
        /\ box.incoming \in Seq(Message) /\ last_response \in Any
    BY DEF Linked, TypeOK, Box, Any
  <1>2. Result \subseteq Any /\ Message \subseteq Any
    BY DEF Result, Any
  <1>3. taken \in Seq(Any) /\ arrived \in Seq(Any) /\ box.incoming \in Seq(Any)
    BY <1>1, <1>2
  <1>4. Underway \in Seq(Any)
    BY <1>1 DEF Underway
  <1> QED
    BY <1>1, <1>3, <1>4, ConcatProperties

LEMMA IntactImplies == Intact => MailboxIntact
  BY DEF Intact, Balance, MailboxIntact, Underway, Phase

LEMMA InitIntact == Init => Intact
  BY InitLinks DEF Init, Intact, Fresh, Balance, NewBox

LEMMA CallIntact ==
  ASSUME Intact, NEW cmd \in Command, Call(cmd)
  PROVE  Intact'
  <1>1. /\ call = None /\ call' = cmd /\ cmd \notin {None, RESET}
        /\ UNCHANGED <<seq, index, last_response, box, arrived, taken>>
        /\ call # RESET
    BY CommandFacts DEF Call, bridge, history
  <1>2. Linked'
    BY CallLinks DEF Intact
  <1>3. index # NOT_RESET => Phase = "idle" /\ Phase' = "called"
    BY <1>1 DEF Phase, Intact, Linked, Answered
  <1>4. Balance'
    BY <1>1, <1>3 DEF Intact, Balance, Underway
  <1>5. \A j \in 1 .. Len(down') :
          down'[j].cmd = RESET => \E i \in 1 .. Len(down) : down[i].cmd = RESET
    <2>1. [index |-> seq, cmd |-> cmd] \in Packet
      BY Indexes DEF Intact, Linked, Packet
    <2>2. /\ Len(down') = Len(down) + 1
          /\ \A j \in 1 .. Len(down) : down'[j] = down[j]
          /\ down'[Len(down) + 1] = [index |-> seq, cmd |-> cmd]
      BY <2>1, AppendFacts DEF Call, Intact, Linked, TypeOK
    <2>3. \A j \in 1 .. Len(down') : j \in 1 .. Len(down) \/ j = Len(down) + 1
      BY <2>2 DEF Intact, Linked, TypeOK
    <2> QED
      BY <1>1, <2>2, <2>3
  <1>6. Fresh'
    BY <1>1, <1>5 DEF Intact, Fresh
  <1> QED
    BY <1>2, <1>4, <1>6 DEF Intact

LEMMA TakeReplyIntact ==
  ASSUME Intact, TakeReply
  PROVE  Intact'
  <1>1. /\ up # <<>> /\ call # None /\ call' = None /\ Head(up).index = seq
        /\ UNCHANGED <<index, last_response, box, arrived, down>>
        /\ taken' = IF call.op = "RECV" /\ Head(up).result # Empty
                    THEN Append(taken, Head(up).result) ELSE taken
    BY DEF TakeReply, bridge
  <1>2. Linked'
    BY TakeReplyLinks DEF Intact
  <1>3. 1 \in 1 .. Len(up) /\ Head(up) = up[1] /\ New(up[1].index) /\ ~Old(up[1].index)
    BY <1>1, TailFacts, Indexes DEF Intact, Linked, TypeOK, New
  <1>4. \A j \in 1 .. Len(down) : down[j].cmd = call
    BY <1>3 DEF Intact, Linked, Order, Numbers
  <1>5. call = RESET => call.op # "RECV"
    BY DEF RESET
  <1>6. Underway' = <<>>
    BY <1>1 DEF Underway, Phase
  <1>7. RESET # None
    BY CommandFacts
  <1>8. Fresh'
    BY <1>1, <1>4, <1>5, <1>7 DEF Intact, Fresh
  <1>9. ASSUME index # NOT_RESET
        PROVE  (taken' \o <<>>) \o box.incoming = arrived
    <2>1. taken \in Seq(Any) /\ taken' \in Seq(Any)
      <3>1. taken' \in Seq(Result)
        BY <1>2 DEF Linked, TypeOK
      <3>2. Result \subseteq Any
        BY DEF Any
      <3> QED
        BY <3>1, <3>2, MessageTypes DEF Intact
    <2>2. CASE call = RESET
      <3>1. taken' = <<>> /\ box.incoming = arrived
        BY <1>1, <1>5, <2>2 DEF Intact, Fresh
      <3> QED
        BY <3>1, MessageTypes, SequenceLaws DEF Intact
    <2>3. CASE call # RESET
      <3>1. index # seq /\ call \notin {None, RESET}
        BY <1>1, <1>3, <1>9, <2>3, IndexFacts, Indexes DEF Intact, Linked, Answered
      <3>2. Phase = "done" /\ Head(up).result = last_response
        BY <1>3, <1>9, <3>1 DEF Phase, Intact, Linked, Answered
      <3>3. last_response \in Any
        BY DEF Intact, Linked, TypeOK, Any
      <3>4. taken' = taken \o Underway
        BY <1>1, <2>1, <3>2, <3>3, SequenceLaws DEF Underway
      <3>5. taken' \o <<>> = taken'
        BY <2>1, SequenceLaws
      <3> QED
        BY <1>9, <2>3, <3>4, <3>5 DEF Intact, Balance
    <2> QED
      BY <2>2, <2>3
  <1>10. Balance'
    BY <1>1, <1>6, <1>9 DEF Balance
  <1> QED
    BY <1>2, <1>8, <1>10 DEF Intact

LEMMA QuietIntact ==
  ASSUME Intact,
         \/ Repeat \/ DropReply \/ ProcessRepeated
         \/ \E i \in 1 .. LINE_CAPACITY : LosePacket(i) \/ LoseReply(i)
  PROVE  Intact'
  <1>1. Linked' /\ UNCHANGED <<sketch, bridge, history>>
    <2>1. Linked'
      BY RepeatLinks, DropReplyLinks, RepeatedLinks, LosePacketLinks,
         LoseReplyLinks DEF Intact
    <2> QED
      BY <2>1 DEF Repeat, DropReply, ProcessRepeated, LosePacket, LoseReply
  <1>2. ASSUME call # RESET
        PROVE  \A j \in 1 .. Len(down') : down'[j].cmd = RESET =>
                  \E i \in 1 .. Len(down) : down[i].cmd = RESET
    <2>1. CASE Repeat
      <3>1. [index |-> seq, cmd |-> call] \in Packet
        BY <2>1 DEF Repeat, Intact, Linked, TypeOK, Packet
      <3>2. /\ Len(down') = Len(down) + 1
            /\ \A j \in 1 .. Len(down) : down'[j] = down[j]
            /\ down'[Len(down) + 1] = [index |-> seq, cmd |-> call]
        BY <2>1, <3>1, AppendFacts DEF Repeat, Intact, Linked, TypeOK
      <3>3. \A j \in 1 .. Len(down') : j \in 1 .. Len(down) \/ j = Len(down) + 1
        BY <3>2 DEF Intact, Linked, TypeOK
      <3> QED
        BY <1>2, <3>2, <3>3
    <2>2. CASE DropReply \/ \E i \in 1 .. LINE_CAPACITY : LoseReply(i)
      BY <2>2 DEF DropReply, LoseReply
    <2>3. CASE ProcessRepeated
      <3>1. /\ Len(down') = Len(down) - 1 /\ Len(down) \in Nat
            /\ \A j \in 1 .. Len(down') : down'[j] = down[j + 1]
        BY <2>3, TailFacts DEF ProcessRepeated, OutOfOrder, Intact, Linked, TypeOK
      <3> QED
        BY <3>1
    <2>4. ASSUME NEW k \in 1 .. LINE_CAPACITY, LosePacket(k)
          PROVE  \A j \in 1 .. Len(down') : down'[j].cmd = RESET =>
                    \E i \in 1 .. Len(down) : down[i].cmd = RESET
      <3>1. /\ Len(down') = Len(down) - 1 /\ Len(down) \in Nat
            /\ \A j \in 1 .. Len(down') :
                  down'[j] = IF j < k THEN down[j] ELSE down[j + 1]
        <4>1. /\ k \in 1 .. Len(down) /\ down \in Seq(Packet)
              /\ down' = Without(down, k)
          BY <2>4 DEF LosePacket, Intact, Linked, TypeOK
        <4>2. /\ Len(Without(down, k)) = Len(down) - 1
              /\ \A j \in 1 .. Len(down) - 1 :
                    Without(down, k)[j] = IF j < k THEN down[j] ELSE down[j + 1]
          BY <4>1, WithoutFacts
        <4>3. Len(down) \in Nat
          BY <4>1
        <4> QED
          BY <4>1, <4>2, <4>3
      <3> QED
        BY <3>1
    <2> QED
      BY <2>1, <2>2, <2>3, <2>4
  <1>3. Fresh'
    BY <1>1, <1>2 DEF Intact, Fresh, sketch, bridge, history
  <1>4. Balance'
    BY <1>1 DEF Intact, Balance, Underway, Phase, sketch, bridge, history
  <1> QED
    BY <1>1, <1>3, <1>4 DEF Intact

LEMMA RebootIntact ==
  ASSUME Intact, NEW i \in Index, Reboot(i)
  PROVE  Intact'
  <1>1. Linked'
    BY RebootLinks DEF Intact
  <1>2. /\ call' = RESET /\ arrived' = box'.incoming /\ taken' = <<>>
    BY DEF Reboot, bridge
  <1> QED
    BY <1>1, <1>2 DEF Intact, Fresh, Balance

LEMMA RestartIntact ==
  ASSUME Intact, Restart
  PROVE  Intact'
  <1>1. Linked'
    BY RestartLinks DEF Intact
  <1>2. /\ index' = NOT_RESET /\ arrived' = <<>> /\ taken' = <<>>
        /\ box'.incoming = <<>>
    BY DEF Restart, NewBox
  <1> QED
    BY <1>1, <1>2 DEF Intact, Fresh, Balance

LEMMA ArriveIntact ==
  ASSUME Intact, NEW cmd \in ExtCommand, Arrive(cmd)
  PROVE  Intact'
  <1>1. Linked'
    BY ArriveLinks DEF Intact
  <1>2. /\ UNCHANGED <<seq, call, down, index, last_response, taken>>
        /\ box' = ext_command(cmd, box)
        /\ arrived' = IF cmd.op = "raw" THEN Append(arrived, cmd.data) ELSE arrived
    BY DEF Arrive, sketch, line
  <1>3. UNCHANGED Underway
    BY <1>2 DEF Underway, Phase
  <1>4. box \in Box
    BY DEF Intact, Linked, TypeOK
  <1>5. CASE cmd.op = "raw"
    <2>1. box'.incoming = Append(box.incoming, cmd.data)
      BY <1>2, <1>4, <1>5 DEF ext_command, Box
    <2>2. cmd.data \in Any
      BY <1>5 DEF ExtCommand, Any, Result
    <2>3. Append((taken \o Underway) \o box.incoming, cmd.data)
            = (taken \o Underway) \o Append(box.incoming, cmd.data)
      BY <2>2, MessageTypes, SequenceLaws DEF Intact
    <2>4. Fresh'
      BY <1>2, <1>5, <2>1 DEF Intact, Fresh
    <2>5. Balance'
      BY <1>2, <1>3, <1>5, <2>1, <2>3 DEF Intact, Balance
    <2> QED
      BY <1>1, <2>4, <2>5 DEF Intact
  <1>6. CASE cmd.op # "raw"
    <2>1. box'.incoming = box.incoming
      <3>1. cmd.op \in {"put", "delete"}
        BY <1>6 DEF ExtCommand
      <3> QED
        BY <1>2, <1>4, <3>1 DEF ext_command, Box
    <2> QED
      BY <1>1, <1>2, <1>3, <1>6, <2>1 DEF Intact, Fresh, Balance
  <1> QED
    BY <1>5, <1>6

LEMMA ResetIntact ==
  ASSUME Intact, ProcessReset
  PROVE  Intact'
  <1>1. Linked'
    BY ResetLinks DEF Intact
  <1>2. /\ UNCHANGED <<seq, call, box, arrived, taken>>
        /\ down # <<>> /\ Head(down).cmd = RESET
        /\ index' = Follows(Head(down).index)
    BY DEF ProcessReset, sketch, history, Follows
  <1>3. 1 \in 1 .. Len(down) /\ Head(down) = down[1]
    BY <1>2, TailFacts DEF Intact, Linked, TypeOK
  <1>4. index' # NOT_RESET
    BY <1>2, HeadIs, IndexFacts DEF Intact
  <1>5. Fresh'
    BY <1>2, <1>4 DEF Intact, Fresh
  <1>6. ASSUME call # RESET
        PROVE  (taken \o <<>>) \o box.incoming = arrived /\ Underway' = <<>>
    <2>1. index' = seq /\ ~New(down[1].index)
      BY <1>2, <1>3, <1>6, HeadIs DEF Intact, Old
    <2>2. Underway' = <<>>
      BY <1>2, <1>4, <2>1 DEF Underway, Phase
    <2>3. CASE index = NOT_RESET
      <3>1. taken = <<>> /\ arrived = box.incoming
        BY <1>2, <1>3, <2>3 DEF Intact, Fresh
      <3> QED
        BY <2>2, <3>1, MessageTypes, SequenceLaws DEF Intact
    <2>4. CASE index # NOT_RESET
      <3>1. call # None => index = seq
        BY <1>3, <1>6, <2>1, <2>4 DEF Intact, Linked, Answered
      <3>2. Underway = <<>>
        BY <2>4, <3>1 DEF Underway, Phase
      <3> QED
        BY <1>6, <2>2, <2>4, <3>2 DEF Intact, Balance
    <2> QED
      BY <2>3, <2>4
  <1>7. Balance'
    BY <1>2, <1>6 DEF Balance
  <1> QED
    BY <1>1, <1>5, <1>7 DEF Intact

LEMMA CommandIntact ==
  ASSUME Intact, ProcessCommand
  PROVE  Intact'
  <1>1. Linked'
    BY CommandLinks DEF Intact
  <1>2. /\ index # NOT_RESET /\ index = seq /\ call \in Command
        /\ Head(down).cmd = call
    BY CommandIs DEF Intact
  <1>3. /\ UNCHANGED <<seq, call, arrived, taken>> /\ index' = Follows(seq)
        /\ last_response' = Answer(call, box) /\ box' = After(call, box)
    BY <1>2 DEF ProcessCommand, sketch, history, Follows
  <1>4. index' # NOT_RESET /\ index' # seq /\ call \notin {None, RESET}
    BY <1>2, <1>3, IndexFacts, CommandFacts DEF Intact, Linked, TypeOK
  <1>5. Fresh'
    BY <1>3, <1>4 DEF Fresh
  <1>6. Phase = "called" /\ Phase' = "done"
    BY <1>2, <1>3, <1>4 DEF Phase
  <1>7. (taken \o <<>>) \o box.incoming = arrived /\ taken \o <<>> = taken
    <2>1. Underway = <<>>
      BY <1>6 DEF Underway
    <2> QED
      BY <1>2, <1>4, <2>1, MessageTypes, SequenceLaws DEF Intact, Balance
  <1>8. box \in Box
    BY DEF Intact, Linked, TypeOK
  <1>9. CASE call.op = "RECV" /\ box.incoming # <<>>
    <2>1. /\ last_response' = Head(box.incoming)
          /\ box'.incoming = Tail(box.incoming)
      BY <1>3, <1>8, <1>9 DEF Answer, After, Box
    <2>2. Head(box.incoming) # Empty
      BY <1>9, MessageTypes, EmptyAssumption, TailFacts DEF Intact
    <2>3. Underway' = <<Head(box.incoming)>>
      BY <1>3, <1>6, <1>9, <2>1, <2>2 DEF Underway
    <2>4. (taken \o <<Head(box.incoming)>>) \o Tail(box.incoming)
            = taken \o box.incoming
      BY <1>9, MessageTypes, SequenceLaws DEF Intact
    <2> QED
      BY <1>1, <1>3, <1>5, <1>7, <2>1, <2>3, <2>4 DEF Intact, Balance
  <1>10. CASE ~(call.op = "RECV" /\ box.incoming # <<>>)
    <2>1. box'.incoming = box.incoming
      BY <1>3, <1>8, <1>10 DEF After, Box
    <2>2. Underway' = <<>>
      <3>1. call.op = "RECV" => last_response' = Empty
        BY <1>3, <1>10 DEF Answer
      <3> QED
        BY <1>3, <3>1 DEF Underway
    <2> QED
      BY <1>1, <1>3, <1>5, <1>7, <2>1, <2>2 DEF Intact, Balance
  <1> QED
    BY <1>9, <1>10

LEMMA NextIntact == Intact /\ [Next]_vars => Intact'
  <1> SUFFICES ASSUME Intact, [Next]_vars PROVE Intact'
    OBVIOUS
  <1>1. CASE UNCHANGED vars
    <2>1. Linked'
      BY <1>1, NextLinks DEF Intact
    <2> QED
      BY <1>1, <2>1 DEF Intact, Fresh, Balance, Underway, Phase,
                        vars, sketch, line, bridge, history
  <1>2. CASE Process
    BY <1>2, ResetIntact, QuietIntact, CommandIntact DEF Process
  <1> QED
    BY <1>1, <1>2, CallIntact, QuietIntact, TakeReplyIntact, RebootIntact,
       ArriveIntact, RestartIntact DEF Next

(* In a session no message between a TCP client and the sketch is lost or   *)
(* received twice, whatever happens to the packets that carry it.           *)
THEOREM Messages == Spec => []MailboxIntact
  BY InitIntact, NextIntact, IntactImplies, PTL DEF Spec
=============================================================================
