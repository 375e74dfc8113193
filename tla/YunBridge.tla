------------------------------ MODULE YunBridge ------------------------------
(***************************************************************************)
(* The serial bridge between the microcontroller and the Linux side        *)
(* (cpu-mcu-bridge/dragino-yun-bridge/bridge): packet.py, bridge.py and    *)
(* mailbox.py.                                                             *)
(*                                                                         *)
(* PacketReader answers numbered packets over a serial line on which       *)
(* packets get lost (a byte missing for 50 ms, or a wrong CRC).  The       *)
(* sketch repeats a packet until it is answered.  The sketch is not part   *)
(* of the repository: it is modelled as the client PacketReader is written *)
(* for, which sends the next packet only when it has the answer to the     *)
(* last, and which begins with a reset packet on a line that has gone      *)
(* quiet while it booted.                                                  *)
(***************************************************************************)
EXTENDS Mailbox

CONSTANTS
    INDEXES,        \* packets are numbered modulo this, 256 in the code
    LINE_CAPACITY,  \* packets on the line at once
    None

ASSUME IndexAssumption == INDEXES \in 2 .. 256
ASSUME LineAssumption == LINE_CAPACITY \in Nat \ {0}

NOT_RESET == 999    \* index of a PacketReader that has seen no reset yet
RESET == [op |-> "RESET"]

ASSUME NoneAssumption == None \notin Command \cup {RESET} \cup Result

Index  == 0 .. INDEXES - 1
Packet == [index : Index, cmd : Command \cup {RESET}]
Reply  == [index : Index, result : Result]

VARIABLES
    seq,            \* the sketch: index of its next or unanswered packet
    call,           \* the sketch: the command without an answer, or None
    down, up,       \* the line: packets to the bridge, replies to the sketch
    index,          \* PacketReader.index
    last_response,  \* PacketReader.last_response
    box,            \* the mailbox
    arrived, taken  \* history: messages since the last reset or restart that
                    \* reached the mailbox, and that the sketch received

sketch  == <<seq, call>>
line    == <<down, up>>
bridge  == <<index, last_response, box>>
history == <<arrived, taken>>
vars    == <<sketch, line, bridge, history>>

TypeOK ==
    /\ seq \in Index
    /\ call \in Command \cup {RESET, None}
    /\ down \in Seq(Packet)
    /\ up \in Seq(Reply)
    /\ index \in Index \cup {NOT_RESET}
    /\ last_response \in Result \cup {None}
    /\ box \in Box
    /\ arrived \in Seq(Message)
    /\ taken \in Seq(Result)

Init ==
    /\ seq = 0 /\ call = RESET
    /\ down = <<[index |-> 0, cmd |-> RESET]>> /\ up = <<>>
    /\ index = NOT_RESET /\ last_response = None
    /\ box = NewBox
    /\ arrived = <<>> /\ taken = <<>>

-----------------------------------------------------------------------------
(* The sketch.                                                             *)
Room == Len(down) + Len(up) < LINE_CAPACITY

Call(cmd) ==
    /\ call = None /\ Room
    /\ call' = cmd
    /\ down' = Append(down, [index |-> seq, cmd |-> cmd])
    /\ UNCHANGED <<seq, up, bridge, history>>

Repeat ==
    /\ call # None /\ Room
    /\ down' = Append(down, [index |-> seq, cmd |-> call])
    /\ UNCHANGED <<sketch, up, bridge, history>>

(* A reply with the index of the packet is its answer, others are dropped. *)
TakeReply ==
    /\ up # <<>>
    /\ call # None /\ Head(up).index = seq
    /\ seq' = (seq + 1) % INDEXES
    /\ call' = None
    /\ taken' = IF call.op = "RECV" /\ Head(up).result # Empty
                THEN Append(taken, Head(up).result) ELSE taken
    /\ up' = Tail(up)
    /\ UNCHANGED <<down, bridge, arrived>>

DropReply ==
    /\ up # <<>>
    /\ call = None \/ Head(up).index # seq
    /\ up' = Tail(up)
    /\ UNCHANGED <<sketch, down, bridge, history>>

Reboot(i) ==
    /\ down = <<>>
    /\ seq' = i /\ call' = RESET
    /\ down' = <<[index |-> i, cmd |-> RESET]>>
    /\ up' = <<>>
    /\ arrived' = box.incoming /\ taken' = <<>>
    /\ UNCHANGED bridge

(* The line.                                                               *)
Without(q, i) == SubSeq(q, 1, i - 1) \o SubSeq(q, i + 1, Len(q))

LosePacket(i) ==
    /\ i \in 1 .. Len(down)
    /\ down' = Without(down, i)
    /\ UNCHANGED <<sketch, up, bridge, history>>

LoseReply(i) ==
    /\ i \in 1 .. Len(up)
    /\ up' = Without(up, i)
    /\ UNCHANGED <<sketch, down, bridge, history>>

-----------------------------------------------------------------------------
(* PacketReader.process, for the packet at the head of the line.           *)
send(i, result) == up' = Append(up, [index |-> i, result |-> result])

(* A reset packet sets the index, and is then the packet in order: it is   *)
(* executed, every time it comes.  Its answer tells the version.           *)
ProcessReset ==
    /\ down # <<>> /\ Head(down).cmd = RESET
    /\ down' = Tail(down)
    /\ send(Head(down).index, Done)
    /\ index' = (Head(down).index + 1) % INDEXES
    /\ last_response' = Done
    /\ UNCHANGED <<sketch, box, history>>

(* Any other packet out of order gets the last response, under its own     *)
(* index, and nothing is executed.                                         *)
OutOfOrder ==
    /\ down # <<>> /\ Head(down).cmd # RESET
    /\ Head(down).index # index

(* Mutants of ProcessRepeated: the answer is left out; the command is      *)
(* executed again.                                                         *)
ProcessRepeatedSilently ==
    /\ OutOfOrder
    /\ down' = Tail(down)
    /\ UNCHANGED <<sketch, up, bridge, history>>

ProcessRepeatedAgain ==
    /\ OutOfOrder
    /\ down' = Tail(down)
    /\ IF last_response = None THEN UNCHANGED <<up, box>>
       ELSE /\ send(Head(down).index, Answer(Head(down).cmd, box))
            /\ box' = After(Head(down).cmd, box)
    /\ UNCHANGED <<sketch, index, last_response, history>>

ProcessRepeated ==
    /\ OutOfOrder
    /\ down' = Tail(down)
    /\ IF last_response = None THEN UNCHANGED up
       ELSE send(Head(down).index, last_response)
    /\ UNCHANGED <<sketch, bridge, history>>

(* Mutants of ProcessCommand: the index is not taken modulo INDEXES; the   *)
(* response is not kept.                                                   *)
ProcessCommandNoWrap ==
    /\ down # <<>> /\ Head(down).cmd # RESET /\ Head(down).index = index
    /\ down' = Tail(down)
    /\ send(index, Answer(Head(down).cmd, box))
    /\ box' = After(Head(down).cmd, box)
    /\ index' = index + 1
    /\ last_response' = Answer(Head(down).cmd, box)
    /\ UNCHANGED <<sketch, history>>

ProcessCommandNotKept ==
    /\ down # <<>> /\ Head(down).cmd # RESET /\ Head(down).index = index
    /\ down' = Tail(down)
    /\ send(index, Answer(Head(down).cmd, box))
    /\ box' = After(Head(down).cmd, box)
    /\ index' = (index + 1) % INDEXES
    /\ UNCHANGED <<sketch, last_response, history>>

ProcessCommand ==
    /\ down # <<>> /\ Head(down).cmd # RESET /\ Head(down).index = index
    /\ down' = Tail(down)
    /\ send(index, Answer(Head(down).cmd, box))
    /\ box' = After(Head(down).cmd, box)
    /\ index' = (index + 1) % INDEXES
    /\ last_response' = Answer(Head(down).cmd, box)
    /\ UNCHANGED <<sketch, history>>

Process == ProcessReset \/ ProcessRepeated \/ ProcessCommand

(* Mailbox.run, before each packet: one message of a TCP client.           *)
Arrive(cmd) ==
    /\ box' = ext_command(cmd, box)
    /\ arrived' = IF cmd.op = "raw" THEN Append(arrived, cmd.data) ELSE arrived
    /\ UNCHANGED <<sketch, line, index, last_response, taken>>

(* The bridge program ends and is started again.                           *)
Restart ==
    /\ index # NOT_RESET
    /\ index' = NOT_RESET /\ last_response' = None
    /\ box' = NewBox
    /\ arrived' = <<>> /\ taken' = <<>>
    /\ UNCHANGED <<sketch, line>>

Next ==
    \/ \E cmd \in Command : Call(cmd)
    \/ Repeat \/ TakeReply \/ DropReply
    \/ \E i \in Index : Reboot(i)
    \/ \E i \in 1 .. LINE_CAPACITY : LosePacket(i) \/ LoseReply(i)
    \/ Process
    \/ \E cmd \in ExtCommand : Arrive(cmd)
    \/ Restart

Spec == Init /\ [][Next]_vars

-----------------------------------------------------------------------------
(* The bridge implements BridgeCalls: a command has been executed exactly  *)
(* when the index has moved past the one of the unanswered packet.         *)
Phase == CASE index = NOT_RESET -> "broken"
           [] index # NOT_RESET /\ call \in {None, RESET} -> "idle"
           [] index # NOT_RESET /\ call \notin {None, RESET} /\ index = seq -> "called"
           [] OTHER -> "done"

Calls == INSTANCE BridgeCalls WITH
    phase  <- Phase,
    call   <- IF Phase \in {"called", "done"} THEN call ELSE None,
    result <- IF Phase = "done" THEN last_response ELSE None

(* Every call acts on the mailbox exactly once and returns its own result, *)
(* whatever is lost or repeated, in either direction.                      *)
ImplementsCalls == Calls!Spec

(* No message gets lost or is received twice between a TCP client and the  *)
(* sketch: what the sketch has received, what it is about to receive, and  *)
(* what waits in the mailbox are the messages that arrived, in order.      *)
MailboxIntact ==
    LET underway == IF Phase = "done" /\ call.op = "RECV" /\ last_response # Empty
                    THEN <<last_response>> ELSE <<>>
    IN  Phase # "broken" /\ call # RESET
          => taken \o underway \o box.incoming = arrived

(* As long as the bridge keeps running, every call returns.                *)
EveryCallReturns ==
    (call # None) ~> (call = None \/ index = NOT_RESET)
=============================================================================
