-------------------------------- MODULE MCBox --------------------------------
(* Box, bounded: the bridge of the serial line as MCYunBridge bounds it.    *)
(* The programs share no state, so each behaviour is one of one program,    *)
(* chosen at the start; the others stay as they began.  What happens to a   *)
(* program from outside is bounded by budget.                               *)
EXTENDS Box, MCYunBridge

CONSTANTS
    p1, p2, p3, f1,  \* LoRa packets, a name of a file
    s1, s2, s3, h1, h2,      \* streams, clients of the console
    MaxRadio,                \* packets, downlinks and signals
    MaxCommands              \* commands, and what happens outside

VARIABLES
    program,
    budget

MCAnswerFile == [p \in Packets |-> f1]
MCFileOf     == [d \in Downlinks |-> f1]

mcboxvars == <<mcvars, forwarder, tcp, streams, console, program, budget>>

MCBoxInit ==
    /\ program \in {"bridge", "forwarder", "tcp", "streams", "console"}
    /\ budget = IF program \in {"streams", "console"} THEN MaxCommands ELSE MaxRadio
    /\ MCInit /\ F!Init /\ T!Init /\ S!Init /\ C!Init
    /\ program # "streams" => kind = "file"

(* Which of two packets comes first makes no difference; the join is first. *)
InOrder ==
    /\ radio.unsent = Packets \/ (p3 \in radio.unsent => p3 \in radio'.unsent)
    /\ p2 \in radio'.unsent \/ p1 \notin radio'.unsent

Outside ==
    \/ F!Server \/ F!sig_handler
    \/ F!Radio /\ InOrder

(* Nor does the order of the streams.                                       *)
InTurn ==
    /\ stream[s1].state = "new" => stream'[s2].state = "new"
    /\ stream[s2].state = "new" => stream'[s3].state = "new"

(* Nor which message arrives first.                                        *)
ArrivesFirst == arrived' # <<>> => arrived'[1] = CHOOSE m \in Message : TRUE

(* Nor the order of the clients of the console.                            *)
ClientsInTurn == link[h1].state = "new" => link'[h2].state = "new"

Bridge(A) ==
    /\ program = "bridge" /\ A
    /\ UNCHANGED <<forwarder, tcp, streams, console, program, budget>>
Forwarder(A) ==
    /\ program = "forwarder" /\ A
    /\ UNCHANGED <<mcvars, tcp, streams, console, program>>
Tcp(A) ==
    /\ program = "tcp" /\ A
    /\ UNCHANGED <<mcvars, forwarder, streams, console, program, budget>>
Streams(A) ==
    /\ program = "streams" /\ A
    /\ UNCHANGED <<mcvars, forwarder, tcp, console, program>>
Console(A) ==
    /\ program = "console" /\ A
    /\ UNCHANGED <<mcvars, forwarder, tcp, streams, program>>

Spend == budget > 0 /\ budget' = budget - 1

MCBoxNext ==
    \/ Bridge(MCNext /\ ArrivesFirst)
    \/ Forwarder(Outside /\ Spend)
    \/ Forwarder((F!Sketch \/ F!thread_up \/ F!WriteDown \/ F!Main) /\ UNCHANGED budget)
    \/ Tcp(T!Next)
    \/ Streams((S!Reading \/ S!Running \/ S!Waited \/ S!Restart) /\ UNCHANGED budget)
    \/ Streams((S!Sketch \/ S!Others \/ S!Crash) /\ InTurn /\ Spend)
    \/ Console((C!Run \/ C!Read) /\ UNCHANGED budget)
    \/ Console(C!Outside /\ ClientsInTurn /\ Spend)

(* The bridge as in MCYunBridge; each thread of the forwarder goes on.      *)
BoxFairness ==
    /\ WF_mcvars(Bridge(Repeat /\ Free))
    /\ SF_mcvars(Bridge(Process /\ Free))
    /\ SF_mcvars(Bridge((TakeReply \/ DropReply) /\ Free))
    /\ WF_forwarder(Forwarder(F!Sketch /\ UNCHANGED budget))
    /\ WF_forwarder(Forwarder(F!thread_up /\ UNCHANGED budget))
    /\ WF_forwarder(Forwarder(F!WriteDown /\ UNCHANGED budget))
    /\ WF_forwarder(Forwarder(F!Main /\ UNCHANGED budget))

MCBoxSpec == MCBoxInit /\ [][MCBoxNext]_mcboxvars /\ BoxFairness

=============================================================================
