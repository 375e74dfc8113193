--------------------------------- MODULE Box ---------------------------------
(* The programs on the Linux side that serve the microcontroller, side by   *)
(* side: the bridge of the serial line with its mailbox (YunBridge, which   *)
(* is extended), the packet forwarder with the sketch of its radio, the TCP *)
(* client of the data files, and, apart from the serial line, two other     *)
(* parts of the bridge: what it keeps open for the sketch, and its console. *)
(* They are modelled as sharing no state: a step is a step of one of them.  *)
EXTENDS YunBridge

CONSTANTS
    Packets, Downlinks, Names, AnswerFile, FileOf, Joins, Shorts,  \* of PktFwd
    FILES, UP_DATA, SketchData,                                    \* of TcpClient
    Stream, Kinds, IDS, MOST, STREAM_TOTAL,                        \* of BridgeStreams
    Client, SketchItself, STARVING, CONSOLE_TOTAL                  \* of BridgeConsole

(* main.c and single_pkt_fwd.ino: the address of a node gives the name of   *)
(* the file of its downlinks, to both sides.                                *)
ASSUME ForwarderAssumption ==
    /\ AnswerFile \in [Packets -> Names] /\ FileOf \in [Downlinks -> Names]
    /\ None \notin Packets \cup Downlinks /\ "empty" \notin Downlinks \cup {None}

(* tcp_client.c: FILES and UP_DATA are positive constants.                  *)
ASSUME DataAssumption == FILES \in Nat \ {0} /\ UP_DATA \in Nat \ {0}

(* bridge.py: there are 256 identifiers.  No stream is None.                *)
ASSUME StreamsAssumption ==
    IDS \in Nat \ {0} /\ STREAM_TOTAL \in Nat /\ None \notin Stream

(* The sketch is not a client of the console.                               *)
ASSUME ConsoleAssumption == SketchItself \notin Client /\ CONSOLE_TOTAL \in Nat

VARIABLES
    cfgdata, data, downfile, radioSketch, radio, threadUp, threadDown, resp,
    main, exit_sig, mx_meas_up, sent, raced, missed,
    file, client, server, connected, written, excused,
    kind, streamsUp, awaited, table, next_id, stream, held,
    consoleUp, con, link, got, read, said

F == INSTANCE PktFwd WITH
        Packet <- Packets, Downlink <- Downlinks, Name <- Names,
        Join <- Joins, Short <- Shorts,
        sketch <- radioSketch, up <- threadUp, down <- threadDown

T == INSTANCE TcpClient WITH Data <- SketchData

S == INSTANCE BridgeStreams WITH TOTAL <- STREAM_TOTAL, bridge <- streamsUp

C == INSTANCE BridgeConsole WITH
        TOTAL <- CONSOLE_TOTAL, Sketch <- SketchItself, up <- consoleUp

forwarder == <<cfgdata, data, downfile, radioSketch, radio, threadUp, threadDown,
               resp, main, exit_sig, mx_meas_up, sent, raced, missed>>
tcp       == <<file, client, server, connected, written, excused>>
streams   == <<kind, streamsUp, awaited, table, next_id, stream, held>>
console   == <<consoleUp, con, link, got, read, said>>
boxvars   == <<vars, forwarder, tcp, streams, console>>

BoxInit == Init /\ F!Init /\ T!Init /\ S!Init /\ C!Init

BoxNext ==
    \/ Next /\ UNCHANGED <<forwarder, tcp, streams, console>>
    \/ F!Next /\ UNCHANGED <<vars, tcp, streams, console>>
    \/ T!Next /\ UNCHANGED <<vars, forwarder, streams, console>>
    \/ S!Next /\ UNCHANGED <<vars, forwarder, tcp, console>>
    \/ C!Next /\ UNCHANGED <<vars, forwarder, tcp, streams>>

BoxSpec == BoxInit /\ [][BoxNext]_boxvars

-----------------------------------------------------------------------------
(* The variables of each program have their types.                         *)
BoxTypeOK == TypeOK /\ F!TypeOK /\ T!TypeOK /\ S!TypeOK /\ C!TypeOK

(* main.c, thread_up: what the server gets as a packet is one packet, with *)
(* its size and all its data, and once, unless the two sides have met at a *)
(* file.                                                                   *)
ForwardedOnce == F!ForwardedOnce

(* main.c, thread_down, and emitpacket of the sketch: a downlink waits in  *)
(* its file, and is emitted at most once.                                  *)
DownlinksKept == F!DownlinksKept

(* main.c: every packet heard is forwarded, and a forwarder that is told   *)
(* to stop stops.  single_pkt_fwd.ino: the sketch comes back to receiving  *)
(* from an answer of at least three bytes.                                 *)
ForwarderGoesOn == F!EveryPacketForwarded /\ F!Stops /\ F!SketchReceives

(* tcp_client.c: the server gets the data of a file in order and once, and *)
(* what it has not got has not gone.                                       *)
InOrderOnce == T!InOrderOnce

(* processes.py, files.py, sockets.py, sockets_udp.py, console.py: what    *)
(* goes through the bridge between the sketch and a process, a file, a     *)
(* peer or the clients of the console arrives where it is meant to, in     *)
(* order and once, and no end of data is taken for reached too early.      *)
StreamsInOrder == S!StreamsInOrder /\ C!ConsoleInOrder
=============================================================================
