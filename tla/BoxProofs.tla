------------------------------ MODULE BoxProofs ------------------------------
(* Proofs about the packet forwarder, the TCP client, the streams of the    *)
(* bridge and its console, for any packets, downlinks, names of files and   *)
(* data, any number of files, streams, identifiers and clients and any size *)
(* of the buffers.                                                          *)
EXTENDS Box, YunBridgeProofs, SublistProofs, SequenceTheorems, TLAPS

-----------------------------------------------------------------------------
(* The packet forwarder: packets.                                           *)
Printing == {"rssi", "size=", "size"}

(* The records of F!TypeOK, with the fields of radio; loop() is about a     *)
(* packet from the moment it has heard one, and thread_up from Fetch on.    *)
CfgType    == [pkt : Packets \cup {None}, has : {"nothing", "rssi", "size=", "all", "holes"}]
DataType   == [pkt : Packets \cup {None}, whole : BOOLEAN]
SketchType == [at : {"receive", "rssi", "size=", "size", "open", "data", "exists",
                     "join", "emit", "rm"},
               pkt : Packets \cup {None}, emitting : Downlinks \cup {None}]
RadioType  == [unsent : SUBSET Packets, emitted : Seq(Downlinks)]
UpType     == [at : {"fetch", "data", "lock", "ack1", "ack2", "clear", "end"},
               size : Packets \cup {None}, told : Packets \cup {None}]

FilesType ==
    /\ cfgdata \in CfgType /\ data \in DataType
    /\ downfile \in [Names -> Downlinks \cup {None, "empty"}]
    /\ radioSketch \in SketchType /\ radio \in RadioType
    /\ radioSketch.at # "receive" => radioSketch.pkt \in Packets /\ cfgdata.pkt \in Packets
    /\ cfgdata.has # "nothing" => cfgdata.pkt \in Packets

ThreadsType ==
    /\ threadUp \in UpType
    /\ threadUp.at \notin {"fetch", "end"} => threadUp.told \in Packets
    /\ threadDown \in Downlinks \cup {None}
    /\ resp \in SUBSET Downlinks
    /\ main \in {"stat", "sleep", "join", "exited"} /\ exit_sig \in BOOLEAN
    /\ mx_meas_up \in {"up", None}
    /\ sent \in Seq(F!Datagram)
    /\ raced \in SUBSET Packets /\ missed \in SUBSET Downlinks

ForwarderType == FilesType /\ ThreadsType

(* What thread_up goes by was told by cfgdata of a packet that was heard.   *)
ToldHeard ==
    /\ cfgdata.pkt \notin radio.unsent /\ threadUp.told \notin radio.unsent
    /\ threadUp.size \in {threadUp.told, None}
    /\ threadUp.at \in {"fetch", "end"} => threadUp.told = None

(* cfgdata is not complete while the sketch prints it; and the sketch does  *)
(* not print what thread_up is handling, or the two have met at the file.   *)
NotWhilePrinting ==
    radioSketch.at \in Printing =>
       /\ cfgdata.has # "all"
       /\ threadUp.at # "fetch" /\ threadUp.size = cfgdata.pkt /\ cfgdata.pkt \in Packets
            => cfgdata.pkt \in raced

(* A packet that was sent is not about to be sent again: cfgdata tells of   *)
(* it only until thread_up has truncated it.                                *)
SentIsOver(p) ==
    /\ p \notin radio.unsent
    /\ threadUp.at = "data" => threadUp.size # p
    /\ cfgdata.pkt = p
         => \/ threadUp.at \in {"lock", "ack1", "ack2", "clear"} /\ threadUp.size = p
            \/ cfgdata.has = "nothing" /\ radioSketch.at \notin Printing

SentOnce ==
    \A i \in DOMAIN sent :
       sent[i].size \in Packets \ raced
         => /\ sent[i].data = sent[i].size /\ sent[i].whole
            /\ SentIsOver(sent[i].size)
            /\ \A j \in DOMAIN sent : sent[j].size = sent[i].size => i = j

ForwardInv == ForwarderType /\ ToldHeard /\ NotWhilePrinting /\ SentOnce

-----------------------------------------------------------------------------
(* The types of the forwarder.                                              *)
LEMMA ForwarderTypes == ForwarderType => F!TypeOK
  BY DEF ForwarderType, FilesType, ThreadsType, F!TypeOK, CfgType, DataType, SketchType,
         RadioType, UpType

LEMMA ForwarderTypeInit == F!Init => ForwarderType
  <1> SUFFICES ASSUME F!Init PROVE ForwarderType
    OBVIOUS
  <1>1. FilesType
    BY DEF F!Init, FilesType, CfgType, DataType, SketchType, RadioType
  <1>2. ThreadsType
    <2>1. threadUp \in UpType /\ threadUp.at = "fetch"
      BY DEF F!Init, UpType
    <2>2. sent \in Seq(F!Datagram)
      BY DEF F!Init
    <2>3. "up" # "fetch"
      OBVIOUS
    <2> QED
      BY <2>1, <2>2, Zenon DEF F!Init, ThreadsType
  <1> QED
    BY <1>1, <1>2 DEF ForwarderType

(* The steps of the sketch.                                                 *)
LEMMA FilesTypeStep ==
  ASSUME ForwarderType,
         F!Sketch \/ F!Radio
  PROVE  ForwarderType'
  <1> USE ForwarderAssumption DEF ForwarderType, FilesType, ThreadsType, F!files, F!Goto
  <1>0. ASSUME NEW at \in {"receive", "rssi", "size=", "size", "open", "data", "exists",
                           "join", "emit", "rm"}
        PROVE  /\ [radioSketch EXCEPT !.at = at] \in SketchType
               /\ [radioSketch EXCEPT !.at = at].pkt = radioSketch.pkt
               /\ [radioSketch EXCEPT !.at = at].at = at
    BY Zenon DEF SketchType
  <1>1. ASSUME NEW p \in Packets, F!receivepacket(p) PROVE ForwarderType'
    <2>1. cfgdata' \in CfgType /\ cfgdata'.pkt \in Packets
      BY <1>1 DEF F!receivepacket, CfgType
    <2>2. radioSketch' \in SketchType /\ radioSketch'.pkt \in Packets
      BY <1>1 DEF F!receivepacket, SketchType
    <2>3. radio' \in RadioType
      BY <1>1 DEF F!receivepacket, RadioType
    <2>4. raced' \in SUBSET Packets
      BY <1>1 DEF F!receivepacket
    <2> QED
      BY <1>1, <2>1, <2>2, <2>3, <2>4 DEF F!receivepacket
  <1>2. ASSUME NEW from \in Printing, NEW to \in {"size=", "size", "open"},
               NEW has \in {"rssi", "size=", "all"}, F!PrintCfg(from, to, has)
        PROVE  ForwarderType'
    <2>1. cfgdata' \in CfgType /\ cfgdata'.pkt = cfgdata.pkt
      BY <1>2 DEF F!PrintCfg, CfgType
    <2>2. radioSketch' \in SketchType /\ radioSketch'.pkt = radioSketch.pkt
      BY <1>2, <1>0, Zenon DEF F!PrintCfg
    <2>3. radioSketch.pkt \in Packets /\ cfgdata.pkt \in Packets
      BY <1>2 DEF F!PrintCfg, Printing
    <2> QED
      BY <1>2, <2>1, <2>2, <2>3 DEF F!PrintCfg
  <1>3. CASE F!OpenData
    <2>1. data' \in DataType
      BY <1>3 DEF F!OpenData, SketchType, DataType
    <2>2. /\ radioSketch' \in SketchType /\ radioSketch'.pkt = radioSketch.pkt
          /\ radioSketch.at # "receive"
      BY <1>3, <1>0, Zenon DEF F!OpenData
    <2> QED
      BY <1>3, <2>1, <2>2 DEF F!OpenData
  <1>4. CASE F!PrintData
    <2>1. data' \in DataType
      BY <1>4 DEF F!PrintData, DataType
    <2>2. /\ radioSketch' \in SketchType /\ radioSketch'.pkt = radioSketch.pkt
          /\ radioSketch.at # "receive"
      BY <1>4, <1>0, Zenon DEF F!PrintData
    <2> QED
      BY <1>4, <2>1, <2>2 DEF F!PrintData
  <1>5. CASE F!sendpacket
    <2>1. radioSketch' \in SketchType /\ radioSketch'.at = "receive"
      BY <1>5, <1>0, Zenon DEF F!sendpacket
    <2> QED
      BY <1>5, <2>1 DEF F!sendpacket
  <1>6. CASE F!Exists
    <2>1. /\ radioSketch' \in SketchType /\ radioSketch'.pkt = radioSketch.pkt
          /\ radioSketch.at # "receive"
      BY <1>6, <1>0, Zenon DEF F!Exists
    <2> QED
      BY <1>6, <2>1 DEF F!Exists
  <1>7. CASE F!emitpacket
    <2>1. radioSketch' \in SketchType /\ radioSketch'.pkt = radioSketch.pkt
      BY <1>7 DEF F!emitpacket, F!InFile, SketchType
    <2>2. PICK d \in Downlinks : radio' = [radio EXCEPT !.emitted = Append(@, d)]
      BY <1>7 DEF F!emitpacket, F!InFile
    <2>3. radio.emitted \in Seq(Downlinks)
      BY Zenon DEF RadioType
    <2>4. Append(radio.emitted, d) \in Seq(Downlinks)
      BY <2>3
    <2>5. radio' \in RadioType
      BY <2>2, <2>4, Zenon DEF RadioType
    <2> QED
      BY <1>7, <2>1, <2>5 DEF F!emitpacket
  <1>8. CASE F!Remove
    <2>1. radioSketch' \in SketchType /\ radioSketch'.at = "receive"
      BY <1>8 DEF F!Remove, SketchType
    <2>2. missed' \in SUBSET Downlinks
      BY <1>8 DEF F!Remove
    <2>3. downfile' \in [Names -> Downlinks \cup {None, "empty"}]
      BY <1>8 DEF F!Remove
    <2> QED
      BY <1>8, <2>1, <2>2, <2>3 DEF F!Remove
  <1>9. \/ F!PrintCfg("rssi", "size=", "rssi") \/ F!PrintCfg("size=", "size", "size=")
        \/ F!PrintCfg("size", "open", "all")
        => ForwarderType'
    BY <1>2, Zenon DEF Printing
  <1> QED
    BY <1>1, <1>3, <1>4, <1>5, <1>6, <1>7, <1>8, <1>9 DEF F!Sketch, F!Radio

(* The steps of the forwarder and of its server.                            *)
LEMMA ThreadsTypeStep ==
  ASSUME ForwarderType,
         F!thread_up \/ F!WriteDown \/ F!Main \/ F!Server \/ F!sig_handler
  PROVE  ForwarderType'
  <1> USE ForwarderAssumption DEF ForwarderType, FilesType, ThreadsType, F!files, F!UpGoto
  <1>0. ASSUME NEW at \in {"fetch", "data", "lock", "ack1", "ack2", "clear", "end"}
        PROVE  /\ [threadUp EXCEPT !.at = at] \in UpType
               /\ [threadUp EXCEPT !.at = at].told = threadUp.told
               /\ [threadUp EXCEPT !.at = at].at = at
    BY Zenon DEF UpType
  <1>1. CASE F!UpEnd
    BY <1>1, <1>0 DEF F!UpEnd
  <1>2. CASE F!Fetch
    <2>1. threadUp' \in UpType /\ threadUp'.told \in Packets
      BY <1>2 DEF F!Fetch, UpType, CfgType
    <2>2. raced' \in SUBSET Packets
      BY <1>2 DEF F!Fetch, CfgType
    <2> QED
      BY <1>2, <2>1, <2>2 DEF F!Fetch
  <1>3. CASE F!Push
    <2>1. sent' \in Seq(F!Datagram)
      BY <1>3 DEF F!Push, F!Datagram, UpType, DataType
    <2>2. /\ threadUp' \in UpType /\ threadUp'.told = threadUp.told
          /\ threadUp.told \in Packets
      BY <1>3, <1>0 DEF F!Push
    <2>3. raced' \in SUBSET Packets
      BY <1>3, <2>2 DEF F!Push
    <2> QED
      BY <1>3, <2>1, <2>2, <2>3 DEF F!Push
  <1>4. CASE F!Lock
    BY <1>4, <1>0 DEF F!Lock
  <1>5. CASE F!PushAck
    BY <1>5, <1>0 DEF F!PushAck
  <1>6. CASE F!Clear
    <2>1. threadUp' \in UpType /\ threadUp'.at = "fetch"
      BY <1>6 DEF F!Clear, UpType
    <2>2. cfgdata' \in CfgType /\ cfgdata'.pkt = cfgdata.pkt /\ cfgdata'.has = "nothing"
      BY <1>6 DEF F!Clear, CfgType
    <2> QED
      BY <1>6, <2>1, <2>2 DEF F!Clear
  <1>7. ASSUME NEW d \in Downlinks, F!PullResp(d) PROVE ForwarderType'
    <2>1. downfile' \in [Names -> Downlinks \cup {None, "empty"}]
      BY <1>7 DEF F!PullResp
    <2> QED
      BY <1>7, <2>1 DEF F!PullResp
  <1>8. CASE F!WriteDown
    <2>1. downfile' \in [Names -> Downlinks \cup {None, "empty"}]
      BY <1>8 DEF F!WriteDown
    <2> QED
      BY <1>8, <2>1 DEF F!WriteDown
  <1>9. CASE F!sig_handler
    BY <1>9 DEF F!sig_handler
  <1>10. CASE F!Main
    BY <1>10 DEF F!Main, F!Stat, F!WakeUp, F!Exit
  <1> QED
    BY <1>1, <1>2, <1>3, <1>4, <1>5, <1>6, <1>7, <1>8, <1>9, <1>10
       DEF F!thread_up, F!Server

LEMMA ForwarderTypeStep == ForwarderType /\ F!Next => ForwarderType'
  BY FilesTypeStep, ThreadsTypeStep DEF F!Next

(* What the two steps of the sketch about a downlink do to its records.     *)
LEMMA EmitFacts ==
  ASSUME ForwarderType, F!emitpacket
  PROVE  /\ F!InFile \in Downlinks
         /\ radioSketch.at = "emit" /\ radioSketch'.at = "rm"
         /\ radioSketch'.pkt = radioSketch.pkt /\ radioSketch'.emitting = F!InFile
         /\ radio'.unsent = radio.unsent
         /\ radio.emitted \in Seq(Downlinks)
         /\ radio'.emitted = Append(radio.emitted, F!InFile)
  <1>1. PICK d \in Downlinks : d = F!InFile
    BY DEF F!emitpacket
  <1>2. radioSketch' = [radioSketch EXCEPT !.at = "rm", !.emitting = d]
    BY <1>1 DEF F!emitpacket
  <1>3. radio' = [radio EXCEPT !.emitted = Append(@, d)]
    BY <1>1 DEF F!emitpacket
  <1>4. /\ radioSketch'.at = "rm" /\ radioSketch'.pkt = radioSketch.pkt
        /\ radioSketch'.emitting = d
    BY <1>2, Zenon DEF ForwarderType, FilesType, SketchType
  <1>5. /\ radio.emitted \in Seq(Downlinks) /\ radio'.unsent = radio.unsent
        /\ radio'.emitted = Append(radio.emitted, d)
    BY <1>3, Zenon DEF ForwarderType, FilesType, RadioType
  <1> QED
    BY <1>1, <1>4, <1>5 DEF F!emitpacket

LEMMA RemoveFacts ==
  ASSUME ForwarderType, F!Remove
  PROVE  radioSketch.at = "rm" /\ radioSketch'.at = "receive" /\ radio' = radio
  BY DEF F!Remove, ForwarderType, FilesType, SketchType

-----------------------------------------------------------------------------
(* Packets.                                                                 *)
LEMMA ForwardInvInit == F!Init => ForwardInv
  <1> SUFFICES ASSUME F!Init PROVE ForwardInv
    OBVIOUS
  <1>1. /\ cfgdata.pkt = None /\ cfgdata.has = "nothing" /\ radioSketch.at = "receive"
        /\ threadUp.at = "fetch" /\ threadUp.told = None /\ threadUp.size = None
        /\ radio.unsent = Packets /\ DOMAIN sent = {}
    BY DEF F!Init
  <1> QED
    BY <1>1, ForwarderTypeInit, ForwarderAssumption
       DEF ForwardInv, ToldHeard, NotWhilePrinting, SentOnce, Printing

LEMMA ToldHeardStep == ForwardInv /\ F!Next => ToldHeard'
  <1> SUFFICES ASSUME ForwardInv, F!Next PROVE ToldHeard'
    OBVIOUS
  <1> USE ForwarderAssumption DEF ForwardInv, ForwarderType, FilesType, ThreadsType, ToldHeard, F!files
  <1>1. ASSUME NEW p \in Packets, F!receivepacket(p) PROVE ToldHeard'
    BY <1>1 DEF F!receivepacket, RadioType
  <1>2. ASSUME NEW from \in Printing, NEW to \in {"size=", "size", "open"},
               NEW has \in {"rssi", "size=", "all"}, F!PrintCfg(from, to, has)
        PROVE  ToldHeard'
    BY <1>2 DEF F!PrintCfg, CfgType
  <1>3. CASE F!OpenData \/ F!PrintData \/ F!sendpacket \/ F!Exists \/ F!Remove
    BY <1>3 DEF F!OpenData, F!PrintData, F!sendpacket, F!Exists, F!Remove
  <1>4. CASE F!emitpacket
    BY <1>4 DEF F!emitpacket, RadioType
  <1>5. CASE F!UpEnd \/ F!Push \/ F!Lock \/ F!PushAck
    BY <1>5 DEF F!UpEnd, F!Push, F!Lock, F!PushAck, F!UpGoto, UpType
  <1>6. CASE F!Fetch
    BY <1>6 DEF F!Fetch, UpType, CfgType
  <1>7. CASE F!Clear
    BY <1>7 DEF F!Clear, UpType, CfgType, RadioType
  <1>8. CASE F!WriteDown \/ F!Main \/ F!Server \/ F!sig_handler
    BY <1>8 DEF F!WriteDown, F!Main, F!Stat, F!WakeUp, F!Exit, F!Server, F!PullResp, F!sig_handler
  <1>9. \/ F!PrintCfg("rssi", "size=", "rssi") \/ F!PrintCfg("size=", "size", "size=")
        \/ F!PrintCfg("size", "open", "all")
        => ToldHeard'
    BY <1>2, Zenon DEF Printing
  <1> QED
    BY <1>1, <1>3, <1>4, <1>5, <1>6, <1>7, <1>8, <1>9
       DEF F!Next, F!Sketch, F!thread_up, F!Radio

LEMMA NotWhilePrintingStep == ForwardInv /\ F!Next => NotWhilePrinting'
  <1> SUFFICES ASSUME ForwardInv, F!Next PROVE NotWhilePrinting'
    OBVIOUS
  <1> USE ForwarderAssumption DEF ForwardInv, ForwarderType, FilesType, ThreadsType,
          NotWhilePrinting, Printing, F!files, F!Goto
  <1>1. ASSUME NEW p \in Packets, F!receivepacket(p) PROVE NotWhilePrinting'
    BY <1>1 DEF F!receivepacket, RadioType
  <1>2. CASE F!PrintCfg("rssi", "size=", "rssi")
    BY <1>2 DEF F!PrintCfg, CfgType, SketchType
  <1>3. CASE F!PrintCfg("size=", "size", "size=")
    BY <1>3 DEF F!PrintCfg, CfgType, SketchType
  <1>4. CASE F!PrintCfg("size", "open", "all")
    BY <1>4 DEF F!PrintCfg, CfgType, SketchType
  <1>5. CASE F!OpenData \/ F!PrintData \/ F!sendpacket \/ F!Exists
    BY <1>5 DEF F!OpenData, F!PrintData, F!sendpacket, F!Exists, SketchType
  <1>6. CASE F!emitpacket \/ F!Remove
    <2>1. radioSketch'.at \in {"rm", "receive"}
      BY <1>6, EmitFacts, RemoveFacts
    <2> QED
      BY <2>1
  <1>7. CASE F!UpEnd
    BY <1>7 DEF F!UpEnd, F!UpGoto, UpType, ToldHeard, RadioType
  <1>8. CASE F!Push \/ F!Lock \/ F!PushAck
    BY <1>8 DEF F!Push, F!Lock, F!PushAck, F!UpGoto, UpType
  <1>9. CASE F!Fetch
    BY <1>9 DEF F!Fetch, UpType, CfgType
  <1>10. CASE F!Clear
    BY <1>10 DEF F!Clear, UpType, CfgType
  <1>11. CASE F!WriteDown \/ F!Main \/ F!Server \/ F!sig_handler
    BY <1>11 DEF F!WriteDown, F!Main, F!Stat, F!WakeUp, F!Exit, F!Server, F!PullResp, F!sig_handler
  <1> QED
    BY <1>1, <1>2, <1>3, <1>4, <1>5, <1>6, <1>7, <1>8, <1>9, <1>10, <1>11
       DEF F!Next, F!Sketch, F!thread_up, F!Radio

(* What was sent stays sent, and is over with unless the step does          *)
(* something to cfgdata or to thread_up.                                    *)
LEMMA StillSentOnce ==
  ASSUME SentOnce, sent' = sent, raced \subseteq raced',
         \A p \in Packets : p \notin raced' /\ SentIsOver(p) => SentIsOver(p)'
  PROVE  SentOnce'
  BY DEF SentOnce

LEMMA SentOnceStep == ForwardInv /\ F!Next => SentOnce'
  <1> SUFFICES ASSUME ForwardInv, F!Next PROVE SentOnce'
    OBVIOUS
  <1> USE ForwarderAssumption DEF ForwardInv, ForwarderType, FilesType, ThreadsType, F!files, F!Goto
  <1>1. ASSUME NEW q \in Packets, F!receivepacket(q) PROVE SentOnce'
    <2>1. ASSUME NEW p \in Packets, SentIsOver(p) PROVE SentIsOver(p)'
      BY <1>1, <2>1 DEF F!receivepacket, RadioType, SentIsOver
    <2> QED
      BY <1>1, <2>1, StillSentOnce DEF F!receivepacket
  <1>2. ASSUME NEW from \in Printing, NEW to \in {"size=", "size", "open"},
               NEW has \in {"rssi", "size=", "all"}, F!PrintCfg(from, to, has)
        PROVE  SentOnce'
    <2>1. ASSUME NEW p \in Packets, p \notin raced, SentIsOver(p) PROVE SentIsOver(p)'
      BY <1>2, <2>1 DEF F!PrintCfg, CfgType, SentIsOver, NotWhilePrinting
    <2> QED
      BY <1>2, <2>1, StillSentOnce DEF F!PrintCfg
  <1>3. CASE F!OpenData \/ F!PrintData \/ F!sendpacket \/ F!Exists
    <2>1. radioSketch'.at \notin Printing
      BY <1>3 DEF F!OpenData, F!PrintData, F!sendpacket, F!Exists, SketchType, Printing
    <2>2. ASSUME NEW p \in Packets, SentIsOver(p) PROVE SentIsOver(p)'
      BY <1>3, <2>1, <2>2 DEF F!OpenData, F!PrintData, F!sendpacket, F!Exists, SentIsOver
    <2> QED
      BY <1>3, <2>2, StillSentOnce DEF F!OpenData, F!PrintData, F!sendpacket, F!Exists
  <1>4. CASE F!emitpacket \/ F!Remove
    <2>1. radioSketch'.at \notin Printing /\ radio'.unsent = radio.unsent
      BY <1>4, EmitFacts, RemoveFacts DEF Printing
    <2>2. ASSUME NEW p \in Packets, SentIsOver(p) PROVE SentIsOver(p)'
      BY <1>4, <2>1, <2>2 DEF F!emitpacket, F!Remove, SentIsOver
    <2> QED
      BY <1>4, <2>2, StillSentOnce DEF F!emitpacket, F!Remove
  <1>5. CASE F!UpEnd \/ F!Lock \/ F!PushAck
    <2>1. ASSUME NEW p \in Packets, SentIsOver(p) PROVE SentIsOver(p)'
      BY <1>5, <2>1 DEF F!UpEnd, F!Lock, F!PushAck, F!UpGoto, UpType, SentIsOver
    <2> QED
      BY <1>5, <2>1, StillSentOnce DEF F!UpEnd, F!Lock, F!PushAck
  <1>6. CASE F!Fetch
    <2>1. ASSUME NEW p \in Packets, SentIsOver(p) PROVE SentIsOver(p)'
      BY <1>6, <2>1 DEF F!Fetch, UpType, CfgType, SentIsOver
    <2> QED
      BY <1>6, <2>1, StillSentOnce DEF F!Fetch
  <1>7. CASE F!Push
    <2> DEFINE d == [size |-> threadUp.size, data |-> data.pkt, whole |-> data.whole]
    <2>1. /\ sent' = Append(sent, d) /\ d \in F!Datagram
          /\ threadUp'.at = "lock" /\ threadUp'.size = threadUp.size
          /\ raced \subseteq raced'
          /\ threadUp.size \in Packets \ raced' => data.pkt = threadUp.size /\ data.whole
          /\ threadUp.size \in Packets => threadUp.size \notin radio.unsent
      BY <1>7 DEF F!Push, F!UpGoto, UpType, DataType, F!Datagram, ToldHeard
    <2>2. ASSUME NEW p \in Packets, SentIsOver(p) PROVE SentIsOver(p)' /\ p # threadUp.size
      BY <1>7, <2>1, <2>2 DEF F!Push, SentIsOver
    <2>3. ASSUME NEW p \in Packets, p = threadUp.size PROVE SentIsOver(p)'
      BY <1>7, <2>1, <2>3 DEF F!Push, SentIsOver
    <2>4. /\ DOMAIN sent' = 1 .. Len(sent) + 1
          /\ DOMAIN sent = 1 .. Len(sent)
          /\ \A i \in 1 .. Len(sent) : sent'[i] = sent[i]
          /\ sent'[Len(sent) + 1] = d
      BY <2>1
    <2>5. d.size = threadUp.size /\ d.data = data.pkt /\ d.whole = data.whole
      OBVIOUS
    <2>6. ASSUME NEW i \in DOMAIN sent', NEW p \in Packets \ raced', sent'[i].size = p
          PROVE  /\ sent'[i].data = p /\ sent'[i].whole
                 /\ SentIsOver(p)'
                 /\ \A j \in DOMAIN sent' : sent'[j].size = p => i = j
      <3> HIDE DEF d
      <3>1. CASE i \in DOMAIN sent
        BY <2>1, <2>2, <2>4, <2>5, <2>6, <3>1 DEF SentOnce
      <3>2. CASE i \notin DOMAIN sent
        <4>1. sent'[i] = d /\ i = Len(sent) + 1
          BY <2>4, <3>2
        <4>2. ASSUME NEW j \in DOMAIN sent', sent'[j].size = p PROVE i = j
          <5>1. CASE j \in DOMAIN sent
            BY <2>1, <2>2, <2>4, <2>5, <2>6, <4>1, <4>2, <5>1 DEF SentOnce
          <5> QED
            BY <2>4, <4>1, <5>1
        <4> QED
          BY <2>1, <2>3, <2>5, <2>6, <4>1, <4>2
      <3> QED
        BY <3>1, <3>2
    <2> QED
      BY <2>6 DEF SentOnce
  <1>8. CASE F!Clear
    <2>1. ASSUME NEW p \in Packets, p \notin raced, SentIsOver(p) PROVE SentIsOver(p)'
      BY <1>8, <2>1 DEF F!Clear, UpType, CfgType, SentIsOver, NotWhilePrinting
    <2> QED
      BY <1>8, <2>1, StillSentOnce DEF F!Clear
  <1>9. CASE F!WriteDown \/ F!Main \/ F!Server \/ F!sig_handler
    BY <1>9 DEF F!WriteDown, F!Main, F!Stat, F!WakeUp, F!Exit, F!Server, F!PullResp,
                F!sig_handler, SentOnce, SentIsOver
  <1>10. \/ F!PrintCfg("rssi", "size=", "rssi") \/ F!PrintCfg("size=", "size", "size=")
         \/ F!PrintCfg("size", "open", "all")
         => SentOnce'
    BY <1>2, Zenon DEF Printing
  <1> QED
    BY <1>1, <1>3, <1>4, <1>5, <1>6, <1>7, <1>8, <1>9, <1>10
       DEF F!Next, F!Sketch, F!thread_up, F!Radio

LEMMA ForwardInvStep == ForwardInv /\ (F!Next \/ UNCHANGED forwarder) => ForwardInv'
  <1>1. ForwardInv /\ F!Next => ForwardInv'
    BY ForwarderTypeStep, ToldHeardStep, NotWhilePrintingStep, SentOnceStep DEF ForwardInv
  <1>2. ForwardInv /\ UNCHANGED forwarder => ForwardInv'
    BY DEF forwarder, ForwardInv, ForwarderType, FilesType, ThreadsType, ToldHeard,
           NotWhilePrinting, SentOnce, SentIsOver
  <1> QED
    BY <1>1, <1>2

(* A step of the box is a step of the forwarder, or leaves it alone.        *)
LEMMA ForwarderStep == [BoxNext]_boxvars => F!Next \/ UNCHANGED forwarder
  BY DEF BoxNext, boxvars

(* main.c, thread_up, and receivepacket of the sketch: a packet the two     *)
(* have not met over is sent whole, and once.                               *)
THEOREM PacketsForwarded == BoxSpec => []ForwardedOnce
  <1>1. BoxInit => ForwardInv
    BY ForwardInvInit DEF BoxInit
  <1>2. ForwardInv /\ [BoxNext]_boxvars => ForwardInv'
    BY ForwardInvStep, ForwarderStep
  <1>3. ForwardInv => ForwardedOnce
    BY DEF ForwardInv, SentOnce, ForwardedOnce, F!ForwardedOnce
  <1> QED
    BY <1>1, <1>2, <1>3, PTL DEF BoxSpec

-----------------------------------------------------------------------------
(* The packet forwarder: downlinks.                                         *)

(* A downlink is with the server, in the hands of thread_down or in the     *)
(* file it belongs to, in one place at a time.                              *)
InItsFile ==
    \A n \in Names :
       downfile[n] \in Downlinks
         => /\ FileOf[downfile[n]] = n
            /\ downfile[n] \notin resp /\ downfile[n] # threadDown

(* thread_down has emptied the file it is about to fill; when the sketch    *)
(* has removed it since, the downlink is lost.                              *)
BeingWritten ==
    threadDown # None =>
       /\ threadDown \notin resp
       /\ downfile[FileOf[threadDown]] \in {"empty", None}
       /\ downfile[FileOf[threadDown]] = None => threadDown \in missed

(* What was emitted is gone from the air side for good: it is in a file     *)
(* only until the sketch, which is about to remove it, has done so.         *)
EmittedIsOver ==
    /\ \A i \in DOMAIN radio.emitted :
          /\ radio.emitted[i] \notin resp /\ radio.emitted[i] # threadDown
          /\ \A n \in Names : downfile[n] = radio.emitted[i]
               => radioSketch.at = "rm" /\ radioSketch.emitting = radio.emitted[i]
    /\ radioSketch.at = "rm" =>
          /\ radioSketch.emitting \in Downlinks
          /\ FileOf[radioSketch.emitting] = AnswerFile[radioSketch.pkt]
          /\ \E i \in DOMAIN radio.emitted : radio.emitted[i] = radioSketch.emitting

DownlinkInv ==
    ForwarderType /\ InItsFile /\ BeingWritten /\ EmittedIsOver /\ DownlinksKept

LEMMA DownlinkInvInit == F!Init => DownlinkInv
  <1> SUFFICES ASSUME F!Init PROVE DownlinkInv
    OBVIOUS
  <1>1. /\ radioSketch.at = "receive" /\ DOMAIN radio.emitted = {} /\ threadDown = None
        /\ resp = Downlinks /\ \A n \in Names : downfile[n] = None
    BY DEF F!Init
  <1> QED
    BY <1>1, ForwarderTypeInit, ForwarderAssumption
       DEF DownlinkInv, InItsFile, BeingWritten, EmittedIsOver, DownlinksKept, F!DownlinksKept

(* The steps that change no downlink, no file of downlinks and nothing the  *)
(* sketch knows of them.                                                    *)
LEMMA NoDownlink ==
  ASSUME DownlinkInv, ForwarderType',
         UNCHANGED <<downfile, threadDown, resp, missed>>, radio'.emitted = radio.emitted,
         radioSketch.at # "rm", radioSketch'.at # "rm"
  PROVE  DownlinkInv'
  <1>1. ASSUME NEW i \in DOMAIN radio.emitted, NEW n \in Names PROVE downfile[n] # radio.emitted[i]
    BY DEF DownlinkInv, EmittedIsOver
  <1>2. InItsFile'
    BY DEF DownlinkInv, InItsFile
  <1>3. BeingWritten'
    BY DEF DownlinkInv, BeingWritten
  <1>4. EmittedIsOver'
    BY <1>1 DEF DownlinkInv, EmittedIsOver
  <1>5. DownlinksKept'
    BY DEF DownlinkInv, DownlinksKept, F!DownlinksKept
  <1> QED
    BY <1>2, <1>3, <1>4, <1>5 DEF DownlinkInv

LEMMA NoDownlinkAtAll ==
  ASSUME DownlinkInv, ForwarderType',
         UNCHANGED <<downfile, radioSketch, radio, threadDown, resp, missed>>
  PROVE  DownlinkInv'
  BY DEF DownlinkInv, InItsFile, BeingWritten, EmittedIsOver, DownlinksKept, F!DownlinksKept

LEMMA EmitKeepsInv ==
  ASSUME DownlinkInv, F!emitpacket, ForwarderType'
  PROVE  DownlinkInv'
  <1> PICK d \in Downlinks : d = F!InFile
    BY EmitFacts DEF DownlinkInv
  <1> DEFINE e == radio.emitted
  <1>1. /\ UNCHANGED <<downfile, threadDown, resp, missed>>
        /\ radioSketch.at = "emit" /\ radioSketch'.at = "rm"
        /\ radioSketch'.pkt = radioSketch.pkt /\ radioSketch'.emitting = d
        /\ radioSketch.pkt \in Packets
        /\ e \in Seq(Downlinks) /\ radio'.emitted = Append(e, d)
    BY EmitFacts DEF DownlinkInv, F!emitpacket, F!files, ForwarderType, FilesType
  <1>2. PICK f \in Names : f = AnswerFile[radioSketch.pkt]
    BY <1>1, ForwarderAssumption
  <1>3. downfile[f] = d /\ FileOf[d] = f /\ d \notin resp /\ d # threadDown
    BY <1>2 DEF DownlinkInv, InItsFile, F!InFile
  <1>4. \A i \in DOMAIN e, n \in Names : downfile[n] # e[i]
    BY <1>1 DEF DownlinkInv, EmittedIsOver
  <1>5. PICK g \in Seq(Downlinks) : g = radio'.emitted
    <2>1. \A q \in Seq(Downlinks) : Append(q, d) \in Seq(Downlinks)
      OBVIOUS
    <2> QED
      BY <1>1, <2>1, Zenon
  <1>6. /\ DOMAIN e = 1 .. Len(e) /\ DOMAIN g = 1 .. Len(e) + 1 /\ Len(e) \in Nat
        /\ \A i \in 1 .. Len(e) : g[i] = e[i]
        /\ g[Len(e) + 1] = d
    BY <1>1, <1>5
  <1> HIDE DEF e
  <1>7. InItsFile'
    BY <1>1 DEF DownlinkInv, InItsFile
  <1>8. BeingWritten'
    BY <1>1 DEF DownlinkInv, BeingWritten
  <1>9. EmittedIsOver'
    <2>1. \A i \in DOMAIN g : g[i] \notin resp /\ g[i] # threadDown
      BY <1>3, <1>6 DEF DownlinkInv, EmittedIsOver, e
    <2>2. ASSUME NEW i \in DOMAIN g, NEW n \in Names, downfile[n] = g[i] PROVE g[i] = d
      BY <1>4, <1>6, <2>2
    <2>3. Len(e) + 1 \in DOMAIN g
      BY <1>6
    <2> QED
      BY <1>1, <1>2, <1>3, <1>5, <1>6, <2>1, <2>2, <2>3 DEF EmittedIsOver
  <1>10. DownlinksKept'
    <2>1. ASSUME NEW i \in DOMAIN g, NEW j \in DOMAIN g, g[i] = g[j] PROVE i = j
      <3>1. \A k, l \in DOMAIN e : e[k] = e[l] => k = l
        BY DEF DownlinkInv, DownlinksKept, F!DownlinksKept, e
      <3>2. \A k \in DOMAIN e : e[k] # d
        BY <1>3, <1>4
      <3> QED
        BY <1>6, <2>1, <3>1, <3>2
    <2>2. ASSUME NEW x \in Downlinks \ (resp \cup {threadDown} \cup missed)
          PROVE  downfile[FileOf[x]] = x \/ \E i \in DOMAIN g : g[i] = x
      <3>1. downfile[FileOf[x]] = x \/ \E i \in DOMAIN e : e[i] = x
        BY DEF DownlinkInv, DownlinksKept, F!DownlinksKept, e
      <3> QED
        BY <1>6, <3>1
    <2> QED
      BY <1>1, <1>5, <2>1, <2>2 DEF DownlinksKept, F!DownlinksKept
  <1> QED
    BY <1>7, <1>8, <1>9, <1>10 DEF DownlinkInv

LEMMA RemoveKeepsInv ==
  ASSUME DownlinkInv, F!Remove, ForwarderType'
  PROVE  DownlinkInv'
  <1>1. /\ UNCHANGED <<radio, threadDown, resp>>
        /\ radioSketch.at = "rm" /\ radioSketch'.at = "receive"
        /\ radioSketch.pkt \in Packets
    BY RemoveFacts DEF DownlinkInv, F!Remove, ForwarderType, FilesType
  <1>2. PICK f \in Names : f = AnswerFile[radioSketch.pkt]
    BY <1>1, ForwarderAssumption
  <1>3. PICK d \in Downlinks : d = radioSketch.emitting
    BY <1>1 DEF DownlinkInv, EmittedIsOver
  <1>4. FileOf[d] = f /\ \E i \in DOMAIN radio.emitted : radio.emitted[i] = d
    BY <1>1, <1>2, <1>3 DEF DownlinkInv, EmittedIsOver
  <1>5. /\ downfile' = [downfile EXCEPT ![f] = None]
        /\ downfile \in [Names -> Downlinks \cup {None, "empty"}]
        /\ missed' = IF downfile[f] = d THEN missed
                     ELSE missed \cup ({downfile[f], threadDown} \cap Downlinks)
    BY <1>2, <1>3 DEF F!Remove, F!InFile, DownlinkInv, ForwarderType, FilesType
  <1>6. /\ \A n \in Names : downfile'[n] = IF n = f THEN None ELSE downfile[n]
        /\ None \notin Downlinks /\ FileOf \in [Downlinks -> Names]
        /\ "empty" \notin Downlinks
    BY <1>5, ForwarderAssumption
  <1>7. threadDown \in Downlinks \cup {None}
    BY DEF DownlinkInv, ForwarderType, ThreadsType
  <1>8. InItsFile'
    BY <1>1, <1>6 DEF DownlinkInv, InItsFile
  <1>9. BeingWritten'
    BY <1>1, <1>5, <1>6, <1>7 DEF DownlinkInv, BeingWritten
  <1>10. EmittedIsOver'
    <2>1. ASSUME NEW i \in DOMAIN radio.emitted, NEW n \in Names
          PROVE  downfile'[n] # radio.emitted[i]
      <3>1. PICK x \in Downlinks : x = radio.emitted[i]
        BY DEF DownlinkInv, ForwarderType, FilesType, RadioType
      <3>2. CASE n = f
        BY <1>6, <3>1, <3>2
      <3>3. CASE n # f /\ downfile[n] = x
        <4>1. x = d
          BY <1>3, <3>1, <3>3 DEF DownlinkInv, EmittedIsOver
        <4>2. FileOf[x] = n
          BY <3>3 DEF DownlinkInv, InItsFile
        <4> QED
          BY <1>4, <3>3, <4>1, <4>2
      <3> QED
        BY <1>6, <3>1, <3>2, <3>3
    <2> QED
      BY <1>1, <2>1 DEF DownlinkInv, EmittedIsOver
  <1>11. DownlinksKept'
    <2>1. ASSUME NEW x \in Downlinks \ (resp \cup {threadDown} \cup missed')
          PROVE  downfile'[FileOf[x]] = x \/ \E i \in DOMAIN radio.emitted : radio.emitted[i] = x
      <3>1. x \notin missed
        BY <1>5
      <3>2. downfile[FileOf[x]] = x \/ \E i \in DOMAIN radio.emitted : radio.emitted[i] = x
        BY <3>1 DEF DownlinkInv, DownlinksKept, F!DownlinksKept
      <3>3. FileOf[x] \in Names
        BY <1>6
      <3>4. CASE downfile[FileOf[x]] = x /\ FileOf[x] = f
        BY <1>4, <1>5, <3>4
      <3> QED
        BY <1>6, <3>2, <3>3, <3>4
    <2> QED
      BY <1>1, <2>1 DEF DownlinkInv, DownlinksKept, F!DownlinksKept
  <1> QED
    BY <1>8, <1>9, <1>10, <1>11 DEF DownlinkInv

LEMMA PullRespKeepsInv ==
  ASSUME DownlinkInv, NEW d \in Downlinks, F!PullResp(d), ForwarderType'
  PROVE  DownlinkInv'
  <1>1. /\ UNCHANGED <<radio, radioSketch>> /\ threadDown = None /\ d \in resp
        /\ threadDown' = d /\ resp' = resp \ {d}
    BY DEF F!PullResp
  <1>2. PICK f \in Names : f = FileOf[d]
    BY ForwarderAssumption
  <1>3. /\ downfile' = [downfile EXCEPT ![f] = "empty"]
        /\ missed' = missed \cup ({downfile[f]} \cap Downlinks)
        /\ downfile \in [Names -> Downlinks \cup {None, "empty"}]
    BY <1>2 DEF F!PullResp, DownlinkInv, ForwarderType, FilesType
  <1>4. /\ \A n \in Names : downfile'[n] = IF n = f THEN "empty" ELSE downfile[n]
        /\ None \notin Downlinks /\ FileOf \in [Downlinks -> Names]
        /\ "empty" \notin Downlinks /\ "empty" # None
    BY <1>3, ForwarderAssumption
  <1>5. InItsFile'
    BY <1>1, <1>4 DEF DownlinkInv, InItsFile
  <1>6. BeingWritten'
    BY <1>1, <1>2, <1>4 DEF BeingWritten
  <1>7. EmittedIsOver'
    <2>1. \A i \in DOMAIN radio.emitted : radio.emitted[i] \in Downlinks
      BY DEF DownlinkInv, ForwarderType, FilesType, RadioType
    <2> QED
      BY <1>1, <1>4, <2>1 DEF DownlinkInv, EmittedIsOver
  <1>8. DownlinksKept'
    <2>1. ASSUME NEW x \in Downlinks \ (resp' \cup {d} \cup missed')
          PROVE  downfile'[FileOf[x]] = x \/ \E i \in DOMAIN radio.emitted : radio.emitted[i] = x
      <3>1. x \notin resp \cup {None} \cup missed /\ FileOf[x] \in Names
        BY <1>1, <1>3, <1>4
      <3>2. downfile[FileOf[x]] = x \/ \E i \in DOMAIN radio.emitted : radio.emitted[i] = x
        BY <1>1, <3>1 DEF DownlinkInv, DownlinksKept, F!DownlinksKept
      <3> QED
        BY <1>3, <1>4, <3>1, <3>2
    <2> QED
      BY <1>1, <2>1 DEF DownlinkInv, DownlinksKept, F!DownlinksKept
  <1> QED
    BY <1>5, <1>6, <1>7, <1>8 DEF DownlinkInv

LEMMA WriteDownKeepsInv ==
  ASSUME DownlinkInv, F!WriteDown, ForwarderType'
  PROVE  DownlinkInv'
  <1>1. PICK d \in Downlinks : d = threadDown
    BY DEF F!WriteDown, DownlinkInv, ForwarderType, ThreadsType
  <1>2. UNCHANGED <<radio, radioSketch, resp, missed>> /\ threadDown' = None
    BY DEF F!WriteDown
  <1>3. PICK f \in Names : f = FileOf[d]
    BY ForwarderAssumption
  <1>4. /\ downfile' = [downfile EXCEPT ![f] = IF @ = None THEN None ELSE d]
        /\ downfile \in [Names -> Downlinks \cup {None, "empty"}]
    BY <1>1, <1>3 DEF F!WriteDown, DownlinkInv, ForwarderType, FilesType
  <1>5. /\ None \notin Downlinks /\ FileOf \in [Downlinks -> Names]
        /\ "empty" \notin Downlinks /\ "empty" # None
    BY ForwarderAssumption
  <1>6. /\ d \notin resp /\ downfile[f] \in {"empty", None}
        /\ downfile[f] = None => d \in missed
    BY <1>1, <1>3, <1>5 DEF DownlinkInv, BeingWritten
  <1>7. \A n \in Names : downfile'[n] = IF n = f THEN IF downfile[f] = None THEN None ELSE d
                                        ELSE downfile[n]
    BY <1>4
  <1>8. InItsFile'
    BY <1>2, <1>3, <1>5, <1>6, <1>7 DEF DownlinkInv, InItsFile
  <1>9. BeingWritten'
    BY <1>2 DEF BeingWritten
  <1>10. EmittedIsOver'
    <2>1. \A i \in DOMAIN radio.emitted : radio.emitted[i] \in Downlinks /\ radio.emitted[i] # d
      BY <1>1 DEF DownlinkInv, EmittedIsOver, ForwarderType, FilesType, RadioType
    <2> QED
      BY <1>2, <1>5, <1>7, <2>1 DEF DownlinkInv, EmittedIsOver
  <1>11. DownlinksKept'
    <2>1. ASSUME NEW x \in Downlinks \ (resp \cup {None} \cup missed)
          PROVE  downfile'[FileOf[x]] = x \/ \E i \in DOMAIN radio.emitted : radio.emitted[i] = x
      <3>1. CASE x = d
        BY <1>3, <1>6, <1>7, <3>1
      <3>2. CASE x # d
        <4>1. downfile[FileOf[x]] = x \/ \E i \in DOMAIN radio.emitted : radio.emitted[i] = x
          BY <1>1, <3>2 DEF DownlinkInv, DownlinksKept, F!DownlinksKept
        <4> QED
          BY <1>5, <1>6, <1>7, <4>1
      <3> QED
        BY <3>1, <3>2
    <2> QED
      BY <1>2, <2>1 DEF DownlinkInv, DownlinksKept, F!DownlinksKept
  <1> QED
    BY <1>8, <1>9, <1>10, <1>11 DEF DownlinkInv

LEMMA DownlinkInvStep == DownlinkInv /\ (F!Next \/ UNCHANGED forwarder) => DownlinkInv'
  <1> SUFFICES ASSUME DownlinkInv, F!Next \/ UNCHANGED forwarder PROVE DownlinkInv'
    OBVIOUS
  <1>1. CASE UNCHANGED forwarder
    BY <1>1 DEF forwarder, DownlinkInv, ForwarderType, FilesType, ThreadsType, InItsFile,
                BeingWritten, EmittedIsOver, DownlinksKept, F!DownlinksKept
  <1>2. CASE F!Next
    <2>0. ForwarderType /\ ForwarderType'
      BY <1>2, ForwarderTypeStep DEF DownlinkInv
    <2>1. CASE F!Radio
      <3>1. /\ UNCHANGED <<downfile, threadDown, resp, missed>> /\ radio'.emitted = radio.emitted
            /\ radioSketch.at # "rm" /\ radioSketch'.at # "rm"
        BY <2>0, <2>1 DEF F!Radio, F!receivepacket, ForwarderType, FilesType, SketchType, RadioType
      <3> QED
        BY <2>0, <3>1, NoDownlink
    <2>2. ASSUME NEW from \in Printing, NEW to \in {"size=", "size", "open"},
                 NEW has \in {"rssi", "size=", "all"}, F!PrintCfg(from, to, has)
          PROVE  DownlinkInv'
      <3>1. /\ UNCHANGED <<downfile, threadDown, resp, missed>> /\ radio'.emitted = radio.emitted
            /\ radioSketch.at # "rm" /\ radioSketch'.at # "rm"
        BY <2>0, <2>2 DEF F!PrintCfg, F!Goto, Printing, ForwarderType, FilesType, SketchType
      <3> QED
        BY <2>0, <3>1, NoDownlink
    <2>3. CASE F!OpenData \/ F!PrintData \/ F!sendpacket \/ F!Exists
      <3>1. /\ UNCHANGED <<downfile, threadDown, resp, missed>> /\ radio'.emitted = radio.emitted
            /\ radioSketch.at # "rm" /\ radioSketch'.at # "rm"
        BY <2>0, <2>3 DEF F!OpenData, F!PrintData, F!sendpacket, F!Exists, F!Goto, F!files,
                          ForwarderType, FilesType, SketchType
      <3> QED
        BY <2>0, <3>1, NoDownlink
    <2>4. CASE F!thread_up \/ F!Main \/ F!sig_handler
      <3>1. UNCHANGED <<downfile, radioSketch, radio, threadDown, resp, missed>>
        BY <2>4 DEF F!thread_up, F!UpEnd, F!Fetch, F!Push, F!Lock, F!PushAck, F!Clear,
                    F!Main, F!Stat, F!WakeUp, F!Exit, F!sig_handler, F!files
      <3> QED
        BY <2>0, <3>1, NoDownlinkAtAll
    <2>5. CASE F!Server
      BY <2>0, <2>5, PullRespKeepsInv DEF F!Server
    <2>6. \/ F!PrintCfg("rssi", "size=", "rssi") \/ F!PrintCfg("size=", "size", "size=")
          \/ F!PrintCfg("size", "open", "all")
          => DownlinkInv'
      BY <2>2, Zenon DEF Printing
    <2> QED
      BY <1>2, <2>0, <2>1, <2>3, <2>4, <2>5, <2>6, EmitKeepsInv, RemoveKeepsInv,
         WriteDownKeepsInv DEF F!Next, F!Sketch
  <1> QED
    BY <1>1, <1>2

(* main.c, thread_down, and emitpacket of the sketch: whatever the file of  *)
(* its node is opened, filled, emitted and removed over, a downlink is      *)
(* emitted at most once, and waits in its file until then.                  *)
THEOREM DownlinksWait == BoxSpec => []DownlinksKept
  <1>1. BoxInit => DownlinkInv
    BY DownlinkInvInit DEF BoxInit
  <1>2. DownlinkInv /\ [BoxNext]_boxvars => DownlinkInv'
    BY DownlinkInvStep, ForwarderStep
  <1>3. DownlinkInv => DownlinksKept
    BY DEF DownlinkInv
  <1> QED
    BY <1>1, <1>2, <1>3, PTL DEF BoxSpec
-----------------------------------------------------------------------------
(* The TCP client.                                                          *)
ClientType == [at : {"read", "truncate", "send", "killed"}, j : T!File, up_data : Seq(SketchData)]

TcpType ==
    /\ file \in [T!File -> Seq(SketchData)] /\ written \in [T!File -> Seq(SketchData)]
    /\ client \in ClientType /\ Len(client.up_data) <= UP_DATA
    /\ server \in Seq(SketchData) /\ connected \in BOOLEAN
    /\ excused \in SUBSET SketchData

In(j, d) == \E a \in DOMAIN written[j] : written[j][a] = d

(* d was written to file j before e.                                        *)
Before(j, d, e) ==
    \E a, b \in DOMAIN written[j] : a < b /\ written[j][a] = d /\ written[j][b] = e

WrittenOnce ==
    \A j, k \in T!File : \A a \in DOMAIN written[j], b \in DOMAIN written[k] :
       written[j][a] = written[k][b] => j = k /\ a = b

(* What is in a file was written to it, and is there in that order.         *)
FileInOrder ==
    \A j \in T!File :
       /\ \A i \in DOMAIN file[j] : In(j, file[j][i])
       /\ \A i, k \in DOMAIN file[j] : i < k => Before(j, file[j][i], file[j][k])

(* What the client has read is the beginning of the file, until it has      *)
(* truncated it; then it is what was written before the rest.               *)
ReadInOrder ==
    /\ client.at = "truncate" =>
          /\ Len(client.up_data) <= Len(file[client.j])
          /\ \A i \in DOMAIN client.up_data : client.up_data[i] = file[client.j][i]
    /\ client.at = "send" =>
          /\ \A i \in DOMAIN client.up_data : In(client.j, client.up_data[i])
          /\ \A i, k \in DOMAIN client.up_data :
                i < k => Before(client.j, client.up_data[i], client.up_data[k])
          /\ \A i \in DOMAIN client.up_data, k \in DOMAIN file[client.j] :
                Before(client.j, client.up_data[i], file[client.j][k])

(* What the server has got of a file was written before what is left of it. *)
ServerInOrder ==
    \A m \in DOMAIN server :
       /\ \E j \in T!File : In(j, server[m])
       /\ \A j \in T!File : In(j, server[m]) =>
             /\ \A n \in DOMAIN server : m < n /\ In(j, server[n]) => Before(j, server[m], server[n])
             /\ \A i \in DOMAIN file[j] : Before(j, server[m], file[j][i])
             /\ client.at = "send" /\ client.j = j
                  => \A i \in DOMAIN client.up_data : Before(j, server[m], client.up_data[i])

(* The third part of InOrderOnce.                                           *)
NothingElseLost ==
    \A j \in T!File : \A d \in T!Elements(written[j]) \ excused :
       \/ d \in T!Elements(server)
       \/ d \in T!Elements(file[j])
       \/ client.j = j /\ client.at = "send" /\ d \in T!Elements(client.up_data)

ClientInv ==
    TcpType /\ WrittenOnce /\ FileInOrder /\ ReadInOrder /\ ServerInOrder /\ NothingElseLost

LEMMA TcpTypes == TcpType => T!TypeOK
  BY DEF TcpType, ClientType, T!TypeOK

(* What is known of the client, field by field.                             *)
LEMMA ClientFacts ==
  ASSUME TcpType
  PROVE  /\ client.j \in T!File /\ client.up_data \in Seq(SketchData)
         /\ file[client.j] \in Seq(SketchData) /\ written[client.j] \in Seq(SketchData)
  <1>1. client.j \in T!File /\ client.up_data \in Seq(SketchData)
    BY Zenon DEF TcpType, ClientType
  <1> QED
    BY <1>1 DEF TcpType

LEMMA ClientInvInit == T!Init => ClientInv
  <1> SUFFICES ASSUME T!Init PROVE ClientInv
    OBVIOUS
  <1>1. /\ client.at = "read" /\ client.j = 1 /\ client.up_data = <<>>
        /\ server = <<>> /\ \A j \in T!File : file[j] = <<>> /\ written[j] = <<>>
    BY DEF T!Init
  <1>2. TcpType
    <2>1. 1 \in T!File
      BY DataAssumption DEF T!File
    <2>2. client \in ClientType
      BY <2>1 DEF T!Init, ClientType
    <2> QED
      BY <1>1, <2>2, DataAssumption DEF T!Init, TcpType
  <1> QED
    BY <1>1, <1>2 DEF ClientInv, WrittenOnce, FileInOrder, ReadInOrder, ServerInOrder,
                      NothingElseLost, T!Elements

LEMMA OrderStays ==
  ASSUME UNCHANGED written
  PROVE  /\ \A j, d : In(j, d)' <=> In(j, d)
         /\ \A j, d, e : Before(j, d, e)' <=> Before(j, d, e)
  BY DEF In, Before

LEMMA ReadKeepsInv ==
  ASSUME ClientInv, T!Read
  PROVE  ClientInv'
  <1> DEFINE q == file[client.j]
             n == IF Len(q) < UP_DATA THEN Len(q) ELSE UP_DATA
  <1>0. TcpType
    BY DEF ClientInv
  <1>1. /\ client.j \in T!File /\ q \in Seq(SketchData)
        /\ client.at = "read" /\ client' = [client EXCEPT !.at = "truncate", !.up_data = SubSeq(q, 1, n)]
        /\ UNCHANGED <<file, server, connected, written, excused>>
    BY <1>0, ClientFacts DEF T!Read
  <1> HIDE DEF q
  <1>2. n \in Nat /\ n <= Len(q) /\ n <= UP_DATA
    BY <1>1, DataAssumption
  <1> HIDE DEF n
  <1>3. PICK u \in Seq(SketchData) : u = SubSeq(q, 1, n)
    <2>1. SubSeq(q, 1, n) \in Seq(SketchData)
      BY <1>1, <1>2
    <2> QED
      BY <2>1
  <1>4. Len(u) = n /\ DOMAIN u = 1 .. n /\ \A i \in 1 .. n : u[i] = q[i]
    BY <1>1, <1>2, <1>3
  <1>5. /\ client' \in ClientType /\ client'.at = "truncate" /\ client'.j = client.j
        /\ client'.up_data = u
    BY <1>0, <1>1, <1>3, Zenon DEF TcpType, ClientType
  <1>6. TcpType'
    BY <1>0, <1>1, <1>2, <1>4, <1>5 DEF TcpType
  <1>7. WrittenOnce' /\ FileInOrder'
    BY <1>1 DEF ClientInv, WrittenOnce, FileInOrder, In, Before
  <1>8. ReadInOrder'
    BY <1>1, <1>2, <1>4, <1>5 DEF ReadInOrder, q
  <1>9. ServerInOrder'
    BY <1>1, <1>5 DEF ClientInv, ServerInOrder, In, Before
  <1>10. NothingElseLost'
    BY <1>1, <1>5 DEF ClientInv, NothingElseLost
  <1> QED
    BY <1>6, <1>7, <1>8, <1>9, <1>10 DEF ClientInv

LEMMA TruncateKeepsInv ==
  ASSUME ClientInv, T!Truncate
  PROVE  ClientInv'
  <1> DEFINE q == file[client.j]
             u == client.up_data
  <1>0. TcpType
    BY DEF ClientInv
  <1>1. /\ client.j \in T!File /\ q \in Seq(SketchData) /\ u \in Seq(SketchData)
        /\ client.at = "truncate" /\ client' = [client EXCEPT !.at = "send"]
        /\ file' = [file EXCEPT ![client.j] = <<>>]
        /\ excused' = excused \cup (T!Elements(q) \ T!Elements(u))
        /\ UNCHANGED <<server, connected, written>>
    BY <1>0, ClientFacts DEF T!Truncate
  <1>2. Len(u) <= Len(q) /\ \A i \in DOMAIN u : u[i] = q[i]
    BY <1>1 DEF ClientInv, ReadInOrder
  <1>3. DOMAIN u = 1 .. Len(u) /\ DOMAIN q = 1 .. Len(q) /\ Len(u) \in Nat /\ Len(q) \in Nat
    BY <1>1
  <1>4. \A i \in DOMAIN u : i \in DOMAIN q
    BY <1>2, <1>3
  <1> HIDE DEF q, u
  <1>5. /\ client' \in ClientType /\ client'.at = "send" /\ client'.j = client.j
        /\ client'.up_data = u
    BY <1>0, <1>1, Zenon DEF TcpType, ClientType, u
  <1>6. /\ file' \in [T!File -> Seq(SketchData)]
        /\ \A j \in T!File : file'[j] = IF j = client.j THEN <<>> ELSE file[j]
    BY <1>0, <1>1 DEF TcpType
  <1>7. TcpType'
    <2>1. excused' \in SUBSET SketchData
      BY <1>0, <1>1 DEF TcpType, T!Elements
    <2> QED
      BY <1>0, <1>1, <1>5, <1>6, <2>1 DEF TcpType, u
  <1>8. WrittenOnce' /\ FileInOrder'
    BY <1>1, <1>6 DEF ClientInv, WrittenOnce, FileInOrder, In, Before
  <1>9. ReadInOrder'
    <2>1. /\ \A i \in DOMAIN u : In(client.j, u[i])
          /\ \A i, k \in DOMAIN u : i < k => Before(client.j, u[i], u[k])
      BY <1>1, <1>2, <1>4 DEF ClientInv, FileInOrder, q
    <2> QED
      BY <1>1, <1>5, <1>6, <2>1 DEF ReadInOrder, In, Before
  <1>10. ServerInOrder'
    <2>1. ASSUME NEW m \in DOMAIN server, In(client.j, server[m]), NEW i \in DOMAIN u
          PROVE  Before(client.j, server[m], u[i])
      BY <1>1, <1>2, <1>4, <2>1 DEF ClientInv, ServerInOrder, q
    <2> QED
      BY <1>1, <1>5, <1>6, <2>1, OrderStays DEF ClientInv, ServerInOrder
  <1>11. NothingElseLost'
    BY <1>1, <1>5, <1>6 DEF ClientInv, NothingElseLost, T!Elements, q
  <1> QED
    BY <1>7, <1>8, <1>9, <1>10, <1>11 DEF ClientInv

(* What the next two lemmas need of concatenation and of Append.            *)
LEMMA Concatenation ==
  ASSUME NEW D, NEW p \in Seq(D), NEW q \in Seq(D)
  PROVE  /\ p \o q \in Seq(D) /\ DOMAIN p = 1 .. Len(p) /\ DOMAIN q = 1 .. Len(q)
         /\ DOMAIN (p \o q) = 1 .. Len(p) + Len(q)
         /\ Len(p) \in Nat /\ Len(q) \in Nat
         /\ \A i \in 1 .. Len(p) : (p \o q)[i] = p[i]
         /\ \A i \in 1 .. Len(q) : (p \o q)[Len(p) + i] = q[i]
  <1>1. /\ Len(p) \in Nat /\ Len(q) \in Nat /\ DOMAIN p = 1 .. Len(p) /\ DOMAIN q = 1 .. Len(q)
    OBVIOUS
  <1>2. /\ p \o q \in Seq(D) /\ Len(p \o q) = Len(p) + Len(q)
        /\ \A i \in 1 .. Len(p) + Len(q) :
              (p \o q)[i] = IF i <= Len(p) THEN p[i] ELSE q[i - Len(p)]
    BY ConcatProperties
  <1>3. DOMAIN (p \o q) = 1 .. Len(p) + Len(q)
    BY <1>2
  <1>4. ASSUME NEW i \in 1 .. Len(q) PROVE (p \o q)[Len(p) + i] = q[i]
    <2>1. Len(p) + i \in 1 .. Len(p) + Len(q) /\ ~(Len(p) + i <= Len(p)) /\ (Len(p) + i) - Len(p) = i
      BY <1>1
    <2> QED
      BY <1>2, <2>1
  <1>5. ASSUME NEW i \in 1 .. Len(p) PROVE (p \o q)[i] = p[i]
    <2>1. i \in 1 .. Len(p) + Len(q) /\ i <= Len(p)
      BY <1>1
    <2> QED
      BY <1>2, <2>1
  <1> QED
    BY <1>1, <1>2, <1>3, <1>4, <1>5

LEMMA InElements == \A q, d : d \in T!Elements(q) <=> \E i \in DOMAIN q : q[i] = d
  BY DEF T!Elements

LEMMA Appending ==
  ASSUME NEW D, NEW q \in Seq(D), NEW d \in D
  PROVE  /\ Append(q, d) \in Seq(D) /\ Len(q) \in Nat
         /\ DOMAIN q = 1 .. Len(q) /\ DOMAIN Append(q, d) = 1 .. Len(q) + 1
         /\ Len(Append(q, d)) = Len(q) + 1
         /\ \A i \in 1 .. Len(q) : Append(q, d)[i] = q[i]
         /\ Append(q, d)[Len(q) + 1] = d
  OBVIOUS

(* What is in order goes to the end of what the server has.                 *)
LEMMA ServerGrows ==
  ASSUME ClientInv, client.at = "send", server' = server \o client.up_data,
         UNCHANGED <<file, written>>, client'.at # "send"
  PROVE  /\ ServerInOrder'
         /\ \A d : d \in T!Elements(server')
                     <=> d \in T!Elements(server) \/ d \in T!Elements(client.up_data)
  <1> PICK u \in Seq(SketchData) : u = client.up_data
    BY ClientFacts DEF ClientInv
  <1> PICK c \in T!File : c = client.j
    BY ClientFacts DEF ClientInv
  <1>1. server \in Seq(SketchData)
    BY DEF ClientInv, TcpType
  <1> PICK s \in Seq(SketchData) : s = server \o u
    BY <1>1, Concatenation
  <1> DEFINE L == Len(server)
  <1>2. /\ DOMAIN server = 1 .. L /\ DOMAIN u = 1 .. Len(u) /\ L \in Nat /\ Len(u) \in Nat
        /\ DOMAIN s = 1 .. L + Len(u)
        /\ \A i \in 1 .. L : s[i] = server[i]
        /\ \A i \in 1 .. Len(u) : s[L + i] = u[i]
    BY <1>1, Concatenation
  <1> HIDE DEF L
  <1>3. \A m \in DOMAIN s : m \in 1 .. L \/ \E i \in 1 .. Len(u) : m = L + i
    <2> SUFFICES ASSUME NEW m \in DOMAIN s, ~(m \in 1 .. L)
                 PROVE  \E i \in 1 .. Len(u) : m = L + i
      OBVIOUS
    <2>1. m - L \in 1 .. Len(u) /\ m = L + (m - L)
      BY <1>2
    <2> QED
      BY <2>1
  <1>4. /\ \A i \in 1 .. Len(u) : In(c, u[i])
        /\ \A i, k \in 1 .. Len(u) : i < k => Before(c, u[i], u[k])
        /\ \A i \in 1 .. Len(u), k \in DOMAIN file[c] : Before(c, u[i], file[c][k])
    BY <1>2 DEF ClientInv, ReadInOrder
  <1>5. ASSUME NEW j \in T!File, NEW i \in 1 .. Len(u), In(j, u[i]) PROVE j = c
    BY <1>4, <1>5 DEF ClientInv, WrittenOnce, In
  <1>6. ASSUME NEW m \in DOMAIN s
        PROVE  /\ \E j \in T!File : In(j, s[m])
               /\ \A j \in T!File : In(j, s[m]) =>
                     /\ \A n \in DOMAIN s : m < n /\ In(j, s[n]) => Before(j, s[m], s[n])
                     /\ \A i \in DOMAIN file[j] : Before(j, s[m], file[j][i])
    <2>1. CASE m \in 1 .. L
      <3>1. s[m] = server[m] /\ m \in DOMAIN server
        BY <1>2, <2>1
      <3>2. ASSUME NEW j \in T!File, In(j, s[m]), NEW n \in DOMAIN s, m < n, In(j, s[n])
            PROVE  Before(j, s[m], s[n])
        <4>1. CASE n \in 1 .. L
          BY <1>2, <3>1, <3>2, <4>1 DEF ClientInv, ServerInOrder
        <4>2. ASSUME NEW i \in 1 .. Len(u), n = L + i PROVE Before(j, s[m], s[n])
          <5>1. s[n] = u[i] /\ j = c
            BY <1>2, <1>5, <3>2, <4>2
          <5> QED
            BY <1>2, <3>1, <3>2, <5>1 DEF ClientInv, ServerInOrder
        <4> QED
          BY <1>3, <4>1, <4>2
      <3> QED
        BY <3>1, <3>2 DEF ClientInv, ServerInOrder
    <2>2. ASSUME NEW k \in 1 .. Len(u), m = L + k
          PROVE  /\ \E j \in T!File : In(j, s[m])
                 /\ \A j \in T!File : In(j, s[m]) =>
                       /\ \A n \in DOMAIN s : m < n /\ In(j, s[n]) => Before(j, s[m], s[n])
                       /\ \A i \in DOMAIN file[j] : Before(j, s[m], file[j][i])
      <3>1. s[m] = u[k]
        BY <1>2, <2>2
      <3>2. ASSUME NEW n \in DOMAIN s, m < n PROVE Before(c, s[m], s[n])
        <4>1. ~(n \in 1 .. L)
          BY <1>2, <2>2, <3>2
        <4>2. PICK i \in 1 .. Len(u) : n = L + i
          BY <1>3, <4>1
        <4>3. k < i
          BY <1>2, <2>2, <3>2, <4>2
        <4> QED
          BY <1>2, <1>4, <3>1, <4>2, <4>3
      <3> QED
        BY <1>4, <1>5, <3>1, <3>2
    <2> QED
      BY <1>3, <2>1, <2>2
  <1>7. ServerInOrder'
    BY <1>6, OrderStays DEF ServerInOrder
  <1>8. ASSUME NEW d
        PROVE  d \in T!Elements(s) <=> d \in T!Elements(server) \/ d \in T!Elements(u)
    <2>1. \A i \in 1 .. L : i \in DOMAIN s
      BY <1>2
    <2>2. \A i \in 1 .. Len(u) : L + i \in DOMAIN s
      BY <1>2
    <2>3. (\E i \in DOMAIN s : s[i] = d)
            <=> (\E i \in DOMAIN server : server[i] = d) \/ (\E i \in DOMAIN u : u[i] = d)
      <3>1. ASSUME NEW m \in DOMAIN s, s[m] = d
            PROVE  (\E i \in DOMAIN server : server[i] = d) \/ (\E i \in DOMAIN u : u[i] = d)
        <4>1. CASE m \in 1 .. L
          BY <1>2, <3>1, <4>1
        <4>2. ASSUME NEW i \in 1 .. Len(u), m = L + i PROVE \E k \in DOMAIN u : u[k] = d
          BY <1>2, <3>1, <4>2
        <4> QED
          BY <1>3, <4>1, <4>2
      <3>2. ASSUME NEW i \in DOMAIN server, server[i] = d PROVE \E k \in DOMAIN s : s[k] = d
        BY <1>2, <2>1, <3>2
      <3>3. ASSUME NEW i \in DOMAIN u, u[i] = d PROVE \E k \in DOMAIN s : s[k] = d
        BY <1>2, <2>2, <3>3
      <3> QED
        BY <3>1, <3>2, <3>3
    <2>4. /\ d \in T!Elements(s) <=> \E i \in DOMAIN s : s[i] = d
          /\ d \in T!Elements(server) <=> \E i \in DOMAIN server : server[i] = d
          /\ d \in T!Elements(u) <=> \E i \in DOMAIN u : u[i] = d
      BY InElements
    <2> QED
      BY <2>3, <2>4
  <1> QED
    BY <1>7, <1>8

LEMMA SendKeepsInv ==
  ASSUME ClientInv, T!Send
  PROVE  ClientInv'
  <1>0. TcpType
    BY DEF ClientInv
  <1>1. UNCHANGED <<file, connected, written>> /\ client.at = "send"
    BY DEF T!Send
  <1>2. PICK j \in T!File : j = (client.j % FILES) + 1
    BY <1>0, ClientFacts, DataAssumption DEF T!File
  <1>3. PICK at \in {"read", "killed"} : client' = [client EXCEPT !.at = at, !.j = j]
    BY <1>2 DEF T!Send
  <1>4. /\ client' \in ClientType /\ client'.at = at /\ client'.up_data = client.up_data
    BY <1>0, <1>3, Zenon DEF TcpType, ClientType
  <1>5. /\ client'.at # "send" /\ client'.at # "truncate"
    BY <1>4
  <1>6. WrittenOnce' /\ FileInOrder'
    BY <1>1 DEF ClientInv, WrittenOnce, FileInOrder, In, Before
  <1>7. ReadInOrder'
    BY <1>5 DEF ReadInOrder
  <1>8. CASE server' = server \o client.up_data /\ UNCHANGED excused
    <2>1. server' \in Seq(SketchData)
      BY <1>0, <1>8, ClientFacts, Concatenation DEF TcpType
    <2>2. TcpType'
      BY <1>0, <1>1, <1>4, <1>8, <2>1 DEF TcpType
    <2>3. /\ ServerInOrder'
          /\ \A d : d \in T!Elements(server')
                      <=> d \in T!Elements(server) \/ d \in T!Elements(client.up_data)
      BY <1>1, <1>5, <1>8, ServerGrows
    <2>4. NothingElseLost'
      BY <1>1, <1>8, <2>3 DEF ClientInv, NothingElseLost
    <2> QED
      BY <1>6, <1>7, <2>2, <2>3, <2>4 DEF ClientInv
  <1>9. CASE UNCHANGED server /\ excused' = excused \cup T!Elements(client.up_data)
    <2>1. excused' \in SUBSET SketchData
      BY <1>0, <1>9, ClientFacts DEF TcpType, T!Elements
    <2>2. TcpType'
      BY <1>0, <1>1, <1>4, <1>9, <2>1 DEF TcpType
    <2>3. ServerInOrder'
      BY <1>1, <1>5, <1>9, OrderStays DEF ClientInv, ServerInOrder
    <2>4. NothingElseLost'
      BY <1>1, <1>9 DEF ClientInv, NothingElseLost, T!Elements
    <2> QED
      BY <1>6, <1>7, <2>2, <2>3, <2>4 DEF ClientInv
  <1> QED
    BY <1>8, <1>9 DEF T!Send

(* What Write does to what was written.                                     *)
LEMMA WriteFacts ==
  ASSUME TcpType, NEW j \in T!File, NEW d \in SketchData, T!Write(j, d)
  PROVE  /\ \A k \in T!File : ~ In(k, d)
         /\ \A k \in T!File : \A x : In(k, x)' <=> In(k, x) \/ (k = j /\ x = d)
         /\ \A k \in T!File : \A x, y : Before(k, x, y) => Before(k, x, y)'
         /\ \A x : In(j, x) => Before(j, x, d)'
         /\ \A k \in T!File \ {j} : file'[k] = file[k] /\ written'[k] = written[k]
         /\ file'[j] = Append(file[j], d) /\ written'[j] = Append(written[j], d)
         /\ file' \in [T!File -> Seq(SketchData)] /\ written' \in [T!File -> Seq(SketchData)]
  <1>1. \A k \in T!File : ~ In(k, d)
    BY DEF T!Write, T!Elements, In
  <1>2. /\ \A k \in T!File \ {j} : file'[k] = file[k] /\ written'[k] = written[k]
        /\ file'[j] = Append(file[j], d) /\ written'[j] = Append(written[j], d)
        /\ file[j] \in Seq(SketchData) /\ written[j] \in Seq(SketchData)
    BY DEF T!Write, TcpType
  <1>3. file' \in [T!File -> Seq(SketchData)] /\ written' \in [T!File -> Seq(SketchData)]
    <2>1. Append(file[j], d) \in Seq(SketchData) /\ Append(written[j], d) \in Seq(SketchData)
      BY <1>2, Appending
    <2> QED
      BY <2>1, Zenon DEF T!Write, TcpType
  <1> PICK v \in Seq(SketchData) : v = written[j]
    BY <1>2
  <1> PICK w \in Seq(SketchData) : w = Append(v, d)
    BY Appending
  <1>4. /\ DOMAIN v = 1 .. Len(v) /\ DOMAIN w = 1 .. Len(v) + 1 /\ Len(v) \in Nat
        /\ \A i \in 1 .. Len(v) : w[i] = v[i]
        /\ w[Len(v) + 1] = d
    BY Appending
  <1>5. written'[j] = w /\ written[j] = v
    BY <1>2
  <1>6. ASSUME NEW k \in T!File, k # j
        PROVE  /\ \A x : In(k, x)' <=> In(k, x)
               /\ \A x, y : Before(k, x, y) => Before(k, x, y)'
    BY <1>2, <1>6 DEF In, Before
  <1>7. \A x : In(j, x)' <=> In(j, x) \/ x = d
    <2>1. Len(v) + 1 \in 1 .. Len(v) + 1
      BY <1>4
    <2>2. \A x : In(j, x)' <=> \E i \in 1 .. Len(v) + 1 : w[i] = x
      BY <1>4, <1>5 DEF In
    <2>3. \A x : In(j, x) <=> \E i \in 1 .. Len(v) : v[i] = x
      BY <1>4, <1>5 DEF In
    <2>4. \A i \in 1 .. Len(v) + 1 : i \in 1 .. Len(v) \/ i = Len(v) + 1
      BY <1>4
    <2>5. \A i \in 1 .. Len(v) : i \in 1 .. Len(v) + 1
      BY <1>4
    <2> QED
      BY <1>4, <2>1, <2>2, <2>3, <2>4, <2>5
  <1>8. \A x, y : Before(j, x, y) => Before(j, x, y)'
    <2>1. \A i \in 1 .. Len(v) : i \in 1 .. Len(v) + 1
      BY <1>4
    <2> QED
      BY <1>4, <1>5, <2>1 DEF Before
  <1>9. ASSUME NEW x, In(j, x) PROVE Before(j, x, d)'
    <2>1. PICK i \in 1 .. Len(v) : v[i] = x
      BY <1>4, <1>5, <1>9 DEF In
    <2>2. i \in 1 .. Len(v) + 1 /\ Len(v) + 1 \in 1 .. Len(v) + 1 /\ i < Len(v) + 1
      BY <1>4
    <2> QED
      BY <1>4, <1>5, <2>1, <2>2 DEF Before
  <1>10. \A k \in T!File : \A x : In(k, x)' <=> In(k, x) \/ (k = j /\ x = d)
    BY <1>6, <1>7
  <1>11. \A k \in T!File : \A x, y : Before(k, x, y) => Before(k, x, y)'
    BY <1>6, <1>8
  <1> QED
    BY <1>1, <1>2, <1>3, <1>9, <1>10, <1>11

LEMMA WriteKeepsInv ==
  ASSUME ClientInv, NEW j \in T!File, NEW d \in SketchData, T!Write(j, d)
  PROVE  ClientInv'
  <1>0. TcpType
    BY DEF ClientInv
  <1>1. UNCHANGED <<client, server, connected, excused>>
    BY DEF T!Write
  <1>2. /\ \A k \in T!File : ~ In(k, d)
        /\ \A k \in T!File : \A x : In(k, x)' <=> In(k, x) \/ (k = j /\ x = d)
        /\ \A k \in T!File : \A x, y : Before(k, x, y) => Before(k, x, y)'
        /\ \A x : In(j, x) => Before(j, x, d)'
        /\ \A k \in T!File \ {j} : file'[k] = file[k] /\ written'[k] = written[k]
        /\ file'[j] = Append(file[j], d) /\ written'[j] = Append(written[j], d)
        /\ file' \in [T!File -> Seq(SketchData)] /\ written' \in [T!File -> Seq(SketchData)]
    BY <1>0, WriteFacts
  <1> PICK q \in Seq(SketchData) : q = file[j]
    BY <1>0 DEF TcpType
  <1> PICK v \in Seq(SketchData) : v = written[j]
    BY <1>0 DEF TcpType
  <1>3. /\ file[j] = q /\ DOMAIN q = 1 .. Len(q) /\ Len(q) \in Nat
        /\ DOMAIN file'[j] = 1 .. Len(q) + 1 /\ Len(file'[j]) = Len(q) + 1
        /\ \A i \in 1 .. Len(q) : file'[j][i] = q[i]
        /\ file'[j][Len(q) + 1] = d
    BY <1>2, Appending
  <1>4. /\ written[j] = v /\ DOMAIN v = 1 .. Len(v) /\ Len(v) \in Nat
        /\ DOMAIN written'[j] = 1 .. Len(v) + 1
        /\ \A i \in 1 .. Len(v) : written'[j][i] = v[i]
        /\ written'[j][Len(v) + 1] = d
    BY <1>2, Appending
  <1>5. TcpType'
    BY <1>0, <1>1, <1>2 DEF TcpType
  <1>6. WrittenOnce'
    <2>1. ASSUME NEW a \in 1 .. Len(v) + 1 PROVE a \in 1 .. Len(v) \/ a = Len(v) + 1
      BY <1>4
    <2>2. ASSUME NEW k \in T!File, NEW a \in DOMAIN written'[k]
          PROVE  \/ a \in DOMAIN written[k] /\ written'[k][a] = written[k][a]
                 \/ k = j /\ a = Len(v) + 1 /\ written'[k][a] = d
      BY <1>2, <1>4, <2>1, <2>2
    <2>3. \A k \in T!File : \A a \in DOMAIN written[k] : written[k][a] # d
      BY <1>2 DEF In
    <2>4. ASSUME NEW k \in T!File, NEW l \in T!File, NEW a \in DOMAIN written'[k],
                 NEW b \in DOMAIN written'[l], written'[k][a] = written'[l][b]
          PROVE  k = l /\ a = b
      BY <2>2, <2>3, <2>4 DEF ClientInv, WrittenOnce
    <2> QED
      BY <2>4 DEF WrittenOnce
  <1>7. ASSUME NEW k \in T!File, NEW i \in DOMAIN file'[k]
        PROVE  \/ i \in DOMAIN file[k] /\ file'[k][i] = file[k][i]
               \/ k = j /\ i = Len(q) + 1 /\ file'[k][i] = d
    BY <1>2, <1>3, <1>7
  <1>8. FileInOrder'
    <2>1. ASSUME NEW k \in T!File, NEW i \in DOMAIN file'[k], NEW x, file'[k][i] = x
          PROVE  In(k, x)'
      BY <1>2, <1>7, <2>1 DEF ClientInv, FileInOrder
    <2>2. ASSUME NEW k \in T!File, NEW i \in DOMAIN file'[k], NEW l \in DOMAIN file'[k], i < l,
                 NEW x, NEW y, file'[k][i] = x, file'[k][l] = y
          PROVE  Before(k, x, y)'
      <3>1. i \in DOMAIN file[k] /\ file[k][i] = x
        <4>1. CASE k = j
          <5>1. i \in 1 .. Len(q)
            BY <1>3, <2>2, <4>1
          <5> QED
            BY <1>3, <2>2, <4>1, <5>1
        <4> QED
          BY <1>2, <2>2, <4>1
      <3>2. CASE l \in DOMAIN file[k] /\ file[k][l] = y
        BY <1>2, <2>2, <3>1, <3>2 DEF ClientInv, FileInOrder
      <3>3. CASE k = j /\ y = d
        BY <1>2, <3>1, <3>3 DEF ClientInv, FileInOrder
      <3> QED
        BY <1>7, <2>2, <3>2, <3>3
    <2> QED
      BY <2>1, <2>2 DEF FileInOrder
  <1>9. ReadInOrder'
    <2> PICK u \in Seq(SketchData) : u = client.up_data
      BY <1>0, ClientFacts
    <2> PICK c \in T!File : c = client.j
      BY <1>0, ClientFacts
    <2>1. ASSUME client.at = "truncate"
          PROVE  Len(u) <= Len(file'[c]) /\ \A i \in DOMAIN u : u[i] = file'[c][i]
      <3>1. Len(u) <= Len(file[c]) /\ \A i \in DOMAIN u : u[i] = file[c][i]
        BY <2>1 DEF ClientInv, ReadInOrder
      <3>2. CASE c = j
        <4>1. \A i \in DOMAIN u : i \in 1 .. Len(q)
          BY <1>3, <3>1, <3>2
        <4> QED
          BY <1>3, <3>1, <3>2, <4>1
      <3> QED
        BY <1>2, <3>1, <3>2
    <2>2. ASSUME client.at = "send"
          PROVE  /\ \A i \in DOMAIN u : In(c, u[i])'
                 /\ \A i, k \in DOMAIN u : i < k => Before(c, u[i], u[k])'
                 /\ \A i \in DOMAIN u, k \in DOMAIN file'[c] : \A x :
                       file'[c][k] = x => Before(c, u[i], x)'
      <3>1. /\ \A i \in DOMAIN u : In(c, u[i])
            /\ \A i, k \in DOMAIN u : i < k => Before(c, u[i], u[k])
            /\ \A i \in DOMAIN u, k \in DOMAIN file[c] : Before(c, u[i], file[c][k])
        BY <2>2 DEF ClientInv, ReadInOrder
      <3>2. ASSUME NEW i \in DOMAIN u, NEW k \in DOMAIN file'[c], NEW x, file'[c][k] = x
            PROVE  Before(c, u[i], x)'
        <4>1. CASE k \in DOMAIN file[c] /\ file[c][k] = x
          BY <1>2, <3>1, <4>1
        <4>2. CASE c = j /\ x = d
          BY <1>2, <3>1, <4>2
        <4> QED
          BY <1>7, <3>2, <4>1, <4>2
      <3> QED
        BY <1>2, <3>1, <3>2
    <2> QED
      BY <1>1, <2>1, <2>2 DEF ReadInOrder
  <1>10. ServerInOrder'
    <2> PICK s \in Seq(SketchData) : s = server
      BY <1>0 DEF TcpType
    <2>1. \A m \in DOMAIN s : s[m] # d /\ \A k \in T!File : In(k, s[m])' <=> In(k, s[m])
      BY <1>2 DEF ClientInv, ServerInOrder
    <2>2. ASSUME NEW m \in DOMAIN s PROVE \E k \in T!File : In(k, s[m])'
      BY <2>1 DEF ClientInv, ServerInOrder
    <2>3. ASSUME NEW m \in DOMAIN s, NEW k \in T!File, In(k, s[m])'
          PROVE  /\ \A n \in DOMAIN s : m < n /\ In(k, s[n])' => Before(k, s[m], s[n])'
                 /\ \A i \in DOMAIN file'[k] : \A x : file'[k][i] = x => Before(k, s[m], x)'
                 /\ \A u : client.at = "send" /\ client.j = k /\ client.up_data = u
                      => \A i \in DOMAIN u : Before(k, s[m], u[i])'
      <3>1. In(k, s[m])
        BY <2>1, <2>3
      <3>2. /\ \A n \in DOMAIN s : m < n /\ In(k, s[n]) => Before(k, s[m], s[n])
            /\ \A i \in DOMAIN file[k] : Before(k, s[m], file[k][i])
            /\ \A u : client.at = "send" /\ client.j = k /\ client.up_data = u
                 => \A i \in DOMAIN u : Before(k, s[m], u[i])
        BY <3>1 DEF ClientInv, ServerInOrder
      <3>3. ASSUME NEW i \in DOMAIN file'[k], NEW x, file'[k][i] = x PROVE Before(k, s[m], x)'
        BY <1>2, <1>7, <3>1, <3>2, <3>3
      <3> QED
        BY <1>2, <2>1, <3>2, <3>3
    <2> QED
      BY <1>1, <2>2, <2>3 DEF ServerInOrder
  <1>11. NothingElseLost'
    <2>1. ASSUME NEW k \in T!File, NEW x, x \in T!Elements(file[k]) PROVE x \in T!Elements(file'[k])
      <3>1. PICK i \in DOMAIN file[k] : file[k][i] = x
        BY <2>1, InElements
      <3>2. i \in DOMAIN file'[k] /\ file'[k][i] = file[k][i]
        <4>1. CASE k = j
          <5>1. i \in 1 .. Len(q) /\ i \in 1 .. Len(q) + 1
            BY <1>3, <4>1
          <5> QED
            BY <1>3, <4>1, <5>1
        <4> QED
          BY <1>2, <4>1
      <3> QED
        BY <3>1, <3>2, InElements
    <2>2. d \in T!Elements(file'[j])
      <3>1. Len(q) + 1 \in DOMAIN file'[j]
        BY <1>3
      <3> QED
        BY <1>3, <3>1, InElements
    <2>3. ASSUME NEW k \in T!File, NEW x, x \in T!Elements(written'[k])
          PROVE  x \in T!Elements(written[k]) \/ (k = j /\ x = d)
      <3>1. In(k, x)'
        BY <2>3, InElements DEF In
      <3>2. In(k, x) => x \in T!Elements(written[k])
        BY InElements DEF In
      <3> QED
        BY <1>2, <3>1, <3>2
    <2> QED
      BY <1>1, <2>1, <2>2, <2>3 DEF ClientInv, NothingElseLost
  <1> QED
    BY <1>5, <1>6, <1>8, <1>9, <1>10, <1>11 DEF ClientInv

LEMMA ClientInvStep == ClientInv /\ (T!Next \/ UNCHANGED tcp) => ClientInv'
  <1>1. ASSUME ClientInv, UNCHANGED <<file, client, server, written, excused>>, connected' \in BOOLEAN
        PROVE  ClientInv'
    BY <1>1 DEF ClientInv, TcpType, WrittenOnce, FileInOrder, ReadInOrder, ServerInOrder,
                NothingElseLost, In, Before
  <1>2. T!Disconnect \/ UNCHANGED tcp
          => UNCHANGED <<file, client, server, written, excused>>
    BY DEF T!Disconnect, tcp
  <1>3. ClientInv /\ (T!Disconnect \/ UNCHANGED tcp) => connected' \in BOOLEAN
    BY DEF T!Disconnect, tcp, ClientInv, TcpType
  <1> QED
    BY <1>1, <1>2, <1>3, ReadKeepsInv, TruncateKeepsInv, SendKeepsInv, WriteKeepsInv DEF T!Next

LEMMA ClientInvGood == ClientInv => InOrderOnce
  <1> SUFFICES ASSUME ClientInv PROVE InOrderOnce
    OBVIOUS
  <1>1. server \in Seq(SketchData)
    BY DEF ClientInv, TcpType
  <1> PICK s \in Seq(SketchData) : s = server
    BY <1>1
  <1>2. DOMAIN s = 1 .. Len(s) /\ Len(s) \in Nat
    OBVIOUS
  <1>3. ASSUME NEW j \in T!File, NEW x, NEW y, Before(j, x, y),
               NEW a \in DOMAIN written[j], NEW b \in DOMAIN written[j],
               written[j][a] = x, written[j][b] = y
        PROVE  a < b
    <2>1. PICK a1, b1 \in DOMAIN written[j] : a1 < b1 /\ written[j][a1] = x /\ written[j][b1] = y
      BY <1>3 DEF Before
    <2>2. a1 = a /\ b1 = b
      BY <1>3, <2>1 DEF ClientInv, WrittenOnce
    <2> QED
      BY <2>1, <2>2
  <1>4. \A j \in T!File : DOMAIN written[j] \subseteq Int
    BY DEF ClientInv, TcpType
  <1>5. ASSUME NEW m \in DOMAIN s, NEW n \in DOMAIN s, m < n, NEW j \in T!File,
               In(j, s[m]), In(j, s[n])
        PROVE  Before(j, s[m], s[n])
    BY <1>5 DEF ClientInv, ServerInOrder
  <1>6. ASSUME NEW m \in DOMAIN s, NEW n \in DOMAIN s, m < n PROVE s[m] # s[n]
    <2> SUFFICES ASSUME s[m] = s[n] PROVE FALSE
      OBVIOUS
    <2>1. PICK j \in T!File : In(j, s[m])
      BY DEF ClientInv, ServerInOrder
    <2>2. PICK a \in DOMAIN written[j] : written[j][a] = s[m]
      BY <2>1 DEF In
    <2>3. a < a
      BY <1>3, <1>5, <1>6, <2>1, <2>2
    <2> QED
      BY <1>4, <2>3
  <1>7. \A m, n \in DOMAIN s : s[m] = s[n] => m = n
    BY <1>2, <1>6
  <1>8. ASSUME NEW j \in T!File, NEW a \in DOMAIN written[j], NEW b \in DOMAIN written[j],
               NEW m \in DOMAIN s, NEW n \in DOMAIN s, a < b, s[m] = written[j][a], s[n] = written[j][b]
        PROVE  m < n
    <2>1. In(j, s[m]) /\ In(j, s[n])
      BY <1>8 DEF In
    <2>2. CASE m = n
      <3>1. a = b
        BY <1>8, <2>2 DEF ClientInv, WrittenOnce
      <3> QED
        BY <1>4, <1>8, <3>1
    <2>3. CASE n < m
      <3>1. b < a
        BY <1>3, <1>5, <1>8, <2>1, <2>3
      <3> QED
        BY <1>4, <1>8, <3>1
    <2> QED
      BY <1>2, <2>2, <2>3
  <1>9. NothingElseLost
    BY DEF ClientInv
  <1> QED
    BY <1>7, <1>8, <1>9 DEF InOrderOnce, T!InOrderOnce, NothingElseLost

LEMMA TcpStep == [BoxNext]_boxvars => T!Next \/ UNCHANGED tcp
  BY DEF BoxNext, boxvars

(* tcp_client.c: whatever the sketch writes between the client's open, read *)
(* and truncation, the server gets the data of a file in order and once,    *)
(* and what it has not got is accounted for.                                *)
THEOREM DataInOrder == BoxSpec => []InOrderOnce
  <1>1. BoxInit => ClientInv
    BY ClientInvInit DEF BoxInit
  <1>2. ClientInv /\ [BoxNext]_boxvars => ClientInv'
    BY ClientInvStep, TcpStep
  <1>3. ClientInv => InOrderOnce
    BY ClientInvGood
  <1> QED
    BY <1>1, <1>2, <1>3, PTL DEF BoxSpec

-----------------------------------------------------------------------------
(* The streams: sequences of numbers that grow at the end and are taken     *)
(* from the beginning.                                                      *)
(* w is increasing, up to n at most.                                        *)
Rising(w, n) ==
    /\ \A i, j \in 1 .. Len(w) : i < j => w[i] < w[j]
    /\ \A i \in 1 .. Len(w) : w[i] <= n

Following(n, m) == [i \in 1 .. m |-> n + i]

LEMMA FollowingIs ==
  ASSUME NEW n \in Nat, NEW m \in Nat
  PROVE  Following(n, m) \in Seq(Nat) /\ Len(Following(n, m)) = m /\ \A i \in 1 .. m : Following(n, m)[i] = n + i
  <1>1. Following(n, m) \in [1 .. m -> Nat]
    BY DEF Following
  <1>2. \A i \in 1 .. m : Following(n, m)[i] = n + i
    BY DEF Following
  <1> QED
    BY <1>1, <1>2

LEMMA UptoIs ==
  ASSUME NEW n \in Nat
  PROVE  S!Upto(n) \in Seq(Nat) /\ Len(S!Upto(n)) = n /\ \A i \in 1 .. n : S!Upto(n)[i] = i
  <1>1. S!Upto(n) \in [1 .. n -> Nat]
    BY DEF S!Upto
  <1>2. \A i \in 1 .. n : S!Upto(n)[i] = i
    BY DEF S!Upto
  <1> QED
    BY <1>1, <1>2

LEMMA GrownUpto ==
  ASSUME NEW n \in Nat, NEW m \in Nat
  PROVE  S!Upto(n) \o Following(n, m) = S!Upto(n + m)
  <1>1. /\ S!Upto(n) \in Seq(Nat) /\ Len(S!Upto(n)) = n /\ \A i \in 1 .. n : S!Upto(n)[i] = i
        /\ n + m \in Nat
    BY UptoIs
  <1>2. S!Upto(n + m) \in Seq(Nat) /\ Len(S!Upto(n + m)) = n + m /\ \A i \in 1 .. n + m : S!Upto(n + m)[i] = i
    BY <1>1, UptoIs
  <1>3. Following(n, m) \in Seq(Nat) /\ Len(Following(n, m)) = m /\ \A i \in 1 .. m : Following(n, m)[i] = n + i
    BY FollowingIs
  <1> PICK u \in Seq(Nat), c \in Seq(Nat) : u = S!Upto(n) /\ c = Following(n, m)
    BY <1>1, <1>3
  <1>6. /\ u \o c \in Seq(Nat) /\ Len(u \o c) = Len(u) + Len(c)
        /\ \A i \in 1 .. Len(u) + Len(c) : (u \o c)[i] = IF i <= Len(u) THEN u[i] ELSE c[i - Len(u)]
    BY ConcatProperties
  <1>4. /\ S!Upto(n) \o Following(n, m) \in Seq(Nat) /\ Len(S!Upto(n) \o Following(n, m)) = n + m
        /\ \A i \in 1 .. n + m : (S!Upto(n) \o Following(n, m))[i] =
              IF i <= n THEN S!Upto(n)[i] ELSE Following(n, m)[i - n]
    BY <1>1, <1>3, <1>6
  <1>5. ASSUME NEW i \in 1 .. n + m PROVE (S!Upto(n) \o Following(n, m))[i] = i
    <2>1. CASE i <= n
      BY <1>1, <1>4, <2>1
    <2>2. CASE ~ (i <= n)
      <3>1. i - n \in 1 .. m /\ n + (i - n) = i
        BY <2>2
      <3> QED
        BY <1>3, <1>4, <2>2, <3>1
    <2> QED
      BY <2>1, <2>2
  <1> QED
    BY <1>2, <1>4, <1>5, SeqEqual

LEMMA GrownRising ==
  ASSUME NEW w \in Seq(Nat), NEW n \in Nat, NEW m \in Nat, Rising(w, n)
  PROVE  Rising(w \o Following(n, m), n + m)
  <1> DEFINE c == Following(n, m)
             v == w \o c
  <1>1. c \in Seq(Nat) /\ Len(c) = m /\ \A i \in 1 .. m : c[i] = n + i
    BY FollowingIs
  <1> HIDE DEF c
  <1>0. /\ v \in Seq(Nat) /\ Len(v) = Len(w) + Len(c)
        /\ \A i \in 1 .. Len(w) + Len(c) : v[i] = IF i <= Len(w) THEN w[i] ELSE c[i - Len(w)]
    BY <1>1, ConcatProperties
  <1> HIDE DEF v
  <1>2. /\ v \in Seq(Nat) /\ Len(v) = Len(w) + m
        /\ \A i \in 1 .. Len(w) + m : v[i] = IF i <= Len(w) THEN w[i] ELSE c[i - Len(w)]
    BY <1>0, <1>1
  <1>3. ASSUME NEW i \in 1 .. Len(v)
        PROVE  /\ i <= Len(w) => i \in 1 .. Len(w) /\ v[i] = w[i] /\ v[i] <= n
               /\ ~ (i <= Len(w)) => v[i] = n + (i - Len(w))
               /\ v[i] \in Nat
    <2>1. CASE i <= Len(w)
      BY <1>2, <2>1 DEF Rising
    <2>2. CASE ~ (i <= Len(w))
      <3>1. i - Len(w) \in 1 .. m
        BY <1>2, <2>2
      <3>2. c[i - Len(w)] = n + (i - Len(w))
        BY <1>1, <3>1
      <3> QED
        BY <1>2, <2>2, <3>2
    <2> QED
      BY <2>1, <2>2
  <1>4. ASSUME NEW i \in 1 .. Len(v), NEW j \in 1 .. Len(v), i < j PROVE v[i] < v[j]
    <2>1. CASE j <= Len(w)
      <3>1. i \in 1 .. Len(w) /\ j \in 1 .. Len(w) /\ v[i] = w[i] /\ v[j] = w[j]
        BY <1>3, <1>4, <2>1
      <3> QED
        BY <1>4, <3>1 DEF Rising
    <2>2. CASE ~ (j <= Len(w))
      BY <1>2, <1>3, <1>4, <2>2
    <2> QED
      BY <2>1, <2>2
  <1>5. ASSUME NEW i \in 1 .. Len(v) PROVE v[i] <= n + m
    BY <1>2, <1>3
  <1>6. Rising(v, n + m)
    BY <1>4, <1>5 DEF Rising
  <1> QED
    BY <1>6 DEF v, c

LEMMA DroppedOne ==
  ASSUME NEW a \in Seq(Nat), NEW b \in Seq(Nat), NEW x \in Nat, NEW n, Rising((a \o <<x>>) \o b, n)
  PROVE  Rising(a \o b, n)
  <1> DEFINE o == <<x>>
             w == (a \o o) \o b
             v == a \o b
             To(i) == IF i <= Len(a) THEN i ELSE i + 1
  <1>1. o \in Seq(Nat) /\ Len(o) = 1
    OBVIOUS
  <1>2. /\ a \o o \in Seq(Nat) /\ Len(a \o o) = Len(a) + 1
        /\ \A i \in 1 .. Len(a) + 1 : (a \o o)[i] = IF i <= Len(a) THEN a[i] ELSE o[i - Len(a)]
    BY <1>1, ConcatProperties
  <1>3. /\ w \in Seq(Nat) /\ Len(w) = Len(a) + 1 + Len(b)
        /\ \A i \in 1 .. Len(a) + 1 + Len(b) :
              w[i] = IF i <= Len(a) + 1 THEN (a \o o)[i] ELSE b[i - (Len(a) + 1)]
    BY <1>2, ConcatProperties
  <1>4. /\ v \in Seq(Nat) /\ Len(v) = Len(a) + Len(b)
        /\ \A i \in 1 .. Len(a) + Len(b) : v[i] = IF i <= Len(a) THEN a[i] ELSE b[i - Len(a)]
    BY ConcatProperties
  <1>5. Rising(w, n)
    OBVIOUS
  <1> HIDE DEF o, w, v
  <1>6. ASSUME NEW i \in 1 .. Len(v) PROVE To(i) \in 1 .. Len(w) /\ v[i] = w[To(i)]
    <2>1. CASE i <= Len(a)
      <3>1. i \in 1 .. Len(a) + 1 /\ i \in 1 .. Len(a) + 1 + Len(b) /\ To(i) = i /\ i <= Len(a) + 1
        BY <1>4, <2>1
      <3>2. w[i] = (a \o o)[i] /\ (a \o o)[i] = a[i]
        BY <1>2, <1>3, <2>1, <3>1
      <3>3. v[i] = a[i]
        BY <1>4, <2>1
      <3> QED
        BY <1>3, <3>1, <3>2, <3>3
    <2>2. CASE ~ (i <= Len(a))
      <3>1. (i + 1) - (Len(a) + 1) = i - Len(a) /\ ~ (i + 1 <= Len(a) + 1)
            /\ i + 1 \in 1 .. Len(a) + 1 + Len(b)
        BY <1>4, <2>2
      <3> QED
        BY <1>3, <1>4, <2>2, <3>1
    <2> QED
      BY <2>1, <2>2
  <1>7. ASSUME NEW i \in 1 .. Len(v), NEW j \in 1 .. Len(v), i < j PROVE v[i] < v[j]
    <2>1. To(i) < To(j)
      BY <1>7
    <2> QED
      BY <1>5, <1>6, <2>1 DEF Rising
  <1>8. ASSUME NEW i \in 1 .. Len(v) PROVE v[i] <= n
    BY <1>5, <1>6, <1>8 DEF Rising
  <1>9. Rising(v, n)
    BY <1>7, <1>8 DEF Rising
  <1> QED
    BY <1>9 DEF v

LEMMA Beginning ==
  ASSUME NEW a \in Seq(Nat), NEW b \in Seq(Nat), NEW n \in Nat
  PROVE  /\ a \o b = S!Upto(n) => a = S!Upto(Len(a))
         /\ Rising(a \o b, n) => S!Increasing(a)
  <1>1. /\ a \o b \in Seq(Nat) /\ Len(a \o b) = Len(a) + Len(b)
        /\ \A i \in 1 .. Len(a) + Len(b) : (a \o b)[i] = IF i <= Len(a) THEN a[i] ELSE b[i - Len(a)]
    BY ConcatProperties
  <1>2. \A i \in 1 .. Len(a) : i \in 1 .. Len(a \o b) /\ (a \o b)[i] = a[i]
    BY <1>1
  <1>3. ASSUME a \o b = S!Upto(n) PROVE a = S!Upto(Len(a))
    <2>1. /\ Len(a) \in Nat
          /\ S!Upto(n) \in Seq(Nat) /\ Len(S!Upto(n)) = n /\ \A i \in 1 .. n : S!Upto(n)[i] = i
      BY UptoIs
    <2>2. /\ S!Upto(Len(a)) \in Seq(Nat) /\ Len(S!Upto(Len(a))) = Len(a)
          /\ \A i \in 1 .. Len(a) : S!Upto(Len(a))[i] = i
      BY <2>1, UptoIs
    <2>3. \A i \in 1 .. Len(a) : a[i] = i
      BY <1>2, <1>3, <2>1
    <2> QED
      BY <2>2, <2>3, SeqEqual
  <1>4. ASSUME Rising(a \o b, n) PROVE S!Increasing(a)
    <2>1. DOMAIN a = 1 .. Len(a)
      OBVIOUS
    <2>2. ASSUME NEW i \in 1 .. Len(a), NEW j \in 1 .. Len(a), i < j PROVE a[i] < a[j]
      BY <1>2, <1>4, <2>2 DEF Rising
    <2> QED
      BY <2>1, <2>2 DEF S!Increasing
  <1> QED
    BY <1>3, <1>4

LEMMA ConcatAssociates ==
  ASSUME NEW A, NEW x \in Seq(A), NEW y \in Seq(A), NEW z \in Seq(A)
  PROVE  (x \o y) \o z = x \o (y \o z)
  BY ConcatAssociative

LEMMA NumbersAssociate ==
  ASSUME NEW x \in Seq(Nat), NEW y \in Seq(Nat), NEW z \in Seq(Nat)
  PROVE  (x \o y) \o z = x \o (y \o z)
  <1> DEFINE A == Nat
  <1>1. x \in Seq(A) /\ y \in Seq(A) /\ z \in Seq(A)
    OBVIOUS
  <1> HIDE DEF A
  <1> QED
    BY <1>1, ConcatAssociates

(* Elements that are taken from the beginning of b and put at the end of a. *)
LEMMA Moved ==
  ASSUME NEW A, NEW a \in Seq(A), NEW b \in Seq(A), NEW n \in 0 .. Len(b)
  PROVE  /\ a \o SubSeq(b, 1, n) \in Seq(A) /\ SubSeq(b, n + 1, Len(b)) \in Seq(A)
         /\ (a \o SubSeq(b, 1, n)) \o SubSeq(b, n + 1, Len(b)) = a \o b
  <1>1. \A i \in 1 .. Len(b) : b[i] \in A
    OBVIOUS
  <1>2. SubSeq(b, 1, n) \in Seq(A)
    BY <1>1, SubSeqProperties
  <1>3. SubSeq(b, n + 1, Len(b)) \in Seq(A)
    <2>1. \A i \in n + 1 .. Len(b) : b[i] \in A
      BY <1>1
    <2>2. n + 1 \in Int /\ Len(b) \in Int
      OBVIOUS
    <2> QED
      BY <2>1, <2>2, SubSeqProperties
  <1>4. SubSeq(b, 1, n) \o SubSeq(b, n + 1, Len(b)) = b
    <2>1. 1 \in 1 .. Len(b) + 1 /\ n \in 1 - 1 .. Len(b) /\ Len(b) \in n .. Len(b)
      OBVIOUS
    <2>2. SubSeq(b, 1, n) \o SubSeq(b, n + 1, Len(b)) = SubSeq(b, 1, Len(b))
      BY <2>1, ConcatAdjacentSubSeq
    <2> QED
      BY <2>2, SubSeqFull
  <1>5. (a \o SubSeq(b, 1, n)) \o SubSeq(b, n + 1, Len(b))
          = a \o (SubSeq(b, 1, n) \o SubSeq(b, n + 1, Len(b)))
    <2> PICK c \in Seq(A), e \in Seq(A) : c = SubSeq(b, 1, n) /\ e = SubSeq(b, n + 1, Len(b))
      BY <1>2, <1>3
    <2>1. ASSUME NEW x \in Seq(A), NEW y \in Seq(A), NEW z \in Seq(A)
          PROVE  (x \o y) \o z = x \o (y \o z)
      BY ConcatAssociates
    <2>2. (a \o c) \o e = a \o (c \o e)
      BY <2>1
    <2> QED
      BY <2>2
  <1>6. a \o SubSeq(b, 1, n) \in Seq(A)
    BY <1>2, ConcatProperties
  <1> QED
    BY <1>3, <1>4, <1>5, <1>6

LEMMA AppendIs ==
  ASSUME NEW b \in Seq(Nat), NEW n \in Nat
  PROVE  /\ Append(b, n) \in Seq(Nat) /\ Append(b, n) = b \o <<n>>
         /\ Following(n, 1) = <<n + 1>>
  <1>1. <<n>> \in Seq(Nat) /\ Len(<<n>>) = 1 /\ <<n>>[1] = n
    OBVIOUS
  <1>2. /\ b \o <<n>> \in Seq(Nat) /\ Len(b \o <<n>>) = Len(b) + 1
        /\ \A i \in 1 .. Len(b) + 1 : (b \o <<n>>)[i] = IF i <= Len(b) THEN b[i] ELSE <<n>>[i - Len(b)]
    BY <1>1, ConcatProperties
  <1>3. /\ Append(b, n) \in Seq(Nat) /\ Len(Append(b, n)) = Len(b) + 1
        /\ \A i \in 1 .. Len(b) + 1 : Append(b, n)[i] = IF i <= Len(b) THEN b[i] ELSE n
    OBVIOUS
  <1>4. Append(b, n) = b \o <<n>>
    <2>1. \A i \in 1 .. Len(b) + 1 : i <= Len(b) \/ i - Len(b) = 1
      OBVIOUS
    <2>2. \A i \in 1 .. Len(b) + 1 : (b \o <<n>>)[i] = IF i <= Len(b) THEN b[i] ELSE n
      BY <1>1, <1>2, <2>1
    <2> QED
      BY <1>2, <1>3, <2>2, SeqEqual
  <1>5. Following(n, 1) = <<n + 1>>
    <2>1. <<n + 1>> \in Seq(Nat) /\ Len(<<n + 1>>) = 1 /\ <<n + 1>>[1] = n + 1
      OBVIOUS
    <2>2. Following(n, 1) \in Seq(Nat) /\ Len(Following(n, 1)) = 1 /\ \A i \in 1 .. 1 : Following(n, 1)[i] = n + i
      BY FollowingIs
    <2>3. \A i \in 1 .. 1 : Following(n, 1)[i] = <<n + 1>>[i]
      BY <2>1, <2>2
    <2> QED
      BY <2>1, <2>2, <2>3, SeqEqual
  <1> QED
    BY <1>3, <1>4, <1>5

LEMMA Regrouped ==
  ASSUME NEW a \in Seq(Nat), NEW b \in Seq(Nat), b # <<>>
  PROVE  /\ Head(b) \in Nat /\ Tail(b) \in Seq(Nat)
         /\ (a \o <<Head(b)>>) \o Tail(b) = a \o b
  <1>1. Head(b) \in Nat /\ Tail(b) \in Seq(Nat)
    BY HeadTailProperties
  <1>2. 1 \in 0 .. Len(b) /\ 1 \in 1 .. Len(b) /\ b[1] = Head(b)
    <2>1. Len(b) \in Nat /\ Len(b) # 0
      BY EmptySeq
    <2>2. b[1] = Head(b)
      BY DEF Head
    <2> QED
      BY <2>1, <2>2
  <1>3. (a \o SubSeq(b, 1, 1)) \o SubSeq(b, 1 + 1, Len(b)) = a \o b
    <2>1. ASSUME NEW n \in 0 .. Len(b)
          PROVE  (a \o SubSeq(b, 1, n)) \o SubSeq(b, n + 1, Len(b)) = a \o b
      BY Moved
    <2>2. 1 \in 0 .. Len(b)
      BY <1>2
    <2> QED
      BY <2>1, <2>2
  <1>4. Tail(b) = SubSeq(b, 2, Len(b))
    BY TailIsSubSeq
  <1>5. SubSeq(b, 1, 1) = <<Head(b)>>
    <2>1. \A i \in 1 .. 1 : b[i] \in Nat
      BY <1>1, <1>2
    <2>2. SubSeq(b, 1, 1) \in Seq(Nat) /\ Len(SubSeq(b, 1, 1)) = 1 /\ \A i \in 1 .. 1 : SubSeq(b, 1, 1)[i] = b[i]
      BY <2>1, SubSeqProperties
    <2>3. <<Head(b)>> \in Seq(Nat) /\ Len(<<Head(b)>>) = 1 /\ <<Head(b)>>[1] = Head(b)
      BY <1>1
    <2>4. \A i \in 1 .. 1 : SubSeq(b, 1, 1)[i] = <<Head(b)>>[i]
      BY <1>2, <2>2, <2>3
    <2> QED
      BY <2>2, <2>3, <2>4, SeqEqual
  <1> QED
    BY <1>1, <1>3, <1>4, <1>5

-----------------------------------------------------------------------------
(* One stream: what has been heard and what waits, as one sequence, and     *)
(* what has arrived and what waits, as another, whatever part is where.     *)
StreamType == [state : {"new", "connecting", "open", "closed", "gone"},
               made : Nat, over : BOOLEAN, fed : Nat, rxbuff : Seq(Nat), cur : Nat,
               txbuff : Seq(Nat), said : Nat, heard : Seq(Nat), arrived : Seq(Nat),
               failed : BOOLEAN]

SocketKinds == {"tcp", "ssl", "udp"}

(* The datagram that RECV_BEGIN has taken and RECV has not read.            *)
OnItsWay(r) == IF r.cur > 0 THEN <<r.cur>> ELSE <<>>

(* What the sketch has heard and what waits to be read; datagrams may be    *)
(* missing.                                                                 *)
ReadSoFar(k, r) ==
    IF k = "udp" THEN Rising((r.heard \o OnItsWay(r)) \o r.rxbuff, r.fed)
    ELSE r.heard \o r.rxbuff = S!Upto(r.fed)

(* What has arrived at the other end and what waits to be sent.             *)
WrittenSoFar(k, r) ==
    IF k = "udp" THEN Rising(r.arrived \o r.txbuff, r.said)
    ELSE k # "ssl" => r.arrived \o r.txbuff = S!Upto(r.said)

(* Only what was open ends, and only a socket closes: not before it has     *)
(* taken everything, unless it failed.                                      *)
ClosedLate(k, r) ==
    /\ r.over => r.state \notin {"new", "connecting"}
    /\ r.state = "closed" => k \in SocketKinds
    /\ r.state = "closed" /\ r.over /\ ~ r.failed => r.fed = r.made
    /\ k \notin SocketKinds => r.txbuff = <<>>

StreamOK(k, r) ==
    r \in StreamType /\ ReadSoFar(k, r) /\ WrittenSoFar(k, r) /\ ClosedLate(k, r)

LEMMA NewOK == ASSUME NEW k PROVE StreamOK(k, S!New)
  <1>1. S!New \in StreamType
    BY DEF S!New, StreamType
  <1>2. /\ S!New.heard = <<>> /\ S!New.rxbuff = <<>> /\ S!New.cur = 0 /\ S!New.fed = 0
        /\ S!New.arrived = <<>> /\ S!New.txbuff = <<>> /\ S!New.said = 0
        /\ S!New.over = FALSE /\ S!New.state = "new"
    BY DEF S!New
  <1>3. S!Upto(0) = <<>>
    BY UptoIs, EmptySeq
  <1>4. <<>> \o <<>> = <<>>
    BY ConcatEmptySeq, EmptySeq
  <1>5. Rising(<<>>, 0)
    BY DEF Rising
  <1>6. ReadSoFar(k, S!New) /\ WrittenSoFar(k, S!New)
    BY <1>2, <1>3, <1>4, <1>5 DEF ReadSoFar, WrittenSoFar, OnItsWay
  <1>7. ClosedLate(k, S!New)
    BY <1>2 DEF ClosedLate
  <1> QED
    BY <1>1, <1>6, <1>7 DEF StreamOK

LEMMA OnItsWayIs == ASSUME NEW r \in StreamType PROVE OnItsWay(r) \in Seq(Nat)
  BY DEF OnItsWay, StreamType

LEMMA TakenOK ==
  ASSUME NEW k, NEW r, StreamOK(k, r), r.state # "closed", NEW n \in Nat
  PROVE  StreamOK(k, S!Taken(r, n))
  <1> DEFINE q == S!Taken(r, n)
  <1>1. r \in StreamType /\ r.fed \in Nat /\ r.rxbuff \in Seq(Nat) /\ r.heard \in Seq(Nat)
    BY DEF StreamOK, StreamType
  <1>2. /\ Following(r.fed, n) \in Seq(Nat)
        /\ r.rxbuff \o Following(r.fed, n) \in Seq(Nat)
        /\ r.fed + n \in Nat
    BY <1>1, FollowingIs, ConcatProperties
  <1>3. q = [r EXCEPT !.fed = r.fed + n, !.rxbuff = r.rxbuff \o Following(r.fed, n)]
    BY DEF S!Taken, Following
  <1> HIDE DEF q
  <1>4. /\ q \in StreamType
        /\ q.fed = r.fed + n /\ q.rxbuff = r.rxbuff \o Following(r.fed, n)
        /\ q.heard = r.heard /\ q.cur = r.cur /\ q.arrived = r.arrived /\ q.txbuff = r.txbuff
        /\ q.said = r.said /\ q.state = r.state /\ q.over = r.over /\ q.failed = r.failed
        /\ q.made = r.made
    BY <1>1, <1>2, <1>3 DEF StreamType
  <1>5. ReadSoFar(k, q)
    <2>1. CASE k = "udp"
      <3> DEFINE h == r.heard \o OnItsWay(r)
      <3>1. h \in Seq(Nat)
        BY <1>1, OnItsWayIs, ConcatProperties
      <3>2. OnItsWay(q) = OnItsWay(r)
        BY <1>4 DEF OnItsWay
      <3>3. Rising(h \o r.rxbuff, r.fed)
        BY <2>1 DEF StreamOK, ReadSoFar
      <3> HIDE DEF h
      <3>4. h \o r.rxbuff \in Seq(Nat)
        BY <1>1, <3>1, ConcatProperties
      <3>5. Rising((h \o r.rxbuff) \o Following(r.fed, n), r.fed + n)
        BY <1>1, <3>3, <3>4, GrownRising
      <3>6. (h \o r.rxbuff) \o Following(r.fed, n) = h \o (r.rxbuff \o Following(r.fed, n))
        BY <1>1, <1>2, <3>1, NumbersAssociate
      <3> QED
        BY <1>4, <2>1, <3>2, <3>5, <3>6 DEF ReadSoFar, h
    <2>2. CASE k # "udp"
      <3>1. r.heard \o r.rxbuff = S!Upto(r.fed)
        BY <2>2 DEF StreamOK, ReadSoFar
      <3>2. (r.heard \o r.rxbuff) \o Following(r.fed, n) = S!Upto(r.fed + n)
        BY <1>1, <3>1, GrownUpto
      <3>3. (r.heard \o r.rxbuff) \o Following(r.fed, n) = r.heard \o (r.rxbuff \o Following(r.fed, n))
        BY <1>1, <1>2, NumbersAssociate
      <3> QED
        BY <1>4, <2>2, <3>2, <3>3 DEF ReadSoFar
    <2> QED
      BY <2>1, <2>2
  <1>6. WrittenSoFar(k, q)
    BY <1>4 DEF StreamOK, WrittenSoFar
  <1>7. ClosedLate(k, q)
    BY <1>4 DEF StreamOK, ClosedLate
  <1> QED
    BY <1>4, <1>5, <1>6, <1>7 DEF StreamOK, q

LEMMA GivenOK ==
  ASSUME NEW k, NEW r, StreamOK(k, r), k # "udp", NEW n \in 0 .. Len(r.rxbuff)
  PROVE  StreamOK(k, [S!Kept(r, n) EXCEPT !.heard = @ \o S!Given(r, n)])
  <1> DEFINE q == [S!Kept(r, n) EXCEPT !.heard = @ \o S!Given(r, n)]
  <1>1. r \in StreamType /\ r.rxbuff \in Seq(Nat) /\ r.heard \in Seq(Nat)
    BY DEF StreamOK, StreamType
  <1>2. /\ r.heard \o SubSeq(r.rxbuff, 1, n) \in Seq(Nat)
        /\ SubSeq(r.rxbuff, n + 1, Len(r.rxbuff)) \in Seq(Nat)
        /\ (r.heard \o SubSeq(r.rxbuff, 1, n)) \o SubSeq(r.rxbuff, n + 1, Len(r.rxbuff)) = r.heard \o r.rxbuff
    BY <1>1, Moved
  <1>3. q = [r EXCEPT !.rxbuff = SubSeq(r.rxbuff, n + 1, Len(r.rxbuff)),
                      !.heard = r.heard \o SubSeq(r.rxbuff, 1, n)]
    BY <1>1 DEF S!Kept, S!Given, StreamType
  <1> HIDE DEF q
  <1>4. /\ q \in StreamType
        /\ q.rxbuff = SubSeq(r.rxbuff, n + 1, Len(r.rxbuff))
        /\ q.heard = r.heard \o SubSeq(r.rxbuff, 1, n)
        /\ q.fed = r.fed /\ q.arrived = r.arrived /\ q.txbuff = r.txbuff
        /\ q.said = r.said /\ q.state = r.state /\ q.over = r.over /\ q.failed = r.failed
        /\ q.made = r.made
    BY <1>1, <1>2, <1>3 DEF StreamType
  <1>5. ReadSoFar(k, q)
    BY <1>2, <1>4 DEF StreamOK, ReadSoFar
  <1>6. WrittenSoFar(k, q)
    BY <1>4 DEF StreamOK, WrittenSoFar
  <1>7. ClosedLate(k, q)
    BY <1>4 DEF StreamOK, ClosedLate
  <1> QED
    BY <1>4, <1>5, <1>6, <1>7 DEF StreamOK, q

LEMMA BegunOK ==
  ASSUME NEW k, NEW r, StreamOK(k, r), k = "udp", r.rxbuff # <<>>
  PROVE  StreamOK(k, [r EXCEPT !.cur = Head(r.rxbuff), !.rxbuff = Tail(@)])
  <1> DEFINE q == [r EXCEPT !.cur = Head(r.rxbuff), !.rxbuff = Tail(@)]
  <1>1. r \in StreamType /\ r.rxbuff \in Seq(Nat) /\ r.heard \in Seq(Nat) /\ r.cur \in Nat
    BY DEF StreamOK, StreamType
  <1>2. /\ Head(r.rxbuff) \in Nat /\ Tail(r.rxbuff) \in Seq(Nat)
        /\ (r.heard \o <<Head(r.rxbuff)>>) \o Tail(r.rxbuff) = r.heard \o r.rxbuff
    BY <1>1, Regrouped
  <1>4. /\ q \in StreamType
        /\ q.cur = Head(r.rxbuff) /\ q.rxbuff = Tail(r.rxbuff)
        /\ q.heard = r.heard
        /\ q.fed = r.fed /\ q.arrived = r.arrived /\ q.txbuff = r.txbuff
        /\ q.said = r.said /\ q.state = r.state /\ q.over = r.over /\ q.failed = r.failed
        /\ q.made = r.made
    BY <1>1, <1>2 DEF StreamType
  <1> HIDE DEF q
  <1>5. ReadSoFar(k, q)
    <2>1. Rising((r.heard \o OnItsWay(r)) \o r.rxbuff, r.fed)
      BY DEF StreamOK, ReadSoFar
    <2>2. Rising(r.heard \o r.rxbuff, r.fed)
      <3>1. CASE r.cur > 0
        <4>1. Rising((r.heard \o <<r.cur>>) \o r.rxbuff, r.fed)
          BY <2>1, <3>1 DEF OnItsWay
        <4> QED
          BY <1>1, <4>1, DroppedOne
      <3>2. CASE ~ (r.cur > 0)
        BY <1>1, <2>1, <3>2, ConcatEmptySeq DEF OnItsWay
      <3> QED
        BY <3>1, <3>2
    <2>3. CASE q.cur > 0
      BY <1>2, <1>4, <2>2, <2>3 DEF ReadSoFar, OnItsWay
    <2>4. CASE ~ (q.cur > 0)
      <3>1. Rising((r.heard \o <<Head(r.rxbuff)>>) \o Tail(r.rxbuff), r.fed)
        BY <1>2, <2>2
      <3>2. Rising(r.heard \o Tail(r.rxbuff), r.fed)
        BY <1>1, <1>2, <3>1, DroppedOne
      <3>3. r.heard \o <<>> = r.heard
        BY <1>1, ConcatEmptySeq
      <3> QED
        BY <1>4, <2>4, <3>2, <3>3 DEF ReadSoFar, OnItsWay
    <2> QED
      BY <2>3, <2>4
  <1>6. WrittenSoFar(k, q)
    BY <1>4 DEF StreamOK, WrittenSoFar
  <1>7. ClosedLate(k, q)
    BY <1>4 DEF StreamOK, ClosedLate
  <1> QED
    BY <1>4, <1>5, <1>6, <1>7 DEF StreamOK, q

LEMMA ReceivedOK ==
  ASSUME NEW k, NEW r, StreamOK(k, r), k = "udp", r.cur > 0
  PROVE  StreamOK(k, [r EXCEPT !.cur = 0, !.heard = Append(@, r.cur)])
  <1> DEFINE q == [r EXCEPT !.cur = 0, !.heard = Append(@, r.cur)]
  <1>1. r \in StreamType /\ r.rxbuff \in Seq(Nat) /\ r.heard \in Seq(Nat) /\ r.cur \in Nat
    BY DEF StreamOK, StreamType
  <1>2. Append(r.heard, r.cur) \in Seq(Nat) /\ Append(r.heard, r.cur) = r.heard \o <<r.cur>>
    BY <1>1, AppendIs
  <1>4. /\ q \in StreamType
        /\ q.cur = 0 /\ q.rxbuff = r.rxbuff
        /\ q.heard = Append(r.heard, r.cur)
        /\ q.fed = r.fed /\ q.arrived = r.arrived /\ q.txbuff = r.txbuff
        /\ q.said = r.said /\ q.state = r.state /\ q.over = r.over /\ q.failed = r.failed
        /\ q.made = r.made
    BY <1>1, <1>2 DEF StreamType
  <1> HIDE DEF q
  <1>5. ReadSoFar(k, q)
    <2>1. Rising((r.heard \o <<r.cur>>) \o r.rxbuff, r.fed)
      BY DEF StreamOK, ReadSoFar, OnItsWay
    <2>2. OnItsWay(q) = <<>> /\ q.heard \o <<>> = q.heard
      BY <1>2, <1>4, ConcatEmptySeq DEF OnItsWay
    <2> QED
      BY <1>2, <1>4, <2>1, <2>2 DEF ReadSoFar
  <1>6. WrittenSoFar(k, q)
    BY <1>4 DEF StreamOK, WrittenSoFar
  <1>7. ClosedLate(k, q)
    BY <1>4 DEF StreamOK, ClosedLate
  <1> QED
    BY <1>4, <1>5, <1>6, <1>7 DEF StreamOK, q

(* The sketch says n + 1: a socket keeps it until it runs, a process or a   *)
(* file gets it at once.                                                    *)
LEMMA SaidOK ==
  ASSUME NEW k, NEW r, StreamOK(k, r)
  PROVE  /\ k \in SocketKinds =>
               StreamOK(k, [r EXCEPT !.txbuff = Append(@, r.said + 1), !.said = r.said + 1])
         /\ k \notin SocketKinds =>
               StreamOK(k, [r EXCEPT !.arrived = Append(@, r.said + 1), !.said = r.said + 1])
  <1> DEFINE n == r.said + 1
             q == [r EXCEPT !.txbuff = Append(@, r.said + 1), !.said = r.said + 1]
             p == [r EXCEPT !.arrived = Append(@, r.said + 1), !.said = r.said + 1]
  <1>1. /\ r \in StreamType /\ r.arrived \in Seq(Nat) /\ r.txbuff \in Seq(Nat)
        /\ r.said \in Nat /\ n \in Nat
    BY DEF StreamOK, StreamType
  <1>2. /\ Append(r.txbuff, n) \in Seq(Nat) /\ Append(r.txbuff, n) = r.txbuff \o <<n>>
        /\ Append(r.arrived, n) \in Seq(Nat) /\ Append(r.arrived, n) = r.arrived \o <<n>>
        /\ <<n>> = Following(r.said, 1)
    BY <1>1, AppendIs
  <1>3. /\ q \in StreamType
        /\ q.txbuff = Append(r.txbuff, n) /\ q.said = n
        /\ q.rxbuff = r.rxbuff /\ q.cur = r.cur /\ q.heard = r.heard
        /\ q.fed = r.fed /\ q.arrived = r.arrived
        /\ q.state = r.state /\ q.over = r.over /\ q.failed = r.failed
        /\ q.made = r.made
    BY <1>1, <1>2 DEF StreamType
  <1>4. /\ p \in StreamType
        /\ p.arrived = Append(r.arrived, n) /\ p.said = n
        /\ p.rxbuff = r.rxbuff /\ p.cur = r.cur /\ p.heard = r.heard
        /\ p.fed = r.fed /\ p.txbuff = r.txbuff
        /\ p.state = r.state /\ p.over = r.over /\ p.failed = r.failed
        /\ p.made = r.made
    BY <1>1, <1>2 DEF StreamType
  <1> HIDE DEF q, p, n
  <1>5. /\ r.arrived \o r.txbuff \in Seq(Nat)
        /\ r.arrived \o Append(r.txbuff, n) = (r.arrived \o r.txbuff) \o Following(r.said, 1)
    <2>1. <<n>> \in Seq(Nat)
      BY <1>1
    <2>2. (r.arrived \o r.txbuff) \o <<n>> = r.arrived \o (r.txbuff \o <<n>>)
      BY <1>1, <2>1, NumbersAssociate
    <2>3. r.arrived \o r.txbuff \in Seq(Nat)
      BY <1>1, ConcatProperties
    <2> QED
      BY <1>2, <2>2, <2>3
  <1>6. ASSUME k \in SocketKinds PROVE StreamOK(k, q)
    <2>1. ReadSoFar(k, q)
      BY <1>3 DEF StreamOK, ReadSoFar, OnItsWay
    <2>2. WrittenSoFar(k, q)
      <3>1. CASE k = "udp"
        <4>1. Rising(r.arrived \o r.txbuff, r.said)
          BY <3>1 DEF StreamOK, WrittenSoFar
        <4>2. Rising((r.arrived \o r.txbuff) \o Following(r.said, 1), r.said + 1)
          BY <1>1, <1>5, <4>1, GrownRising
        <4> QED
          BY <1>3, <1>5, <3>1, <4>2 DEF WrittenSoFar, n
      <3>2. CASE k \notin {"udp", "ssl"}
        <4>1. r.arrived \o r.txbuff = S!Upto(r.said)
          BY <3>2 DEF StreamOK, WrittenSoFar
        <4>2. S!Upto(r.said) \o Following(r.said, 1) = S!Upto(r.said + 1)
          BY <1>1, GrownUpto
        <4> QED
          BY <1>3, <1>5, <3>2, <4>1, <4>2 DEF WrittenSoFar, n
      <3>3. CASE k = "ssl"
        BY <3>3 DEF WrittenSoFar
      <3> QED
        BY <3>1, <3>2, <3>3
    <2>3. ClosedLate(k, q)
      BY <1>3, <1>6 DEF StreamOK, ClosedLate
    <2> QED
      BY <1>3, <2>1, <2>2, <2>3 DEF StreamOK
  <1>7. ASSUME k \notin SocketKinds PROVE StreamOK(k, p)
    <2>1. ReadSoFar(k, p)
      BY <1>4 DEF StreamOK, ReadSoFar, OnItsWay
    <2>2. WrittenSoFar(k, p)
      <3>1. k \notin {"udp", "ssl"}
        BY <1>7 DEF SocketKinds
      <3>2. r.txbuff = <<>> /\ r.arrived \o r.txbuff = S!Upto(r.said)
        BY <1>7, <3>1 DEF StreamOK, WrittenSoFar, ClosedLate
      <3>3. r.arrived \o <<>> = r.arrived /\ p.arrived \o <<>> = p.arrived
        BY <1>1, <1>2, <1>4, ConcatEmptySeq
      <3>4. S!Upto(r.said) \o Following(r.said, 1) = S!Upto(r.said + 1)
        BY <1>1, GrownUpto
      <3>5. p.arrived \o p.txbuff = S!Upto(p.said)
        BY <1>2, <1>4, <3>2, <3>3, <3>4 DEF n
      <3> QED
        BY <3>1, <3>5 DEF WrittenSoFar
    <2>3. ClosedLate(k, p)
      BY <1>4 DEF StreamOK, ClosedLate
    <2> QED
      BY <1>4, <2>1, <2>2, <2>3 DEF StreamOK
  <1> QED
    BY <1>6, <1>7 DEF p, q

(* The socket sends the first n of what waits, and keeps the others; over   *)
(* SSL it keeps everything.                                                 *)
LEMMA SentOK ==
  ASSUME NEW k \in SocketKinds, NEW r, StreamOK(k, r), NEW n \in 0 .. Len(r.txbuff)
  PROVE  StreamOK(k, [r EXCEPT !.arrived = @ \o SubSeq(r.txbuff, 1, n),
                               !.txbuff = IF k = "ssl" THEN @ ELSE SubSeq(@, n + 1, Len(@))])
  <1> DEFINE q == [r EXCEPT !.arrived = @ \o SubSeq(r.txbuff, 1, n),
                            !.txbuff = IF k = "ssl" THEN @ ELSE SubSeq(@, n + 1, Len(@))]
  <1>1. r \in StreamType /\ r.txbuff \in Seq(Nat) /\ r.arrived \in Seq(Nat)
    BY DEF StreamOK, StreamType
  <1>2. /\ r.arrived \o SubSeq(r.txbuff, 1, n) \in Seq(Nat)
        /\ SubSeq(r.txbuff, n + 1, Len(r.txbuff)) \in Seq(Nat)
        /\ (r.arrived \o SubSeq(r.txbuff, 1, n)) \o SubSeq(r.txbuff, n + 1, Len(r.txbuff))
              = r.arrived \o r.txbuff
    BY <1>1, Moved
  <1>3. q = [r EXCEPT !.arrived = r.arrived \o SubSeq(r.txbuff, 1, n),
                      !.txbuff = IF k = "ssl" THEN r.txbuff
                                 ELSE SubSeq(r.txbuff, n + 1, Len(r.txbuff))]
    BY <1>1 DEF StreamType
  <1> HIDE DEF q
  <1>4. /\ q \in StreamType
        /\ q.arrived = r.arrived \o SubSeq(r.txbuff, 1, n)
        /\ k # "ssl" => q.txbuff = SubSeq(r.txbuff, n + 1, Len(r.txbuff))
        /\ q.rxbuff = r.rxbuff /\ q.cur = r.cur /\ q.heard = r.heard
        /\ q.fed = r.fed /\ q.said = r.said
        /\ q.state = r.state /\ q.over = r.over /\ q.failed = r.failed
        /\ q.made = r.made
    BY <1>1, <1>2, <1>3 DEF StreamType
  <1>5. ReadSoFar(k, q)
    BY <1>4 DEF StreamOK, ReadSoFar, OnItsWay
  <1>6. WrittenSoFar(k, q)
    BY <1>2, <1>4 DEF StreamOK, WrittenSoFar
  <1>7. ClosedLate(k, q)
    BY <1>4 DEF StreamOK, ClosedLate
  <1> QED
    BY <1>4, <1>5, <1>6, <1>7 DEF StreamOK, q

LEMMA DroppedOK ==
  ASSUME NEW k, NEW r, StreamOK(k, r), k = "udp", r.txbuff # <<>>
  PROVE  StreamOK(k, [r EXCEPT !.txbuff = Tail(@)])
  <1> DEFINE q == [r EXCEPT !.txbuff = Tail(@)]
  <1>1. r \in StreamType /\ r.txbuff \in Seq(Nat) /\ r.arrived \in Seq(Nat)
    BY DEF StreamOK, StreamType
  <1>2. /\ Head(r.txbuff) \in Nat /\ Tail(r.txbuff) \in Seq(Nat)
        /\ (r.arrived \o <<Head(r.txbuff)>>) \o Tail(r.txbuff) = r.arrived \o r.txbuff
    BY <1>1, Regrouped
  <1>4. /\ q \in StreamType
        /\ q.arrived = r.arrived /\ q.txbuff = Tail(r.txbuff)
        /\ q.rxbuff = r.rxbuff /\ q.cur = r.cur /\ q.heard = r.heard
        /\ q.fed = r.fed /\ q.said = r.said
        /\ q.state = r.state /\ q.over = r.over /\ q.failed = r.failed
        /\ q.made = r.made
    BY <1>1, <1>2 DEF StreamType
  <1> HIDE DEF q
  <1>5. ReadSoFar(k, q)
    BY <1>4 DEF StreamOK, ReadSoFar, OnItsWay
  <1>6. WrittenSoFar(k, q)
    <2>1. Rising((r.arrived \o <<Head(r.txbuff)>>) \o Tail(r.txbuff), r.said)
      BY <1>2 DEF StreamOK, WrittenSoFar
    <2>2. Rising(r.arrived \o Tail(r.txbuff), r.said)
      BY <1>1, <1>2, <2>1, DroppedOne
    <2> QED
      BY <1>4, <2>2 DEF WrittenSoFar
  <1>7. ClosedLate(k, q)
    BY <1>4 DEF StreamOK, ClosedLate, SocketKinds
  <1> QED
    BY <1>4, <1>5, <1>6, <1>7 DEF StreamOK, q

(* What is said and heard does not depend on the rest of the record.        *)
LEMMA ElsewhereOK ==
  ASSUME NEW k, NEW r, StreamOK(k, r), NEW q \in StreamType, ClosedLate(k, q),
         q.rxbuff = r.rxbuff, q.cur = r.cur, q.heard = r.heard, q.fed = r.fed,
         q.arrived = r.arrived, q.txbuff = r.txbuff, q.said = r.said
  PROVE  StreamOK(k, q)
  <1>1. ReadSoFar(k, q)
    BY DEF StreamOK, ReadSoFar, OnItsWay
  <1>2. WrittenSoFar(k, q)
    BY DEF StreamOK, WrittenSoFar
  <1> QED
    BY <1>1, <1>2 DEF StreamOK

(* The states a stream goes through, and its end.                           *)
LEMMA GoesOK ==
  ASSUME NEW k, NEW r, StreamOK(k, r)
  PROVE  /\ StreamOK(k, [r EXCEPT !.state = "gone"])
         /\ r.state = "new" => StreamOK(k, [r EXCEPT !.state = "open"])
         /\ r.state = "new" => StreamOK(k, [r EXCEPT !.state = "connecting"])
         /\ r.state = "connecting" => StreamOK(k, [r EXCEPT !.state = "open"])
         /\ r.state = "connecting" /\ k \in SocketKinds => StreamOK(k, [r EXCEPT !.state = "closed"])
         /\ k \in SocketKinds /\ r.fed = r.made /\ r.state = "open" => StreamOK(k, [r EXCEPT !.state = "closed"])
         /\ k \in SocketKinds /\ r.state = "open" => StreamOK(k, [r EXCEPT !.state = "closed", !.failed = TRUE])
         /\ r.state = "open" => StreamOK(k, [r EXCEPT !.made = @ + 1])
         /\ r.state = "open" => StreamOK(k, [r EXCEPT !.over = TRUE])
  <1>0. r \in StreamType /\ ClosedLate(k, r) /\ r.made \in Nat
    BY DEF StreamOK, StreamType
  <1>1. ASSUME TRUE PROVE StreamOK(k, [r EXCEPT !.state = "gone"])
    <2> DEFINE q == [r EXCEPT !.state = "gone"]
    <2>1. /\ q \in StreamType
          /\ q.rxbuff = r.rxbuff /\ q.cur = r.cur /\ q.heard = r.heard /\ q.fed = r.fed
          /\ q.arrived = r.arrived /\ q.txbuff = r.txbuff /\ q.said = r.said
      BY <1>0 DEF StreamType
    <2>2. ClosedLate(k, q)
      BY <1>0, <1>1 DEF ClosedLate, StreamType
    <2> QED
      BY <2>1, <2>2, ElsewhereOK
  <1>2. ASSUME r.state = "new" PROVE StreamOK(k, [r EXCEPT !.state = "open"])
    <2> DEFINE q == [r EXCEPT !.state = "open"]
    <2>1. /\ q \in StreamType
          /\ q.rxbuff = r.rxbuff /\ q.cur = r.cur /\ q.heard = r.heard /\ q.fed = r.fed
          /\ q.arrived = r.arrived /\ q.txbuff = r.txbuff /\ q.said = r.said
      BY <1>0 DEF StreamType
    <2>2. ClosedLate(k, q)
      BY <1>0, <1>2 DEF ClosedLate, StreamType
    <2> QED
      BY <2>1, <2>2, ElsewhereOK
  <1>3. ASSUME r.state = "new" PROVE StreamOK(k, [r EXCEPT !.state = "connecting"])
    <2> DEFINE q == [r EXCEPT !.state = "connecting"]
    <2>1. /\ q \in StreamType
          /\ q.rxbuff = r.rxbuff /\ q.cur = r.cur /\ q.heard = r.heard /\ q.fed = r.fed
          /\ q.arrived = r.arrived /\ q.txbuff = r.txbuff /\ q.said = r.said
      BY <1>0 DEF StreamType
    <2>2. ClosedLate(k, q)
      BY <1>0, <1>3 DEF ClosedLate, StreamType
    <2> QED
      BY <2>1, <2>2, ElsewhereOK
  <1>4. ASSUME r.state = "connecting" PROVE StreamOK(k, [r EXCEPT !.state = "open"])
    <2> DEFINE q == [r EXCEPT !.state = "open"]
    <2>1. /\ q \in StreamType
          /\ q.rxbuff = r.rxbuff /\ q.cur = r.cur /\ q.heard = r.heard /\ q.fed = r.fed
          /\ q.arrived = r.arrived /\ q.txbuff = r.txbuff /\ q.said = r.said
      BY <1>0 DEF StreamType
    <2>2. ClosedLate(k, q)
      BY <1>0, <1>4 DEF ClosedLate, StreamType
    <2> QED
      BY <2>1, <2>2, ElsewhereOK
  <1>5. ASSUME r.state = "connecting" /\ k \in SocketKinds PROVE StreamOK(k, [r EXCEPT !.state = "closed"])
    <2> DEFINE q == [r EXCEPT !.state = "closed"]
    <2>1. /\ q \in StreamType
          /\ q.rxbuff = r.rxbuff /\ q.cur = r.cur /\ q.heard = r.heard /\ q.fed = r.fed
          /\ q.arrived = r.arrived /\ q.txbuff = r.txbuff /\ q.said = r.said
      BY <1>0 DEF StreamType
    <2>2. ClosedLate(k, q)
      BY <1>0, <1>5 DEF ClosedLate, StreamType
    <2> QED
      BY <2>1, <2>2, ElsewhereOK
  <1>6. ASSUME k \in SocketKinds /\ r.fed = r.made /\ r.state = "open" PROVE StreamOK(k, [r EXCEPT !.state = "closed"])
    <2> DEFINE q == [r EXCEPT !.state = "closed"]
    <2>1. /\ q \in StreamType
          /\ q.rxbuff = r.rxbuff /\ q.cur = r.cur /\ q.heard = r.heard /\ q.fed = r.fed
          /\ q.arrived = r.arrived /\ q.txbuff = r.txbuff /\ q.said = r.said
      BY <1>0 DEF StreamType
    <2>2. ClosedLate(k, q)
      BY <1>0, <1>6 DEF ClosedLate, StreamType
    <2> QED
      BY <2>1, <2>2, ElsewhereOK
  <1>7. ASSUME k \in SocketKinds /\ r.state = "open" PROVE StreamOK(k, [r EXCEPT !.state = "closed", !.failed = TRUE])
    <2> DEFINE q == [r EXCEPT !.state = "closed", !.failed = TRUE]
    <2>1. /\ q \in StreamType
          /\ q.rxbuff = r.rxbuff /\ q.cur = r.cur /\ q.heard = r.heard /\ q.fed = r.fed
          /\ q.arrived = r.arrived /\ q.txbuff = r.txbuff /\ q.said = r.said
      BY <1>0 DEF StreamType
    <2>2. ClosedLate(k, q)
      BY <1>0, <1>7 DEF ClosedLate, StreamType
    <2> QED
      BY <2>1, <2>2, ElsewhereOK
  <1>8. ASSUME r.state = "open" PROVE StreamOK(k, [r EXCEPT !.made = @ + 1])
    <2> DEFINE q == [r EXCEPT !.made = @ + 1]
    <2>0. q = [r EXCEPT !.made = r.made + 1] /\ r.made + 1 \in Nat
      BY <1>0
    <2> HIDE DEF q
    <2>1. /\ q \in StreamType
          /\ q.rxbuff = r.rxbuff /\ q.cur = r.cur /\ q.heard = r.heard /\ q.fed = r.fed
          /\ q.arrived = r.arrived /\ q.txbuff = r.txbuff /\ q.said = r.said
      BY <1>0, <2>0 DEF StreamType
    <2>2. ClosedLate(k, q)
      BY <1>0, <1>8, <2>0 DEF ClosedLate, StreamType
    <2> QED
      BY <2>1, <2>2, ElsewhereOK DEF q
  <1>9. ASSUME r.state = "open" PROVE StreamOK(k, [r EXCEPT !.over = TRUE])
    <2> DEFINE q == [r EXCEPT !.over = TRUE]
    <2>1. /\ q \in StreamType
          /\ q.rxbuff = r.rxbuff /\ q.cur = r.cur /\ q.heard = r.heard /\ q.fed = r.fed
          /\ q.arrived = r.arrived /\ q.txbuff = r.txbuff /\ q.said = r.said
      BY <1>0 DEF StreamType
    <2>2. ClosedLate(k, q)
      BY <1>0, <1>9 DEF ClosedLate, StreamType
    <2> QED
      BY <2>1, <2>2, ElsewhereOK
  <1> QED
    BY <1>1, <1>2, <1>3, <1>4, <1>5, <1>6, <1>7, <1>8, <1>9

-----------------------------------------------------------------------------
(* The table of the streams, and each stream in it.  The sketch holds an    *)
(* identifier only as long as the table has the stream under it, in every   *)
(* state of the bridge.                                                     *)
LEMMA NextIdIsFree ==
  ASSUME next_id \in Int, S!Free # {}
  PROVE  S!NextId \in S!Free
  <1> DEFINE Way(i) == (i - next_id) % IDS
             Ways == {Way(i) : i \in S!Free}
  <1>1. IDS \in Nat \ {0} /\ \A i \in S!Free : i \in Int
    BY StreamsAssumption DEF S!Free, S!Id
  <1>2. \A i \in S!Free : Way(i) \in Nat
    BY <1>1
  <1>3. Ways \in SUBSET Nat /\ Ways # {}
    BY <1>2
  <1>4. PICK x \in Ways : \A y \in Ways : x <= y
    BY <1>3, LeastNatural
  <1>5. \E i \in S!Free : \A j \in S!Free : Way(i) <= Way(j)
    BY <1>4
  <1> QED
    BY <1>5 DEF S!NextId

Held ==
    /\ table \in [S!Id -> Stream \cup {None}]
    /\ next_id \in Int
    /\ held \in [Stream -> S!Id \cup {None}]
    /\ \A s \in Stream : held[s] # None => held[s] \in S!Id /\ table[held[s]] = s

StreamsInv ==
    /\ Held
    /\ stream \in [Stream -> StreamType]
    /\ \A s \in Stream : StreamOK(kind, stream[s])

LEMMA StreamsInvInit == S!Init => StreamsInv
  <1> SUFFICES ASSUME S!Init PROVE StreamsInv
    OBVIOUS
  <1>1. S!New \in StreamType /\ StreamOK(kind, S!New)
    BY NewOK DEF StreamOK
  <1>2. Held
    BY DEF S!Init, Held
  <1> QED
    BY <1>1, <1>2 DEF S!Init, StreamsInv

(* Steps after which one stream is another record.                          *)
LEMMA BecomesKeepsInv ==
  ASSUME StreamsInv, Held', kind' = kind, NEW s \in Stream, NEW q, S!Becomes(s, q), StreamOK(kind, q)
  PROVE  StreamsInv'
  <1>1. q \in StreamType
    BY DEF StreamOK
  <1>2. stream' = [stream EXCEPT ![s] = q]
    BY DEF S!Becomes
  <1>3. stream' \in [Stream -> StreamType]
    BY <1>1, <1>2 DEF StreamsInv
  <1>4. \A t \in Stream : StreamOK(kind, stream'[t])
    BY <1>2 DEF StreamsInv
  <1>5. \A t \in Stream : StreamOK(kind', stream'[t])
    BY <1>4
  <1> QED
    BY <1>3, <1>5 DEF StreamsInv, StreamOK, ReadSoFar, WrittenSoFar, ClosedLate

LEMMA HeldStays == Held /\ UNCHANGED <<table, next_id, held>> => Held'
  BY DEF Held

LEMMA HeldCommandIs ==
  ASSUME StreamsInv, NEW s \in Stream, S!Command(s)
  PROVE  S!At(s) = s /\ kind' = kind /\ UNCHANGED held /\ StreamOK(kind, stream[s])
  BY DEF StreamsInv, Held, S!Command, S!At

LEMMA RunsIs ==
  ASSUME StreamsInv, NEW s \in Stream, S!Runs(s)
  PROVE  /\ kind' = kind /\ kind \in SocketKinds /\ Held' /\ StreamOK(kind, stream[s])
  BY HeldStays DEF StreamsInv, S!Runs, S!Socket, SocketKinds

LEMMA ReadsKeepsInv ==
  ASSUME StreamsInv, Held', kind' = kind, NEW s \in Stream, S!At(s) = s, kind # "udp",
         NEW r, StreamOK(kind, r), NEW n \in 0 .. Len(r.rxbuff), S!Reads(s, r, n)
  PROVE  StreamsInv'
  <1> DEFINE q == [S!Kept(r, n) EXCEPT !.heard = @ \o S!Given(r, n)]
  <1>1. StreamOK(kind, q)
    BY GivenOK
  <1> HIDE DEF q
  <1>2. stream' = [stream EXCEPT ![s] = q]
    BY DEF S!Reads, StreamsInv, q
  <1> QED
    BY <1>1, <1>2, BecomesKeepsInv DEF S!Becomes

LEMMA ReadingKeepsInv == StreamsInv /\ S!Reading => StreamsInv'
  <1> SUFFICES ASSUME StreamsInv, NEW s \in Stream,
                      S!ReadOutput(s) \/ S!ReadSocket(s) \/ S!ReadFile(s) \/ S!RecvBegin(s) \/ S!Recv(s)
               PROVE  StreamsInv'
    BY DEF S!Reading
  <1> DEFINE r == stream[s]
  <1>1. /\ S!Command(s) /\ UNCHANGED <<table, next_id>>
    BY DEF S!ReadOutput, S!ReadSocket, S!ReadFile, S!RecvBegin, S!Recv
  <1>2. S!At(s) = s /\ kind' = kind /\ UNCHANGED held /\ StreamOK(kind, r) /\ Held'
    BY <1>1, HeldCommandIs, HeldStays DEF StreamsInv
  <1>3. /\ r \in StreamType /\ r.fed \in Nat /\ r.made \in Nat /\ r.rxbuff \in Seq(Nat) /\ r.cur \in Nat
        /\ Len(r.rxbuff) \in Nat
        /\ r.state = "closed" => kind \in SocketKinds
    BY <1>2 DEF StreamOK, StreamType, ClosedLate
  <1> HIDE DEF r
  <1>4. CASE S!ReadOutput(s)
    <2>1. PICK m \in S!Amounts(r) \cup {0} :
             \E n \in 0 .. Len(S!Taken(r, m).rxbuff) : S!Reads(s, S!Taken(r, m), n)
      BY <1>2, <1>4 DEF S!ReadOutput, r
    <2>2. m \in Nat
      BY <1>3 DEF S!Amounts
    <2>3. kind = "process" /\ kind # "udp" /\ r.state # "closed"
      BY <1>3, <1>4 DEF S!ReadOutput, SocketKinds
    <2>4. StreamOK(kind, S!Taken(r, m))
      BY <1>2, <2>2, <2>3, TakenOK
    <2> QED
      BY <1>2, <2>1, <2>3, <2>4, ReadsKeepsInv
  <1>5. CASE S!ReadSocket(s)
    <2>1. PICK n \in 1 .. Len(r.rxbuff) : S!Reads(s, r, n)
      BY <1>2, <1>5 DEF S!ReadSocket, r
    <2>2. n \in 0 .. Len(r.rxbuff) /\ kind # "udp"
      BY <1>3, <1>5 DEF S!ReadSocket
    <2> QED
      BY <1>2, <2>1, <2>2, ReadsKeepsInv
  <1>6. CASE S!ReadFile(s)
    <2>1. PICK n \in 1 .. STREAM_TOTAL - r.fed : S!Reads(s, S!Taken(r, n), n)
      BY <1>2, <1>6 DEF S!ReadFile, r
    <2>2. n \in Nat
      BY <1>3, StreamsAssumption
    <2>3. kind = "file" /\ kind # "udp" /\ r.state # "closed"
      BY <1>3, <1>6 DEF S!ReadFile, SocketKinds
    <2>4. StreamOK(kind, S!Taken(r, n))
      BY <1>2, <2>2, <2>3, TakenOK
    <2>5. n \in 0 .. Len(S!Taken(r, n).rxbuff)
      <3>1. S!Taken(r, n).rxbuff = r.rxbuff \o Following(r.fed, n)
        BY <1>3 DEF S!Taken, StreamType, Following
      <3>2. Following(r.fed, n) \in Seq(Nat) /\ Len(Following(r.fed, n)) = n
        BY <1>3, <2>2, FollowingIs
      <3>3. Len(r.rxbuff \o Following(r.fed, n)) = Len(r.rxbuff) + Len(Following(r.fed, n))
        BY <1>3, <3>2, ConcatProperties
      <3> QED
        BY <1>3, <2>2, <3>1, <3>2, <3>3
    <2> QED
      BY <1>2, <2>1, <2>3, <2>4, <2>5, ReadsKeepsInv
  <1>7. CASE S!RecvBegin(s)
    <2>1. kind = "udp" /\ r.rxbuff # <<>>
          /\ S!Becomes(s, [r EXCEPT !.cur = Head(r.rxbuff), !.rxbuff = Tail(@)])
      BY <1>2, <1>7 DEF S!RecvBegin, r
    <2>2. StreamOK(kind, [r EXCEPT !.cur = Head(r.rxbuff), !.rxbuff = Tail(@)])
      BY <1>2, <2>1, BegunOK
    <2> QED
      BY <1>2, <2>1, <2>2, BecomesKeepsInv
  <1>8. CASE S!Recv(s)
    <2>1. kind = "udp" /\ r.cur > 0
      BY <1>2, <1>8 DEF S!Recv, r
    <2>2. StreamOK(kind, [r EXCEPT !.cur = 0, !.heard = Append(@, r.cur)])
      BY <1>2, <2>1, ReceivedOK
    <2>3. S!Becomes(s, [r EXCEPT !.cur = 0, !.heard = Append(@, r.cur)])
      <3>1. [[r EXCEPT !.cur = 0] EXCEPT !.heard = Append(@, r.cur)]
              = [r EXCEPT !.cur = 0, !.heard = Append(@, r.cur)]
        BY <1>3 DEF StreamType
      <3>2. stream' = [stream EXCEPT ![s] = [[r EXCEPT !.cur = 0] EXCEPT !.heard = Append(@, r.cur)]]
        BY <1>2, <1>8 DEF S!Recv, StreamsInv, r
      <3> QED
        BY <3>1, <3>2 DEF S!Becomes
    <2> QED
      BY <1>2, <2>2, <2>3, BecomesKeepsInv
  <1> QED
    BY <1>4, <1>5, <1>6, <1>7, <1>8

LEMMA NothingKeepsInv ==
  ASSUME StreamsInv, Held', UNCHANGED <<kind, stream>>
  PROVE  StreamsInv'
  BY DEF StreamsInv, StreamOK, ReadSoFar, WrittenSoFar, ClosedLate

LEMMA RunningKeepsInv == StreamsInv /\ S!Running => StreamsInv'
  <1> SUFFICES ASSUME StreamsInv, NEW s \in Stream,
                      \/ S!Connected(s) \/ S!Receive(s) \/ S!PeerClosed(s)
                      \/ S!Send(s) \/ S!RunClosed(s)
               PROVE  StreamsInv'
    BY DEF S!Running
  <1> DEFINE r == stream[s]
  <1>1. /\ StreamOK(kind, r) /\ r.fed \in Nat /\ r.made \in Nat /\ r.txbuff \in Seq(Nat)
        /\ Len(r.txbuff) \in Nat
    BY DEF StreamsInv, StreamType
  <1> HIDE DEF r
  <1>2. CASE S!Connected(s)
    <2>1. kind' = kind /\ kind \in SocketKinds /\ Held'
      BY <1>2, RunsIs DEF S!Connected
    <2>2. PICK state \in {"open", "closed"} :
             r.state = "connecting" /\ S!Becomes(s, [r EXCEPT !.state = state])
      BY <1>2 DEF S!Connected, r
    <2>3. StreamOK(kind, [r EXCEPT !.state = state])
      BY <1>1, <2>1, <2>2, GoesOK
    <2> QED
      BY <2>1, <2>2, <2>3, BecomesKeepsInv
  <1>3. CASE S!Receive(s)
    <2>1. kind' = kind /\ kind \in SocketKinds /\ Held'
      BY <1>3, RunsIs DEF S!Receive
    <2>2. PICK n \in IF kind = "udp" THEN {1} \cap (1 .. r.made - r.fed) ELSE S!Amounts(r) :
             S!Becomes(s, S!Taken(r, n))
      BY <1>3 DEF S!Receive, r
    <2>3. n \in Nat
      BY <1>1, <2>2 DEF S!Amounts
    <2>4. r.state # "closed"
      BY <1>3 DEF S!Receive, r
    <2>5. StreamOK(kind, S!Taken(r, n))
      BY <1>1, <2>3, <2>4, TakenOK
    <2> QED
      BY <2>1, <2>2, <2>5, BecomesKeepsInv
  <1>4. CASE S!PeerClosed(s)
    <2>1. kind' = kind /\ kind \in SocketKinds /\ Held'
      BY <1>4, RunsIs DEF S!PeerClosed
    <2>2. r.state = "open" /\ r.fed = r.made /\ S!Becomes(s, [r EXCEPT !.state = "closed"])
      BY <1>4 DEF S!PeerClosed, r
    <2>3. StreamOK(kind, [r EXCEPT !.state = "closed"])
      BY <1>1, <2>1, <2>2, GoesOK
    <2> QED
      BY <2>1, <2>2, <2>3, BecomesKeepsInv
  <1>5. CASE S!Send(s)
    <2> DEFINE Sent(n) == [r EXCEPT !.arrived = @ \o SubSeq(r.txbuff, 1, n),
                                    !.txbuff = IF kind = "ssl" THEN @ ELSE SubSeq(@, n + 1, Len(@))]
               Some == CASE kind = "ssl" -> {Len(r.txbuff)}
                         [] kind = "udp" -> {1}
                         [] kind = "tcp" -> 1 .. Len(r.txbuff)
    <2>1. kind' = kind /\ kind \in SocketKinds /\ Held'
      BY <1>5, RunsIs DEF S!Send
    <2>2. r.txbuff # <<>> /\ \E n \in Some : S!Becomes(s, Sent(n))
      BY <1>5 DEF S!Send, r
    <2>3. Len(r.txbuff) >= 1
      BY <1>1, <2>2
    <2>4. Some \subseteq 0 .. Len(r.txbuff)
      BY <1>1, <2>1, <2>3 DEF SocketKinds
    <2>5. PICK n \in 0 .. Len(r.txbuff) : S!Becomes(s, Sent(n))
      BY <2>2, <2>4
    <2>6. StreamOK(kind, Sent(n))
      BY <1>1, <2>1, SentOK
    <2> HIDE DEF Sent
    <2> QED
      BY <2>1, <2>5, <2>6, BecomesKeepsInv
  <1>6. CASE S!RunClosed(s)
    BY <1>6, HeldStays, NothingKeepsInv DEF S!RunClosed, StreamsInv
  <1> QED
    BY <1>2, <1>3, <1>4, <1>5, <1>6

LEMMA CreateKeepsInv == ASSUME StreamsInv, NEW s \in Stream, S!Create(s) PROVE StreamsInv'
  <1> DEFINE r == stream[s]
  <1>1. StreamOK(kind, r) /\ r.state = "new" /\ kind' = kind
    BY DEF StreamsInv, S!Create
  <1>2. CASE S!Free = {}
    BY <1>2, HeldStays, NothingKeepsInv DEF S!Create, StreamsInv
  <1>3. CASE S!Free # {}
    <2>1. S!NextId \in S!Free
      BY <1>3, NextIdIsFree DEF StreamsInv, Held
    <2>2. S!NextId \in S!Id /\ S!NextId \in Int /\ table[S!NextId] = None
      BY <2>1, StreamsAssumption DEF S!Free, S!Id
    <2>3. PICK id \in S!Id : id = S!NextId /\ id \in Int
      BY <2>2
    <2>4. /\ next_id' = id /\ table' = [table EXCEPT ![id] = s] /\ held' = [held EXCEPT ![s] = id]
          /\ \E state \in {"connecting", "open"} : S!Becomes(s, [r EXCEPT !.state = state])
      BY <1>3, <2>3 DEF S!Create
    <2>5. Held'
      <3>1. /\ table' \in [S!Id -> Stream \cup {None}]
            /\ next_id' \in Int
            /\ held' \in [Stream -> S!Id \cup {None}]
        BY <2>3, <2>4 DEF StreamsInv, Held
      <3>2. ASSUME NEW t \in Stream, held'[t] # None
            PROVE  held'[t] \in S!Id /\ table'[held'[t]] = t
        <4>1. CASE t = s
          BY <2>3, <2>4, <4>1 DEF StreamsInv, Held
        <4>2. CASE t # s
          <5>1. held'[t] = held[t] /\ held[t] \in S!Id /\ table[held[t]] = t
            BY <2>4, <3>2, <4>2 DEF StreamsInv, Held
          <5>2. held[t] # id
            BY <2>2, <2>3, <5>1, StreamsAssumption
          <5> QED
            BY <2>4, <5>1, <5>2 DEF StreamsInv, Held
        <4> QED
          BY <4>1, <4>2
      <3> QED
        BY <3>1, <3>2 DEF Held, S!Id
    <2>6. PICK state \in {"connecting", "open"} : S!Becomes(s, [r EXCEPT !.state = state])
      BY <2>4
    <2> HIDE DEF r
    <2>7. StreamOK(kind, [r EXCEPT !.state = state])
      BY <1>1, <2>6, GoesOK
    <2> QED
      BY <1>1, <2>5, <2>6, <2>7, BecomesKeepsInv
  <1> QED
    BY <1>2, <1>3

LEMMA CloseKeepsInv == ASSUME StreamsInv, NEW s \in Stream, S!Close(s) PROVE StreamsInv'
  <1> DEFINE r == stream[s]
  <1>1. StreamOK(kind, r) /\ kind' = kind /\ next_id' = next_id /\ held[s] # None
    BY DEF StreamsInv, S!Close
  <1>2. CASE kind = "udp"
    BY <1>2, HeldStays, NothingKeepsInv DEF S!Close, StreamsInv
  <1>3. CASE kind # "udp"
    <2>1. /\ table' = [table EXCEPT ![held[s]] = None] /\ held' = [held EXCEPT ![s] = None]
          /\ S!Becomes(s, [r EXCEPT !.state = "gone"])
      BY <1>3 DEF S!Close
    <2>2. Held'
      <3>1. /\ table' \in [S!Id -> Stream \cup {None}]
            /\ next_id' \in Int
            /\ held' \in [Stream -> S!Id \cup {None}]
        BY <1>1, <2>1 DEF StreamsInv, Held
      <3>2. ASSUME NEW t \in Stream, held'[t] # None
            PROVE  held'[t] \in S!Id /\ table'[held'[t]] = t
        <4>1. t # s /\ held'[t] = held[t]
          BY <2>1, <3>2 DEF StreamsInv, Held
        <4>2. held[t] \in S!Id /\ table[held[t]] = t /\ table[held[s]] = s
          BY <1>1, <3>2, <4>1 DEF StreamsInv, Held
        <4>3. held[t] # held[s]
          BY <4>1, <4>2
        <4> QED
          BY <2>1, <4>1, <4>2, <4>3 DEF StreamsInv, Held
      <3> QED
        BY <3>1, <3>2 DEF Held, S!Id
    <2> HIDE DEF r
    <2>3. StreamOK(kind, [r EXCEPT !.state = "gone"])
      BY <1>1, GoesOK
    <2> QED
      BY <1>1, <2>1, <2>2, <2>3, BecomesKeepsInv
  <1> QED
    BY <1>2, <1>3

LEMMA WriteKeepsStreams == ASSUME StreamsInv, NEW s \in Stream, S!Write(s) PROVE StreamsInv'
  <1> DEFINE r == stream[s]
             n == r.said + 1
             q == IF kind \in SocketKinds
                  THEN [r EXCEPT !.txbuff = Append(@, n), !.said = n]
                  ELSE [r EXCEPT !.arrived = Append(@, n), !.said = n]
  <1>1. S!Command(s) /\ UNCHANGED <<table, next_id>>
    BY DEF S!Write
  <1>2. S!At(s) = s /\ kind' = kind /\ UNCHANGED held /\ StreamOK(kind, r) /\ Held'
    BY <1>1, HeldCommandIs, HeldStays DEF StreamsInv
  <1>3. S!Becomes(s, q)
    <2>1. S!Socket <=> kind \in SocketKinds
      BY DEF S!Socket, SocketKinds
    <2>2. r \in StreamType
      BY <1>2 DEF StreamOK
    <2>3. stream' = [stream EXCEPT ![s] =
                       IF kind \in SocketKinds
                       THEN [[r EXCEPT !.txbuff = Append(@, n)] EXCEPT !.said = n]
                       ELSE [[r EXCEPT !.arrived = Append(@, n)] EXCEPT !.said = n]]
      BY <1>2, <2>1 DEF S!Write, StreamsInv
    <2> HIDE DEF r, n
    <2>4. /\ [[r EXCEPT !.txbuff = Append(@, n)] EXCEPT !.said = n]
               = [r EXCEPT !.txbuff = Append(@, n), !.said = n]
          /\ [[r EXCEPT !.arrived = Append(@, n)] EXCEPT !.said = n]
               = [r EXCEPT !.arrived = Append(@, n), !.said = n]
      BY <2>2 DEF StreamType
    <2> QED
      BY <2>3, <2>4 DEF S!Becomes
  <1> HIDE DEF r
  <1>4. StreamOK(kind, q)
    BY <1>2, SaidOK
  <1> HIDE DEF q
  <1> QED
    BY <1>2, <1>3, <1>4, BecomesKeepsInv

LEMMA SketchKeepsInv == StreamsInv /\ S!Sketch => StreamsInv'
  <1>1. ASSUME StreamsInv, NEW s \in Stream, S!WriteFails(s) \/ S!Wait(s) \/ S!ClosedFile(s)
        PROVE  StreamsInv'
    BY <1>1, HeldStays, NothingKeepsInv DEF S!WriteFails, S!Wait, S!ClosedFile, StreamsInv
  <1>2. ASSUME StreamsInv, S!Reset PROVE StreamsInv'
    <2>1. Held'
      BY <1>2 DEF S!Reset, StreamsInv, Held
    <2> QED
      BY <1>2, <2>1, NothingKeepsInv DEF S!Reset
  <1> QED
    BY <1>1, <1>2, CreateKeepsInv, CloseKeepsInv, WriteKeepsStreams DEF S!Sketch

LEMMA OthersKeepInv == StreamsInv /\ S!Others => StreamsInv'
  <1> SUFFICES ASSUME StreamsInv, NEW s \in Stream,
                      S!Produce(s) \/ S!End(s) \/ S!ReceiveFails(s) \/ S!SendFails(s)
               PROVE  StreamsInv'
    BY DEF S!Others
  <1> DEFINE r == stream[s]
  <1>1. StreamOK(kind, r)
    BY DEF StreamsInv
  <1> HIDE DEF r
  <1>2. CASE S!Produce(s)
    <2>1. r.state = "open" /\ S!Becomes(s, [r EXCEPT !.made = @ + 1]) /\ kind' = kind /\ Held'
      BY <1>2, HeldStays DEF S!Produce, StreamsInv, r
    <2>2. StreamOK(kind, [r EXCEPT !.made = @ + 1])
      BY <1>1, <2>1, GoesOK
    <2> QED
      BY <2>1, <2>2, BecomesKeepsInv
  <1>3. CASE S!End(s)
    <2>1. r.state = "open" /\ S!Becomes(s, [r EXCEPT !.over = TRUE]) /\ kind' = kind /\ Held'
      BY <1>3, HeldStays DEF S!End, StreamsInv, r
    <2>2. StreamOK(kind, [r EXCEPT !.over = TRUE])
      BY <1>1, <2>1, GoesOK
    <2> QED
      BY <2>1, <2>2, BecomesKeepsInv
  <1>4. CASE S!ReceiveFails(s)
    <2>1. kind' = kind /\ kind \in SocketKinds /\ Held'
      BY <1>4, RunsIs DEF S!ReceiveFails
    <2>2. r.state = "open" /\ S!Becomes(s, [r EXCEPT !.state = "closed", !.failed = TRUE])
      BY <1>4 DEF S!ReceiveFails, r
    <2>3. StreamOK(kind, [r EXCEPT !.state = "closed", !.failed = TRUE])
      BY <1>1, <2>1, <2>2, GoesOK
    <2> QED
      BY <2>1, <2>2, <2>3, BecomesKeepsInv
  <1>5. CASE S!SendFails(s)
    <2>1. kind' = kind /\ Held'
      BY <1>5, RunsIs DEF S!SendFails
    <2>2. kind = "udp" /\ r.txbuff # <<>> /\ S!Becomes(s, [r EXCEPT !.txbuff = Tail(@)])
      BY <1>5 DEF S!SendFails, r
    <2>3. StreamOK(kind, [r EXCEPT !.txbuff = Tail(@)])
      BY <1>1, <2>2, DroppedOK
    <2> QED
      BY <2>1, <2>2, <2>3, BecomesKeepsInv
  <1> QED
    BY <1>2, <1>3, <1>4, <1>5

LEMMA RestartKeepsInv == StreamsInv /\ S!Restart => StreamsInv'
  <1> SUFFICES ASSUME StreamsInv, S!Restart PROVE StreamsInv'
    OBVIOUS
  <1>1. kind' = kind
    BY DEF S!Restart
  <1>2. Held'
    BY DEF S!Restart, Held
  <1>3. ASSUME NEW s \in Stream
        PROVE  stream'[s] \in StreamType /\ StreamOK(kind, stream'[s])
    <2>1. StreamOK(kind, stream[s])
      BY DEF StreamsInv
    <2>2. StreamOK(kind, S!New) /\ StreamOK(kind, [stream[s] EXCEPT !.state = "gone"])
      BY <2>1, NewOK, GoesOK
    <2>3. stream'[s] = IF stream[s].state = "new" THEN S!New ELSE [stream[s] EXCEPT !.state = "gone"]
      BY DEF S!Restart
    <2>4. StreamOK(kind, stream'[s])
      BY <2>2, <2>3
    <2> QED
      BY <2>4 DEF StreamOK
  <1>4. stream' \in [Stream -> StreamType]
    BY <1>3 DEF S!Restart
  <1> QED
    BY <1>1, <1>2, <1>3, <1>4 DEF StreamsInv, StreamOK, ReadSoFar, WrittenSoFar, ClosedLate

LEMMA StreamsInvStep == StreamsInv /\ (S!Next \/ UNCHANGED streams) => StreamsInv'
  <1>1. StreamsInv /\ (S!Waited \/ S!Crash \/ UNCHANGED streams) => StreamsInv'
    BY HeldStays, NothingKeepsInv DEF S!Waited, S!Crash, streams, StreamsInv
  <1> QED
    BY <1>1, ReadingKeepsInv, RunningKeepsInv, SketchKeepsInv, OthersKeepInv, RestartKeepsInv
    DEF S!Next

LEMMA StreamsInvGood == StreamsInv => S!StreamsInOrder
  <1> SUFFICES ASSUME StreamsInv, NEW s \in Stream
               PROVE  /\ streamsUp = "up" /\ held[s] # None => S!At(s) = s
                      /\ IF kind = "udp"
                         THEN S!Increasing(stream[s].heard) /\ S!Increasing(stream[s].arrived)
                         ELSE /\ stream[s].heard \o stream[s].rxbuff = S!Upto(stream[s].fed)
                              /\ kind # "ssl" => stream[s].arrived = S!Upto(Len(stream[s].arrived))
                      /\ stream[s].state = "closed" /\ stream[s].over /\ ~ stream[s].failed
                           => stream[s].fed = stream[s].made
    BY DEF S!StreamsInOrder
  <1>1. streamsUp = "up" /\ held[s] # None => S!At(s) = s
    BY DEF StreamsInv, Held, S!At
  <1> DEFINE r == stream[s]
  <1>2. StreamOK(kind, r)
    BY DEF StreamsInv
  <1>3. /\ r.heard \in Seq(Nat) /\ r.rxbuff \in Seq(Nat) /\ r.fed \in Nat
        /\ r.arrived \in Seq(Nat) /\ r.txbuff \in Seq(Nat) /\ r.said \in Nat
        /\ OnItsWay(r) \in Seq(Nat)
    BY <1>2, OnItsWayIs DEF StreamOK, StreamType
  <1> HIDE DEF r
  <1>4. CASE kind = "udp"
    <2>1. Rising((r.heard \o OnItsWay(r)) \o r.rxbuff, r.fed) /\ Rising(r.arrived \o r.txbuff, r.said)
      BY <1>2, <1>4 DEF StreamOK, ReadSoFar, WrittenSoFar
    <2>2. /\ (r.heard \o OnItsWay(r)) \o r.rxbuff = r.heard \o (OnItsWay(r) \o r.rxbuff)
          /\ OnItsWay(r) \o r.rxbuff \in Seq(Nat)
      BY <1>3, NumbersAssociate, ConcatProperties
    <2>3. S!Increasing(r.heard)
      BY <1>3, <2>1, <2>2, Beginning
    <2>4. S!Increasing(r.arrived)
      BY <1>3, <2>1, Beginning
    <2>5. r.state = "closed" /\ r.over /\ ~ r.failed => r.fed = r.made
      BY <1>2 DEF StreamOK, ClosedLate
    <2> QED
      BY <1>1, <1>4, <2>3, <2>4, <2>5 DEF r
  <1>5. CASE kind # "udp"
    <2>1. r.heard \o r.rxbuff = S!Upto(r.fed)
      BY <1>2, <1>5 DEF StreamOK, ReadSoFar
    <2>2. kind # "ssl" => r.arrived = S!Upto(Len(r.arrived))
      BY <1>2, <1>3, <1>5, Beginning DEF StreamOK, WrittenSoFar
    <2>3. r.state = "closed" /\ r.over /\ ~ r.failed => r.fed = r.made
      BY <1>2 DEF StreamOK, ClosedLate
    <2> QED
      BY <1>1, <1>5, <2>1, <2>2, <2>3 DEF r
  <1> QED
    BY <1>4, <1>5

LEMMA StreamsStep == [BoxNext]_boxvars => S!Next \/ UNCHANGED streams
  BY DEF BoxNext, boxvars

-----------------------------------------------------------------------------
(* The console: what is picked out of a sequence that grows at the end.     *)
LEMMA SameOnly == \A s, M : C!Only(s, M) = Only(s, M)
  BY DEF C!Only, Only

LEMMA Beginnings ==
  ASSUME NEW X, NEW b \in Seq(X)
  PROVE  /\ SubSeq(b, 1, 0) = <<>> /\ SubSeq(b, 1, Len(b)) = b
         /\ \A n \in 1 .. Len(b) : /\ SubSeq(b, 1, n - 1) \in Seq(X) /\ b[n] \in X
                                   /\ SubSeq(b, 1, n) = Append(SubSeq(b, 1, n - 1), b[n])
  <1>1. SubSeq(b, 1, 0) = <<>>
    BY SubSeqEmpty
  <1>2. SubSeq(b, 1, Len(b)) = b
    BY SubSeqFull
  <1>3. ASSUME NEW n \in 1 .. Len(b)
        PROVE  /\ SubSeq(b, 1, n - 1) \in Seq(X) /\ b[n] \in X
               /\ SubSeq(b, 1, n) = Append(SubSeq(b, 1, n - 1), b[n])
    <2>1. \A i \in 1 .. Len(b) : b[i] \in X
      OBVIOUS
    <2>2. n \in Nat /\ n - 1 \in Int /\ 1 \in Int
      OBVIOUS
    <2>3. \A i \in 1 .. n - 1 : b[i] \in X
      BY <2>1
    <2>4. /\ SubSeq(b, 1, n - 1) \in Seq(X)
          /\ Len(SubSeq(b, 1, n - 1)) = IF 1 <= n - 1 THEN (n - 1) - 1 + 1 ELSE 0
          /\ \A i \in 1 .. (n - 1) - 1 + 1 : SubSeq(b, 1, n - 1)[i] = b[1 + i - 1]
      BY <2>2, <2>3, SubSeqProperties
    <2>5. \A i \in 1 .. n : b[i] \in X
      BY <2>1
    <2>6. /\ SubSeq(b, 1, n) \in Seq(X)
          /\ Len(SubSeq(b, 1, n)) = IF 1 <= n THEN n - 1 + 1 ELSE 0
          /\ \A i \in 1 .. n - 1 + 1 : SubSeq(b, 1, n)[i] = b[1 + i - 1]
      BY <2>2, <2>5, SubSeqProperties
    <2> DEFINE u == SubSeq(b, 1, n - 1)
               v == SubSeq(b, 1, n)
               w == Append(u, b[n])
    <2>7. /\ u \in Seq(X) /\ Len(u) = n - 1 /\ \A i \in 1 .. n - 1 : u[i] = b[i]
          /\ v \in Seq(X) /\ Len(v) = n /\ \A i \in 1 .. n : v[i] = b[i]
      BY <2>2, <2>4, <2>6
    <2> HIDE DEF u, v
    <2>8. /\ w \in Seq(X) /\ Len(w) = n
          /\ \A i \in 1 .. n : w[i] = IF i <= n - 1 THEN u[i] ELSE b[n]
      BY <2>1, <2>2, <2>7
    <2> HIDE DEF w
    <2>9. \A i \in 1 .. n : w[i] = v[i]
      BY <2>7, <2>8
    <2>10. v = w
      BY <2>7, <2>8, <2>9, SeqEqual
    <2> QED
      BY <2>1, <2>4, <2>10 DEF u, v, w
  <1> QED
    BY <1>1, <1>2, <1>3

LEMMA AppendConcat ==
  ASSUME NEW X, NEW a \in Seq(X), NEW b \in Seq(X), NEW x \in X
  PROVE  a \o Append(b, x) = Append(a \o b, x) /\ a \o b \in Seq(X)
  <1>1. /\ a \o b \in Seq(X) /\ Len(a \o b) = Len(a) + Len(b)
        /\ \A i \in 1 .. Len(a) + Len(b) : (a \o b)[i] = IF i <= Len(a) THEN a[i] ELSE b[i - Len(a)]
    BY ConcatProperties
  <1> DEFINE c == Append(b, x)
             u == a \o b
             v == a \o c
             w == Append(u, x)
  <1>2. c \in Seq(X) /\ Len(c) = Len(b) + 1 /\ c[Len(b) + 1] = x /\ \A i \in 1 .. Len(b) : c[i] = b[i]
    OBVIOUS
  <1> HIDE DEF c
  <1>3. /\ v \in Seq(X) /\ Len(v) = Len(a) + Len(c)
        /\ \A i \in 1 .. Len(a) + Len(c) : v[i] = IF i <= Len(a) THEN a[i] ELSE c[i - Len(a)]
    BY <1>2, ConcatProperties
  <1> HIDE DEF u, v
  <1>4. w \in Seq(X) /\ Len(w) = Len(u) + 1 /\ w[Len(u) + 1] = x /\ \A i \in 1 .. Len(u) : w[i] = u[i]
    BY <1>1 DEF u
  <1> HIDE DEF w
  <1>5. Len(w) = Len(v)
    BY <1>1, <1>2, <1>3, <1>4 DEF u
  <1>6. ASSUME NEW i \in 1 .. Len(v) PROVE v[i] = w[i]
    <2>1. CASE i = Len(a) + Len(b) + 1
      <3>1. ~ (i <= Len(a)) /\ i - Len(a) = Len(b) + 1 /\ i = Len(u) + 1
        BY <1>1, <2>1 DEF u
      <3> QED
        BY <1>2, <1>3, <1>4, <3>1
    <2>2. CASE i # Len(a) + Len(b) + 1
      <3>0. /\ Len(a) \in Nat /\ Len(b) \in Nat
            /\ Len(v) = Len(a) + Len(b) + 1 /\ Len(u) = Len(a) + Len(b)
        BY <1>1, <1>2, <1>3 DEF u
      <3>1. i \in 1 .. Len(a) + Len(b) /\ i \in 1 .. Len(u) /\ (i <= Len(a) \/ i - Len(a) \in 1 .. Len(b))
        BY <3>0, <2>2
      <3>2. w[i] = IF i <= Len(a) THEN a[i] ELSE b[i - Len(a)]
        BY <1>1, <1>4, <3>1 DEF u
      <3>3. v[i] = IF i <= Len(a) THEN a[i] ELSE b[i - Len(a)]
        BY <1>2, <1>3, <3>1
      <3> QED
        BY <3>2, <3>3
    <2> QED
      BY <2>1, <2>2
  <1>7. v = w
    BY <1>3, <1>4, <1>5, <1>6, SeqEqual
  <1> QED
    BY <1>1, <1>7 DEF v, w, u, c

LEMMA OnlyNothing == \A M : Only(<<>>, M) = <<>>
  <1> SUFFICES ASSUME NEW M PROVE Only(<<>>, M) = <<>>
    OBVIOUS
  <1>1. <<>> \in Seq({}) /\ Len(<<>>) = 0
    OBVIOUS
  <1>2. PICK f \in [0 .. Len(<<>>) -> Seq({})] : StepsOf(f, <<>>, M)
    BY <1>1, OnlySteps
  <1> QED
    BY <1>1, <1>2 DEF StepsOf

LEMMA OnlyConcat ==
  ASSUME NEW X, NEW a \in Seq(X), NEW b \in Seq(X), NEW M
  PROVE  Only(a \o b, M) = Only(a, M) \o Only(b, M)
  <1> DEFINE p(n) == SubSeq(b, 1, n)
             Good(n) == Only(a \o p(n), M) = Only(a, M) \o Only(p(n), M)
             Bad == {n \in 0 .. Len(b) : ~ Good(n)}
  <1>1. Len(b) \in Nat /\ Only(a, M) \in Seq(X)
    BY OnlyPicks
  <1>2. p(0) = <<>> /\ p(Len(b)) = b
    BY Beginnings
  <1>3. \A n \in 1 .. Len(b) : p(n - 1) \in Seq(X) /\ b[n] \in X /\ p(n) = Append(p(n - 1), b[n])
    BY Beginnings
  <1> HIDE DEF p
  <1>4. Good(0)
    <2>1. a \o <<>> = a /\ Only(a, M) \o <<>> = Only(a, M)
      BY <1>1, ConcatEmptySeq
    <2> QED
      BY <1>2, <2>1, OnlyNothing
  <1>5. ASSUME NEW n \in 1 .. Len(b), Good(n - 1) PROVE Good(n)
    <2> DEFINE q == p(n - 1)
               x == b[n]
    <2>1. q \in Seq(X) /\ x \in X /\ p(n) = Append(q, x)
      BY <1>3
    <2>2. Only(a \o q, M) = Only(a, M) \o Only(q, M)
      BY <1>5
    <2> HIDE DEF q, x
    <2>3. a \o Append(q, x) = Append(a \o q, x) /\ a \o q \in Seq(X)
      BY <2>1, AppendConcat
    <2>4. Only(Append(a \o q, x), M) = IF x \in M THEN Append(Only(a \o q, M), x) ELSE Only(a \o q, M)
      <3>1. ASSUME NEW u \in Seq(X), NEW y \in X
            PROVE  Only(Append(u, y), M) = IF y \in M THEN Append(Only(u, M), y) ELSE Only(u, M)
        BY OnlyAppend
      <3> QED
        BY <2>1, <2>3, <3>1
    <2>5. Only(Append(q, x), M) = IF x \in M THEN Append(Only(q, M), x) ELSE Only(q, M)
      BY <2>1, OnlyAppend
    <2>6. Only(q, M) \in Seq(X)
      BY <2>1, OnlyPicks
    <2>7. Only(a, M) \o Append(Only(q, M), x) = Append(Only(a, M) \o Only(q, M), x)
      BY <1>1, <2>1, <2>6, AppendConcat
    <2> QED
      BY <2>1, <2>2, <2>3, <2>4, <2>5, <2>7
  <1>6. Bad = {}
    <2> SUFFICES ASSUME Bad # {} PROVE FALSE
      OBVIOUS
    <2>1. Bad \in SUBSET Nat
      BY <1>1
    <2>2. PICK n \in Bad : \A k \in Bad : n <= k
      <3> HIDE DEF Bad
      <3> QED
        BY <2>1, LeastNatural
    <2>3. n # 0
      BY <1>4, <2>2
    <2>4. n \in 1 .. Len(b) /\ n - 1 \in 0 .. Len(b) /\ ~ (n <= n - 1)
      BY <1>1, <2>2, <2>3
    <2>5. Good(n - 1)
      <3> HIDE DEF Good
      <3> QED
        BY <2>2, <2>4
    <2> HIDE DEF Good
    <2> QED
      BY <1>5, <2>2, <2>4, <2>5
  <1>7. Good(Len(b))
    <2> HIDE DEF Good
    <2> QED
      BY <1>1, <1>6
  <1> QED
    BY <1>2, <1>7

LEMMA OnlyAll ==
  ASSUME NEW X, NEW b \in Seq(X), NEW M, \A i \in 1 .. Len(b) : b[i] \in M
  PROVE  Only(b, M) = b
  <1> DEFINE p(n) == SubSeq(b, 1, n)
             Good(n) == Only(p(n), M) = p(n)
             Bad == {n \in 0 .. Len(b) : ~ Good(n)}
  <1>1. Len(b) \in Nat
    OBVIOUS
  <1>2. p(0) = <<>> /\ p(Len(b)) = b
    BY Beginnings
  <1>3. \A n \in 1 .. Len(b) : p(n - 1) \in Seq(X) /\ b[n] \in X /\ p(n) = Append(p(n - 1), b[n])
    BY Beginnings
  <1> HIDE DEF p
  <1>4. Good(0)
    BY <1>2, OnlyNothing
  <1>5. ASSUME NEW n \in 1 .. Len(b), Good(n - 1) PROVE Good(n)
    <2> DEFINE q == p(n - 1)
               x == b[n]
    <2>1. q \in Seq(X) /\ x \in X /\ p(n) = Append(q, x) /\ x \in M /\ Only(q, M) = q
      BY <1>3, <1>5
    <2> HIDE DEF q, x
    <2>2. Only(Append(q, x), M) = IF x \in M THEN Append(Only(q, M), x) ELSE Only(q, M)
      BY <2>1, OnlyAppend
    <2> QED
      BY <2>1, <2>2
  <1>6. Bad = {}
    <2> SUFFICES ASSUME Bad # {} PROVE FALSE
      OBVIOUS
    <2>1. Bad \in SUBSET Nat
      BY <1>1
    <2>2. PICK n \in Bad : \A k \in Bad : n <= k
      <3> HIDE DEF Bad
      <3> QED
        BY <2>1, LeastNatural
    <2>3. n # 0
      BY <1>4, <2>2
    <2>4. n \in 1 .. Len(b) /\ n - 1 \in 0 .. Len(b) /\ ~ (n <= n - 1)
      BY <1>1, <2>2, <2>3
    <2>5. Good(n - 1)
      <3> HIDE DEF Good
      <3> QED
        BY <2>2, <2>4
    <2> HIDE DEF Good
    <2> QED
      BY <1>5, <2>2, <2>4, <2>5
  <1>7. Good(Len(b))
    <2> HIDE DEF Good
    <2> QED
      BY <1>1, <1>6
  <1> QED
    BY <1>2, <1>7

LEMMA OnlyNone ==
  ASSUME NEW X, NEW b \in Seq(X), NEW M, \A i \in 1 .. Len(b) : b[i] \notin M
  PROVE  Only(b, M) = <<>>
  <1>1. Only(b, M) \in Seq(X)
    BY OnlyPicks
  <1>2. ASSUME NEW x PROVE ~ Occurs(Only(b, M), x)
    <2>1. Occurs(b, x) => x \notin M
      BY DEF Occurs
    <2> QED
      BY <2>1, OccursOnly
  <1>3. \A i \in DOMAIN Only(b, M) : FALSE
    BY <1>2 DEF Occurs
  <1> PICK t \in Seq(X) : t = Only(b, M)
    BY <1>1
  <1>4. DOMAIN t = 1 .. Len(t) /\ Len(t) \in Nat
    OBVIOUS
  <1>5. Len(t) = 0
    <2>1. \A i : i \notin DOMAIN t
      BY <1>3
    <2>2. 1 \notin 1 .. Len(t)
      BY <1>4, <2>1
    <2> QED
      BY <1>4, <2>2
  <1> QED
    BY <1>5, EmptySeq

LEMMA SuffixGrows ==
  ASSUME NEW X, NEW a \in Seq(X), NEW b \in Seq(X), NEW n \in 0 .. Len(a)
  PROVE  /\ SubSeq(a, n + 1, Len(a)) \in Seq(X)
         /\ SubSeq(a \o b, n + 1, Len(a \o b)) = SubSeq(a, n + 1, Len(a)) \o b
  <1>0. Len(a) \in Nat /\ Len(b) \in Nat /\ n \in Nat /\ n <= Len(a)
    OBVIOUS
  <1>1. /\ a \o b \in Seq(X) /\ Len(a \o b) = Len(a) + Len(b)
        /\ \A i \in 1 .. Len(a) + Len(b) : (a \o b)[i] = IF i <= Len(a) THEN a[i] ELSE b[i - Len(a)]
    BY ConcatProperties
  <1> DEFINE v == a \o b
             u == SubSeq(a, n + 1, Len(a))
             w == SubSeq(v, n + 1, Len(v))
             y == u \o b
  <1>2. \A i \in 1 .. Len(a) : a[i] \in X
    OBVIOUS
  <1>3. n + 1 \in Int /\ Len(a) \in Int /\ \A i \in n + 1 .. Len(a) : a[i] \in X
    BY <1>0, <1>2
  <1>4. /\ u \in Seq(X) /\ Len(u) = IF n + 1 <= Len(a) THEN Len(a) - (n + 1) + 1 ELSE 0
        /\ \A i \in 1 .. Len(a) - (n + 1) + 1 : u[i] = a[n + 1 + i - 1]
    BY <1>3, SubSeqProperties
  <1> HIDE DEF u
  <1>5. Len(u) = Len(a) - n /\ \A i \in 1 .. Len(a) - n : u[i] = a[n + i]
    <2>1. Len(u) = Len(a) - n
      BY <1>0, <1>4
    <2>2. ASSUME NEW i \in 1 .. Len(a) - n PROVE u[i] = a[n + i]
      <3>1. i \in 1 .. Len(a) - (n + 1) + 1 /\ n + 1 + i - 1 = n + i
        BY <1>0
      <3> QED
        BY <1>4, <3>1
    <2> QED
      BY <2>1, <2>2
  <1>6. v \in Seq(X) /\ Len(v) = Len(a) + Len(b)
    BY <1>1
  <1> HIDE DEF v
  <1>7. \A i \in 1 .. Len(v) : v[i] \in X
    BY <1>6
  <1>8. n + 1 \in Int /\ Len(v) \in Int /\ \A i \in n + 1 .. Len(v) : v[i] \in X
    BY <1>0, <1>6, <1>7
  <1>9. /\ w \in Seq(X) /\ Len(w) = IF n + 1 <= Len(v) THEN Len(v) - (n + 1) + 1 ELSE 0
        /\ \A i \in 1 .. Len(v) - (n + 1) + 1 : w[i] = v[n + 1 + i - 1]
    BY <1>8, SubSeqProperties
  <1> HIDE DEF w
  <1>10. Len(w) = Len(a) + Len(b) - n /\ \A i \in 1 .. Len(w) : w[i] = v[n + i]
    BY <1>0, <1>6, <1>9
  <1>11. /\ y \in Seq(X) /\ Len(y) = Len(u) + Len(b)
         /\ \A i \in 1 .. Len(u) + Len(b) : y[i] = IF i <= Len(u) THEN u[i] ELSE b[i - Len(u)]
    BY <1>4, ConcatProperties
  <1> HIDE DEF y
  <1>12. ASSUME NEW i \in 1 .. Len(w) PROVE w[i] = y[i]
    <2>1. n + i \in 1 .. Len(a) + Len(b) /\ i \in 1 .. Len(u) + Len(b)
      BY <1>0, <1>5, <1>10
    <2>2. v[n + i] = IF n + i <= Len(a) THEN a[n + i] ELSE b[(n + i) - Len(a)]
      BY <1>1, <2>1 DEF v
    <2>3. CASE i <= Len(u)
      BY <1>0, <1>5, <1>10, <1>11, <2>1, <2>2, <2>3
    <2>4. CASE ~ (i <= Len(u))
      <3>1. ~ (n + i <= Len(a)) /\ (n + i) - Len(a) = i - Len(u)
        BY <1>0, <1>5, <2>1, <2>4
      <3> QED
        BY <1>10, <1>11, <2>1, <2>2, <2>4, <3>1
    <2> QED
      BY <2>3, <2>4
  <1>13. Len(w) = Len(y)
    BY <1>0, <1>5, <1>10, <1>11
  <1>14. w = y
    BY <1>9, <1>11, <1>12, <1>13, SeqEqual
  <1> QED
    BY <1>4, <1>14 DEF u, v, w, y

-----------------------------------------------------------------------------
ByOne(words, a) == \A i \in 1 .. Len(words) : words[i][1] = a

LEMMA ByTypes ==
  ASSUME NEW q \in Seq(C!Datum), NEW As PROVE C!By(q, As) \in Seq(C!Datum)
  BY SameOnly, OnlyPicks DEF C!By

LEMMA ByGrows ==
  ASSUME NEW q \in Seq(C!Datum), NEW words \in Seq(C!Datum), NEW a, ByOne(words, a), NEW As
  PROVE  C!By(q \o words, As) = IF a \in As THEN C!By(q, As) \o words ELSE C!By(q, As)
  <1> DEFINE M == As \X (1 .. CONSOLE_TOTAL)
  <1>1. \A z : C!By(z, As) = Only(z, M)
    BY SameOnly DEF C!By
  <1>2. \A i \in 1 .. Len(words) : words[i] \in C!Datum
    OBVIOUS
  <1>3. \A i \in 1 .. Len(words) : words[i] \in M <=> a \in As
    BY <1>2 DEF ByOne, C!Datum
  <1> HIDE DEF M
  <1>4. Only(q \o words, M) = Only(q, M) \o Only(words, M)
    BY OnlyConcat
  <1>5. CASE a \in As
    <2>1. Only(words, M) = words
      BY <1>3, <1>5, OnlyAll
    <2> QED
      BY <1>1, <1>4, <1>5, <2>1
  <1>6. CASE a \notin As
    <2>1. Only(words, M) = <<>>
      BY <1>3, <1>6, OnlyNone
    <2>2. Only(q, M) \in Seq(C!Datum)
      BY OnlyPicks
    <2>3. Only(q, M) \o <<>> = Only(q, M)
      BY <2>2, ConcatEmptySeq
    <2> QED
      BY <1>1, <1>4, <1>6, <2>1, <2>3
  <1> QED
    BY <1>5, <1>6

ConsoleType == [clients : Seq(Client), buffer : [Client -> Seq(C!Datum)],
                recvbuffer : Seq(C!Datum), all : Seq(C!Datum), since : [Client -> Nat]]

Once(q) == \A i, j \in 1 .. Len(q) : q[i] = q[j] => i = j

SinceIn(k, c) == SubSeq(k.all, k.since[c] + 1, Len(k.all))

(* A client that is kept has got, or will get, what the others have said.   *)
ToClients(k, g) ==
    \A c \in Client :
       IF c \in C!Clients(k)
       THEN /\ k.since[c] \in 0 .. Len(k.all)
            /\ g[c] \o k.buffer[c] = C!By(SinceIn(k, c), C!Author \ {c})
       ELSE k.buffer[c] = <<>>

Sayings(c, n) == [i \in 1 .. n |-> <<c, i>>]

(* What those in L have said has been given to the others, or is on its way *)
(* in p.                                                                    *)
FromClients(k, p, L, n) ==
    \A c \in L : C!By(k.all, {c}) \o p[c] = Sayings(c, n[c])

ToSketch(k, r) == r \o k.recvbuffer = C!By(k.all, Client)

ConsoleOK(k, g, p, L, n, r) ==
    /\ k \in ConsoleType /\ Once(k.clients)
    /\ ToClients(k, g) /\ FromClients(k, p, L, n) /\ ToSketch(k, r)

LEMMA ClientsAre ==
  ASSUME NEW k \in ConsoleType
  PROVE  /\ \A c : c \in C!Clients(k) <=> \E i \in 1 .. Len(k.clients) : k.clients[i] = c
         /\ C!Clients(k) \subseteq Client
  <1>1. k.clients \in Seq(Client)
    BY DEF ConsoleType
  <1>2. DOMAIN k.clients = 1 .. Len(k.clients)
    BY <1>1
  <1>3. \A i \in 1 .. Len(k.clients) : k.clients[i] \in Client
    BY <1>1
  <1> QED
    BY <1>2, <1>3 DEF C!Clients, C!ToSet

LEMMA GiveOK ==
  ASSUME NEW k \in ConsoleType, NEW words \in Seq(C!Datum), NEW a \in C!Author, ByOne(words, a),
         NEW g \in [Client -> Seq(C!Datum)], ToClients(k, g),
         NEW q, q = C!Give(k, words, a)
  PROVE  /\ q \in ConsoleType /\ ToClients(q, g)
         /\ q.clients = k.clients /\ q.recvbuffer = k.recvbuffer
         /\ q.all = k.all \o words
         /\ \A As : C!By(q.all, As) = IF a \in As THEN C!By(k.all, As) \o words ELSE C!By(k.all, As)
  <1>0. ASSUME NEW z \in Seq(C!Datum), NEW As
        PROVE  C!By(z \o words, As) = IF a \in As THEN C!By(z, As) \o words ELSE C!By(z, As)
    BY ByGrows
  <1>1. /\ k.all \in Seq(C!Datum) /\ k.buffer \in [Client -> Seq(C!Datum)]
        /\ k.since \in [Client -> Nat]
    BY DEF ConsoleType
  <1>2. k.all \o words \in Seq(C!Datum)
    BY <1>1, ConcatProperties
  <1>3. \A c \in Client : k.buffer[c] \in Seq(C!Datum) /\ k.buffer[c] \o words \in Seq(C!Datum)
    BY <1>1, ConcatProperties
  <1> DEFINE to == [c \in Client |-> IF c \in C!Clients(k) \ {a} THEN k.buffer[c] \o words ELSE k.buffer[c]]
  <1>4. to \in [Client -> Seq(C!Datum)]
    BY <1>3
  <1>5. q = [k EXCEPT !.buffer = to, !.all = k.all \o words]
    BY DEF C!Give
  <1>6. \A c \in Client : to[c] = IF c \in C!Clients(k) \ {a} THEN k.buffer[c] \o words ELSE k.buffer[c]
    OBVIOUS
  <1> HIDE DEF to
  <1>7. /\ q \in ConsoleType /\ q.clients = k.clients /\ q.recvbuffer = k.recvbuffer
        /\ q.all = k.all \o words /\ q.since = k.since /\ q.buffer = to
    BY <1>2, <1>4, <1>5 DEF ConsoleType
  <1>8. \A As : C!By(q.all, As) = IF a \in As THEN C!By(k.all, As) \o words ELSE C!By(k.all, As)
    BY <1>0, <1>1, <1>7
  <1>9. C!Clients(q) = C!Clients(k)
    BY <1>7 DEF C!Clients
  <1>10. ASSUME NEW c \in Client, c \in C!Clients(k)
         PROVE  /\ q.since[c] \in 0 .. Len(q.all)
                /\ g[c] \o q.buffer[c] = C!By(SinceIn(q, c), C!Author \ {c})
    <2> DEFINE n == k.since[c]
               z == SinceIn(k, c)
    <2>1. n \in 0 .. Len(k.all) /\ g[c] \o k.buffer[c] = C!By(z, C!Author \ {c})
      BY <1>10 DEF ToClients
    <2>2. z \in Seq(C!Datum) /\ SinceIn(q, c) = z \o words
      BY <1>1, <1>7, <2>1, SuffixGrows DEF SinceIn
    <2>3. q.since[c] \in 0 .. Len(q.all)
      <3>1. Len(k.all \o words) = Len(k.all) + Len(words) /\ Len(k.all) \in Nat /\ Len(words) \in Nat
        BY <1>1, ConcatProperties
      <3> QED
        BY <1>7, <2>1, <3>1
    <2> HIDE DEF z
    <2>4. C!By(z \o words, C!Author \ {c})
             = IF a \in C!Author \ {c} THEN C!By(z, C!Author \ {c}) \o words ELSE C!By(z, C!Author \ {c})
      BY <1>0, <2>2
    <2>5. CASE a = c
      <3>1. q.buffer[c] = k.buffer[c]
        BY <1>6, <1>7, <2>5
      <3> QED
        BY <2>1, <2>2, <2>3, <2>4, <2>5, <3>1
    <2>6. CASE a # c
      <3>1. q.buffer[c] = k.buffer[c] \o words
        BY <1>6, <1>7, <1>10, <2>6
      <3>2. g[c] \in Seq(C!Datum) /\ k.buffer[c] \in Seq(C!Datum)
        BY <1>3
      <3>3. (g[c] \o k.buffer[c]) \o words = g[c] \o (k.buffer[c] \o words)
        <4>1. ASSUME NEW x \in Seq(C!Datum), NEW y \in Seq(C!Datum), NEW z1 \in Seq(C!Datum)
              PROVE  (x \o y) \o z1 = x \o (y \o z1)
          BY ConcatAssociative
        <4> QED
          BY <3>2, <4>1
      <3>4. a \in C!Author \ {c}
        BY <2>6
      <3> QED
        BY <2>1, <2>2, <2>3, <2>4, <3>1, <3>3, <3>4
    <2> QED
      BY <2>5, <2>6
  <1>11. ASSUME NEW c \in Client, c \notin C!Clients(k) PROVE q.buffer[c] = <<>>
    BY <1>6, <1>7, <1>11 DEF ToClients
  <1>12. ToClients(q, g)
    BY <1>9, <1>10, <1>11 DEF ToClients
  <1> QED
    BY <1>7, <1>8, <1>12

LEMMA CloseTypes ==
  ASSUME NEW k \in ConsoleType, NEW cs
  PROVE  C!Close(k, cs) \in ConsoleType
  <1>1. /\ k.clients \in Seq(Client) /\ k.buffer \in [Client -> Seq(C!Datum)]
    BY DEF ConsoleType
  <1>2. Only(k.clients, Client \ cs) \in Seq(Client)
    BY <1>1, OnlyPicks
  <1>3. [c \in Client |-> IF c \in cs THEN <<>> ELSE k.buffer[c]] \in [Client -> Seq(C!Datum)]
    BY <1>1, EmptySeq
  <1>4. C!Close(k, cs) = [k EXCEPT !.clients = Only(k.clients, Client \ cs),
                                   !.buffer = [c \in Client |-> IF c \in cs THEN <<>> ELSE k.buffer[c]]]
    BY SameOnly DEF C!Close
  <1> QED
    BY <1>2, <1>3, <1>4 DEF ConsoleType

LEMMA CloseOK ==
  ASSUME NEW k, NEW g, NEW p, NEW L, NEW n, NEW r, ConsoleOK(k, g, p, L, n, r), NEW cs,
         NEW q, q = C!Close(k, cs)
  PROVE  ConsoleOK(q, g, p, L, n, r) /\ C!Clients(q) = C!Clients(k) \ cs
  <1>1. /\ k \in ConsoleType /\ k.clients \in Seq(Client) /\ k.buffer \in [Client -> Seq(C!Datum)]
        /\ Once(k.clients)
    BY DEF ConsoleOK, ConsoleType
  <1> DEFINE t == Only(k.clients, Client \ cs)
             to == [c \in Client |-> IF c \in cs THEN <<>> ELSE k.buffer[c]]
  <1>2. t \in Seq(Client) /\ \E h : Picks(h, t, k.clients, Len(k.clients), Client \ cs)
    BY <1>1, OnlyPicks
  <1>3. \A c \in Client : to[c] = IF c \in cs THEN <<>> ELSE k.buffer[c]
    OBVIOUS
  <1>4. q = [k EXCEPT !.clients = t, !.buffer = to]
    BY SameOnly DEF C!Close
  <1>5. \A x : Occurs(t, x) <=> Occurs(k.clients, x) /\ x \in Client \ cs
    BY <1>1, OccursOnly
  <1>6. q \in ConsoleType
    BY <1>1, CloseTypes
  <1> HIDE DEF t, to
  <1>7. q.clients = t /\ q.buffer = to /\ q.all = k.all /\ q.recvbuffer = k.recvbuffer /\ q.since = k.since
    BY <1>1, <1>4 DEF ConsoleType
  <1>8. Once(t)
    <2> PICK h : Picks(h, t, k.clients, Len(k.clients), Client \ cs)
      BY <1>2
    <2>1. /\ h \in [1 .. Len(t) -> 1 .. Len(k.clients)]
          /\ \A i \in 1 .. Len(t) : t[i] = k.clients[h[i]]
          /\ \A i, j \in 1 .. Len(t) : i < j => h[i] < h[j]
      BY DEF Picks
    <2>2. ASSUME NEW i \in 1 .. Len(t), NEW j \in 1 .. Len(t), t[i] = t[j] PROVE i = j
      <3>1. h[i] \in 1 .. Len(k.clients) /\ h[j] \in 1 .. Len(k.clients)
        BY <2>1
      <3>2. h[i] = h[j]
        BY <1>1, <2>1, <2>2, <3>1 DEF Once
      <3>3. ~ (h[i] < h[j]) /\ ~ (h[j] < h[i])
        BY <3>1, <3>2
      <3>4. i \in Int /\ j \in Int /\ ~ (i < j) /\ ~ (j < i)
        BY <2>1, <3>3
      <3> QED
        BY <3>4
    <2> QED
      BY <2>2 DEF Once
  <1>9. \A c : c \in C!Clients(q) <=> c \in C!Clients(k) /\ c \notin cs
    <2>1. \A c : c \in C!Clients(k) <=> Occurs(k.clients, c)
      BY DEF C!Clients, C!ToSet, Occurs
    <2>2. \A c : c \in C!Clients(q) <=> Occurs(t, c)
      BY <1>7 DEF C!Clients, C!ToSet, Occurs
    <2> QED
      BY <1>1, <1>5, <2>1, <2>2, ClientsAre
  <1>10. ToClients(q, g)
    <2>1. \A c : SinceIn(q, c) = SinceIn(k, c)
      BY <1>7 DEF SinceIn
    <2> QED
      BY <1>3, <1>7, <1>9, <2>1 DEF ConsoleOK, ToClients
  <1>11. FromClients(q, p, L, n) /\ ToSketch(q, r)
    BY <1>7 DEF ConsoleOK, FromClients, ToSketch
  <1> QED
    BY <1>6, <1>7, <1>8, <1>9, <1>10, <1>11 DEF ConsoleOK

-----------------------------------------------------------------------------
(* The steps of run: each client is read, gets what it takes, and is closed *)
(* or kept.                                                                 *)
LEMMA SaidBy ==
  ASSUME NEW q \in Seq(C!Datum), NEW words \in Seq(C!Datum), NEW c, NEW m \in Nat,
         q \o words = Sayings(c, m)
  PROVE  ByOne(words, c)
  <1> DEFINE z == q \o words
  <1>1. /\ z \in Seq(C!Datum) /\ Len(z) = Len(q) + Len(words)
        /\ \A i \in 1 .. Len(q) + Len(words) : z[i] = IF i <= Len(q) THEN q[i] ELSE words[i - Len(q)]
    BY ConcatProperties
  <1>2. z = Sayings(c, m)
    OBVIOUS
  <1> HIDE DEF z
  <1>3. DOMAIN z = 1 .. Len(q) + Len(words) /\ Len(q) \in Nat /\ Len(words) \in Nat
    BY <1>1
  <1>4. DOMAIN z = 1 .. m /\ \A i \in 1 .. m : z[i] = <<c, i>>
    BY <1>2 DEF Sayings
  <1>5. ASSUME NEW i \in 1 .. Len(words) PROVE words[i][1] = c
    <2>1. Len(q) + i \in DOMAIN z /\ Len(q) + i \in 1 .. m /\ ~ (Len(q) + i <= Len(q)) /\ (Len(q) + i) - Len(q) = i
      BY <1>3, <1>4
    <2>2. z[Len(q) + i] = words[i] /\ z[Len(q) + i] = <<c, Len(q) + i>>
      BY <1>1, <1>3, <1>4, <2>1
    <2> QED
      BY <2>2
  <1> QED
    BY <1>5 DEF ByOne

Worlds(g, p, L, n, r) ==
    /\ g \in [Client -> Seq(C!Datum)] /\ p \in [Client -> Seq(C!Datum)]
    /\ L \in SUBSET Client /\ n \in [C!Author -> Nat] /\ r \in Seq(C!Datum)

LEMMA ReceiveOK ==
  ASSUME NEW k, NEW g, NEW p, NEW L, NEW n, NEW r, ConsoleOK(k, g, p, L, n, r), Worlds(g, p, L, n, r),
         NEW c \in L, link[c].pending = p[c], NEW q, q = C!Receive(k, c)
  PROVE  ConsoleOK(q, g, [p EXCEPT ![c] = <<>>], L, n, r) /\ C!Clients(q) \subseteq C!Clients(k)
  <1> DEFINE w == p[c]
             v == [p EXCEPT ![c] = <<>>]
  <1>1. /\ k \in ConsoleType /\ k.recvbuffer \in Seq(C!Datum) /\ k.all \in Seq(C!Datum)
        /\ c \in Client /\ c \in C!Author /\ w \in Seq(C!Datum) /\ n[c] \in Nat
        /\ r \in Seq(C!Datum)
    BY DEF ConsoleOK, ConsoleType, Worlds, C!Author
  <1>2. \A d \in Client : v[d] = IF d = c THEN <<>> ELSE p[d]
    BY DEF Worlds
  <1>3. \A d \in L : d \in Client
    BY DEF Worlds
  <1>4. C!By(k.all, {c}) \o w = Sayings(c, n[c])
    BY DEF ConsoleOK, FromClients
  <1>5. ByOne(w, c)
    <2>1. C!By(k.all, {c}) \in Seq(C!Datum)
      BY <1>1, ByTypes
    <2> HIDE DEF w
    <2> QED
      BY <1>1, <1>4, <2>1, SaidBy
  <1>6. CASE w # <<>>
    <2> DEFINE h == [k EXCEPT !.recvbuffer = k.recvbuffer \o w]
    <2>1. q = C!Give(h, w, c)
      BY <1>6 DEF C!Receive
    <2>2. k.recvbuffer \o w \in Seq(C!Datum)
      BY <1>1, ConcatProperties
    <2>3. /\ h \in ConsoleType /\ h.clients = k.clients /\ h.all = k.all /\ h.since = k.since
          /\ h.buffer = k.buffer /\ h.recvbuffer = k.recvbuffer \o w
      BY <1>1, <2>2 DEF ConsoleType
    <2> HIDE DEF h, w, v
    <2>4. C!Clients(h) = C!Clients(k)
      BY <2>3 DEF C!Clients
    <2>5. ToClients(h, g)
      BY <2>3, <2>4 DEF ConsoleOK, ToClients, SinceIn
    <2>6. g \in [Client -> Seq(C!Datum)]
      BY DEF Worlds
    <2>7. /\ q \in ConsoleType /\ ToClients(q, g)
          /\ q.clients = h.clients /\ q.recvbuffer = h.recvbuffer
          /\ \A As : C!By(q.all, As) = IF c \in As THEN C!By(h.all, As) \o w ELSE C!By(h.all, As)
      BY <1>1, <1>5, <2>1, <2>3, <2>5, <2>6, GiveOK
    <2>8. C!Clients(q) = C!Clients(k)
      BY <2>3, <2>7 DEF C!Clients
    <2>9. ASSUME NEW d \in L PROVE C!By(q.all, {d}) \o v[d] = Sayings(d, n[d])
      <3>1. CASE d = c
        <4>1. C!By(q.all, {d}) = Sayings(d, n[d])
          BY <1>4, <2>3, <2>7, <3>1
        <4>2. q.all \in Seq(C!Datum)
          BY <2>7 DEF ConsoleType
        <4>3. C!By(q.all, {d}) \o <<>> = C!By(q.all, {d})
          BY <4>2, ByTypes, ConcatEmptySeq
        <4> QED
          BY <1>1, <1>2, <3>1, <4>1, <4>3
      <3>2. CASE d # c
        <4>1. C!By(q.all, {d}) = C!By(k.all, {d}) /\ v[d] = p[d]
          BY <1>2, <1>3, <2>3, <2>7, <3>2
        <4> QED
          BY <4>1 DEF ConsoleOK, FromClients
      <3> QED
        BY <3>1, <3>2
    <2>10. ToSketch(q, r)
      <3>1. r \o k.recvbuffer = C!By(k.all, Client)
        BY DEF ConsoleOK, ToSketch
      <3>2. C!By(q.all, Client) = C!By(k.all, Client) \o w
        BY <1>1, <2>3, <2>7
      <3>3. (r \o k.recvbuffer) \o w = r \o (k.recvbuffer \o w)
        <4>1. ASSUME NEW x \in Seq(C!Datum), NEW y \in Seq(C!Datum), NEW z \in Seq(C!Datum)
              PROVE  (x \o y) \o z = x \o (y \o z)
          BY ConcatAssociative
        <4> QED
          BY <1>1, <4>1
      <3> QED
        BY <2>3, <2>7, <3>1, <3>2, <3>3 DEF ToSketch
    <2>11. FromClients(q, v, L, n)
      BY <2>9 DEF FromClients
    <2>12. Once(q.clients)
      BY <2>3, <2>7 DEF ConsoleOK
    <2>13. ConsoleOK(q, g, v, L, n, r)
      BY <2>7, <2>10, <2>11, <2>12 DEF ConsoleOK
    <2> QED
      BY <2>8, <2>13 DEF v
  <1>7. CASE w = <<>>
    <2>1. v = p
      BY <1>1, <1>7 DEF Worlds
    <2>2. q = k \/ q = C!Close(k, {c})
      BY <1>7 DEF C!Receive
    <2>3. CASE q = k
      BY <2>1, <2>3
    <2>4. CASE q = C!Close(k, {c})
      <3>1. ConsoleOK(q, g, p, L, n, r) /\ C!Clients(q) = C!Clients(k) \ {c}
        BY <2>4, CloseOK
      <3> QED
        BY <2>1, <3>1
    <2> QED
      BY <2>2, <2>3, <2>4
  <1> QED
    BY <1>6, <1>7

LEMMA ReceiveTypes ==
  ASSUME NEW k \in ConsoleType, NEW c \in Client, link[c].pending \in Seq(C!Datum)
  PROVE  C!Receive(k, c) \in ConsoleType
  <1> DEFINE w == link[c].pending
             h == [k EXCEPT !.recvbuffer = k.recvbuffer \o w]
             to == [d \in Client |-> IF d \in C!Clients(h) \ {c} THEN h.buffer[d] \o w ELSE h.buffer[d]]
  <1>1. k.recvbuffer \o w \in Seq(C!Datum) /\ k.all \o w \in Seq(C!Datum)
    BY ConcatProperties DEF ConsoleType
  <1>2. h \in ConsoleType /\ h.all = k.all
    BY <1>1 DEF ConsoleType
  <1>3. to \in [Client -> Seq(C!Datum)]
    <2> HIDE DEF h
    <2>1. \A d \in Client : h.buffer[d] \in Seq(C!Datum)
      BY <1>2 DEF ConsoleType
    <2> QED
      BY <2>1, ConcatProperties
  <1>4. C!Give(h, w, c) = [h EXCEPT !.buffer = to, !.all = h.all \o w]
    BY DEF C!Give
  <1> HIDE DEF h, to
  <1>5. C!Give(h, w, c) \in ConsoleType
    BY <1>1, <1>2, <1>3, <1>4 DEF ConsoleType
  <1>6. C!Receive(k, c) \in {C!Give(h, w, c), C!Close(k, {c}), k}
    BY DEF C!Receive, h
  <1> QED
    BY <1>5, <1>6, CloseTypes

LEMMA AcceptOK ==
  ASSUME NEW k, NEW g, NEW p, NEW L, NEW n, NEW r, ConsoleOK(k, g, p, L, n, r), Worlds(g, p, L, n, r),
         NEW c \in Client, c \notin C!Clients(k), g[c] = <<>>, NEW q, q = C!Accept(k, c)
  PROVE  ConsoleOK(q, g, p, L, n, r) /\ C!Clients(q) = C!Clients(k) \cup {c}
  <1>1. /\ k \in ConsoleType /\ k.clients \in Seq(Client) /\ k.since \in [Client -> Nat]
        /\ k.all \in Seq(C!Datum) /\ Len(k.all) \in Nat /\ Once(k.clients)
    BY DEF ConsoleOK, ConsoleType
  <1> DEFINE t == Append(k.clients, c)
  <1>2. /\ t \in Seq(Client) /\ Len(t) = Len(k.clients) + 1
        /\ \A i \in 1 .. Len(t) : t[i] = IF i <= Len(k.clients) THEN k.clients[i] ELSE c
        /\ Len(k.clients) \in Nat
    BY <1>1
  <1>3. q = [k EXCEPT !.clients = t, !.since = [k.since EXCEPT ![c] = Len(k.all)]]
    BY DEF C!Accept
  <1> HIDE DEF t
  <1>4. /\ q \in ConsoleType
        /\ q.clients = t /\ q.since = [k.since EXCEPT ![c] = Len(k.all)]
        /\ q.all = k.all /\ q.buffer = k.buffer /\ q.recvbuffer = k.recvbuffer
    BY <1>1, <1>2, <1>3 DEF ConsoleType
  <1>5. \A d : d \in C!Clients(q) <=> d \in C!Clients(k) \/ d = c
    <2>1. ASSUME NEW d, d \in C!Clients(q) PROVE d \in C!Clients(k) \/ d = c
      <3>1. PICK i \in 1 .. Len(t) : t[i] = d
        BY <1>4, <2>1, ClientsAre
      <3>2. i <= Len(k.clients) => i \in 1 .. Len(k.clients)
        BY <1>2
      <3> QED
        BY <1>1, <1>2, <3>1, <3>2, ClientsAre
    <2>2. ASSUME NEW d, d \in C!Clients(k) PROVE d \in C!Clients(q)
      <3>1. PICK i \in 1 .. Len(k.clients) : k.clients[i] = d
        BY <1>1, <2>2, ClientsAre
      <3>2. i \in 1 .. Len(t) /\ t[i] = d
        BY <1>2, <3>1
      <3> QED
        BY <1>4, <3>2, ClientsAre
    <2>3. c \in C!Clients(q)
      <3>1. Len(t) \in 1 .. Len(t) /\ t[Len(t)] = c
        BY <1>2
      <3> QED
        BY <1>4, <3>1, ClientsAre
    <2> QED
      BY <2>1, <2>2, <2>3
  <1>6. Once(q.clients)
    <2>1. ASSUME NEW i \in 1 .. Len(t), NEW j \in 1 .. Len(t), t[i] = t[j] PROVE i = j
      <3>1. \A m \in 1 .. Len(k.clients) : k.clients[m] # c
        BY <1>1, ClientsAre
      <3>2. \A m \in 1 .. Len(t) : \/ m \in 1 .. Len(k.clients) /\ t[m] = k.clients[m]
                                   \/ m = Len(t) /\ t[m] = c
        BY <1>2
      <3> QED
        BY <1>1, <2>1, <3>1, <3>2 DEF Once
    <2> QED
      BY <1>4, <2>1 DEF Once
  <1>7. ToClients(q, g)
    <2>1. ASSUME NEW d \in Client, d \in C!Clients(q)
          PROVE  /\ q.since[d] \in 0 .. Len(q.all)
                 /\ g[d] \o q.buffer[d] = C!By(SinceIn(q, d), C!Author \ {d})
      <3>1. CASE d = c
        <4>1. q.since[d] = Len(k.all)
          BY <1>1, <1>4, <3>1
        <4>2. SinceIn(q, d) = <<>>
          BY <1>1, <1>4, <4>1, SubSeqEmpty DEF SinceIn
        <4>3. C!By(<<>>, C!Author \ {d}) = <<>>
          BY SameOnly, OnlyNothing DEF C!By
        <4>4. q.buffer[d] = <<>>
          BY <1>4, <3>1 DEF ConsoleOK, ToClients
        <4>5. <<>> \o <<>> = <<>>
          BY ConcatEmptySeq, EmptySeq
        <4> QED
          BY <1>1, <1>4, <3>1, <4>1, <4>2, <4>3, <4>4, <4>5
      <3>2. CASE d # c
        <4>1. q.since[d] = k.since[d] /\ d \in C!Clients(k)
          BY <1>1, <1>4, <1>5, <2>1, <3>2
        <4>2. SinceIn(q, d) = SinceIn(k, d)
          BY <1>4, <4>1 DEF SinceIn
        <4> QED
          BY <1>4, <4>1, <4>2 DEF ConsoleOK, ToClients
      <3> QED
        BY <3>1, <3>2
    <2>2. ASSUME NEW d \in Client, d \notin C!Clients(q) PROVE q.buffer[d] = <<>>
      BY <1>4, <1>5, <2>2 DEF ConsoleOK, ToClients
    <2> QED
      BY <2>1, <2>2 DEF ToClients
  <1>8. FromClients(q, p, L, n) /\ ToSketch(q, r)
    BY <1>4 DEF ConsoleOK, FromClients, ToSketch
  <1> QED
    BY <1>4, <1>5, <1>6, <1>7, <1>8 DEF ConsoleOK

(* What the clients have got when each has taken as much as it will.        *)
Taken(k, g, much) ==
    [c \in Client |-> IF c \in C!Clients(k)
                      THEN g[c] \o SubSeq(k.buffer[c], 1, much[c]) ELSE g[c]]

LEMMA SendOK ==
  ASSUME NEW k, NEW g, NEW p, NEW L, NEW n, NEW r, ConsoleOK(k, g, p, L, n, r), Worlds(g, p, L, n, r),
         NEW much, \A c \in C!Clients(k) : much[c] \in 0 .. Len(k.buffer[c]),
         NEW q, q = C!SendAll(k, much),
         NEW h, h = Taken(k, g, much)
  PROVE  ConsoleOK(q, h, p, L, n, r) /\ Worlds(h, p, L, n, r) /\ C!Clients(q) = C!Clients(k)
  <1>0. h = [c \in Client |-> IF c \in C!Clients(k)
                              THEN g[c] \o SubSeq(k.buffer[c], 1, much[c]) ELSE g[c]]
    BY DEF Taken
  <1>1. /\ k \in ConsoleType /\ k.buffer \in [Client -> Seq(C!Datum)]
        /\ g \in [Client -> Seq(C!Datum)] /\ C!Clients(k) \subseteq Client
    BY ClientsAre DEF ConsoleOK, ConsoleType, Worlds
  <1> DEFINE to == [c \in Client |-> IF c \in C!Clients(k)
                                     THEN SubSeq(k.buffer[c], much[c] + 1, Len(k.buffer[c]))
                                     ELSE k.buffer[c]]
  <1>2. ASSUME NEW c \in C!Clients(k)
        PROVE  /\ to[c] \in Seq(C!Datum) /\ h[c] \in Seq(C!Datum)
               /\ h[c] \o to[c] = g[c] \o k.buffer[c]
    <2> DEFINE m == much[c]
               b == k.buffer[c]
               a == g[c]
    <2>1. m \in 0 .. Len(b) /\ b \in Seq(C!Datum) /\ a \in Seq(C!Datum) /\ c \in Client
      BY <1>1
    <2>2. to[c] = SubSeq(b, m + 1, Len(b)) /\ h[c] = a \o SubSeq(b, 1, m)
      BY <1>0, <1>1
    <2> HIDE DEF to, m, b, a
    <2>3. /\ a \o SubSeq(b, 1, m) \in Seq(C!Datum) /\ SubSeq(b, m + 1, Len(b)) \in Seq(C!Datum)
          /\ (a \o SubSeq(b, 1, m)) \o SubSeq(b, m + 1, Len(b)) = a \o b
      BY <2>1, Moved
    <2> QED
      BY <2>2, <2>3 DEF a, b
  <1>3. ASSUME NEW c \in Client, c \notin C!Clients(k) PROVE to[c] = k.buffer[c] /\ h[c] = g[c]
    BY <1>0, <1>3
  <1>4. to \in [Client -> Seq(C!Datum)] /\ h \in [Client -> Seq(C!Datum)]
    <2>1. \A c \in Client : to[c] \in Seq(C!Datum) /\ h[c] \in Seq(C!Datum)
      BY <1>1, <1>2, <1>3
    <2> QED
      BY <1>0, <2>1
  <1>5. q = [k EXCEPT !.buffer = to]
    BY DEF C!SendAll
  <1> HIDE DEF to
  <1>6. /\ q \in ConsoleType /\ q.clients = k.clients /\ q.buffer = to
        /\ q.all = k.all /\ q.recvbuffer = k.recvbuffer /\ q.since = k.since
    BY <1>1, <1>4, <1>5 DEF ConsoleType
  <1>7. C!Clients(q) = C!Clients(k)
    BY <1>6 DEF C!Clients
  <1>8. ToClients(q, h)
    <2>1. \A c : SinceIn(q, c) = SinceIn(k, c)
      BY <1>6 DEF SinceIn
    <2>2. ASSUME NEW c \in Client, c \in C!Clients(k)
          PROVE  /\ q.since[c] \in 0 .. Len(q.all)
                 /\ h[c] \o q.buffer[c] = C!By(SinceIn(q, c), C!Author \ {c})
      BY <1>2, <1>6, <2>1, <2>2 DEF ConsoleOK, ToClients
    <2>3. ASSUME NEW c \in Client, c \notin C!Clients(k) PROVE q.buffer[c] = <<>>
      BY <1>3, <1>6, <2>3 DEF ConsoleOK, ToClients
    <2> QED
      BY <1>7, <2>2, <2>3 DEF ToClients
  <1>9. FromClients(q, p, L, n) /\ ToSketch(q, r) /\ Once(q.clients)
    BY <1>6 DEF ConsoleOK, FromClients, ToSketch
  <1>10. Worlds(h, p, L, n, r)
    BY <1>4 DEF Worlds
  <1> QED
    BY <1>6, <1>7, <1>8, <1>9, <1>10 DEF ConsoleOK

(* What is left on its way when the first m of the clients have been read.  *)
Unread(p, clients, m) ==
    [c \in Client |-> IF \E i \in 1 .. m : clients[i] = c THEN <<>> ELSE p[c]]

LEMMA ReceiveSteps ==
  ASSUME NEW k \in ConsoleType, NEW clients \in Seq(Client),
         \A c \in Client : link[c].pending \in Seq(C!Datum)
  PROVE  \E f : /\ C!ReceiveAll(k, clients) = f[Len(clients)] /\ f[0] = k
                /\ \A m \in 1 .. Len(clients) : f[m] = C!Receive(f[m - 1], clients[m])
  <1> DEFINE N == Len(clients)
             step == [x \in (1 .. N) \X ConsoleType |-> C!Receive(x[2], clients[x[1]])]
             Body(f) == [m \in 0 .. N |-> IF m = 0 THEN k ELSE C!Receive(f[m - 1], clients[m])]
             heard == CHOOSE f : f = Body(f)
  <1>1. N \in Nat /\ \A m \in 1 .. N : clients[m] \in Client
    OBVIOUS
  <1>2. step \in [(1 .. N) \X ConsoleType -> ConsoleType]
    <2>1. ASSUME NEW x \in (1 .. N) \X ConsoleType
          PROVE  C!Receive(x[2], clients[x[1]]) \in ConsoleType
      <3>1. x[2] \in ConsoleType /\ clients[x[1]] \in Client
        BY <1>1
      <3> QED
        BY <3>1, ReceiveTypes
    <2> QED
      BY <2>1
  <1>3. PICK f \in [0 .. N -> ConsoleType] :
           f[0] = k /\ \A m \in 1 .. N : f[m] = step[<<m, f[m - 1]>>]
    <2>1. HasRecursive(ConsoleType, N, k, step)
      <3> HIDE DEF step, N
      <3> QED
        BY <1>1, <1>2, Recursion
    <2> HIDE DEF step, N
    <2> QED
      BY <2>1 DEF HasRecursive, Recursive
  <1>4. \A m \in 1 .. N : f[m] = C!Receive(f[m - 1], clients[m])
    <2> SUFFICES ASSUME NEW m \in 1 .. N PROVE f[m] = C!Receive(f[m - 1], clients[m])
      OBVIOUS
    <2>1. <<m, f[m - 1]>> \in (1 .. N) \X ConsoleType
      BY <1>1
    <2> QED
      BY <1>3, <2>1
  <1>5. f = Body(f)
    <2>1. ASSUME NEW m \in 0 .. N PROVE f[m] = Body(f)[m]
      <3>1. CASE m = 0
        BY <1>3, <3>1
      <3>2. CASE m # 0
        <4>1. m \in 1 .. N
          BY <1>1, <3>2
        <4> QED
          BY <1>4, <3>2, <4>1
      <3> QED
        BY <3>1, <3>2
    <2>2. f = [m \in 0 .. N |-> f[m]]
      OBVIOUS
    <2>3. Body(f) = [m \in 0 .. N |-> Body(f)[m]]
      OBVIOUS
    <2> HIDE DEF Body, N
    <2> QED
      BY <2>1, <2>2, <2>3
  <1>6. heard = Body(heard)
    <2> HIDE DEF Body
    <2> QED
      BY <1>5
  <1>7. C!ReceiveAll(k, clients) = heard[N]
    BY DEF C!ReceiveAll
  <1> HIDE DEF heard
  <1>8. heard[0] = k /\ \A m \in 1 .. N : heard[m] = C!Receive(heard[m - 1], clients[m])
    <2>1. \A m \in 0 .. N : heard[m] = Body(heard)[m]
      BY <1>6
    <2> QED
      BY <1>1, <2>1
  <1> QED
    BY <1>7, <1>8

LEMMA ReceiveAllOK ==
  ASSUME NEW k, NEW g, NEW p, NEW L, NEW n, NEW r, ConsoleOK(k, g, p, L, n, r), Worlds(g, p, L, n, r),
         NEW clients \in Seq(Client), Once(clients),
         \A i \in 1 .. Len(clients) : clients[i] \in L,
         \A c \in Client : link[c].pending = p[c],
         NEW q, q = C!ReceiveAll(k, clients)
  PROVE  /\ ConsoleOK(q, g, Unread(p, clients, Len(clients)), L, n, r)
         /\ Worlds(g, Unread(p, clients, Len(clients)), L, n, r)
         /\ C!Clients(q) \subseteq C!Clients(k)
  <1>1. Len(clients) \in Nat /\ \A m \in 1 .. Len(clients) : clients[m] \in Client
    OBVIOUS
  <1>2. \A c \in Client : p[c] \in Seq(C!Datum) /\ link[c].pending \in Seq(C!Datum)
    BY DEF Worlds
  <1>3. PICK f : /\ q = f[Len(clients)] /\ f[0] = k
                 /\ \A m \in 1 .. Len(clients) : f[m] = C!Receive(f[m - 1], clients[m])
    <2>1. k \in ConsoleType
      BY DEF ConsoleOK
    <2> QED
      BY <1>2, <2>1, ReceiveSteps
  <1>4. \A m : Worlds(g, Unread(p, clients, m), L, n, r)
    <2> SUFFICES ASSUME NEW m PROVE Unread(p, clients, m) \in [Client -> Seq(C!Datum)]
      BY DEF Worlds
    <2>1. <<>> \in Seq(C!Datum)
      BY EmptySeq
    <2> QED
      BY <1>2, <2>1 DEF Unread
  <1> DEFINE Good(m) == ConsoleOK(f[m], g, Unread(p, clients, m), L, n, r) /\ C!Clients(f[m]) \subseteq C!Clients(k)
             Bad == {m \in 0 .. Len(clients) : ~ Good(m)}
  <1>5. Good(0)
    <2>1. Unread(p, clients, 0) = p
      <3>1. \A c \in Client : ~ \E i \in 1 .. 0 : clients[i] = c
        OBVIOUS
      <3> QED
        BY <3>1 DEF Unread, Worlds
    <2> QED
      BY <1>3, <2>1
  <1>6. ASSUME NEW m \in 1 .. Len(clients), Good(m - 1) PROVE Good(m)
    <2> DEFINE v == Unread(p, clients, m - 1)
               c == clients[m]
    <2>1. c \in L /\ c \in Client
      BY <1>1
    <2>2. ~ \E i \in 1 .. m - 1 : clients[i] = c
      <3> SUFFICES ASSUME NEW i \in 1 .. m - 1, clients[i] = c PROVE FALSE
        OBVIOUS
      <3>1. i \in 1 .. Len(clients) /\ i # m
        BY <1>1
      <3> QED
        BY <3>1 DEF Once
    <2>3. link[c].pending = v[c]
      BY <2>1, <2>2 DEF Unread
    <2>4. [v EXCEPT ![c] = <<>>] = Unread(p, clients, m)
      <3>1. ASSUME NEW d \in Client
            PROVE  (\E i \in 1 .. m : clients[i] = d) <=> d = c \/ (\E i \in 1 .. m - 1 : clients[i] = d)
        <4>1. \A i \in 1 .. m : i = m \/ i \in 1 .. m - 1
          BY <1>1
        <4>2. m \in 1 .. m /\ \A i \in 1 .. m - 1 : i \in 1 .. m
          BY <1>1
        <4> QED
          BY <4>1, <4>2
      <3> QED
        BY <2>1, <3>1 DEF Unread
    <2>5. f[m] = C!Receive(f[m - 1], c)
      BY <1>3
    <2>6. ConsoleOK(f[m - 1], g, v, L, n, r) /\ C!Clients(f[m - 1]) \subseteq C!Clients(k)
      BY <1>6
    <2>7. Worlds(g, v, L, n, r)
      BY <1>4
    <2> HIDE DEF v, c
    <2>8. /\ ConsoleOK(f[m], g, [v EXCEPT ![c] = <<>>], L, n, r)
          /\ C!Clients(f[m]) \subseteq C!Clients(f[m - 1])
      BY <2>1, <2>3, <2>5, <2>6, <2>7, ReceiveOK
    <2> QED
      BY <2>4, <2>6, <2>8
  <1>7. Bad = {}
    <2> SUFFICES ASSUME Bad # {} PROVE FALSE
      OBVIOUS
    <2>1. Bad \in SUBSET Nat
      BY <1>1
    <2>2. PICK m \in Bad : \A j \in Bad : m <= j
      <3> HIDE DEF Bad
      <3> QED
        BY <2>1, LeastNatural
    <2> HIDE DEF Good
    <2>3. m # 0
      BY <1>5, <2>2
    <2>4. m \in 1 .. Len(clients) /\ m - 1 \in 0 .. Len(clients) /\ ~ (m <= m - 1)
      BY <1>1, <2>2, <2>3
    <2>5. Good(m - 1)
      BY <2>2, <2>4
    <2> QED
      BY <1>6, <2>2, <2>4, <2>5
  <1>8. Good(Len(clients))
    <2> HIDE DEF Good
    <2> QED
      BY <1>1, <1>7
  <1> QED
    BY <1>3, <1>4, <1>8

LEMMA DropSteps ==
  ASSUME NEW k \in ConsoleType
  PROVE  \E f : /\ C!DropStarving(k) = f[Len(k.clients)] /\ f[0] = k
                /\ \A m \in 1 .. Len(k.clients) : f[m] = C!DropAt(f[m - 1], m)
  <1> DEFINE N == Len(k.clients)
             step == [x \in (1 .. N) \X ConsoleType |-> C!DropAt(x[2], x[1])]
             Body(f) == [m \in 0 .. N |-> IF m = 0 THEN k ELSE C!DropAt(f[m - 1], m)]
             dropped == CHOOSE f : f = Body(f)
  <1>1. N \in Nat
    BY DEF ConsoleType
  <1>2. step \in [(1 .. N) \X ConsoleType -> ConsoleType]
    <2>1. ASSUME NEW x \in (1 .. N) \X ConsoleType PROVE C!DropAt(x[2], x[1]) \in ConsoleType
      <3>1. x[2] \in ConsoleType
        BY <2>1
      <3> QED
        BY <3>1, CloseTypes DEF C!DropAt
    <2> QED
      BY <2>1
  <1>3. PICK f \in [0 .. N -> ConsoleType] :
           f[0] = k /\ \A m \in 1 .. N : f[m] = step[<<m, f[m - 1]>>]
    <2>1. HasRecursive(ConsoleType, N, k, step)
      <3> HIDE DEF step, N
      <3> QED
        BY <1>1, <1>2, Recursion
    <2> HIDE DEF step, N
    <2> QED
      BY <2>1 DEF HasRecursive, Recursive
  <1>4. \A m \in 1 .. N : f[m] = C!DropAt(f[m - 1], m)
    <2> SUFFICES ASSUME NEW m \in 1 .. N PROVE f[m] = C!DropAt(f[m - 1], m)
      OBVIOUS
    <2>1. <<m, f[m - 1]>> \in (1 .. N) \X ConsoleType
      BY <1>1
    <2> QED
      BY <1>3, <2>1
  <1>5. f = Body(f)
    <2>1. ASSUME NEW m \in 0 .. N PROVE f[m] = Body(f)[m]
      <3>1. CASE m = 0
        BY <1>3, <3>1
      <3>2. CASE m # 0
        <4>1. m \in 1 .. N
          BY <1>1, <3>2
        <4> QED
          BY <1>4, <3>2, <4>1
      <3> QED
        BY <3>1, <3>2
    <2>2. f = [m \in 0 .. N |-> f[m]]
      OBVIOUS
    <2>3. Body(f) = [m \in 0 .. N |-> Body(f)[m]]
      OBVIOUS
    <2> HIDE DEF Body, N
    <2> QED
      BY <2>1, <2>2, <2>3
  <1>6. dropped = Body(dropped)
    <2> HIDE DEF Body
    <2> QED
      BY <1>5
  <1>7. C!DropStarving(k) = dropped[N]
    BY DEF C!DropStarving
  <1> HIDE DEF dropped
  <1>8. dropped[0] = k /\ \A m \in 1 .. N : dropped[m] = C!DropAt(dropped[m - 1], m)
    <2>1. dropped[0] = k
      <3>1. 0 \in 0 .. N
        BY <1>1
      <3>2. Body(dropped)[0] = k
        BY <3>1
      <3> HIDE DEF Body
      <3> QED
        BY <1>6, <3>2
    <2>2. ASSUME NEW m \in 1 .. N PROVE dropped[m] = C!DropAt(dropped[m - 1], m)
      <3>1. m \in 0 .. N /\ m # 0
        BY <1>1
      <3>2. Body(dropped)[m] = C!DropAt(dropped[m - 1], m)
        BY <3>1
      <3> HIDE DEF Body
      <3> QED
        BY <1>6, <3>2
    <2> QED
      BY <2>1, <2>2
  <1> QED
    BY <1>7, <1>8

LEMMA DropStarvingOK ==
  ASSUME NEW k, NEW g, NEW p, NEW L, NEW n, NEW r, ConsoleOK(k, g, p, L, n, r),
         NEW q, q = C!DropStarving(k)
  PROVE  ConsoleOK(q, g, p, L, n, r) /\ C!Clients(q) \subseteq C!Clients(k)
  <1>1. k \in ConsoleType /\ Len(k.clients) \in Nat
    BY DEF ConsoleOK, ConsoleType
  <1>2. PICK f : /\ q = f[Len(k.clients)] /\ f[0] = k
                 /\ \A m \in 1 .. Len(k.clients) : f[m] = C!DropAt(f[m - 1], m)
    BY <1>1, DropSteps
  <1> DEFINE Good(m) == ConsoleOK(f[m], g, p, L, n, r) /\ C!Clients(f[m]) \subseteq C!Clients(k)
             Bad == {m \in 0 .. Len(k.clients) : ~ Good(m)}
  <1>3. Good(0)
    BY <1>2
  <1>4. ASSUME NEW m \in 1 .. Len(k.clients), Good(m - 1) PROVE Good(m)
    <2>1. f[m] = C!DropAt(f[m - 1], m)
      BY <1>2
    <2>2. CASE f[m] = f[m - 1]
      BY <1>4, <2>2
    <2>3. CASE f[m] # f[m - 1]
      <3>1. PICK cs : f[m] = C!Close(f[m - 1], cs)
        BY <2>1, <2>3 DEF C!DropAt
      <3>2. ConsoleOK(f[m], g, p, L, n, r) /\ C!Clients(f[m]) = C!Clients(f[m - 1]) \ cs
        BY <1>4, <3>1, CloseOK
      <3> QED
        BY <1>4, <3>2
    <2> QED
      BY <2>2, <2>3
  <1>5. Bad = {}
    <2> SUFFICES ASSUME Bad # {} PROVE FALSE
      OBVIOUS
    <2>1. Bad \in SUBSET Nat
      BY <1>1
    <2>2. PICK m \in Bad : \A j \in Bad : m <= j
      <3> HIDE DEF Bad
      <3> QED
        BY <2>1, LeastNatural
    <2> HIDE DEF Good
    <2>3. m # 0
      BY <1>3, <2>2
    <2>4. m \in 1 .. Len(k.clients) /\ m - 1 \in 0 .. Len(k.clients) /\ ~ (m <= m - 1)
      BY <1>1, <2>2, <2>3
    <2>5. Good(m - 1)
      BY <2>2, <2>4
    <2> QED
      BY <1>4, <2>2, <2>4, <2>5
  <1>6. Good(Len(k.clients))
    <2> HIDE DEF Good
    <2> QED
      BY <1>1, <1>5
  <1> QED
    BY <1>2, <1>6

-----------------------------------------------------------------------------
Waiting == [c \in Client |-> link[c].pending]
Alive   == {c \in Client : link[c].state # "closed"}

LinkType == [Client -> [state : {"new", "waiting", "open", "left", "closed"},
                        pending : Seq(C!Datum)]]

(* The inductive invariant of the console.                                  *)
ConsoleInv ==
    /\ link \in LinkType /\ said \in [C!Author -> 0 .. CONSOLE_TOTAL]
    /\ got \in [Client -> Seq(C!Datum)] /\ read \in Seq(C!Datum)
    /\ ConsoleOK(con, got, Waiting, Alive, said, read)
    /\ \A c \in Client :
          /\ c \in C!Clients(con) <=> link[c].state \in {"open", "left"}
          /\ link[c].state \in {"new", "waiting"} => got[c] = <<>>

LEMMA ConsoleWorlds ==
  ASSUME ConsoleInv
  PROVE  Worlds(got, Waiting, Alive, said, read)
  <1>1. Waiting \in [Client -> Seq(C!Datum)]
    BY DEF ConsoleInv, Waiting, LinkType
  <1>2. Alive \in SUBSET Client
    BY DEF Alive
  <1>3. said \in [C!Author -> Nat]
    BY DEF ConsoleInv, ConsoleAssumption
  <1> QED
    BY <1>1, <1>2, <1>3 DEF ConsoleInv, Worlds

LEMMA ConsoleInit == C!Init => ConsoleInv
  <1> SUFFICES ASSUME C!Init PROVE ConsoleInv
    OBVIOUS
  <1>0. <<>> \in Seq(C!Datum) /\ <<>> \in Seq(Client) /\ Len(<<>>) = 0 /\ CONSOLE_TOTAL \in Nat
    BY ConsoleAssumption
  <1>1. /\ link = [c \in Client |-> [state |-> "new", pending |-> <<>>]]
        /\ got = [c \in Client |-> <<>>] /\ read = <<>>
        /\ said = [a \in C!Author |-> 0]
        /\ con = [clients |-> <<>>, buffer |-> [c \in Client |-> <<>>], recvbuffer |-> <<>>,
                  all |-> <<>>, since |-> [c \in Client |-> 0]]
    BY DEF C!Init
  <1>2. link \in LinkType /\ said \in [C!Author -> 0 .. CONSOLE_TOTAL]
        /\ got \in [Client -> Seq(C!Datum)] /\ read \in Seq(C!Datum)
    BY <1>0, <1>1 DEF LinkType
  <1>3. con \in ConsoleType /\ con.clients = <<>> /\ con.all = <<>> /\ con.recvbuffer = <<>>
        /\ con.buffer = [c \in Client |-> <<>>]
    BY <1>0, <1>1 DEF ConsoleType
  <1>4. Once(con.clients) /\ \A c : c \notin C!Clients(con)
    BY <1>0, <1>3, ClientsAre DEF Once
  <1>5. ToClients(con, got)
    BY <1>3, <1>4 DEF ToClients
  <1>6. \A As : C!By(<<>>, As) = <<>>
    BY SameOnly, OnlyNothing DEF C!By
  <1>7. <<>> \o <<>> = <<>>
    BY ConcatEmptySeq, EmptySeq
  <1>8. \A c : Sayings(c, 0) = <<>>
    BY DEF Sayings
  <1>9. FromClients(con, Waiting, Alive, said)
    <2>1. ASSUME NEW c \in Alive PROVE Waiting[c] = <<>> /\ said[c] = 0
      BY <1>1 DEF Alive, Waiting, C!Author
    <2> QED
      BY <1>3, <1>6, <1>7, <1>8, <2>1 DEF FromClients
  <1>10. ToSketch(con, read)
    BY <1>1, <1>3, <1>6, <1>7 DEF ToSketch
  <1>11. \A c \in Client : link[c].state = "new" /\ got[c] = <<>>
    BY <1>1
  <1> QED
    BY <1>2, <1>3, <1>4, <1>5, <1>9, <1>10, <1>11 DEF ConsoleInv, ConsoleOK

LEMMA RunKeeps == ConsoleInv /\ C!Run => ConsoleInv'
  <1> SUFFICES ASSUME ConsoleInv, C!Run PROVE ConsoleInv'
    OBVIOUS
  <1>1. PICK accepted \in {con} \cup {C!Accept(con, c) : c \in {c \in Client : link[c].state = "waiting"}} :
          \E failed \in SUBSET {c \in C!Clients(C!ReceiveAll(accepted, con.clients)) : link[c].state = "left"},
             much \in [C!Clients(C!ReceiveAll(accepted, con.clients))
                         -> 0 .. Len(C!ReceiveAll(accepted, con.clients).all)] :
             /\ \A c \in C!Clients(C!ReceiveAll(accepted, con.clients)) :
                   much[c] <= Len(C!ReceiveAll(accepted, con.clients).buffer[c])
             /\ con' = C!DropStarving(C!Close(C!SendAll(C!ReceiveAll(accepted, con.clients), much), failed))
             /\ got' = [c \in Client |->
                          IF c \in C!Clients(C!ReceiveAll(accepted, con.clients))
                          THEN got[c] \o SubSeq(C!ReceiveAll(accepted, con.clients).buffer[c], 1, much[c])
                          ELSE got[c]]
             /\ link' = [c \in Client |->
                           IF c \in C!Clients(con')
                           THEN [state |-> IF link[c].state = "left" THEN "left" ELSE "open",
                                 pending |-> IF c \in C!Clients(con) THEN <<>> ELSE link[c].pending]
                           ELSE IF c \in C!Clients(accepted)
                           THEN [state |-> "closed", pending |-> <<>>]
                           ELSE link[c]]
    BY DEF C!Run
  <1> DEFINE heard == C!ReceiveAll(accepted, con.clients)
             left == Unread(Waiting, con.clients, Len(con.clients))
  <1>2. PICK failed \in SUBSET {c \in C!Clients(heard) : link[c].state = "left"},
             much \in [C!Clients(heard) -> 0 .. Len(heard.all)] :
             /\ \A c \in C!Clients(heard) : much[c] <= Len(heard.buffer[c])
             /\ con' = C!DropStarving(C!Close(C!SendAll(heard, much), failed))
             /\ got' = [c \in Client |-> IF c \in C!Clients(heard)
                                         THEN got[c] \o SubSeq(heard.buffer[c], 1, much[c]) ELSE got[c]]
             /\ link' = [c \in Client |->
                           IF c \in C!Clients(con')
                           THEN [state |-> IF link[c].state = "left" THEN "left" ELSE "open",
                                 pending |-> IF c \in C!Clients(con) THEN <<>> ELSE link[c].pending]
                           ELSE IF c \in C!Clients(accepted)
                           THEN [state |-> "closed", pending |-> <<>>]
                           ELSE link[c]]
    BY <1>1
  <1>3. read' = read /\ said' = said
    BY DEF C!Run
  <1>4. /\ con \in ConsoleType /\ con.clients \in Seq(Client) /\ Once(con.clients)
        /\ ConsoleOK(con, got, Waiting, Alive, said, read) /\ link \in LinkType
        /\ Worlds(got, Waiting, Alive, said, read)
        /\ \A c \in Client : /\ c \in C!Clients(con) <=> link[c].state \in {"open", "left"}
                             /\ link[c].state \in {"new", "waiting"} => got[c] = <<>>
    BY ConsoleWorlds DEF ConsoleInv, ConsoleOK, ConsoleType
  <1>5. \A c : c \in C!Clients(con) <=> \E i \in 1 .. Len(con.clients) : con.clients[i] = c
    BY <1>4, ClientsAre
  <1>6. C!Clients(con) \subseteq Client /\ C!Clients(con) \subseteq Alive
    BY <1>4, ClientsAre DEF Alive
  <1>7. /\ ConsoleOK(accepted, got, Waiting, Alive, said, read)
        /\ C!Clients(con) \subseteq C!Clients(accepted)
        /\ \A c \in C!Clients(accepted) : c \in C!Clients(con) \/ link[c].state = "waiting"
    <2>1. CASE accepted = con
      BY <1>4, <2>1
    <2>2. CASE accepted # con
      <3>1. PICK c \in Client : link[c].state = "waiting" /\ accepted = C!Accept(con, c)
        BY <1>1, <2>2
      <3>2. c \notin C!Clients(con) /\ got[c] = <<>>
        BY <1>4, <3>1
      <3>3. /\ ConsoleOK(accepted, got, Waiting, Alive, said, read)
            /\ C!Clients(accepted) = C!Clients(con) \cup {c}
        BY <1>4, <3>1, <3>2, AcceptOK
      <3> QED
        BY <3>1, <3>3
    <2> QED
      BY <2>1, <2>2
  <1>8. /\ ConsoleOK(heard, got, left, Alive, said, read) /\ Worlds(got, left, Alive, said, read)
        /\ C!Clients(heard) \subseteq C!Clients(accepted)
    <2>1. \A i \in 1 .. Len(con.clients) : con.clients[i] \in Alive
      BY <1>5, <1>6
    <2>2. \A c \in Client : link[c].pending = Waiting[c]
      BY DEF Waiting
    <2> HIDE DEF left
    <2> QED
      BY <1>4, <1>7, <2>1, <2>2, ReceiveAllOK DEF left
  <1> HIDE DEF heard
  <1> DEFINE served == C!SendAll(heard, much)
             rest == C!Close(served, failed)
  <1>9. /\ ConsoleOK(served, got', left, Alive, said, read) /\ Worlds(got', left, Alive, said, read)
        /\ C!Clients(served) = C!Clients(heard)
    <2>1. \A c \in C!Clients(heard) : much[c] \in 0 .. Len(heard.buffer[c])
      <3>1. ASSUME NEW c \in C!Clients(heard) PROVE much[c] \in 0 .. Len(heard.buffer[c])
        <4>1. heard \in ConsoleType /\ c \in Client
          BY <1>8, ClientsAre DEF ConsoleOK
        <4>2. Len(heard.buffer[c]) \in Nat /\ Len(heard.all) \in Nat
          BY <4>1 DEF ConsoleType
        <4>3. much[c] \in 0 .. Len(heard.all) /\ much[c] <= Len(heard.buffer[c])
          BY <1>2
        <4> QED
          BY <4>2, <4>3
      <3> QED
        BY <3>1
    <2>2. got' = Taken(heard, got, much)
      BY <1>2 DEF Taken
    <2> HIDE DEF left
    <2> QED
      BY <1>8, <2>1, <2>2, SendOK
  <1> HIDE DEF served
  <1>10. ConsoleOK(rest, got', left, Alive, said, read) /\ C!Clients(rest) = C!Clients(served) \ failed
    <2> HIDE DEF left
    <2> QED
      BY <1>9, CloseOK
  <1>11. ConsoleOK(con', got', left, Alive, said, read) /\ C!Clients(con') \subseteq C!Clients(rest)
    <2> HIDE DEF left, rest
    <2>1. con' = C!DropStarving(rest)
      BY <1>2 DEF rest, served
    <2> QED
      BY <1>10, <2>1, DropStarvingOK
  <1> HIDE DEF rest
  <1>12. C!Clients(con') \subseteq C!Clients(accepted) /\ C!Clients(accepted) \subseteq Client
    <2>1. accepted \in ConsoleType
      BY <1>7 DEF ConsoleOK
    <2> QED
      BY <1>8, <1>9, <1>10, <1>11, <2>1, ClientsAre
  <1>13. \A c \in Client : left[c] = IF c \in C!Clients(con) THEN <<>> ELSE link[c].pending
    BY <1>5 DEF Unread, Waiting
  <1>14. link' \in LinkType
    <2>1. <<>> \in Seq(C!Datum)
      OBVIOUS
    <2>2. \A c \in Client : link[c] \in [state : {"new", "waiting", "open", "left", "closed"}, pending : Seq(C!Datum)]
      BY <1>4 DEF LinkType
    <2> QED
      BY <1>2, <2>1, <2>2 DEF LinkType
  <1>15. ASSUME NEW c \in Client
         PROVE  /\ c \in C!Clients(con') <=> link'[c].state \in {"open", "left"}
                /\ link'[c].state \in {"new", "waiting"} => got'[c] = <<>>
                /\ link'[c].state # "closed" => c \in Alive /\ link'[c].pending = left[c]
    <2>1. CASE c \in C!Clients(con')
      <3>1. link'[c] = [state |-> IF link[c].state = "left" THEN "left" ELSE "open",
                        pending |-> IF c \in C!Clients(con) THEN <<>> ELSE link[c].pending]
        BY <1>2, <2>1
      <3>2. c \in Alive
        BY <1>6, <1>7, <1>12, <2>1 DEF Alive
      <3> QED
        BY <1>13, <2>1, <3>1, <3>2
    <2>2. CASE c \notin C!Clients(con') /\ c \in C!Clients(accepted)
      <3>1. link'[c] = [state |-> "closed", pending |-> <<>>]
        BY <1>2, <2>2
      <3> QED
        BY <2>2, <3>1
    <2>3. CASE c \notin C!Clients(accepted)
      <3>1. link'[c] = link[c] /\ c \notin C!Clients(con')
        BY <1>2, <1>12, <2>3
      <3>2. c \notin C!Clients(heard) /\ got'[c] = got[c] /\ c \notin C!Clients(con)
        BY <1>2, <1>7, <1>8, <2>3
      <3> QED
        BY <1>4, <1>13, <3>1, <3>2 DEF Alive
    <2> QED
      BY <2>1, <2>2, <2>3
  <1>16. FromClients(con', Waiting', Alive', said')
    <2>1. ASSUME NEW c \in Alive'
          PROVE  C!By(con'.all, {c}) \o Waiting'[c] = Sayings(c, said'[c])
      <3>1. c \in Client /\ link'[c].state # "closed" /\ Waiting'[c] = link'[c].pending
        BY DEF Alive, Waiting
      <3>2. c \in Alive /\ link'[c].pending = left[c]
        BY <1>15, <3>1
      <3>3. C!By(con'.all, {c}) \o left[c] = Sayings(c, said[c])
        BY <1>11, <3>2 DEF ConsoleOK, FromClients
      <3> HIDE DEF left
      <3> QED
        BY <1>3, <3>1, <3>2, <3>3
    <2> QED
      BY <2>1 DEF FromClients
  <1>17. ConsoleOK(con', got', Waiting', Alive', said', read')
    BY <1>3, <1>11, <1>16 DEF ConsoleOK
  <1>18. got' \in [Client -> Seq(C!Datum)]
    BY <1>9 DEF Worlds
  <1> QED
    BY <1>3, <1>14, <1>15, <1>17, <1>18 DEF ConsoleInv

LEMMA WriteKeeps == ConsoleInv /\ C!Write => ConsoleInv'
  <1> SUFFICES ASSUME ConsoleInv, C!Write PROVE ConsoleInv'
    OBVIOUS
  <1> DEFINE m == said[SketchItself] + 1
             words == <<<<SketchItself, m>>>>
  <1>1. /\ said[SketchItself] < CONSOLE_TOTAL
        /\ con' = C!Give(con, words, SketchItself)
        /\ said' = [said EXCEPT ![SketchItself] = m]
        /\ link' = link /\ got' = got /\ read' = read
    BY DEF C!Write
  <1>2. SketchItself \in C!Author /\ said[SketchItself] \in 0 .. CONSOLE_TOTAL /\ CONSOLE_TOTAL \in Nat
    BY ConsoleAssumption DEF ConsoleInv, C!Author
  <1>3. m \in 1 .. CONSOLE_TOTAL
    BY <1>1, <1>2
  <1> HIDE DEF m
  <1>4. words \in Seq(C!Datum) /\ ByOne(words, SketchItself)
    <2>1. <<SketchItself, m>> \in C!Datum
      BY <1>2, <1>3 DEF C!Datum
    <2> QED
      BY <2>1 DEF ByOne
  <1> HIDE DEF words
  <1>5. /\ con \in ConsoleType /\ ToClients(con, got) /\ got \in [Client -> Seq(C!Datum)]
        /\ FromClients(con, Waiting, Alive, said) /\ ToSketch(con, read) /\ Once(con.clients)
    BY DEF ConsoleInv, ConsoleOK
  <1>6. /\ con' \in ConsoleType /\ ToClients(con', got)
        /\ con'.clients = con.clients /\ con'.recvbuffer = con.recvbuffer
        /\ \A As : C!By(con'.all, As) = IF SketchItself \in As THEN C!By(con.all, As) \o words
                                                              ELSE C!By(con.all, As)
    BY <1>1, <1>2, <1>4, <1>5, GiveOK
  <1>7. Waiting' = Waiting /\ Alive' = Alive
    BY <1>1 DEF Waiting, Alive
  <1>8. said' \in [C!Author -> 0 .. CONSOLE_TOTAL] /\ \A c \in Client : said'[c] = said[c]
    <2>1. \A c \in Client : c # SketchItself /\ c \in C!Author
      BY ConsoleAssumption DEF C!Author
    <2>2. said \in [C!Author -> 0 .. CONSOLE_TOTAL] /\ m \in 0 .. CONSOLE_TOTAL
      BY <1>3 DEF ConsoleInv
    <2> QED
      BY <1>1, <1>2, <2>1, <2>2
  <1>9. FromClients(con', Waiting', Alive', said')
    <2>1. ASSUME NEW c \in Alive PROVE C!By(con'.all, {c}) = C!By(con.all, {c}) /\ said'[c] = said[c]
      <3>1. c \in Client /\ c # SketchItself
        BY ConsoleAssumption DEF Alive
      <3>2. SketchItself \notin {c}
        BY <3>1
      <3> QED
        BY <1>6, <1>8, <3>1, <3>2
    <2> QED
      BY <1>5, <1>7, <2>1 DEF FromClients
  <1>10. ToSketch(con', read')
    BY <1>1, <1>5, <1>6, ConsoleAssumption DEF ToSketch
  <1>11. C!Clients(con') = C!Clients(con)
    BY <1>6 DEF C!Clients
  <1>12. ConsoleOK(con', got', Waiting', Alive', said', read')
    BY <1>1, <1>5, <1>6, <1>9, <1>10 DEF ConsoleOK
  <1> QED
    BY <1>1, <1>8, <1>11, <1>12 DEF ConsoleInv

LEMMA ReadKeeps == ConsoleInv /\ C!Read => ConsoleInv'
  <1> SUFFICES ASSUME ConsoleInv, C!Read PROVE ConsoleInv'
    OBVIOUS
  <1>1. PICK m \in 1 .. Len(con.recvbuffer) :
           /\ read' = read \o SubSeq(con.recvbuffer, 1, m)
           /\ con' = [con EXCEPT !.recvbuffer = SubSeq(con.recvbuffer, m + 1, Len(con.recvbuffer))]
    BY DEF C!Read
  <1>2. link' = link /\ got' = got /\ said' = said
    BY DEF C!Read
  <1>3. /\ con \in ConsoleType /\ ToClients(con, got) /\ read \in Seq(C!Datum)
        /\ FromClients(con, Waiting, Alive, said) /\ ToSketch(con, read) /\ Once(con.clients)
    BY DEF ConsoleInv, ConsoleOK
  <1> DEFINE b == con.recvbuffer
             rest == SubSeq(b, m + 1, Len(b))
  <1>4. b \in Seq(C!Datum) /\ m \in 0 .. Len(b)
    BY <1>3 DEF ConsoleType
  <1>5. read' = read \o SubSeq(b, 1, m) /\ con' = [con EXCEPT !.recvbuffer = rest]
    BY <1>1
  <1> HIDE DEF b
  <1>6. /\ read \o SubSeq(b, 1, m) \in Seq(C!Datum) /\ rest \in Seq(C!Datum)
        /\ (read \o SubSeq(b, 1, m)) \o rest = read \o b
    BY <1>3, <1>4, Moved
  <1> HIDE DEF rest
  <1>7. /\ con' \in ConsoleType /\ con'.recvbuffer = rest /\ con'.clients = con.clients
        /\ con'.all = con.all /\ con'.buffer = con.buffer /\ con'.since = con.since
    BY <1>3, <1>5, <1>6 DEF ConsoleType
  <1>8. Waiting' = Waiting /\ Alive' = Alive /\ C!Clients(con') = C!Clients(con)
    BY <1>2, <1>7 DEF Waiting, Alive, C!Clients
  <1>9. ToClients(con', got')
    <2>1. \A c : SinceIn(con', c) = SinceIn(con, c)
      BY <1>7 DEF SinceIn
    <2> QED
      BY <1>2, <1>3, <1>7, <1>8, <2>1 DEF ToClients
  <1>10. FromClients(con', Waiting', Alive', said')
    BY <1>2, <1>3, <1>7, <1>8 DEF FromClients
  <1>11. ToSketch(con', read')
    BY <1>3, <1>5, <1>6, <1>7 DEF ToSketch, b
  <1>12. ConsoleOK(con', got', Waiting', Alive', said', read')
    BY <1>3, <1>7, <1>9, <1>10, <1>11 DEF ConsoleOK
  <1> QED
    BY <1>2, <1>5, <1>6, <1>8, <1>12 DEF ConsoleInv

(* A client's end changes, and it stays known to the console or unknown.    *)
LEMMA LinkKeeps ==
  ASSUME ConsoleInv, NEW c \in Client,
         con' = con /\ got' = got /\ read' = read /\ said' = said,
         NEW t \in {"new", "waiting", "open", "left", "closed"},
         link' = [link EXCEPT ![c].state = t],
         \/ link[c].state = "new" /\ t = "waiting"
         \/ link[c].state = "open" /\ t = "left"
  PROVE  ConsoleInv'
  <1>1. link \in LinkType
    BY DEF ConsoleInv
  <1>2. \A d \in Client : link[d] \in [state : {"new", "waiting", "open", "left", "closed"}, pending : Seq(C!Datum)]
    BY <1>1 DEF LinkType
  <1>3. \A d \in Client : link'[d] = IF d = c THEN [link[d] EXCEPT !.state = t] ELSE link[d]
    BY <1>1 DEF LinkType
  <1>4. link' \in LinkType
    BY <1>1, <1>2 DEF LinkType
  <1>5. \A d \in Client : link'[d].pending = link[d].pending /\ link'[d].state = IF d = c THEN t ELSE link[d].state
    BY <1>2, <1>3
  <1>6. Waiting' = Waiting /\ Alive' = Alive
    BY <1>5 DEF Waiting, Alive
  <1>7. ConsoleOK(con', got', Waiting', Alive', said', read')
    BY <1>6 DEF ConsoleInv
  <1> QED
    BY <1>4, <1>5, <1>7 DEF ConsoleInv

LEMMA SayKeeps ==
  ASSUME ConsoleInv, NEW c \in Client, C!Say(c)
  PROVE  ConsoleInv'
  <1> DEFINE m == said[c] + 1
             w == Append(link[c].pending, <<c, m>>)
  <1>1. /\ link[c].state \in {"waiting", "open"} /\ said[c] < CONSOLE_TOTAL
        /\ said' = [said EXCEPT ![c] = m] /\ link' = [link EXCEPT ![c].pending = Append(link[c].pending, <<c, said'[c]>>)]
        /\ con' = con /\ got' = got /\ read' = read
    BY DEF C!Say
  <1>2. c \in C!Author /\ said[c] \in 0 .. CONSOLE_TOTAL /\ CONSOLE_TOTAL \in Nat
    BY ConsoleAssumption DEF ConsoleInv, C!Author
  <1>3. m \in 1 .. CONSOLE_TOTAL /\ m \in 0 .. CONSOLE_TOTAL /\ m = said[c] + 1
    BY <1>1, <1>2
  <1>4. said \in [C!Author -> 0 .. CONSOLE_TOTAL] /\ link \in LinkType
    BY DEF ConsoleInv
  <1> HIDE DEF m
  <1>5. said' \in [C!Author -> 0 .. CONSOLE_TOTAL] /\ said'[c] = m
        /\ \A d \in Client : d # c => said'[d] = said[d]
    <2>1. \A d \in Client : d \in C!Author
      BY DEF C!Author
    <2> QED
      BY <1>1, <1>2, <1>3, <1>4, <2>1
  <1>6. link' = [link EXCEPT ![c].pending = w]
    BY <1>1, <1>5
  <1>7. <<c, m>> \in C!Datum /\ link[c].pending \in Seq(C!Datum)
    BY <1>2, <1>3, <1>4 DEF C!Datum, LinkType
  <1>8. w \in Seq(C!Datum)
    BY <1>7
  <1>9. \A d \in Client : link[d] \in [state : {"new", "waiting", "open", "left", "closed"}, pending : Seq(C!Datum)]
    BY <1>4 DEF LinkType
  <1>10. C!By(con.all, {c}) \o w = Sayings(c, m)
    <2> DEFINE a == C!By(con.all, {c})
               b == link[c].pending
    <2>1. con.all \in Seq(C!Datum)
      BY DEF ConsoleInv, ConsoleOK, ConsoleType
    <2>2. a \in Seq(C!Datum) /\ b \in Seq(C!Datum)
      BY <1>7, <2>1, ByTypes
    <2>3. a \o b = Sayings(c, said[c])
      <3>1. c \in Alive /\ Waiting[c] = b
        BY <1>1 DEF Alive, Waiting
      <3> QED
        BY <3>1 DEF ConsoleInv, ConsoleOK, FromClients
    <2> HIDE DEF a, b
    <2>4. a \o Append(b, <<c, m>>) = Append(a \o b, <<c, m>>)
      BY <1>7, <2>2, AppendConcat
    <2>5. Append(Sayings(c, said[c]), <<c, m>>) = Sayings(c, m)
      BY <1>2, <1>3 DEF Sayings
    <2> QED
      BY <2>3, <2>4, <2>5 DEF a, b
  <1> HIDE DEF w
  <1>11. \A d \in Client : /\ link'[d].state = link[d].state
                           /\ link'[d].pending = IF d = c THEN w ELSE link[d].pending
    BY <1>4, <1>6, <1>9 DEF LinkType
  <1>12. link' \in LinkType
    BY <1>4, <1>6, <1>8, <1>9 DEF LinkType
  <1>13. FromClients(con', Waiting', Alive', said')
    <2>1. ASSUME NEW d \in Alive' PROVE C!By(con'.all, {d}) \o Waiting'[d] = Sayings(d, said'[d])
      <3>1. d \in Client /\ d \in Alive /\ Waiting'[d] = link'[d].pending /\ Waiting[d] = link[d].pending
        BY <1>11 DEF Alive, Waiting
      <3>2. CASE d = c
        BY <1>1, <1>5, <1>10, <1>11, <3>1, <3>2
      <3>3. CASE d # c
        <4>1. C!By(con.all, {d}) \o Waiting[d] = Sayings(d, said[d])
          BY <3>1 DEF ConsoleInv, ConsoleOK, FromClients
        <4>2. Waiting'[d] = Waiting[d] /\ said'[d] = said[d]
          BY <1>5, <1>11, <3>1, <3>3
        <4> QED
          BY <1>1, <4>1, <4>2
      <3> QED
        BY <3>2, <3>3
    <2> QED
      BY <2>1 DEF FromClients
  <1>14. ConsoleOK(con', got', Waiting', Alive', said', read')
    BY <1>1, <1>13 DEF ConsoleInv, ConsoleOK
  <1> QED
    BY <1>1, <1>5, <1>11, <1>12, <1>14 DEF ConsoleInv

LEMMA ConsoleStays ==
  ASSUME ConsoleInv, con' = con /\ link' = link /\ got' = got /\ read' = read /\ said' = said
  PROVE  ConsoleInv'
  <1>1. Waiting' = Waiting /\ Alive' = Alive
    BY DEF Waiting, Alive
  <1>2. ConsoleOK(con', got', Waiting', Alive', said', read')
    BY <1>1 DEF ConsoleInv
  <1> QED
    BY <1>2 DEF ConsoleInv

LEMMA ConsoleInvStep == ConsoleInv /\ (C!Next \/ UNCHANGED console) => ConsoleInv'
  <1> SUFFICES ASSUME ConsoleInv, C!Next \/ UNCHANGED console PROVE ConsoleInv'
    OBVIOUS
  <1>1. CASE C!Run
    BY <1>1, RunKeeps
  <1>2. CASE C!Read
    BY <1>2, ReadKeeps
  <1>3. CASE C!Write
    BY <1>3, WriteKeeps
  <1>4. CASE C!ReceiveFails \/ UNCHANGED console
    BY <1>4, ConsoleStays DEF C!ReceiveFails, console
  <1>5. ASSUME NEW c \in Client, C!Connect(c) PROVE ConsoleInv'
    BY <1>5, LinkKeeps DEF C!Connect
  <1>6. ASSUME NEW c \in Client, C!Leave(c) PROVE ConsoleInv'
    BY <1>6, LinkKeeps DEF C!Leave
  <1>7. ASSUME NEW c \in Client, C!Say(c) PROVE ConsoleInv'
    BY <1>7, SayKeeps
  <1> QED
    BY <1>1, <1>2, <1>3, <1>4, <1>5, <1>6, <1>7 DEF C!Next, C!Outside

LEMMA ConsoleInvGood == ConsoleInv => C!ConsoleInOrder
  <1> SUFFICES ASSUME ConsoleInv PROVE C!ConsoleInOrder
    OBVIOUS
  <1>1. /\ con \in ConsoleType /\ ToClients(con, got)
        /\ FromClients(con, Waiting, Alive, said) /\ ToSketch(con, read)
    BY DEF ConsoleInv, ConsoleOK
  <1>2. ASSUME NEW c \in C!Clients(con)
        PROVE  /\ got[c] \o con.buffer[c] = C!By(SubSeq(con.all, con.since[c] + 1, Len(con.all)), C!Author \ {c})
               /\ C!By(con.all, {c}) \o link[c].pending = [i \in 1 .. said[c] |-> <<c, i>>]
    <2>1. c \in Client
      BY <1>1, ClientsAre
    <2>2. link[c].state \in {"open", "left"}
      BY <2>1 DEF ConsoleInv
    <2>3. c \in Alive /\ Waiting[c] = link[c].pending
      BY <2>1, <2>2 DEF Alive, Waiting
    <2>4. C!By(con.all, {c}) \o Waiting[c] = Sayings(c, said[c])
      BY <1>1, <2>3 DEF FromClients
    <2>5. C!By(con.all, {c}) \o link[c].pending = [i \in 1 .. said[c] |-> <<c, i>>]
      BY <2>3, <2>4 DEF Sayings
    <2>6. got[c] \o con.buffer[c] = C!By(SubSeq(con.all, con.since[c] + 1, Len(con.all)), C!Author \ {c})
      BY <1>1, <2>1 DEF ToClients, SinceIn
    <2> QED
      BY <2>5, <2>6
  <1> QED
    BY <1>1, <1>2 DEF C!ConsoleInOrder, ToSketch

LEMMA ConsoleStep == [BoxNext]_boxvars => C!Next \/ UNCHANGED console
  BY DEF BoxNext, boxvars

(* processes.py, files.py, sockets.py, sockets_udp.py: an identifier stands *)
(* for the stream it was given out for; what is read and written through it *)
(* is in order, once and, but for datagrams, without a hole; and nothing is *)
(* closed before it has been taken.  console.py: each client that is kept   *)
(* gets all that the sketch and the others say after it came in, in one     *)
(* order that is the same for all, and the sketch reads all that they say.  *)
(* For any number of streams, identifiers and clients, any amount of data,  *)
(* and any size of the buffers.                                             *)
THEOREM InOrderBothWays == BoxSpec => []StreamsInOrder
  <1>1. BoxInit => StreamsInv /\ ConsoleInv
    BY StreamsInvInit, ConsoleInit DEF BoxInit
  <1>2. StreamsInv /\ ConsoleInv /\ [BoxNext]_boxvars => StreamsInv' /\ ConsoleInv'
    BY StreamsInvStep, StreamsStep, ConsoleInvStep, ConsoleStep
  <1>3. StreamsInv /\ ConsoleInv => StreamsInOrder
    BY StreamsInvGood, ConsoleInvGood DEF StreamsInOrder
  <1> QED
    BY <1>1, <1>2, <1>3, PTL DEF BoxSpec

-----------------------------------------------------------------------------
(* The types of all programs.  Nothing is read from a stream, or said to    *)
(* it, beyond what there is.                                                *)
Bounded(r) == r.made <= STREAM_TOTAL /\ r.fed <= STREAM_TOTAL /\ r.said <= STREAM_TOTAL

(* The types of the streams that StreamsInv does not speak of.              *)
StreamBounds ==
    /\ kind \in Kinds
    /\ streamsUp \in {"up", "waiting", "stuck", "down"} /\ awaited \in Stream \cup {None}
    /\ next_id \in S!Id
    /\ \A s \in Stream : Bounded(stream[s])

LEMMA StreamsTyped == StreamsInv /\ StreamBounds => S!TypeOK
  <1> SUFFICES ASSUME StreamsInv, StreamBounds PROVE S!TypeOK
    OBVIOUS
  <1> DEFINE R == [state : {"new", "connecting", "open", "closed", "gone"},
                   made : 0 .. STREAM_TOTAL, over : BOOLEAN, fed : 0 .. STREAM_TOTAL,
                   rxbuff : Seq(Nat), cur : Nat, txbuff : Seq(Nat), said : 0 .. STREAM_TOTAL,
                   heard : Seq(Nat), arrived : Seq(Nat), failed : BOOLEAN]
  <1>1. ASSUME NEW s \in Stream PROVE stream[s] \in R
    <2> DEFINE r == stream[s]
    <2>1. r \in StreamType /\ Bounded(r)
      BY DEF StreamsInv, StreamBounds
    <2> HIDE DEF r
    <2>2. r.made \in Nat /\ r.fed \in Nat /\ r.said \in Nat
      BY <2>1 DEF StreamType
    <2>3. r.made \in 0 .. STREAM_TOTAL /\ r.fed \in 0 .. STREAM_TOTAL /\ r.said \in 0 .. STREAM_TOTAL
      BY <2>1, <2>2, StreamsAssumption DEF Bounded
    <2>4. r \in R
      BY <2>1, <2>3 DEF StreamType
    <2> QED
      BY <2>4 DEF r
  <1> HIDE DEF R
  <1>2. stream \in [Stream -> R]
    BY <1>1 DEF StreamsInv
  <1> QED
    BY <1>2 DEF StreamsInv, StreamBounds, Held, S!TypeOK, R

LEMMA StreamBoundsInit == S!Init => StreamBounds
  <1> SUFFICES ASSUME S!Init PROVE StreamBounds
    OBVIOUS
  <1>1. Bounded(S!New)
    BY StreamsAssumption DEF Bounded, S!New
  <1> QED
    BY <1>1, StreamsAssumption DEF S!Init, StreamBounds, S!Id

LEMMA BecomesBounded ==
  ASSUME StreamsInv, StreamBounds, NEW s \in Stream, NEW q, Bounded(q), S!Becomes(s, q)
  PROVE  \A t \in Stream : Bounded(stream'[t])
  BY DEF StreamsInv, StreamBounds, S!Becomes

LEMMA SameBounds ==
  ASSUME NEW r, Bounded(r), NEW q, q.made = r.made, q.fed = r.fed, q.said = r.said
  PROVE  Bounded(q)
  BY DEF Bounded

LEMMA TakenBounded ==
  ASSUME NEW r \in StreamType, Bounded(r), NEW n \in Nat, r.fed + n <= STREAM_TOTAL
  PROVE  Bounded(S!Taken(r, n)) /\ S!Taken(r, n) \in StreamType
  <1> DEFINE new == [i \in 1 .. n |-> r.fed + i]
             more == r.rxbuff \o new
  <1>1. S!Taken(r, n) = [r EXCEPT !.fed = r.fed + n, !.rxbuff = more]
    BY DEF S!Taken
  <1>2. r.fed \in Nat /\ r.rxbuff \in Seq(Nat)
    BY DEF StreamType
  <1>3. new \in Seq(Nat)
    <2>1. \A i \in 1 .. n : r.fed + i \in Nat
      BY <1>2
    <2> QED
      BY <2>1
  <1> HIDE DEF new
  <1>4. more \in Seq(Nat)
    BY <1>2, <1>3, ConcatProperties
  <1>5. r.fed + n \in Nat
    BY <1>2
  <1> HIDE DEF more
  <1> QED
    BY <1>1, <1>4, <1>5 DEF Bounded, StreamType

LEMMA ReadsBounded ==
  ASSUME StreamsInv, StreamBounds, NEW s \in Stream, S!At(s) = s,
         NEW r, Bounded(r), r \in StreamType, NEW n, S!Reads(s, r, n)
  PROVE  \A t \in Stream : Bounded(stream'[t])
  <1> DEFINE q == [S!Kept(r, n) EXCEPT !.heard = @ \o S!Given(r, n)]
  <1>1. Bounded(q)
    BY DEF S!Kept, Bounded, StreamType
  <1> HIDE DEF q
  <1>2. stream' = [stream EXCEPT ![s] = q]
    BY DEF S!Reads, StreamsInv, q
  <1> QED
    BY <1>1, <1>2, BecomesBounded DEF S!Becomes

LEMMA AmountsBounded ==
  ASSUME NEW r \in StreamType, Bounded(r), NEW n \in S!Amounts(r) \cup {0}
  PROVE  n \in Nat /\ r.fed + n <= STREAM_TOTAL
  <1>1. r.made \in Nat /\ r.fed \in Nat
    BY DEF StreamType
  <1>2. n = 0 \/ n \in 1 .. r.made - r.fed
    BY DEF S!Amounts
  <1> QED
    BY <1>1, <1>2, StreamsAssumption DEF Bounded

LEMMA ReadingBounded ==
  ASSUME StreamsInv, StreamBounds, S!Reading
  PROVE  StreamBounds'
  <1> SUFFICES ASSUME NEW s \in Stream,
                      S!ReadOutput(s) \/ S!ReadSocket(s) \/ S!ReadFile(s) \/ S!RecvBegin(s) \/ S!Recv(s)
               PROVE  StreamBounds'
    BY DEF S!Reading
  <1> DEFINE r == stream[s]
  <1>1. /\ S!Command(s) /\ UNCHANGED <<streamsUp, next_id>>
    BY DEF S!ReadOutput, S!ReadSocket, S!ReadFile, S!RecvBegin, S!Recv
  <1>2. S!At(s) = s /\ UNCHANGED <<kind, streamsUp, awaited, next_id>> /\ r \in StreamType /\ Bounded(r)
    BY <1>1, HeldCommandIs DEF StreamsInv, StreamBounds, S!Command
  <1>3. r.fed \in Nat /\ r.made \in Nat
    BY <1>2 DEF StreamType
  <1> HIDE DEF r
  <1>4. \A t \in Stream : Bounded(stream'[t])
    <2>1. CASE S!ReadOutput(s)
      <3>1. PICK m \in S!Amounts(r) \cup {0} :
               \E n \in 0 .. Len(S!Taken(r, m).rxbuff) : S!Reads(s, S!Taken(r, m), n)
        BY <1>2, <2>1 DEF S!ReadOutput, r
      <3>2. m \in Nat /\ r.fed + m <= STREAM_TOTAL
        BY <1>2, <3>1, AmountsBounded
      <3>3. Bounded(S!Taken(r, m)) /\ S!Taken(r, m) \in StreamType
        BY <1>2, <3>2, TakenBounded
      <3> QED
        BY <1>2, <3>1, <3>3, ReadsBounded
    <2>2. CASE S!ReadSocket(s)
      <3>1. PICK n \in 1 .. Len(r.rxbuff) : S!Reads(s, r, n)
        BY <1>2, <2>2 DEF S!ReadSocket, r
      <3> QED
        BY <1>2, <3>1, ReadsBounded
    <2>3. CASE S!ReadFile(s)
      <3>1. PICK n \in 1 .. STREAM_TOTAL - r.fed : S!Reads(s, S!Taken(r, n), n)
        BY <1>2, <2>3 DEF S!ReadFile, r
      <3>2. n \in Nat /\ r.fed + n <= STREAM_TOTAL
        BY <1>3, <3>1, StreamsAssumption
      <3>3. Bounded(S!Taken(r, n)) /\ S!Taken(r, n) \in StreamType
        BY <1>2, <3>2, TakenBounded
      <3> QED
        BY <1>2, <3>1, <3>3, ReadsBounded
    <2>4. CASE S!RecvBegin(s)
      <3>1. S!Becomes(s, [r EXCEPT !.cur = Head(r.rxbuff), !.rxbuff = Tail(@)])
        BY <1>2, <2>4 DEF S!RecvBegin, r
      <3>2. Bounded([r EXCEPT !.cur = Head(r.rxbuff), !.rxbuff = Tail(@)])
        BY <1>2 DEF Bounded, StreamType
      <3> QED
        BY <3>1, <3>2, BecomesBounded
    <2>5. CASE S!Recv(s)
      <3> DEFINE q == [[r EXCEPT !.cur = 0] EXCEPT !.heard = Append(@, r.cur)]
      <3>1. Bounded(q)
        BY <1>2 DEF Bounded, StreamType
      <3> HIDE DEF q
      <3>2. stream' = [stream EXCEPT ![s] = q]
        BY <1>2, <2>5 DEF S!Recv, StreamsInv, q, r
      <3> QED
        BY <3>1, <3>2, BecomesBounded DEF S!Becomes
    <2> QED
      BY <2>1, <2>2, <2>3, <2>4, <2>5
  <1> QED
    BY <1>2, <1>4 DEF StreamBounds

LEMMA RunningBounded ==
  ASSUME StreamsInv, StreamBounds, S!Running
  PROVE  StreamBounds'
  <1> SUFFICES ASSUME NEW s \in Stream,
                      \/ S!Connected(s) \/ S!Receive(s) \/ S!PeerClosed(s)
                      \/ S!Send(s) \/ S!RunClosed(s)
               PROVE  StreamBounds'
    BY DEF S!Running
  <1> DEFINE r == stream[s]
  <1>1. r \in StreamType /\ Bounded(r)
    BY DEF StreamsInv, StreamBounds
  <1>2. CASE S!RunClosed(s)
    BY <1>2 DEF S!RunClosed, StreamBounds
  <1>3. CASE ~ S!RunClosed(s)
    <2>1. UNCHANGED <<kind, streamsUp, awaited, next_id>>
      BY <1>3 DEF S!Connected, S!Receive, S!PeerClosed, S!Send, S!Runs
    <2>2. \E q : Bounded(q) /\ S!Becomes(s, q)
      <3> HIDE DEF r
      <3>1. CASE S!Connected(s)
        <4>1. PICK state \in {"open", "closed"} : S!Becomes(s, [r EXCEPT !.state = state])
          BY <3>1 DEF S!Connected, r
        <4>2. Bounded([r EXCEPT !.state = state])
          BY <1>1 DEF Bounded, StreamType
        <4> QED
          BY <4>1, <4>2
      <3>2. CASE S!Receive(s)
        <4>1. PICK n \in IF kind = "udp" THEN {1} \cap (1 .. r.made - r.fed) ELSE S!Amounts(r) :
                 S!Becomes(s, S!Taken(r, n))
          BY <3>2 DEF S!Receive, r
        <4>2. n \in Nat /\ r.fed + n <= STREAM_TOTAL
          <5>1. CASE kind = "udp"
            <6>1. n = 1 /\ n \in 1 .. r.made - r.fed /\ r.made \in Nat /\ r.fed \in Nat
              BY <1>1, <4>1, <5>1 DEF StreamType
            <6> QED
              BY <1>1, <6>1, StreamsAssumption DEF Bounded
          <5>2. CASE kind # "udp"
            BY <1>1, <4>1, <5>2, AmountsBounded
          <5> QED
            BY <5>1, <5>2
        <4>3. Bounded(S!Taken(r, n))
          BY <1>1, <4>2, TakenBounded
        <4> QED
          BY <4>1, <4>3
      <3>3. CASE S!PeerClosed(s)
        <4>1. S!Becomes(s, [r EXCEPT !.state = "closed"])
          BY <3>3 DEF S!PeerClosed, r
        <4>2. Bounded([r EXCEPT !.state = "closed"])
          BY <1>1 DEF Bounded, StreamType
        <4> QED
          BY <4>1, <4>2
      <3>4. CASE S!Send(s)
        <4> DEFINE Sent(n) == [r EXCEPT !.arrived = @ \o SubSeq(r.txbuff, 1, n),
                                        !.txbuff = IF kind = "ssl" THEN @ ELSE SubSeq(@, n + 1, Len(@))]
        <4>1. PICK n : S!Becomes(s, Sent(n))
          BY <3>4 DEF S!Send, r
        <4>2. Bounded(Sent(n))
          BY <1>1 DEF Bounded, StreamType
        <4> HIDE DEF Sent
        <4> QED
          BY <4>1, <4>2
      <3> QED
        BY <1>3, <3>1, <3>2, <3>3, <3>4
    <2> QED
      BY <2>1, <2>2, BecomesBounded DEF StreamBounds
  <1> QED
    BY <1>2, <1>3

LEMMA OthersBounded ==
  ASSUME StreamsInv, StreamBounds, S!Others
  PROVE  StreamBounds'
  <1> SUFFICES ASSUME NEW s \in Stream,
                      S!Produce(s) \/ S!End(s) \/ S!ReceiveFails(s) \/ S!SendFails(s)
               PROVE  StreamBounds'
    BY DEF S!Others
  <1> DEFINE r == stream[s]
  <1>1. r \in StreamType /\ Bounded(r)
    BY DEF StreamsInv, StreamBounds
  <1>2. UNCHANGED <<kind, streamsUp, awaited, next_id>>
    BY DEF S!Produce, S!End, S!ReceiveFails, S!SendFails, S!Runs
  <1>3. \E q : Bounded(q) /\ S!Becomes(s, q)
    <2> HIDE DEF r
    <2>1. CASE S!Produce(s)
      <3>1. r.made < STREAM_TOTAL /\ S!Becomes(s, [r EXCEPT !.made = r.made + 1])
        BY <2>1 DEF S!Produce, r
      <3>2. Bounded([r EXCEPT !.made = r.made + 1])
        <4>1. r.made \in Nat /\ r.made + 1 <= STREAM_TOTAL
          BY <1>1, <3>1, StreamsAssumption DEF StreamType
        <4> QED
          BY <1>1, <4>1 DEF Bounded, StreamType
      <3> QED
        BY <3>1, <3>2
    <2>2. CASE S!End(s)
      <3>1. S!Becomes(s, [r EXCEPT !.over = TRUE])
        BY <2>2 DEF S!End, r
      <3>2. Bounded([r EXCEPT !.over = TRUE])
        BY <1>1 DEF Bounded, StreamType
      <3> QED
        BY <3>1, <3>2
    <2>3. CASE S!ReceiveFails(s)
      <3>1. S!Becomes(s, [r EXCEPT !.state = "closed", !.failed = TRUE])
        BY <2>3 DEF S!ReceiveFails, r
      <3>2. Bounded([r EXCEPT !.state = "closed", !.failed = TRUE])
        BY <1>1 DEF Bounded, StreamType
      <3> QED
        BY <3>1, <3>2
    <2>4. CASE S!SendFails(s)
      <3>1. S!Becomes(s, [r EXCEPT !.txbuff = Tail(@)])
        BY <2>4 DEF S!SendFails, r
      <3>2. Bounded([r EXCEPT !.txbuff = Tail(@)])
        BY <1>1 DEF Bounded, StreamType
      <3> QED
        BY <3>1, <3>2
    <2> QED
      BY <2>1, <2>2, <2>3, <2>4
  <1> QED
    BY <1>2, <1>3, BecomesBounded DEF StreamBounds

LEMMA SketchBounded ==
  ASSUME StreamsInv, StreamBounds, S!Sketch
  PROVE  StreamBounds'
  <1>1. CASE S!Reset
    BY <1>1 DEF S!Reset, StreamBounds
  <1>2. ASSUME NEW s \in Stream, S!WriteFails(s) \/ S!ClosedFile(s)
        PROVE  StreamBounds'
    BY <1>2 DEF S!WriteFails, S!ClosedFile, StreamBounds
  <1>3. ASSUME NEW s \in Stream, S!Wait(s)
        PROVE  StreamBounds'
    <2>1. S!At(s) = s /\ streamsUp = "up"
      BY <1>3 DEF S!Wait, S!At, StreamsInv, Held
    <2> QED
      BY <1>3, <2>1 DEF S!Wait, StreamBounds
  <1>4. ASSUME NEW s \in Stream, S!Create(s)
        PROVE  StreamBounds'
    <2>1. UNCHANGED <<kind, awaited>>
      BY <1>4 DEF S!Create
    <2>2. CASE S!Free = {}
      BY <1>4, <2>1, <2>2 DEF S!Create, StreamBounds
    <2>3. CASE S!Free # {}
      <3>1. S!NextId \in S!Id
        BY <2>3, NextIdIsFree DEF StreamsInv, Held, S!Free
      <3>2. PICK state : S!Becomes(s, [stream[s] EXCEPT !.state = state])
        BY <1>4, <2>3 DEF S!Create
      <3>3. Bounded([stream[s] EXCEPT !.state = state])
        BY DEF StreamsInv, StreamBounds, Bounded, StreamType
      <3>4. \A t \in Stream : Bounded(stream'[t])
        BY <3>2, <3>3, BecomesBounded
      <3>5. next_id' = S!NextId /\ streamsUp' = streamsUp
        BY <1>4, <2>3 DEF S!Create
      <3> QED
        BY <2>1, <3>1, <3>4, <3>5 DEF StreamBounds, S!Id
    <2> QED
      BY <2>2, <2>3
  <1>5. ASSUME NEW s \in Stream, S!Close(s)
        PROVE  StreamBounds'
    <2>1. UNCHANGED <<kind, awaited, next_id>>
      BY <1>5 DEF S!Close
    <2>2. CASE kind = "udp"
      BY <1>5, <2>1, <2>2 DEF S!Close, StreamBounds
    <2>3. CASE kind # "udp"
      <3>1. Bounded([stream[s] EXCEPT !.state = "gone"])
        BY DEF StreamsInv, StreamBounds, Bounded, StreamType
      <3>2. \A t \in Stream : Bounded(stream'[t])
        BY <1>5, <2>3, <3>1, BecomesBounded DEF S!Close
      <3>3. streamsUp' = streamsUp
        BY <1>5, <2>3 DEF S!Close
      <3> QED
        BY <2>1, <3>2, <3>3 DEF StreamBounds
    <2> QED
      BY <2>2, <2>3
  <1>6. ASSUME NEW s \in Stream, S!Write(s)
        PROVE  StreamBounds'
    <2> DEFINE n == stream[s].said + 1
    <2>1. S!Command(s) /\ UNCHANGED <<streamsUp, next_id>> /\ stream[s].said < STREAM_TOTAL
      BY <1>6 DEF S!Write
    <2>2. S!At(s) = s /\ UNCHANGED <<kind, awaited>>
      BY <2>1, HeldCommandIs DEF S!Command
    <2>3. ASSUME NEW t \in Stream PROVE Bounded(stream'[t])
      <3>1. stream[t] \in StreamType /\ Bounded(stream[t])
        BY DEF StreamsInv, StreamBounds
      <3>2. CASE t # s
        BY <1>6, <2>2, <3>1, <3>2 DEF S!Write
      <3>3. CASE t = s
        <4>1. stream'[t] \in {[[stream[t] EXCEPT !.txbuff = Append(@, n)] EXCEPT !.said = n],
                              [[stream[t] EXCEPT !.arrived = Append(@, n)] EXCEPT !.said = n]}
          BY <1>6, <2>2, <3>3 DEF S!Write
        <4>2. n \in Nat /\ n <= STREAM_TOTAL
          BY <2>1, <3>1, <3>3, StreamsAssumption DEF StreamType
        <4> HIDE DEF n
        <4> QED
          BY <3>1, <4>1, <4>2 DEF Bounded, StreamType
      <3> QED
        BY <3>2, <3>3
    <2> QED
      BY <2>1, <2>2, <2>3 DEF StreamBounds
  <1> QED
    BY <1>1, <1>2, <1>3, <1>4, <1>5, <1>6 DEF S!Sketch

LEMMA RestartBounded ==
  ASSUME StreamsInv, StreamBounds, S!Restart
  PROVE  StreamBounds'
  <1>1. ASSUME NEW s \in Stream PROVE Bounded(stream'[s])
    <2>1. Bounded(S!New)
      BY StreamsAssumption DEF Bounded, S!New
    <2>2. Bounded([stream[s] EXCEPT !.state = "gone"])
      BY DEF StreamsInv, StreamBounds, Bounded, StreamType
    <2>3. stream'[s] = IF stream[s].state = "new" THEN S!New ELSE [stream[s] EXCEPT !.state = "gone"]
      BY DEF S!Restart
    <2> QED
      BY <2>1, <2>2, <2>3
  <1>2. next_id' \in S!Id
    BY StreamsAssumption DEF S!Restart, S!Id
  <1> QED
    BY <1>1, <1>2 DEF S!Restart, StreamBounds, S!Id

LEMMA StreamBoundsStep ==
  ASSUME StreamsInv, StreamBounds, S!Next \/ UNCHANGED streams
  PROVE  StreamBounds'
  <1>1. CASE S!Waited \/ S!Crash \/ UNCHANGED streams
    BY <1>1 DEF S!Waited, S!Crash, streams, StreamBounds
  <1> QED
    BY <1>1, ReadingBounded, RunningBounded, SketchBounded, OthersBounded, RestartBounded
    DEF S!Next

LEMMA ConsoleTyped == ConsoleInv /\ consoleUp \in BOOLEAN => C!TypeOK
  <1> SUFFICES ASSUME ConsoleInv, consoleUp \in BOOLEAN PROVE C!TypeOK
    OBVIOUS
  <1>1. con \in ConsoleType /\ Once(con.clients)
    BY DEF ConsoleInv, ConsoleOK
  <1>2. /\ con.clients \in Seq(Client) /\ con.buffer \in [Client -> Seq(C!Datum)]
        /\ con.recvbuffer \in Seq(C!Datum) /\ con.all \in Seq(C!Datum)
        /\ con.since \in [Client -> Nat]
    BY <1>1 DEF ConsoleType
  <1>3. C!IsInjective(con.clients)
    <2>1. DOMAIN con.clients = 1 .. Len(con.clients)
      BY <1>2
    <2> QED
      BY <1>1, <2>1 DEF C!IsInjective, Once
  <1> QED
    BY <1>2, <1>3 DEF ConsoleInv, LinkType, C!TypeOK

LEMMA ConsoleUp ==
  /\ C!Init => consoleUp \in BOOLEAN
  /\ consoleUp \in BOOLEAN /\ (C!Next \/ UNCHANGED console) => consoleUp' \in BOOLEAN
  BY DEF C!Init, C!Next, C!Outside, C!Run, C!Read, C!Write, C!ReceiveFails, C!Connect, C!Say,
         C!Leave, console

LEMMA ForwarderTypeKept == ForwarderType /\ (F!Next \/ UNCHANGED forwarder) => ForwarderType'
  <1>1. ForwarderType /\ UNCHANGED forwarder => ForwarderType'
    BY DEF forwarder, ForwarderType, FilesType, ThreadsType
  <1> QED
    BY <1>1, ForwarderTypeStep

LEMMA LineStep == [BoxNext]_boxvars => [Next]_vars
  BY DEF BoxNext, boxvars

(* Every variable of every program has its type, whatever the constants:    *)
(* in particular no stream goes beyond what there is, the next identifier   *)
(* is one of the table, no client is in the list of the console twice, and  *)
(* the TCP client holds no more than one read.                              *)
THEOREM BoxTyped == BoxSpec => []BoxTypeOK
  <1> DEFINE Inv == /\ TypeOK /\ ForwarderType /\ ClientInv
                    /\ StreamsInv /\ StreamBounds /\ ConsoleInv /\ consoleUp \in BOOLEAN
  <1>1. BoxInit => Inv
    BY InitTyped, ForwarderTypeInit, ClientInvInit, StreamsInvInit, StreamBoundsInit, ConsoleInit,
       ConsoleUp DEF BoxInit
  <1>2. Inv /\ [BoxNext]_boxvars => Inv'
    BY LineStep, NextTyped, ForwarderStep, ForwarderTypeKept, TcpStep, ClientInvStep, StreamsStep, StreamsInvStep, StreamBoundsStep, ConsoleStep,
       ConsoleInvStep, ConsoleUp
  <1>3. Inv => BoxTypeOK
    BY ForwarderTypes, TcpTypes, StreamsTyped, ConsoleTyped DEF ClientInv, BoxTypeOK
  <1> QED
    BY <1>1, <1>2, <1>3, PTL DEF BoxSpec
=============================================================================
