------------------------------- MODULE PktFwd -------------------------------
(***************************************************************************)
(* The LoRa gateway: the sketch of the radio (single_pkt_fwd.ino) and the  *)
(* packet forwarder (lg01-pkt-fwd/src/main.c) exchange packets through     *)
(* files in /var/iot that neither of them locks.                           *)
(*                                                                         *)
(*   upwards     the sketch prints rssi and size into cfgdata and the      *)
(*               payload into data, a piece at a time; thread_up polls     *)
(*               cfgdata, waits 300 ms, reads data, sends PUSH_DATA, waits *)
(*               twice for its PUSH_ACK and truncates cfgdata;             *)
(*   downwards   thread_down writes each PULL_RESP into a file named after *)
(*               the address of its node; the sketch looks for that file   *)
(*               when it has heard the node, emits it and removes it.      *)
(*                                                                         *)
(* main reports statistics, and joins thread_up when a signal has come.    *)
(* The counters, PULL_DATA and PULL_ACK are left out: the auto-quit that   *)
(* would read them is switched off (autoquit_threshold is 0).              *)
(***************************************************************************)
EXTENDS Integers, Sequences

CONSTANTS
    Packet,     \* what the nodes send, each once
    Downlink,   \* what the server sends, each once
    Name,       \* names of files
    AnswerFile,     \* the file the sketch looks for when it has heard a packet
    FileOf,     \* the file thread_down writes a downlink to
    Join,       \* the packets that are join requests
    Short,      \* the downlinks of less than three bytes
    None

VARIABLES
    cfgdata,    \* the packet it tells of, and how much of it is there
    data,
    downfile,   \* name -> None (no file), "empty" or the downlink in it
    sketch,     \* where loop() is, and the packet it is about
    radio,      \* packets not yet sent by the nodes, downlinks emitted
    up,         \* thread_up: where it is, size and data it has read
    down,       \* thread_down: the downlink it is writing, or None
    resp,       \* downlinks the server has not yet sent
    main,
    exit_sig,   \* or quit_sig
    mx_meas_up, \* who holds it
    sent,       \* the datagrams sent to the server
    raced,      \* ghost: packets of which a file was read or replaced while
                \* it was being written or handled
    missed      \* ghost: downlinks replaced or removed unseen

files    == <<cfgdata, data, downfile>>
upwards  == <<cfgdata, data, sent, raced>>
vars     == <<files, sketch, radio, up, down, resp, main, exit_sig,
              mx_meas_up, sent, raced, missed>>

Datagram == [size : Packet \cup {None}, data : Packet \cup {None}, whole : BOOLEAN]

TypeOK ==
    /\ cfgdata \in [pkt : Packet \cup {None}, has : {"nothing", "rssi", "size=", "all", "holes"}]
    /\ data \in [pkt : Packet \cup {None}, whole : BOOLEAN]
    /\ downfile \in [Name -> Downlink \cup {None, "empty"}]
    /\ sketch \in [at : {"receive", "rssi", "size=", "size", "open", "data", "exists",
                         "join", "emit", "rm"},
                   pkt : Packet \cup {None}, emitting : Downlink \cup {None}]
    /\ radio.unsent \subseteq Packet /\ radio.emitted \in Seq(Downlink)
    /\ up \in [at : {"fetch", "data", "lock", "ack1", "ack2", "clear", "end"},
               size : Packet \cup {None}, told : Packet \cup {None}]
    /\ down \in Downlink \cup {None}
    /\ resp \subseteq Downlink
    /\ main \in {"stat", "sleep", "join", "exited"}
    /\ exit_sig \in BOOLEAN
    /\ mx_meas_up \in {"up", None}
    /\ sent \in Seq(Datagram)
    /\ raced \subseteq Packet
    /\ missed \subseteq Downlink

Init ==
    /\ cfgdata = [pkt |-> None, has |-> "nothing"]
    /\ data = [pkt |-> None, whole |-> TRUE]
    /\ downfile = [n \in Name |-> None]
    /\ sketch = [at |-> "receive", pkt |-> None, emitting |-> None]
    /\ radio = [unsent |-> Packet, emitted |-> <<>>]
    /\ up = [at |-> "fetch", size |-> None, told |-> None]
    /\ down = None /\ resp = Downlink
    /\ main = "stat" /\ exit_sig = FALSE /\ mx_meas_up = None
    /\ sent = <<>> /\ raced = {} /\ missed = {}

Running == main # "exited"

-----------------------------------------------------------------------------
(* The sketch.  Each piece is a call of the bridge of its own, and is in   *)
(* the file when the call returns.                                         *)
Goto(at) == sketch' = [sketch EXCEPT !.at = at]

(* Opening cfgdata for a new packet empties it, whether or not thread_up   *)
(* is done with the last one.                                              *)
receivepacket(p) ==
    /\ sketch.at = "receive" /\ p \in radio.unsent
    /\ sketch' = [sketch EXCEPT !.at = "rssi", !.pkt = p]
    /\ radio' = [radio EXCEPT !.unsent = @ \ {p}]
    /\ cfgdata' = [pkt |-> p, has |-> "nothing"]
    /\ raced' = raced \cup (Packet \cap ((IF cfgdata.has = "all" THEN {cfgdata.pkt} ELSE {})
                                 \cup (IF up.at # "fetch" THEN {p, up.told} ELSE {})))
    /\ UNCHANGED <<data, downfile, up, down, resp, main, exit_sig, mx_meas_up, sent, missed>>

(* A write goes on where the last one ended, so that it leaves a hole in a *)
(* file that was truncated meanwhile, and no text is found in it.          *)
PrintCfg(from, to, has) ==
    /\ sketch.at = from
    /\ Goto(to)
    /\ cfgdata' = [cfgdata EXCEPT !.has = IF from # "rssi" /\ @ \in {"nothing", "holes"}
                                          THEN "holes" ELSE has]
    /\ UNCHANGED <<data, downfile, radio, up, down, resp, main, exit_sig, mx_meas_up, sent, raced, missed>>

OpenData ==
    /\ sketch.at = "open"
    /\ Goto("data")
    /\ data' = [pkt |-> sketch.pkt, whole |-> FALSE]
    /\ UNCHANGED <<cfgdata, downfile, radio, up, down, resp, main, exit_sig, mx_meas_up, sent, raced, missed>>

PrintData ==
    /\ sketch.at = "data"
    /\ Goto(IF sketch.pkt \in Join THEN "join" ELSE "exists")
    /\ data' = [data EXCEPT !.whole = TRUE]
    /\ UNCHANGED <<cfgdata, downfile, radio, up, down, resp, main, exit_sig, mx_meas_up, sent, raced, missed>>

(* sendpacket waits ten seconds for /var/iot/dldata, which nobody writes.  *)
sendpacket ==
    /\ sketch.at = "join"
    /\ Goto("receive")
    /\ UNCHANGED <<files, radio, up, down, resp, main, exit_sig, mx_meas_up, sent, raced, missed>>

Exists ==
    /\ sketch.at = "exists"
    /\ Goto(IF downfile[AnswerFile[sketch.pkt]] = None THEN "receive" ELSE "emit")
    /\ UNCHANGED <<files, radio, up, down, resp, main, exit_sig, mx_meas_up, sent, raced, missed>>

InFile == downfile[AnswerFile[sketch.pkt]]

(* loop() comes back to emitpacket as long as the file has less than three *)
(* bytes.                                                                  *)
emitpacket ==
    /\ sketch.at = "emit" /\ InFile \in Downlink \ Short
    /\ sketch' = [sketch EXCEPT !.at = "rm", !.emitting = InFile]
    /\ radio' = [radio EXCEPT !.emitted = Append(@, InFile)]
    /\ UNCHANGED <<files, up, down, resp, main, exit_sig, mx_meas_up, sent, raced, missed>>

(* Mutant: the file stays.                                                 *)
RemoveNot ==
    /\ sketch.at = "rm"
    /\ sketch' = [sketch EXCEPT !.at = "receive", !.emitting = None]
    /\ UNCHANGED <<files, radio, up, down, resp, main, exit_sig, mx_meas_up, sent, raced, missed>>

(* Emission takes two seconds; rm removes what is there then.              *)
Remove ==
    /\ sketch.at = "rm"
    /\ sketch' = [sketch EXCEPT !.at = "receive", !.emitting = None]
    /\ missed' = IF InFile = sketch.emitting THEN missed ELSE missed \cup ({InFile, down} \cap Downlink)
    /\ downfile' = [downfile EXCEPT ![AnswerFile[sketch.pkt]] = None]
    /\ UNCHANGED <<cfgdata, data, radio, up, down, resp, main, exit_sig, mx_meas_up, sent, raced>>

-----------------------------------------------------------------------------
(* thread_up.                                                              *)
UpGoto(at) == up' = [up EXCEPT !.at = at]

UpEnd ==
    /\ Running /\ up.at = "fetch" /\ exit_sig
    /\ UpGoto("end")
    /\ UNCHANGED <<files, sketch, radio, down, resp, main, exit_sig, mx_meas_up, sent, raced, missed>>

(* A size that is not there yet reads as 0.                                *)
Fetch ==
    /\ Running /\ up.at = "fetch" /\ ~exit_sig
    /\ cfgdata.has \in {"size=", "all"}
    /\ up' = [at |-> "data", size |-> IF cfgdata.has = "all" THEN cfgdata.pkt ELSE None,
              told |-> cfgdata.pkt]
    /\ raced' = IF cfgdata.has = "all" THEN raced ELSE raced \cup {cfgdata.pkt}
    /\ UNCHANGED <<files, sketch, radio, down, resp, main, exit_sig, mx_meas_up, sent, missed>>

(* After the wait: data is read and sent.                                  *)
Push ==
    /\ Running /\ up.at = "data"
    /\ UpGoto("lock")
    /\ sent' = Append(sent, [size |-> up.size, data |-> data.pkt, whole |-> data.whole])
    /\ raced' = IF data.whole /\ data.pkt = up.told THEN raced ELSE raced \cup {up.told}
    /\ UNCHANGED <<files, sketch, radio, down, resp, main, exit_sig, mx_meas_up, missed>>

Lock ==
    /\ Running /\ up.at = "lock" /\ mx_meas_up = None
    /\ mx_meas_up' = "up"
    /\ UpGoto("ack1")
    /\ UNCHANGED <<files, sketch, radio, down, resp, main, exit_sig, sent, raced, missed>>

(* Mutant: the way out of the loop forgets the mutex.                      *)
PushAckKeepsLock ==
    /\ Running /\ up.at \in {"ack1", "ack2"}
    /\ \/ UpGoto("clear") /\ UNCHANGED mx_meas_up
       \/ up.at = "ack1" /\ UpGoto("ack2") /\ UNCHANGED mx_meas_up
    /\ UNCHANGED <<files, sketch, radio, down, resp, main, exit_sig, sent, raced, missed>>

(* PUSH_ACK, or the server refuses the connection; or a timeout or a       *)
(* datagram that is not the acknowledgement, twice.                        *)
PushAck ==
    /\ Running /\ up.at \in {"ack1", "ack2"}
    /\ \/ UpGoto("clear") /\ mx_meas_up' = None
       \/ up.at = "ack1" /\ UpGoto("ack2") /\ UNCHANGED mx_meas_up
    /\ UNCHANGED <<files, sketch, radio, down, resp, main, exit_sig, sent, raced, missed>>

(* Mutant: cfgdata is not truncated.                                       *)
ClearNot ==
    /\ Running /\ up.at = "clear"
    /\ up' = [at |-> "fetch", size |-> None, told |-> None]
    /\ UNCHANGED <<files, sketch, radio, down, resp, main, exit_sig, mx_meas_up, sent, raced, missed>>

(* The size may be that of another packet than the one that was sent.      *)
Clear ==
    /\ Running /\ up.at = "clear"
    /\ up' = [at |-> "fetch", size |-> None, told |-> None]
    /\ cfgdata' = [cfgdata EXCEPT !.has = "nothing"]
    /\ UNCHANGED <<data, downfile, sketch, radio, down, resp, main, exit_sig, mx_meas_up, sent, raced, missed>>

-----------------------------------------------------------------------------
(* thread_down: open creates or empties the file, write fills it.          *)
PullResp(d) ==
    /\ Running /\ ~exit_sig /\ down = None /\ d \in resp
    /\ down' = d /\ resp' = resp \ {d}
    /\ missed' = missed \cup ({downfile[FileOf[d]]} \cap Downlink)
    /\ downfile' = [downfile EXCEPT ![FileOf[d]] = "empty"]
    /\ UNCHANGED <<cfgdata, data, sketch, radio, up, main, exit_sig, mx_meas_up, sent, raced>>

(* The descriptor still leads to the file that the sketch has removed.     *)
WriteDown ==
    /\ Running /\ down # None
    /\ down' = None
    /\ downfile' = [downfile EXCEPT ![FileOf[down]] = IF @ = None THEN None ELSE down]
    /\ UNCHANGED <<cfgdata, data, sketch, radio, up, resp, main, exit_sig, mx_meas_up, sent, raced, missed>>

-----------------------------------------------------------------------------
(* main.                                                                   *)
sig_handler ==
    /\ Running /\ ~exit_sig
    /\ exit_sig' = TRUE
    /\ UNCHANGED <<files, sketch, radio, up, down, resp, main, mx_meas_up, sent, raced, missed>>

Stat ==
    /\ main = "stat"
    /\ \/ exit_sig /\ main' = "join"
       \/ ~exit_sig /\ mx_meas_up = None /\ main' = "sleep"
    /\ UNCHANGED <<files, sketch, radio, up, down, resp, exit_sig, mx_meas_up, sent, raced, missed>>

WakeUp ==
    /\ main = "sleep"
    /\ main' = "stat"
    /\ UNCHANGED <<files, sketch, radio, up, down, resp, exit_sig, mx_meas_up, sent, raced, missed>>

(* thread_down is cancelled, wherever it is.                               *)
Exit ==
    /\ main = "join" /\ up.at = "end"
    /\ main' = "exited"
    /\ UNCHANGED <<files, sketch, radio, up, down, resp, exit_sig, mx_meas_up, sent, raced, missed>>

-----------------------------------------------------------------------------
Sketch ==
    \/ PrintCfg("rssi", "size=", "rssi") \/ PrintCfg("size=", "size", "size=")
    \/ PrintCfg("size", "open", "all")
    \/ OpenData \/ PrintData \/ sendpacket \/ Exists \/ emitpacket \/ Remove

thread_up == UpEnd \/ Fetch \/ Push \/ Lock \/ PushAck \/ Clear
Main      == Stat \/ WakeUp \/ Exit
Radio     == \E p \in Packet : receivepacket(p)
Server    == \E d \in Downlink : PullResp(d)

Next == Sketch \/ thread_up \/ WriteDown \/ Main \/ Radio \/ Server \/ sig_handler

(* Every thread goes on, recv has its timeout, and main sleeps for a while.*)
Fairness ==
    /\ WF_vars(Sketch) /\ WF_vars(thread_up) /\ WF_vars(WriteDown) /\ WF_vars(Main)

Spec == Init /\ [][Next]_vars /\ Fairness

-----------------------------------------------------------------------------
(* What the server gets as a packet is one packet, with its size and all   *)
(* its data, and it gets it once, unless the two sides have met at a file. *)
ForwardedOnce ==
    \A i \in DOMAIN sent :
       LET d == sent[i]
       IN  d.size \in Packet \ raced
             => /\ d.data = d.size /\ d.whole
                /\ \A j \in DOMAIN sent : sent[j].size = d.size => i = j

(* A packet that was heard is forwarded, unless the two sides have met at  *)
(* a file or the forwarder is told to stop.                                *)
EveryPacketForwarded ==
    \A p \in Packet :
       p \notin radio.unsent
         ~> (exit_sig \/ p \in raced \/ \E i \in DOMAIN sent : sent[i].size = p)

(* A downlink is emitted at most once, to a node whose address gives the   *)
(* name of its file, and it waits in its file until then, unless a newer   *)
(* one has taken its place or it came while an older one was emitted.      *)
DownlinksKept ==
    /\ \A i, j \in DOMAIN radio.emitted : radio.emitted[i] = radio.emitted[j] => i = j
    /\ \A d \in Downlink \ (resp \cup {down} \cup missed) :
          \/ downfile[FileOf[d]] = d
          \/ \E i \in DOMAIN radio.emitted : radio.emitted[i] = d

(* A forwarder that is told to stop stops.                                 *)
Stops == exit_sig ~> (main = "exited")

(* The sketch goes back to receiving, unless the downlink it found has     *)
(* less than three bytes: then it waits for another one, deaf.             *)
SketchReceives ==
    sketch.at = "emit" ~> \/ sketch.at = "receive"
                          \/ sketch.at = "emit" /\ InFile \in Short \cup {"empty", None}
=============================================================================
