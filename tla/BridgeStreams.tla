---------------------------- MODULE BridgeStreams ----------------------------
(***************************************************************************)
(* What the bridge keeps open for the sketch: the background processes     *)
(* (processes.py), the files (files.py), the TCP connections (sockets.py)  *)
(* and the UDP sockets (sockets_udp.py).  Each of the four has a table of  *)
(* identifiers; the sketch gives the identifier with every command.        *)
(*                                                                         *)
(* Data are numbered by whoever produces them: what a stream hears or says *)
(* first is 1.  The other sides, and the sketch, are external; the sketch  *)
(* uses the identifiers it holds and no others, but for one command on a   *)
(* file it has closed.  Commands come one at a time (YunBridge), and after *)
(* each the sockets run.  Restarting the bridge makes the sketch start     *)
(* again, since nothing is answered before it resets the line.             *)
(***************************************************************************)
EXTENDS Integers, Sequences, SequencesExt

CONSTANTS
    Stream,   \* what can be opened, each once
    Kinds,    \* of the streams: process, file, tcp, ssl or udp
    IDS,      \* 256 identifiers
    MOST,     \* 32 or 1024: a buffer as long as this is not filled further
    TOTAL,    \* how much is heard from a stream, or said to it; twice as
              \* much arrives, at most, of what SSL repeats
    None

Id == 0 .. IDS - 1

VARIABLES
    kind,      \* the kind all the streams have
    bridge,    \* up, waiting, stuck, or down
    awaited,   \* the process the bridge waits for
    table,     \* the streams by their identifiers
    next_id,
    stream,    \* the streams, with what the bridge and the world know of them
    held       \* the sketch: the identifiers it holds
vars == <<kind, bridge, awaited, table, next_id, stream, held>>

Upto(n) == [i \in 1 .. n |-> i]

TypeOK ==
    /\ kind \in Kinds
    /\ bridge \in {"up", "waiting", "stuck", "down"} /\ awaited \in Stream \cup {None}
    /\ table \in [Id -> Stream \cup {None}]
    /\ next_id \in Id
    /\ stream \in [Stream -> [state : {"new", "connecting", "open", "closed", "gone"},
                              made : 0 .. TOTAL, over : BOOLEAN, fed : 0 .. TOTAL,
                              rxbuff : Seq(Nat), cur : Nat, txbuff : Seq(Nat), said : 0 .. TOTAL,
                              heard : Seq(Nat), arrived : Seq(Nat), failed : BOOLEAN]]
    /\ held \in [Stream -> Id \cup {None}]

New == [state |-> "new", made |-> 0, over |-> FALSE, fed |-> 0, rxbuff |-> <<>>, cur |-> 0,
        txbuff |-> <<>>, said |-> 0, heard |-> <<>>, arrived |-> <<>>, failed |-> FALSE]

Init ==
    /\ kind \in Kinds
    /\ bridge = "up" /\ awaited = None
    /\ table = [i \in Id |-> None] /\ next_id = 0
    /\ stream = [s \in Stream |-> New]
    /\ held = [s \in Stream |-> None]

Becomes(s, r) == stream' = [stream EXCEPT ![s] = r]
Socket == kind \in {"tcp", "ssl", "udp"}

(* A command about a stream the sketch holds, and a step of a socket in the*)
(* table.                                                                  *)
Command(s) == bridge = "up" /\ held[s] # None /\ UNCHANGED <<kind, awaited, held>>
Runs(s) ==
    /\ bridge = "up" /\ Socket
    /\ \E i \in Id : table[i] = s
    /\ UNCHANGED <<kind, bridge, awaited, table, next_id, held>>

-----------------------------------------------------------------------------
(* RUN, OPEN, CONNECT, ACCEPT and CREATE: the next free identifier from    *)
(* next_id; when there is none the search does not end.                    *)
Free == {i \in Id : table[i] = None}

NextId == CHOOSE i \in Free :
             \A j \in Free : (i - next_id) % IDS <= (j - next_id) % IDS

Create(s) ==
    /\ bridge = "up" /\ stream[s].state = "new"
    /\ IF Free = {}
       THEN bridge' = "stuck" /\ UNCHANGED <<table, next_id, stream, held>>
       ELSE /\ next_id' = NextId
            /\ table' = [table EXCEPT ![NextId] = s]
            /\ held' = [held EXCEPT ![s] = NextId]
            /\ \E state \in {"connecting", "open"} :
                  /\ state = "connecting" => kind \in {"tcp", "ssl"}
                  /\ state = "open" => kind # "ssl"
                  /\ Becomes(s, [stream[s] EXCEPT !.state = state])
            /\ UNCHANGED bridge
    /\ UNCHANGED <<kind, awaited>>

(* CLEAN_UP and CLOSE.  The second CLOSE_Command of sockets_udp.py closes  *)
(* an object that module does not have, which ends the bridge.             *)
Close(s) ==
    /\ bridge = "up" /\ held[s] # None
    /\ IF kind = "udp"
       THEN bridge' = "down" /\ UNCHANGED <<table, stream, held>>
       ELSE /\ table' = [table EXCEPT ![held[s]] = None]
            /\ held' = [held EXCEPT ![s] = None]
            /\ Becomes(s, [stream[s] EXCEPT !.state = "gone"])
            /\ UNCHANGED bridge
    /\ UNCHANGED <<kind, awaited, next_id>>

-----------------------------------------------------------------------------
(* Data on their way to the sketch.  A command works on the stream that the*)
(* table has under the identifier.                                         *)
At(s) == table[held[s]]

(* try_buffer_output, and the first half of a socket's run: while there is *)
(* room in the buffer some of what has been produced is taken.             *)
Taken(r, n) == [r EXCEPT !.fed = @ + n, !.rxbuff = @ \o [i \in 1 .. n |-> r.fed + i]]

Amounts(r) == IF Len(r.rxbuff) < MOST THEN 1 .. r.made - r.fed ELSE {}

Given(r, n) == SubSeq(r.rxbuff, 1, n)
Kept(r, n)  == [r EXCEPT !.rxbuff = SubSeq(@, n + 1, Len(@))]

(* One more read: from the stream of the table, by the one that asked.     *)
Reads(s, r, n) ==
    stream' = [t \in Stream |->
                 LET new == IF t = At(s) THEN Kept(r, n) ELSE stream[t]
                 IN  IF t = s THEN [new EXCEPT !.heard = @ \o Given(r, n)] ELSE new]

(* READ_OUTPUT fills the buffer before it gives the beginning of it away;  *)
(* AVAILABLE_OUTPUT only fills it.                                         *)
ReadOutput(s) ==
    /\ Command(s) /\ kind = "process"
    /\ LET r == stream[At(s)]
       IN  \E m \in Amounts(r) \cup {0} :
              \E n \in 0 .. Len(Taken(r, m).rxbuff) : Reads(s, Taken(r, m), n)
    /\ UNCHANGED <<bridge, table, next_id>>

(* READ of a socket: what is in the buffer, its connection closed or not.  *)
ReadSocket(s) ==
    /\ Command(s) /\ kind \in {"tcp", "ssl"}
    /\ \E n \in 1 .. Len(stream[At(s)].rxbuff) : Reads(s, stream[At(s)], n)
    /\ UNCHANGED <<bridge, table, next_id>>

(* READ of a file, from its position; SIZE moves the position and back.    *)
ReadFile(s) ==
    /\ Command(s) /\ kind = "file"
    /\ LET r == stream[At(s)]
       IN  \E n \in 1 .. TOTAL - r.fed : Reads(s, Taken(r, n), n)
    /\ UNCHANGED <<bridge, table, next_id>>

(* UDP: RECV_BEGIN takes the next datagram, whatever is left of the last,  *)
(* and RECV reads it.                                                      *)
RecvBegin(s) ==
    /\ Command(s) /\ kind = "udp"
    /\ stream[At(s)].rxbuff # <<>>
    /\ Becomes(At(s), [stream[At(s)] EXCEPT !.cur = Head(stream[At(s)].rxbuff), !.rxbuff = Tail(@)])
    /\ UNCHANGED <<bridge, table, next_id>>

Recv(s) ==
    /\ Command(s) /\ kind = "udp"
    /\ stream[At(s)].cur > 0
    /\ stream' = [t \in Stream |->
                    LET new == IF t = At(s) THEN [stream[t] EXCEPT !.cur = 0] ELSE stream[t]
                    IN  IF t = s THEN [new EXCEPT !.heard = Append(@, stream[At(s)].cur)] ELSE new]
    /\ UNCHANGED <<bridge, table, next_id>>

-----------------------------------------------------------------------------
(* Data of the sketch.  A process and a file get them at once, a socket    *)
(* when it runs; a UDP datagram is begun, written and ended.               *)
Write(s) ==
    /\ Command(s)
    /\ stream[s].said < TOTAL
    /\ LET n == stream[s].said + 1
           Say(r) == IF Socket THEN [r EXCEPT !.txbuff = Append(@, n)]
                     ELSE [r EXCEPT !.arrived = Append(@, n)]
       IN  stream' = [t \in Stream |->
                        LET new == IF t = At(s) THEN Say(stream[t]) ELSE stream[t]
                        IN  IF t = s THEN [new EXCEPT !.said = n] ELSE new]
    /\ UNCHANGED <<bridge, table, next_id>>

(* The process has ended: nobody catches the error.                        *)
WriteFails(s) ==
    /\ bridge = "up" /\ held[s] # None /\ kind = "process" /\ stream[At(s)].over
    /\ bridge' = "down"
    /\ UNCHANGED <<kind, awaited, table, next_id, stream, held>>

(* WAIT: nothing else happens until the process has ended.                 *)
Wait(s) ==
    /\ bridge = "up" /\ held[s] # None /\ kind = "process"
    /\ IF stream[At(s)].over THEN UNCHANGED <<bridge, awaited>>
       ELSE bridge' = "waiting" /\ awaited' = At(s)
    /\ UNCHANGED <<kind, table, next_id, stream, held>>

Waited ==
    /\ bridge = "waiting" /\ stream[awaited].over
    /\ bridge' = "up" /\ awaited' = None
    /\ UNCHANGED <<kind, table, next_id, stream, held>>

(* A file that is not in the table: None cannot be taken apart.            *)
ClosedFile(s) ==
    /\ bridge = "up" /\ kind = "file" /\ stream[s].state = "gone"
    /\ held[s] = None
    /\ bridge' = "down"
    /\ UNCHANGED <<kind, awaited, table, next_id, stream, held>>

-----------------------------------------------------------------------------
(* run of the sockets.                                                     *)
Connected(s) ==
    /\ Runs(s) /\ stream[s].state = "connecting"
    /\ \E state \in {"open", "closed"} : Becomes(s, [stream[s] EXCEPT !.state = state])

Receive(s) ==
    /\ Runs(s) /\ stream[s].state = "open"
    /\ \E n \in IF kind = "udp" THEN {1} \cap (1 .. stream[s].made - stream[s].fed)
                ELSE Amounts(stream[s]) :
          Becomes(s, Taken(stream[s], n))

(* Mutant: a connection that the other side has closed is closed before    *)
(* everything has been taken.                                              *)
PeerClosedEarly(s) ==
    /\ Runs(s) /\ stream[s].state = "open" /\ kind # "udp"
    /\ stream[s].over
    /\ Becomes(s, [stream[s] EXCEPT !.state = "closed"])

(* The other side has closed, and all has been taken.                      *)
PeerClosed(s) ==
    /\ Runs(s) /\ stream[s].state = "open" /\ kind # "udp"
    /\ stream[s].over /\ stream[s].fed = stream[s].made /\ Len(stream[s].rxbuff) < MOST
    /\ Becomes(s, [stream[s] EXCEPT !.state = "closed"])

ReceiveFails(s) ==
    /\ Runs(s) /\ stream[s].state = "open"
    /\ Becomes(s, [stream[s] EXCEPT !.state = "closed", !.failed = TRUE])

(* sendall returns None, and a list without its first None elements is the *)
(* whole list: what was sent over SSL is sent again, for ever.             *)
Send(s) ==
    /\ Runs(s) /\ stream[s].state = "open"
    /\ stream[s].txbuff # <<>> /\ Len(stream[s].arrived) < 2 * TOTAL
    /\ LET r == stream[s]
           Sent(n) == [r EXCEPT !.arrived = @ \o SubSeq(r.txbuff, 1, n),
                                !.txbuff = IF kind = "ssl" THEN @ ELSE SubSeq(@, n + 1, Len(@))]
       IN  \E n \in CASE kind = "ssl" -> {Len(r.txbuff)}
                      [] kind = "udp" -> {1}
                      [] kind = "tcp" -> 1 .. Len(r.txbuff) :
              Becomes(s, Sent(n))

(* A datagram that cannot be sent is dropped.                              *)
SendFails(s) ==
    /\ Runs(s) /\ kind = "udp" /\ stream[s].state = "open"
    /\ stream[s].txbuff # <<>>
    /\ Becomes(s, [stream[s] EXCEPT !.txbuff = Tail(@)])

(* A UDP socket that has been closed cannot be selected, and nobody catches*)
(* the error.                                                              *)
RunClosed(s) ==
    /\ bridge = "up" /\ kind = "udp" /\ stream[s].state = "closed"
    /\ bridge' = "down"
    /\ UNCHANGED <<kind, awaited, table, next_id, stream, held>>

Running ==
    \E s \in Stream : Connected(s) \/ Receive(s) \/ PeerClosed(s) \/ Send(s) \/ RunClosed(s)

-----------------------------------------------------------------------------
(* The process at the other end of its pipe, or the other side.            *)
Produce(s) ==
    /\ stream[s].state = "open" /\ ~ stream[s].over /\ kind # "file"
    /\ stream[s].made < TOTAL
    /\ Becomes(s, [stream[s] EXCEPT !.made = @ + 1])
    /\ UNCHANGED <<kind, bridge, awaited, table, next_id, held>>

End(s) ==
    /\ stream[s].state = "open" /\ ~ stream[s].over /\ kind \notin {"file", "udp"}
    /\ Becomes(s, [stream[s] EXCEPT !.over = TRUE])
    /\ UNCHANGED <<kind, bridge, awaited, table, next_id, held>>

(* An exception nobody catches, or the power.                              *)
Crash ==
    /\ bridge \in {"up", "waiting"}
    /\ bridge' = "down"
    /\ UNCHANGED <<kind, awaited, table, next_id, stream, held>>

Restart ==
    /\ bridge \in {"down", "stuck"}
    /\ bridge' = "up" /\ awaited' = None
    /\ table' = [i \in Id |-> None] /\ next_id' = 0
    /\ stream' = [s \in Stream |-> IF stream[s].state = "new" THEN New
                                   ELSE [stream[s] EXCEPT !.state = "gone"]]
    /\ held' = [s \in Stream |-> None]
    /\ UNCHANGED kind

(* The sketch starts again.  The bridge looks for a method reset among the *)
(* letters of the commands, so its tables stay as they are.                *)
Reset ==
    /\ bridge = "up"
    /\ held' = [s \in Stream |-> None]
    /\ UNCHANGED <<kind, bridge, awaited, table, next_id, stream>>

Reading ==
    \E s \in Stream : ReadOutput(s) \/ ReadSocket(s) \/ ReadFile(s) \/ RecvBegin(s) \/ Recv(s)

Sketch ==
    \/ \E s \in Stream : Create(s) \/ Close(s) \/ Write(s) \/ WriteFails(s) \/ Wait(s) \/ ClosedFile(s)
    \/ Reset

Others == \E s \in Stream : Produce(s) \/ End(s) \/ ReceiveFails(s) \/ SendFails(s)

Next == Reading \/ Running \/ Sketch \/ Waited \/ Others \/ Crash \/ Restart

Spec == Init /\ [][Next]_vars

-----------------------------------------------------------------------------
Increasing(q) == \A i, j \in DOMAIN q : i < j => q[i] < q[j]

(* An identifier stands for the stream it was given out for until the      *)
(* sketch closes it.  What the sketch hears from a stream, and what arrives*)
(* at its other end, is what was produced there and said here, in order,   *)
(* once and without a hole (datagrams may be missing); and a connection    *)
(* is not taken for closed while something has to be taken from it, unless *)
(* it failed.  SSL is excepted: there, data arrive again.                  *)
StreamsInOrder ==
    \A s \in Stream :
       LET r == stream[s]
       IN  /\ bridge = "up" /\ held[s] # None => At(s) = s
           /\ IF kind = "udp"
              THEN Increasing(r.heard) /\ Increasing(r.arrived)
              ELSE /\ r.heard \o r.rxbuff = Upto(r.fed)
                   /\ kind # "ssl" => r.arrived = Upto(Len(r.arrived))
           /\ r.state = "closed" /\ r.over /\ ~ r.failed => r.fed = r.made
=============================================================================
