----------------------------- MODULE TcpClient -----------------------------
(***************************************************************************)
(* The TCP client of the IoT data files (tcp_client/src/tcp_client.c): it  *)
(* goes round the files /var/iot/data1 .. data5, reads the beginning of    *)
(* one, truncates it, and sends what it has read.  The sketch appends to   *)
(* the files whenever it likes; neither side locks them.                   *)
(***************************************************************************)
EXTENDS Integers, Sequences

CONSTANTS
    FILES,     \* number of files, 5 in the code
    UP_DATA,   \* length of up_data, in pieces of data
    Data,      \* what the sketch has to say, each once
    None

File == 1 .. FILES

VARIABLES
    file,      \* what is in each file
    client,    \* where the loop is, with the file and what was read of it
    server,    \* what the server has received
    connected,
    written,   \* ghost: what was written to each file, in order
    excused    \* ghost: written between read and truncation, behind the
               \* first UP_DATA, or sent to a server that was gone
vars == <<file, client, server, connected, written, excused>>

Elements(s) == {s[i] : i \in DOMAIN s}

TypeOK ==
    /\ file \in [File -> Seq(Data)] /\ written \in [File -> Seq(Data)]
    /\ client \in [at : {"read", "truncate", "send", "killed"}, j : File, up_data : Seq(Data)]
    /\ Len(client.up_data) <= UP_DATA
    /\ server \in Seq(Data)
    /\ connected \in BOOLEAN
    /\ excused \subseteq Data

Init ==
    /\ file = [j \in File |-> <<>>] /\ written = [j \in File |-> <<>>]
    /\ client = [at |-> "read", j |-> 1, up_data |-> <<>>]
    /\ server = <<>> /\ connected = TRUE /\ excused = {}

Write(j, d) ==
    /\ \A k \in File : d \notin Elements(written[k])
    /\ file' = [file EXCEPT ![j] = Append(@, d)]
    /\ written' = [written EXCEPT ![j] = Append(@, d)]
    /\ UNCHANGED <<client, server, connected, excused>>

Disconnect ==
    /\ connected
    /\ connected' = FALSE
    /\ UNCHANGED <<file, client, server, written, excused>>

(* Mutant: what was read does not replace what was read before.            *)
ReadOn ==
    /\ client.at = "read"
    /\ LET n == IF Len(file[client.j]) < UP_DATA THEN Len(file[client.j]) ELSE UP_DATA
       IN  client' = [client EXCEPT !.at = "truncate",
                        !.up_data = IF n > 0 THEN SubSeq(file[client.j], 1, n) ELSE @]
    /\ UNCHANGED <<file, server, connected, written, excused>>

Read ==
    /\ client.at = "read"
    /\ LET n == IF Len(file[client.j]) < UP_DATA THEN Len(file[client.j]) ELSE UP_DATA
       IN  client' = [client EXCEPT !.at = "truncate", !.up_data = SubSeq(file[client.j], 1, n)]
    /\ UNCHANGED <<file, server, connected, written, excused>>

Truncate ==
    /\ client.at = "truncate"
    /\ client' = [client EXCEPT !.at = "send"]
    /\ file' = [file EXCEPT ![client.j] = <<>>]
    /\ excused' = excused \cup (Elements(file[client.j]) \ Elements(client.up_data))
    /\ UNCHANGED <<server, connected, written>>

(* The result of send is not looked at; the second one to a server that is *)
(* gone ends the process by SIGPIPE.                                       *)
Send ==
    /\ client.at = "send"
    /\ \/ /\ connected
          /\ server' = server \o client.up_data
          /\ client' = [client EXCEPT !.at = "read", !.j = (@ % FILES) + 1]
          /\ UNCHANGED excused
       \/ /\ ~connected
          /\ \E at \in {"read", "killed"} :
                client' = [client EXCEPT !.at = at, !.j = (@ % FILES) + 1]
          /\ excused' = excused \cup Elements(client.up_data)
          /\ UNCHANGED server
    /\ UNCHANGED <<file, connected, written>>

Next ==
    \/ Read \/ Truncate \/ Send \/ Disconnect
    \/ \E k \in File, d \in Data : Write(k, d)

Spec == Init /\ [][Next]_vars

-----------------------------------------------------------------------------
(* The server gets what was written to a file at most once and in the      *)
(* order in which it was written; and what it has not got is still in the  *)
(* file or with the client, unless it was written between read and         *)
(* truncation, lies behind the first UP_DATA, or the server is gone.       *)
InOrderOnce ==
    /\ \A m, n \in DOMAIN server : server[m] = server[n] => m = n
    /\ \A j \in File : \A a, b \in DOMAIN written[j], m, n \in DOMAIN server :
          (a < b /\ server[m] = written[j][a] /\ server[n] = written[j][b]) => m < n
    /\ \A j \in File : \A d \in Elements(written[j]) \ excused :
          \/ d \in Elements(server)
          \/ d \in Elements(file[j])
          \/ client.j = j /\ client.at = "send" /\ d \in Elements(client.up_data)
=============================================================================
