---------------------------- MODULE BridgeConsole ----------------------------
(***************************************************************************)
(* The console of the bridge (console.py): any number of clients of a TCP  *)
(* port hear what the sketch writes and what the other clients say, and the*)
(* sketch reads what they all say.  A datum is its author with a number    *)
(* that counts what this author has said.                                  *)
(*                                                                         *)
(* The clients are external: they connect once, say things, close, and take*)
(* data or do not.  Commands come one at a time, and run between them.     *)
(***************************************************************************)
EXTENDS Integers, Sequences, SequencesExt, Sublist

CONSTANTS
    Client,
    Sketch,
    STARVING,  \* 8192: more than this kept for a client is too much
    TOTAL      \* how much each client says, and the sketch

Author == Client \cup {Sketch}
Datum  == Author \X (1 .. TOTAL)

VARIABLES
    up,        \* the bridge runs
    con,       \* the console: its clients, the buffer of each, and recvbuffer;
               \* all that it has been given, and where each client came in
    link,      \* the clients' ends: their state, and what is on its way
    got,       \* what each client has got
    read,      \* what the sketch has read
    said       \* how much each has said
vars == <<up, con, link, got, read, said>>

TypeOK ==
    /\ up \in BOOLEAN
    /\ con.clients \in Seq(Client) /\ IsInjective(con.clients)
    /\ con.buffer \in [Client -> Seq(Datum)]
    /\ con.recvbuffer \in Seq(Datum) /\ con.all \in Seq(Datum)
    /\ con.since \in [Client -> Nat]
    /\ link \in [Client -> [state : {"new", "waiting", "open", "left", "closed"},
                            pending : Seq(Datum)]]
    /\ got \in [Client -> Seq(Datum)] /\ read \in Seq(Datum)
    /\ said \in [Author -> 0 .. TOTAL]

Init ==
    /\ up = TRUE
    /\ con = [clients |-> <<>>, buffer |-> [c \in Client |-> <<>>], recvbuffer |-> <<>>,
              all |-> <<>>, since |-> [c \in Client |-> 0]]
    /\ link = [c \in Client |-> [state |-> "new", pending |-> <<>>]]
    /\ got = [c \in Client |-> <<>>] /\ read = <<>>
    /\ said = [a \in Author |-> 0]

Clients(k) == ToSet(k.clients)

(* What is given to the clients: to all of them, or all but its author.    *)
Give(k, data, author) ==
    [k EXCEPT !.buffer = [c \in Client |-> IF c \in Clients(k) \ {author}
                                           THEN @[c] \o data ELSE @[c]],
              !.all = @ \o data]

Close(k, cs) == [k EXCEPT !.clients = Only(@, Client \ cs),
                         !.buffer = [c \in Client |-> IF c \in cs THEN <<>> ELSE @[c]]]

-----------------------------------------------------------------------------
(* run.  Every client that has said something is read, in turn; one that   *)
(* has left, and has nothing more to say, is closed.                       *)
Accept(k, c) == [k EXCEPT !.clients = Append(@, c), !.since[c] = Len(k.all)]

Receive(k, c) ==
    IF link[c].pending # <<>>
    THEN Give([k EXCEPT !.recvbuffer = @ \o link[c].pending], link[c].pending, c)
    ELSE IF link[c].state = "left" THEN Close(k, {c}) ELSE k

(* Clients are removed from the list that is being walked through, so the  *)
(* one after a client that is dropped is passed over.                      *)
DropAt(k, n) ==
    IF n <= Len(k.clients) /\ Len(k.buffer[k.clients[n]]) > STARVING
    THEN Close(k, {k.clients[n]}) ELSE k

DropStarving(k) ==
    LET dropped[n \in 0 .. Len(k.clients)] ==
            IF n = 0 THEN k ELSE DropAt(dropped[n - 1], n)
    IN  dropped[Len(k.clients)]

(* Each client takes as much of its buffer as it will; to send to one that *)
(* has left may fail, which closes it.                                     *)
ReceiveAll(k, clients) ==
    LET heard[n \in 0 .. Len(clients)] ==
            IF n = 0 THEN k ELSE Receive(heard[n - 1], clients[n])
    IN  heard[Len(clients)]

SendAll(k, sent) ==
    [k EXCEPT !.buffer = [c \in Client |-> IF c \in Clients(k)
                                           THEN SubSeq(@[c], sent[c] + 1, Len(@[c])) ELSE @[c]]]

Run ==
    /\ up
    /\ \E accepted \in {con} \cup {Accept(con, c) : c \in {c \in Client : link[c].state = "waiting"}} :
          LET heard == ReceiveAll(accepted, con.clients)
          IN  \E failed \in SUBSET {c \in Clients(heard) : link[c].state = "left"},
                 sent \in [Clients(heard) -> 0 .. Len(heard.all)] :
                 /\ \A c \in Clients(heard) : sent[c] <= Len(heard.buffer[c])
                 /\ \A c \in failed : sent[c] = 0
                 /\ con' = DropStarving(Close(SendAll(heard, sent), failed))
                 /\ got' = [c \in Client |->
                              IF c \in Clients(heard)
                              THEN got[c] \o SubSeq(heard.buffer[c], 1, sent[c]) ELSE got[c]]
                 /\ link' = [c \in Client |->
                               IF c \in Clients(con')
                               THEN [state |-> IF link[c].state = "left" THEN "left" ELSE "open",
                                     pending |-> IF c \in Clients(con) THEN <<>>
                                                 ELSE link[c].pending]
                               ELSE IF c \in Clients(accepted)
                               THEN [state |-> "closed", pending |-> <<>>]
                               ELSE link[c]]
    /\ UNCHANGED <<up, read, said>>

(* A connection that is reset: nobody catches the error.                   *)
ReceiveFails ==
    /\ up
    /\ \E c \in Clients(con) : link[c].state = "left"
    /\ up' = FALSE
    /\ UNCHANGED <<con, link, got, read, said>>

(* WRITE and READ.                                                         *)
Write ==
    /\ up /\ said[Sketch] < TOTAL
    /\ con' = Give(con, <<<<Sketch, said[Sketch] + 1>>>>, Sketch)
    /\ said' = [said EXCEPT ![Sketch] = @ + 1]
    /\ UNCHANGED <<up, link, got, read>>

Read ==
    /\ up
    /\ \E maxlen \in 1 .. Len(con.recvbuffer) :
          /\ read' = read \o SubSeq(con.recvbuffer, 1, maxlen)
          /\ con' = [con EXCEPT !.recvbuffer = SubSeq(@, maxlen + 1, Len(@))]
    /\ UNCHANGED <<up, link, got, said>>

-----------------------------------------------------------------------------
Connect(c) ==
    /\ up /\ link[c].state = "new"
    /\ link' = [link EXCEPT ![c].state = "waiting"]
    /\ UNCHANGED <<up, con, got, read, said>>

Say(c) ==
    /\ link[c].state \in {"waiting", "open"} /\ said[c] < TOTAL
    /\ said' = [said EXCEPT ![c] = @ + 1]
    /\ link' = [link EXCEPT ![c].pending = Append(@, <<c, said'[c]>>)]
    /\ UNCHANGED <<up, con, got, read>>

Leave(c) ==
    /\ link[c].state = "open"
    /\ link' = [link EXCEPT ![c].state = "left"]
    /\ UNCHANGED <<up, con, got, read, said>>

Outside == Write \/ ReceiveFails \/ \E c \in Client : Connect(c) \/ Say(c) \/ Leave(c)

Next == Run \/ Read \/ Outside

Spec == Init /\ [][Next]_vars

-----------------------------------------------------------------------------
By(q, As) == Only(q, As \X (1 .. TOTAL))

(* Every client that is kept has got, or will get, all that the sketch has *)
(* written and the others have said since it came in, in one order that is *)
(* the same for all; and the sketch has read, or will, all that they said, *)
(* of each client everything it said in its order.                         *)
ConsoleInOrder ==
    /\ \A c \in Clients(con) :
          /\ got[c] \o con.buffer[c] = By(SubSeq(con.all, con.since[c] + 1, Len(con.all)),
                                          Author \ {c})
          /\ By(con.all, {c}) \o link[c].pending = [i \in 1 .. said[c] |-> <<c, i>>]
    /\ read \o con.recvbuffer = By(con.all, Client)
=============================================================================
