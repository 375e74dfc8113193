------------------------------ MODULE SIODTables ------------------------------
(***************************************************************************)
(* The two tables SIODMesh treats as functions, as socket_io.c has them:   *)
(* arrays of SIODS_MAX rows in the order in which the SIODs were heard,    *)
(* that end before the first row whose siod_id is zero.                    *)
(*                                                                         *)
(* A SIOD goes by the text of its id, of which the tables keep the number  *)
(* that atoi reads in it, as an unsigned short: general.lua asks for 0000  *)
(* to 9999, siod.init takes six hexadecimal digits.  What is written or    *)
(* read behind a table or a buffer is undefined; the module follows it no  *)
(* further (overrun).                                                      *)
(***************************************************************************)
EXTENDS Integers, Sequences, SequencesExt, FiniteSets, FiniteSetsExt

CONSTANTS
    Name,       \* the ids as texts
    Number,     \* what they are in the tables
    Own,        \* the ids this SIOD may have
    Address,
    Gpios,      \* the octets of a start, a Put of all lines, or setgpio
    Line,       \* the lines of a Put of one
    SIODS_MAX,
    ROOM,       \* rows of which the text fits GSTtextdata: 7
    None

Octet == 0 .. 255
Word  == 0 .. 65535
Index == 1 .. SIODS_MAX

VARIABLES
    own,        \* SIOD_ID
    process,    \* down, up, or overrun
    GST, IPT,   \* rows: id and value
    heard,      \* ghost: the last state that was heard of each SIOD
    from        \* ghost: and the last address
vars == <<own, process, GST, IPT, heard, from>>

TypeOK ==
    /\ own \in Own /\ process \in {"down", "up", "overrun"}
    /\ GST \in [Index -> [id : Word, value : Octet]]
    /\ IPT \in [Index -> [id : Word, value : Address \cup {0}]]
    /\ heard \in [Name -> Octet \cup {None}] /\ from \in [Name -> Address \cup {None}]

Zero    == [i \in Index |-> [id |-> 0, value |-> 0]]
Nothing == [n \in Name |-> None]

Init ==
    /\ own \in Own /\ process = "down"
    /\ GST = Zero /\ IPT = Zero
    /\ heard = Nothing /\ from = Nothing

-----------------------------------------------------------------------------
Full(T)   == \A i \in Index : T[i].id # 0
Length(T) == IF Full(T) THEN SIODS_MAX ELSE Min({i \in Index : T[i].id = 0}) - 1

RowsOf(T, id) == {i \in 1 .. Length(T) : T[i].id = id}

(* GSTget and IPTget, GSTset.                                              *)
Get(T, id)    == IF RowsOf(T, id) = {} THEN None ELSE T[Min(RowsOf(T, id))].value
Set(T, id, v) == IF RowsOf(T, id) = {} THEN T ELSE [T EXCEPT ![Min(RowsOf(T, id))].value = v]

(* The loops of GSTget and IPTset do not look at SIODS_MAX.                *)
Passes(T, id) == Full(T) /\ RowsOf(T, id) = {}

(* Mutant: a row for every message.                                        *)
IPTsetAppends(T, id, v) == [T EXCEPT ![Length(T) + 1] = [id |-> id, value |-> v]]

(* GSTadd, and IPTset: the row of the id, or the one after the last.       *)
Add(T, id, v) ==
    IF RowsOf(T, id) # {} THEN Set(T, id, v)
    ELSE IF Full(T) THEN T
    ELSE [T EXCEPT ![Length(T) + 1] = [id |-> id, value |-> v]]

IPTset(T, id, v) == Add(T, id, v)

Octets(id, value) == value + (id % 256) + (id \div 256)

GSTchecksum(gst) ==
    MapThenSumSet(LAMBDA i : Octets(gst[i].id, gst[i].value), 1 .. Length(gst)) % 256

byte2binarystr(n) == [i \in 1 .. 8 |-> (n \div 2 ^ (8 - i)) % 2]
binarystr2byte(s) == FoldLeft(LAMBDA byte, digit : 2 * byte + digit, 0, s)

(* Y[0]=='1' ? gpios|(1<<X) : gpios&~(1<<X)                                *)
WithLine(gpios, x, y) ==
    LET bit == (gpios \div 2 ^ x) % 2
    IN  gpios + (y - bit) * 2 ^ x

-----------------------------------------------------------------------------
(* main: the tables are empty, and the own row comes first.                *)
Start(g) ==
    /\ process = "down"
    /\ process' = "up"
    /\ GST' = Add(Zero, Number[own], g)
    /\ heard' = [heard EXCEPT ![own] = g]
    /\ UNCHANGED <<own, IPT, from>>

(* setgpio and getgpio write the first row.                                *)
SetOwn(g) ==
    /\ process = "up"
    /\ GST' = [GST EXCEPT ![1].value = g]
    /\ heard' = [heard EXCEPT ![own] = g]
    /\ UNCHANGED <<own, process, IPT, from>>

Heard(n, a) == IPT' = IPTset(IPT, Number[n], a) /\ from' = [from EXCEPT ![n] = a]

(* What has been read or written behind a table may go unnoticed, or not.  *)
Overruns(beyond) == process' \in IF beyond THEN {"up", "overrun"} ELSE {"up"}

(* ConfigRes, TimeRangeOut and PingRes only tell an address, also the own; *)
(* GSTCheckSum is compared with the own sum.                               *)
Tell(n, a) ==
    /\ process = "up"
    /\ ~ Passes(IPT, Number[n])
    /\ Heard(n, a)
    /\ Overruns(Full(GST))
    /\ UNCHANGED <<own, GST, heard>>

IPTOverrun(n) ==
    /\ process = "up"
    /\ Passes(IPT, Number[n])
    /\ process' = "overrun"
    /\ UNCHANGED <<own, GST, IPT, heard, from>>

(* Put of one line: of a SIOD that is not in the GST it is ignored.        *)
Put(n, a, x, y) ==
    /\ process = "up" /\ n # own
    /\ ~ Passes(IPT, Number[n])
    /\ Heard(n, a)
    /\ LET gpios == Get(GST, Number[n])
       IN  GST' = IF gpios = None THEN GST ELSE Set(GST, Number[n], WithLine(gpios, x, y))
    /\ heard' = IF heard[n] = None THEN heard ELSE [heard EXCEPT ![n] = WithLine(@, x, y)]
    /\ Overruns(Passes(GST, Number[n]))
    /\ UNCHANGED own

(* Put of all lines.                                                       *)
PutAll(n, a, g) ==
    /\ process = "up" /\ n # own
    /\ ~ Passes(IPT, Number[n])
    /\ Heard(n, a)
    /\ GST' = Add(GST, Number[n], binarystr2byte(byte2binarystr(g)))
    /\ heard' = [heard EXCEPT ![n] = g]
    /\ UNCHANGED <<own, process>>

(* The requests walk through the GST to its end: GSTCheckSumReq, and GSTReq*)
(* that writes every row into a buffer of a hundred characters; and        *)
(* IVRGetReq looks for one row.                                            *)
GSTCheckSumReq ==
    /\ process = "up" /\ Full(GST)
    /\ Overruns(TRUE)
    /\ UNCHANGED <<own, GST, IPT, heard, from>>

GSTReq ==
    /\ process = "up"
    /\ Full(GST) \/ Length(GST) > ROOM
    /\ Overruns(TRUE)
    /\ UNCHANGED <<own, GST, IPT, heard, from>>

IVRGetReq(n) ==
    /\ process = "up" /\ Passes(GST, Number[n])
    /\ Overruns(TRUE)
    /\ UNCHANGED <<own, GST, IPT, heard, from>>

Crash ==
    /\ process # "down"
    /\ process' = "down"
    /\ GST' = Zero /\ IPT' = Zero
    /\ heard' = Nothing /\ from' = Nothing
    /\ UNCHANGED own

Message ==
    \/ \E n \in Name, a \in Address :
          \/ Tell(n, a)
          \/ \E x \in Line, y \in 0 .. 1 : Put(n, a, x, y)
          \/ \E g \in Gpios : PutAll(n, a, g)
    \/ \E n \in Name : IPTOverrun(n) \/ IVRGetReq(n)
    \/ GSTCheckSumReq \/ GSTReq

Next == Message \/ Crash \/ \E g \in Gpios : Start(g) \/ SetOwn(g)

Spec == Init /\ [][Next]_vars

-----------------------------------------------------------------------------
(* Ids the tables tell apart: not zero, and of one SIOD only.              *)
Distinct == {n \in Name : Number[n] # 0 /\ \A m \in Name : Number[m] = Number[n] => m = n}

Known == {n \in Name : heard[n] # None}

(* In whatever order SIODs were heard, and whatever else was: the tables   *)
(* say of each SIOD what it said last, where it was heard from last, once; *)
(* the own row stays the first; and the check sum is the sum over the      *)
(* SIODs, the same in every order.  A GST that is full says nothing of the *)
(* SIODs that came later.  Ids that are zero or the same in the tables are *)
(* excepted.                                                               *)
TablesHold ==
    process = "up" /\ own \in Distinct =>
       /\ GST[1].id = Number[own]
       /\ \A T \in {GST, IPT} : \A i, j \in 1 .. Length(T) : T[i].id = T[j].id => i = j
       /\ \A n \in Distinct :
             /\ Get(GST, Number[n]) = heard[n] \/ Passes(GST, Number[n])
             /\ Get(IPT, Number[n]) = from[n]
       /\ ~ Full(GST) /\ Known \subseteq Distinct =>
             GSTchecksum(GST) = MapThenSumSet(LAMBDA n : Octets(Number[n], heard[n]), Known) % 256
=============================================================================
