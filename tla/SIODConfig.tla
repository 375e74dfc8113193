------------------------------ MODULE SIODConfig ------------------------------
(* What one SIOD is configured with and hears (socket_io.c): its PLC rules  *)
(* (SIODPlc, which is extended), its time range, its other settings, and    *)
(* the arrays that keep what it is told of others.  They are modelled as    *)
(* sharing no state: a step is a step of one of them.                       *)
EXTENDS SIODPlc

CONSTANTS
    DAY, Ranges, Clock,                                        \* of SIODTimeRange
    Asked, Value, Factory,                                     \* of SIODSettings
    Name, Number, Own, Host, Gpios, Line, SIODS_MAX, ROOM      \* of SIODTables

VARIABLES
    start, end, stored, rpc, now, given, mixed,
    view, committed, inuse, handling, todo, told, promised, half,
    own, process, GST, IPT, heard, from

R == INSTANCE SIODTimeRange WITH Now <- Clock, pc <- rpc

S == INSTANCE SIODSettings WITH Message <- Asked, Nobody <- None

T == INSTANCE SIODTables WITH Address <- Host

(* ParseTimeRange: days of the week are 0 to 6, days of the month 1 to 31,  *)
(* and a time is one of the day.                                            *)
ASSUME RangeAssumption ==
    /\ DAY \in Nat \ {0} /\ Clock \subseteq Nat
    /\ \A r \in Ranges :
          /\ \/ r.kind = "any" /\ r.from = 0 /\ r.to = 0
             \/ r.kind = "week" /\ r.from \in 0 .. 6 /\ r.to \in 0 .. 6
             \/ r.kind = "date" /\ r.from \in 1 .. 31 /\ r.to \in 1 .. 31
          /\ r.time = <<>> \/ \E t, u \in 0 .. DAY - 1 : r.time = <<t, u>>
          /\ r.text \in {"good", "bad"}

(* ConfigNTP has one clock server or more.                                  *)
ASSUME SettingsAssumption ==
    /\ None \notin Asked /\ Factory \in Value
    /\ \A m \in Asked : /\ m.kind \in S!Kind \cup {"restart"}
                        /\ m.value \in Value /\ m.servers \in Nat \ {0}

(* socket_io.c: the tables keep ids as unsigned shorts and gpios as octets,  *)
(* a Put of one line names one of the eight, and each table has a row.      *)
ASSUME TablesAssumption ==
    /\ Number \in [Name -> T!Word] /\ Own \subseteq Name
    /\ Gpios \subseteq 0 .. 255 /\ Line \subseteq 0 .. 7
    /\ SIODS_MAX \in Nat \ {0}
    /\ None \notin 0 .. 255

range      == <<start, end, stored, rpc, now, given, mixed>>
settings   == <<view, committed, inuse, handling, todo, told, promised, half>>
tables     == <<own, process, GST, IPT, heard, from>>
configvars == <<vars, range, settings, tables>>

Rules1(A)    == A /\ UNCHANGED <<range, settings, tables>>
Range1(A)    == A /\ UNCHANGED <<vars, settings, tables>>
Settings1(A) == A /\ UNCHANGED <<vars, range, tables>>
Tables1(A)   == A /\ UNCHANGED <<vars, range, settings>>

ConfigInit == Init /\ R!Init /\ S!Init /\ T!Init

ConfigNext == Rules1(Next) \/ Range1(R!Next) \/ Settings1(S!Next) \/ Tables1(T!Next)

ConfigSpec == ConfigInit /\ [][ConfigNext]_configvars

-----------------------------------------------------------------------------
(* socket_io.c, CheckTimeRange: the outputs are released at the times that  *)
(* the last range names.                                                    *)
InTimeRange == R!InTimeRange

(* socket_io.c, process_udp and uciset: what is committed, in use or told   *)
(* was given by one message.                                                *)
SettingsWhole == S!SettingsWhole

(* socket_io.c, PLCadd: PLCT never has more than RULES_MAX rules, and the   *)
(* rest of the variables have their types; and GST and IPT, whatever the    *)
(* order they are filled in, say what was heard from every SIOD.            *)
TablesHold == TypeOK /\ R!TypeOK /\ S!TypeOK /\ T!TypeOK /\ T!TablesHold
=============================================================================
