----------------------------- MODULE MCSIODConfig -----------------------------
(* SIODConfig, bounded: the rules as MCSIODPlc bounds them; the time range  *)
(* is sent at most MaxRanges messages, the settings MaxSettings, the tables *)
(* hear MaxHeard, of which only those of the SIOD a come from more than one *)
(* address, and each part stops at most MaxCrashes times.  The parts        *)
(* share no state, so each behaviour is one of one of them, chosen at the   *)
(* start; the others stay as they began.                                    *)
EXTENDS SIODConfig, MCSIODPlc

CONSTANTS
    LastDay,    \* the days of the clock
    MaxRanges,  \* TimeRange messages
    MaxSettings,\* messages that change the other settings
    MaxHeard    \* messages of other SIODs

VARIABLE part

(* Days of the week at both its ends and in the middle; a day of the month  *)
(* that a day of the week could be taken for.                               *)
WeekDays  == {0, 3, 6}
Dates == {<<"any", 0, 0>>} \cup {<<"week", d, e>> : d, e \in WeekDays}
         \cup {<<"date", 3, 3>>, <<"date", 3, 5>>}
RangesToSet ==
    {[kind |-> d[1], from |-> d[2], to |-> d[3], time |-> t, text |-> x] :
       d \in Dates, t \in {<<>>, <<0, 2>>, <<1, 1>>, <<2, 0>>}, x \in {"good"}}
    \cup {[kind |-> d[1], from |-> d[2], to |-> d[3], time |-> <<1, 1>>, text |-> "bad"] :
            d \in Dates}

ClockOfDays == DAY * 1 .. DAY * LastDay - 1

Settings == [kind : {"batman", "network", "asterisk", "ntp", "outputs", "restart"},
             value : 1 .. MaxSettings, to : {"own", "empty", "other"},
             complete : BOOLEAN, servers : {1, 2}]

(* What the kind does not look at is the same in all its messages.         *)
SettingsAsked ==
    {m \in Settings :
       /\ m.kind \in {"asterisk", "ntp", "outputs"} => m.to = "own"
       /\ m.kind \in {"asterisk", "outputs", "restart"} => m.complete
       /\ m.kind # "ntp" => m.servers = 1}

(* Three SIODs besides the own, two of them more than fit; one more with no *)
(* number and one with the number of another.                               *)
Numbers == [own |-> 1000, a |-> 257, b |-> 1285, c |-> 513, letters |-> 0, twin |-> 513]
Names   == DOMAIN Numbers

mcconfigvars == <<mcvars, part, range, settings, tables>>

MCConfigInit ==
    /\ part \in {"rules", "range", "settings", "tables"}
    /\ MCInit /\ R!Init /\ S!Init /\ T!Init
    /\ part # "range" => now = DAY

Part(p) == part = p /\ UNCHANGED part

Ask == messages < MaxRanges /\ messages' = messages + 1 /\ UNCHANGED crashes

MCConfigNext ==
    \/ Part("rules") /\ Rules1(MCNext)
    \/ Part("range") /\ Range1((R!Start \/ R!ucicommit \/ R!Pass) /\ Free)
    \/ \E r \in Ranges : Part("range") /\ Range1(Ask /\ R!TimeRange(r))
    \/ Part("range") /\ Range1(Power /\ R!Crash)
    \/ /\ Part("settings")
       /\ Settings1((S!Step \/ S!OtherCommit \/ S!Request("batman", S!ConfigBatmanReq)
                     \/ S!Request("network", S!ConfigReq)
                     \/ S!Request("asterisk", S!AsteriskStatReq)) /\ Free)
    \/ \E m \in Asked :
          /\ Part("settings")
          /\ Settings1(/\ m.value = messages + 1 /\ m.value <= MaxSettings
                       /\ S!process_udp(m) /\ messages' = messages + 1 /\ UNCHANGED crashes)
    \/ Part("settings") /\ Settings1(Power /\ (S!Kill \/ S!PowerLoss))
    \/ \E g \in Gpios : Part("tables") /\ Tables1((T!Start(g) \/ T!SetOwn(g)) /\ Free)
    \/ /\ Part("tables")
       /\ Tables1(/\ messages < MaxHeard /\ messages' = messages + 1 /\ UNCHANGED crashes
                  /\ T!Message
                  /\ \A n \in Name \ {"a"} : from'[n] \in {None, 1})
    \/ Part("tables") /\ Tables1(Power /\ T!Crash)

MCConfigSpec == MCConfigInit /\ [][MCConfigNext]_mcconfigvars
=============================================================================
