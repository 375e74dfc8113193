----------------------------- MODULE SIODSettings -----------------------------
(***************************************************************************)
(* The configuration of a SIOD: the messages that change the wireless mesh,*)
(* the network, the registrars of Asterisk and the clock servers, and the  *)
(* ones that ask for them.  A handler runs one uci command after the other.*)
(* Uci keeps what is not committed in memory, where uci get sees it too,   *)
(* and a commit writes all of it, whoever changed it.                      *)
(*                                                                         *)
(* An option is a list of values, and a value is the message it came from. *)
(* Uci itself, and the other programs of the box that use it, are external.*)
(***************************************************************************)
EXTENDS Sequences, SequencesExt, FiniteSets

CONSTANTS
    Message,    \* records: kind, value, to, complete, servers
    Value,      \* what an option can hold
    Factory,    \* the value of the options of a new SIOD
    Nobody

VARIABLES
    view,       \* the options as uci get returns them
    committed,  \* the options in flash
    inuse,      \* the options the network services were started with
    handling,   \* the message, or Nobody
    todo,       \* what its handler has still to do
    told,       \* the answer to a request, or Nobody
    promised,   \* ghost: by kind, the message answered with 200
    half        \* ghost: the kinds of which a half is at a place, excused
vars == <<view, committed, inuse, handling, todo, told, promised, half>>

Fields == [batman   |-> <<"bssid", "encryption", "key", "disabled">>,
           network  |-> <<"ipaddr", "netmask", "gateway", "dns", "proto">>,
           asterisk |-> <<"host0", "username0", "password0", "host1", "username1", "password1">>,
           ntp      |-> <<"server", "enable_server">>,
           outputs  |-> <<"value">>]
Kind == DOMAIN Fields

Options(k) == {<<k, f>> : f \in ToSet(Fields[k])}
Option     == UNION {Options(k) : k \in Kind}

Lists == {<<"network", "dns">>, <<"ntp", "server">>}

Times(v, n) == [i \in 1 .. n |-> v]

Place == {"view", "flash", "inuse"}

TypeOK ==
    /\ view \in [Option -> Seq(Value)] /\ committed \in [Option -> Seq(Value)]
    /\ inuse \in [Options("network") -> Seq(Value)]
    /\ handling \in Message \cup {Nobody}
    /\ handling = Nobody <=> todo = <<>>
    /\ promised \in [Kind -> Value \cup {Nobody}]
    /\ half \subseteq Place \X Kind

(* What a list holds at first is up to the image.                          *)
New == [o \in Option |-> IF o \in Lists THEN Times(Factory, 2) ELSE <<Factory>>]

Init ==
    /\ view = New /\ committed = New
    /\ inuse = [o \in Options("network") |-> New[o]]
    /\ handling = Nobody /\ todo = <<>> /\ told = Nobody
    /\ promised = [k \in Kind |-> Nobody]
    /\ half = {}

-----------------------------------------------------------------------------
uciset(k, f, v)      == [do |-> "set", option |-> <<k, f>>, value |-> v]
ucidelete(k, f)      == [do |-> "delete", option |-> <<k, f>>]
uciadd_list(k, f, v) == [do |-> "add", option |-> <<k, f>>, value |-> v]
Commit               == [do |-> "commit"]
Answer               == [do |-> "200"]
Restart              == [do |-> "restart"]

Sets(k, fields, v) == [i \in 1 .. Len(fields) |-> uciset(k, fields[i], v)]

ConfigBatman(v) == Sets("batman", Fields.batman, v) \o <<Commit, Answer>>

(* Mutant: the commit comes before the way the address is obtained.        *)
ConfigCommitsEarly(v) ==
    Sets("network", <<"ipaddr", "netmask", "gateway">>, v)
    \o <<ucidelete("network", "dns"), uciadd_list("network", "dns", v),
         uciadd_list("network", "dns", v), Commit,
         uciset("network", "proto", v), Answer>>

Config(v) ==
    Sets("network", <<"ipaddr", "netmask", "gateway">>, v)
    \o <<ucidelete("network", "dns"), uciadd_list("network", "dns", v),
         uciadd_list("network", "dns", v),
         uciset("network", "proto", v), Commit, Answer>>

(* Nothing commits the registrars but the next message of another kind.    *)
ConfigAsterisk(v) == Sets("asterisk", Fields.asterisk, v)

(* The old servers are removed from flash before the new ones are known.   *)
ConfigNTP(v, servers) ==
    <<ucidelete("ntp", "server"), Commit>>
    \o Times(uciadd_list("ntp", "server", v), servers)
    \o <<uciset("ntp", "enable_server", v), Commit>>

setgpio(v) == Sets("outputs", Fields.outputs, v) \o <<Commit>>

Commands(m) ==
    CASE m.kind = "batman"   -> ConfigBatman(m.value)
      [] m.kind = "network"  -> Config(m.value)
      [] m.kind = "asterisk" -> ConfigAsterisk(m.value)
      [] m.kind = "ntp"      -> ConfigNTP(m.value, m.servers)
      [] m.kind = "outputs"  -> setgpio(m.value)
      [] m.kind = "restart"  -> <<Restart, Answer>>

(* n_args, and the address: an empty one is everybody's, except for Config.*)
Accepts(m) ==
    CASE m.kind = "batman"  -> m.complete /\ m.to \in {"own", "empty"}
      [] m.kind = "network" -> m.complete /\ m.to = "own"
      [] m.kind = "restart" -> m.to \in {"own", "empty"}
      [] m.kind = "ntp"     -> m.complete
      [] OTHER              -> TRUE

-----------------------------------------------------------------------------
process_udp(m) ==
    /\ handling = Nobody
    /\ Accepts(m)
    /\ handling' = m
    /\ todo' = Commands(m)
    /\ told' = Nobody
    /\ promised' = IF m.kind \in Kind THEN [promised EXCEPT ![m.kind] = Nobody] ELSE promised
    /\ UNCHANGED <<view, committed, inuse, half>>

(* The requests, between two messages: the answer has what uci get returns,*)
(* and the address and mask of the interface.                              *)
ConfigBatmanReq == [o \in Options("batman") |-> view[o]]

ConfigReq == [o \in Options("network") |->
                IF o[2] \in {"ipaddr", "netmask"} THEN inuse[o] ELSE view[o]]

AsteriskStatReq == [o \in Options("asterisk") |-> view[o]]

Request(k, answer) ==
    /\ handling = Nobody
    /\ told' = [kind |-> k, options |-> answer]
    /\ UNCHANGED <<view, committed, inuse, handling, todo, promised, half>>

(* One command.  uci delete takes all of a list away.                      *)
Stage(c) ==
    view' = CASE c.do = "set"    -> [view EXCEPT ![c.option] = <<c.value>>]
              [] c.do = "delete" -> [view EXCEPT ![c.option] = <<>>]
              [] c.do = "add"    -> [view EXCEPT ![c.option] = Append(@, c.value)]
              [] OTHER           -> view

(* The kind that is being changed: some of it is staged, some of it is not.*)
Changing ==
    IF handling # Nobody /\ handling.kind \in Kind /\ todo # Commands(handling)
       /\ \E i \in DOMAIN todo : todo[i].do \in {"set", "delete", "add"}
    THEN {handling.kind} ELSE {}

At(place) == {k \in Kind : <<place, k>> \in half}
Put(place, kinds) == {h \in half : h[1] # place} \cup {<<place, k>> : k \in kinds}

(* The last change of a kind makes it whole again.                         *)
ucicommit(excused) ==
    /\ committed' = view
    /\ half' = Put("flash", At("view") \cup excused)
    /\ UNCHANGED <<inuse, promised>>

Run(c) ==
    /\ Stage(c)
    /\ CASE c = Commit  -> ucicommit(Changing \cap {"ntp"})
         [] c = Answer  -> /\ promised' = IF handling.kind \in Kind
                                          THEN [promised EXCEPT ![handling.kind] = handling.value]
                                          ELSE promised
                           /\ UNCHANGED <<committed, inuse, half>>
         [] c = Restart -> /\ inuse' = [o \in Options("network") |-> view[o]]
                           /\ half' = Put("inuse", At("view"))
                           /\ UNCHANGED <<committed, promised>>
         [] OTHER       -> /\ half' = Put("view", At("view") \ {handling.kind})
                           /\ UNCHANGED <<committed, inuse, promised>>

Step ==
    /\ handling # Nobody
    /\ Run(Head(todo))
    /\ todo' = Tail(todo)
    /\ handling' = IF Len(todo) = 1 THEN Nobody ELSE handling
    /\ told' = Nobody

-----------------------------------------------------------------------------
(* The process is killed: what it staged stays, for anybody to commit.     *)
Kill ==
    /\ handling # Nobody
    /\ half' = Put("view", At("view") \cup Changing)
    /\ handling' = Nobody /\ todo' = <<>> /\ told' = Nobody
    /\ UNCHANGED <<view, committed, inuse, promised>>

(* A script or a page of the box commits its own change, and all others.   *)
OtherCommit ==
    /\ committed # view
    /\ ucicommit(Changing)
    /\ told' = Nobody
    /\ UNCHANGED <<view, handling, todo>>

(* The power fails: what is not committed is lost.                         *)
PowerLoss ==
    /\ view' = committed
    /\ inuse' = [o \in Options("network") |-> committed[o]]
    /\ half' = {<<p, k>> : p \in Place, k \in At("flash")}
    /\ handling' = Nobody /\ todo' = <<>> /\ told' = Nobody
    /\ UNCHANGED <<committed, promised>>

Next ==
    \/ \E m \in Message : process_udp(m)
    \/ Request("batman", ConfigBatmanReq)
    \/ Request("network", ConfigReq)
    \/ Request("asterisk", AsteriskStatReq)
    \/ Step \/ Kill \/ OtherCommit \/ PowerLoss

Spec == Init /\ [][Next]_vars

-----------------------------------------------------------------------------
(* Options of a kind that come from one message.                           *)
From(v, conf, options) ==
    \A o \in options : /\ ToSet(conf[o]) = {v}
                       /\ (o = <<"network", "dns">> => Len(conf[o]) = 2)
                       /\ (o \notin Lists => Len(conf[o]) = 1)

Whole(conf, options) == \E v \in Value : From(v, conf, options)

Address == {<<"network", "ipaddr">>, <<"network", "netmask">>}

(* Whatever was staged, lost with the power or committed by a message of   *)
(* another kind: the options of a kind that are in flash, in use or told to*)
(* who asks were given by one message, and after 200 those in flash are the*)
(* ones of that message.  Excepted is what is left, until the kind is set  *)
(* again, of a handler that was killed or overtaken by the commit of       *)
(* another program, and the servers that ConfigNTP removes from flash.     *)
SettingsWhole ==
    /\ \A k \in Kind : \/ <<"flash", k>> \in half
                       \/ /\ Whole(committed, Options(k))
                          /\ promised[k] # Nobody => From(promised[k], committed, Options(k))
    /\ <<"inuse", "network">> \in half \/ Whole(inuse, Options("network"))
    /\ told # Nobody =>
          IF told.kind = "network"
          THEN /\ <<"inuse", "network">> \in half \/ Whole(told.options, Address)
               /\ <<"view", "network">> \in half
                  \/ Whole(told.options, Options("network") \ Address)
          ELSE <<"view", told.kind>> \in half \/ Whole(told.options, Options(told.kind))
=============================================================================
