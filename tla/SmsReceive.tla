----------------------------- MODULE SmsReceive -----------------------------
(***************************************************************************)
(* How a modem process of the SMS server (smstools3, smsd) receives: it    *)
(* reads the memory of the modem place by place, writes a message of one   *)
(* part into a file, keeps the parts of a longer one in its concatenation  *)
(* store until they are all there, and deletes in the modem what it has    *)
(* taken.                                                                  *)
(*                                                                         *)
(* Modem and network are external.  check_memory_method is CM_CPMS, the    *)
(* default, with one memory; internal_combine and ic_purge_read are yes.   *)
(* The parts here have one sender; a part names its message, which the     *)
(* process cannot see: it goes by the reference number.                    *)
(***************************************************************************)
EXTENDS Integers, Sequences, FiniteSets, Sublist

CONSTANTS
    Message,    \* messages sent to this modem
    Parts,      \* Message -> number of parts
    Reference,  \* Message -> the reference of the concatenation, 8 bits
    Earlier,    \* Message -> messages that are over before it is sent
    MEMORY,     \* places for messages in the modem
    Empty

Place == 1 .. MEMORY
Part  == UNION {{<<m, i>> : i \in 1 .. Parts[m]} : m \in Message}

VARIABLES
    pending,    \* parts the network has not delivered
    sim,        \* the memory of the modem
    store,      \* the concatenation store, a file of one line per part
    saved,      \* the files in incoming: the parts of each, in order
    dev,        \* the process: where it is, the place, used_memory, the
                \* part in hand, the parts combined, the rest of the store
    excused     \* ghost: messages something went wrong with, see below
vars == <<pending, sim, store, saved, dev, excused>>

Idle == [pc |-> "idle", place |-> 0, used |-> 0, part |-> Empty,
         combined |-> <<>>, rest |-> <<>>]

TypeOK ==
    /\ pending \subseteq Part
    /\ sim \in [Place -> Part \cup {Empty}]
    /\ store \in Seq(Part) /\ saved \in Seq(Seq(Part))
    /\ dev \in [pc : {"idle", "read", "receive", "combine", "unlinked", "save", "delete"},
                place : 0 .. MEMORY + 1, used : 0 .. MEMORY, part : Part \cup {Empty},
                combined : Seq(Part), rest : Seq(Part)]
    /\ excused \subseteq Message

Init ==
    /\ pending = Part
    /\ sim = [s \in Place |-> Empty]
    /\ store = <<>> /\ saved = <<>> /\ dev = Idle /\ excused = {}

Elements(s) == {s[i] : i \in DOMAIN s}
Msg(p)      == p[1]
SameRef(p, q) == Reference[Msg(p)] = Reference[Msg(q)]
Touched(S)  == {m \in Message : \E p \in S : Reference[m] = Reference[Msg(p)]}
Whole(m)    == [i \in 1 .. Parts[m] |-> <<m, i>>]
Over(m)     == Whole(m) \in Elements(saved) \/ m \in excused

-----------------------------------------------------------------------------
(* The network delivers in any order, into the first free place.  A sender *)
(* has 256 references, and uses one again only when the message that had   *)
(* it is over.                                                             *)
Arrive(p) ==
    \E s \in Place :
       /\ sim[s] = Empty /\ \A t \in 1 .. s - 1 : sim[t] # Empty
       /\ \A m \in Earlier[Msg(p)] : Over(m)
       /\ sim' = [sim EXCEPT ![s] = p]
       /\ UNCHANGED <<store, saved, dev>>

Deliver(p) ==
    /\ p \in pending /\ Arrive(p)
    /\ pending' = pending \ {p}
    /\ UNCHANGED excused

(* It did not see the acknowledgement, and will deliver the part again.    *)
DeliverTwice(p) ==
    /\ p \in pending /\ Arrive(p)
    /\ excused' = excused \cup Touched({p})
    /\ UNCHANGED pending

-----------------------------------------------------------------------------
(* receivesms with check_memory: AT+CPMS? tells how many places are used.  *)
CheckMemory ==
    /\ dev.pc = "idle"
    /\ LET used == Cardinality({s \in Place : sim[s] # Empty})
       IN  used > 0 /\ dev' = [dev EXCEPT !.pc = "read", !.place = 1, !.used = used]
    /\ UNCHANGED <<pending, sim, store, saved, excused>>

NextPlace(r) == IF r.used < 1 \/ r.place = MEMORY THEN Idle
                ELSE [r EXCEPT !.pc = "read", !.place = @ + 1, !.part = Empty,
                               !.combined = <<>>, !.rest = <<>>]

(* readsim: AT+CMGR.                                                       *)
ReadSim ==
    /\ dev.pc = "read"
    /\ dev' = IF sim[dev.place] = Empty THEN NextPlace(dev)
              ELSE [dev EXCEPT !.pc = "receive", !.part = sim[dev.place]]
    /\ UNCHANGED <<pending, sim, store, saved, excused>>

(* The modem does not answer: the loop ends, until the next round.         *)
ReadTimeout ==
    /\ dev.pc = "read"
    /\ dev' = Idle
    /\ UNCHANGED <<pending, sim, store, saved, excused>>

(* received2file.  The parts of a message are the first lines of the store *)
(* with its reference and their numbers; as many as the part says that     *)
(* has come in.                                                            *)
Lines(s, p, i) == {k \in DOMAIN s : SameRef(s[k], p) /\ s[k][2] = i}
FirstLine(s, p, i) ==
    LET K == Lines(s, p, i) IN s[CHOOSE k \in K : \A l \in K : k <= l]

(* Mutant: the parts are looked for when the last one comes.               *)
CompleteAtLast(s, p) == p[2] = Parts[Msg(p)] /\ \A i \in 1 .. Parts[Msg(p)] : Lines(s, p, i) # {}

Complete(s, p) == \A i \in 1 .. Parts[Msg(p)] : Lines(s, p, i) # {}

(* Mutant: the store is emptied.                                           *)
RemainsNone(s, p) == <<>>

(* What is left of the store: every line with the reference goes.          *)
Remains(s, p) == Only(s, {q \in Part : ~ SameRef(q, p)})

ReceiveSingle ==
    /\ dev.pc = "receive" /\ Parts[Msg(dev.part)] = 1
    /\ saved' = Append(saved, <<dev.part>>)
    /\ dev' = [dev EXCEPT !.pc = "delete"]
    /\ UNCHANGED <<pending, sim, store, excused>>

ReceivePart ==
    /\ dev.pc = "receive" /\ Parts[Msg(dev.part)] > 1
    /\ store' = Append(store, dev.part)
    /\ dev' = [dev EXCEPT !.pc = IF Complete(store', dev.part) THEN "combine" ELSE "delete"]
    /\ UNCHANGED <<pending, sim, saved, excused>>

(* The file cannot be written.  The caller cannot tell, and deletes.       *)
CannotStore ==
    /\ dev.pc = "receive"
    /\ dev' = [dev EXCEPT !.pc = "delete"]
    /\ excused' = excused \cup Touched({dev.part})
    /\ UNCHANGED <<pending, sim, store, saved>>

(* The parts are put together, the rest of the store is written to a       *)
(* temporary file, the store is removed, the temporary file renamed; only  *)
(* then the message gets its file.                                         *)
Combine ==
    /\ dev.pc = "combine"
    /\ dev' = [dev EXCEPT !.pc = "unlinked",
                          !.combined = [i \in 1 .. Parts[Msg(dev.part)]
                                          |-> FirstLine(store, dev.part, i)],
                          !.rest = Remains(store, dev.part)]
    /\ store' = <<>>
    /\ UNCHANGED <<pending, sim, saved, excused>>

Rename ==
    /\ dev.pc = "unlinked"
    /\ store' = dev.rest
    /\ dev' = [dev EXCEPT !.pc = IF dev.part = Empty THEN "idle" ELSE "save", !.rest = <<>>]
    /\ UNCHANGED <<pending, sim, saved, excused>>

Save ==
    /\ dev.pc = "save"
    /\ saved' = Append(saved, dev.combined)
    /\ dev' = [dev EXCEPT !.pc = "delete", !.combined = <<>>]
    /\ UNCHANGED <<pending, sim, store, excused>>

(* Mutant: the part stays in the modem.                                    *)
DeleteKeeps ==
    /\ dev.pc = "delete"
    /\ dev' = NextPlace([dev EXCEPT !.used = @ - 1])
    /\ UNCHANGED <<pending, sim, store, saved, excused>>

(* deletesms: AT+CMGD; what the modem answers is not looked at.            *)
Delete ==
    /\ dev.pc = "delete"
    /\ sim' = [sim EXCEPT ![dev.place] = Empty]
    /\ dev' = NextPlace([dev EXCEPT !.used = @ - 1])
    /\ UNCHANGED <<pending, store, saved, excused>>

DeleteFails ==
    /\ dev.pc = "delete"
    /\ dev' = NextPlace([dev EXCEPT !.used = @ - 1])
    /\ excused' = excused \cup Touched({dev.part})
    /\ UNCHANGED <<pending, sim, store, saved>>

(* do_ic_purge: each part of the store that is too old, by the time the    *)
(* network gave it, becomes an incomplete message; the store is rewritten  *)
(* without it.                                                             *)
Purge(old) ==
    /\ dev.pc = "idle"
    /\ old # {} /\ old \subseteq Elements(store)
    /\ LET lines == Only(store, old)
       IN  /\ saved' = saved \o [k \in DOMAIN lines |-> <<lines[k]>>]
           /\ dev' = [Idle EXCEPT !.pc = "unlinked", !.rest = Only(store, Part \ old)]
    /\ store' = <<>>
    /\ excused' = excused \cup Touched(old)
    /\ UNCHANGED <<pending, sim>>

(* The process is killed, and started again; the files stay as they are.   *)
Kill ==
    /\ dev.pc # "idle"
    /\ excused' = excused \cup
          Touched(CASE dev.pc \in {"combine", "save", "delete"} -> {dev.part}
                    [] dev.pc = "unlinked" -> (Elements(dev.rest) \cup {dev.part}) \ {Empty}
                    [] OTHER -> {})
    /\ dev' = Idle
    /\ UNCHANGED <<pending, sim, store, saved>>

-----------------------------------------------------------------------------
Receive ==
    \/ CheckMemory \/ ReadSim \/ ReceiveSingle \/ ReceivePart \/ Combine
    \/ Rename \/ Save \/ Delete

Network == \E p \in Part : Deliver(p)

Fault ==
    \/ \E p \in Part : DeliverTwice(p)
    \/ ReadTimeout \/ CannotStore \/ DeleteFails \/ Kill
    \/ \E old \in SUBSET Elements(store) : Purge(old)

Next == Receive \/ Network \/ Fault

Spec == Init /\ [][Next]_vars /\ WF_vars(Receive)

-----------------------------------------------------------------------------
(* A message is excused from what follows when the network delivered a     *)
(* part of it, or of one with its reference, twice; when the store could   *)
(* not be written, the modem did not delete, the store was purged, or the  *)
(* process was killed between taking the part and deleting it.             *)

(* A part the modem has taken from the network is in its memory, in the    *)
(* store or in a file, at each step of the rewriting of the store.         *)
NothingLost ==
    \A p \in Part \ pending :
       \/ Msg(p) \in excused
       \/ p \in Elements(store) \cup Elements(dev.rest) \cup Elements(dev.combined)
       \/ \E s \in Place : sim[s] = p
       \/ \E k \in DOMAIN saved : p \in Elements(saved[k])

(* A file has the parts of one message, in order and all of them, though   *)
(* two messages may have the same reference; and each message has one file.*)
OneMessage ==
    \A k \in DOMAIN saved :
       LET m == Msg(saved[k][1])
       IN  m \notin excused =>
              /\ saved[k] = Whole(m)
              /\ \A l \in DOMAIN saved : saved[l] = saved[k] => l = k

(* When the network has delivered every part of a message, it comes to its *)
(* file.                                                                   *)
Combined ==
    \A m \in Message :
       (\A i \in 1 .. Parts[m] : <<m, i>> \notin pending)
          ~> (m \in excused \/ Whole(m) \in Elements(saved))
=============================================================================
