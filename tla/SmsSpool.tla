------------------------------ MODULE SmsSpool ------------------------------
(***************************************************************************)
(* The way of an outgoing message through the SMS server (smstools3, smsd):*)
(* the main process checks the files of the outgoing directory and moves   *)
(* them into a queue; a process per modem takes a file of the queue under  *)
(* a lock file, sends its parts, and moves it to sent or to failed.  The   *)
(* processes share the directories and nothing else.                       *)
(*                                                                         *)
(* The modem and the network are external.  One queue is modelled, file    *)
(* names are used once (what sendsms does), keep_filename is yes and the   *)
(* directories sent and failed are configured, as in smsd.conf; the order  *)
(* of age and priority in which getfile prefers files, voice calls,        *)
(* suspending, the pause of a modem that failed too often, and the limits   *)
(* of messages are left out.                                               *)
(***************************************************************************)
EXTENDS Integers, Sequences

CONSTANTS
    Message,      \* file names
    Modem,        \* the modem processes
    Parts,        \* Message -> number of parts the text is split into
    Rejected,     \* messages the checks of the main process reject
    Unsendable,   \* messages only the checks of the modem process reject
    RETRIES,      \* 2: how often a part is tried again
    Main, None

Directory == {"outgoing", "queue", "sent", "failed"}

VARIABLES
    copy,       \* what a directory has of a message: no, part or full
    lock,       \* the lock file of a message in the queue: its creator
    main,       \* the main process: where it is, the message, a conflict
    modem,      \* the modem processes
    terminate,  \* the variable of each process
    aired,      \* what the network has accepted of a message, in order
    reports,    \* what the event handler was told of a message
    excused,    \* ghost: an answer was lost, or smsd was killed at work
    unguarded   \* ghost: the lock was removed, or the file moved, by
                \* somebody else while a process worked on it
vars == <<copy, lock, main, modem, terminate, aired, reports, excused, unguarded>>

Process == Modem \cup {Main}

ModemPc == {"idle", "found", "exists", "locked", "initialize", "command", "sleep",
            "move", "moving", "moved", "ended"}

TypeOK ==
    /\ copy \in [Message -> [Directory -> {"no", "part", "full"}]]
    /\ lock \in [Message -> Process \cup {None}]
    /\ main \in [pc : {"idle", "check", "queue", "copying", "copied", "reject",
                       "wait", "ended"},
                 m : Message \cup {None}, conflict : BOOLEAN]
    /\ modem \in [Modem -> [pc : ModemPc, m : Message \cup {None}, text : {"no", "part", "full"},
                            part : Nat, retries : 0 .. RETRIES, success : {-2, -1, 0, 1}]]
    /\ terminate \in [Process -> BOOLEAN]
    /\ aired \in [Message -> Seq(Nat \X {"part", "full"})]
    /\ reports \in [Message -> SUBSET {"SENT", "FAILED"}]
    /\ excused \subseteq Message /\ unguarded \subseteq Message

Waiting == [pc |-> "idle", m |-> None, conflict |-> FALSE]
Fresh   == [pc |-> "idle", m |-> None, text |-> "no", part |-> 0, retries |-> 0,
            success |-> 0]

Init ==
    /\ copy = [m \in Message |-> [dir \in Directory |-> "no"]]
    /\ lock = [m \in Message |-> None]
    /\ main = Waiting
    /\ modem = [d \in Modem |-> Fresh]
    /\ terminate = [p \in Process |-> FALSE]
    /\ aired = [m \in Message |-> <<>>]
    /\ reports = [m \in Message |-> {}]
    /\ excused = {} /\ unguarded = {}

Exists(m, dir) == copy[m][dir] # "no"

(* Between its lock and its unlocking a modem process has a message in hand.*)
Holding == {"locked", "initialize", "command", "sleep", "move", "moving", "moved"}

InHand(m) == \E d \in Modem : modem[d].pc \in Holding /\ modem[d].m = m

(* A user writes a message, and moves it into the outgoing directory.      *)
Submit(m) ==
    /\ \A dir \in Directory : ~ Exists(m, dir)
    /\ reports[m] = {}
    /\ copy' = [copy EXCEPT ![m].outgoing = "full"]
    /\ UNCHANGED <<lock, main, modem, terminate, aired, reports, excused, unguarded>>

-----------------------------------------------------------------------------
(* The main process.                                                       *)

(* getfile on the outgoing directory: no lock is taken.                    *)
Pick(m) ==
    /\ main.pc = "idle" /\ ~ terminate[Main]
    /\ Exists(m, "outgoing")
    /\ main' = [main EXCEPT !.pc = "check", !.m = m]
    /\ UNCHANGED <<copy, lock, modem, terminate, aired, reports, excused, unguarded>>

(* The checks of the header and the text.                                  *)
Check ==
    /\ main.pc = "check"
    /\ main' = [main EXCEPT !.pc = IF main.m \in Rejected THEN "reject" ELSE "queue"]
    /\ UNCHANGED <<copy, lock, modem, terminate, aired, reports, excused, unguarded>>

(* A checkhandler, an external program, may move the file itself.          *)
CheckhandlerMoves ==
    /\ main.pc = "check"
    /\ copy' = [copy EXCEPT ![main.m].outgoing = "no", ![main.m].queue = "full"]
    /\ main' = Waiting
    /\ unguarded' = unguarded \cup {m \in {main.m} : InHand(m)}
    /\ UNCHANGED <<lock, modem, terminate, aired, reports, excused>>

(* movefilewithdestlock_new: the lock file of the destination, then the    *)
(* copy.  A conflict is tried once more; a file that is still there stops  *)
(* smsd.                                                                   *)
LockQueue ==
    /\ main.pc = "queue"
    /\ IF lock[main.m] = None
       THEN /\ lock' = [lock EXCEPT ![main.m] = Main]
            /\ copy' = [copy EXCEPT ![main.m].queue = "part"]
            /\ main' = [main EXCEPT !.pc = "copying"]
            /\ UNCHANGED terminate
       ELSE /\ IF main.conflict
               THEN /\ main' = [main EXCEPT !.pc = "ended"]
                    /\ terminate' = [p \in Process |-> TRUE]
               ELSE /\ main' = [main EXCEPT !.conflict = TRUE]
                    /\ UNCHANGED terminate
            /\ UNCHANGED <<lock, copy>>
    /\ UNCHANGED <<modem, aired, reports, excused, unguarded>>

(* Mutant: a copy that could not be written to its end counts as written.  *)
CopyUnchecked ==
    /\ main.pc = "copying"
    /\ main' = [main EXCEPT !.pc = "copied"]
    /\ UNCHANGED <<copy, lock, modem, terminate, aired, reports, excused, unguarded>>

(* movefile has written the copy, then removes the source; the lock goes   *)
(* after it.                                                               *)
Copy ==
    /\ main.pc = "copying"
    /\ copy' = [copy EXCEPT ![main.m].queue = "full"]
    /\ main' = [main EXCEPT !.pc = "copied"]
    /\ UNCHANGED <<lock, modem, terminate, aired, reports, excused, unguarded>>

(* Mutant: the lock stays.                                                 *)
RemoveOriginalLocked ==
    /\ main.pc = "copied"
    /\ copy' = [copy EXCEPT ![main.m].outgoing = "no"]
    /\ main' = Waiting
    /\ UNCHANGED <<lock, modem, terminate, aired, reports, excused, unguarded>>

RemoveOriginal ==
    /\ main.pc = "copied"
    /\ copy' = [copy EXCEPT ![main.m].outgoing = "no"]
    /\ lock' = [lock EXCEPT ![main.m] = None]
    /\ main' = Waiting
    /\ UNCHANGED <<modem, terminate, aired, reports, excused, unguarded>>

(* A rejected message goes to the failed directory.                        *)
Reject ==
    /\ main.pc = "reject"
    /\ copy' = [copy EXCEPT ![main.m].outgoing = "no", ![main.m].failed = "full"]
    /\ reports' = [reports EXCEPT ![main.m] = @ \cup {"FAILED"}]
    /\ main' = Waiting
    /\ UNCHANGED <<lock, modem, terminate, aired, excused, unguarded>>

(* After the spooler the main process waits for the end of one modem       *)
(* process, waitpid(0, 0, 0), and removes its pid file.                    *)
LeaveSpooler ==
    /\ main.pc = "idle" /\ terminate[Main]
    /\ main' = [main EXCEPT !.pc = "wait"]
    /\ UNCHANGED <<copy, lock, modem, terminate, aired, reports, excused, unguarded>>

AwaitTermination ==
    /\ main.pc = "wait"
    /\ \E d \in Modem : modem[d].pc = "ended"
    /\ main' = [main EXCEPT !.pc = "ended"]
    /\ UNCHANGED <<copy, lock, modem, terminate, aired, reports, excused, unguarded>>

-----------------------------------------------------------------------------
(* A modem process.                                                        *)
Step(d, r) == modem' = [modem EXCEPT ![d] = r]

(* getfile on the queue reads the directory, looks again whether its       *)
(* choice exists, and locks it.                                            *)
FindFile(d, m) ==
    /\ modem[d].pc = "idle" /\ ~ terminate[d]
    /\ Exists(m, "queue") /\ lock[m] = None
    /\ Step(d, [modem[d] EXCEPT !.pc = "found", !.m = m])
    /\ UNCHANGED <<copy, lock, main, terminate, aired, reports, excused, unguarded>>

StatFile(d) ==
    /\ modem[d].pc = "found"
    /\ Step(d, IF Exists(modem[d].m, "queue") THEN [modem[d] EXCEPT !.pc = "exists"]
               ELSE [modem[d] EXCEPT !.pc = "idle", !.m = None])
    /\ UNCHANGED <<copy, lock, main, terminate, aired, reports, excused, unguarded>>

(* Mutant: a lock file that is there does not stop the process.            *)
LockFileAnyway(d) ==
    /\ modem[d].pc = "exists"
    /\ lock' = [lock EXCEPT ![modem[d].m] = d]
    /\ Step(d, [modem[d] EXCEPT !.pc = "locked"])
    /\ UNCHANGED <<copy, main, terminate, aired, reports, excused, unguarded>>

LockFile(d) ==
    /\ modem[d].pc = "exists"
    /\ IF lock[modem[d].m] = None
       THEN /\ lock' = [lock EXCEPT ![modem[d].m] = d]
            /\ Step(d, [modem[d] EXCEPT !.pc = "locked"])
       ELSE /\ Step(d, [modem[d] EXCEPT !.pc = "idle", !.m = None])
            /\ UNCHANGED lock
    /\ UNCHANGED <<copy, main, terminate, aired, reports, excused, unguarded>>

(* The checks of send1sms; a file that has gone has no destination.        *)
Failing(r, success) == [r EXCEPT !.pc = "move", !.success = success]

ReadFile(d) ==
    /\ modem[d].pc = "locked"
    /\ LET m == modem[d].m
           r == [modem[d] EXCEPT !.text = copy[m].queue, !.part = 1, !.retries = 0]
       IN  Step(d, IF ~ Exists(m, "queue") \/ m \in Unsendable THEN Failing(r, -2)
                   ELSE [r EXCEPT !.pc = "initialize"])
    /\ UNCHANGED <<copy, lock, main, terminate, aired, reports, excused, unguarded>>

(* Before each part and before each new try: initialize_modem_sending or,  *)
(* when the modem is known to work (quick), the look at the network only.  *)
Initialized(d) ==
    /\ modem[d].pc = "initialize"
    /\ Step(d, [modem[d] EXCEPT !.pc = "command"])
    /\ UNCHANGED <<copy, lock, main, terminate, aired, reports, excused, unguarded>>

Failed(r) == Failing(r, -1)

InitializationFails(d) ==
    /\ modem[d].pc = "initialize"
    /\ Step(d, Failed(modem[d]))
    /\ UNCHANGED <<copy, lock, main, terminate, aired, reports, excused, unguarded>>

(* A modem that wants its PIN, or that the network does not admit, ends    *)
(* its process there and then: abnormal_termination(0).                    *)
AbnormalTermination(d) ==
    /\ modem[d].pc = "initialize"
    /\ Step(d, [modem[d] EXCEPT !.pc = "ended"])
    /\ UNCHANGED <<copy, lock, main, terminate, aired, reports, excused, unguarded>>

(* send_part returned 0: the next part, or the end of the message.         *)
Sent(d) ==
    LET r == [modem[d] EXCEPT !.retries = 0, !.success = 1]
    IN  IF r.part = Parts[r.m] THEN [r EXCEPT !.pc = "move"]
        ELSE [r EXCEPT !.part = @ + 1, !.pc = "initialize"]

(* The modem did not answer OK: a pause and another try, or the end.       *)
NotOK(d) ==
    IF modem[d].retries < RETRIES
    THEN [modem[d] EXCEPT !.retries = @ + 1, !.pc = "sleep"]
    ELSE Failed(modem[d])

Air(d) == aired' = [aired EXCEPT ![modem[d].m] = Append(@, <<modem[d].part, modem[d].text>>)]

(* AT+CMGS and the PDU: the network takes the part and the modem answers;  *)
(* the modem answers ERROR; or the answer comes too late.                  *)
PartSent(d) ==
    /\ modem[d].pc = "command"
    /\ Air(d)
    /\ Step(d, Sent(d))
    /\ UNCHANGED <<copy, lock, main, terminate, reports, excused, unguarded>>

PartRefused(d) ==
    /\ modem[d].pc = "command"
    /\ Step(d, NotOK(d))
    /\ UNCHANGED <<copy, lock, main, terminate, aired, reports, excused, unguarded>>

AnswerLost(d) ==
    /\ modem[d].pc = "command"
    /\ Air(d)
    /\ Step(d, NotOK(d))
    /\ excused' = excused \cup {modem[d].m}
    /\ UNCHANGED <<copy, lock, main, terminate, reports, unguarded>>

(* The pause before another try; a request to terminate ends it.           *)
Retry(d) ==
    /\ modem[d].pc = "sleep"
    /\ Step(d, IF terminate[d] THEN Failed(modem[d])
               ELSE [modem[d] EXCEPT !.pc = "initialize"])
    /\ UNCHANGED <<copy, lock, main, terminate, aired, reports, excused, unguarded>>

(* The file is copied to sent or to failed, the original is removed, the   *)
(* event handler runs, and the lock file is removed, whoever made it.      *)
Outcome(d) == IF modem[d].success = 1 THEN "sent" ELSE "failed"

MoveFile(d) ==
    /\ modem[d].pc = "move"
    /\ LET m == modem[d].m
       IN  IF Exists(m, "queue")
           THEN /\ copy' = [copy EXCEPT ![m][Outcome(d)] = copy[m].queue]
                /\ Step(d, [modem[d] EXCEPT !.pc = "moving"])
           ELSE /\ Step(d, [modem[d] EXCEPT !.pc = "moved"])
                /\ UNCHANGED copy
    /\ UNCHANGED <<lock, main, terminate, aired, reports, excused, unguarded>>

(* Mutant: the original stays in the queue.                                *)
RemoveFileKeeps(d) ==
    /\ modem[d].pc = "moving"
    /\ Step(d, [modem[d] EXCEPT !.pc = "moved"])
    /\ UNCHANGED <<copy, lock, main, terminate, aired, reports, excused, unguarded>>

RemoveFile(d) ==
    /\ modem[d].pc = "moving"
    /\ copy' = [copy EXCEPT ![modem[d].m].queue = "no"]
    /\ Step(d, [modem[d] EXCEPT !.pc = "moved"])
    /\ UNCHANGED <<lock, main, terminate, aired, reports, excused, unguarded>>

UnlockFile(d) ==
    /\ modem[d].pc = "moved"
    /\ LET m == modem[d].m
       IN  /\ reports' = [reports EXCEPT ![m] = @ \cup {IF modem[d].success = 1 THEN "SENT"
                                                        ELSE "FAILED"}]
           /\ lock' = [lock EXCEPT ![m] = None]
    /\ Step(d, Fresh)
    /\ UNCHANGED <<copy, main, terminate, aired, excused, unguarded>>

(* A serial port that cannot be opened ends the process before it has a    *)
(* file.                                                                   *)
OpenFails(d) ==
    /\ modem[d].pc = "idle"
    /\ Step(d, [modem[d] EXCEPT !.pc = "ended"])
    /\ UNCHANGED <<copy, lock, main, terminate, aired, reports, excused, unguarded>>

LeaveDevicespooler(d) ==
    /\ modem[d].pc = "idle" /\ terminate[d]
    /\ Step(d, [modem[d] EXCEPT !.pc = "ended"])
    /\ UNCHANGED <<copy, lock, main, terminate, aired, reports, excused, unguarded>>

-----------------------------------------------------------------------------
(* SIGTERM to the main process, which passes it on.                        *)
SignalTerm ==
    /\ main.pc # "ended" /\ ~ terminate[Main]
    /\ terminate' = [p \in Process |-> TRUE]
    /\ UNCHANGED <<copy, lock, main, modem, aired, reports, excused, unguarded>>

(* The power goes, or kill -9 takes every process.                         *)
Kill ==
    /\ main.pc # "ended" \/ \E d \in Modem : modem[d].pc # "ended"
    /\ main' = [Waiting EXCEPT !.pc = "ended"]
    /\ modem' = [d \in Modem |-> [Fresh EXCEPT !.pc = "ended"]]
    /\ excused' = excused \cup {m \in Message : lock[m] # None}
    /\ UNCHANGED <<copy, lock, terminate, aired, reports, unguarded>>

(* smsd is started when its pid file is gone, whether or not each modem    *)
(* process has ended, and removes every lock file.                         *)
Start ==
    /\ main.pc = "ended"
    /\ main' = Waiting
    /\ LET new == {d \in Modem : modem[d].pc = "ended"}
       IN  /\ modem' = [d \in Modem |-> IF d \in new THEN Fresh ELSE modem[d]]
           /\ terminate' = [p \in Process |-> p \notin (new \cup {Main}) /\ terminate[p]]
    /\ lock' = [m \in Message |-> None]
    /\ excused' = excused \cup {m \in Message : lock[m] # None}
    /\ unguarded' = unguarded \cup {m \in Message : InHand(m)}
    /\ UNCHANGED <<copy, aired, reports>>

-----------------------------------------------------------------------------
MainStep ==
    \/ \E m \in Message : Pick(m)
    \/ Check \/ LockQueue \/ Copy \/ RemoveOriginal \/ Reject
    \/ LeaveSpooler \/ AwaitTermination

ModemStep(d) ==
    \/ \E m \in Message : FindFile(d, m)
    \/ StatFile(d) \/ LockFile(d) \/ ReadFile(d) \/ Initialized(d)
    \/ PartSent(d) \/ Retry(d)
    \/ MoveFile(d) \/ RemoveFile(d) \/ UnlockFile(d) \/ LeaveDevicespooler(d)

(* What the modems and the world do.                                       *)
Fault ==
    \/ CheckhandlerMoves \/ SignalTerm \/ Kill \/ Start
    \/ \E d \in Modem : \/ InitializationFails(d) \/ AbnormalTermination(d)
                        \/ PartRefused(d) \/ AnswerLost(d) \/ OpenFails(d)

Next ==
    \/ \E m \in Message : Submit(m)
    \/ MainStep
    \/ \E d \in Modem : ModemStep(d)
    \/ Fault

Spec == Init /\ [][Next]_vars /\ WF_vars(MainStep) /\ \A d \in Modem : WF_vars(ModemStep(d))

-----------------------------------------------------------------------------
(* Two modem processes never work on the same message: the lock file, and  *)
(* not the queue, says whose it is.                                        *)
OneOwner ==
    \A d, e \in Modem :
       (/\ d # e /\ modem[d].pc \in Holding /\ modem[e].pc \in Holding
        /\ modem[d].m = modem[e].m)
       => modem[d].m \in excused

(* The network gets the parts of a message whole, in order, and once, on   *)
(* whichever modems, tries and restarts; only a lost answer or the death   *)
(* of smsd at work makes it send a part again.                             *)
PartsOnce ==
    \A m \in Message \ excused :
       /\ Len(aired[m]) <= Parts[m]
       /\ \A i \in 1 .. Len(aired[m]) : aired[m][i] = <<i, "full">>

(* A file in sent was transmitted to the last part and one in failed was   *)
(* not; no message is in both.                                             *)
OutcomeTrue ==
    \A m \in Message \ excused :
       /\ copy[m].sent # "no" => Len(aired[m]) = Parts[m]
       /\ copy[m].failed # "no" => Len(aired[m]) < Parts[m]

(* smsd.c, send1sms: the network gets no part twice, unless an answer of   *)
(* the modem was lost or smsd was killed; and a message is filed as sent   *)
(* exactly when all its parts were.                                        *)
SentOnce == PartsOnce /\ OutcomeTrue

(* A message does not vanish: at each moment, killed or not, a directory   *)
(* has it whole, unless it was touched while a process had it in hand.     *)
Whole(m) == \E dir \in Directory : copy[m][dir] = "full"
NeverVanishes == [][\A m \in Message \ unguarded : Whole(m) => Whole(m)']_vars

(* A message in the outgoing directory ends in sent or in failed, unless   *)
(* smsd is stopped, no modem is left, or the modem that has locked it died *)
(* of its PIN or the network.                                              *)
Handled ==
    \A m \in Message :
       Exists(m, "outgoing") ~> \/ Exists(m, "sent") \/ Exists(m, "failed")
                                \/ main.pc = "ended"
                                \/ \A d \in Modem : modem[d].pc = "ended"
                                \/ \E d \in Modem : lock[m] = d /\ modem[d].pc = "ended"
=============================================================================
