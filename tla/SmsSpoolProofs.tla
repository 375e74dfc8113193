---------------------------- MODULE SmsSpoolProofs ----------------------------
(* Theorems about SmsSpool, for every set of messages and of modems.  The  *)
(* lock file of a message names who made it; that this is who works on the *)
(* message holds as long as nobody removes the lock files of the living.   *)
EXTENDS SmsSpool, SequenceTheorems, TLAPS

(* The names of the processes differ, and none is the name of nobody.      *)
Distinct == Main \notin Modem /\ None \notin Process

Content == {"no", "part", "full"}

Slot == [pc : ModemPc, m : Message \cup {None}, text : Content, part : Nat,
         retries : 0 .. RETRIES, success : {-2, -1, 0, 1}]

MainSlot == [pc : {"idle", "check", "queue", "copying", "copied", "reject", "wait", "ended"},
             m : Message \cup {None}, conflict : BOOLEAN]

-----------------------------------------------------------------------------
(* The inductive invariant.  A process that works has a message, and the   *)
(* parts it sends are of a file that was there.                            *)
ModemWorks ==
    \A d \in Modem :
       /\ modem[d].pc \notin {"idle", "ended"} => modem[d].m \in Message
       /\ modem[d].pc \in {"initialize", "command", "sleep"} => modem[d].text # "no"

MainWorks == main.pc \notin {"idle", "wait", "ended"} => main.m \in Message

(* Who works on a message, or copies it into the queue, has made its lock. *)
ModemLock ==
    \A d \in Modem :
       modem[d].pc \in Holding /\ modem[d].m \notin excused => lock[modem[d].m] = d

MainLock == main.pc \in {"copying", "copied"} /\ main.m \notin excused => lock[main.m] = Main

IInv == TypeOK /\ ModemWorks /\ MainWorks /\ ModemLock /\ MainLock

-----------------------------------------------------------------------------
(* A step of one modem process: it keeps the others as they are.           *)
LEMMA StepOfOne ==
  ASSUME modem \in [Modem -> Slot], NEW d \in Modem, NEW r \in Slot, Step(d, r)
  PROVE  /\ modem' \in [Modem -> Slot]
         /\ modem'[d] = r
         /\ \A e \in Modem \ {d} : modem'[e] = modem[e]
  BY DEF Step

(* Who neither takes a lock nor removes one, and works on what it already  *)
(* held or on nothing that it must hold, keeps the invariant of the locks. *)
LEMMA LocksKept ==
  ASSUME IInv, NEW d \in Modem, NEW r \in Slot, Step(d, r),
         lock' = lock, main' = main, excused \subseteq excused',
         r.pc \in Holding => modem[d].pc \in Holding /\ r.m = modem[d].m,
         r.pc \notin {"idle", "ended"} => r.m \in Message,
         r.pc \in {"initialize", "command", "sleep"} => r.text # "no"
  PROVE  ModemWorks' /\ MainWorks' /\ ModemLock' /\ MainLock'
  <1>1. /\ modem' \in [Modem -> Slot]
        /\ modem'[d] = r
        /\ \A e \in Modem \ {d} : modem'[e] = modem[e]
    BY StepOfOne DEF IInv, TypeOK, Slot, Content
  <1>2. ModemWorks'
    BY <1>1 DEF IInv, ModemWorks
  <1>3. MainWorks' /\ MainLock'
    BY DEF IInv, MainWorks, MainLock
  <1>4. ModemLock'
    <2> SUFFICES ASSUME NEW e \in Modem, modem'[e].pc \in Holding, modem'[e].m \notin excused'
                 PROVE  lock'[modem'[e].m] = e
      BY DEF ModemLock
    <2>1. modem[e].pc \in Holding /\ modem'[e].m = modem[e].m
      BY <1>1
    <2> QED
      BY <2>1 DEF IInv, ModemLock
  <1> QED
    BY <1>2, <1>3, <1>4

(* When no modem process moves and the main process keeps its lock.        *)
LEMMA ModemsStill ==
  ASSUME IInv, modem' = modem, lock' = lock, excused' = excused,
         main'.pc \notin {"idle", "wait", "ended"} => main'.m \in Message,
         main'.pc \in {"copying", "copied"} =>
            main.pc \in {"copying", "copied"} /\ main'.m = main.m
  PROVE  ModemWorks' /\ MainWorks' /\ ModemLock' /\ MainLock'
  BY DEF IInv, ModemWorks, MainWorks, ModemLock, MainLock

-----------------------------------------------------------------------------
LEMMA InitIInv ==
  ASSUME RETRIES \in Nat
  PROVE  Init => IInv
  <1> SUFFICES ASSUME Init
               PROVE  IInv
    OBVIOUS
  <1> USE DEF Init, Waiting, Fresh
  <1>1. TypeOK
    <2> DEFINE S == Nat \X {"part", "full"}
    <2>1. <<>> \in Seq(S)
      BY EmptySeq
    <2>2. aired \in [Message -> Seq(S)]
      BY <2>1
    <2>3. modem \in [Modem -> Slot]
      BY DEF Slot, ModemPc, Content
    <2> QED
      BY <2>2, <2>3 DEF TypeOK, Directory, Slot, Content, Process
  <1>2. ModemWorks /\ MainWorks /\ ModemLock /\ MainLock
    BY DEF ModemWorks, MainWorks, ModemLock, MainLock, Holding
  <1> QED
    BY <1>1, <1>2 DEF IInv

-----------------------------------------------------------------------------
(* The steps of the main process, and of those who write messages.         *)
LEMMA MainSteps ==
  ASSUME IInv
  PROVE  /\ \A m \in Message : Submit(m) => IInv'
         /\ \A m \in Message : Pick(m) => IInv'
         /\ Check => IInv'
         /\ CheckhandlerMoves => IInv'
         /\ Reject => IInv'
         /\ Copy => IInv'
         /\ LeaveSpooler => IInv'
         /\ AwaitTermination => IInv'
  <1> USE DEF TypeOK, Waiting, Directory
  <1>1. ASSUME NEW m \in Message, Submit(m) PROVE IInv'
    <2>1. TypeOK'
      BY <1>1 DEF IInv, Submit
    <2>2. ModemWorks' /\ MainWorks' /\ ModemLock' /\ MainLock'
      BY <1>1, ModemsStill DEF IInv, Submit, MainWorks
    <2> QED
      BY <2>1, <2>2 DEF IInv
  <1>2. ASSUME NEW m \in Message, Pick(m) PROVE IInv'
    <2>1. TypeOK'
      BY <1>2 DEF IInv, Pick
    <2>2. ModemWorks' /\ MainWorks' /\ ModemLock' /\ MainLock'
      BY <1>2, ModemsStill DEF IInv, Pick
    <2> QED
      BY <2>1, <2>2 DEF IInv
  <1>3. ASSUME Check PROVE IInv'
    <2>1. TypeOK'
      BY <1>3 DEF IInv, Check, MainWorks
    <2>2. ModemWorks' /\ MainWorks' /\ ModemLock' /\ MainLock'
      BY <1>3, ModemsStill DEF IInv, Check, MainWorks
    <2> QED
      BY <2>1, <2>2 DEF IInv
  <1>4. ASSUME CheckhandlerMoves PROVE IInv'
    <2>1. TypeOK'
      BY <1>4 DEF IInv, CheckhandlerMoves, MainWorks
    <2>2. ModemWorks' /\ MainWorks' /\ ModemLock' /\ MainLock'
      BY <1>4, ModemsStill DEF IInv, CheckhandlerMoves, MainWorks
    <2> QED
      BY <2>1, <2>2 DEF IInv
  <1>5. ASSUME Reject PROVE IInv'
    <2>1. TypeOK'
      BY <1>5 DEF IInv, Reject, MainWorks
    <2>2. ModemWorks' /\ MainWorks' /\ ModemLock' /\ MainLock'
      BY <1>5, ModemsStill DEF IInv, Reject, MainWorks
    <2> QED
      BY <2>1, <2>2 DEF IInv
  <1>6. ASSUME Copy PROVE IInv'
    <2>1. TypeOK'
      BY <1>6 DEF IInv, Copy, MainWorks
    <2>2. ModemWorks' /\ MainWorks' /\ ModemLock' /\ MainLock'
      BY <1>6, ModemsStill DEF IInv, Copy, MainWorks
    <2> QED
      BY <2>1, <2>2 DEF IInv
  <1>7. ASSUME LeaveSpooler PROVE IInv'
    <2>1. TypeOK'
      BY <1>7 DEF IInv, LeaveSpooler, MainWorks
    <2>2. ModemWorks' /\ MainWorks' /\ ModemLock' /\ MainLock'
      BY <1>7, ModemsStill DEF IInv, LeaveSpooler, MainWorks
    <2> QED
      BY <2>1, <2>2 DEF IInv
  <1>8. ASSUME AwaitTermination PROVE IInv'
    <2>1. TypeOK'
      BY <1>8 DEF IInv, AwaitTermination, MainWorks
    <2>2. ModemWorks' /\ MainWorks' /\ ModemLock' /\ MainLock'
      BY <1>8, ModemsStill DEF IInv, AwaitTermination, MainWorks
    <2> QED
      BY <2>1, <2>2 DEF IInv
  <1> QED
    BY <1>1, <1>2, <1>3, <1>4, <1>5, <1>6, <1>7, <1>8

(* The main process makes a lock where there is none.                      *)
LEMMA LockQueueStep ==
  ASSUME Distinct, IInv, LockQueue
  PROVE  IInv'
  <1>1. main.m \in Message
    BY DEF IInv, MainWorks, LockQueue
  <1>2. TypeOK'
    <2>1. lock' \in [Message -> Process \cup {None}] /\ terminate' \in [Process -> BOOLEAN]
      BY <1>1 DEF IInv, TypeOK, LockQueue, Process
    <2>2. copy' \in [Message -> [Directory -> {"no", "part", "full"}]]
      <3>1. copy' = copy \/ copy' = [copy EXCEPT ![main.m].queue = "part"]
        BY DEF LockQueue
      <3>2. copy \in [Message -> [Directory -> {"no", "part", "full"}]]
        BY DEF IInv, TypeOK
      <3> QED
        BY <1>1, <3>1, <3>2 DEF Directory
    <2>3. main' \in MainSlot
      BY DEF IInv, TypeOK, LockQueue, MainSlot
    <2> QED
      BY <2>1, <2>2, <2>3 DEF IInv, TypeOK, LockQueue, MainSlot
  <1>3. CASE lock[main.m] = None
    <2>1. \A d \in Modem : modem[d].pc \in Holding /\ modem[d].m \notin excused => modem[d].m # main.m
      BY <1>3 DEF Distinct, Process, IInv, ModemLock
    <2>2. /\ lock' = [lock EXCEPT ![main.m] = Main]
          /\ main' = [main EXCEPT !.pc = "copying"]
          /\ modem' = modem /\ excused' = excused
      BY <1>3 DEF LockQueue
    <2>3. ModemLock'
      <3> SUFFICES ASSUME NEW d \in Modem, modem[d].pc \in Holding, modem[d].m \notin excused
                   PROVE  lock'[modem[d].m] = d
        BY <2>2 DEF ModemLock
      <3>1. modem[d].m # main.m /\ lock[modem[d].m] = d
        BY <2>1 DEF IInv, ModemLock
      <3>2. modem[d].m \in Message
        BY DEF IInv, ModemWorks, Holding
      <3> QED
        BY <2>2, <3>1, <3>2 DEF IInv, TypeOK
    <2>4. ModemWorks'
      BY <2>2 DEF IInv, ModemWorks
    <2>5. MainWorks' /\ MainLock'
      BY <1>1, <2>2 DEF IInv, TypeOK, MainWorks, MainLock
    <2> QED
      BY <1>2, <2>3, <2>4, <2>5 DEF IInv
  <1>4. CASE lock[main.m] # None
    <2>1. main'.pc \in {"queue", "ended"} /\ main'.m = main.m
      BY <1>4 DEF IInv, TypeOK, LockQueue
    <2>2. modem' = modem /\ lock' = lock /\ excused' = excused
      BY <1>4 DEF LockQueue
    <2> QED
      BY <1>1, <1>2, <2>1, <2>2, ModemsStill DEF IInv
  <1> QED
    BY <1>3, <1>4

(* It removes the lock that it made, so it is nobody's who works.          *)
LEMMA RemoveOriginalStep ==
  ASSUME Distinct, IInv, RemoveOriginal
  PROVE  IInv'
  <1>1. main.m \in Message /\ main.pc = "copied"
    BY DEF IInv, MainWorks, RemoveOriginal
  <1>2. TypeOK'
    BY <1>1 DEF IInv, TypeOK, RemoveOriginal, Waiting, Directory, Process
  <1>3. ModemLock'
    <2> SUFFICES ASSUME NEW d \in Modem, modem[d].pc \in Holding, modem[d].m \notin excused
                 PROVE  lock'[modem[d].m] = d
      BY DEF ModemLock, RemoveOriginal
    <2>1. lock[modem[d].m] = d
      BY DEF IInv, ModemLock
    <2>2. modem[d].m # main.m
      BY <1>1, <2>1 DEF Distinct, IInv, MainLock
    <2>3. modem[d].m \in Message
      BY DEF IInv, ModemWorks, Holding
    <2> QED
      BY <2>1, <2>2, <2>3 DEF IInv, TypeOK, RemoveOriginal
  <1>4. ModemWorks'
    BY DEF IInv, ModemWorks, RemoveOriginal
  <1>5. MainWorks' /\ MainLock'
    BY DEF RemoveOriginal, Waiting, MainWorks, MainLock
  <1> QED
    BY <1>2, <1>3, <1>4, <1>5 DEF IInv

-----------------------------------------------------------------------------
(* The steps of a modem process that leave the lock files alone.           *)
LEMMA WorkingStep ==
  ASSUME IInv, NEW d \in Modem, NEW r \in Slot, Step(d, r),
         lock' = lock, main' = main, terminate' = terminate, reports' = reports,
         unguarded' = unguarded,
         copy' \in [Message -> [Directory -> Content]],
         aired' \in [Message -> Seq(Nat \X {"part", "full"})],
         excused \subseteq excused', excused' \subseteq Message,
         r.pc \in Holding => modem[d].pc \in Holding /\ r.m = modem[d].m,
         r.pc \notin {"idle", "ended"} => r.m \in Message,
         r.pc \in {"initialize", "command", "sleep"} => r.text # "no"
  PROVE  IInv'
  <1>1. modem' \in [Modem -> Slot]
    BY StepOfOne DEF IInv, TypeOK, Slot, Content
  <1>2. TypeOK'
    BY <1>1 DEF IInv, TypeOK, Slot, Content
  <1> QED
    BY <1>2, LocksKept DEF IInv

(* A record that another one is made from.                                 *)
LEMMA SlotType ==
  ASSUME IInv, NEW d \in Modem
  PROVE  modem[d] \in Slot
  BY DEF IInv, TypeOK, Slot, Content

(* The fields that count, one after the other.                             *)
LEMMA SlotFields ==
  ASSUME NEW r \in Slot
  PROVE  /\ \A x \in 0 .. RETRIES : [r EXCEPT !.retries = x] \in Slot
         /\ \A x \in Nat : [r EXCEPT !.part = x] \in Slot
         /\ \A x \in {-2, -1, 0, 1} : [r EXCEPT !.success = x] \in Slot
         /\ \A x \in ModemPc : [r EXCEPT !.pc = x] \in Slot
  BY DEF Slot

LEMMA LookingSteps ==
  ASSUME RETRIES \in Nat, IInv, NEW d \in Modem
  PROVE  /\ \A m \in Message : FindFile(d, m) => IInv'
         /\ StatFile(d) => IInv'
         /\ OpenFails(d) => IInv'
         /\ LeaveDevicespooler(d) => IInv'
  <1> DEFINE old == modem[d]
  <1>0. /\ old \in Slot
        /\ old.pc \in {"found"} => old.m \in Message
        /\ copy \in [Message -> [Directory -> Content]]
        /\ aired \in [Message -> Seq(Nat \X {"part", "full"})]
        /\ excused \subseteq Message
    BY SlotType DEF IInv, TypeOK, Content, ModemWorks
  <1>1. ASSUME NEW m \in Message, FindFile(d, m) PROVE IInv'
    <2> DEFINE r == [old EXCEPT !.pc = "found", !.m = m]
    <2>1. r \in Slot /\ r.pc = "found" /\ r.m = m
      BY <1>0 DEF Slot, ModemPc
    <2> HIDE DEF r
    <2>2. Step(d, r) /\ UNCHANGED <<copy, lock, main, terminate, aired, reports, excused, unguarded>>
      BY <1>1 DEF FindFile, r
    <2> QED
      BY <1>0, <2>1, <2>2, WorkingStep DEF Holding
  <1>2. ASSUME StatFile(d) PROVE IInv'
    <2> DEFINE r == IF Exists(old.m, "queue") THEN [old EXCEPT !.pc = "exists"]
                    ELSE [old EXCEPT !.pc = "idle", !.m = None]
    <2>1. r \in Slot /\ r.pc \in {"exists", "idle"} /\ (r.pc = "exists" => r.m \in Message)
      BY <1>0, <1>2 DEF Slot, ModemPc, StatFile
    <2>2. Step(d, r) /\ UNCHANGED <<copy, lock, main, terminate, aired, reports, excused, unguarded>>
      BY <1>2 DEF StatFile
    <2> HIDE DEF r
    <2> QED
      BY <1>0, <2>1, <2>2, WorkingStep DEF Holding
  <1>3. ASSUME OpenFails(d) \/ LeaveDevicespooler(d) PROVE IInv'
    <2> DEFINE r == [old EXCEPT !.pc = "ended"]
    <2>1. r \in Slot /\ r.pc = "ended"
      BY <1>0 DEF Slot, ModemPc
    <2>2. Step(d, r) /\ UNCHANGED <<copy, lock, main, terminate, aired, reports, excused, unguarded>>
      BY <1>3 DEF OpenFails, LeaveDevicespooler
    <2> HIDE DEF r
    <2> QED
      BY <1>0, <2>1, <2>2, WorkingStep DEF Holding
  <1> QED
    BY <1>1, <1>2, <1>3

(* A part is sent, refused or tried again: the message is still its own.   *)
LEMMA SendingSteps ==
  ASSUME RETRIES \in Nat, IInv, NEW d \in Modem
  PROVE  /\ ReadFile(d) => IInv'
         /\ Initialized(d) => IInv'
         /\ InitializationFails(d) => IInv'
         /\ AbnormalTermination(d) => IInv'
         /\ PartSent(d) => IInv'
         /\ PartRefused(d) => IInv'
         /\ AnswerLost(d) => IInv'
         /\ Retry(d) => IInv'
         /\ MoveFile(d) => IInv'
         /\ RemoveFile(d) => IInv'
  <1> DEFINE old == modem[d]
             Kept(r) == /\ r \in Slot /\ r.m = old.m
                        /\ r.pc \in Holding \cup {"ended"}
                        /\ r.pc \in {"initialize", "command", "sleep"} => r.text # "no"
  <1>0. /\ old \in Slot
        /\ old.pc \in Holding => old.m \in Message
        /\ old.pc \in {"initialize", "command", "sleep"} => old.text # "no"
        /\ copy \in [Message -> [Directory -> Content]]
        /\ aired \in [Message -> Seq(Nat \X {"part", "full"})]
        /\ excused \subseteq Message
    BY SlotType DEF IInv, TypeOK, Content, ModemWorks, Holding
  <1>1. ASSUME NEW r, Kept(r), Step(d, r), old.pc \in Holding, UNCHANGED <<lock, main, terminate, reports, unguarded>>,
               copy' \in [Message -> [Directory -> Content]],
               aired' \in [Message -> Seq(Nat \X {"part", "full"})],
               excused \subseteq excused', excused' \subseteq Message
        PROVE  IInv'
    BY <1>0, <1>1, WorkingStep DEF Holding
  <1>2. old.pc \in Holding => Kept(Failed(old)) /\ Kept(Failing(old, -2))
    BY <1>0 DEF Slot, ModemPc, Holding, Failed, Failing
  <1>3. old.pc = "command" => Kept(Sent(d))
    <2> DEFINE r == [old EXCEPT !.retries = 0, !.success = 1]
    <2>1. r \in Slot /\ r.m = old.m /\ r.text = old.text
      <3>1. r = [[old EXCEPT !.retries = 0] EXCEPT !.success = 1]
        OBVIOUS
      <3>2. 0 \in 0 .. RETRIES /\ 1 \in {-2, -1, 0, 1}
        OBVIOUS
      <3>3. [old EXCEPT !.retries = 0] \in Slot
        BY <1>0, <3>2, SlotFields
      <3>4. r \in Slot
        BY <3>1, <3>2, <3>3, SlotFields
      <3> QED
        BY <1>0, <3>4 DEF Slot
    <2>2. Sent(d) = IF r.part = Parts[r.m] THEN [r EXCEPT !.pc = "move"]
                    ELSE [r EXCEPT !.part = r.part + 1, !.pc = "initialize"]
      BY DEF Sent
    <2> HIDE DEF r
    <2>3. [r EXCEPT !.pc = "move"] \in Slot
          /\ [r EXCEPT !.part = r.part + 1, !.pc = "initialize"] \in Slot
      <3>1. r.part + 1 \in Nat /\ "move" \in ModemPc /\ "initialize" \in ModemPc
        BY <2>1 DEF Slot, ModemPc
      <3>2. [r EXCEPT !.part = r.part + 1] \in Slot
        BY <2>1, <3>1, SlotFields
      <3>3. [[r EXCEPT !.part = r.part + 1] EXCEPT !.pc = "initialize"] \in Slot
        BY <3>1, <3>2, SlotFields
      <3>4. [r EXCEPT !.pc = "move"] \in Slot
        BY <2>1, <3>1, SlotFields
      <3> QED
        BY <3>3, <3>4
    <2> QED
      BY <1>0, <2>1, <2>2, <2>3 DEF Slot, Holding
  <1>4. old.pc = "command" => Kept(NotOK(d))
    <2>1. old.pc = "command" /\ old.retries < RETRIES => old.retries + 1 \in 0 .. RETRIES
      BY <1>0 DEF Slot
    <2> QED
      BY <1>0, <1>2, <2>1 DEF Slot, ModemPc, Holding, NotOK
  <1>5. old.pc = "command" /\ Air(d) => aired' \in [Message -> Seq(Nat \X {"part", "full"})]
    <2> SUFFICES ASSUME old.pc = "command", Air(d)
                 PROVE  aired' \in [Message -> Seq(Nat \X {"part", "full"})]
      OBVIOUS
    <2> DEFINE S == Nat \X {"part", "full"}
    <2>1. <<old.part, old.text>> \in S /\ old.m \in Message
      BY <1>0 DEF Slot, Content, Holding
    <2>2. Append(aired[old.m], <<old.part, old.text>>) \in Seq(S)
      BY <1>0, <2>1, AppendProperties
    <2> QED
      BY <1>0, <2>2 DEF Air
  <1> HIDE DEF Kept
  <1>6. ASSUME ReadFile(d) PROVE IInv'
    <2> DEFINE full == [old EXCEPT !.text = copy[old.m].queue, !.part = 1, !.retries = 0]
               r == IF ~ Exists(old.m, "queue") \/ old.m \in Unsendable THEN Failing(full, -2)
                    ELSE [full EXCEPT !.pc = "initialize"]
    <2>0. old.pc = "locked" /\ old.m \in Message
      BY <1>0, <1>6 DEF ReadFile, Holding
    <2>1. copy[old.m].queue \in Content
      BY <1>0, <2>0 DEF Directory
    <2>2. full \in Slot /\ full.m = old.m /\ full.text = copy[old.m].queue
      <3>1. 0 \in 0 .. RETRIES /\ 1 \in Nat
        OBVIOUS
      <3> QED
        BY <1>0, <2>1, <3>1 DEF Slot
    <2>3. CASE ~ Exists(old.m, "queue") \/ old.m \in Unsendable
      <3>1. Kept(Failing(full, -2))
        BY <2>2 DEF Kept, Slot, ModemPc, Holding, Failing
      <3>2. Step(d, Failing(full, -2))
            /\ UNCHANGED <<copy, lock, main, terminate, aired, reports, excused, unguarded>>
        BY <1>6, <2>3 DEF ReadFile
      <3> HIDE DEF full
      <3> QED
        BY <1>0, <1>1, <2>0, <3>1, <3>2 DEF Holding
    <2>4. CASE Exists(old.m, "queue") /\ old.m \notin Unsendable
      <3>1. Kept(r)
        BY <2>2, <2>4 DEF Kept, Slot, ModemPc, Holding, Exists
      <3>2. Step(d, r) /\ UNCHANGED <<copy, lock, main, terminate, aired, reports, excused, unguarded>>
        BY <1>6, <2>4 DEF ReadFile
      <3> HIDE DEF r
      <3> QED
        BY <1>0, <1>1, <2>0, <3>1, <3>2 DEF Holding
    <2> QED
      BY <2>3, <2>4
  <1>7. ASSUME Initialized(d) \/ InitializationFails(d) \/ AbnormalTermination(d) PROVE IInv'
    <2>1. old.pc = "initialize"
          /\ UNCHANGED <<copy, lock, main, terminate, aired, reports, excused, unguarded>>
      BY <1>7 DEF Initialized, InitializationFails, AbnormalTermination
    <2>2. Kept([old EXCEPT !.pc = "command"]) /\ Kept([old EXCEPT !.pc = "ended"])
      BY <1>0, <2>1 DEF Kept, Slot, ModemPc, Holding
    <2>3. \/ Step(d, [old EXCEPT !.pc = "command"])
          \/ Step(d, [old EXCEPT !.pc = "ended"])
          \/ Step(d, Failed(old))
      BY <1>7 DEF Initialized, InitializationFails, AbnormalTermination
    <2> QED
      BY <1>0, <1>1, <1>2, <2>1, <2>2, <2>3 DEF Holding
  <1>8. ASSUME PartSent(d) PROVE IInv'
    <2>1. old.pc = "command" /\ Air(d) /\ Step(d, Sent(d))
          /\ UNCHANGED <<copy, lock, main, terminate, reports, excused, unguarded>>
      BY <1>8 DEF PartSent
    <2> QED
      BY <1>0, <1>1, <1>3, <1>5, <2>1 DEF Holding
  <1>9. ASSUME PartRefused(d) \/ AnswerLost(d) PROVE IInv'
    <2>1. old.pc = "command" /\ Step(d, NotOK(d))
          /\ UNCHANGED <<copy, lock, main, terminate, reports, unguarded>>
      BY <1>9 DEF PartRefused, AnswerLost
    <2>2. aired' = aired \/ Air(d)
      BY <1>9 DEF PartRefused, AnswerLost
    <2>3. excused' = excused \/ excused' = excused \cup {old.m}
      BY <1>9 DEF PartRefused, AnswerLost
    <2> QED
      BY <1>0, <1>1, <1>4, <1>5, <2>1, <2>2, <2>3 DEF Holding
  <1>10. ASSUME Retry(d) PROVE IInv'
    <2>1. old.pc = "sleep"
          /\ UNCHANGED <<copy, lock, main, terminate, aired, reports, excused, unguarded>>
      BY <1>10 DEF Retry
    <2>2. Step(d, Failed(old)) \/ Step(d, [old EXCEPT !.pc = "initialize"])
      BY <1>10 DEF Retry
    <2>3. Kept([old EXCEPT !.pc = "initialize"])
      BY <1>0, <2>1 DEF Kept, Slot, ModemPc, Holding
    <2> QED
      BY <1>0, <1>1, <1>2, <2>1, <2>2, <2>3 DEF Holding
  <1>11. ASSUME MoveFile(d) \/ RemoveFile(d) PROVE IInv'
    <2>1. old.pc \in {"move", "moving"} /\ old.m \in Message
          /\ UNCHANGED <<lock, main, terminate, aired, reports, excused, unguarded>>
      BY <1>0, <1>11 DEF MoveFile, RemoveFile, Holding
    <2>2. \/ copy' = copy
          \/ copy' = [copy EXCEPT ![old.m]["sent"] = copy[old.m].queue]
          \/ copy' = [copy EXCEPT ![old.m]["failed"] = copy[old.m].queue]
          \/ copy' = [copy EXCEPT ![old.m].queue = "no"]
      BY <1>11 DEF MoveFile, RemoveFile, Outcome
    <2>3. copy' \in [Message -> [Directory -> Content]]
      <3>1. copy[old.m].queue \in Content /\ "no" \in Content
        BY <1>0, <2>1 DEF Directory, Content
      <3>2. ASSUME NEW x \in Content, NEW dir \in Directory
            PROVE  [copy EXCEPT ![old.m][dir] = x] \in [Message -> [Directory -> Content]]
        BY <1>0, <2>1
      <3> QED
        BY <1>0, <2>2, <3>1, <3>2 DEF Directory
    <2>4. Step(d, [old EXCEPT !.pc = "moving"]) \/ Step(d, [old EXCEPT !.pc = "moved"])
      BY <1>11 DEF MoveFile, RemoveFile
    <2>5. Kept([old EXCEPT !.pc = "moving"]) /\ Kept([old EXCEPT !.pc = "moved"])
      BY <1>0 DEF Kept, Slot, ModemPc, Holding
    <2> QED
      BY <1>0, <1>1, <2>1, <2>3, <2>4, <2>5 DEF Holding
  <1> QED
    BY <1>6, <1>7, <1>8, <1>9, <1>10, <1>11

(* The lock is made where there is none, so nobody works on the message.   *)
LEMMA LockFileStep ==
  ASSUME Distinct, IInv, NEW d \in Modem, LockFile(d)
  PROVE  IInv'
  <1> DEFINE old == modem[d]
  <1>0. old \in Slot /\ old.pc = "exists" /\ old.m \in Message
    BY SlotType DEF IInv, ModemWorks, LockFile
  <1>1. CASE lock[old.m] = None
    <2> DEFINE r == [old EXCEPT !.pc = "locked"]
    <2>1. r \in Slot /\ r.pc = "locked" /\ r.m = old.m
      BY <1>0 DEF Slot, ModemPc
    <2>2. /\ Step(d, r) /\ lock' = [lock EXCEPT ![old.m] = d]
          /\ UNCHANGED <<copy, main, terminate, aired, reports, excused, unguarded>>
      BY <1>1 DEF LockFile
    <2> HIDE DEF r
    <2>3. /\ modem' \in [Modem -> Slot] /\ modem'[d] = r
          /\ \A e \in Modem \ {d} : modem'[e] = modem[e]
      BY <2>1, <2>2, StepOfOne DEF IInv, TypeOK, Slot, Content
    <2>4. lock \in [Message -> Process \cup {None}] /\ d # None /\ Main # None
      BY DEF IInv, TypeOK, Process, Distinct
    <2>5. TypeOK'
      BY <1>0, <2>2, <2>3, <2>4 DEF IInv, TypeOK, Slot, Content, Process
    <2>6. ModemWorks' /\ MainWorks'
      BY <1>0, <2>1, <2>2, <2>3 DEF IInv, ModemWorks, MainWorks
    <2>7. ModemLock'
      <3> SUFFICES ASSUME NEW e \in Modem, modem'[e].pc \in Holding, modem'[e].m \notin excused
                   PROVE  lock'[modem'[e].m] = e
        BY <2>2 DEF ModemLock
      <3>1. CASE e = d
        BY <1>0, <2>1, <2>2, <2>3, <2>4, <3>1
      <3>2. CASE e # d
        <4>1. modem'[e] = modem[e]
          BY <2>3, <3>2
        <4>2. lock[modem[e].m] = e /\ e # None
          BY <4>1 DEF IInv, ModemLock, Distinct, Process
        <4>3. modem[e].m # old.m
          BY <1>1, <4>2
        <4>4. modem[e].m \in Message
          BY <4>1 DEF IInv, ModemWorks, Holding
        <4> QED
          BY <2>2, <2>4, <4>1, <4>2, <4>3, <4>4
      <3> QED
        BY <3>1, <3>2
    <2>8. MainLock'
      <3> SUFFICES ASSUME main.pc \in {"copying", "copied"}, main.m \notin excused
                   PROVE  lock'[main.m] = Main
        BY <2>2 DEF MainLock
      <3>1. lock[main.m] = Main /\ main.m \in Message
        BY DEF IInv, MainLock, MainWorks
      <3> QED
        BY <1>1, <2>2, <2>4, <3>1
    <2> QED
      BY <2>5, <2>6, <2>7, <2>8 DEF IInv
  <1>2. CASE lock[old.m] # None
    <2> DEFINE r == [old EXCEPT !.pc = "idle", !.m = None]
    <2>1. r \in Slot /\ r.pc = "idle"
      BY <1>0 DEF Slot, ModemPc
    <2>2. Step(d, r) /\ UNCHANGED <<copy, lock, main, terminate, aired, reports, excused, unguarded>>
      BY <1>2 DEF LockFile
    <2>3. /\ copy \in [Message -> [Directory -> Content]]
          /\ aired \in [Message -> Seq(Nat \X {"part", "full"})]
          /\ excused \subseteq Message
      BY DEF IInv, TypeOK, Content
    <2> HIDE DEF r
    <2> QED
      BY <2>1, <2>2, <2>3, WorkingStep DEF Holding
  <1> QED
    BY <1>1, <1>2

(* The lock is removed by who works on the message, and so by who made it, *)
(* unless the message is excused.                                          *)
LEMMA UnlockFileStep ==
  ASSUME RETRIES \in Nat, Distinct, IInv, NEW d \in Modem, UnlockFile(d)
  PROVE  IInv'
  <1> DEFINE m == modem[d].m
  <1>0. modem[d].pc = "moved" /\ m \in Message
    BY DEF IInv, ModemWorks, UnlockFile
  <1>1. Fresh \in Slot /\ Fresh.pc = "idle"
    BY DEF Fresh, Slot, ModemPc, Content
  <1>2. /\ Step(d, Fresh) /\ lock' = [lock EXCEPT ![m] = None]
        /\ reports' = [reports EXCEPT ![m] = @ \cup {IF modem[d].success = 1 THEN "SENT"
                                                     ELSE "FAILED"}]
        /\ UNCHANGED <<copy, main, terminate, aired, excused, unguarded>>
    BY DEF UnlockFile
  <1>3. /\ modem' \in [Modem -> Slot] /\ modem'[d] = Fresh
        /\ \A e \in Modem \ {d} : modem'[e] = modem[e]
    BY <1>1, <1>2, StepOfOne DEF IInv, TypeOK, Slot, Content
  <1>4. lock \in [Message -> Process \cup {None}]
    BY DEF IInv, TypeOK
  <1>5. reports' \in [Message -> SUBSET {"SENT", "FAILED"}]
    BY <1>0, <1>2 DEF IInv, TypeOK
  <1>6. TypeOK'
    BY <1>0, <1>2, <1>3, <1>4, <1>5 DEF IInv, TypeOK, Slot, Content, Process
  <1>7. ModemWorks' /\ MainWorks'
    BY <1>1, <1>2, <1>3 DEF IInv, ModemWorks, MainWorks
  <1>8. ModemLock'
    <2> SUFFICES ASSUME NEW e \in Modem, modem'[e].pc \in Holding, modem'[e].m \notin excused
                 PROVE  lock'[modem'[e].m] = e
      BY <1>2 DEF ModemLock
    <2>1. e # d /\ modem'[e] = modem[e]
      BY <1>1, <1>3 DEF Holding
    <2>2. lock[modem[e].m] = e /\ modem[e].m \in Message
      BY <2>1 DEF IInv, ModemLock, ModemWorks, Holding
    <2>3. modem[e].m # m
      BY <1>0, <2>1, <2>2 DEF IInv, ModemLock, Holding
    <2> QED
      BY <1>2, <1>4, <2>1, <2>2, <2>3
  <1>9. MainLock'
    <2> SUFFICES ASSUME main.pc \in {"copying", "copied"}, main.m \notin excused
                 PROVE  lock'[main.m] = Main
      BY <1>2 DEF MainLock
    <2>1. lock[main.m] = Main /\ main.m \in Message
      BY DEF IInv, MainLock, MainWorks
    <2>2. main.m # m
      BY <1>0, <2>1 DEF IInv, ModemLock, Holding, Distinct
    <2> QED
      BY <1>2, <1>4, <2>1, <2>2
  <1> QED
    BY <1>6, <1>7, <1>8, <1>9 DEF IInv

-----------------------------------------------------------------------------
(* Signals, the power and a new start.                                     *)
LEMMA SignalTermStep ==
  ASSUME IInv, SignalTerm
  PROVE  IInv'
  BY DEF IInv, TypeOK, ModemWorks, MainWorks, ModemLock, MainLock, SignalTerm

(* Nobody works any more.                                                  *)
LEMMA KillModemStep ==
  ASSUME RETRIES \in Nat, IInv, Kill
  PROVE  IInv'
  <1> DEFINE gone == [Fresh EXCEPT !.pc = "ended"]
  <1>1. gone \in Slot /\ gone.pc = "ended"
    BY DEF Fresh, Slot, ModemPc, Content
  <1>2. modem' = [d \in Modem |-> gone] /\ main' = [Waiting EXCEPT !.pc = "ended"]
    BY DEF Kill
  <1> HIDE DEF gone
  <1>3. TypeOK'
    BY <1>1, <1>2 DEF IInv, TypeOK, Kill, Waiting, Slot, Content
  <1>4. ModemWorks' /\ MainWorks' /\ ModemLock' /\ MainLock'
    BY <1>1, <1>2 DEF ModemWorks, MainWorks, ModemLock, MainLock, Waiting, Holding
  <1> QED
    BY <1>3, <1>4 DEF IInv

(* Every lock is removed; who still works from before had made one, and its*)
(* message is excused from now on.                                         *)
LEMMA StartStep ==
  ASSUME RETRIES \in Nat, Distinct, IInv, Start
  PROVE  IInv'
  <1> DEFINE new == {d \in Modem : modem[d].pc = "ended"}
  <1>1. Fresh \in Slot /\ Fresh.pc = "idle"
    BY DEF Fresh, Slot, ModemPc, Content
  <1>2. /\ modem' = [d \in Modem |-> IF d \in new THEN Fresh ELSE modem[d]]
        /\ terminate' = [p \in Process |-> p \notin (new \cup {Main}) /\ terminate[p]]
        /\ main' = Waiting
        /\ lock' = [m \in Message |-> None]
        /\ excused' = excused \cup {m \in Message : lock[m] # None}
        /\ unguarded' = unguarded \cup {m \in Message : InHand(m)}
        /\ UNCHANGED <<copy, aired, reports>>
    BY DEF Start
  <1>3. modem' \in [Modem -> Slot]
    BY <1>1, <1>2, SlotType
  <1>4. terminate' \in [Process -> BOOLEAN]
    BY <1>2 DEF IInv, TypeOK
  <1>5. TypeOK'
    BY <1>2, <1>3, <1>4 DEF IInv, TypeOK, Slot, Content, Waiting
  <1>6. \A d \in Modem : \/ modem'[d].pc = "idle"
                         \/ modem'[d] = modem[d]
    BY <1>1, <1>2
  <1>7. ModemWorks'
    BY <1>6 DEF IInv, ModemWorks
  <1>8. ModemLock'
    <2> SUFFICES ASSUME NEW d \in Modem, modem'[d].pc \in Holding, modem'[d].m \notin excused'
                 PROVE  FALSE
      BY DEF ModemLock
    <2>1. modem'[d] = modem[d] /\ modem[d].m \in Message
      BY <1>6 DEF IInv, ModemWorks, Holding
    <2>2. lock[modem[d].m] = d
      BY <1>2, <2>1 DEF IInv, ModemLock
    <2> QED
      BY <1>2, <2>1, <2>2 DEF Distinct, Process
  <1>9. MainWorks' /\ MainLock'
    BY <1>2 DEF MainWorks, MainLock, Waiting
  <1> QED
    BY <1>5, <1>7, <1>8, <1>9 DEF IInv

-----------------------------------------------------------------------------
LEMMA NextIInv ==
  ASSUME RETRIES \in Nat, Distinct
  PROVE  IInv /\ [Next]_vars => IInv'
  <1> SUFFICES ASSUME IInv, [Next]_vars
               PROVE  IInv'
    OBVIOUS
  <1>1. CASE MainStep
    BY <1>1, MainSteps, LockQueueStep, RemoveOriginalStep DEF MainStep
  <1>2. ASSUME NEW d \in Modem, ModemStep(d) PROVE IInv'
    BY <1>2, LookingSteps, SendingSteps, LockFileStep, UnlockFileStep DEF ModemStep
  <1>3. CASE Fault
    BY <1>3, MainSteps, SignalTermStep, KillModemStep, StartStep, LookingSteps, SendingSteps DEF Fault
  <1>4. CASE \E m \in Message : Submit(m)
    BY <1>4, MainSteps
  <1>5. CASE UNCHANGED vars
    BY <1>5 DEF vars, IInv, TypeOK, ModemWorks, MainWorks, ModemLock, MainLock
  <1> QED
    BY <1>1, <1>2, <1>3, <1>4, <1>5 DEF Next

(* Two that hold the lock of one message are one.                          *)
LEMMA LocksExclude ==
  ASSUME IInv
  PROVE  OneOwner
  BY DEF IInv, ModemLock, OneOwner

(* smsd.c, the types of the state of the spoolers.                         *)
THEOREM Typing ==
  ASSUME RETRIES \in Nat, Distinct
  PROVE  Spec => []TypeOK
  <1>1. Init => IInv
    BY InitIInv
  <1>2. IInv /\ [Next]_vars => IInv'
    BY NextIInv
  <1>3. IInv => TypeOK
    BY DEF IInv
  <1> QED
    BY <1>1, <1>2, <1>3, PTL DEF Spec

(* locking.c, smsd.c: two modem processes never work on the same message,  *)
(* whatever the modems do and whenever smsd is killed and started again,   *)
(* except on one that was under lock at a start or a kill, or an answer    *)
(* for which was lost.                                                     *)
THEOREM MessageHasOneOwner ==
  ASSUME RETRIES \in Nat, Distinct
  PROVE  Spec => []OneOwner
  <1>1. Init => IInv
    BY InitIInv
  <1>2. IInv /\ [Next]_vars => IInv'
    BY NextIInv
  <1>3. IInv => OneOwner
    BY LocksExclude
  <1> QED
    BY <1>1, <1>2, <1>3, PTL DEF Spec

-----------------------------------------------------------------------------
(* SmsSpool moves a message from directory to directory by copying it and  *)
(* removing the original.  That one whole copy is left at every moment,    *)
(* for every set of messages and of modems, needs the locks, and that the  *)
(* original stays while its copy is not whole.                             *)

(* The inductive invariant, about the messages nobody touched while a      *)
(* process had them in hand.  First, the locks: kills do not matter here,  *)
(* since who is killed holds nothing any more.                             *)
ModemGuard ==
    \A d \in Modem :
       modem[d].pc \in Holding /\ modem[d].m \notin unguarded => lock[modem[d].m] = d

MainGuard == main.pc \in {"copying", "copied"} /\ main.m \notin unguarded => lock[main.m] = Main

(* The main process works on an original that is there, and whole.         *)
Original ==
    /\ \A m \in Message : copy[m].outgoing # "part"
    /\ main.pc \in {"check", "queue", "copying", "copied", "reject"}
          => copy[main.m].outgoing = "full"

(* It removes the original of a whole copy only.                           *)
Copied == main.pc = "copied" /\ main.m \notin unguarded => copy[main.m].queue = "full"

(* So does a modem process, whose original may be half a copy itself.      *)
Moving ==
    \A d \in Modem :
       (/\ modem[d].pc = "moving" /\ modem[d].m \notin unguarded
        /\ copy[modem[d].m].queue = "full")
       => copy[modem[d].m][Outcome(d)] = "full"

(* Half a copy in the queue has its original in the outgoing directory;    *)
(* the checks let it pass once, and so they always do.                     *)
Halves ==
    /\ \A m \in Message \ unguarded : copy[m].queue = "part" => copy[m].outgoing = "full"
    /\ \A m \in Message : copy[m].queue = "part" => m \notin Rejected
    /\ main.pc \in {"queue", "copying", "copied"} => main.m \notin Rejected
    /\ main.pc = "reject" => main.m \in Rejected

Moves == IInv /\ ModemGuard /\ MainGuard /\ Original /\ Copied /\ Moving /\ Halves

-----------------------------------------------------------------------------
(* What a modem process does to a message without moving it.               *)
Working(d) ==
    /\ UNCHANGED <<copy, lock, main, unguarded>>
    /\ \A e \in Modem \ {d} : modem'[e] = modem[e]
    /\ modem'[d].pc # "moving"
    /\ modem'[d].pc \in Holding => modem[d].pc \in Holding /\ modem'[d].m = modem[d].m

LEMMA WorkingKeeps ==
  ASSUME Moves, NEW d \in Modem, Working(d)
  PROVE  (ModemGuard /\ MainGuard /\ Original /\ Copied /\ Moving /\ Halves)'
  <1>1. ModemGuard'
    BY DEF Moves, ModemGuard, Working
  <1>2. Moving'
    BY DEF Moves, Moving, Working, Outcome
  <1>3. (MainGuard /\ Original /\ Copied /\ Halves)'
    BY DEF Moves, MainGuard, Original, Copied, Halves, Working
  <1> QED
    BY <1>1, <1>2, <1>3

LEMMA WorkingSteps ==
  ASSUME Moves, NEW d \in Modem,
         \/ \E m \in Message : FindFile(d, m)
         \/ StatFile(d) \/ ReadFile(d) \/ Initialized(d) \/ InitializationFails(d)
         \/ AbnormalTermination(d) \/ PartSent(d) \/ PartRefused(d) \/ AnswerLost(d)
         \/ Retry(d) \/ OpenFails(d) \/ LeaveDevicespooler(d)
  PROVE  Working(d)
  <1>1. modem \in [Modem -> Slot] /\ modem[d] \in Slot
    BY SlotType DEF Moves, IInv, TypeOK, Slot, Content
  <1> USE <1>1 DEF Working, Step, Holding, Slot
  <1>2. ASSUME NEW m \in Message, FindFile(d, m) PROVE Working(d)
    BY <1>2 DEF FindFile
  <1>3. CASE StatFile(d)
    BY <1>3 DEF StatFile
  <1>4. CASE ReadFile(d)
    BY <1>4 DEF ReadFile, Failing
  <1>5. CASE Initialized(d)
    BY <1>5 DEF Initialized
  <1>6. CASE InitializationFails(d)
    BY <1>6 DEF InitializationFails, Failed, Failing
  <1>7. CASE AbnormalTermination(d) \/ OpenFails(d) \/ LeaveDevicespooler(d)
    BY <1>7 DEF AbnormalTermination, OpenFails, LeaveDevicespooler
  <1>8. CASE PartSent(d)
    BY <1>8 DEF PartSent, Sent
  <1>9. CASE PartRefused(d)
    BY <1>9 DEF PartRefused, NotOK, Failed, Failing
  <1>10. CASE AnswerLost(d)
    BY <1>10 DEF AnswerLost, NotOK, Failed, Failing
  <1>11. CASE Retry(d)
    BY <1>11 DEF Retry, Failed, Failing
  <1> QED
    BY <1>2, <1>3, <1>4, <1>5, <1>6, <1>7, <1>8, <1>9, <1>10, <1>11

-----------------------------------------------------------------------------
(* The steps of a modem process that touch locks and directories.          *)
LEMMA LockFileMoves ==
  ASSUME Distinct, Moves, NEW d \in Modem, LockFile(d)
  PROVE  (ModemGuard /\ MainGuard /\ Original /\ Copied /\ Moving /\ Halves)'
  <1> DEFINE m == modem[d].m
  <1>1. modem \in [Modem -> Slot] /\ modem[d] \in Slot /\ m \in Message
    BY SlotType DEF Moves, IInv, TypeOK, Slot, Content, ModemWorks, LockFile
  <1>2. UNCHANGED <<copy, main, unguarded>>
    BY DEF LockFile
  <1>3. /\ \A e \in Modem \ {d} : modem'[e] = modem[e]
        /\ modem'[d].pc \in {"locked", "idle"}
        /\ modem'[d].pc = "locked" => modem'[d].m = m
    BY <1>1 DEF LockFile, Step, Slot
  <1>4. \/ lock[m] = None /\ lock' = [lock EXCEPT ![m] = d]
        \/ lock' = lock /\ modem'[d].pc = "idle"
    BY <1>1 DEF LockFile, Step, Slot
  <1>5. lock \in [Message -> Process \cup {None}] /\ d # Main /\ None \notin Process
    BY DEF Moves, IInv, TypeOK, Distinct
  <1>6. ModemGuard'
    <2> SUFFICES ASSUME NEW e \in Modem, modem'[e].pc \in Holding, modem'[e].m \notin unguarded
                 PROVE  lock'[modem'[e].m] = e
      BY <1>2 DEF ModemGuard
    <2>1. CASE e = d
      BY <1>1, <1>3, <1>4, <1>5, <2>1 DEF Holding
    <2>2. CASE e # d
      <3>1. modem'[e] = modem[e] /\ lock[modem[e].m] = e
        BY <1>3, <2>2 DEF Moves, ModemGuard
      <3>2. e # None /\ modem[e].m \in Message
        BY <1>3, <1>5, <2>2 DEF Process, Moves, IInv, ModemWorks, Holding
      <3> QED
        BY <1>4, <1>5, <3>1, <3>2
    <2> QED
      BY <2>1, <2>2
  <1>7. MainGuard'
    <2> SUFFICES ASSUME main.pc \in {"copying", "copied"}, main.m \notin unguarded
                 PROVE  lock'[main.m] = Main
      BY <1>2 DEF MainGuard
    <2>1. lock[main.m] = Main /\ main.m \in Message
      BY DEF Moves, MainGuard, IInv, MainWorks
    <2> QED
      BY <1>4, <1>5, <2>1 DEF Process
  <1>8. Moving'
    BY <1>2, <1>3 DEF Moves, Moving, Outcome
  <1>9. (Original /\ Copied /\ Halves)'
    BY <1>2 DEF Moves, Original, Copied, Halves
  <1> QED
    BY <1>6, <1>7, <1>8, <1>9

(* The lock removed is its own, or that of an unguarded message.           *)
LEMMA UnlockFileMoves ==
  ASSUME Distinct, Moves, NEW d \in Modem, UnlockFile(d)
  PROVE  (ModemGuard /\ MainGuard /\ Original /\ Copied /\ Moving /\ Halves)'
  <1> DEFINE m == modem[d].m
  <1>1. /\ modem \in [Modem -> Slot] /\ modem[d].pc = "moved" /\ m \in Message
        /\ lock \in [Message -> Process \cup {None}]
    BY DEF Moves, IInv, TypeOK, Slot, Content, ModemWorks, UnlockFile
  <1>2. UNCHANGED <<copy, main, unguarded>> /\ lock' = [lock EXCEPT ![m] = None]
    BY DEF UnlockFile
  <1>3. /\ \A e \in Modem \ {d} : modem'[e] = modem[e]
        /\ modem'[d].pc = "idle"
    BY <1>1 DEF UnlockFile, Step, Fresh
  <1>4. m \notin unguarded => lock[m] = d
    BY <1>1 DEF Moves, ModemGuard, Holding
  <1>5. ModemGuard'
    <2> SUFFICES ASSUME NEW e \in Modem, modem'[e].pc \in Holding, modem'[e].m \notin unguarded
                 PROVE  lock'[modem'[e].m] = e
      BY <1>2 DEF ModemGuard
    <2>1. e # d /\ modem'[e] = modem[e]
      BY <1>3 DEF Holding
    <2>2. lock[modem[e].m] = e /\ modem[e].m \in Message
      BY <2>1 DEF Moves, ModemGuard, IInv, ModemWorks, Holding
    <2> QED
      BY <1>1, <1>2, <1>4, <2>1, <2>2
  <1>6. MainGuard'
    <2> SUFFICES ASSUME main.pc \in {"copying", "copied"}, main.m \notin unguarded
                 PROVE  lock'[main.m] = Main
      BY <1>2 DEF MainGuard
    <2>1. lock[main.m] = Main /\ main.m \in Message
      BY DEF Moves, MainGuard, IInv, MainWorks
    <2> QED
      BY <1>1, <1>2, <1>4, <2>1 DEF Distinct
  <1>7. Moving'
    BY <1>2, <1>3 DEF Moves, Moving, Outcome
  <1>8. (Original /\ Copied /\ Halves)'
    BY <1>2 DEF Moves, Original, Copied, Halves
  <1> QED
    BY <1>5, <1>6, <1>7, <1>8

(* The copy in sent or in failed is what is in the queue.                  *)
LEMMA MoveFileMoves ==
  ASSUME Distinct, Moves, NEW d \in Modem, MoveFile(d)
  PROVE  /\ (ModemGuard /\ MainGuard /\ Original /\ Copied /\ Moving /\ Halves)'
         /\ \A m \in Message \ unguarded : Whole(m) => Whole(m)'
  <1> DEFINE m == modem[d].m
  <1>1. /\ modem \in [Modem -> Slot] /\ modem[d] \in Slot /\ modem[d].pc = "move"
        /\ m \in Message /\ copy \in [Message -> [Directory -> Content]]
    BY SlotType DEF Moves, IInv, TypeOK, Slot, Content, ModemWorks, MoveFile
  <1>2. UNCHANGED <<lock, main, unguarded>>
    BY DEF MoveFile
  <1>3. /\ \A e \in Modem \ {d} : modem'[e] = modem[e]
        /\ modem'[d].pc \in {"moving", "moved"} /\ modem'[d].m = m
        /\ modem'[d].success = modem[d].success
    BY <1>1 DEF MoveFile, Step, Slot
  <1>4. \/ copy' = [copy EXCEPT ![m][Outcome(d)] = copy[m].queue]
        \/ copy' = copy /\ copy[m].queue = "no"
    BY DEF MoveFile, Exists
  <1>5. Outcome(d) \in {"sent", "failed"} /\ Outcome(d)' = Outcome(d)
    BY <1>3 DEF Outcome
  <1> HIDE DEF m
  <1>6. /\ \A n \in Message : /\ copy'[n].queue = copy[n].queue
                              /\ copy'[n].outgoing = copy[n].outgoing
        /\ \A n \in Message \ {m} : copy'[n] = copy[n]
        /\ copy[m].queue = "full" => copy'[m][Outcome(d)] = "full"
        /\ \A dir \in Directory : dir # Outcome(d) => copy'[m][dir] = copy[m][dir]
    BY <1>1, <1>4, <1>5 DEF Directory
  <1>7. ModemGuard' /\ MainGuard'
    BY <1>1, <1>2, <1>3 DEF Moves, ModemGuard, MainGuard, Holding, m
  <1>8. Moving'
    <2> SUFFICES ASSUME NEW e \in Modem, modem'[e].pc = "moving", modem'[e].m \notin unguarded,
                        copy'[modem'[e].m].queue = "full"
                 PROVE  copy'[modem'[e].m][Outcome(e)'] = "full"
      BY <1>2 DEF Moving
    <2>1. CASE e = d
      BY <1>1, <1>3, <1>5, <1>6, <2>1
    <2>2. CASE e # d
      <3>1. modem'[e] = modem[e] /\ modem[e].m \in Message /\ Outcome(e)' = Outcome(e)
        BY <1>3, <2>2 DEF Moves, IInv, ModemWorks, Outcome
      <3>2. modem[e].m # m
        BY <1>1, <2>2, <3>1 DEF Moves, ModemGuard, Holding, m
      <3> QED
        BY <1>6, <3>1, <3>2 DEF Moves, Moving
    <2> QED
      BY <2>1, <2>2
  <1>9. Original' /\ Copied' /\ Halves'
    BY <1>2, <1>6 DEF Moves, IInv, MainWorks, Original, Copied, Halves
  <1>10. ASSUME NEW n \in Message \ unguarded, Whole(n) PROVE Whole(n)'
    <2>1. CASE n # m
      BY <1>6, <1>10, <2>1 DEF Whole
    <2>2. CASE n = m
      <3>1. PICK dir \in Directory : copy[n][dir] = "full"
        BY <1>10 DEF Whole
      <3>2. CASE dir # Outcome(d)
        BY <1>6, <2>2, <3>1, <3>2 DEF Whole
      <3>3. CASE copy[m].queue = "part"
        <4>1. copy[n].outgoing = "full"
          BY <2>2, <3>3 DEF Moves, Halves
        <4> QED
          BY <1>6, <4>1 DEF Whole, Directory
      <3>4. CASE copy[m].queue = "full"
        BY <1>5, <1>6, <2>2, <3>4 DEF Whole, Directory
      <3>5. CASE copy[m].queue = "no" /\ copy' = copy
        BY <1>10, <3>5 DEF Whole
      <3>6. copy[m].queue = "no" => copy' = copy
        BY <1>1, <1>2, <1>3 DEF MoveFile, Exists, m
      <3> QED
        BY <1>1, <3>2, <3>3, <3>4, <3>5, <3>6 DEF Content, Directory
    <2> QED
      BY <2>1, <2>2
  <1> QED
    BY <1>7, <1>8, <1>9, <1>10

(* What was removed has its copy, or its original.                         *)
LEMMA RemoveFileMoves ==
  ASSUME Distinct, Moves, NEW d \in Modem, RemoveFile(d)
  PROVE  /\ (ModemGuard /\ MainGuard /\ Original /\ Copied /\ Moving /\ Halves)'
         /\ \A m \in Message \ unguarded : Whole(m) => Whole(m)'
  <1> DEFINE m == modem[d].m
  <1>1. /\ modem \in [Modem -> Slot] /\ modem[d] \in Slot /\ modem[d].pc = "moving"
        /\ m \in Message /\ copy \in [Message -> [Directory -> Content]]
    BY SlotType DEF Moves, IInv, TypeOK, Slot, Content, ModemWorks, RemoveFile
  <1>2. UNCHANGED <<lock, main, unguarded>> /\ copy' = [copy EXCEPT ![m].queue = "no"]
    BY DEF RemoveFile
  <1>3. /\ \A e \in Modem \ {d} : modem'[e] = modem[e]
        /\ modem'[d].pc = "moved" /\ modem'[d].m = m
    BY <1>1 DEF RemoveFile, Step, Slot
  <1>4. m \notin unguarded => lock[m] = d
    BY <1>1 DEF Moves, ModemGuard, Holding
  <1>5. Outcome(d) \in {"sent", "failed"}
    BY DEF Outcome
  <1>6. m \notin unguarded /\ copy[m].queue = "full" => copy[m][Outcome(d)] = "full"
    BY <1>1 DEF Moves, Moving
  <1> HIDE DEF m
  <1>7. /\ \A n \in Message \ {m} : copy'[n] = copy[n]
        /\ \A dir \in Directory \ {"queue"} : copy'[m][dir] = copy[m][dir]
        /\ copy'[m].queue = "no"
    BY <1>1, <1>2 DEF Directory
  <1>8. ModemGuard' /\ MainGuard'
    BY <1>1, <1>2, <1>3 DEF Moves, ModemGuard, MainGuard, Holding, m
  <1>9. Moving'
    <2> SUFFICES ASSUME NEW e \in Modem, modem'[e].pc = "moving", modem'[e].m \notin unguarded,
                        copy'[modem'[e].m].queue = "full"
                 PROVE  copy'[modem'[e].m][Outcome(e)'] = "full"
      BY <1>2 DEF Moving
    <2>1. /\ modem'[e] = modem[e] /\ modem[e].m \in Message /\ Outcome(e)' = Outcome(e)
          /\ modem[e].m # m
      BY <1>3, <1>7 DEF Moves, IInv, ModemWorks, Outcome
    <2> QED
      BY <1>7, <2>1 DEF Moves, Moving
  <1>10. Original' /\ Halves'
    BY <1>2, <1>7 DEF Moves, IInv, MainWorks, Original, Halves, Directory
  <1>11. Copied'
    <2> SUFFICES ASSUME main.pc = "copied", main.m \notin unguarded
                 PROVE  copy'[main.m].queue = "full"
      BY <1>2 DEF Copied
    <2>1. main.m \in Message /\ lock[main.m] = Main /\ copy[main.m].queue = "full"
      BY DEF Moves, IInv, MainWorks, MainGuard, Copied
    <2> QED
      BY <1>4, <1>7, <2>1 DEF Distinct
  <1>12. ASSUME NEW n \in Message \ unguarded, Whole(n) PROVE Whole(n)'
    <2>1. CASE n # m
      BY <1>7, <1>12, <2>1 DEF Whole
    <2>2. CASE n = m
      <3>1. PICK dir \in Directory : copy[n][dir] = "full"
        BY <1>12 DEF Whole
      <3>2. CASE dir # "queue"
        BY <1>7, <2>2, <3>1, <3>2 DEF Whole
      <3>3. CASE dir = "queue"
        BY <1>5, <1>6, <1>7, <2>2, <3>1, <3>3 DEF Whole, Directory
      <3> QED
        BY <3>2, <3>3
    <2> QED
      BY <2>1, <2>2
  <1> QED
    BY <1>8, <1>9, <1>10, <1>11, <1>12

-----------------------------------------------------------------------------
(* The steps of the main process.                                          *)
LEMMA MainTypes ==
  ASSUME Moves
  PROVE  /\ copy \in [Message -> [Directory -> Content]]
         /\ lock \in [Message -> Process \cup {None}]
         /\ main \in MainSlot
         /\ main.pc \notin {"idle", "wait", "ended"} => main.m \in Message
  BY DEF Moves, IInv, TypeOK, Content, MainSlot, MainWorks

(* Those that write nothing.                                               *)
LEMMA LookingMoves ==
  ASSUME Moves,
         \/ \E m \in Message : Pick(m)
         \/ Check \/ LeaveSpooler \/ AwaitTermination \/ SignalTerm
  PROVE  (ModemGuard /\ MainGuard /\ Original /\ Copied /\ Moving /\ Halves)'
  <1>1. UNCHANGED <<copy, lock, modem, unguarded>>
    BY DEF Pick, Check, LeaveSpooler, AwaitTermination, SignalTerm
  <1>2. main'.pc \notin {"copying", "copied"} \/ main' = main
    BY MainTypes DEF Pick, Check, LeaveSpooler, AwaitTermination, SignalTerm, MainSlot
  <1>3. ModemGuard' /\ MainGuard' /\ Copied'
    BY <1>1, <1>2 DEF Moves, ModemGuard, MainGuard, Copied
  <1>4. Moving'
    BY <1>1 DEF Moves, Moving, Outcome
  <1>5. ASSUME NEW m \in Message, Pick(m) PROVE Original' /\ Halves'
    <2>1. main'.pc = "check" /\ main'.m = m /\ copy[m].outgoing # "no"
      BY <1>5, MainTypes DEF Pick, MainSlot, Exists
    <2>2. copy[m].outgoing = "full"
      BY <2>1, MainTypes DEF Moves, Original, Content, Directory
    <2> QED
      BY <1>1, <2>1, <2>2 DEF Moves, Original, Halves
  <1>6. ASSUME Check PROVE Original' /\ Halves'
    BY <1>1, <1>6, MainTypes DEF Moves, Original, Halves, Check, MainSlot
  <1>7. ASSUME LeaveSpooler \/ AwaitTermination \/ SignalTerm
        PROVE  Original' /\ Halves'
    BY <1>1, <1>7, MainTypes
       DEF Moves, Original, Halves, LeaveSpooler, AwaitTermination, SignalTerm, MainSlot
  <1> QED
    BY <1>3, <1>4, <1>5, <1>6, <1>7

(* A new message is nobody's yet.                                          *)
LEMMA SubmitMoves ==
  ASSUME Moves, NEW m \in Message, Submit(m)
  PROVE  /\ (ModemGuard /\ MainGuard /\ Original /\ Copied /\ Moving /\ Halves)'
         /\ \A n \in Message \ unguarded : Whole(n) => Whole(n)'
  <1>1. /\ UNCHANGED <<lock, main, modem, unguarded>>
        /\ copy' = [copy EXCEPT ![m].outgoing = "full"]
        /\ \A dir \in Directory : copy[m][dir] = "no"
    BY DEF Submit, Exists
  <1>2. /\ \A n \in Message \ {m} : copy'[n] = copy[n]
        /\ copy'[m].outgoing = "full"
        /\ \A dir \in Directory \ {"outgoing"} : copy'[m][dir] = "no"
    BY <1>1, MainTypes DEF Directory
  <1>3. ModemGuard' /\ MainGuard'
    BY <1>1 DEF Moves, ModemGuard, MainGuard
  <1>4. Original' /\ Halves'
    BY <1>1, <1>2, MainTypes DEF Moves, Original, Halves, Directory
  <1>5. Copied'
    BY <1>1, <1>2, MainTypes DEF Moves, Copied, Directory
  <1>6. Moving'
    <2> SUFFICES ASSUME NEW e \in Modem, modem[e].pc = "moving", modem[e].m \notin unguarded,
                        copy'[modem[e].m].queue = "full"
                 PROVE  copy'[modem[e].m][Outcome(e)'] = "full"
      BY <1>1 DEF Moving
    <2>1. modem[e].m \in Message /\ modem[e].m # m /\ Outcome(e)' = Outcome(e)
      BY <1>1, <1>2 DEF Moves, IInv, ModemWorks, Outcome, Directory
    <2> QED
      BY <1>2, <2>1 DEF Moves, Moving
  <1>7. ASSUME NEW n \in Message \ unguarded, Whole(n) PROVE Whole(n)'
    BY <1>1, <1>2, <1>7 DEF Whole
  <1> QED
    BY <1>3, <1>4, <1>5, <1>6, <1>7

(* A checkhandler moves what is in nobody's hand, or makes it unguarded.   *)
LEMMA CheckhandlerMovesOne ==
  ASSUME Moves, CheckhandlerMoves
  PROVE  /\ (ModemGuard /\ MainGuard /\ Original /\ Copied /\ Moving /\ Halves)'
         /\ \A n \in Message \ unguarded : Whole(n) => Whole(n)'
  <1> DEFINE m == main.m
  <1>1. /\ m \in Message /\ UNCHANGED <<lock, modem>> /\ main' = Waiting
        /\ copy' = [copy EXCEPT ![m].outgoing = "no", ![m].queue = "full"]
        /\ unguarded' = unguarded \cup {n \in {m} : InHand(n)}
    BY MainTypes DEF CheckhandlerMoves
  <1> HIDE DEF m
  <1>2. /\ \A n \in Message \ {m} : copy'[n] = copy[n]
        /\ copy'[m].outgoing = "no" /\ copy'[m].queue = "full"
    BY <1>1, MainTypes DEF Directory
  <1>3. ModemGuard' /\ MainGuard' /\ Copied'
    BY <1>1 DEF Moves, ModemGuard, MainGuard, Copied, Waiting
  <1>4. Original' /\ Halves'
    BY <1>1, <1>2, MainTypes DEF Moves, Original, Halves, Waiting
  <1>5. Moving'
    <2> SUFFICES ASSUME NEW e \in Modem, modem[e].pc = "moving", modem[e].m \notin unguarded',
                        copy'[modem[e].m].queue = "full"
                 PROVE  copy'[modem[e].m][Outcome(e)'] = "full"
      BY <1>1 DEF Moving
    <2>1. modem[e].m \in Message /\ modem[e].m # m /\ Outcome(e)' = Outcome(e)
      BY <1>1 DEF Moves, IInv, ModemWorks, Outcome, InHand, Holding
    <2> QED
      BY <1>1, <1>2, <2>1 DEF Moves, Moving
  <1>6. ASSUME NEW n \in Message \ unguarded, Whole(n) PROVE Whole(n)'
    BY <1>2, <1>6 DEF Whole, Directory
  <1> QED
    BY <1>3, <1>4, <1>5, <1>6

(* The lock of the queue, while the original is there.                     *)
LEMMA LockQueueMoves ==
  ASSUME Distinct, Moves, LockQueue
  PROVE  /\ (ModemGuard /\ MainGuard /\ Original /\ Copied /\ Moving /\ Halves)'
         /\ \A n \in Message \ unguarded : Whole(n) => Whole(n)'
  <1> DEFINE m == main.m
  <1>1. /\ m \in Message /\ main.pc = "queue" /\ UNCHANGED <<modem, unguarded>>
        /\ copy[m].outgoing = "full" /\ m \notin Rejected
    BY MainTypes DEF LockQueue, Moves, Original, Halves
  <1>2. CASE lock[m] # None
    <2>1. UNCHANGED <<lock, copy>> /\ main'.m = main.m /\ main'.pc \in {"queue", "ended"}
      BY <1>1, <1>2, MainTypes DEF LockQueue, MainSlot
    <2>2. ModemGuard' /\ MainGuard' /\ Original' /\ Copied' /\ Halves'
      BY <1>1, <2>1 DEF Moves, ModemGuard, MainGuard, Original, Copied, Halves
    <2>3. Moving'
      BY <1>1, <2>1 DEF Moves, Moving, Outcome
    <2> QED
      BY <2>1, <2>2, <2>3 DEF Whole
  <1>3. CASE lock[m] = None
    <2>1. /\ lock' = [lock EXCEPT ![m] = Main]
          /\ copy' = [copy EXCEPT ![m].queue = "part"]
          /\ main'.pc = "copying" /\ main'.m = m
      BY <1>3, MainTypes DEF LockQueue, MainSlot
    <2> HIDE DEF m
    <2>2. /\ \A n \in Message \ {m} : copy'[n] = copy[n]
          /\ copy'[m].outgoing = "full" /\ copy'[m].queue = "part"
      BY <1>1, <2>1, MainTypes DEF Directory
    <2>3. \A e \in Modem : modem[e].pc \in Holding /\ modem[e].m \notin unguarded
                           => modem[e].m \in Message /\ modem[e].m # m
      BY <1>3 DEF Moves, IInv, ModemWorks, ModemGuard, Holding, Distinct, Process
    <2>4. ModemGuard' /\ MainGuard'
      BY <1>1, <2>1, <2>3, MainTypes DEF Moves, ModemGuard, MainGuard
    <2>5. Original' /\ Copied' /\ Halves'
      BY <1>1, <2>1, <2>2, MainTypes DEF Moves, Original, Copied, Halves
    <2>6. Moving'
      BY <1>1, <2>2, <2>3 DEF Moves, Moving, Outcome, Holding
    <2>7. ASSUME NEW n \in Message \ unguarded, Whole(n) PROVE Whole(n)'
      BY <2>2, <2>7 DEF Whole, Directory
    <2> QED
      BY <2>4, <2>5, <2>6, <2>7
  <1> QED
    BY <1>2, <1>3

(* The copy, then the removal of the original, under the lock.             *)
LEMMA CopyMoves ==
  ASSUME Distinct, Moves, Copy
  PROVE  /\ (ModemGuard /\ MainGuard /\ Original /\ Copied /\ Moving /\ Halves)'
         /\ \A n \in Message \ unguarded : Whole(n) => Whole(n)'
  <1> DEFINE m == main.m
  <1>1. /\ m \in Message /\ main.pc = "copying" /\ UNCHANGED <<lock, modem, unguarded>>
        /\ main'.pc = "copied" /\ main'.m = m
        /\ copy' = [copy EXCEPT ![m].queue = "full"]
        /\ m \notin unguarded => lock[m] = Main
    BY MainTypes DEF Copy, Moves, MainGuard, MainSlot
  <1> HIDE DEF m
  <1>2. /\ \A n \in Message \ {m} : copy'[n] = copy[n]
        /\ copy'[m].queue = "full"
        /\ \A dir \in Directory \ {"queue"} : copy'[m][dir] = copy[m][dir]
    BY <1>1, MainTypes DEF Directory
  <1>3. ModemGuard' /\ MainGuard' /\ Original' /\ Copied' /\ Halves'
    BY <1>1, <1>2, MainTypes
       DEF Moves, ModemGuard, MainGuard, Original, Copied, Halves, Directory, m
  <1>4. Moving'
    <2> SUFFICES ASSUME NEW e \in Modem, modem[e].pc = "moving", modem[e].m \notin unguarded,
                        copy'[modem[e].m].queue = "full"
                 PROVE  copy'[modem[e].m][Outcome(e)'] = "full"
      BY <1>1 DEF Moving
    <2>1. modem[e].m \in Message /\ modem[e].m # m /\ Outcome(e)' = Outcome(e)
      BY <1>1 DEF Moves, IInv, ModemWorks, ModemGuard, Holding, Outcome, Distinct
    <2> QED
      BY <1>2, <2>1 DEF Moves, Moving
  <1>5. ASSUME NEW n \in Message \ unguarded, Whole(n) PROVE Whole(n)'
    BY <1>2, <1>5 DEF Whole, Directory
  <1> QED
    BY <1>3, <1>4, <1>5

LEMMA RemoveOriginalMoves ==
  ASSUME Distinct, Moves, RemoveOriginal
  PROVE  /\ (ModemGuard /\ MainGuard /\ Original /\ Copied /\ Moving /\ Halves)'
         /\ \A n \in Message \ unguarded : Whole(n) => Whole(n)'
  <1> DEFINE m == main.m
  <1>1. /\ m \in Message /\ main.pc = "copied" /\ UNCHANGED <<modem, unguarded>>
        /\ main' = Waiting /\ lock' = [lock EXCEPT ![m] = None]
        /\ copy' = [copy EXCEPT ![m].outgoing = "no"]
        /\ m \notin unguarded => lock[m] = Main /\ copy[m].queue = "full"
    BY MainTypes DEF RemoveOriginal, Moves, MainGuard, Copied
  <1> HIDE DEF m
  <1>2. /\ \A n \in Message \ {m} : copy'[n] = copy[n]
        /\ copy'[m].outgoing = "no"
        /\ \A dir \in Directory \ {"outgoing"} : copy'[m][dir] = copy[m][dir]
    BY <1>1, MainTypes DEF Directory
  <1>3. \A e \in Modem : modem[e].pc \in Holding /\ modem[e].m \notin unguarded
                         => modem[e].m \in Message /\ modem[e].m # m
    BY <1>1 DEF Moves, IInv, ModemWorks, ModemGuard, Holding, Distinct
  <1>4. ModemGuard' /\ MainGuard' /\ Copied'
    BY <1>1, <1>3, MainTypes DEF Moves, ModemGuard, MainGuard, Copied, Waiting
  <1>5. Original' /\ Halves'
    BY <1>1, <1>2, MainTypes DEF Moves, Original, Halves, Waiting, Directory
  <1>6. Moving'
    BY <1>1, <1>2, <1>3 DEF Moves, Moving, Outcome, Holding
  <1>7. ASSUME NEW n \in Message \ unguarded, Whole(n) PROVE Whole(n)'
    BY <1>1, <1>2, <1>7 DEF Whole, Directory
  <1> QED
    BY <1>4, <1>5, <1>6, <1>7

(* What is rejected has no half copy in the queue.                         *)
LEMMA RejectMoves ==
  ASSUME Moves, Reject
  PROVE  /\ (ModemGuard /\ MainGuard /\ Original /\ Copied /\ Moving /\ Halves)'
         /\ \A n \in Message \ unguarded : Whole(n) => Whole(n)'
  <1> DEFINE m == main.m
  <1>1. /\ m \in Message /\ UNCHANGED <<lock, modem, unguarded>> /\ main' = Waiting
        /\ copy' = [copy EXCEPT ![m].outgoing = "no", ![m].failed = "full"]
        /\ copy[m].queue # "part"
    BY MainTypes DEF Reject, Moves, Halves
  <1> HIDE DEF m
  <1>2. /\ \A n \in Message \ {m} : copy'[n] = copy[n]
        /\ copy'[m].outgoing = "no" /\ copy'[m].failed = "full"
        /\ copy'[m].queue = copy[m].queue /\ copy'[m].sent = copy[m].sent
    BY <1>1, MainTypes DEF Directory
  <1>3. ModemGuard' /\ MainGuard' /\ Copied'
    BY <1>1 DEF Moves, ModemGuard, MainGuard, Copied, Waiting
  <1>4. Original' /\ Halves'
    BY <1>1, <1>2, MainTypes DEF Moves, Original, Halves, Waiting
  <1>5. Moving'
    <2> SUFFICES ASSUME NEW e \in Modem, modem[e].pc = "moving", modem[e].m \notin unguarded,
                        copy'[modem[e].m].queue = "full"
                 PROVE  copy'[modem[e].m][Outcome(e)'] = "full"
      BY <1>1 DEF Moving
    <2>1. modem[e].m \in Message /\ Outcome(e)' = Outcome(e)
          /\ Outcome(e) \in {"sent", "failed"}
      BY <1>1 DEF Moves, IInv, ModemWorks, Outcome
    <2> QED
      BY <1>1, <1>2, <2>1 DEF Moves, Moving
  <1>6. ASSUME NEW n \in Message \ unguarded, Whole(n) PROVE Whole(n)'
    BY <1>2, <1>6 DEF Whole, Directory
  <1> QED
    BY <1>3, <1>4, <1>5, <1>6

-----------------------------------------------------------------------------
(* A kill leaves nobody at work, a start nobody guarded whom it found so.  *)
LEMMA KillMoves ==
  ASSUME Moves, Kill
  PROVE  (ModemGuard /\ MainGuard /\ Original /\ Copied /\ Moving /\ Halves)'
  <1>1. /\ UNCHANGED <<copy, lock, unguarded>> /\ main'.pc = "ended"
        /\ \A d \in Modem : modem'[d].pc = "ended"
    BY DEF Kill, Waiting, Fresh
  <1>2. ModemGuard' /\ Moving'
    BY <1>1 DEF ModemGuard, Moving, Holding
  <1>3. MainGuard' /\ Copied'
    BY <1>1 DEF MainGuard, Copied
  <1>4. Original' /\ Halves'
    BY <1>1 DEF Moves, Original, Halves
  <1> QED
    BY <1>2, <1>3, <1>4

LEMMA StartMoves ==
  ASSUME Moves, Start
  PROVE  (ModemGuard /\ MainGuard /\ Original /\ Copied /\ Moving /\ Halves)'
  <1>1. /\ UNCHANGED copy /\ main' = Waiting
        /\ unguarded' = unguarded \cup {m \in Message : InHand(m)}
        /\ \A d \in Modem : modem'[d].pc = "idle" \/ modem'[d] = modem[d]
    BY DEF Start, Fresh
  <1>2. \A d \in Modem : modem'[d].pc \in Holding => modem'[d].m \in unguarded'
    BY <1>1 DEF InHand, Holding, Moves, IInv, ModemWorks
  <1>3. ModemGuard'
    BY <1>2 DEF ModemGuard
  <1>4. Moving'
    BY <1>2 DEF Moving, Holding
  <1>5. MainGuard' /\ Copied' /\ Original' /\ Halves'
    BY <1>1 DEF Moves, MainGuard, Copied, Original, Halves, Waiting
  <1> QED
    BY <1>3, <1>4, <1>5

LEMMA InitMoves ==
  ASSUME RETRIES \in Nat
  PROVE  Init => Moves
  <1> SUFFICES ASSUME Init
               PROVE  Moves
    OBVIOUS
  <1>1. IInv
    BY InitIInv
  <1> USE DEF Init, Waiting, Fresh
  <1>2. ModemGuard /\ MainGuard /\ Copied /\ Moving
    BY DEF ModemGuard, MainGuard, Copied, Moving, Holding
  <1>3. Original /\ Halves
    BY DEF Original, Halves, Directory
  <1> QED
    BY <1>1, <1>2, <1>3 DEF Moves

(* Every step keeps the invariant, and a whole copy of every message.      *)
LEMMA NextMoves ==
  ASSUME RETRIES \in Nat, Distinct, Moves, [Next]_vars
  PROVE  /\ Moves'
         /\ \A m \in Message \ unguarded : Whole(m) => Whole(m)'
  <1> DEFINE Goal == /\ (ModemGuard /\ MainGuard /\ Original /\ Copied /\ Moving /\ Halves)'
                     /\ \A m \in Message \ unguarded : Whole(m) => Whole(m)'
  <1>0. IInv'
    BY NextIInv DEF Moves
  <1> SUFFICES Goal
    BY <1>0 DEF Moves
  <1>1. ASSUME UNCHANGED copy
        PROVE  \A m \in Message \ unguarded : Whole(m) => Whole(m)'
    BY <1>1 DEF Whole
  <1>2. ASSUME NEW d \in Modem, Working(d) PROVE Goal
    BY <1>1, <1>2, WorkingKeeps DEF Working
  <1>3. CASE MainStep
    <2>1. CASE \/ \E m \in Message : Pick(m)
               \/ Check \/ LeaveSpooler \/ AwaitTermination
      <3>1. UNCHANGED copy
        BY <2>1 DEF Pick, Check, LeaveSpooler, AwaitTermination
      <3> QED
        BY <1>1, <2>1, <3>1, LookingMoves
    <2>2. CASE LockQueue \/ Copy \/ RemoveOriginal \/ Reject
      BY <2>2, LockQueueMoves, CopyMoves, RemoveOriginalMoves, RejectMoves
    <2> QED
      BY <1>3, <2>1, <2>2 DEF MainStep
  <1>4. ASSUME NEW d \in Modem, ModemStep(d) PROVE Goal
    <2>1. CASE LockFile(d) \/ UnlockFile(d)
      <3>1. UNCHANGED copy
        BY <2>1 DEF LockFile, UnlockFile
      <3> QED
        BY <1>1, <2>1, <3>1, LockFileMoves, UnlockFileMoves
    <2>2. CASE MoveFile(d) \/ RemoveFile(d)
      BY <2>2, MoveFileMoves, RemoveFileMoves
    <2>3. CASE ~ (LockFile(d) \/ UnlockFile(d) \/ MoveFile(d) \/ RemoveFile(d))
      <3>1. Working(d)
        BY <1>4, <2>3, WorkingSteps DEF ModemStep
      <3> QED
        BY <1>2, <3>1
    <2> QED
      BY <2>1, <2>2, <2>3
  <1>5. CASE Fault
    <2>1. CASE CheckhandlerMoves
      BY <2>1, CheckhandlerMovesOne
    <2>2. CASE SignalTerm \/ Kill \/ Start
      <3>1. UNCHANGED copy
        BY <2>2 DEF SignalTerm, Kill, Start
      <3> QED
        BY <1>1, <2>2, <3>1, LookingMoves, KillMoves, StartMoves
    <2>3. ASSUME NEW d \in Modem,
                 \/ InitializationFails(d) \/ AbnormalTermination(d)
                 \/ PartRefused(d) \/ AnswerLost(d) \/ OpenFails(d)
          PROVE  Goal
      <3>1. Working(d)
        BY <2>3, WorkingSteps
      <3> QED
        BY <1>2, <3>1
    <2> QED
      BY <1>5, <2>1, <2>2, <2>3 DEF Fault
  <1>6. ASSUME NEW m \in Message, Submit(m) PROVE Goal
    BY <1>6, SubmitMoves
  <1>7. CASE UNCHANGED vars
    <2>1. (ModemGuard /\ MainGuard /\ Original /\ Copied /\ Halves)'
      BY <1>7 DEF vars, Moves, ModemGuard, MainGuard, Original, Copied, Halves
    <2>2. Moving'
      BY <1>7 DEF vars, Moves, Moving, Outcome
    <2> QED
      BY <1>1, <1>7, <2>1, <2>2 DEF vars
  <1> QED
    BY <1>3, <1>4, <1>5, <1>6, <1>7 DEF Next

-----------------------------------------------------------------------------
(* extras.c, movefile and its callers in smsd.c: a message that is whole   *)
(* in one directory stays whole in one, whenever smsd is killed and started*)
(* again and however many modem processes there are, unless a checkhandler *)
(* or a start of smsd came between a living process and its file.          *)
THEOREM MessagesStayWhole ==
  ASSUME RETRIES \in Nat, Distinct
  PROVE  Spec => NeverVanishes
  <1>1. Init => Moves
    BY InitMoves
  <1>2. Moves /\ [Next]_vars => Moves'
    BY NextMoves
  <1>3. Moves /\ [Next]_vars => [\A m \in Message \ unguarded : Whole(m) => Whole(m)']_vars
    BY NextMoves
  <1> QED
    BY <1>1, <1>2, <1>3, PTL DEF Spec, NeverVanishes

-----------------------------------------------------------------------------
(* That the network gets each part of a message once, and that a message is *)
(* filed as what happened to it, for every set of messages and of modems:  *)
(* who sends a part holds the lock, nothing was sent of a message that     *)
(* nobody has locked, and what was sent is behind the part that is next.   *)

(* The inductive invariant, about the messages that are not excused.       *)
Untouched(m) == aired[m] = <<>> /\ copy[m].sent = "no" /\ copy[m].failed = "no"

(* No modem process has found the message.                                 *)
NotFound(m) == \A d \in Modem : modem[d].pc \notin {"idle", "ended"} => modem[d].m # m

ByMain(m) == main.pc \in {"copying", "copied"} /\ main.m = m

(* In the outgoing directory a message is new; nothing was sent of one in  *)
(* the queue without a lock; a file that is there is there.                *)
New(m)     == copy[m].outgoing # "no" =>
                 /\ Untouched(m) /\ NotFound(m)
                 /\ ByMain(m) \/ (lock[m] = None /\ copy[m].queue = "no")
Queued(m)  == copy[m].queue # "no" /\ lock[m] = None => Untouched(m)
Copying(m) == /\ copy[m].queue = "part" => main.pc = "copying" /\ main.m = m
              /\ main.pc = "copied" /\ main.m = m => copy[m].queue = "full"
Nowhere(m) == (\A dir \in Directory : copy[m][dir] = "no") =>
                 aired[m] = <<>> /\ lock[m] = None /\ NotFound(m)

(* What the network has, and where a message is filed.                     *)
Filed(m) == /\ \A i \in 1 .. Len(aired[m]) : aired[m][i] = <<i, "full">>
            /\ Len(aired[m]) <= Parts[m]
            /\ copy[m].sent # "no" => Len(aired[m]) = Parts[m]
            /\ copy[m].failed # "no" => Len(aired[m]) < Parts[m]

MessageOnce(m) == New(m) /\ Queued(m) /\ Copying(m) /\ Nowhere(m) /\ Filed(m)

(* Where the process is with its message.                                  *)
Sending == {"initialize", "command", "sleep"}

HolderOnce(d) ==
    LET r == modem[d]
        m == modem[d].m
    IN  /\ r.pc = "locked" /\ copy[m].queue # "no" => Untouched(m)
        /\ r.pc \in Sending =>
              /\ r.text = "full" /\ r.part <= Parts[m] /\ Len(aired[m]) + 1 = r.part
              /\ copy[m].sent = "no" /\ copy[m].failed = "no"
        /\ r.pc = "move" /\ copy[m].queue # "no" =>
              (r.success = 1 <=> Len(aired[m]) = Parts[m])
        /\ r.pc = "moving" => copy[m].sent # "no" \/ copy[m].failed # "no"
        /\ r.pc = "moved" => copy[m].queue = "no"

Messages == \A m \in Message \ excused : MessageOnce(m)
Holders  == \A d \in Modem : modem[d].pc \in Holding /\ modem[d].m \notin excused => HolderOnce(d)

Once == Moves /\ Messages /\ Holders

-----------------------------------------------------------------------------
LEMMA OnceTypes ==
  ASSUME Once
  PROVE  /\ copy \in [Message -> [Directory -> Content]]
         /\ lock \in [Message -> Process \cup {None}]
         /\ aired \in [Message -> Seq(Nat \X {"part", "full"})]
         /\ main \in MainSlot
         /\ main.pc \notin {"idle", "wait", "ended"} => main.m \in Message
         /\ modem \in [Modem -> Slot]
         /\ \A d \in Modem : modem[d].pc \notin {"idle", "ended"} => modem[d].m \in Message
  BY DEF Once, Moves, IInv, TypeOK, Content, Slot, MainSlot, MainWorks, ModemWorks

(* Of two processes, one at most holds a message that is not excused, and  *)
(* it has the lock; the main process has it while it copies.               *)
LEMMA OnceLocks ==
  ASSUME Distinct, Once
  PROVE  /\ \A d \in Modem : modem[d].pc \in Holding /\ modem[d].m \notin excused
               => /\ modem[d].m \in Message /\ lock[modem[d].m] = d
                  /\ d # None /\ d # Main /\ copy[modem[d].m].outgoing = "no"
         /\ \A m \in Message \ excused : ByMain(m) => lock[m] = Main /\ Main # None
  <1>1. ASSUME NEW d \in Modem, modem[d].pc \in Holding, modem[d].m \notin excused
        PROVE  /\ modem[d].m \in Message /\ lock[modem[d].m] = d
               /\ d # None /\ d # Main /\ copy[modem[d].m].outgoing = "no"
    <2>1. modem[d].m \in Message /\ lock[modem[d].m] = d
      BY <1>1, OnceTypes DEF Once, Moves, IInv, ModemLock, Holding
    <2>2. ~ NotFound(modem[d].m)
      BY <1>1 DEF NotFound, Holding
    <2>3. copy[modem[d].m].outgoing = "no"
      BY <1>1, <2>1, <2>2 DEF Once, Messages, MessageOnce, New
    <2> QED
      BY <2>1, <2>3 DEF Distinct, Process
  <1>2. ASSUME NEW m \in Message \ excused, ByMain(m) PROVE lock[m] = Main /\ Main # None
    BY <1>2 DEF Once, Moves, IInv, MainLock, ByMain, Distinct, Process
  <1> QED
    BY <1>1, <1>2

(* A modem process that leaves directories, locks and network alone.       *)
LEMMA StillKeeps ==
  ASSUME Distinct, Once, NEW d \in Modem,
         UNCHANGED <<copy, lock, main, aired, excused>>,
         \A e \in Modem \ {d} : modem'[e] = modem[e],
         modem'[d].pc \notin {"idle", "ended"} =>
            \/ modem[d].pc \notin {"idle", "ended"} /\ modem'[d].m = modem[d].m
            \/ copy[modem'[d].m].queue # "no" /\ lock[modem'[d].m] = None,
         modem'[d].pc \in Holding /\ modem'[d].m \notin excused => HolderOnce(d)'
  PROVE  Messages' /\ Holders'
  <1>1. ASSUME NEW m \in Message \ excused,
               copy[m].outgoing # "no" \/ \A dir \in Directory : copy[m][dir] = "no",
               NotFound(m)
        PROVE  NotFound(m)'
    <2>1. copy[m].queue = "no" \/ lock[m] # None
      BY <1>1, OnceLocks DEF Once, Messages, MessageOnce, New, Directory
    <2> QED
      BY <1>1, <2>1 DEF NotFound
  <1>2. ASSUME NEW m \in Message \ excused PROVE MessageOnce(m)'
    <2>1. MessageOnce(m)
      BY <1>2 DEF Once, Messages
    <2>2. New(m)' /\ Nowhere(m)'
      BY <1>1, <2>1 DEF MessageOnce, New, Nowhere, Untouched, ByMain
    <2>3. Queued(m)' /\ Copying(m)' /\ Filed(m)'
      BY <2>1 DEF MessageOnce, Queued, Copying, Filed, Untouched
    <2> QED
      BY <2>2, <2>3 DEF MessageOnce
  <1>3. ASSUME NEW e \in Modem \ {d}, modem'[e].pc \in Holding, modem'[e].m \notin excused
        PROVE  HolderOnce(e)'
    <2>1. HolderOnce(e) /\ modem'[e] = modem[e]
      BY <1>3 DEF Once, Holders
    <2> QED
      BY <2>1 DEF HolderOnce, Untouched
  <1> QED
    BY <1>2, <1>3 DEF Messages, Holders

(* A modem process that works on its message and on no other one.          *)
LEMMA Elsewhere ==
  ASSUME Distinct, Once, NEW d \in Modem, NEW m \in Message,
         modem[d].pc \in Holding, modem[d].m = m,
         main' = main, excused \subseteq excused',
         \A n \in Message \ {m} : copy'[n] = copy[n] /\ aired'[n] = aired[n] /\ lock'[n] = lock[n],
         \A e \in Modem \ {d} : modem'[e] = modem[e],
         modem'[d].pc \notin {"idle", "ended"} => modem'[d].m = m,
         m \notin excused' => MessageOnce(m)',
         modem'[d].pc \in Holding /\ m \notin excused' => HolderOnce(d)'
  PROVE  Messages' /\ Holders'
  <1>1. ASSUME NEW n \in Message \ excused', n # m PROVE MessageOnce(n)'
    <2>1. MessageOnce(n)
      BY <1>1 DEF Once, Messages
    <2>2. NotFound(n) => NotFound(n)'
      BY <1>1 DEF NotFound
    <2>3. New(n)' /\ Nowhere(n)'
      BY <1>1, <2>1, <2>2 DEF MessageOnce, New, Nowhere, Untouched, ByMain
    <2>4. Queued(n)' /\ Copying(n)' /\ Filed(n)'
      BY <1>1, <2>1 DEF MessageOnce, Queued, Copying, Filed, Untouched
    <2> QED
      BY <2>3, <2>4 DEF MessageOnce
  <1>2. ASSUME NEW e \in Modem \ {d}, modem'[e].pc \in Holding, modem'[e].m \notin excused'
        PROVE  HolderOnce(e)'
    <2>1. HolderOnce(e) /\ modem'[e] = modem[e]
      BY <1>2 DEF Once, Holders
    <2>2. modem[e].m \in Message /\ modem[e].m # m
      BY <1>2, <2>1, OnceLocks
    <2> QED
      BY <2>1, <2>2 DEF HolderOnce, Untouched
  <1>3. ASSUME modem'[d].pc \in Holding, modem'[d].m \notin excused' PROVE HolderOnce(d)'
    BY <1>3 DEF Holding
  <1> QED
    BY <1>1, <1>2, <1>3 DEF Messages, Holders

-----------------------------------------------------------------------------
(* The steps of a modem process that only change where it is.              *)
LEMMA LookingOnce ==
  ASSUME Distinct, Once, NEW d \in Modem,
         \/ \E m \in Message : FindFile(d, m)
         \/ StatFile(d) \/ OpenFails(d) \/ LeaveDevicespooler(d)
  PROVE  Messages' /\ Holders'
  <1>1. modem[d] \in Slot /\ \A e \in Modem \ {d} : modem'[e] = modem[e]
    BY OnceTypes DEF FindFile, StatFile, OpenFails, LeaveDevicespooler, Step
  <1>2. UNCHANGED <<copy, lock, main, aired, excused>>
    BY DEF FindFile, StatFile, OpenFails, LeaveDevicespooler
  <1>3. \/ modem'[d].pc \in {"idle", "ended"}
        \/ modem'[d].pc = "exists" /\ modem[d].pc = "found" /\ modem'[d].m = modem[d].m
        \/ /\ modem'[d].pc = "found"
           /\ copy[modem'[d].m].queue # "no" /\ lock[modem'[d].m] = None
    <2>1. ASSUME NEW m \in Message, FindFile(d, m)
          PROVE  /\ modem'[d].pc = "found" /\ modem'[d].m = m
                 /\ copy[m].queue # "no" /\ lock[m] = None
      BY <1>1, <2>1, OnceTypes DEF FindFile, Step, Slot, Exists
    <2>2. CASE StatFile(d)
      BY <1>1, <2>2, OnceTypes DEF StatFile, Step, Slot
    <2>3. CASE OpenFails(d) \/ LeaveDevicespooler(d)
      BY <1>1, <2>3, OnceTypes DEF OpenFails, LeaveDevicespooler, Step, Slot
    <2> QED
      BY <2>1, <2>2, <2>3
  <1> QED
    BY <1>1, <1>2, <1>3, StillKeeps DEF Holding

LEMMA WaitingOnce ==
  ASSUME Distinct, Once, NEW d \in Modem,
         \/ Initialized(d) \/ InitializationFails(d) \/ AbnormalTermination(d)
         \/ PartRefused(d) \/ Retry(d)
  PROVE  Messages' /\ Holders'
  <1>1. /\ modem[d] \in Slot /\ modem[d].pc \in Sending
        /\ \A e \in Modem \ {d} : modem'[e] = modem[e]
    BY OnceTypes DEF Initialized, InitializationFails, AbnormalTermination, PartRefused, Retry,
                     Step, Sending
  <1>2. UNCHANGED <<copy, lock, main, aired, excused>>
    BY DEF Initialized, InitializationFails, AbnormalTermination, PartRefused, Retry
  <1>3. /\ modem'[d].m = modem[d].m
        /\ \/ modem'[d].pc = "ended"
           \/ modem'[d].pc \in Sending /\ modem'[d].text = modem[d].text
                /\ modem'[d].part = modem[d].part
           \/ modem'[d].pc = "move" /\ modem'[d].success = -1
    <2> DEFINE old == modem[d]
    <2>1. Failed(old).m = old.m /\ Failed(old).pc = "move" /\ Failed(old).success = -1
      BY <1>1 DEF Slot, Failed, Failing
    <2>2. CASE Initialized(d) \/ InitializationFails(d) \/ AbnormalTermination(d)
      <3>1. \/ modem'[d] = [old EXCEPT !.pc = "command"] \/ modem'[d] = [old EXCEPT !.pc = "ended"]
            \/ modem'[d] = Failed(old)
        BY <2>2, OnceTypes DEF Initialized, InitializationFails, AbnormalTermination, Step
      <3> QED
        BY <1>1, <2>1, <3>1 DEF Sending, Slot
    <2>3. CASE PartRefused(d)
      <3>1. modem'[d] = NotOK(d)
        BY <2>3, OnceTypes DEF PartRefused, Step
      <3>2. CASE modem'[d] = [old EXCEPT !.retries = @ + 1, !.pc = "sleep"]
        BY <1>1, <3>2 DEF Slot, Sending
      <3> QED
        BY <2>1, <3>1, <3>2 DEF NotOK
    <2>4. CASE Retry(d)
      <3>1. modem'[d] = Failed(old) \/ modem'[d] = [old EXCEPT !.pc = "initialize"]
        BY <2>4, OnceTypes DEF Retry, Step
      <3> QED
        BY <1>1, <2>1, <3>1 DEF Sending, Slot
    <2> QED
      BY <2>2, <2>3, <2>4
  <1>4. ASSUME modem[d].m \notin excused, modem'[d].pc \in Holding PROVE HolderOnce(d)'
    <2> DEFINE m == modem[d].m
    <2>1. /\ modem[d].text = "full" /\ modem[d].part <= Parts[m]
          /\ Len(aired[m]) + 1 = modem[d].part
          /\ copy[m].sent = "no" /\ copy[m].failed = "no"
      BY <1>1, <1>4 DEF Once, Holders, HolderOnce, Sending, Holding
    <2>2. CASE modem'[d].pc \in Sending
      BY <1>1, <1>2, <1>3, <2>1, <2>2 DEF HolderOnce, Sending
    <2>3. CASE modem'[d].pc = "move" /\ modem'[d].success = -1
      <3>1. m \in Message /\ modem[d].part \in Nat
        BY <1>1, OnceTypes DEF Sending, Slot
      <3> QED
        BY <1>2, <1>3, <2>1, <2>3, <3>1 DEF HolderOnce, Sending
    <2> QED
      BY <1>3, <1>4, <2>2, <2>3 DEF Holding
  <1> QED
    BY <1>1, <1>2, <1>3, <1>4, StillKeeps DEF Sending

(* A process that has found its message locks it: nothing was sent of it.  *)
LEMMA LockFileOnce ==
  ASSUME Distinct, Once, NEW d \in Modem, LockFile(d)
  PROVE  Messages' /\ Holders'
  <1> DEFINE m == modem[d].m
  <1>1. /\ modem[d] \in Slot /\ modem[d].pc = "exists" /\ m \in Message
        /\ \A e \in Modem \ {d} : modem'[e] = modem[e]
        /\ UNCHANGED <<copy, main, aired, excused>>
    BY OnceTypes DEF LockFile, Step
  <1>2. CASE lock[m] # None
    <2>1. modem'[d].pc = "idle" /\ UNCHANGED lock
      BY <1>1, <1>2, OnceTypes DEF LockFile, Step, Slot
    <2> QED
      BY <1>1, <2>1, StillKeeps DEF Holding
  <1>3. CASE lock[m] = None
    <2>1. /\ modem'[d].pc = "locked" /\ modem'[d].m = m
          /\ lock' = [lock EXCEPT ![m] = d] /\ d # None
      BY <1>1, <1>3, OnceTypes DEF LockFile, Step, Slot, Distinct, Process
    <2>2. /\ lock'[m] = d
          /\ \A n \in Message \ {m} : lock'[n] = lock[n]
      BY <1>1, <2>1, OnceTypes
    <2>3. ~ NotFound(m)
      BY <1>1 DEF NotFound
    <2> HIDE DEF m
    <2>4. \A n \in Message \ {m} : NotFound(n) => NotFound(n)'
      BY <1>1, <2>1 DEF NotFound
    <2>5. ASSUME NEW n \in Message \ excused PROVE MessageOnce(n)'
      <3>1. MessageOnce(n)
        BY <2>5 DEF Once, Messages
      <3>2. CASE n # m
        <4>1. New(n)' /\ Nowhere(n)'
          BY <1>1, <2>2, <2>4, <3>1, <3>2 DEF MessageOnce, New, Nowhere, Untouched, ByMain
        <4>2. Queued(n)' /\ Copying(n)' /\ Filed(n)'
          BY <1>1, <2>2, <3>1, <3>2 DEF MessageOnce, Queued, Copying, Filed, Untouched
        <4> QED
          BY <4>1, <4>2 DEF MessageOnce
      <3>3. CASE n = m
        <4>1. New(n)' /\ Nowhere(n)'
          BY <1>1, <2>3, <3>1, <3>3 DEF MessageOnce, New, Nowhere
        <4>2. Queued(n)' /\ Copying(n)' /\ Filed(n)'
          BY <1>1, <2>1, <2>2, <3>1, <3>3 DEF MessageOnce, Queued, Copying, Filed
        <4> QED
          BY <4>1, <4>2 DEF MessageOnce
      <3> QED
        BY <3>2, <3>3
    <2>6. ASSUME NEW e \in Modem, modem'[e].pc \in Holding, modem'[e].m \notin excused
          PROVE  HolderOnce(e)'
      <3>1. CASE e # d
        <4>1. HolderOnce(e) /\ modem'[e] = modem[e]
          BY <1>1, <2>6, <3>1 DEF Once, Holders
        <4> QED
          BY <1>1, <4>1 DEF HolderOnce, Untouched
      <3>2. CASE e = d
        <4>1. copy[m].queue # "no" => Untouched(m)
          BY <1>1, <1>3, <2>1, <2>6, <3>2 DEF Once, Messages, MessageOnce, Queued, m
        <4> QED
          BY <1>1, <2>1, <3>2, <4>1 DEF HolderOnce, Untouched, Sending
      <3> QED
        BY <3>1, <3>2
    <2> QED
      BY <1>1, <2>5, <2>6 DEF Messages, Holders
  <1> QED
    BY <1>2, <1>3

(* What is read under the lock is whole, and the first part is next.       *)
LEMMA ReadFileOnce ==
  ASSUME Distinct, Parts \in [Message -> Nat \ {0}], Once, NEW d \in Modem, ReadFile(d)
  PROVE  Messages' /\ Holders'
  <1>1. PICK m \in Message : m = modem[d].m
    BY OnceTypes DEF ReadFile
  <1>2. /\ modem[d] \in Slot /\ modem[d].pc = "locked"
        /\ \A e \in Modem \ {d} : modem'[e] = modem[e]
        /\ UNCHANGED <<copy, lock, main, aired, excused>>
    BY OnceTypes DEF ReadFile, Step
  <1>3. /\ modem'[d].m = m
        /\ \/ /\ modem'[d].pc = "initialize" /\ copy[m].queue # "no"
              /\ modem'[d].text = copy[m].queue /\ modem'[d].part = 1
           \/ modem'[d].pc = "move" /\ modem'[d].success = -2
    <2> DEFINE r == [modem[d] EXCEPT !.text = copy[m].queue, !.part = 1, !.retries = 0]
    <2>1. \/ modem'[d] = Failing(r, -2)
          \/ copy[m].queue # "no" /\ modem'[d] = [r EXCEPT !.pc = "initialize"]
      BY <1>1, OnceTypes DEF ReadFile, Step, Exists
    <2>2. /\ Failing(r, -2).m = m /\ Failing(r, -2).pc = "move" /\ Failing(r, -2).success = -2
          /\ [r EXCEPT !.pc = "initialize"].m = m /\ [r EXCEPT !.pc = "initialize"].pc = "initialize"
          /\ [r EXCEPT !.pc = "initialize"].text = copy[m].queue
          /\ [r EXCEPT !.pc = "initialize"].part = 1
      BY <1>1, <1>2 DEF Slot, Failing
    <2> HIDE DEF r
    <2> QED
      BY <2>1, <2>2
  <1>4. ASSUME m \notin excused PROVE HolderOnce(d)'
    <2>1. copy[m].queue # "no" => Untouched(m)
      BY <1>1, <1>2, <1>4 DEF Once, Holders, HolderOnce, Holding
    <2>2. MessageOnce(m) /\ lock[m] = d /\ d # Main
      BY <1>1, <1>2, <1>4, OnceLocks DEF Once, Messages, Holding
    <2>3. copy[m].queue # "part"
      BY <1>4, <2>2, OnceLocks DEF MessageOnce, Copying, ByMain
    <2>4. copy[m].queue \in Content /\ Parts[m] \in Nat \ {0} /\ Len(<<>>) = 0
      BY OnceTypes DEF Directory
    <2>5. CASE modem'[d].pc = "initialize"
      <3>1. copy[m].queue = "full" /\ aired[m] = <<>>
        BY <1>3, <2>1, <2>3, <2>4, <2>5 DEF Content, Untouched
      <3> QED
        BY <1>2, <1>3, <2>1, <2>4, <2>5, <3>1 DEF HolderOnce, Sending, Untouched
    <2>6. CASE modem'[d].pc = "move"
      <3>1. copy[m].queue # "no" => Len(aired[m]) # Parts[m]
        BY <2>1, <2>4 DEF Untouched
      <3> QED
        BY <1>2, <1>3, <2>6, <3>1 DEF HolderOnce, Sending
    <2> QED
      BY <1>3, <2>5, <2>6
  <1> QED
    BY <1>1, <1>2, <1>3, <1>4, StillKeeps

(* A part that the network gets is the one behind what it has.             *)
LEMMA PartSentOnce ==
  ASSUME Distinct, Parts \in [Message -> Nat \ {0}], Once, NEW d \in Modem, PartSent(d)
  PROVE  Messages' /\ Holders'
  <1>1. PICK m \in Message : m = modem[d].m
    BY OnceTypes DEF PartSent
  <1>2. /\ modem[d] \in Slot /\ modem[d].pc = "command"
        /\ modem'[d] = Sent(d) /\ \A e \in Modem \ {d} : modem'[e] = modem[e]
        /\ aired' = [aired EXCEPT ![m] = Append(aired[m], <<modem[d].part, modem[d].text>>)]
        /\ UNCHANGED <<copy, lock, main, excused>>
    BY <1>1, OnceTypes DEF PartSent, Step, Air
  <1>3. /\ aired'[m] = Append(aired[m], <<modem[d].part, modem[d].text>>)
        /\ \A n \in Message \ {m} : aired'[n] = aired[n]
    BY <1>2, OnceTypes
  <1>4. /\ modem'[d].m = m /\ modem'[d].text = modem[d].text
        /\ \/ /\ modem[d].part = Parts[m]
              /\ modem'[d].pc = "move" /\ modem'[d].success = 1
           \/ /\ modem[d].part # Parts[m]
              /\ modem'[d].pc = "initialize" /\ modem'[d].part = modem[d].part + 1
    BY <1>1, <1>2 DEF Sent, Slot
  <1>5. ASSUME m \notin excused PROVE MessageOnce(m)' /\ HolderOnce(d)'
    <2>1. /\ modem[d].text = "full" /\ modem[d].part <= Parts[m]
          /\ Len(aired[m]) + 1 = modem[d].part
          /\ copy[m].sent = "no" /\ copy[m].failed = "no"
      BY <1>1, <1>2, <1>5 DEF Once, Holders, HolderOnce, Sending, Holding
    <2>2. MessageOnce(m) /\ copy[m].outgoing = "no" /\ lock[m] = d /\ d # None /\ ~ NotFound(m)
      BY <1>1, <1>2, <1>5, OnceLocks DEF Once, Messages, Holding, NotFound
    <2>3. Parts[m] \in Nat /\ modem[d].part \in Nat /\ aired[m] \in Seq(Nat \X {"part", "full"})
      BY <1>2, OnceTypes DEF Slot
    <2>4. /\ Len(aired'[m]) = modem[d].part
          /\ \A i \in 1 .. Len(aired[m]) : aired'[m][i] = aired[m][i]
          /\ aired'[m][modem[d].part] = <<modem[d].part, "full">>
      BY <1>3, <2>1, <2>3
    <2>5. Filed(m)'
      BY <1>2, <2>1, <2>2, <2>3, <2>4 DEF Filed, MessageOnce
    <2>6. New(m)' /\ Queued(m)' /\ Copying(m)' /\ Nowhere(m)'
      BY <1>2, <2>2 DEF MessageOnce, New, Queued, Copying, Nowhere
    <2>7. HolderOnce(d)'
      BY <1>2, <1>4, <2>1, <2>3, <2>4 DEF HolderOnce, Sending
    <2> QED
      BY <2>5, <2>6, <2>7 DEF MessageOnce
  <1> QED
    BY <1>1, <1>2, <1>3, <1>4, <1>5, Elsewhere DEF Holding

(* The message of a lost answer is excused.                                *)
LEMMA AnswerLostOnce ==
  ASSUME Distinct, Once, NEW d \in Modem, AnswerLost(d)
  PROVE  Messages' /\ Holders'
  <1>1. PICK m \in Message : m = modem[d].m
    BY OnceTypes DEF AnswerLost
  <1>2. /\ modem[d] \in Slot /\ modem[d].pc = "command"
        /\ modem'[d] = NotOK(d) /\ \A e \in Modem \ {d} : modem'[e] = modem[e]
        /\ \A n \in Message \ {m} : aired'[n] = aired[n]
        /\ UNCHANGED <<copy, lock, main>> /\ excused' = excused \cup {m}
    BY <1>1, OnceTypes DEF AnswerLost, Step, Air
  <1>3. modem'[d].m = m
    BY <1>1, <1>2 DEF NotOK, Failed, Failing, Slot
  <1> QED
    BY <1>1, <1>2, <1>3, Elsewhere DEF Holding

(* A message goes to where its outcome is, and then leaves the queue.      *)
LEMMA MoveFileOnce ==
  ASSUME Distinct, Parts \in [Message -> Nat \ {0}], Once, NEW d \in Modem, MoveFile(d)
  PROVE  Messages' /\ Holders'
  <1>1. PICK m \in Message : m = modem[d].m
    BY OnceTypes DEF MoveFile
  <1>2. /\ modem[d] \in Slot /\ modem[d].pc = "move"
        /\ \A e \in Modem \ {d} : modem'[e] = modem[e]
        /\ UNCHANGED <<lock, main, aired, excused>>
    BY OnceTypes DEF MoveFile, Step
  <1>3. CASE copy[m].queue = "no"
    <2>1. UNCHANGED copy /\ modem'[d].pc = "moved" /\ modem'[d].m = m
      BY <1>1, <1>2, <1>3, OnceTypes DEF MoveFile, Step, Slot, Exists
    <2>2. HolderOnce(d)'
      BY <1>3, <2>1 DEF HolderOnce, Sending
    <2> QED
      BY <1>1, <1>2, <2>1, <2>2, StillKeeps
  <1>4. CASE copy[m].queue # "no"
    <2>1. /\ copy' = [copy EXCEPT ![m][Outcome(d)] = copy[m].queue]
          /\ modem'[d].pc = "moving" /\ modem'[d].m = m
      BY <1>1, <1>2, <1>4, OnceTypes DEF MoveFile, Step, Slot, Exists
    <2>2. /\ \A n \in Message \ {m} : copy'[n] = copy[n]
          /\ copy'[m].outgoing = copy[m].outgoing /\ copy'[m].queue = copy[m].queue
          /\ \/ /\ modem[d].success = 1 /\ copy'[m].sent # "no"
                /\ copy'[m].failed = copy[m].failed
             \/ /\ modem[d].success # 1 /\ copy'[m].failed # "no"
                /\ copy'[m].sent = copy[m].sent
      BY <1>4, <2>1, OnceTypes DEF Outcome, Directory
    <2>3. ASSUME m \notin excused PROVE MessageOnce(m)' /\ HolderOnce(d)'
      <3>1. modem[d].success = 1 <=> Len(aired[m]) = Parts[m]
        BY <1>1, <1>2, <1>4, <2>3 DEF Once, Holders, HolderOnce, Holding
      <3>2. MessageOnce(m) /\ copy[m].outgoing = "no" /\ lock[m] = d /\ d # None /\ ~ NotFound(m)
        BY <1>1, <1>2, <2>3, OnceLocks DEF Once, Messages, Holding, NotFound
      <3>3. Len(aired[m]) <= Parts[m] /\ Len(aired[m]) # Parts[m] => Len(aired[m]) < Parts[m]
        <4>1. Len(aired[m]) \in Nat /\ Parts[m] \in Nat
          BY OnceTypes
        <4> QED
          BY <3>2, <4>1 DEF MessageOnce, Filed
      <3>4. Filed(m)'
        BY <1>2, <2>2, <3>1, <3>2, <3>3 DEF Filed, MessageOnce
      <3>5. New(m)' /\ Queued(m)' /\ Copying(m)' /\ Nowhere(m)'
        BY <1>2, <1>4, <2>2, <3>2 DEF MessageOnce, New, Queued, Copying, Nowhere, Directory
      <3>6. HolderOnce(d)'
        BY <2>1, <2>2 DEF HolderOnce, Sending
      <3> QED
        BY <3>4, <3>5, <3>6 DEF MessageOnce
    <2> QED
      BY <1>1, <1>2, <2>1, <2>2, <2>3, Elsewhere DEF Holding
  <1> QED
    BY <1>3, <1>4

LEMMA RemoveFileOnce ==
  ASSUME Distinct, Once, NEW d \in Modem, RemoveFile(d)
  PROVE  Messages' /\ Holders'
  <1>1. PICK m \in Message : m = modem[d].m
    BY OnceTypes DEF RemoveFile
  <1>2. /\ modem[d] \in Slot /\ modem[d].pc = "moving"
        /\ \A e \in Modem \ {d} : modem'[e] = modem[e]
        /\ copy' = [copy EXCEPT ![m].queue = "no"]
        /\ modem'[d].pc = "moved" /\ modem'[d].m = m
        /\ UNCHANGED <<lock, main, aired, excused>>
    BY <1>1, OnceTypes DEF RemoveFile, Step, Slot
  <1>3. /\ \A n \in Message \ {m} : copy'[n] = copy[n]
        /\ copy'[m].queue = "no"
        /\ \A dir \in Directory \ {"queue"} : copy'[m][dir] = copy[m][dir]
    BY <1>2, OnceTypes DEF Directory
  <1>4. ASSUME m \notin excused PROVE MessageOnce(m)' /\ HolderOnce(d)'
    <2>1. copy[m].sent # "no" \/ copy[m].failed # "no"
      BY <1>1, <1>2, <1>4 DEF Once, Holders, HolderOnce, Holding
    <2>2. /\ MessageOnce(m) /\ copy[m].outgoing = "no"
          /\ lock[m] = d /\ d # None /\ d # Main /\ ~ NotFound(m)
      BY <1>1, <1>2, <1>4, OnceLocks DEF Once, Messages, Holding, NotFound
    <2>3. ~ ByMain(m)
      BY <1>4, <2>2, OnceLocks
    <2>4. New(m)' /\ Queued(m)' /\ Copying(m)'
      BY <1>2, <1>3, <2>2, <2>3 DEF MessageOnce, New, Queued, Copying, Directory, ByMain
    <2>5. Nowhere(m)' /\ Filed(m)'
      BY <1>2, <1>3, <2>1, <2>2 DEF MessageOnce, Nowhere, Filed, Directory
    <2>6. HolderOnce(d)'
      BY <1>2, <1>3 DEF HolderOnce, Sending
    <2> QED
      BY <2>4, <2>5, <2>6 DEF MessageOnce
  <1> QED
    BY <1>1, <1>2, <1>3, <1>4, Elsewhere DEF Holding

(* When the lock goes, the message has left the queue.                     *)
LEMMA UnlockFileOnce ==
  ASSUME Distinct, Once, NEW d \in Modem, UnlockFile(d)
  PROVE  Messages' /\ Holders'
  <1>1. PICK m \in Message : m = modem[d].m
    BY OnceTypes DEF UnlockFile
  <1>2. /\ modem[d].pc = "moved" /\ \A e \in Modem \ {d} : modem'[e] = modem[e]
        /\ lock' = [lock EXCEPT ![m] = None] /\ modem'[d].pc = "idle"
        /\ UNCHANGED <<copy, main, aired, excused>>
    BY <1>1, OnceTypes DEF UnlockFile, Step, Fresh
  <1>3. lock'[m] = None /\ \A n \in Message \ {m} : lock'[n] = lock[n]
    BY <1>2, OnceTypes
  <1>4. ASSUME m \notin excused PROVE MessageOnce(m)'
    <2>1. copy[m].queue = "no"
      BY <1>1, <1>2, <1>4 DEF Once, Holders, HolderOnce, Holding
    <2>2. MessageOnce(m) /\ copy[m].outgoing = "no" /\ ~ NotFound(m)
      BY <1>1, <1>2, <1>4, OnceLocks DEF Once, Messages, Holding, NotFound
    <2> QED
      BY <1>2, <2>1, <2>2 DEF MessageOnce, New, Queued, Copying, Nowhere, Filed
  <1> QED
    BY <1>1, <1>2, <1>3, <1>4, Elsewhere DEF Holding

-----------------------------------------------------------------------------
(* The main process, and who writes messages.  A message that the main     *)
(* process works on is in the outgoing directory: no modem has found it.   *)
LEMMA MainNew ==
  ASSUME Distinct, Once, main.pc \in {"check", "queue", "copying", "copied", "reject"},
         main.m \notin excused
  PROVE  /\ main.m \in Message /\ MessageOnce(main.m) /\ Untouched(main.m)
         /\ NotFound(main.m) /\ copy[main.m].outgoing = "full"
         /\ main.pc \in {"check", "queue", "reject"} =>
               lock[main.m] = None /\ copy[main.m].queue = "no"
  <1>1. main.m \in Message /\ copy[main.m].outgoing = "full"
    BY OnceTypes DEF Once, Moves, Original
  <1>2. MessageOnce(main.m)
    BY <1>1 DEF Once, Messages
  <1> QED
    BY <1>1, <1>2 DEF MessageOnce, New, ByMain

LEMMA MainElsewhere ==
  ASSUME Distinct, Once, NEW m \in Message,
         UNCHANGED <<modem, aired, excused>>,
         \/ main' = main
         \/ /\ main.m = m \/ main.pc \notin {"copying", "copied"}
            /\ main'.m = m \/ main'.pc \notin {"copying", "copied"},
         \A n \in Message \ {m} : copy'[n] = copy[n] /\ lock'[n] = lock[n],
         m \notin excused => NotFound(m) /\ MessageOnce(m)'
  PROVE  Messages' /\ Holders'
  <1>1. ASSUME NEW n \in Message \ excused, n # m PROVE MessageOnce(n)'
    <2>1. MessageOnce(n)
      BY <1>1 DEF Once, Messages
    <2>2. New(n)' /\ Nowhere(n)'
      BY <1>1, <2>1 DEF MessageOnce, New, Nowhere, Untouched, NotFound, ByMain
    <2>3. Queued(n)' /\ Copying(n)' /\ Filed(n)'
      BY <1>1, <2>1 DEF MessageOnce, Queued, Copying, Filed, Untouched
    <2> QED
      BY <2>2, <2>3 DEF MessageOnce
  <1>2. ASSUME NEW d \in Modem, modem[d].pc \in Holding, modem[d].m \notin excused
        PROVE  HolderOnce(d)'
    <2>1. HolderOnce(d)
      BY <1>2 DEF Once, Holders
    <2>2. modem[d].m \in Message /\ modem[d].m # m
      BY <1>2, OnceLocks DEF NotFound, Holding
    <2> QED
      BY <2>1, <2>2 DEF HolderOnce, Untouched
  <1> QED
    BY <1>1, <1>2 DEF Messages, Holders

(* The steps that write nothing.                                           *)
LEMMA MainLooking ==
  ASSUME Distinct, Once, UNCHANGED <<copy, lock, modem, aired, excused>>,
         \/ main' = main
         \/ main.pc \notin {"copying", "copied"} /\ main'.pc \notin {"copying", "copied"}
  PROVE  Messages' /\ Holders'
  <1>1. ASSUME NEW n \in Message \ excused PROVE MessageOnce(n)'
    <2>1. MessageOnce(n)
      BY <1>1 DEF Once, Messages
    <2>2. New(n)' /\ Nowhere(n)'
      BY <2>1 DEF MessageOnce, New, Nowhere, Untouched, NotFound, ByMain
    <2>3. Queued(n)' /\ Copying(n)' /\ Filed(n)'
      BY <2>1 DEF MessageOnce, Queued, Copying, Filed, Untouched
    <2> QED
      BY <2>2, <2>3 DEF MessageOnce
  <1>2. ASSUME NEW d \in Modem, modem[d].pc \in Holding, modem[d].m \notin excused
        PROVE  HolderOnce(d)'
    BY <1>2 DEF Once, Holders, HolderOnce, Untouched
  <1> QED
    BY <1>1, <1>2 DEF Messages, Holders

LEMMA MainLookingOnce ==
  ASSUME Distinct, Once,
         \/ \E m \in Message : Pick(m)
         \/ Check \/ LeaveSpooler \/ AwaitTermination \/ SignalTerm
  PROVE  Messages' /\ Holders'
  <1>1. /\ UNCHANGED <<copy, lock, modem, aired, excused>>
        /\ \/ main' = main
           \/ main.pc \notin {"copying", "copied"} /\ main'.pc \notin {"copying", "copied"}
    BY OnceTypes DEF Pick, Check, LeaveSpooler, AwaitTermination, SignalTerm, MainSlot
  <1> QED
    BY <1>1, MainLooking

(* A new message: there was nothing of it.                                 *)
LEMMA SubmitOnce ==
  ASSUME Distinct, Once, NEW m \in Message, Submit(m)
  PROVE  Messages' /\ Holders'
  <1>1. /\ \A dir \in Directory : copy[m][dir] = "no"
        /\ copy' = [copy EXCEPT ![m].outgoing = "full"]
        /\ UNCHANGED <<lock, main, modem, aired, excused>>
    BY DEF Submit, Exists
  <1>2. /\ \A n \in Message \ {m} : copy'[n] = copy[n]
        /\ copy'[m].outgoing = "full"
        /\ \A dir \in Directory \ {"outgoing"} : copy'[m][dir] = "no"
    BY <1>1, OnceTypes DEF Directory
  <1>3. main.m = m => main.pc \notin {"copying", "copied"}
    BY <1>1 DEF Once, Moves, Original, Directory
  <1>4. ASSUME m \notin excused PROVE NotFound(m) /\ MessageOnce(m)'
    <2>1. MessageOnce(m)
      BY <1>4 DEF Once, Messages
    <2>2. aired[m] = <<>> /\ lock[m] = None /\ NotFound(m)
      BY <1>1, <2>1 DEF MessageOnce, Nowhere
    <2>3. New(m)' /\ Queued(m)' /\ Copying(m)' /\ Nowhere(m)'
      BY <1>1, <1>2, <1>3, <2>2
         DEF New, Queued, Copying, Nowhere, Untouched, NotFound, ByMain, Directory
    <2>4. Filed(m)'
      BY <1>1, <1>2, <2>1 DEF MessageOnce, Filed, Directory
    <2> QED
      BY <2>2, <2>3, <2>4 DEF MessageOnce
  <1> QED
    BY <1>1, <1>2, <1>4, MainElsewhere

LEMMA CheckhandlerMovesOnce ==
  ASSUME Distinct, Once, CheckhandlerMoves
  PROVE  Messages' /\ Holders'
  <1>1. PICK m \in Message : m = main.m
    BY OnceTypes DEF CheckhandlerMoves
  <1>2. /\ main.pc = "check" /\ main' = Waiting
        /\ copy' = [copy EXCEPT ![m].outgoing = "no", ![m].queue = "full"]
        /\ UNCHANGED <<lock, modem, aired, excused>>
    BY <1>1 DEF CheckhandlerMoves
  <1>3. /\ \A n \in Message \ {m} : copy'[n] = copy[n]
        /\ copy'[m].outgoing = "no" /\ copy'[m].queue = "full"
        /\ copy'[m].sent = copy[m].sent /\ copy'[m].failed = copy[m].failed
    BY <1>2, OnceTypes DEF Directory
  <1>4. ASSUME m \notin excused PROVE NotFound(m) /\ MessageOnce(m)'
    <2>1. MessageOnce(m) /\ Untouched(m) /\ NotFound(m)
      BY <1>1, <1>2, <1>4, MainNew
    <2> QED
      BY <1>2, <1>3, <2>1
         DEF MessageOnce, New, Queued, Copying, Nowhere, Filed, Untouched, Waiting, Directory
  <1> QED
    BY <1>1, <1>2, <1>3, <1>4, MainElsewhere DEF Waiting

LEMMA LockQueueOnce ==
  ASSUME Distinct, Once, LockQueue
  PROVE  Messages' /\ Holders'
  <1>1. PICK m \in Message : m = main.m
    BY OnceTypes DEF LockQueue
  <1>2. main.pc = "queue" /\ UNCHANGED <<modem, aired, excused>>
    BY DEF LockQueue
  <1>3. CASE lock[m] # None
    <2>1. UNCHANGED <<lock, copy>> /\ main'.pc \in {"queue", "ended"}
      BY <1>1, <1>2, <1>3, OnceTypes DEF LockQueue, MainSlot
    <2> QED
      BY <1>2, <2>1, MainLooking
  <1>4. CASE lock[m] = None
    <2>1. /\ lock' = [lock EXCEPT ![m] = Main]
          /\ copy' = [copy EXCEPT ![m].queue = "part"]
          /\ main'.pc = "copying" /\ main'.m = m
      BY <1>1, <1>4, OnceTypes DEF LockQueue, MainSlot
    <2>2. /\ \A n \in Message \ {m} : copy'[n] = copy[n] /\ lock'[n] = lock[n]
          /\ copy'[m].queue = "part" /\ lock'[m] = Main
          /\ copy'[m].sent = copy[m].sent /\ copy'[m].failed = copy[m].failed
      BY <2>1, OnceTypes DEF Directory
    <2>3. ASSUME m \notin excused PROVE NotFound(m) /\ MessageOnce(m)'
      <3>1. MessageOnce(m) /\ Untouched(m) /\ NotFound(m)
        BY <1>1, <1>2, <2>3, MainNew
      <3>2. Main # None
        BY DEF Distinct, Process
      <3> QED
        BY <1>2, <2>1, <2>2, <3>1, <3>2
           DEF MessageOnce, New, Queued, Copying, Nowhere, Filed, Untouched, NotFound, ByMain,
               Directory
    <2> QED
      BY <1>1, <1>2, <2>1, <2>2, <2>3, MainElsewhere
  <1> QED
    BY <1>3, <1>4

LEMMA CopyOnce ==
  ASSUME Distinct, Once, Copy
  PROVE  Messages' /\ Holders'
  <1>1. PICK m \in Message : m = main.m
    BY OnceTypes DEF Copy
  <1>2. /\ main.pc = "copying" /\ main'.pc = "copied" /\ main'.m = m
        /\ copy' = [copy EXCEPT ![m].queue = "full"]
        /\ UNCHANGED <<lock, modem, aired, excused>>
    BY <1>1, OnceTypes DEF Copy, MainSlot
  <1>3. /\ \A n \in Message \ {m} : copy'[n] = copy[n]
        /\ copy'[m].queue = "full"
        /\ copy'[m].sent = copy[m].sent /\ copy'[m].failed = copy[m].failed
    BY <1>2, OnceTypes DEF Directory
  <1>4. ASSUME m \notin excused PROVE NotFound(m) /\ MessageOnce(m)'
    <2>1. MessageOnce(m) /\ Untouched(m) /\ NotFound(m)
      BY <1>1, <1>2, <1>4, MainNew
    <2> QED
      BY <1>2, <1>3, <2>1
         DEF MessageOnce, New, Queued, Copying, Nowhere, Filed, Untouched, NotFound, ByMain,
             Directory
  <1> QED
    BY <1>1, <1>2, <1>3, <1>4, MainElsewhere

LEMMA RemoveOriginalOnce ==
  ASSUME Distinct, Once, RemoveOriginal
  PROVE  Messages' /\ Holders'
  <1>1. PICK m \in Message : m = main.m
    BY OnceTypes DEF RemoveOriginal
  <1>2. /\ main.pc = "copied" /\ main' = Waiting
        /\ copy' = [copy EXCEPT ![m].outgoing = "no"]
        /\ lock' = [lock EXCEPT ![m] = None]
        /\ UNCHANGED <<modem, aired, excused>>
    BY <1>1 DEF RemoveOriginal
  <1>3. /\ \A n \in Message \ {m} : copy'[n] = copy[n] /\ lock'[n] = lock[n]
        /\ copy'[m].outgoing = "no"
        /\ \A dir \in Directory \ {"outgoing"} : copy'[m][dir] = copy[m][dir]
    BY <1>2, OnceTypes DEF Directory
  <1>4. ASSUME m \notin excused PROVE NotFound(m) /\ MessageOnce(m)'
    <2>1. MessageOnce(m) /\ Untouched(m) /\ NotFound(m)
      BY <1>1, <1>2, <1>4, MainNew
    <2>2. copy'[m].queue = "full"
      BY <1>1, <1>2, <1>3, <2>1 DEF MessageOnce, Copying, Directory
    <2> QED
      BY <1>2, <1>3, <2>1, <2>2
         DEF MessageOnce, New, Queued, Copying, Nowhere, Filed, Untouched, Waiting, Directory
  <1> QED
    BY <1>1, <1>2, <1>3, <1>4, MainElsewhere DEF Waiting

(* A message that is rejected has parts, and none was sent.                *)
LEMMA RejectOnce ==
  ASSUME Distinct, Parts \in [Message -> Nat \ {0}], Once, Reject
  PROVE  Messages' /\ Holders'
  <1>1. PICK m \in Message : m = main.m
    BY OnceTypes DEF Reject
  <1>2. /\ main.pc = "reject" /\ main' = Waiting
        /\ copy' = [copy EXCEPT ![m].outgoing = "no", ![m].failed = "full"]
        /\ UNCHANGED <<lock, modem, aired, excused>>
    BY <1>1 DEF Reject
  <1>3. /\ \A n \in Message \ {m} : copy'[n] = copy[n]
        /\ copy'[m].outgoing = "no" /\ copy'[m].failed = "full"
        /\ copy'[m].queue = copy[m].queue /\ copy'[m].sent = copy[m].sent
    BY <1>2, OnceTypes DEF Directory
  <1>4. ASSUME m \notin excused PROVE NotFound(m) /\ MessageOnce(m)'
    <2>1. /\ MessageOnce(m) /\ Untouched(m) /\ NotFound(m)
          /\ lock[m] = None /\ copy[m].queue = "no"
      BY <1>1, <1>2, <1>4, MainNew
    <2>2. Len(aired[m]) = 0 /\ Parts[m] \in Nat \ {0}
      BY <2>1 DEF Untouched
    <2>3. Filed(m)'
      BY <1>2, <1>3, <2>1, <2>2 DEF Filed, MessageOnce, Untouched
    <2> QED
      BY <1>2, <1>3, <2>1, <2>3
         DEF MessageOnce, New, Queued, Copying, Nowhere, Waiting, Directory
  <1> QED
    BY <1>1, <1>2, <1>3, <1>4, MainElsewhere DEF Waiting

-----------------------------------------------------------------------------
(* What was locked is excused when smsd dies or starts; of the rest, the   *)
(* lock files and the processes say nothing.                               *)
LEMMA Unlocked ==
  ASSUME Distinct, Once, NEW m \in Message \ excused, lock[m] = None
  PROVE  MessageOnce(m) /\ ~ ByMain(m) /\ copy[m].queue # "part"
  <1>1. MessageOnce(m) /\ ~ ByMain(m)
    BY OnceLocks DEF Once, Messages
  <1> QED
    BY <1>1 DEF MessageOnce, Copying, ByMain

LEMMA KillOnce ==
  ASSUME Distinct, Once, Kill
  PROVE  Messages' /\ Holders'
  <1>1. /\ main'.pc = "ended" /\ \A d \in Modem : modem'[d].pc = "ended"
        /\ UNCHANGED <<copy, lock, aired>>
        /\ excused' = excused \cup {m \in Message : lock[m] # None}
    BY DEF Kill, Waiting, Fresh
  <1>2. ASSUME NEW m \in Message \ excused' PROVE MessageOnce(m)'
    <2>1. lock[m] = None /\ m \notin excused
      BY <1>1, <1>2
    <2>2. MessageOnce(m) /\ ~ ByMain(m) /\ copy[m].queue # "part"
      BY <2>1, Unlocked
    <2> QED
      BY <1>1, <2>1, <2>2
         DEF MessageOnce, New, Queued, Copying, Nowhere, Filed, Untouched, NotFound, ByMain
  <1>3. Holders'
    BY <1>1 DEF Holders, Holding
  <1> QED
    BY <1>2, <1>3 DEF Messages

LEMMA StartOnce ==
  ASSUME Distinct, Once, Start
  PROVE  Messages' /\ Holders'
  <1>1. /\ main'.pc = "idle" /\ \A d \in Modem : modem'[d].pc = "idle" \/ modem'[d] = modem[d]
        /\ UNCHANGED <<copy, aired>>
        /\ \A m \in Message : lock'[m] = None
        /\ excused' = excused \cup {m \in Message : lock[m] # None}
    BY DEF Start, Waiting, Fresh
  <1>2. ASSUME NEW m \in Message \ excused' PROVE MessageOnce(m)'
    <2>1. lock[m] = None /\ m \notin excused
      BY <1>1, <1>2
    <2>2. MessageOnce(m) /\ ~ ByMain(m) /\ copy[m].queue # "part"
      BY <2>1, Unlocked
    <2>3. NotFound(m) => NotFound(m)'
      BY <1>1 DEF NotFound
    <2> QED
      BY <1>1, <2>1, <2>2, <2>3
         DEF MessageOnce, New, Queued, Copying, Nowhere, Filed, Untouched, ByMain
  <1>3. ASSUME NEW d \in Modem, modem'[d].pc \in Holding PROVE modem'[d].m \in excused'
    <2>1. modem'[d] = modem[d]
      BY <1>1, <1>3 DEF Holding
    <2>2. modem[d].m \notin excused =>
             modem[d].m \in Message /\ lock[modem[d].m] = d /\ d # None
      BY <1>3, <2>1, OnceLocks
    <2> QED
      BY <1>1, <2>1, <2>2
  <1> QED
    BY <1>2, <1>3 DEF Messages, Holders

LEMMA InitOnce ==
  ASSUME RETRIES \in Nat, Parts \in [Message -> Nat \ {0}]
  PROVE  Init => Once
  <1> SUFFICES ASSUME Init
               PROVE  Once
    OBVIOUS
  <1>1. Moves
    BY InitMoves
  <1>2. Holders
    BY DEF Init, Fresh, Holders, Holding
  <1>3. ASSUME NEW m \in Message PROVE MessageOnce(m)
    <2>1. /\ \A dir \in Directory : copy[m][dir] = "no"
          /\ lock[m] = None /\ aired[m] = <<>> /\ main.pc = "idle" /\ NotFound(m)
      BY DEF Init, Waiting, Fresh, NotFound
    <2>2. Len(aired[m]) = 0 /\ Parts[m] \in Nat
      BY <2>1
    <2> QED
      BY <2>1, <2>2 DEF MessageOnce, New, Queued, Copying, Nowhere, Filed, Directory
  <1> QED
    BY <1>1, <1>2, <1>3 DEF Once, Messages

LEMMA NextOnce ==
  ASSUME RETRIES \in Nat, Distinct, Parts \in [Message -> Nat \ {0}], Once, [Next]_vars
  PROVE  Once'
  <1>0. Moves'
    BY NextMoves DEF Once
  <1> SUFFICES Messages' /\ Holders'
    BY <1>0 DEF Once
  <1>1. CASE MainStep
    BY <1>1, MainLookingOnce, LockQueueOnce, CopyOnce, RemoveOriginalOnce, RejectOnce
       DEF MainStep
  <1>2. ASSUME NEW d \in Modem, ModemStep(d) PROVE Messages' /\ Holders'
    BY <1>2, LookingOnce, WaitingOnce, LockFileOnce, ReadFileOnce, PartSentOnce, MoveFileOnce,
       RemoveFileOnce, UnlockFileOnce DEF ModemStep
  <1>3. CASE Fault
    <2>1. CASE CheckhandlerMoves \/ SignalTerm \/ Kill \/ Start
      BY <2>1, CheckhandlerMovesOnce, MainLookingOnce, KillOnce, StartOnce
    <2>2. ASSUME NEW d \in Modem,
                 \/ InitializationFails(d) \/ AbnormalTermination(d)
                 \/ PartRefused(d) \/ AnswerLost(d) \/ OpenFails(d)
          PROVE  Messages' /\ Holders'
      BY <2>2, WaitingOnce, AnswerLostOnce, LookingOnce
    <2> QED
      BY <1>3, <2>1, <2>2 DEF Fault
  <1>4. ASSUME NEW m \in Message, Submit(m) PROVE Messages' /\ Holders'
    BY <1>4, SubmitOnce
  <1>5. CASE UNCHANGED vars
    BY <1>5, MainLooking DEF vars
  <1> QED
    BY <1>1, <1>2, <1>3, <1>4, <1>5 DEF Next

-----------------------------------------------------------------------------
(* smsd.c, send1sms and its callers: of a message whose answers were not   *)
(* lost, and that smsd did not die at work on, the network gets each part  *)
(* once, whole and in order, on whichever modems and after whichever tries *)
(* and starts; it is filed in sent when it got all of them, and in failed  *)
(* when it did not.                                                        *)
THEOREM PartsSentOnce ==
  ASSUME RETRIES \in Nat, Distinct, Parts \in [Message -> Nat \ {0}]
  PROVE  Spec => []SentOnce
  <1>1. Init => Once
    BY InitOnce
  <1>2. Once /\ [Next]_vars => Once'
    BY NextOnce
  <1>3. Once => SentOnce
    BY DEF Once, Messages, MessageOnce, Filed, SentOnce, PartsOnce, OutcomeTrue
  <1> QED
    BY <1>1, <1>2, <1>3, PTL DEF Spec
=============================================================================
