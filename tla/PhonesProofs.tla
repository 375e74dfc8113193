---------------------------- MODULE PhonesProofs ----------------------------
(* Proofs about the modem process and receiving: a wrong PIN is entered     *)
(* once, a part of a message goes to a modem that is ready for it, what the *)
(* modem received is not lost until it is whole in a file, each missed call *)
(* is reported once, and a message sent in parts is read as it was sent.    *)
EXTENDS Phones, SublistProofs, FiniteSetTheorems, SequenceTheorems, TLAPS

-----------------------------------------------------------------------------
(* The modem process.  Its type invariant, with the ranges of the numbers   *)
(* apart from the records they are in; what the tries are bounded by; and   *)
(* that a SIM asks for the PIN as long as a try is left.                    *)
ModemState == [on : BOOLEAN, locks : BOOLEAN, sim : {"READY", "PIN", "PUK"}, left : Int,
               net : {"registered", "denied", "no"}, mode : {"pdu", "text"}]

SimOK(d) ==
    /\ d \in ModemState
    /\ d.left \in 0 .. 3
    /\ d.sim # "PUK" => d.left # 0

ProgPc == {"idle", "AT", "SUB", "REOPEN", "CPIN?", "CPIN=", "CPIN again", "INIT", "CREG",
           "CMGF", "CSCA", "DETAILS", "READ", "CMGS", "PDU", "sleep", "ended"}

ProgState == [pc : ProgPc, for : {"send", "receive", "retry", "look"}, try : Int,
              denied : Int, retries : Int]

Before == {"AT", "SUB", "REOPEN", "CPIN?", "CPIN=", "CPIN again", "INIT"}

ProgOK(p) ==
    /\ p \in ProgState
    /\ p.try \in 0 .. TRIES + WAIT /\ p.denied \in 0 .. WAIT /\ p.retries \in 0 .. 2
    /\ p.pc \in {"AT", "SUB", "REOPEN"} => p.try \in 1 .. TRIES
    /\ p.pc = "CREG" => p.try \in 1 .. WAIT /\ p.denied < p.try
    /\ p.pc \in Before => p.denied = 0

ConfigOK ==
    /\ config \in [pin : Pins \cup {"ignore"}, check_network : Int, registered : BOOLEAN]
    /\ config.check_network \in 0 .. 2

ModemType ==
    /\ mport \in {"open", "closed"}
    /\ SimOK(mdev) /\ ProgOK(mprog) /\ ConfigOK
    /\ answer \in SUBSET M!Word /\ quick \in {0, 1}
    /\ mterm \in BOOLEAN /\ doubt \in BOOLEAN

(* Every step of the program is one of these.                               *)
LEMMA IdleOK == M!Idle \in ProgState /\ ProgOK(M!Idle)
  <1>1. 0 \in Int /\ 0 \in 0 .. 2 /\ 0 \in 0 .. WAIT /\ 0 \in 0 .. TRIES + WAIT
    BY ModemAssumption
  <1>2. M!Idle \in ProgState  BY <1>1, Zenon DEF M!Idle, ProgState, ProgPc
  <1> QED  BY <1>1, <1>2 DEF M!Idle, ProgOK, Before

LEMMA GoOK ==
  ASSUME NEW p, ProgOK(p), NEW c \in ProgPc \ {"AT", "SUB", "REOPEN"},
         p.pc \in Before \/ c \notin Before \cup {"CREG"}
  PROVE  ProgOK([p EXCEPT !.pc = c, !.try = 1])
  <1> DEFINE q == [p EXCEPT !.pc = c, !.try = 1]
  <1>1. /\ 1 \in Int /\ 1 \in 0 .. TRIES + WAIT /\ 1 \in 1 .. WAIT
        /\ c \in Before \cup {"CREG"} => p.denied = 0 /\ p.denied < 1
    BY ModemAssumption DEF ProgOK, ProgState
  <1>2. q \in ProgState  BY <1>1, Zenon DEF ProgOK, ProgState, ProgPc
  <1>3. /\ q.pc = c /\ q.for = p.for /\ q.try = 1
        /\ q.denied = p.denied /\ q.retries = p.retries
    BY Zenon DEF ProgOK, ProgState
  <1> HIDE DEF q
  <1>4. ProgOK(q)  BY <1>1, <1>2, <1>3 DEF ProgOK
  <1> QED  BY <1>4 DEF q

(* The same try, at another place.                                          *)
LEMMA MovedOK ==
  ASSUME NEW p, ProgOK(p), NEW c \in ProgPc \ {"CREG"},
         c \in {"AT", "SUB", "REOPEN"} => p.pc \in {"AT", "SUB", "REOPEN"},
         p.pc \in Before \/ c \notin Before
  PROVE  ProgOK([p EXCEPT !.pc = c])
  <1> DEFINE q == [p EXCEPT !.pc = c]
  <1>1. p.try \in Int
    BY ModemAssumption DEF ProgOK, ProgState
  <1>2. q \in ProgState  BY <1>1, Zenon DEF ProgOK, ProgState, ProgPc
  <1>3. /\ q.pc = c /\ q.for = p.for /\ q.try = p.try
        /\ q.denied = p.denied /\ q.retries = p.retries
    BY Zenon DEF ProgOK, ProgState
  <1> HIDE DEF q
  <1>4. ProgOK(q)  BY <1>1, <1>2, <1>3 DEF ProgOK
  <1> QED  BY <1>4 DEF q

LEMMA NextTryOK ==
  ASSUME NEW p, ProgOK(p), p.pc \in {"AT", "SUB", "REOPEN"}, p.try < TRIES
  PROVE  ProgOK([p EXCEPT !.pc = "AT", !.try = p.try + 1])
  <1> DEFINE q == [p EXCEPT !.pc = "AT", !.try = p.try + 1]
  <1>1. p.try + 1 \in Int /\ p.try + 1 \in 1 .. TRIES /\ p.try + 1 \in 0 .. TRIES + WAIT
    BY ModemAssumption DEF ProgOK, ProgState
  <1>2. q \in ProgState  BY <1>1, Zenon DEF ProgOK, ProgState, ProgPc
  <1>3. /\ q.pc = "AT" /\ q.for = p.for /\ q.try = p.try + 1
        /\ q.denied = p.denied /\ q.retries = p.retries
    BY Zenon DEF ProgOK, ProgState
  <1> HIDE DEF q
  <1>4. ProgOK(q)  BY <1>1, <1>2, <1>3 DEF ProgOK, Before
  <1> QED  BY <1>4 DEF q

LEMMA SecondTryOK ==
  ASSUME NEW p, ProgOK(p), p.pc \in {"INIT", "CMGF", "CSCA"}
  PROVE  ProgOK([p EXCEPT !.try = 2])
  <1> DEFINE q == [p EXCEPT !.try = 2]
  <1>1. 2 \in Int /\ 2 \in 0 .. TRIES + WAIT
    BY ModemAssumption DEF ProgOK, ProgState
  <1>2. q \in ProgState  BY <1>1, Zenon DEF ProgOK, ProgState, ProgPc
  <1>3. /\ q.pc = p.pc /\ q.for = p.for /\ q.try = 2
        /\ q.denied = p.denied /\ q.retries = p.retries
    BY Zenon DEF ProgOK, ProgState
  <1> HIDE DEF q
  <1>4. ProgOK(q)  BY <1>1, <1>2, <1>3 DEF ProgOK
  <1> QED  BY <1>4 DEF q

LEMMA WaitOK ==
  ASSUME NEW p, ProgOK(p), p.pc = "CREG", p.try # WAIT,
         NEW n, n \in {p.denied, p.denied + 1}
  PROVE  ProgOK([p EXCEPT !.try = p.try + 1, !.denied = n])
  <1> DEFINE q == [p EXCEPT !.try = p.try + 1, !.denied = n]
  <1>1. /\ p.try + 1 \in Int /\ p.try + 1 \in 1 .. WAIT /\ p.try + 1 \in 0 .. TRIES + WAIT
        /\ n \in Int /\ n \in 0 .. WAIT /\ n < p.try + 1
    BY ModemAssumption DEF ProgOK, ProgState
  <1>2. q \in ProgState  BY <1>1, Zenon DEF ProgOK, ProgState, ProgPc
  <1>3. /\ q.pc = p.pc /\ q.for = p.for /\ q.try = p.try + 1
        /\ q.denied = n /\ q.retries = p.retries
    BY Zenon DEF ProgOK, ProgState
  <1> HIDE DEF q
  <1>4. ProgOK(q)  BY <1>1, <1>2, <1>3 DEF ProgOK, Before
  <1> QED  BY <1>4 DEF q

LEMMA SleepOK ==
  ASSUME NEW p, ProgOK(p), p.retries # 2
  PROVE  ProgOK([p EXCEPT !.pc = "sleep", !.retries = p.retries + 1])
  <1> DEFINE q == [p EXCEPT !.pc = "sleep", !.retries = p.retries + 1]
  <1>1. p.retries + 1 \in Int /\ p.retries + 1 \in 0 .. 2
    BY ModemAssumption DEF ProgOK, ProgState
  <1>2. q \in ProgState  BY <1>1, Zenon DEF ProgOK, ProgState, ProgPc
  <1>3. /\ q.pc = "sleep" /\ q.for = p.for /\ q.try = p.try
        /\ q.denied = p.denied /\ q.retries = p.retries + 1
    BY Zenon DEF ProgOK, ProgState
  <1> HIDE DEF q
  <1>4. ProgOK(q)  BY <1>1, <1>2, <1>3 DEF ProgOK, Before
  <1> QED  BY <1>4 DEF q

LEMMA ReadyOK ==
  ASSUME NEW p, ProgOK(p), NEW c \in {"READ", "CMGS"}
  PROVE  ProgOK([p EXCEPT !.pc = c, !.try = 0])
  <1> DEFINE q == [p EXCEPT !.pc = c, !.try = 0]
  <1>1. 0 \in Int /\ 0 \in 0 .. TRIES + WAIT
    BY ModemAssumption DEF ProgOK, ProgState
  <1>2. q \in ProgState  BY <1>1, Zenon DEF ProgOK, ProgState, ProgPc
  <1>3. /\ q.pc = c /\ q.for = p.for /\ q.try = 0
        /\ q.denied = p.denied /\ q.retries = p.retries
    BY Zenon DEF ProgOK, ProgState
  <1> HIDE DEF q
  <1>4. ProgOK(q)  BY <1>1, <1>2, <1>3 DEF ProgOK, Before
  <1> QED  BY <1>4 DEF q

(* initmodem begins.                                                        *)
LEMMA InitmodemOK ==
  ASSUME NEW p, p = M!Idle, NEW f \in {"send", "receive", "retry", "look"}, NEW k \in 0 .. 2
  PROVE  ProgOK([p EXCEPT !.pc = "AT", !.for = f, !.try = 1, !.retries = k])
  <1> DEFINE q == [p EXCEPT !.pc = "AT", !.for = f, !.try = 1, !.retries = k]
  <1>1. /\ p \in ProgState /\ ProgOK(p) /\ p.denied = 0 /\ k \in Int
        /\ 1 \in Int /\ 1 \in 1 .. TRIES /\ 1 \in 0 .. TRIES + WAIT
    BY ModemAssumption, IdleOK DEF M!Idle
  <1>2. q \in ProgState  BY <1>1, Zenon DEF ProgOK, ProgState, ProgPc
  <1>3. /\ q.pc = "AT" /\ q.for = f /\ q.try = 1
        /\ q.denied = 0 /\ q.retries = k
    BY <1>1, Zenon DEF ProgOK, ProgState
  <1> HIDE DEF q
  <1>4. ProgOK(q)  BY <1>1, <1>2, <1>3 DEF ProgOK
  <1> QED  BY <1>4 DEF q

(* The look at the network, or nothing of it.                               *)
LEMMA LookOK ==
  ASSUME NEW p, p = M!Idle
  PROVE  ProgOK([p EXCEPT !.pc = "CREG", !.for = "look", !.try = 1])
  <1> DEFINE q == [p EXCEPT !.pc = "CREG", !.for = "look", !.try = 1]
  <1>1. /\ p \in ProgState /\ ProgOK(p) /\ p.denied = 0 /\ 0 < 1
        /\ 1 \in Int /\ 1 \in 1 .. WAIT /\ 1 \in 0 .. TRIES + WAIT
    BY ModemAssumption, IdleOK DEF M!Idle
  <1>2. q \in ProgState  BY <1>1, Zenon DEF ProgOK, ProgState, ProgPc
  <1>3. /\ q.pc = "CREG" /\ q.for = "look" /\ q.try = 1
        /\ q.denied = 0 /\ q.retries = p.retries
    BY <1>1, Zenon DEF ProgOK, ProgState
  <1> HIDE DEF q
  <1>4. ProgOK(q)  BY <1>1, <1>2, <1>3 DEF ProgOK, Before
  <1> QED  BY <1>4 DEF q

LEMMA ReceiveOK ==
  ASSUME NEW p, p = M!Idle
  PROVE  ProgOK([p EXCEPT !.pc = "READ", !.for = "receive"])
  <1> DEFINE q == [p EXCEPT !.pc = "READ", !.for = "receive"]
  <1>1. p \in ProgState /\ ProgOK(p)
    BY IdleOK
  <1>2. q \in ProgState  BY <1>1, Zenon DEF ProgOK, ProgState, ProgPc
  <1>3. /\ q.pc = "READ" /\ q.for = "receive" /\ q.try = p.try
        /\ q.denied = p.denied /\ q.retries = p.retries
    BY <1>1, Zenon DEF ProgOK, ProgState
  <1> HIDE DEF q
  <1>4. ProgOK(q)  BY <1>1, <1>2, <1>3 DEF ProgOK, Before
  <1> QED  BY <1>4 DEF q

LEMMA ModemTypeInit == M!Init => ModemType
  <1> SUFFICES ASSUME M!Init PROVE ModemType
    OBVIOUS
  <1>1. SimOK(mdev)
    <2>1. 3 \in Int /\ 3 \in 0 .. 3 /\ 3 # 0  OBVIOUS
    <2> QED  BY <2>1, Zenon DEF M!Init, ModemState, SimOK
  <1>2. ProgOK(mprog)  BY IdleOK DEF M!Init
  <1>3. ConfigOK
    <2>1. NetworkChecks \subseteq Int /\ NetworkChecks \subseteq 0 .. 2  BY ModemAssumption
    <2> QED  BY <2>1, Zenon DEF M!Init, ConfigOK
  <1> QED  BY <1>1, <1>2, <1>3 DEF M!Init, ModemType

(* Entering the PIN is all that a command does to the SIM, and it takes one *)
(* try at most.                                                             *)
LEMMA PinEffect ==
  ASSUME ModemType
  PROVE  /\ SimOK(M!EnterPin)
         /\ M!EnterPin.left < mdev.left => M!EnterPin.sim # "READY"
         /\ M!EnterPin.on = mdev.on /\ M!EnterPin.net = mdev.net
         /\ M!EnterPin.mode = mdev.mode
         /\ mdev.sim = "READY" => M!EnterPin = mdev
  <1>1. SimOK(mdev)  BY DEF ModemType
  <1>2. CASE mdev.sim # "PIN"  BY <1>1, <1>2 DEF M!EnterPin, SimOK
  <1>3. CASE mdev.sim = "PIN" /\ config.pin = "right"
    <2>1. M!EnterPin = [mdev EXCEPT !.sim = "READY", !.left = 3]
      BY <1>3 DEF M!EnterPin
    <2>2. 3 \in Int  OBVIOUS
    <2>3. /\ M!EnterPin \in ModemState /\ M!EnterPin.left = 3 /\ M!EnterPin.on = mdev.on
          /\ M!EnterPin.net = mdev.net /\ M!EnterPin.mode = mdev.mode
      BY <1>1, <2>1, <2>2, Zenon DEF SimOK, ModemState
    <2> QED  BY <1>1, <1>3, <2>3 DEF SimOK
  <1>4. CASE mdev.sim = "PIN" /\ config.pin # "right"
    <2> DEFINE s == IF mdev.left = 1 THEN "PUK" ELSE "PIN"
    <2>1. M!EnterPin = [mdev EXCEPT !.left = mdev.left - 1, !.sim = s]
      BY <1>4 DEF M!EnterPin
    <2>2. mdev.left - 1 \in Int /\ mdev.left - 1 \in 0 .. 3  BY <1>1, <1>4 DEF SimOK
    <2>3. s \in {"READY", "PIN", "PUK"}  OBVIOUS
    <2>4. /\ M!EnterPin \in ModemState /\ M!EnterPin.left = mdev.left - 1
          /\ M!EnterPin.sim = s /\ M!EnterPin.on = mdev.on
          /\ M!EnterPin.net = mdev.net /\ M!EnterPin.mode = mdev.mode
      <3> HIDE DEF s
      <3> QED  BY <1>1, <2>1, <2>2, <2>3, Zenon DEF SimOK, ModemState
    <2> QED  BY <1>1, <1>4, <2>2, <2>4 DEF SimOK
  <1> QED  BY <1>2, <1>3, <1>4

(* What comes of a command: the modem has executed it or is as it was, and  *)
(* a command that has used up a try of the PIN is not answered READY.       *)
Outcomes == M!put_command(mprog.pc) \cup M!Fails(mprog.pc)

LEMMA Executed ==
  ASSUME ModemType, NEW c
  PROVE  /\ SimOK(M!Execute(c))
         /\ c # "CPIN=" => M!Execute(c).sim = mdev.sim /\ M!Execute(c).left = mdev.left
         /\ M!Execute(c).left < mdev.left => M!Execute(c).sim # "READY"
         /\ M!Execute(c).on = mdev.on /\ M!Execute(c).net = mdev.net
         /\ M!Execute(c).mode \in {mdev.mode, "pdu"}
         /\ mdev.sim = "READY" => M!Execute(c).sim = "READY"
         /\ c = "CMGF" => M!Execute(c).mode = "pdu"
         /\ c \notin {"CMGF", "CPIN="} => M!Execute(c) = mdev
  <1>1. SimOK(mdev)  BY DEF ModemType
  <1>2. CASE c = "CPIN="  BY <1>2, PinEffect DEF M!Execute
  <1>3. CASE c = "CMGF"
    <2>1. M!Execute(c) = [mdev EXCEPT !.mode = "pdu"]  BY <1>3 DEF M!Execute
    <2>2. /\ M!Execute(c) \in ModemState /\ M!Execute(c).mode = "pdu"
          /\ M!Execute(c).sim = mdev.sim /\ M!Execute(c).left = mdev.left
          /\ M!Execute(c).on = mdev.on /\ M!Execute(c).net = mdev.net
      BY <1>1, <2>1, Zenon DEF SimOK, ModemState
    <2> QED  BY <1>1, <1>3, <2>2 DEF SimOK
  <1>4. CASE c \notin {"CMGF", "CPIN="}
    <2>1. M!Execute(c) = mdev  BY <1>4 DEF M!Execute
    <2> QED  BY <1>1, <1>4, <2>1 DEF SimOK
  <1> QED  BY <1>2, <1>3, <1>4

LEMMA Answers ==
  ASSUME ModemType, NEW c
  PROVE  /\ M!Says(c) \in SUBSET (SUBSET M!Word)
         /\ M!Kept(c) \in SUBSET (SUBSET M!Word)
         /\ c \notin {"CREG", "CMGS", "AT"} => M!Kept(c) = {answer}
         /\ c = "CPIN=" => \A a \in M!Says(c) : "READY" \notin a
         /\ c = "CPIN again" /\ mdev.sim # "READY" => \A a \in M!Says(c) : "READY" \notin a
  <1>1. mdev.sim \in {"READY", "PIN", "PUK"} /\ mdev.net \in {"registered", "denied", "no"}
    BY DEF ModemType, SimOK, ModemState
  <1>2. M!Says(c) \in SUBSET (SUBSET M!Word)
    BY <1>1 DEF M!Says, M!Word
  <1>3. M!Kept(c) \in SUBSET (SUBSET M!Word)
    BY DEF M!Kept, M!Word, ModemType
  <1>4. c \notin {"CREG", "CMGS", "AT"} => M!Kept(c) = {answer}  BY DEF M!Kept
  <1>5. c = "CPIN=" => \A a \in M!Says(c) : "READY" \notin a  BY DEF M!Says
  <1>6. c = "CPIN again" /\ mdev.sim # "READY" => \A a \in M!Says(c) : "READY" \notin a
    BY <1>1 DEF M!Says
  <1> QED  BY <1>2, <1>3, <1>4, <1>5, <1>6

LEMMA OutcomeOK ==
  ASSUME ModemType, NEW r, r \in Outcomes
  PROVE  /\ SimOK(r.dev) /\ r.answer \in SUBSET M!Word
         /\ r.dev.left < mdev.left => r.dev.sim # "READY" /\ "READY" \notin r.answer
         /\ mprog.pc = "CPIN again" /\ mdev.sim # "READY" /\ "READY" \notin answer
              => r.dev.sim # "READY" /\ "READY" \notin r.answer
         /\ mprog.pc # "CPIN=" => r.dev.sim = mdev.sim /\ r.dev.left = mdev.left
  <1>1. PICK c : c = mprog.pc  OBVIOUS
  <1>2. \/ r.dev = mdev /\ r.answer \in M!Kept(c) \cup {{}, {"ERROR"}}
        \/ r.dev = M!Execute(c) /\ r.answer \in M!Says(c) \cup {{}}
    BY <1>1 DEF Outcomes, M!put_command, M!Fails, M!Result
  <1>3. SimOK(mdev) /\ answer \in SUBSET M!Word  BY DEF ModemType
  <1>4. mdev.left \in Int  BY <1>3 DEF SimOK
  <1>5. {} \in SUBSET M!Word /\ {"ERROR"} \in SUBSET M!Word  BY DEF M!Word
  <1>6. CASE r.dev = mdev /\ r.answer \in M!Kept(c) \cup {{}, {"ERROR"}}
    <2>1. M!Kept(c) \in SUBSET (SUBSET M!Word)  BY Answers
    <2>2. c = "CPIN again" => M!Kept(c) = {answer}  BY Answers
    <2>3. r.answer \in SUBSET M!Word  BY <1>5, <1>6, <2>1
    <2>4. SimOK(r.dev)  BY <1>1, <1>3, <1>4, <1>6, <2>2, <2>3
    <2>5. ~ (r.dev.left < mdev.left)
      <3>1. \A n \in Int : ~ (n < n)  OBVIOUS
      <3>2. r.dev.left = mdev.left  BY <1>6
      <3> QED  BY <1>4, <3>1, <3>2
    <2>6. mprog.pc = "CPIN again" /\ mdev.sim # "READY" /\ "READY" \notin answer
            => r.dev.sim # "READY" /\ "READY" \notin r.answer
      <3>1. "READY" \notin {} /\ "READY" \notin {"ERROR"}  OBVIOUS
      <3>2. c = "CPIN again" => r.answer \in {answer, {}, {"ERROR"}}  BY <1>6, <2>2
      <3> QED  BY <1>1, <1>6, <3>1, <3>2
    <2>7. mprog.pc # "CPIN=" => r.dev.sim = mdev.sim /\ r.dev.left = mdev.left  BY <1>1, <1>3, <1>4, <1>6, <2>2, <2>3
    <2> QED  BY <2>3, <2>4, <2>5, <2>6, <2>7
  <1>7. CASE r.dev = M!Execute(c) /\ r.answer \in M!Says(c) \cup {{}}
    <2>1. /\ M!Says(c) \in SUBSET (SUBSET M!Word)
          /\ c = "CPIN=" => \A a \in M!Says(c) : "READY" \notin a
          /\ c = "CPIN again" /\ mdev.sim # "READY" => \A a \in M!Says(c) : "READY" \notin a
      BY Answers
    <2>2. /\ SimOK(M!Execute(c))
          /\ c # "CPIN=" => M!Execute(c).sim = mdev.sim /\ M!Execute(c).left = mdev.left
          /\ M!Execute(c).left < mdev.left => M!Execute(c).sim # "READY"
      BY Executed
    <2>3. r.answer \in SUBSET M!Word  BY <1>5, <1>7, <2>1
    <2>4. SimOK(r.dev)  BY <1>1, <1>4, <1>7, <2>1, <2>2, <2>3
    <2>5. r.dev.left < mdev.left => r.dev.sim # "READY" /\ "READY" \notin r.answer
      <3>1. \A n \in Int : ~ (n < n)  OBVIOUS
      <3>2. r.dev.left < mdev.left => c = "CPIN="  BY <1>4, <1>7, <2>2, <3>1
      <3> QED  BY <1>7, <2>1, <2>2, <3>2
    <2>6. mprog.pc = "CPIN again" /\ mdev.sim # "READY" /\ "READY" \notin answer
            => r.dev.sim # "READY" /\ "READY" \notin r.answer
      BY <1>1, <1>4, <1>7, <2>1, <2>2, <2>3
    <2>7. mprog.pc # "CPIN=" => r.dev.sim = mdev.sim /\ r.dev.left = mdev.left  BY <1>1, <1>4, <1>7, <2>1, <2>2, <2>3
    <2> QED  BY <2>3, <2>4, <2>5, <2>6, <2>7
  <1> QED  BY <1>2, <1>6, <1>7

(* The ways on from a command.                                              *)
LEMMA OnOK ==
  ASSUME ModemType
  PROVE  /\ \A c \in ProgPc \ {"AT", "SUB", "REOPEN"} :
              /\ mprog.pc \in Before \/ c \notin Before \cup {"CREG"}
              /\ M!Go(c)
              => ProgOK(mprog')
         /\ M!GiveUp => ProgOK(mprog') /\ quick' \in {0, 1}
         /\ M!Return0 => ProgOK(mprog')
         /\ M!Exit => ProgOK(mprog')
         /\ mprog.pc \in {"AT", "SUB", "REOPEN"} /\ M!Again => ProgOK(mprog')
  <1>1. ProgOK(mprog) /\ quick \in {0, 1}  BY DEF ModemType
  <1>2. ASSUME NEW c \in ProgPc \ {"AT", "SUB", "REOPEN"},
               mprog.pc \in Before \/ c \notin Before \cup {"CREG"}, M!Go(c)
        PROVE  ProgOK(mprog')
    BY <1>1, <1>2, GoOK DEF M!Go
  <1>3. ASSUME M!GiveUp PROVE ProgOK(mprog') /\ quick' \in {0, 1}
    BY <1>1, <1>3, IdleOK DEF M!GiveUp
  <1>4. ASSUME M!Return0 PROVE ProgOK(mprog')
    <2>1. CASE mprog.for = "receive"
      <3>1. mprog' = [mprog EXCEPT !.pc = "READ", !.try = 0]  BY <1>4, <2>1 DEF M!Return0
      <3> QED  BY <1>1, <3>1, ReadyOK
    <2>2. CASE mprog.for # "receive"
      <3>1. mprog' = [mprog EXCEPT !.pc = "CMGS", !.try = 0]  BY <1>4, <2>2 DEF M!Return0
      <3> QED  BY <1>1, <3>1, ReadyOK
    <2> QED  BY <2>1, <2>2
  <1>5. ASSUME M!Exit PROVE ProgOK(mprog')
    <2>1. "ended" \in ProgPc \ {"CREG"} /\ "ended" \notin Before \cup {"AT", "SUB", "REOPEN"}
      BY DEF ProgPc, Before
    <2> QED  BY <1>1, <1>5, <2>1, MovedOK DEF M!Exit
  <1>6. ASSUME mprog.pc \in {"AT", "SUB", "REOPEN"}, M!Again PROVE ProgOK(mprog')
    <2>1. CASE mprog.try >= REOPEN
      <3>1. mprog' = [mprog EXCEPT !.pc = "REOPEN"]  BY <1>6, <2>1 DEF M!Again
      <3>2. "REOPEN" \in ProgPc \ {"CREG"} /\ mprog.pc \in Before
        BY <1>6 DEF ProgPc, Before
      <3> QED  BY <1>1, <1>6, <3>1, <3>2, MovedOK
    <2>2. CASE ~ (mprog.try >= REOPEN)
      <3>1. mprog' = [mprog EXCEPT !.pc = "AT", !.try = mprog.try + 1]
        BY <1>6, <2>2 DEF M!Again
      <3>2. mprog.try < TRIES  BY <1>1, <1>6, <2>2, ModemAssumption DEF ProgOK
      <3> QED  BY <1>1, <1>6, <3>1, <3>2, NextTryOK
    <2> QED  BY <2>1, <2>2
  <1> QED  BY <1>2, <1>3, <1>4, <1>5, <1>6

LEMMA TwiceOK ==
  ASSUME ModemType, mprog.pc \in {"INIT", "CMGF", "CSCA"}, NEW r, NEW refused, NEW c,
         c \in {"CREG", "CMGF", "CSCA", "DETAILS"}, c = "CREG" => mprog.pc = "INIT",
         M!Twice(r, refused, c)
  PROVE  ProgOK(mprog') /\ quick' \in {0, 1} /\ config' = config
  <1>1. ProgOK(mprog) /\ quick \in {0, 1}  BY DEF ModemType
  <1>2. /\ c \in ProgPc \ {"AT", "SUB", "REOPEN"}
        /\ mprog.pc \in Before \/ c \notin Before \cup {"CREG"}
    BY DEF ProgPc, Before
  <1>3. M!Go(c) => ProgOK(mprog')  BY <1>2, OnOK
  <1>4. M!GiveUp => ProgOK(mprog') /\ quick' \in {0, 1}  BY OnOK
  <1>5. mprog' = [mprog EXCEPT !.try = 2] => ProgOK(mprog')  BY <1>1, SecondTryOK
  <1>6. \/ (M!Go(c) \/ mprog' = [mprog EXCEPT !.try = 2]) /\ quick' = quick
        \/ M!GiveUp
    BY DEF M!Twice
  <1> QED  BY <1>1, <1>3, <1>4, <1>5, <1>6 DEF M!Twice

(* A handler leaves the program, quick and the configuration with their     *)
(* types.                                                                   *)
LEMMA ConfigChanges ==
  ASSUME ModemType
  PROVE  /\ config' = config => ConfigOK'
         /\ config' = [config EXCEPT !.pin = "ignore"] => ConfigOK'
         /\ config' = [config EXCEPT !.registered = TRUE] => ConfigOK'
         /\ config' = [config EXCEPT !.registered = TRUE, !.check_network = 0] => ConfigOK'
  <1>1. ConfigOK  BY DEF ModemType
  <1>2. PICK k : k = config  OBVIOUS
  <1>3. 0 \in Int /\ 0 \in 0 .. 2 /\ "ignore" \in Pins \cup {"ignore"}  OBVIOUS
  <1>4. ASSUME NEW x, x \in {k, [k EXCEPT !.pin = "ignore"], [k EXCEPT !.registered = TRUE],
                             [k EXCEPT !.registered = TRUE, !.check_network = 0]}
        PROVE  /\ x \in [pin : Pins \cup {"ignore"}, check_network : Int, registered : BOOLEAN]
               /\ x.check_network \in {k.check_network, 0}
    BY <1>1, <1>2, <1>3, <1>4, Zenon DEF ConfigOK
  <1> QED  BY <1>1, <1>2, <1>3, <1>4 DEF ConfigOK

LEMMA NetworkOK ==
  ASSUME ModemType, NEW r, M!wait_network_registration(r)
  PROVE  ProgOK(mprog') /\ quick' \in {0, 1} /\ ConfigOK'
  <1>1. ProgOK(mprog) /\ quick \in {0, 1} /\ mprog.pc = "CREG"
    BY DEF ModemType, M!wait_network_registration
  <1>2. ASSUME M!Registered PROVE ProgOK(mprog') /\ quick' \in {0, 1}
    <2>1. "CMGF" \in ProgPc \ {"AT", "SUB", "REOPEN"} /\ "CMGF" \notin Before \cup {"CREG"}
      BY DEF ProgPc, Before
    <2>2. M!Go("CMGF") => ProgOK(mprog')  BY <2>1, OnOK
    <2>3. M!Return0 => ProgOK(mprog')  BY OnOK
    <2> QED  BY <1>1, <1>2, <2>2, <2>3 DEF M!Registered, M!Return0
  <1>3. ASSUME NEW n \in {mprog.denied, mprog.denied + 1}, M!Wait(n)
        PROVE  ProgOK(mprog') /\ quick' \in {0, 1}
    <2>1. M!GiveUp => ProgOK(mprog') /\ quick' \in {0, 1}  BY OnOK
    <2>2. ASSUME mprog' = [mprog EXCEPT !.try = mprog.try + 1, !.denied = n], mprog.try # WAIT
          PROVE  ProgOK(mprog')
      BY <1>1, <2>2, WaitOK
    <2> QED  BY <1>1, <1>3, <2>1, <2>2 DEF M!Wait
  <1>4. M!Exit => ProgOK(mprog')  BY OnOK
  <1>5. \/ M!Registered
        \/ \E n \in {mprog.denied, mprog.denied + 1} : M!Wait(n)
        \/ M!Exit /\ quick' = quick
    BY DEF M!wait_network_registration
  <1>6. \/ config' = config \/ config' = [config EXCEPT !.registered = TRUE]
        \/ config' = [config EXCEPT !.registered = TRUE, !.check_network = 0]
    BY DEF M!wait_network_registration
  <1>7. ConfigOK'  BY <1>6, ConfigChanges
  <1> QED  BY <1>1, <1>2, <1>3, <1>4, <1>5, <1>7

LEMMA HandlerOK ==
  ASSUME ModemType, NEW r, M!Handle(r)
  PROVE  ProgOK(mprog') /\ quick' \in {0, 1} /\ ConfigOK'
  <1>1. ProgOK(mprog) /\ quick \in {0, 1}  BY DEF ModemType
  <1>2. M!GiveUp => ProgOK(mprog') /\ quick' \in {0, 1}  BY OnOK
  <1>3. M!Exit => ProgOK(mprog')  BY OnOK
  <1>4. config' = config => ConfigOK'  BY ConfigChanges
  <1>5. mprog.pc \in {"AT", "SUB", "REOPEN"} /\ M!Again => ProgOK(mprog')  BY OnOK
  <1>6. \A c \in {"CPIN?", "CPIN=", "CPIN again", "INIT"} :
          M!Go(c) /\ mprog.pc \in Before => ProgOK(mprog')
    BY OnOK DEF ProgPc
  <1>7. M!Sim \in {"CPIN?", "INIT"} /\ M!AfterPin = "INIT"  BY DEF M!Sim, M!AfterPin
  <1>8. CASE M!AT(r)
    <2>1. mprog' = [mprog EXCEPT !.pc = "SUB"] /\ mprog.pc = "AT" => ProgOK(mprog')
      <3>1. "SUB" \in ProgPc \ {"CREG"} /\ "AT" \in Before
        BY DEF ProgPc, Before
      <3> QED  BY <1>1, <3>1, MovedOK
    <2> QED  BY <1>1, <1>2, <1>4, <1>5, <1>6, <1>7, <1>8, <2>1 DEF M!AT, Before
  <1>9. CASE M!SUB(r)
    BY <1>1, <1>2, <1>4, <1>5, <1>6, <1>7, <1>9 DEF M!SUB, Before
  <1>10. CASE M!AskPin(r)
    <2>1. ProgOK(mprog')
      BY <1>3, <1>6, <1>7, <1>10 DEF M!AskPin, Before
    <2>2. config' = config \/ config' = [config EXCEPT !.pin = "ignore"]
      <3>1. config.pin = "none" \/ [config EXCEPT !.pin = config.pin] = config
        BY DEF ModemType, ConfigOK
      <3> QED  BY <1>10, <3>1 DEF M!AskPin
    <2>3. ConfigOK'  BY <2>2, ConfigChanges
    <2> QED  BY <1>1, <1>10, <2>1, <2>3 DEF M!AskPin
  <1>11. CASE M!PinEntered(r)
    BY <1>1, <1>4, <1>6, <1>11 DEF M!PinEntered, Before
  <1>12. CASE M!AskPinAgain(r)
    BY <1>1, <1>3, <1>4, <1>6, <1>7, <1>12 DEF M!AskPinAgain, Before
  <1>13. CASE M!InitString(r)
    BY <1>4, <1>13, TwiceOK DEF M!InitString, M!AfterInit
  <1>14. CASE M!PduMode(r)
    BY <1>4, <1>14, TwiceOK DEF M!PduMode
  <1>15. CASE M!Smsc(r)
    BY <1>4, <1>15, TwiceOK DEF M!Smsc
  <1>16. CASE M!Details(r)
    BY <1>1, <1>4, <1>16, OnOK DEF M!Details, M!Return0
  <1>17. CASE M!wait_network_registration(r)
    BY <1>17, NetworkOK
  <1>18. mprog' = [mprog EXCEPT !.pc = "sleep", !.retries = mprog.retries + 1]
           /\ mprog.retries # 2 => ProgOK(mprog')
    BY <1>1, SleepOK
  <1>19. CASE M!Cmgs(r)
    <2>1. mprog' = [mprog EXCEPT !.pc = "PDU"] => ProgOK(mprog')
      <3>1. "PDU" \in ProgPc \ {"CREG"} /\ "PDU" \notin Before \cup {"AT", "SUB", "REOPEN"}
        BY DEF ProgPc, Before
      <3> QED  BY <1>1, <3>1, MovedOK
    <2> QED  BY <1>1, <1>2, <1>4, <1>18, <1>19, <2>1 DEF M!Cmgs
  <1>20. CASE M!Pdu(r)
    BY <1>1, <1>2, <1>4, <1>18, <1>20, IdleOK DEF M!Pdu
  <1>21. CASE M!Read(r)
    BY <1>1, <1>4, <1>21, IdleOK DEF M!Read
  <1> QED
    BY <1>8, <1>9, <1>10, <1>11, <1>12, <1>13, <1>14, <1>15, <1>16, <1>17, <1>19, <1>20, <1>21
    DEF M!Handle

LEMMA HandleType ==
  ASSUME ModemType, NEW r, r \in Outcomes, M!Handle(r)
  PROVE  /\ mport' \in {"open", "closed"} /\ mterm' \in BOOLEAN
         /\ SimOK(mdev') /\ ProgOK(mprog') /\ ConfigOK'
         /\ answer' \in SUBSET M!Word /\ quick' \in {0, 1}
  <1>1. mdev' = r.dev /\ mport' = mport /\ mterm' = mterm  BY DEF M!Handle
  <1>2. answer' \in {{}, answer, r.answer}  BY DEF M!Handle
  <1>3. SimOK(r.dev) /\ r.answer \in SUBSET M!Word  BY OutcomeOK
  <1>4. {} \in SUBSET M!Word /\ answer \in SUBSET M!Word  BY DEF ModemType
  <1>5. answer' \in SUBSET M!Word  BY <1>2, <1>3, <1>4
  <1> QED  BY <1>1, <1>3, <1>5, HandlerOK DEF ModemType

(* What the rest of the world does to the modem.                            *)
LEMMA WorldOK ==
  ASSUME ModemType, M!PowerLost \/ M!PowerOn \/ M!NetworkChanges
  PROVE  /\ SimOK(mdev') /\ mdev'.left = mdev.left
         /\ mdev'.sim = "READY" => mdev.sim = "READY"
  <1>1. SimOK(mdev)  BY DEF ModemType
  <1>2. CASE M!PowerLost
    <2>1. mdev' = [mdev EXCEPT !.on = FALSE]  BY <1>2 DEF M!PowerLost
    <2>2. mdev' \in ModemState /\ mdev'.left = mdev.left /\ mdev'.sim = mdev.sim
      BY <1>1, <2>1, Zenon DEF SimOK, ModemState
    <2> QED  BY <1>1, <2>2 DEF SimOK
  <1>3. CASE M!PowerOn
    <2> DEFINE s == IF mdev.locks /\ mdev.sim = "READY" THEN "PIN" ELSE mdev.sim
    <2>1. mdev' = [mdev EXCEPT !.on = TRUE, !.mode = "text", !.net = "registered", !.sim = s]
      BY <1>3 DEF M!PowerOn
    <2>2. /\ s \in {"READY", "PIN", "PUK"}
          /\ s = "READY" => mdev.sim = "READY"
          /\ s = "PUK" => mdev.sim = "PUK"
          /\ mdev.sim \in {"READY", "PIN", "PUK"}
      BY <1>1 DEF SimOK, ModemState
    <2> HIDE DEF s
    <2>3. mdev' \in ModemState /\ mdev'.left = mdev.left /\ mdev'.sim = s
      BY <1>1, <2>1, <2>2, Zenon DEF SimOK, ModemState
    <2>4. mdev'.sim # "PUK" => mdev.left # 0
      BY <1>1, <2>2, <2>3 DEF SimOK, s
    <2> QED  BY <1>1, <2>2, <2>3, <2>4 DEF SimOK
  <1>4. CASE M!NetworkChanges
    <2>1. PICK n \in {"registered", "denied", "no"} : mdev' = [mdev EXCEPT !.net = n]
      BY <1>4 DEF M!NetworkChanges
    <2>2. mdev' \in ModemState /\ mdev'.left = mdev.left /\ mdev'.sim = mdev.sim
      BY <1>1, <2>1, Zenon DEF SimOK, ModemState
    <2> QED  BY <1>1, <2>2 DEF SimOK
  <1> QED  BY <1>2, <1>3, <1>4

(* Each step of the modem process keeps the types.                          *)
LEMMA ModemTypeStep == ModemType /\ [M!Next]_(M!vars) => ModemType'
  <1> SUFFICES ASSUME ModemType, [M!Next]_(M!vars) PROVE ModemType'
    OBVIOUS
  <1>1. /\ mport \in {"open", "closed"} /\ SimOK(mdev) /\ ProgOK(mprog) /\ ConfigOK
        /\ answer \in SUBSET M!Word /\ quick \in {0, 1} /\ mterm \in BOOLEAN /\ doubt \in BOOLEAN
    BY DEF ModemType
  <1>2. config' = config => ConfigOK'  BY ConfigChanges
  <1>3. ASSUME NEW f \in {"send", "receive", "retry"}, NEW k \in 0 .. 2, M!Initmodem(f, k)
        PROVE  ProgOK(mprog')
    BY <1>3, InitmodemOK DEF M!Initmodem
  <1>4. mprog.retries \in 0 .. 2 /\ 0 \in 0 .. 2  BY <1>1 DEF ProgOK
  <1>5. CASE M!Command \/ M!CommandFails
    <2>1. PICK r \in Outcomes : M!Handle(r)  BY <1>5 DEF M!Command, M!CommandFails, Outcomes
    <2>2. doubt' \in BOOLEAN  BY <1>5 DEF M!Command, M!CommandFails
    <2> QED  BY <2>1, <2>2, HandleType DEF ModemType
  <1>6. CASE M!Reopen
    <2>1. ProgOK(mprog') /\ quick' \in {0, 1}
      <3>1. M!GiveUp => ProgOK(mprog') /\ quick' \in {0, 1}  BY OnOK
      <3>2. ASSUME mprog.try # TRIES PROVE mprog.try < TRIES
        BY <1>1, <1>6, <3>2, ModemAssumption DEF ProgOK, M!Reopen
      <3> QED  BY <1>1, <1>6, <3>1, <3>2, NextTryOK DEF M!Reopen
    <2> QED  BY <1>1, <1>2, <1>6, <2>1 DEF M!Reopen, ModemType
  <1>7. CASE M!ReopenFails
    BY <1>1, <1>2, <1>7, OnOK DEF M!ReopenFails, ModemType
  <1>8. CASE M!Retry
    <2>1. ProgOK(mprog') /\ quick' \in {0, 1}
      BY <1>1, <1>3, <1>4, <1>8, OnOK DEF M!Retry
    <2> QED  BY <1>1, <1>2, <1>8, <2>1 DEF M!Retry, ModemType
  <1>9. CASE M!send_part
    <2>1. ProgOK(mprog')
      <3>1. mprog' = [M!Idle EXCEPT !.pc = "CMGS"] => ProgOK(mprog')
        <4>1. /\ "CMGS" \in ProgPc \ {"CREG"}
              /\ "CMGS" \notin Before \cup {"AT", "SUB", "REOPEN"}
          BY DEF ProgPc, Before
        <4> QED  BY <4>1, IdleOK, MovedOK
      <3> QED  BY <1>3, <1>4, <1>9, <3>1, LookOK DEF M!send_part
    <2>2. doubt' \in BOOLEAN  BY <1>1, <1>9 DEF M!send_part
    <2> QED  BY <1>1, <1>2, <1>9, <2>1, <2>2 DEF M!send_part, ModemType
  <1>10. CASE M!receivesms
    <2>1. ProgOK(mprog')  BY <1>3, <1>4, <1>10, ReceiveOK DEF M!receivesms
    <2>2. doubt' \in BOOLEAN  BY <1>1, <1>10 DEF M!receivesms
    <2> QED  BY <1>1, <1>2, <1>10, <2>1, <2>2 DEF M!receivesms, ModemType
  <1>11. CASE M!Workless \/ M!Terminate
    BY <1>1, <1>2, <1>11 DEF M!Workless, M!Terminate, ModemType
  <1>12. CASE M!End
    BY <1>1, <1>2, <1>12, OnOK DEF M!End, ModemType
  <1>13. CASE M!PowerLost \/ M!PowerOn \/ M!NetworkChanges
    <2>1. SimOK(mdev')  BY <1>13, WorldOK
    <2>2. M!Changed  BY <1>13 DEF M!PowerLost, M!PowerOn, M!NetworkChanges
    <2> QED  BY <1>1, <1>2, <2>1, <2>2 DEF M!Changed, ModemType
  <1>14. CASE UNCHANGED M!vars
    BY <1>1, <1>2, <1>14 DEF M!vars, ModemType
  <1> QED
    BY <1>5, <1>6, <1>7, <1>8, <1>9, <1>10, <1>11, <1>12, <1>13, <1>14
    DEF M!Next, M!Program, M!Fault

-----------------------------------------------------------------------------
(* A wrong PIN has been entered at most once, and then the process ends     *)
(* with the answer to its next question: nothing but an accepted PIN makes  *)
(* the SIM answer READY, and the buffer does not hold an old READY.         *)
PinInv ==
    /\ wrong \in {0, 1}
    /\ wrong = 1 =>
          \/ mprog.pc = "ended"
          \/ mprog.pc = "CPIN again" /\ mdev.sim # "READY" /\ "READY" \notin answer

LEMMA PinHandled ==
  ASSUME ModemType, PinInv, NEW r, r \in Outcomes, M!Handle(r)
  PROVE  PinInv'
  <1>1. mdev' = r.dev  BY DEF M!Handle
  <1>2. /\ r.dev.left < mdev.left => r.dev.sim # "READY" /\ "READY" \notin r.answer
        /\ mprog.pc = "CPIN again" /\ mdev.sim # "READY" /\ "READY" \notin answer
             => r.dev.sim # "READY" /\ "READY" \notin r.answer
    BY OutcomeOK
  <1>3. mprog \in ProgState  BY DEF ModemType, ProgOK
  <1>4. CASE M!PinEntered(r)
    <2>1. mprog.pc = "CPIN=" /\ wrong = 0  BY <1>4 DEF M!PinEntered, PinInv
    <2>2. mprog'.pc = "CPIN again"  BY <1>3, <1>4 DEF M!PinEntered, M!Go, ProgState
    <2>3. answer' = r.answer  BY <2>1, <2>2 DEF M!Handle
    <2>4. (r.dev.left < mdev.left /\ wrong' = wrong + 1) \/ wrong' = wrong
      BY <1>4, Zenon DEF M!PinEntered
    <2>5. (r.dev.left < mdev.left /\ wrong' = 1) \/ wrong' = 0
      <3>1. 0 + 1 = 1  OBVIOUS
      <3> QED  BY <2>1, <2>4, <3>1, Zenon
    <2>6. CASE r.dev.left < mdev.left /\ wrong' = 1
      <3>1. mdev'.sim # "READY" /\ "READY" \notin answer'  BY <1>1, <1>2, <2>3, <2>6, Zenon
      <3> QED  BY <2>2, <2>6, <3>1 DEF PinInv
    <2>7. CASE wrong' = 0
      <3>1. 0 # 1 /\ 0 \in {0, 1}  OBVIOUS
      <3> QED  BY <2>7, <3>1, Zenon DEF PinInv
    <2> QED  BY <2>5, <2>6, <2>7
  <1>5. CASE M!AskPinAgain(r)
    <2>1. mprog.pc = "CPIN again" /\ wrong' = wrong  BY <1>5 DEF M!AskPinAgain
    <2>2. wrong = 1 => mprog' = [mprog EXCEPT !.pc = "ended"]
      BY <1>2, <1>5, <2>1 DEF M!AskPinAgain, M!Exit, PinInv
    <2> QED  BY <1>3, <2>1, <2>2 DEF PinInv, ProgState
  <1>6. CASE ~ M!PinEntered(r) /\ ~ M!AskPinAgain(r)
    <2>1. wrong' = wrong /\ mprog.pc \notin {"ended", "CPIN again"}
      BY <1>6 DEF M!Handle, M!AT, M!SUB, M!AskPin, M!InitString, M!PduMode, M!Smsc, M!Twice,
                  M!Details, M!wait_network_registration, M!Cmgs, M!Pdu, M!Read
    <2> QED  BY <2>1 DEF PinInv
  <1> QED  BY <1>4, <1>5, <1>6

LEMMA PinStep == ModemType /\ PinInv /\ [M!Next]_(M!vars) => PinInv'
  <1> SUFFICES ASSUME ModemType, PinInv, [M!Next]_(M!vars) PROVE PinInv'
    OBVIOUS
  <1>1. CASE M!Command \/ M!CommandFails
    BY <1>1, PinHandled DEF M!Command, M!CommandFails, Outcomes
  <1>2. CASE M!Reopen \/ M!ReopenFails \/ M!Retry \/ M!send_part \/ M!receivesms
    BY <1>2 DEF M!Reopen, M!ReopenFails, M!Retry, M!send_part, M!receivesms, PinInv
  <1>3. CASE M!End
    <2>1. mprog'.pc = "ended" /\ wrong' = wrong
      BY <1>3 DEF M!End, M!Exit, ModemType, ProgOK, ProgState
    <2> QED  BY <2>1 DEF PinInv
  <1>4. CASE M!PowerLost \/ M!PowerOn \/ M!NetworkChanges
    <2>1. mdev'.sim = "READY" => mdev.sim = "READY"  BY <1>4, WorldOK
    <2>2. M!Changed  BY <1>4 DEF M!PowerLost, M!PowerOn, M!NetworkChanges
    <2> QED  BY <2>1, <2>2 DEF M!Changed, PinInv
  <1>5. CASE M!Workless \/ M!Terminate \/ UNCHANGED M!vars
    BY <1>5 DEF M!Workless, M!Terminate, M!vars, PinInv
  <1> QED
    BY <1>1, <1>2, <1>3, <1>4, <1>5 DEF M!Next, M!Program, M!Fault

-----------------------------------------------------------------------------
(* The port is open whenever the program talks to the modem; only a process *)
(* that sends hands over a part; a process that receives takes quick only   *)
(* from idle; and a look at the network ends in a part that is handed over. *)
Flow(p, o, q) ==
    /\ p.pc \notin {"idle", "ended"} => o = "open"
    /\ p.pc \in {"CMGS", "PDU", "sleep"} => p.for # "receive"
    /\ p.for = "receive" /\ p.pc \notin {"READ", "ended"} => q = 0
    /\ p.for = "look" => p.pc \in {"CREG", "CMGS", "PDU", "sleep", "ended"}

(* What the program may rely on at its places, as long as nothing changed   *)
(* that it has had no failure from: the modem is on once AT was answered,   *)
(* has its PIN once READY was read, is in PDU mode once it was put into it, *)
(* and is registered once it said so.                                       *)
Known(p, q, d, k) ==
    /\ \/ p.pc \in {"CPIN?", "CPIN=", "CPIN again", "INIT", "CREG", "CMGF", "CSCA", "DETAILS",
                    "READ", "CMGS", "PDU"}
       \/ p.pc = "idle" /\ q = 1
       => d.on
    /\ \/ p.pc \in {"INIT", "CREG", "CMGF", "CSCA", "DETAILS", "READ", "CMGS", "PDU"}
       \/ p.pc = "idle" /\ q = 1
       => k.pin = "ignore" \/ d.sim = "READY"
    /\ \/ p.pc \in {"CSCA", "DETAILS", "READ", "CMGS", "PDU"}
       \/ p.pc = "CREG" /\ p.for = "look"
       \/ p.pc = "idle" /\ q = 1
       => d.mode = "pdu"
    /\ p.pc \in {"CMGF", "CSCA", "DETAILS", "CMGS"} /\ p.for # "receive"
       => k.check_network = 0 \/ d.net = "registered"

ReadyInv == Flow(mprog, mport, quick) /\ (doubt \/ Known(mprog, quick, mdev, config))

(* What an answer in time says of the modem.                                *)
LEMMA Said ==
  ASSUME ModemType, mport = "open", NEW r, r \in M!put_command(mprog.pc)
  PROVE  /\ r.dev.on = mdev.on /\ r.dev.net = mdev.net /\ r.dev.mode \in {mdev.mode, "pdu"}
         /\ mdev.sim = "READY" => r.dev.sim = "READY"
         /\ r.answer # {} => mdev.on
         /\ "READY" \in r.answer => r.dev.sim = "READY"
         /\ mprog.pc = "CREG" /\ "registered" \in r.answer => mdev.net = "registered"
         /\ mprog.pc = "CMGF" /\ mdev.on => r.dev.mode = "pdu"
  <1>1. PICK c : c = mprog.pc  OBVIOUS
  <1>2. SimOK(mdev)  BY DEF ModemType
  <1>3. CASE ~ mdev.on
    <2>1. r.dev = mdev /\ r.answer = {}  BY <1>3 DEF M!put_command, M!Result
    <2> QED  BY <1>3, <2>1
  <1>4. CASE mdev.on
    <2>1. r.dev = M!Execute(c) /\ r.answer \in M!Says(c)
      BY <1>1, <1>4 DEF M!put_command, M!Result
    <2>2. /\ M!Execute(c).on = mdev.on /\ M!Execute(c).net = mdev.net
          /\ M!Execute(c).mode \in {mdev.mode, "pdu"}
          /\ mdev.sim = "READY" => M!Execute(c).sim = "READY"
          /\ c = "CMGF" => M!Execute(c).mode = "pdu"
      BY Executed
    <2>3. "READY" \in r.answer => mdev.sim = "READY"
      <3>1. mdev.sim \in {"READY", "PIN", "PUK"} /\ mdev.net \in {"registered", "denied", "no"}
        BY <1>2 DEF SimOK, ModemState
      <3>2. CASE c = "CREG"
        <4>1. r.answer \in {{"ERROR"}, {"OK"}, {"registered", "OK"}, {"denied", "OK"}}
          BY <2>1, <3>1, <3>2 DEF M!Says
        <4> QED  BY <4>1
      <3>3. CASE c \in {"CPIN?", "CPIN again"}
        <4>1. mdev.sim = "READY" \/ r.answer = {mdev.sim}  BY <2>1, <3>3 DEF M!Says
        <4> QED  BY <4>1
      <3>4. CASE c \notin {"CREG", "CPIN?", "CPIN again"}
        <4>1. r.answer \in {{"OK"}, {"ERROR"}, {">"}}  BY <2>1, <3>4 DEF M!Says
        <4> QED  BY <4>1
      <3> QED  BY <3>2, <3>3, <3>4
    <2>4. c = "CREG" /\ "registered" \in r.answer => mdev.net = "registered"
      BY <2>1 DEF M!Says
    <2> QED  BY <1>1, <1>4, <2>1, <2>2, <2>3, <2>4
  <1> QED  BY <1>3, <1>4

(* Where the program is after the ways on.                                  *)
LEMMA Shapes ==
  ASSUME ModemType
  PROVE  /\ \A c : M!Go(c) => mprog'.pc = c /\ mprog'.for = mprog.for
         /\ M!GiveUp => /\ mprog'.pc = "idle" /\ mprog'.for = "send"
                        /\ quick' = IF mprog.for = "receive" THEN quick ELSE 0
         /\ M!Return0 => /\ mprog'.pc = IF mprog.for = "receive" THEN "READ" ELSE "CMGS"
                         /\ mprog'.for = mprog.for /\ quick' = quick
         /\ M!Exit => mprog'.pc = "ended" /\ mprog'.for = mprog.for
         /\ M!Again => mprog'.pc \in {"AT", "REOPEN"} /\ mprog'.for = mprog.for
         /\ \A n : M!Wait(n) => \/ M!GiveUp
                                \/ /\ mprog'.pc = mprog.pc /\ mprog'.for = mprog.for
                                   /\ quick' = quick
  <1>1. mprog \in ProgState  BY DEF ModemType, ProgOK
  <1>2. \A c : M!Go(c) => mprog'.pc = c /\ mprog'.for = mprog.for
    BY <1>1 DEF M!Go, ProgState
  <1>3. M!GiveUp => /\ mprog'.pc = "idle" /\ mprog'.for = "send"
                    /\ quick' = IF mprog.for = "receive" THEN quick ELSE 0
    BY DEF M!GiveUp, M!Idle
  <1>4. M!Return0 => /\ mprog'.pc = IF mprog.for = "receive" THEN "READ" ELSE "CMGS"
                     /\ mprog'.for = mprog.for /\ quick' = quick
    BY <1>1 DEF M!Return0, ProgState
  <1>5. M!Exit => mprog'.pc = "ended" /\ mprog'.for = mprog.for
    BY <1>1 DEF M!Exit, ProgState
  <1>6. M!Again => mprog'.pc \in {"AT", "REOPEN"} /\ mprog'.for = mprog.for
    BY <1>1 DEF M!Again, ProgState
  <1>7. \A n : M!Wait(n) => \/ M!GiveUp
                            \/ /\ mprog'.pc = mprog.pc /\ mprog'.for = mprog.for
                               /\ quick' = quick
    BY <1>1 DEF M!Wait, ProgState
  <1> QED  BY <1>2, <1>3, <1>4, <1>5, <1>6, <1>7

LEMMA FlowHandled ==
  ASSUME ModemType, Flow(mprog, mport, quick), NEW r, M!Handle(r)
  PROVE  Flow(mprog', mport', quick')
  <1>1. mport' = mport  BY DEF M!Handle
  <1>2. /\ \A c : M!Go(c) => mprog'.pc = c /\ mprog'.for = mprog.for
        /\ M!GiveUp => /\ mprog'.pc = "idle" /\ mprog'.for = "send"
        /\ M!Return0 => /\ mprog'.pc = IF mprog.for = "receive" THEN "READ" ELSE "CMGS"
                        /\ mprog'.for = mprog.for /\ quick' = quick
        /\ M!Exit => mprog'.pc = "ended" /\ mprog'.for = mprog.for
        /\ M!Again => mprog'.pc \in {"AT", "REOPEN"} /\ mprog'.for = mprog.for
    BY Shapes
  <1>3. /\ M!Idle.pc = "idle" /\ M!Idle.for = "send"  BY DEF M!Idle
  <1>4. mprog \in ProgState  BY DEF ModemType, ProgOK
  <1>5. CASE M!AT(r) \/ M!SUB(r)
    <2>1. /\ mprog' = [mprog EXCEPT !.pc = "SUB"] => mprog'.pc = "SUB" /\ mprog'.for = mprog.for
      BY <1>4 DEF ProgState
    <2>2. \/ M!GiveUp
          \/ mprog'.pc \in {"CPIN?", "INIT", "AT", "REOPEN", "SUB"} /\ mprog'.for = mprog.for
             /\ quick' = quick
      BY <1>2, <1>5, <2>1 DEF M!AT, M!SUB, M!Sim, M!AfterPin
    <2> QED  BY <1>1, <1>2, <1>5, <2>2 DEF Flow, M!AT, M!SUB
  <1>6. CASE M!AskPin(r) \/ M!PinEntered(r) \/ M!AskPinAgain(r)
    <2>1. /\ mprog'.pc \in {"CPIN=", "CPIN again", "INIT", "ended"} /\ mprog'.for = mprog.for
          /\ quick' = quick
      BY <1>2, <1>6 DEF M!AskPin, M!PinEntered, M!AskPinAgain, M!AfterPin
    <2> QED  BY <1>1, <1>6, <2>1 DEF Flow, M!AskPin, M!PinEntered, M!AskPinAgain
  <1>7. CASE M!InitString(r) \/ M!PduMode(r) \/ M!Smsc(r)
    <2>1. mprog' = [mprog EXCEPT !.try = 2] => mprog'.pc = mprog.pc /\ mprog'.for = mprog.for
      BY <1>4 DEF ProgState
    <2>2. \/ M!GiveUp
          \/ mprog'.pc \in {"INIT", "CREG", "CMGF", "CSCA", "DETAILS"} /\ mprog'.for = mprog.for
             /\ quick' = quick
      BY <1>2, <1>7, <2>1 DEF M!InitString, M!PduMode, M!Smsc, M!Twice, M!AfterInit
    <2> QED  BY <1>1, <1>2, <1>7, <2>2 DEF Flow, M!InitString, M!PduMode, M!Smsc
  <1>8. CASE M!Details(r)
    BY <1>1, <1>2, <1>8 DEF Flow, M!Details
  <1>9. CASE M!wait_network_registration(r)
    <2>1. \/ M!GiveUp
          \/ mprog'.pc = "CMGF" /\ mprog'.for = mprog.for /\ quick' = quick /\ mprog.for # "look"
          \/ M!Return0
          \/ mprog'.pc \in {"CREG", "ended"} /\ mprog'.for = mprog.for /\ quick' = quick
      BY <1>9, Shapes DEF M!wait_network_registration, M!Registered
    <2> QED  BY <1>1, <1>2, <1>9, <2>1 DEF Flow, M!wait_network_registration
  <1>10. CASE M!Cmgs(r) \/ M!Pdu(r)
    <2>1. \A p : mprog' = [mprog EXCEPT !.pc = "PDU"]
                   \/ mprog' = [mprog EXCEPT !.pc = "sleep", !.retries = p]
                 => mprog'.pc \in {"PDU", "sleep"} /\ mprog'.for = mprog.for
      BY <1>4 DEF ProgState
    <2>2. \/ M!GiveUp
          \/ mprog' = M!Idle
          \/ mprog'.pc \in {"PDU", "sleep"} /\ mprog'.for = mprog.for /\ quick' = quick
      BY <1>10, <2>1 DEF M!Cmgs, M!Pdu
    <2> QED  BY <1>1, <1>2, <1>3, <1>10, <2>2 DEF Flow, M!Cmgs, M!Pdu
  <1>11. CASE M!Read(r)
    BY <1>1, <1>3, <1>11 DEF Flow, M!Read
  <1> QED
    BY <1>5, <1>6, <1>7, <1>8, <1>9, <1>10, <1>11 DEF M!Handle

LEMMA KnownHandled ==
  ASSUME ModemType, Flow(mprog, mport, quick), Known(mprog, quick, mdev, config),
         NEW r, r \in M!put_command(mprog.pc), M!Handle(r)
  PROVE  Known(mprog', quick', mdev', config')
  <1>1. mdev' = r.dev /\ mprog.pc \notin {"idle", "ended"}
    BY DEF M!Handle, M!AT, M!SUB, M!AskPin, M!PinEntered, M!AskPinAgain, M!InitString, M!PduMode,
           M!Smsc, M!Details, M!wait_network_registration, M!Cmgs, M!Pdu, M!Read
  <1>2. mport = "open"  BY <1>1 DEF Flow
  <1>3. /\ r.dev.on = mdev.on /\ r.dev.net = mdev.net /\ r.dev.mode \in {mdev.mode, "pdu"}
        /\ mdev.sim = "READY" => r.dev.sim = "READY"
        /\ r.answer # {} => mdev.on
        /\ "READY" \in r.answer => r.dev.sim = "READY"
        /\ mprog.pc = "CREG" /\ "registered" \in r.answer => mdev.net = "registered"
        /\ mprog.pc = "CMGF" /\ mdev.on => r.dev.mode = "pdu"
    BY <1>2, Said
  <1>4. /\ \A c : M!Go(c) => mprog'.pc = c /\ mprog'.for = mprog.for
        /\ M!GiveUp => /\ mprog'.pc = "idle" /\ mprog'.for = "send"
                       /\ quick' = IF mprog.for = "receive" THEN quick ELSE 0
        /\ M!Return0 => /\ mprog'.pc = IF mprog.for = "receive" THEN "READ" ELSE "CMGS"
                        /\ mprog'.for = mprog.for /\ quick' = quick
        /\ M!Exit => mprog'.pc = "ended" /\ mprog'.for = mprog.for
        /\ M!Again => mprog'.pc \in {"AT", "REOPEN"} /\ mprog'.for = mprog.for
    BY Shapes
  <1>5. /\ M!Idle.pc = "idle" /\ M!Idle.for = "send"  BY DEF M!Idle
  <1>6. mprog \in ProgState /\ ConfigOK  BY DEF ModemType, ProgOK
  (* Giving up leaves quick at 0, but for a process that came from READ.    *)
  <1>7. ASSUME M!GiveUp, mprog.pc # "READ" PROVE Known(mprog', quick', mdev', config')
    <2>1. mprog'.pc = "idle" /\ quick' = 0 /\ mprog'.for = "send"
      BY <1>1, <1>4, <1>7 DEF Flow
    <2>2. quick' # 1  BY <2>1
    <2> QED  BY <2>1, <2>2, Zenon DEF Known
  <1>8. CASE M!AT(r) \/ M!SUB(r)
    <2>1. mprog' = [mprog EXCEPT !.pc = "SUB"] => mprog'.pc = "SUB" /\ mprog'.for = mprog.for
      BY <1>6 DEF ProgState
    <2>2. config' = config /\ mprog.pc \in {"AT", "SUB"}  BY <1>8 DEF M!AT, M!SUB
    <2>3. \/ M!GiveUp
          \/ mprog'.pc \in {"AT", "REOPEN", "SUB"}
          \/ /\ mprog'.pc = M!Sim /\ mprog'.for = mprog.for /\ "OK" \in r.answer
      BY <1>4, <1>8, <2>1 DEF M!AT, M!SUB
    <2>4. ASSUME mprog'.pc = M!Sim, mprog'.for = mprog.for, "OK" \in r.answer
          PROVE  Known(mprog', quick', mdev', config')
      <3>1. mdev.on  BY <1>3, <2>4
      <3>2. \/ mprog'.pc = "CPIN?"
            \/ mprog'.pc = "INIT" /\ config.pin = "ignore"
        BY <2>4 DEF M!Sim, M!AfterPin
      <3> QED  BY <1>1, <1>3, <2>2, <3>1, <3>2 DEF Known
    <2>5. mprog'.pc \in {"AT", "REOPEN", "SUB"} => Known(mprog', quick', mdev', config')
      BY DEF Known
    <2> QED  BY <1>7, <2>2, <2>3, <2>4, <2>5
  <1>9. CASE M!AskPin(r)
    <2>1. \/ mprog'.pc \in {"CPIN=", "ended"} /\ config' = config
          \/ /\ mprog'.pc = "INIT" /\ "READY" \in r.answer
      BY <1>4, <1>9 DEF M!AskPin, M!AfterPin
    <2>2. mdev.on  BY <1>9 DEF M!AskPin, Known
    <2> QED  BY <1>1, <1>3, <2>1, <2>2 DEF Known
  <1>10. CASE M!PinEntered(r) \/ M!AskPinAgain(r)
    <2>1. \/ mprog'.pc \in {"CPIN again", "ended"}
          \/ /\ mprog'.pc = "INIT" /\ "READY" \in r.answer
      BY <1>4, <1>10 DEF M!PinEntered, M!AskPinAgain, M!AfterPin
    <2>2. mdev.on  BY <1>10 DEF M!PinEntered, M!AskPinAgain, Known
    <2> QED  BY <1>1, <1>3, <2>1, <2>2 DEF Known
  <1>11. mprog' = [mprog EXCEPT !.try = 2] => mprog'.pc = mprog.pc /\ mprog'.for = mprog.for
    BY <1>6 DEF ProgState
  <1>12. CASE M!InitString(r)
    <2>1. \/ M!GiveUp
          \/ mprog'.pc \in {"INIT", M!AfterInit} /\ mprog'.for = mprog.for
      BY <1>4, <1>11, <1>12 DEF M!InitString, M!Twice
    <2>2. config' = config /\ mprog.pc = "INIT" /\ mprog.for # "look"
      BY <1>12 DEF M!InitString, M!Twice, Flow
    <2>3. \/ M!AfterInit = "CREG"
          \/ M!AfterInit = "CMGF" /\ (mprog.for = "receive" \/ config.check_network = 0)
      BY <1>6 DEF M!AfterInit, M!ChecksNetwork, ConfigOK
    <2> QED  BY <1>1, <1>3, <1>7, <2>1, <2>2, <2>3 DEF Known
  <1>13. CASE M!PduMode(r)
    <2>1. \/ M!GiveUp
          \/ mprog'.pc \in {"CMGF", "CSCA"} /\ mprog'.for = mprog.for
      BY <1>4, <1>11, <1>13 DEF M!PduMode, M!Twice
    <2>2. config' = config /\ mprog.pc = "CMGF"
      BY <1>13 DEF M!PduMode, M!Twice
    <2> QED  BY <1>1, <1>3, <1>7, <2>1, <2>2 DEF Known
  <1>14. CASE M!Smsc(r)
    <2>1. \/ M!GiveUp
          \/ mprog'.pc \in {"CSCA", "DETAILS"} /\ mprog'.for = mprog.for
      BY <1>4, <1>11, <1>14 DEF M!Smsc, M!Twice
    <2>2. config' = config /\ mprog.pc = "CSCA"
      BY <1>14 DEF M!Smsc, M!Twice
    <2>3. r.dev.mode = "pdu"  BY <1>3, <2>2 DEF Known
    <2> QED  BY <1>1, <1>3, <1>7, <2>1, <2>2, <2>3 DEF Known
  <1>15. CASE M!Details(r)
    <2>1. /\ mprog'.pc = IF mprog.for = "receive" THEN "READ" ELSE "CMGS"
          /\ mprog'.for = mprog.for
      BY <1>4, <1>15 DEF M!Details
    <2>2. config' = config /\ mprog.pc = "DETAILS"  BY <1>15 DEF M!Details
    <2>3. r.dev.mode = "pdu"  BY <1>3, <2>2 DEF Known
    <2> QED  BY <1>1, <1>3, <2>1, <2>2, <2>3 DEF Known
  <1>16. CASE M!wait_network_registration(r)
    <2>1. \/ M!GiveUp
          \/ mprog'.pc \in {"CREG", "ended"} /\ mprog'.for = mprog.for /\ config' = config
          \/ /\ M!Registered
             /\ config'.pin = config.pin
             /\ "registered" \in r.answer \/ config'.check_network = 0
      BY <1>4, <1>6, <1>16, Shapes DEF M!wait_network_registration, ConfigOK
    <2>2. mprog.pc = "CREG"  BY <1>16 DEF M!wait_network_registration
    <2>3. ASSUME M!Registered, config'.pin = config.pin,
                 "registered" \in r.answer \/ config'.check_network = 0
          PROVE  Known(mprog', quick', mdev', config')
      <3>1. \/ mprog'.pc = "CMGF"
            \/ mprog'.pc = "CMGS" /\ mprog.for = "look"
        BY <1>4, <2>3 DEF M!Registered
      <3>2. mdev.mode = "pdu" => r.dev.mode = "pdu"  BY <1>3
      <3> QED  BY <1>1, <1>3, <2>2, <2>3, <3>1, <3>2 DEF Known
    <2>4. ASSUME mprog'.pc \in {"CREG", "ended"}, mprog'.for = mprog.for, config' = config
          PROVE  Known(mprog', quick', mdev', config')
      <3>2. mdev.mode = "pdu" => r.dev.mode = "pdu"  BY <1>3
      <3> QED  BY <1>1, <1>3, <2>2, <2>4, <3>2 DEF Known
    <2> QED  BY <1>7, <2>1, <2>2, <2>3, <2>4
  <1>17. CASE M!Cmgs(r) \/ M!Pdu(r)
    <2>1. \A p : mprog' = [mprog EXCEPT !.pc = "PDU"]
                   \/ mprog' = [mprog EXCEPT !.pc = "sleep", !.retries = p]
                 => mprog'.pc \in {"PDU", "sleep"} /\ mprog'.for = mprog.for
      BY <1>6 DEF ProgState
    <2>2. \/ M!GiveUp
          \/ mprog' = M!Idle
          \/ mprog'.pc \in {"PDU", "sleep"} /\ mprog'.for = mprog.for
      BY <1>17, <2>1 DEF M!Cmgs, M!Pdu
    <2>3. config' = config /\ mprog.pc \in {"CMGS", "PDU"}  BY <1>17 DEF M!Cmgs, M!Pdu
    <2>4. r.dev.mode = "pdu"  BY <1>3, <2>3 DEF Known
    <2> QED  BY <1>1, <1>3, <1>5, <1>7, <2>2, <2>3, <2>4 DEF Known
  <1>18. CASE M!Read(r)
    <2>1. config' = config /\ mprog.pc = "READ" /\ mprog'.pc = "idle" /\ mprog'.for = "send"
      BY <1>5, <1>18 DEF M!Read
    <2>2. r.dev.mode = "pdu"  BY <1>3, <2>1 DEF Known
    <2> QED  BY <1>1, <1>3, <2>1, <2>2 DEF Known
  <1> QED
    BY <1>8, <1>9, <1>10, <1>12, <1>13, <1>14, <1>15, <1>16, <1>17, <1>18 DEF M!Handle

LEMMA ReadyStep == ModemType /\ ReadyInv /\ [M!Next]_(M!vars) => ReadyInv'
  <1> SUFFICES ASSUME ModemType, ReadyInv, [M!Next]_(M!vars) PROVE ReadyInv'
    OBVIOUS
  <1>1. Flow(mprog, mport, quick) /\ (doubt \/ Known(mprog, quick, mdev, config))
    BY DEF ReadyInv
  <1>2. mprog \in ProgState /\ doubt \in BOOLEAN /\ quick \in {0, 1}
    BY DEF ModemType, ProgOK
  <1>3. M!GiveUp => /\ mprog'.pc = "idle" /\ mprog'.for = "send"
                    /\ quick' = IF mprog.for = "receive" THEN quick ELSE 0
    BY Shapes
  <1>4. \A f, k : M!Initmodem(f, k) => mprog'.pc = "AT" /\ mprog'.for = f
    BY DEF M!Initmodem, M!Idle
  (* After a failure only a program back at idle, with quick at 0, has no   *)
  (* doubt left.                                                            *)
  <1>5. CASE M!Command \/ M!CommandFails
    <2>1. PICK r : M!Handle(r) /\ (M!Command => r \in M!put_command(mprog.pc))
      <3>1. CASE M!Command  BY <3>1 DEF M!Command
      <3>2. CASE M!CommandFails /\ ~ M!Command  BY <3>2 DEF M!CommandFails
      <3> QED  BY <1>5, <3>1, <3>2
    <2>2. Flow(mprog', mport', quick')  BY <1>1, <2>1, FlowHandled
    <2>3. CASE M!Noticed
      <3>1. mprog'.pc = "idle" /\ quick' # 1  BY <2>3 DEF M!Noticed
      <3>2. Known(mprog', quick', mdev', config')  BY <3>1, Zenon DEF Known
      <3> QED  BY <2>2, <3>2 DEF ReadyInv
    <2>4. CASE ~ M!Noticed /\ M!CommandFails
      BY <2>2, <2>4 DEF M!CommandFails, ReadyInv
    <2>5. CASE ~ M!Noticed /\ M!Command
      <3>1. doubt' = doubt  BY <1>2, <2>5 DEF M!Command
      <3>2. Known(mprog, quick, mdev, config) => Known(mprog', quick', mdev', config')
        BY <1>1, <2>1, <2>5, KnownHandled
      <3> QED  BY <1>1, <2>2, <3>1, <3>2 DEF ReadyInv
    <2> QED  BY <1>5, <2>3, <2>4, <2>5
  <1>6. CASE M!Reopen \/ M!ReopenFails
    <2>1. \/ M!GiveUp
          \/ mport' = "open" /\ mprog'.pc = "AT" /\ mprog'.for = mprog.for /\ quick' = quick
      BY <1>2, <1>6 DEF M!Reopen, M!ReopenFails, ProgState
    <2>2. mprog.pc = "REOPEN"  BY <1>6 DEF M!Reopen, M!ReopenFails
    <2>3. Flow(mprog', mport', quick')  BY <1>1, <1>3, <2>1, <2>2 DEF Flow
    <2>4. mprog'.pc = "AT" \/ (mprog'.pc = "idle" /\ quick' # 1)
      BY <1>1, <1>3, <2>1, <2>2 DEF Flow
    <2>5. Known(mprog', quick', mdev', config')  BY <2>4, Zenon DEF Known
    <2> QED  BY <2>3, <2>5 DEF ReadyInv
  <1>7. CASE M!Retry
    <2>1. \/ M!GiveUp
          \/ mprog'.pc = "AT" /\ mprog'.for = "retry" /\ quick' = quick
      BY <1>4, <1>7 DEF M!Retry
    <2>2. mprog.pc = "sleep" /\ mport' = mport  BY <1>7 DEF M!Retry
    <2>3. Flow(mprog', mport', quick')  BY <1>1, <1>3, <2>1, <2>2 DEF Flow
    <2>4. mprog'.pc = "AT" \/ (mprog'.pc = "idle" /\ quick' # 1)
      BY <1>1, <1>3, <2>1, <2>2 DEF Flow
    <2>5. Known(mprog', quick', mdev', config')  BY <2>4, Zenon DEF Known
    <2> QED  BY <2>3, <2>5 DEF ReadyInv
  <1>8. CASE M!send_part \/ M!receivesms
    <2>1. mport' = "open" /\ quick' = quick /\ mdev' = mdev /\ config' = config /\ mprog.pc = "idle"
      BY <1>8 DEF M!send_part, M!receivesms
    <2>2. CASE quick = 0
      <3>1. mprog'.pc = "AT" /\ mprog'.for \in {"send", "receive"}
        BY <1>4, <1>8, <2>2 DEF M!send_part, M!receivesms
      <3>2. Flow(mprog', mport', quick')  BY <2>1, <2>2, <3>1 DEF Flow
      <3>3. Known(mprog', quick', mdev', config')  BY <3>1, Zenon DEF Known
      <3> QED  BY <3>2, <3>3 DEF ReadyInv
    <2>3. CASE quick # 0
      <3>1. doubt' = doubt /\ quick = 1
        BY <1>2, <1>8, <2>3 DEF M!send_part, M!receivesms
      <3>2. \/ mprog'.pc = "CREG" /\ mprog'.for = "look"
            \/ mprog'.pc = "CMGS" /\ mprog'.for = "send" /\ config.check_network = 0
            \/ mprog'.pc = "READ" /\ mprog'.for = "receive"
        BY <1>8, <2>3 DEF M!send_part, M!receivesms, M!Idle
      <3>3. Flow(mprog', mport', quick')  BY <2>1, <3>2 DEF Flow
      <3>4. Known(mprog, quick, mdev, config) => Known(mprog', quick', mdev', config')
        BY <2>1, <3>1, <3>2 DEF Known
      <3> QED  BY <1>1, <3>1, <3>3, <3>4 DEF ReadyInv
    <2> QED  BY <2>2, <2>3
  <1>9. CASE M!Workless
    <2>1. /\ mprog.pc = "idle" /\ mprog' = mprog /\ quick' = 0 /\ mdev' = mdev
          /\ config' = config /\ doubt' = doubt
      BY <1>9 DEF M!Workless
    <2>2. quick' # 1  BY <2>1
    <2>3. Flow(mprog', mport', quick')  BY <1>1, <2>1 DEF Flow
    <2>4. Known(mprog', quick', mdev', config')  BY <2>1, <2>2, Zenon DEF Known
    <2> QED  BY <2>3, <2>4 DEF ReadyInv
  <1>10. CASE M!End
    <2>1. mprog'.pc = "ended" /\ mprog'.for = mprog.for /\ mprog.pc = "idle" /\ quick' = quick
      BY <1>2, <1>10 DEF M!End, M!Exit, ProgState
    <2>2. Flow(mprog', mport', quick')  BY <1>1, <2>1 DEF Flow
    <2>3. Known(mprog', quick', mdev', config')  BY <2>1, Zenon DEF Known
    <2> QED  BY <2>2, <2>3 DEF ReadyInv
  <1>11. CASE M!PowerLost \/ M!PowerOn \/ M!NetworkChanges
    <2>1. M!Changed  BY <1>11 DEF M!PowerLost, M!PowerOn, M!NetworkChanges
    <2> QED  BY <1>1, <2>1 DEF M!Changed, ReadyInv
  <1>12. CASE M!Terminate \/ UNCHANGED M!vars
    BY <1>1, <1>12 DEF M!Terminate, M!vars, ReadyInv
  <1> QED
    BY <1>5, <1>6, <1>7, <1>8, <1>9, <1>10, <1>11, <1>12 DEF M!Next, M!Program, M!Fault

-----------------------------------------------------------------------------
(* A step of another program leaves the modem process alone.                *)
LEMMA OthersLeaveModem == [PhonesNext]_phones => [M!Next]_(M!vars)
  BY DEF PhonesNext, phones, modem1, M!vars, Driver, Spool, Receive, Dialogue, Device, Splits

THEOREM ModemTyped == PhonesSpec => []ModemType
  <1>1. PhonesInit => ModemType  BY ModemTypeInit DEF PhonesInit
  <1>2. ModemType /\ [PhonesNext]_phones => ModemType'  BY ModemTypeStep, OthersLeaveModem
  <1> QED  BY <1>1, <1>2, PTL DEF PhonesSpec

(* modeminit.c, initmodem: whatever the modem answers, or does not answer,  *)
(* and however often it loses its power, a wrong PIN is entered once.       *)
THEOREM PinOnce == PhonesSpec => []WrongPinOnce
  <1>1. PhonesInit => PinInv  BY DEF PhonesInit, M!Init, PinInv
  <1>2. ModemType /\ PinInv /\ [PhonesNext]_phones => PinInv'  BY PinStep, OthersLeaveModem
  <1>3. PinInv => WrongPinOnce
    <2>1. \A n \in {0, 1} : n <= 1  OBVIOUS
    <2> QED  BY <2>1 DEF PinInv, WrongPinOnce, M!WrongPinOnce
  <1> QED  BY <1>1, <1>2, <1>3, ModemTyped, PTL DEF PhonesSpec

(* smsd.c, send_part: a part of a message is handed to a modem that is on,  *)
(* in PDU mode, has its PIN and is registered, unless the modem changed and *)
(* the program has had no failure from it yet.                              *)
THEOREM SendsReady == PhonesSpec => []SendsWhenReady
  <1>1. PhonesInit => ReadyInv
    <2> SUFFICES ASSUME PhonesInit PROVE ReadyInv
      OBVIOUS
    <2>1. mprog = M!Idle /\ quick = 0 /\ mport = "open"  BY DEF PhonesInit, M!Init
    <2>2. mprog.pc = "idle" /\ mprog.for = "send" /\ quick # 1
      BY <2>1 DEF M!Idle
    <2>3. Flow(mprog, mport, quick)  BY <2>1, <2>2 DEF Flow
    <2>4. Known(mprog, quick, mdev, config)  BY <2>2, Zenon DEF Known
    <2> QED  BY <2>3, <2>4 DEF ReadyInv
  <1>2. ModemType /\ ReadyInv /\ [PhonesNext]_phones => ReadyInv'
    BY ReadyStep, OthersLeaveModem
  <1>3. ReadyInv => SendsWhenReady
    BY DEF ReadyInv, Flow, Known, SendsWhenReady, M!SendsWhenReady
  <1> QED  BY <1>1, <1>2, <1>3, ModemTyped, PTL DEF PhonesSpec

-----------------------------------------------------------------------------
(* smsd.c, received2file: the receiving of messages.  A part is good while  *)
(* nothing excuses its message; it is kept in the store or in the rest of   *)
(* it, and taken when the process has it anywhere.  The parts of the        *)
(* invariant take the state as arguments, so that a lemma can speak of the  *)
(* state before a step and of the one after it.                             *)
Good(E, p)         == p \in R!Part /\ R!Msg(p) \notin E
InSim(sm, p)       == \E s \in R!Place : sm[s] = p
InSaved(sv, p)     == \E k \in DOMAIN sv : Occurs(sv[k], p)
Kept(st, d, p)     == Occurs(st, p) \/ Occurs(d.rest, p)
Taken(st, sv, d, p) == Kept(st, d, p) \/ Occurs(d.combined, p) \/ InSaved(sv, p)

(* The process, and what it works on.                                       *)
DevState == [pc : {"idle", "read", "receive", "combine", "unlinked", "save", "delete"},
             place : Int, used : Int, part : R!Part \cup {None},
             combined : Seq(R!Part), rest : Seq(R!Part)]

(* The process has the part it read in hand.                                *)
HasPart(d) ==
    \/ d.pc \in {"receive", "combine", "save", "delete"}
    \/ d.pc = "unlinked" /\ d.part # None

(* A place is read while it and the count of messages are not zero.         *)
DevOK(d) ==
    /\ d \in DevState
    /\ d.place \in 0 .. MEMORY /\ d.used \in 0 .. MEMORY
    /\ d.pc = "read" \/ HasPart(d) => d.place # 0 /\ d.used # 0
    /\ HasPart(d) => d.part # None

(* The types of the state of receiving.                                     *)
ReceiveType ==
    /\ pending \in SUBSET R!Part
    /\ sim \in [R!Place -> R!Part \cup {None}]
    /\ store \in Seq(R!Part) /\ saved \in Seq(Seq(R!Part))
    /\ DevOK(dev)
    /\ confused \in SUBSET Incoming

(* The part in hand is in the modem; the files of the store are what the    *)
(* rewriting of it has made of them.                                        *)
Clean(sm, st, d) ==
    /\ HasPart(d) => sm[d.place] = d.part
    /\ d.pc = "unlinked" => st = <<>>
    /\ d.pc # "unlinked" => d.rest = <<>>
    /\ d.combined = <<>> \/ (d.pc \in {"unlinked", "save"} /\ d.part # None)

(* The message of the part in hand is whole before it is put together, and  *)
(* what is put together is that message; the part is deleted when it is in  *)
(* a file.                                                                  *)
Combining(st, sv, d, E) ==
    /\ d.pc = "combine" => Occurs(st, d.part) /\ R!Complete(st, d.part)
    /\ d.pc \in {"unlinked", "save"} /\ d.part # None =>
          /\ d.combined # <<>>
          /\ \A q \in R!Part : Occurs(d.combined, q) => R!SameRef(q, d.part)
          /\ Good(E, d.part) => d.combined = R!Whole(R!Msg(d.part))
    /\ d.pc = "delete" /\ Good(E, d.part) => Occurs(st, d.part) \/ InSaved(sv, d.part)

(* A saved file that has a good part is its message, whole, and the only one *)
(* that has it.                                                             *)
Files(sv, E) ==
    \A k \in DOMAIN sv :
       /\ sv[k] # <<>>
       /\ \A p \in R!Part : Good(E, p) /\ Occurs(sv[k], p) =>
             /\ sv[k] = R!Whole(R!Msg(p))
             /\ \A l \in DOMAIN sv : Occurs(sv[l], p) => l = k

(* A good part is in one place, or in the modem and in one of the process,  *)
(* which then has it in hand.                                               *)
ApartAt(pe, sm, st, sv, d, p) ==
    /\ p \in pe => ~ InSim(sm, p) /\ ~ Taken(st, sv, d, p)
    /\ \A s, t \in R!Place : sm[s] = p /\ sm[t] = p => s = t
    /\ InSim(sm, p) /\ Taken(st, sv, d, p) => HasPart(d) /\ d.pc # "receive" /\ d.part = p
    /\ Kept(st, d, p) => ~ Occurs(d.combined, p) /\ ~ InSaved(sv, p)
    /\ Occurs(d.combined, p) => ~ InSaved(sv, p)

(* So it is with every good part.                                           *)
Apart(pe, sm, st, sv, d, E) ==
    \A p \in R!Part : Good(E, p) => ApartAt(pe, sm, st, sv, d, p)

(* Only parts of messages of several parts are put in the store.            *)
Long(st, d) == \A p \in R!Part : Kept(st, d, p) => InParts[R!Msg(p)] > 1

(* m is excused, or whole in a file.                                        *)
IsOver(sv, E, m) == m \in E \/ Occurs(sv, R!Whole(m))

(* A part has come to the modem only when the messages before it were over.  *)
Turn(pe, sv, E) == \A p \in R!Part \ pe : \A e \in Earlier[R!Msg(p)] : IsOver(sv, E, e)

(* A message is excused together with those of its reference.               *)
Closed(E) == \A m \in E, n \in Incoming : Reference[m] = Reference[n] => n \in E

(* A good part the network has delivered is in the modem or taken.          *)
Somewhere(pe, sm, st, sv, d, E) ==
    \A p \in R!Part : Good(E, p) /\ p \notin pe => InSim(sm, p) \/ Taken(st, sv, d, p)

(* The inductive invariant.                                                 *)
ReceiveInv ==
    /\ ReceiveType /\ Clean(sim, store, dev) /\ Combining(store, saved, dev, confused)
    /\ Files(saved, confused) /\ Apart(pending, sim, store, saved, dev, confused)
    /\ Long(store, dev) /\ Turn(pending, saved, confused) /\ Closed(confused)
    /\ Somewhere(pending, sim, store, saved, dev, confused)

-----------------------------------------------------------------------------
(* The instance's names are those of the modules it is made of.             *)
LEMMA SameNames ==
  /\ \A S : R!Cardinality(S) = Cardinality(S)
  /\ \A s, S : R!Only(s, S) = Only(s, S)
  BY DEF R!Cardinality, Cardinality, R!Only, Only

(* A part is a message and one of its numbers.                              *)
LEMMA PartFacts ==
  /\ \A p \in R!Part : /\ R!Msg(p) \in Incoming /\ p[2] \in 1 .. InParts[R!Msg(p)]
                       /\ p = <<R!Msg(p), p[2]>> /\ p # None
  /\ \A m \in Incoming : \A i \in 1 .. InParts[m] :
        <<m, i>> \in R!Part /\ R!Msg(<<m, i>>) = m /\ <<m, i>>[2] = i
  BY ReceiveAssumption DEF R!Part, R!Msg

(* The whole message is its parts in their order.                           *)
LEMMA WholeFacts ==
  ASSUME NEW m \in Incoming
  PROVE  /\ R!Whole(m) \in Seq(R!Part) /\ R!Whole(m) # <<>>
         /\ Len(R!Whole(m)) = InParts[m]
         /\ \A p : Occurs(R!Whole(m), p) <=> p \in R!Part /\ R!Msg(p) = m
  <1>1. PICK w : w = R!Whole(m)
    OBVIOUS
  <1>2. InParts[m] \in Nat \ {0} /\ w = [i \in 1 .. InParts[m] |-> <<m, i>>]
    BY <1>1, ReceiveAssumption DEF R!Whole
  <1>3. \A i \in 1 .. InParts[m] : w[i] = <<m, i>> /\ w[i] \in R!Part
    BY <1>2, PartFacts
  <1>4. w \in Seq(R!Part) /\ Len(w) = InParts[m] /\ DOMAIN w = 1 .. InParts[m]
    <2>1. PICK n \in Nat : n = InParts[m]
      BY <1>2
    <2>2. w = [i \in 1 .. n |-> <<m, i>>] /\ \A i \in 1 .. n : <<m, i>> \in R!Part
      BY <1>2, <2>1, PartFacts
    <2>3. w \in Seq(R!Part) /\ Len(w) = n /\ DOMAIN w = 1 .. n
      BY <2>2
    <2> QED
      BY <2>1, <2>3
  <1>5. w # <<>>
    BY <1>2, <1>4
  <1>6. ASSUME NEW p, Occurs(w, p) PROVE p \in R!Part /\ R!Msg(p) = m
    BY <1>3, <1>4, <1>6, PartFacts DEF Occurs
  <1>7. ASSUME NEW p \in R!Part, R!Msg(p) = m PROVE Occurs(w, p)
    <2>1. p[2] \in 1 .. InParts[m] /\ p = <<m, p[2]>>
      BY <1>7, PartFacts
    <2> QED
      BY <1>3, <1>4, <2>1 DEF Occurs
  <1> QED
    BY <1>1, <1>4, <1>5, <1>6, <1>7


(* The process moves on.                                                    *)
LEMMA RestsOK ==
  /\ DevOK(R!Idle) /\ ~ HasPart(R!Idle)
  /\ R!Idle.pc = "idle" /\ R!Idle.combined = <<>> /\ R!Idle.rest = <<>> /\ R!Idle.part = None
  <1>1. <<>> \in Seq(R!Part) /\ 0 \in Int /\ 0 \in 0 .. MEMORY
    BY ReceiveAssumption
  <1>2. R!Idle \in DevState
    BY <1>1, Zenon DEF R!Idle, DevState
  <1> QED
    BY <1>1, <1>2 DEF R!Idle, DevOK, HasPart

(* The next place of the modem, or idle when all messages were read.        *)
LEMMA NextPlaceOK ==
  ASSUME NEW r \in DevState, r.place \in 1 .. MEMORY, r.used \in 0 .. MEMORY
  PROVE  LET e == R!NextPlace(r)
         IN  /\ DevOK(e) /\ ~ HasPart(e) /\ e.pc \in {"idle", "read"}
             /\ e.combined = <<>> /\ e.rest = <<>>
  <1>1. CASE r.used < 1 \/ r.place = MEMORY
    BY <1>1, RestsOK DEF R!NextPlace
  <1>2. CASE ~ (r.used < 1 \/ r.place = MEMORY)
    <2>1. PICK n : n = r.place + 1
      OBVIOUS
    <2>2. n \in Int /\ n \in 1 .. MEMORY /\ r.used # 0 /\ <<>> \in Seq(R!Part)
      BY <1>2, <2>1, ReceiveAssumption
    <2>3. PICK e : e = [r EXCEPT !.pc = "read", !.place = n, !.part = None,
                                 !.combined = <<>>, !.rest = <<>>]
      OBVIOUS
    <2>4. R!NextPlace(r) = e
      BY <1>2, <2>1, <2>3 DEF R!NextPlace
    <2>5. e \in DevState
      BY <2>2, <2>3, Zenon DEF DevState
    <2>6. e.pc = "read" /\ e.place = n /\ e.used = r.used /\ e.combined = <<>> /\ e.rest = <<>>
      BY <2>3, Zenon DEF DevState
    <2>7. ~ HasPart(e)
      BY <2>6 DEF HasPart
    <2>8. 0 .. MEMORY = 0 .. MEMORY /\ n \in 0 .. MEMORY /\ n # 0
      BY <2>2, ReceiveAssumption
    <2>9. DevOK(e)
      BY <2>2, <2>5, <2>6, <2>7, <2>8 DEF DevOK
    <2> QED
      BY <2>4, <2>6, <2>7, <2>9
  <1> QED
    BY <1>1, <1>2

(* A message less is left to read.                                          *)
LEMMA UsedOK ==
  ASSUME NEW d, DevOK(d), HasPart(d)
  PROVE  LET r == [d EXCEPT !.used = @ - 1]
         IN  r \in DevState /\ r.place \in 1 .. MEMORY /\ r.used \in 0 .. MEMORY
  <1>1. PICK n : n = d.used - 1
    OBVIOUS
  <1>2. n \in Int /\ n \in 0 .. MEMORY /\ d.place \in 1 .. MEMORY
    BY <1>1, ReceiveAssumption DEF DevOK
  <1>3. PICK r : r = [d EXCEPT !.used = n]
    OBVIOUS
  <1>4. r \in DevState /\ r.place = d.place /\ r.used = n
    BY <1>2, <1>3, Zenon DEF DevOK, DevState
  <1> QED
    BY <1>1, <1>2, <1>3, <1>4

(* The same part, at another point of the program.                          *)
Going(d, c, cb, rs) == [d EXCEPT !.pc = c, !.combined = cb, !.rest = rs]

Gone(e, d, c, cb, rs) ==
    /\ DevOK(e) /\ HasPart(e)
    /\ e.pc = c /\ e.part = d.part /\ e.place = d.place
    /\ e.combined = cb /\ e.rest = rs

(* The process that goes on still has its part in hand.                     *)
LEMMA PcOK ==
  ASSUME NEW d, DevOK(d), HasPart(d), NEW c \in {"combine", "unlinked", "save", "delete"},
         NEW cb \in Seq(R!Part), NEW rs \in Seq(R!Part)
  PROVE  Gone(Going(d, c, cb, rs), d, c, cb, rs)
  <1> DEFINE e == Going(d, c, cb, rs)
  <1>1. e \in DevState
    BY Zenon DEF DevOK, DevState, Going
  <1>2. /\ e.pc = c /\ e.part = d.part /\ e.place = d.place /\ e.used = d.used
        /\ e.combined = cb /\ e.rest = rs
    BY Zenon DEF DevOK, DevState, Going
  <1>3. d.part # None
    BY DEF DevOK
  <1> HIDE DEF e
  <1> QED
    BY <1>1, <1>2, <1>3 DEF DevOK, HasPart, Gone, e

(* The fields that EXCEPT does not name stay.                               *)
LEMMA SameFields ==
  ASSUME NEW d \in DevState, NEW c
  PROVE  /\ [d EXCEPT !.pc = c] = Going(d, c, d.combined, d.rest)
         /\ \A cb : [d EXCEPT !.pc = c, !.combined = cb] = Going(d, c, cb, d.rest)
         /\ \A rs : [d EXCEPT !.pc = c, !.rest = rs] = Going(d, c, d.combined, rs)
  BY DEF DevState, Going

(* The look at the memory begins with the first place.                      *)
LEMMA CheckOK ==
  ASSUME NEW d, DevOK(d), d.pc = "idle", NEW u \in 1 .. MEMORY,
         NEW e, e = [d EXCEPT !.pc = "read", !.place = 1, !.used = u]
  PROVE  DevOK(e) /\ ~ HasPart(e) /\ e.pc = "read" /\ e.combined = d.combined /\ e.rest = d.rest
  <1>1. 1 \in Int /\ u \in Int /\ u # 0 /\ 1 \in 0 .. MEMORY /\ u \in 0 .. MEMORY
    BY ReceiveAssumption
  <1>2. e \in DevState
    BY <1>1, Zenon DEF DevOK, DevState
  <1>3. /\ e.pc = "read" /\ e.place = 1 /\ e.used = u
        /\ e.combined = d.combined /\ e.rest = d.rest
    BY Zenon DEF DevOK, DevState
  <1> QED
    BY <1>1, <1>2, <1>3 DEF DevOK, HasPart

(* The process has read p.                                                  *)
Carrying(d, p) == [d EXCEPT !.pc = "receive", !.part = p]

LEMMA HoldOK ==
  ASSUME NEW d, DevOK(d), d.pc = "read", NEW p \in R!Part, NEW e, e = Carrying(d, p)
  PROVE  /\ DevOK(e) /\ HasPart(e)
         /\ e.pc = "receive" /\ e.part = p /\ e.place = d.place
         /\ e.combined = d.combined /\ e.rest = d.rest
  <1>1. e \in DevState
    BY Zenon DEF DevOK, DevState, Carrying
  <1>2. /\ e.pc = "receive" /\ e.part = p /\ e.place = d.place /\ e.used = d.used
        /\ e.combined = d.combined /\ e.rest = d.rest
    BY Zenon DEF DevOK, DevState, Carrying
  <1>3. p # None
    BY PartFacts
  <1> QED
    BY <1>1, <1>2, <1>3 DEF DevOK, HasPart

(* do_ic_purge rewrites the store.                                          *)
Purging(rs) == [R!Idle EXCEPT !.pc = "unlinked", !.rest = rs]

LEMMA PurgeOK ==
  ASSUME NEW rs \in Seq(R!Part), NEW e, e = Purging(rs)
  PROVE  /\ DevOK(e) /\ ~ HasPart(e)
         /\ e.pc = "unlinked" /\ e.part = None /\ e.combined = <<>> /\ e.rest = rs
  <1>1. R!Idle \in DevState
    BY RestsOK DEF DevOK
  <1>2. e \in DevState
    BY <1>1, Zenon DEF DevState, Purging
  <1>3. /\ e.pc = "unlinked" /\ e.part = R!Idle.part /\ e.combined = R!Idle.combined
        /\ e.place = R!Idle.place /\ e.used = R!Idle.used /\ e.rest = rs
    BY <1>1, Zenon DEF DevState, Purging
  <1> QED
    BY <1>2, <1>3, RestsOK DEF DevOK, HasPart

(* The store is in its place again after a purge.                           *)
Purged(d) == [d EXCEPT !.pc = "idle", !.rest = <<>>]

LEMMA PurgedOK ==
  ASSUME NEW d, DevOK(d), NEW e, e = Purged(d)
  PROVE  DevOK(e) /\ ~ HasPart(e) /\ e.pc = "idle" /\ e.combined = d.combined /\ e.rest = <<>>
  <1>1. <<>> \in Seq(R!Part)
    OBVIOUS
  <1>2. e \in DevState
    BY <1>1, Zenon DEF DevOK, DevState, Purged
  <1>3. /\ e.pc = "idle" /\ e.place = d.place /\ e.used = d.used
        /\ e.combined = d.combined /\ e.rest = <<>>
    BY Zenon DEF DevOK, DevState, Purged
  <1> QED
    BY <1>2, <1>3 DEF DevOK, HasPart

-----------------------------------------------------------------------------
(* What is excused stays so, and more never disturbs.                       *)
LEMMA TouchedFacts ==
  ASSUME NEW E \in SUBSET Incoming, Closed(E), NEW S \in SUBSET R!Part
  PROVE  /\ R!Touched(S) \in SUBSET Incoming
         /\ E \cup R!Touched(S) \in SUBSET Incoming
         /\ Closed(E \cup R!Touched(S))
         /\ \A p \in S, q \in R!Part : R!SameRef(q, p) => ~ Good(E \cup R!Touched(S), q)
         /\ \A p \in S : ~ Good(E \cup R!Touched(S), p)
  <1>1. R!Touched(S) \in SUBSET Incoming
    BY DEF R!Touched
  <1>2. \A p \in S, q \in R!Part : R!SameRef(q, p) => ~ Good(E \cup R!Touched(S), q)
    BY PartFacts DEF R!Touched, R!SameRef, Good
  <1>3. \A p \in S : ~ Good(E \cup R!Touched(S), p)
    BY <1>2 DEF R!SameRef
  <1>4. Closed(E \cup R!Touched(S))
    BY DEF Closed, R!Touched
  <1> QED
    BY <1>1, <1>2, <1>3, <1>4

(* What holds of the parts that are good holds of fewer of them.            *)
LEMMA MoreExcused ==
  ASSUME NEW E, NEW F, E \subseteq F, NEW pe, NEW sv
  PROVE  /\ \A p : Good(F, p) => Good(E, p)
         /\ Files(sv, E) => Files(sv, F)
         /\ Turn(pe, sv, E) => Turn(pe, sv, F)
  <1>1. \A p : Good(F, p) => Good(E, p)
    BY DEF Good
  <1>2. Files(sv, E) => Files(sv, F)
    BY <1>1 DEF Files
  <1>3. Turn(pe, sv, E) => Turn(pe, sv, F)
    BY DEF Turn, IsOver
  <1> QED
    BY <1>1, <1>2, <1>3

(* The model's Over is IsOver of the state.                                 *)
LEMMA OverIs ==
  ASSUME NEW m
  PROVE  R!Over(m) <=> IsOver(saved, confused, m)
  BY DEF R!Over, R!Elements, IsOver, Occurs

-----------------------------------------------------------------------------
(* Deliver, DeliverTwice: a part comes into a free place.                   *)
LEMMA Arrives ==
  ASSUME ReceiveInv, NEW p \in R!Part, p \in pending, R!Arrive(p)
  PROVE  /\ sim' \in [R!Place -> R!Part \cup {None}]
         /\ store' = store /\ saved' = saved /\ dev' = dev
         /\ HasPart(dev) => sim'[dev.place] = dev.part
         /\ InSim(sim', p)
         /\ \A q \in R!Part : q # p =>
               /\ InSim(sim', q) <=> InSim(sim, q)
               /\ \A t \in R!Place : sim'[t] = q <=> sim[t] = q
         /\ Good(confused, p) => \A s, t \in R!Place : sim'[s] = p /\ sim'[t] = p => s = t
         /\ \A e \in Earlier[R!Msg(p)] : IsOver(saved, confused, e)
  <1>1. PICK s \in R!Place :
           /\ sim[s] = None
           /\ \A m \in Earlier[R!Msg(p)] : R!Over(m)
           /\ sim' = [sim EXCEPT ![s] = p]
           /\ UNCHANGED <<store, saved, dev>>
    BY DEF R!Arrive
  <1>2. /\ sim \in [R!Place -> R!Part \cup {None}] /\ DevOK(dev)
        /\ HasPart(dev) => sim[dev.place] = dev.part
        /\ Good(confused, p) => ~ InSim(sim, p)
    BY DEF ReceiveInv, ReceiveType, Clean, Apart, ApartAt
  <1>3. sim'[s] = p /\ \A t \in R!Place : t # s => sim'[t] = sim[t]
    BY <1>1, <1>2
  <1>4. sim' \in [R!Place -> R!Part \cup {None}]
    BY <1>1, <1>2
  <1>5. ASSUME HasPart(dev) PROVE sim'[dev.place] = dev.part
    <2>1. dev.place \in R!Place /\ dev.part # None
      BY <1>2, <1>5, ReceiveAssumption DEF DevOK, R!Place
    <2> QED
      BY <1>1, <1>2, <1>3, <1>5, <2>1
  <1>6. ASSUME NEW q \in R!Part, q # p
        PROVE  /\ InSim(sim', q) <=> InSim(sim, q)
               /\ \A t \in R!Place : sim'[t] = q <=> sim[t] = q
    <2>1. \A t \in R!Place : sim'[t] = q <=> sim[t] = q
      BY <1>1, <1>3, <1>6, PartFacts
    <2> QED
      BY <2>1 DEF InSim
  <1>7. ASSUME Good(confused, p), NEW t \in R!Place, sim'[t] = p PROVE t = s
    BY <1>2, <1>3, <1>7 DEF InSim
  <1>8. \A e \in Earlier[R!Msg(p)] : IsOver(saved, confused, e)
    BY <1>1, OverIs
  <1>9. InSim(sim', p)
    BY <1>3 DEF InSim
  <1> QED
    BY <1>1, <1>4, <1>5, <1>6, <1>7, <1>8, <1>9

LEMMA DeliverStep ==
  ASSUME ReceiveInv, NEW p \in R!Part, R!Deliver(p)
  PROVE  ReceiveInv'
  <1>0. p \in pending /\ R!Arrive(p) /\ pending' = pending \ {p} /\ confused' = confused
    BY DEF R!Deliver
  <1>1. /\ sim' \in [R!Place -> R!Part \cup {None}]
        /\ store' = store /\ saved' = saved /\ dev' = dev
        /\ HasPart(dev) => sim'[dev.place] = dev.part
        /\ InSim(sim', p)
        /\ \A q \in R!Part : q # p =>
              /\ InSim(sim', q) <=> InSim(sim, q)
              /\ \A t \in R!Place : sim'[t] = q <=> sim[t] = q
        /\ Good(confused, p) => \A s, t \in R!Place : sim'[s] = p /\ sim'[t] = p => s = t
        /\ \A e \in Earlier[R!Msg(p)] : IsOver(saved, confused, e)
    BY <1>0, Arrives
  <1>2. ReceiveType'
    BY <1>0, <1>1 DEF ReceiveInv, ReceiveType
  <1>3. Clean(sim', store', dev')
    BY <1>1 DEF ReceiveInv, Clean
  <1>4. Apart(pending', sim', store', saved', dev', confused')
    <2> SUFFICES ASSUME NEW q \in R!Part, Good(confused, q)
                 PROVE  ApartAt(pending', sim', store, saved, dev, q)
      BY <1>0, <1>1 DEF Apart
    <2>1. ApartAt(pending, sim, store, saved, dev, q)
      BY DEF ReceiveInv, Apart
    <2>2. CASE q # p
      BY <1>0, <1>1, <2>1, <2>2 DEF ApartAt
    <2>3. CASE q = p
      <3>1. ~ Taken(store, saved, dev, q)
        BY <1>0, <2>1, <2>3 DEF ApartAt
      <3> QED
        BY <1>0, <1>1, <2>3, <3>1 DEF ApartAt, Taken
    <2> QED
      BY <2>2, <2>3
  <1>5. Turn(pending', saved', confused')
    BY <1>0, <1>1 DEF ReceiveInv, Turn
  <1>6. Somewhere(pending', sim', store', saved', dev', confused')
    BY <1>0, <1>1 DEF ReceiveInv, Somewhere
  <1> QED
    BY <1>0, <1>1, <1>2, <1>3, <1>4, <1>5, <1>6 DEF ReceiveInv

LEMMA DeliverTwiceStep ==
  ASSUME ReceiveInv, NEW p \in R!Part, R!DeliverTwice(p)
  PROVE  ReceiveInv'
  <1>0. /\ p \in pending /\ R!Arrive(p) /\ pending' = pending
        /\ confused' = confused \cup R!Touched({p})
    BY DEF R!DeliverTwice
  <1>1. /\ sim' \in [R!Place -> R!Part \cup {None}]
        /\ store' = store /\ saved' = saved /\ dev' = dev
        /\ HasPart(dev) => sim'[dev.place] = dev.part
        /\ \A q \in R!Part : q # p =>
              /\ InSim(sim', q) <=> InSim(sim, q)
              /\ \A t \in R!Place : sim'[t] = q <=> sim[t] = q
    BY <1>0, Arrives
  <1>2. /\ confused \in SUBSET Incoming /\ Closed(confused) /\ {p} \in SUBSET R!Part
        /\ confused \subseteq confused'
    BY <1>0 DEF ReceiveInv, ReceiveType
  <1>3. confused' \in SUBSET Incoming /\ Closed(confused') /\ ~ Good(confused', p)
    BY <1>0, <1>2, TouchedFacts
  <1>4. \A q : Good(confused', q) => Good(confused, q) /\ q # p
    BY <1>2, <1>3, MoreExcused
  <1>5. Files(saved', confused') /\ Turn(pending', saved', confused')
    BY <1>0, <1>1, <1>2, MoreExcused DEF ReceiveInv
  <1>6. ReceiveType'
    BY <1>0, <1>1, <1>3 DEF ReceiveInv, ReceiveType
  <1>7. Clean(sim', store', dev')
    BY <1>1 DEF ReceiveInv, Clean
  <1>8. Combining(store', saved', dev', confused')
    BY <1>1, <1>4 DEF ReceiveInv, Combining
  <1>9. Apart(pending', sim', store', saved', dev', confused')
    <2> SUFFICES ASSUME NEW q \in R!Part, Good(confused', q)
                 PROVE  ApartAt(pending, sim', store, saved, dev, q)
      BY <1>0, <1>1 DEF Apart
    <2>1. ApartAt(pending, sim, store, saved, dev, q)
      BY <1>4 DEF ReceiveInv, Apart
    <2> QED
      BY <1>1, <1>4, <2>1 DEF ApartAt
  <1>10. Somewhere(pending', sim', store', saved', dev', confused')
    BY <1>0, <1>1, <1>4 DEF ReceiveInv, Somewhere
  <1> QED
    BY <1>1, <1>3, <1>5, <1>6, <1>7, <1>8, <1>9, <1>10 DEF ReceiveInv

-----------------------------------------------------------------------------
(* Steps of the process that change no file and not the modem: what is good *)
(* after them is where it was.                                              *)
LEMMA DevMoves ==
  ASSUME ReceiveInv, pending' = pending, sim' = sim, store' = store, saved' = saved,
         confused \subseteq confused', confused' \in SUBSET Incoming, Closed(confused'),
         DevOK(dev'), Clean(sim, store, dev'), Combining(store, saved, dev', confused'),
         \A p \in R!Part : Occurs(dev'.rest, p) => Occurs(dev.rest, p),
         \A p \in R!Part : Good(confused', p) =>
            /\ Occurs(dev'.rest, p) <=> Occurs(dev.rest, p)
            /\ Occurs(dev'.combined, p) <=> Occurs(dev.combined, p)
            /\ InSim(sim, p) /\ Taken(store, saved, dev, p)
                  => HasPart(dev') /\ dev'.pc # "receive" /\ dev'.part = p
  PROVE  ReceiveInv'
  <1>1. \A p : Good(confused', p) => Good(confused, p)
    BY MoreExcused
  <1>2. Files(saved', confused') /\ Turn(pending', saved', confused')
    BY MoreExcused DEF ReceiveInv
  <1>3. ReceiveType'
    BY DEF ReceiveInv, ReceiveType
  <1>4. \A p \in R!Part : Good(confused', p) =>
           /\ Kept(store, dev', p) <=> Kept(store, dev, p)
           /\ Taken(store, saved, dev', p) <=> Taken(store, saved, dev, p)
    BY DEF Kept, Taken
  <1>5. Apart(pending', sim', store', saved', dev', confused')
    <2> SUFFICES ASSUME NEW p \in R!Part, Good(confused', p)
                 PROVE  ApartAt(pending, sim, store, saved, dev', p)
      BY DEF Apart
    <2>1. ApartAt(pending, sim, store, saved, dev, p)
      BY <1>1 DEF ReceiveInv, Apart
    <2> QED
      BY <1>4, <2>1 DEF ApartAt
  <1>6. Long(store', dev')
    BY DEF ReceiveInv, Long, Kept
  <1>7. Somewhere(pending', sim', store', saved', dev', confused')
    BY <1>1, <1>4 DEF ReceiveInv, Somewhere
  <1> QED
    BY <1>2, <1>3, <1>5, <1>6, <1>7 DEF ReceiveInv

(* The process has nothing of a good part but in its files.                 *)
LEMMA Unhanded ==
  ASSUME ReceiveInv, ~ HasPart(dev) \/ dev.pc = "receive"
  PROVE  /\ \A p \in R!Part : Good(confused, p) => ~ (InSim(sim, p) /\ Taken(store, saved, dev, p))
         /\ dev.combined = <<>>
         /\ dev.pc # "unlinked" => dev.rest = <<>>
  BY DEF ReceiveInv, Apart, ApartAt, Clean, HasPart

LEMMA CheckMemoryStep ==
  ASSUME ReceiveInv, R!CheckMemory
  PROVE  ReceiveInv'
  <1>1. PICK u : /\ u = R!Cardinality({s \in R!Place : sim[s] # None}) /\ u > 0
                 /\ dev.pc = "idle" /\ dev' = [dev EXCEPT !.pc = "read", !.place = 1, !.used = u]
                 /\ UNCHANGED <<pending, sim, store, saved, confused>>
    BY DEF R!CheckMemory
  <1>2. u \in 1 .. MEMORY
    <2>1. MEMORY \in Nat /\ R!Place = 1 .. MEMORY
      BY ReceiveAssumption DEF R!Place
    <2>2. IsFiniteSet(1 .. MEMORY) /\ Cardinality(1 .. MEMORY) = MEMORY
      BY <2>1, FS_Interval
    <2>3. PICK S : S = {s \in R!Place : sim[s] # None}
      OBVIOUS
    <2>4. S \subseteq 1 .. MEMORY
      BY <2>1, <2>3
    <2>5. IsFiniteSet(S) /\ Cardinality(S) <= MEMORY
      BY <2>2, <2>4, FS_Subset
    <2>6. Cardinality(S) \in Nat
      BY <2>5, FS_CardinalityType
    <2>7. u = Cardinality(S)
      BY <1>1, <2>3, SameNames
    <2> QED
      BY <1>1, <2>1, <2>5, <2>6, <2>7
  <1>3. DevOK(dev)
    BY DEF ReceiveInv, ReceiveType
  <1>4. /\ DevOK(dev') /\ ~ HasPart(dev') /\ dev'.pc = "read"
        /\ dev'.combined = dev.combined /\ dev'.rest = dev.rest
    <2>1. PICK d, e : d = dev /\ e = dev'
      OBVIOUS
    <2>2. DevOK(d) /\ d.pc = "idle" /\ e = [d EXCEPT !.pc = "read", !.place = 1, !.used = u]
      BY <1>1, <1>3, <2>1
    <2>3. DevOK(e) /\ ~ HasPart(e) /\ e.pc = "read" /\ e.combined = d.combined /\ e.rest = d.rest
      BY <1>2, <2>2, CheckOK
    <2> QED
      BY <2>1, <2>3
  <1>5. ~ HasPart(dev)
    BY <1>1 DEF HasPart
  <1>6. Clean(sim, store, dev') /\ Combining(store, saved, dev', confused')
    BY <1>1, <1>4, <1>5, Unhanded DEF Clean, Combining
  <1>7. confused \in SUBSET Incoming /\ Closed(confused)
    BY DEF ReceiveInv, ReceiveType
  <1> QED
    BY <1>1, <1>4, <1>5, <1>6, <1>7, Unhanded, DevMoves

(* The process gives up or goes on, with no part in hand.                   *)
LEMMA Leaves ==
  ASSUME ReceiveInv, UNCHANGED <<pending, sim, store, saved, confused>>,
         ~ HasPart(dev), dev.pc # "unlinked",
         DevOK(dev'), ~ HasPart(dev'), dev'.pc \in {"idle", "read"},
         dev'.combined = <<>>, dev'.rest = <<>>
  PROVE  ReceiveInv'
  <1>1. dev.combined = dev'.combined /\ dev.rest = dev'.rest
    BY Unhanded
  <1>2. Clean(sim, store, dev') /\ Combining(store, saved, dev', confused')
    BY DEF Clean, Combining
  <1>3. confused \in SUBSET Incoming /\ Closed(confused)
    BY DEF ReceiveInv, ReceiveType
  <1> QED
    BY <1>1, <1>2, <1>3, Unhanded, DevMoves

LEMMA ReadStep ==
  ASSUME ReceiveInv, R!ReadSim \/ R!ReadTimeout
  PROVE  ReceiveInv'
  <1>1. dev.pc = "read" /\ UNCHANGED <<pending, sim, store, saved, confused>>
    BY DEF R!ReadSim, R!ReadTimeout
  <1>2. /\ DevOK(dev) /\ ~ HasPart(dev) /\ dev \in DevState
        /\ dev.place \in 1 .. MEMORY /\ dev.place \in R!Place /\ dev.used \in 0 .. MEMORY
    BY <1>1, ReceiveAssumption DEF ReceiveInv, ReceiveType, DevOK, HasPart, R!Place
  <1>3. CASE dev' = R!Idle \/ dev' = R!NextPlace(dev)
    <2>1. /\ DevOK(dev') /\ ~ HasPart(dev') /\ dev'.pc \in {"idle", "read"}
          /\ dev'.combined = <<>> /\ dev'.rest = <<>>
      BY <1>2, <1>3, RestsOK, NextPlaceOK
    <2> QED
      BY <1>1, <1>2, <2>1, Leaves
  <1>4. CASE sim[dev.place] # None /\ dev' = [dev EXCEPT !.pc = "receive", !.part = sim[dev.place]]
    <2>1. PICK p \in R!Part : p = sim[dev.place]
      BY <1>2, <1>4 DEF ReceiveInv, ReceiveType
    <2>2. /\ DevOK(dev') /\ HasPart(dev')
          /\ dev'.pc = "receive" /\ dev'.part = p /\ dev'.place = dev.place
          /\ dev'.combined = dev.combined /\ dev'.rest = dev.rest
      <3>1. dev' = Carrying(dev, p)
        BY <1>4, <2>1 DEF Carrying
      <3> QED
        BY <1>1, <1>2, <3>1, HoldOK
    <2>3. Clean(sim, store, dev') /\ Combining(store, saved, dev', confused')
      BY <1>1, <1>2, <2>1, <2>2, Unhanded DEF Clean, Combining
    <2>4. confused \in SUBSET Incoming /\ Closed(confused)
      BY DEF ReceiveInv, ReceiveType
    <2> QED
      BY <1>1, <1>2, <2>2, <2>3, <2>4, Unhanded, DevMoves
  <1> QED
    BY <1>1, <1>3, <1>4 DEF R!ReadSim, R!ReadTimeout

-----------------------------------------------------------------------------
(* Files are only added.                                                    *)
LEMMA SavedMore ==
  ASSUME NEW sv \in Seq(Seq(R!Part)), NEW E, Files(sv, E), NEW sv2 \in Seq(Seq(R!Part)),
         DOMAIN sv \subseteq DOMAIN sv2, \A k \in DOMAIN sv : sv2[k] = sv[k],
         \A k \in DOMAIN sv2 \ DOMAIN sv :
            /\ sv2[k] # <<>>
            /\ \A p \in R!Part : Good(E, p) /\ Occurs(sv2[k], p) =>
                  /\ sv2[k] = R!Whole(R!Msg(p)) /\ ~ InSaved(sv, p)
                  /\ \A l \in DOMAIN sv2 \ DOMAIN sv : Occurs(sv2[l], p) => l = k
  PROVE  /\ Files(sv2, E)
         /\ \A m : IsOver(sv, E, m) => IsOver(sv2, E, m)
         /\ \A pe : Turn(pe, sv, E) => Turn(pe, sv2, E)
         /\ \A p : InSaved(sv, p) => InSaved(sv2, p)
  <1>1. \A m : IsOver(sv, E, m) => IsOver(sv2, E, m)
    BY DEF IsOver, Occurs
  <1>2. \A pe : Turn(pe, sv, E) => Turn(pe, sv2, E)
    BY <1>1 DEF Turn
  <1>3. \A p : InSaved(sv, p) => InSaved(sv2, p)
    BY DEF InSaved
  <1>4. ASSUME NEW k \in DOMAIN sv2
        PROVE  /\ sv2[k] # <<>>
               /\ \A p \in R!Part : Good(E, p) /\ Occurs(sv2[k], p) =>
                     /\ sv2[k] = R!Whole(R!Msg(p))
                     /\ \A l \in DOMAIN sv2 : Occurs(sv2[l], p) => l = k
    <2>1. CASE k \in DOMAIN sv
      <3>1. sv2[k] # <<>>
        BY <2>1 DEF Files
      <3> SUFFICES ASSUME NEW p \in R!Part, Good(E, p), Occurs(sv2[k], p)
                   PROVE  /\ sv2[k] = R!Whole(R!Msg(p))
                          /\ \A l \in DOMAIN sv2 : Occurs(sv2[l], p) => l = k
        BY <3>1
      <3>2. Occurs(sv[k], p) /\ InSaved(sv, p)
        BY <2>1 DEF InSaved
      <3>3. \A l \in DOMAIN sv2 : Occurs(sv2[l], p) => l \in DOMAIN sv /\ Occurs(sv[l], p)
        BY <3>2
      <3> QED
        BY <2>1, <3>2, <3>3 DEF Files
    <2>2. CASE k \notin DOMAIN sv
      <3> SUFFICES ASSUME NEW p \in R!Part, Good(E, p), Occurs(sv2[k], p)
                   PROVE  /\ sv2[k] = R!Whole(R!Msg(p))
                          /\ \A l \in DOMAIN sv2 : Occurs(sv2[l], p) => l = k
        BY <2>2
      <3>1. sv2[k] = R!Whole(R!Msg(p)) /\ ~ InSaved(sv, p)
        BY <2>2
      <3>2. \A l \in DOMAIN sv2 : Occurs(sv2[l], p) => l \notin DOMAIN sv
        BY <3>1 DEF InSaved
      <3> QED
        BY <2>2, <3>1, <3>2
    <2> QED
      BY <2>1, <2>2
  <1>5. Files(sv2, E)
    BY <1>4 DEF Files
  <1> QED
    BY <1>1, <1>2, <1>3, <1>5

LEMMA SavedOne ==
  ASSUME NEW sv \in Seq(Seq(R!Part)), NEW E, Files(sv, E), NEW x \in Seq(R!Part), x # <<>>,
         \A p \in R!Part : Good(E, p) /\ Occurs(x, p) => x = R!Whole(R!Msg(p)) /\ ~ InSaved(sv, p)
  PROVE  /\ Append(sv, x) \in Seq(Seq(R!Part)) /\ Files(Append(sv, x), E)
         /\ \A m : IsOver(sv, E, m) => IsOver(Append(sv, x), E, m)
         /\ \A pe : Turn(pe, sv, E) => Turn(pe, Append(sv, x), E)
         /\ \A p : InSaved(Append(sv, x), p) <=> InSaved(sv, p) \/ Occurs(x, p)
  <1>1. PICK sv2 \in Seq(Seq(R!Part)) : sv2 = Append(sv, x)
    <2>1. PICK X : X = Seq(R!Part)
      OBVIOUS
    <2>2. Append(sv, x) \in Seq(X)
      BY <2>1
    <2> QED
      BY <2>1, <2>2
  <1>2. /\ Len(sv) \in Nat /\ DOMAIN sv = 1 .. Len(sv) /\ DOMAIN sv2 = 1 .. Len(sv) + 1
        /\ sv2[Len(sv) + 1] = x /\ \A k \in DOMAIN sv : sv2[k] = sv[k]
    BY <1>1
  <1>3. DOMAIN sv \subseteq DOMAIN sv2 /\ DOMAIN sv2 \ DOMAIN sv = {Len(sv) + 1}
    BY <1>2
  <1>4. /\ Files(sv2, E)
        /\ \A m : IsOver(sv, E, m) => IsOver(sv2, E, m)
        /\ \A pe : Turn(pe, sv, E) => Turn(pe, sv2, E)
        /\ \A p : InSaved(sv, p) => InSaved(sv2, p)
    BY <1>2, <1>3, SavedMore
  <1>5. ASSUME NEW p, InSaved(sv2, p) PROVE InSaved(sv, p) \/ Occurs(x, p)
    <2>1. PICK k \in DOMAIN sv2 : Occurs(sv2[k], p)
      BY <1>5 DEF InSaved
    <2>2. CASE k \in DOMAIN sv
      BY <1>2, <2>1, <2>2 DEF InSaved
    <2>3. CASE k = Len(sv) + 1
      BY <1>2, <2>1, <2>3
    <2> QED
      BY <1>3, <2>2, <2>3
  <1>6. ASSUME NEW p, Occurs(x, p) PROVE InSaved(sv2, p)
    <2>1. Len(sv) + 1 \in DOMAIN sv2
      BY <1>2
    <2> QED
      BY <1>2, <1>6, <2>1 DEF InSaved
  <1> QED
    BY <1>1, <1>4, <1>5, <1>6

-----------------------------------------------------------------------------
(* The part in hand.                                                        *)
LEMMA HandFacts ==
  ASSUME ReceiveInv, HasPart(dev)
  PROVE  /\ DevOK(dev) /\ dev \in DevState /\ dev.part \in R!Part /\ dev.part # None
         /\ dev.place \in R!Place /\ dev.place \in 1 .. MEMORY
         /\ sim[dev.place] = dev.part /\ InSim(sim, dev.part)
         /\ dev.combined \in Seq(R!Part) /\ dev.rest \in Seq(R!Part)
         /\ Good(confused, dev.part) =>
               /\ dev.part \notin pending
               /\ dev.pc = "receive" => ~ Taken(store, saved, dev, dev.part)
  <1>1. DevOK(dev) /\ dev \in DevState /\ dev.part # None
    BY DEF ReceiveInv, ReceiveType, DevOK
  <1>2. dev.part \in R!Part /\ dev.combined \in Seq(R!Part) /\ dev.rest \in Seq(R!Part)
    BY <1>1 DEF DevState
  <1>3. dev.place \in 1 .. MEMORY /\ dev.place \in R!Place
    BY <1>1, ReceiveAssumption DEF DevOK, R!Place
  <1>4. sim[dev.place] = dev.part
    BY DEF ReceiveInv, Clean
  <1>5. InSim(sim, dev.part)
    BY <1>3, <1>4 DEF InSim
  <1>6. Good(confused, dev.part) => ApartAt(pending, sim, store, saved, dev, dev.part)
    BY <1>2 DEF ReceiveInv, Apart
  <1> QED
    BY <1>1, <1>2, <1>3, <1>4, <1>5, <1>6 DEF ApartAt

LEMMA ReceiveSingleStep ==
  ASSUME ReceiveInv, R!ReceiveSingle
  PROVE  ReceiveInv'
  <1>1. /\ dev.pc = "receive" /\ HasPart(dev) /\ InParts[R!Msg(dev.part)] = 1
        /\ saved' = Append(saved, <<dev.part>>)
        /\ dev' = [dev EXCEPT !.pc = "delete"]
        /\ UNCHANGED <<pending, sim, store, confused>>
    BY DEF R!ReceiveSingle, HasPart
  <1>2. PICK p \in R!Part : p = dev.part
    BY <1>1, HandFacts
  <1>3. /\ DevOK(dev) /\ dev \in DevState /\ sim[dev.place] = p /\ InSim(sim, p)
        /\ dev.combined \in Seq(R!Part) /\ dev.rest \in Seq(R!Part)
        /\ Good(confused, p) => p \notin pending /\ ~ Taken(store, saved, dev, p)
    BY <1>1, <1>2, HandFacts
  <1>4. /\ DevOK(dev') /\ HasPart(dev') /\ dev'.pc = "delete" /\ dev'.part = p
        /\ dev'.place = dev.place /\ dev'.combined = dev.combined /\ dev'.rest = dev.rest
    <2>1. dev' = Going(dev, "delete", dev.combined, dev.rest)
      BY <1>1, <1>3, SameFields
    <2>2. /\ DevOK(dev') /\ HasPart(dev') /\ dev'.pc = "delete" /\ dev'.part = dev.part
          /\ dev'.place = dev.place /\ dev'.combined = dev.combined /\ dev'.rest = dev.rest
      <3>1. HasPart(dev)
        BY <1>1
      <3>2. Gone(dev', dev, "delete", dev.combined, dev.rest)
        BY <3>1, <1>3, <2>1, PcOK
      <3> QED
        BY <3>2 DEF Gone
    <2> QED
      BY <1>2, <2>2
  <1>5. PICK x : x = <<p>>
    OBVIOUS
  <1>6. x \in Seq(R!Part) /\ x # <<>> /\ \A q : Occurs(x, q) <=> q = p
    BY <1>5 DEF Occurs
  <1>7. x = R!Whole(R!Msg(p))
    <2>1. p[2] = 1 /\ p = <<R!Msg(p), 1>>
      BY <1>1, <1>2, PartFacts
    <2>2. R!Whole(R!Msg(p)) = [i \in 1 .. 1 |-> <<R!Msg(p), i>>]
      BY <1>1, <1>2 DEF R!Whole
    <2>3. \A i \in 1 .. 1 : <<R!Msg(p), i>> = p
      BY <2>1
    <2>4. [i \in 1 .. 1 |-> <<R!Msg(p), i>>] = [i \in 1 .. 1 |-> p]
      BY <2>3
    <2> QED
      BY <1>5, <2>2, <2>4
  <1>8. saved \in Seq(Seq(R!Part)) /\ Files(saved, confused)
    BY DEF ReceiveInv, ReceiveType
  <1>9. /\ saved' \in Seq(Seq(R!Part)) /\ Files(saved', confused)
        /\ \A pe : Turn(pe, saved, confused) => Turn(pe, saved', confused)
        /\ \A q : InSaved(saved', q) <=> InSaved(saved, q) \/ q = p
    <2>1. \A q \in R!Part : Good(confused, q) /\ Occurs(x, q)
             => x = R!Whole(R!Msg(q)) /\ ~ InSaved(saved, q)
      BY <1>3, <1>6, <1>7 DEF Taken
    <2>2. saved' = Append(saved, x)
      BY <1>1, <1>2, <1>5
    <2> QED
      BY <1>6, <1>8, <2>1, <2>2, SavedOne
  <1>10. dev.combined = <<>> /\ dev.rest = <<>>
    BY <1>1, Unhanded
  <1>11. \A q : /\ Kept(store, dev', q) <=> Kept(store, dev, q)
                /\ Taken(store, saved', dev', q) <=> Taken(store, saved, dev, q) \/ q = p
    BY <1>4, <1>9 DEF Kept, Taken
  <1>12. ReceiveType'
    BY <1>1, <1>4, <1>9 DEF ReceiveInv, ReceiveType
  <1>13. Clean(sim', store', dev')
    BY <1>1, <1>3, <1>4, <1>10 DEF Clean
  <1>14. Combining(store', saved', dev', confused')
    BY <1>4, <1>9 DEF Combining
  <1>15. Apart(pending', sim', store', saved', dev', confused')
    <2> SUFFICES ASSUME NEW q \in R!Part, Good(confused, q)
                 PROVE  ApartAt(pending, sim, store, saved', dev', q)
      BY <1>1 DEF Apart
    <2>1. ApartAt(pending, sim, store, saved, dev, q)
      BY DEF ReceiveInv, Apart
    <2>2. Taken(store, saved, dev, q) => ~ InSim(sim, q)
      BY <1>1, Unhanded
    <2>3. CASE q = p
      BY <1>3, <1>4, <1>11, <2>1, <2>3, <1>10, OccursNothing DEF ApartAt, Taken
    <2>4. CASE q # p
      BY <1>4, <1>9, <1>11, <2>1, <2>2, <2>4 DEF ApartAt
    <2> QED
      BY <2>3, <2>4
  <1>16. Long(store', dev')
    BY <1>1, <1>11 DEF ReceiveInv, Long
  <1>17. Somewhere(pending', sim', store', saved', dev', confused')
    BY <1>1, <1>11 DEF ReceiveInv, Somewhere
  <1> QED
    BY <1>1, <1>9, <1>12, <1>13, <1>14, <1>15, <1>16, <1>17 DEF ReceiveInv

LEMMA ReceivePartStep ==
  ASSUME ReceiveInv, R!ReceivePart
  PROVE  ReceiveInv'
  <1>1. /\ dev.pc = "receive" /\ HasPart(dev) /\ InParts[R!Msg(dev.part)] > 1
        /\ store' = Append(store, dev.part)
        /\ dev' = [dev EXCEPT !.pc = IF R!Complete(store', dev.part) THEN "combine" ELSE "delete"]
        /\ UNCHANGED <<pending, sim, saved, confused>>
    BY DEF R!ReceivePart, HasPart
  <1>2. PICK p \in R!Part : p = dev.part
    BY <1>1, HandFacts
  <1>3. /\ DevOK(dev) /\ dev \in DevState /\ sim[dev.place] = p /\ InSim(sim, p)
        /\ dev.combined \in Seq(R!Part) /\ dev.rest \in Seq(R!Part)
        /\ Good(confused, p) => p \notin pending /\ ~ Taken(store, saved, dev, p)
    BY <1>1, <1>2, HandFacts
  <1>4. PICK c \in {"combine", "delete"} :
           /\ c = IF R!Complete(store', p) THEN "combine" ELSE "delete"
           /\ dev' = [dev EXCEPT !.pc = c]
    BY <1>1, <1>2
  <1>5. /\ DevOK(dev') /\ HasPart(dev') /\ dev'.pc = c /\ dev'.part = p
        /\ dev'.place = dev.place /\ dev'.combined = dev.combined /\ dev'.rest = dev.rest
    <2>1. dev' = Going(dev, c, dev.combined, dev.rest)
      BY <1>3, <1>4, SameFields
    <2>2. HasPart(dev)
      BY <1>1
    <2>3. Gone(dev', dev, c, dev.combined, dev.rest)
      BY <1>3, <2>1, <2>2, PcOK
    <2> QED
      BY <1>2, <2>3 DEF Gone
  <1>6. store' \in Seq(R!Part) /\ \A q : Occurs(store', q) <=> Occurs(store, q) \/ q = p
    <2>1. store \in Seq(R!Part) /\ store' = Append(store, p)
      BY <1>1, <1>2 DEF ReceiveInv, ReceiveType
    <2> QED
      BY <2>1, OccursAppend
  <1>7. dev.combined = <<>> /\ dev.rest = <<>>
    BY <1>1, Unhanded
  <1>8. \A q : /\ Kept(store', dev', q) <=> Kept(store, dev, q) \/ q = p
               /\ Taken(store', saved, dev', q) <=> Taken(store, saved, dev, q) \/ q = p
    BY <1>5, <1>6 DEF Kept, Taken
  <1>9. ReceiveType'
    BY <1>1, <1>5, <1>6 DEF ReceiveInv, ReceiveType
  <1>10. Clean(sim', store', dev')
    BY <1>1, <1>3, <1>5, <1>7 DEF Clean
  <1>11. Combining(store', saved', dev', confused')
    BY <1>4, <1>5, <1>6 DEF Combining
  <1>12. Apart(pending', sim', store', saved', dev', confused')
    <2> SUFFICES ASSUME NEW q \in R!Part, Good(confused, q)
                 PROVE  ApartAt(pending, sim, store', saved, dev', q)
      BY <1>1 DEF Apart
    <2>1. ApartAt(pending, sim, store, saved, dev, q)
      BY DEF ReceiveInv, Apart
    <2>2. Taken(store, saved, dev, q) => ~ InSim(sim, q)
      BY <1>1, Unhanded
    <2>3. CASE q = p
      BY <1>3, <1>5, <1>7, <1>8, <2>1, <2>3, OccursNothing DEF ApartAt, Taken
    <2>4. CASE q # p
      BY <1>5, <1>8, <2>1, <2>2, <2>4 DEF ApartAt
    <2> QED
      BY <2>3, <2>4
  <1>13. Long(store', dev')
    BY <1>1, <1>2, <1>8 DEF ReceiveInv, Long
  <1>14. Somewhere(pending', sim', store', saved', dev', confused')
    BY <1>1, <1>8 DEF ReceiveInv, Somewhere
  <1> QED
    BY <1>1, <1>9, <1>10, <1>11, <1>12, <1>13, <1>14 DEF ReceiveInv

(* What the part in hand excuses.                                           *)
LEMMA HandExcused ==
  ASSUME ReceiveInv, HasPart(dev)
  PROVE  LET E == confused \cup R!Touched({dev.part})
         IN  E \in SUBSET Incoming /\ Closed(E) /\ ~ Good(E, dev.part)
             /\ \A q \in R!Part : R!SameRef(q, dev.part) => ~ Good(E, q)
  <1>1. dev.part \in R!Part /\ {dev.part} \in SUBSET R!Part
    BY HandFacts
  <1>2. confused \in SUBSET Incoming /\ Closed(confused)
    BY DEF ReceiveInv, ReceiveType
  <1> QED
    BY <1>1, <1>2, TouchedFacts

LEMMA CannotStoreStep ==
  ASSUME ReceiveInv, R!CannotStore
  PROVE  ReceiveInv'
  <1>1. /\ dev.pc = "receive" /\ HasPart(dev)
        /\ dev' = [dev EXCEPT !.pc = "delete"]
        /\ confused' = confused \cup R!Touched({dev.part})
        /\ UNCHANGED <<pending, sim, store, saved>>
    BY DEF R!CannotStore, HasPart
  <1>2. /\ confused' \in SUBSET Incoming /\ Closed(confused') /\ ~ Good(confused', dev.part)
        /\ confused \subseteq confused'
    BY <1>1, HandExcused
  <1>3. /\ DevOK(dev) /\ dev \in DevState /\ sim[dev.place] = dev.part
        /\ dev.combined \in Seq(R!Part) /\ dev.rest \in Seq(R!Part)
    BY <1>1, HandFacts
  <1>4. Gone(dev', dev, "delete", dev.combined, dev.rest)
    <2>1. dev' = Going(dev, "delete", dev.combined, dev.rest)
      BY <1>1, <1>3, SameFields
    <2>2. HasPart(dev)
      BY <1>1
    <2> QED
      BY <1>3, <2>1, <2>2, PcOK
  <1>5. dev.combined = <<>> /\ dev.rest = <<>>
    BY <1>1, Unhanded
  <1>6. Clean(sim, store, dev') /\ Combining(store, saved, dev', confused')
    BY <1>2, <1>3, <1>4, <1>5 DEF Clean, Combining, Gone
  <1>7. \A q : Good(confused', q) => Good(confused, q)
    BY <1>2, MoreExcused
  <1>8. \A q \in R!Part : Good(confused', q) => ~ (InSim(sim, q) /\ Taken(store, saved, dev, q))
    BY <1>1, <1>7, Unhanded
  <1>9. DevOK(dev') /\ dev'.combined = dev.combined /\ dev'.rest = dev.rest
    BY <1>4 DEF Gone
  <1> QED
    BY <1>1, <1>2, <1>6, <1>8, <1>9, DevMoves

LEMMA DeleteFailsStep ==
  ASSUME ReceiveInv, R!DeleteFails
  PROVE  ReceiveInv'
  <1>1. /\ dev.pc = "delete" /\ HasPart(dev)
        /\ dev' = R!NextPlace([dev EXCEPT !.used = @ - 1])
        /\ confused' = confused \cup R!Touched({dev.part})
        /\ UNCHANGED <<pending, sim, store, saved>>
    BY DEF R!DeleteFails, HasPart
  <1>2. /\ confused' \in SUBSET Incoming /\ Closed(confused') /\ ~ Good(confused', dev.part)
        /\ confused \subseteq confused'
    BY <1>1, HandExcused
  <1>3. DevOK(dev)
    BY <1>1, HandFacts
  <1>4. /\ DevOK(dev') /\ ~ HasPart(dev') /\ dev'.pc \in {"idle", "read"}
        /\ dev'.combined = <<>> /\ dev'.rest = <<>>
    <2>1. PICK r : r = [dev EXCEPT !.used = @ - 1]
      OBVIOUS
    <2>2. r \in DevState /\ r.place \in 1 .. MEMORY /\ r.used \in 0 .. MEMORY
      BY <1>1, <1>3, <2>1, UsedOK
    <2>3. dev' = R!NextPlace(r)
      BY <1>1, <2>1
    <2> QED
      BY <2>2, <2>3, NextPlaceOK
  <1>5. dev.combined = <<>> /\ dev.rest = <<>>
    BY <1>1 DEF ReceiveInv, Clean
  <1>6. Clean(sim, store, dev') /\ Combining(store, saved, dev', confused')
    BY <1>4 DEF Clean, Combining
  <1>7. \A q : Good(confused', q) => Good(confused, q) /\ q # dev.part
    BY <1>2, MoreExcused
  <1>8. \A q \in R!Part : Good(confused', q) => ~ (InSim(sim, q) /\ Taken(store, saved, dev, q))
    BY <1>7 DEF ReceiveInv, Apart, ApartAt
  <1> QED
    BY <1>1, <1>2, <1>4, <1>5, <1>6, <1>8, DevMoves

LEMMA DeleteStep ==
  ASSUME ReceiveInv, R!Delete
  PROVE  ReceiveInv'
  <1>1. /\ dev.pc = "delete" /\ HasPart(dev)
        /\ sim' = [sim EXCEPT ![dev.place] = None]
        /\ dev' = R!NextPlace([dev EXCEPT !.used = @ - 1])
        /\ UNCHANGED <<pending, store, saved, confused>>
    BY DEF R!Delete, HasPart
  <1>2. PICK p \in R!Part : p = dev.part
    BY <1>1, HandFacts
  <1>3. /\ DevOK(dev) /\ dev.place \in R!Place /\ sim[dev.place] = p
        /\ sim \in [R!Place -> R!Part \cup {None}]
    BY <1>1, <1>2, HandFacts DEF ReceiveInv, ReceiveType
  <1>4. /\ DevOK(dev') /\ ~ HasPart(dev') /\ dev'.pc \in {"idle", "read"}
        /\ dev'.combined = <<>> /\ dev'.rest = <<>>
    <2>1. PICK r : r = [dev EXCEPT !.used = @ - 1]
      OBVIOUS
    <2>2. r \in DevState /\ r.place \in 1 .. MEMORY /\ r.used \in 0 .. MEMORY
      BY <1>1, <1>3, <2>1, UsedOK
    <2>3. dev' = R!NextPlace(r)
      BY <1>1, <2>1
    <2> QED
      BY <2>2, <2>3, NextPlaceOK
  <1>5. dev.combined = <<>> /\ dev.rest = <<>>
    BY <1>1 DEF ReceiveInv, Clean
  <1>6. /\ sim' \in [R!Place -> R!Part \cup {None}]
        /\ sim'[dev.place] = None /\ \A s \in R!Place : s # dev.place => sim'[s] = sim[s]
    BY <1>1, <1>3
  <1>7. \A q \in R!Part :
           /\ \A s \in R!Place : sim'[s] = q => sim[s] = q /\ s # dev.place
           /\ q # p => (InSim(sim', q) <=> InSim(sim, q))
           /\ InSim(sim', q) => InSim(sim, q)
    <2> SUFFICES ASSUME NEW q \in R!Part
                 PROVE  /\ \A s \in R!Place : sim'[s] = q => sim[s] = q /\ s # dev.place
                        /\ q # p => (InSim(sim', q) <=> InSim(sim, q))
                        /\ InSim(sim', q) => InSim(sim, q)
      OBVIOUS
    <2>1. \A s \in R!Place : sim'[s] = q => sim[s] = q /\ s # dev.place
      BY <1>6, PartFacts
    <2>2. InSim(sim', q) => InSim(sim, q)
      BY <2>1 DEF InSim
    <2>3. q # p => (InSim(sim, q) => InSim(sim', q))
      BY <1>3, <1>6 DEF InSim
    <2> QED
      BY <2>1, <2>2, <2>3
  <1>8. \A q : /\ Kept(store, dev', q) <=> Kept(store, dev, q)
               /\ Taken(store, saved, dev', q) <=> Taken(store, saved, dev, q)
               /\ Occurs(dev'.combined, q) <=> Occurs(dev.combined, q)
    BY <1>4, <1>5 DEF Kept, Taken
  <1>9. ReceiveType'
    BY <1>1, <1>4, <1>6 DEF ReceiveInv, ReceiveType
  <1>10. Clean(sim', store', dev') /\ Combining(store', saved', dev', confused')
    BY <1>4 DEF Clean, Combining
  <1>11. Apart(pending', sim', store', saved', dev', confused')
    <2> SUFFICES ASSUME NEW q \in R!Part, Good(confused, q)
                 PROVE  ApartAt(pending, sim', store, saved, dev', q)
      BY <1>1 DEF Apart
    <2>1. ApartAt(pending, sim, store, saved, dev, q)
      BY DEF ReceiveInv, Apart
    <2>2. InSim(sim', q) => ~ Taken(store, saved, dev, q)
      <3> SUFFICES ASSUME InSim(sim', q), Taken(store, saved, dev, q) PROVE FALSE
        OBVIOUS
      <3>1. q = p
        BY <1>2, <1>7, <2>1 DEF ApartAt
      <3>2. PICK s \in R!Place : sim'[s] = q
        BY DEF InSim
      <3>3. sim[s] = q /\ s # dev.place
        BY <1>7, <3>2
      <3> QED
        BY <1>3, <2>1, <3>1, <3>3 DEF ApartAt
    <2> QED
      BY <1>7, <1>8, <2>1, <2>2 DEF ApartAt
  <1>12. Long(store', dev')
    BY <1>1, <1>8 DEF ReceiveInv, Long
  <1>13. Somewhere(pending', sim', store', saved', dev', confused')
    <2>1. Good(confused, p) => Taken(store, saved, dev, p)
      BY <1>1, <1>2 DEF ReceiveInv, Combining, Taken, Kept
    <2> QED
      BY <1>1, <1>7, <1>8, <2>1 DEF ReceiveInv, Somewhere
  <1> QED
    BY <1>1, <1>9, <1>10, <1>11, <1>12, <1>13 DEF ReceiveInv

LEMMA KillStep ==
  ASSUME ReceiveInv, R!Kill
  PROVE  ReceiveInv'
  <1>1. PICK X : /\ X = CASE dev.pc \in {"combine", "save", "delete"} -> {dev.part}
                          [] dev.pc = "unlinked" -> (R!Elements(dev.rest) \cup {dev.part}) \ {None}
                          [] OTHER -> {}
                 /\ confused' = confused \cup R!Touched(X)
                 /\ dev.pc # "idle" /\ dev' = R!Idle
                 /\ UNCHANGED <<pending, sim, store, saved>>
    BY DEF R!Kill
  <1>2. /\ confused \in SUBSET Incoming /\ Closed(confused) /\ DevOK(dev) /\ dev \in DevState
        /\ dev.rest \in Seq(R!Part) /\ dev.combined \in Seq(R!Part)
        /\ dev.part \in R!Part \cup {None}
    BY DEF ReceiveInv, ReceiveType, DevOK, DevState
  <1>3. X \in SUBSET R!Part
    <2>1. CASE dev.pc \in {"combine", "save", "delete"}
      BY <1>1, <2>1, HandFacts DEF HasPart
    <2>2. CASE dev.pc = "unlinked"
      BY <1>1, <1>2, <2>2 DEF R!Elements
    <2>3. CASE dev.pc \notin {"combine", "save", "delete", "unlinked"}
      BY <1>1, <2>3
    <2> QED
      BY <2>1, <2>2, <2>3
  <1>4. /\ confused' \in SUBSET Incoming /\ Closed(confused') /\ confused \subseteq confused'
        /\ \A p \in X, q \in R!Part : R!SameRef(q, p) => ~ Good(confused', q)
        /\ \A p \in X : ~ Good(confused', p)
    BY <1>1, <1>2, <1>3, TouchedFacts
  <1>5. \A q : Good(confused', q) => Good(confused, q)
    BY <1>4, MoreExcused
  <1>6. ASSUME NEW q \in R!Part, Good(confused', q)
        PROVE  /\ ~ Occurs(dev.rest, q) /\ ~ Occurs(dev.combined, q)
               /\ ~ (InSim(sim, q) /\ Taken(store, saved, dev, q))
    <2>1. Good(confused, q) /\ ApartAt(pending, sim, store, saved, dev, q)
      BY <1>5, <1>6 DEF ReceiveInv, Apart
    <2>2. CASE dev.pc \in {"combine", "save", "delete"}
      <3>1. dev.part \in X /\ dev.pc # "unlinked"
        BY <1>1, <2>2
      <3>2. dev.rest = <<>> /\ (dev.combined = <<>> \/ (dev.pc = "save" /\ dev.part # None))
        BY <2>2, <3>1 DEF ReceiveInv, Clean
      <3>3. Occurs(dev.combined, q) => R!SameRef(q, dev.part)
        BY <3>2, OccursNothing DEF ReceiveInv, Combining
      <3> QED
        BY <1>4, <1>6, <2>1, <3>1, <3>2, <3>3, OccursNothing DEF ApartAt
    <2>3. CASE dev.pc = "unlinked"
      <3>1. \A p : Occurs(dev.rest, p) => p \in X
        BY <1>1, <1>2, <2>3, PartFacts DEF R!Elements, Occurs
      <3>2. dev.part # None => dev.part \in X
        BY <1>1, <2>3
      <3>3. Occurs(dev.combined, q) => dev.part # None /\ R!SameRef(q, dev.part)
        BY <2>3, OccursNothing DEF ReceiveInv, Combining, Clean
      <3> QED
        BY <1>4, <1>6, <2>1, <2>3, <3>1, <3>2, <3>3 DEF ApartAt, HasPart
    <2>4. CASE dev.pc \in {"read", "receive"}
      BY <2>1, <2>4, Unhanded, OccursNothing DEF HasPart
    <2> QED
      BY <1>1, <1>2, <2>2, <2>3, <2>4 DEF DevState
  <1>7. /\ DevOK(dev') /\ ~ HasPart(dev') /\ dev'.pc = "idle"
        /\ dev'.combined = <<>> /\ dev'.rest = <<>>
    BY <1>1, RestsOK
  <1>8. Clean(sim, store, dev') /\ Combining(store, saved, dev', confused')
    BY <1>7 DEF Clean, Combining
  <1>9. \A q : ~ Occurs(dev'.rest, q) /\ ~ Occurs(dev'.combined, q)
    BY <1>7, OccursNothing
  <1> QED
    BY <1>1, <1>4, <1>6, <1>7, <1>8, <1>9, DevMoves

LEMMA SaveStep ==
  ASSUME ReceiveInv, R!Save
  PROVE  ReceiveInv'
  <1>1. /\ dev.pc = "save" /\ HasPart(dev)
        /\ saved' = Append(saved, dev.combined)
        /\ dev' = [dev EXCEPT !.pc = "delete", !.combined = <<>>]
        /\ UNCHANGED <<pending, sim, store, confused>>
    BY DEF R!Save, HasPart
  <1>2. PICK p \in R!Part : p = dev.part
    BY <1>1, HandFacts
  <1>3. /\ DevOK(dev) /\ dev \in DevState /\ sim[dev.place] = p /\ p # None
        /\ dev.combined \in Seq(R!Part) /\ dev.rest \in Seq(R!Part)
    BY <1>1, <1>2, HandFacts
  <1>4. /\ DevOK(dev') /\ HasPart(dev') /\ dev'.pc = "delete" /\ dev'.part = p
        /\ dev'.place = dev.place /\ dev'.combined = <<>> /\ dev'.rest = dev.rest
    <2>1. dev' = Going(dev, "delete", <<>>, dev.rest)
      BY <1>1, <1>3, SameFields
    <2>2. HasPart(dev) /\ <<>> \in Seq(R!Part)
      BY <1>1
    <2>3. Gone(dev', dev, "delete", <<>>, dev.rest)
      BY <1>3, <2>1, <2>2, PcOK
    <2> QED
      BY <1>2, <2>3 DEF Gone
  <1>5. PICK x \in Seq(R!Part) : x = dev.combined
    BY <1>3
  <1>6. /\ x # <<>> /\ \A q \in R!Part : Occurs(x, q) => R!SameRef(q, p)
        /\ Good(confused, p) => x = R!Whole(R!Msg(p))
    BY <1>1, <1>2, <1>3, <1>5 DEF ReceiveInv, Combining
  <1>7. \A q \in R!Part : Good(confused, q) => ApartAt(pending, sim, store, saved, dev, q)
    BY DEF ReceiveInv, Apart
  <1>8. ASSUME NEW q \in R!Part, Good(confused, q), Occurs(x, q)
        PROVE  x = R!Whole(R!Msg(q)) /\ ~ InSaved(saved, q)
    <2>1. Good(confused, p)
      BY <1>6, <1>8, PartFacts DEF Good, ReceiveInv, Closed, R!SameRef
    <2>2. x = R!Whole(R!Msg(p)) /\ R!Msg(q) = R!Msg(p)
      BY <1>6, <1>8, <2>1, PartFacts, WholeFacts
    <2> QED
      BY <1>5, <1>7, <1>8, <2>2 DEF ApartAt
  <1>9. saved \in Seq(Seq(R!Part)) /\ Files(saved, confused)
    BY DEF ReceiveInv, ReceiveType
  <1>10. /\ saved' \in Seq(Seq(R!Part)) /\ Files(saved', confused)
         /\ \A pe : Turn(pe, saved, confused) => Turn(pe, saved', confused)
         /\ \A q : InSaved(saved', q) <=> InSaved(saved, q) \/ Occurs(x, q)
    <2>1. saved' = Append(saved, x)
      BY <1>1, <1>5
    <2> QED
      BY <1>6, <1>8, <1>9, <2>1, SavedOne
  <1>11. \A q : /\ Kept(store, dev', q) <=> Kept(store, dev, q)
                /\ Taken(store, saved', dev', q) <=> Taken(store, saved, dev, q)
                /\ ~ Occurs(dev'.combined, q)
    BY <1>4, <1>5, <1>10, OccursNothing DEF Kept, Taken
  <1>12. ReceiveType'
    BY <1>1, <1>4, <1>10 DEF ReceiveInv, ReceiveType
  <1>13. Clean(sim', store', dev')
    BY <1>1, <1>3, <1>4 DEF ReceiveInv, Clean
  <1>14. Combining(store', saved', dev', confused')
    <2>1. Good(confused, p) => InSaved(saved', p)
      BY <1>6, <1>10, PartFacts, WholeFacts
    <2> QED
      BY <1>1, <1>4, <2>1 DEF Combining
  <1>15. Apart(pending', sim', store', saved', dev', confused')
    <2> SUFFICES ASSUME NEW q \in R!Part, Good(confused, q)
                 PROVE  ApartAt(pending, sim, store, saved', dev', q)
      BY <1>1 DEF Apart
    <2>1. ApartAt(pending, sim, store, saved, dev, q)
      BY <1>7
    <2> QED
      BY <1>2, <1>4, <1>5, <1>10, <1>11, <2>1 DEF ApartAt
  <1>16. Long(store', dev')
    BY <1>1, <1>11 DEF ReceiveInv, Long
  <1>17. Somewhere(pending', sim', store', saved', dev', confused')
    BY <1>1, <1>11 DEF ReceiveInv, Somewhere
  <1> QED
    BY <1>1, <1>10, <1>12, <1>13, <1>14, <1>15, <1>16, <1>17 DEF ReceiveInv

LEMMA RenameStep ==
  ASSUME ReceiveInv, R!Rename
  PROVE  ReceiveInv'
  <1>1. /\ dev.pc = "unlinked" /\ store' = dev.rest
        /\ dev' = [dev EXCEPT !.pc = IF dev.part = None THEN "idle" ELSE "save", !.rest = <<>>]
        /\ UNCHANGED <<pending, sim, saved, confused>>
    BY DEF R!Rename
  <1>2. /\ DevOK(dev) /\ dev \in DevState /\ store = <<>>
        /\ dev.rest \in Seq(R!Part) /\ dev.combined \in Seq(R!Part)
    BY <1>1 DEF ReceiveInv, ReceiveType, DevOK, DevState, Clean
  <1>3. /\ DevOK(dev') /\ dev'.combined = dev.combined /\ dev'.rest = <<>>
        /\ dev.part = None => ~ HasPart(dev') /\ dev'.pc = "idle" /\ dev'.combined = <<>>
        /\ dev.part # None => /\ HasPart(dev') /\ dev'.pc = "save"
                              /\ dev'.part = dev.part /\ dev'.place = dev.place
    <2>1. CASE dev.part = None
      <3>1. dev' = Purged(dev)
        BY <1>1, <2>1 DEF Purged
      <3>2. dev.combined = <<>>
        BY <2>1 DEF ReceiveInv, Clean
      <3> QED
        BY <1>2, <2>1, <3>1, <3>2, PurgedOK
    <2>2. CASE dev.part # None
      <3>1. dev' = [dev EXCEPT !.pc = "save", !.rest = <<>>]
        BY <1>1, <2>2
      <3>2. dev' = Going(dev, "save", dev.combined, <<>>)
        BY <1>2, <3>1 DEF Going, DevState
      <3>3. HasPart(dev) /\ <<>> \in Seq(R!Part)
        BY <1>1, <2>2 DEF HasPart
      <3>4. Gone(dev', dev, "save", dev.combined, <<>>)
        BY <1>2, <3>2, <3>3, PcOK
      <3> QED
        BY <2>2, <3>4 DEF Gone
    <2> QED
      BY <2>1, <2>2
  <1>4. \A q : /\ Kept(store', dev', q) <=> Kept(store, dev, q)
               /\ Taken(store', saved, dev', q) <=> Taken(store, saved, dev, q)
               /\ Occurs(dev'.combined, q) <=> Occurs(dev.combined, q)
    BY <1>1, <1>2, <1>3, OccursNothing DEF Kept, Taken
  <1>5. dev.part # None => HasPart(dev)
    BY <1>1 DEF HasPart
  <1>6. ReceiveType'
    BY <1>1, <1>2, <1>3 DEF ReceiveInv, ReceiveType
  <1>7. Clean(sim', store', dev')
    BY <1>1, <1>3, <1>5 DEF ReceiveInv, Clean
  <1>8. Combining(store', saved', dev', confused')
    BY <1>1, <1>3 DEF ReceiveInv, Combining
  <1>9. Apart(pending', sim', store', saved', dev', confused')
    <2> SUFFICES ASSUME NEW q \in R!Part, Good(confused, q)
                 PROVE  ApartAt(pending, sim, store', saved, dev', q)
      BY <1>1 DEF Apart
    <2>1. ApartAt(pending, sim, store, saved, dev, q)
      BY DEF ReceiveInv, Apart
    <2>2. HasPart(dev) => dev.part # None
      BY <1>1 DEF HasPart
    <2> QED
      BY <1>3, <1>4, <2>1, <2>2 DEF ApartAt
  <1>10. Long(store', dev')
    BY <1>4 DEF ReceiveInv, Long
  <1>11. Somewhere(pending', sim', store', saved', dev', confused')
    BY <1>1, <1>4 DEF ReceiveInv, Somewhere
  <1> QED
    BY <1>1, <1>6, <1>7, <1>8, <1>9, <1>10, <1>11 DEF ReceiveInv

-----------------------------------------------------------------------------
(* Two good messages with one reference are not in the store together.      *)
LEMMA OneReference ==
  ASSUME ReceiveInv, NEW p \in R!Part, Good(confused, p), Occurs(store, p), dev.pc = "combine",
         NEW q \in R!Part, Occurs(store, q), R!SameRef(q, p)
  PROVE  Good(confused, q) /\ R!Msg(q) = R!Msg(p)
  <1>1. Good(confused, q)
    BY PartFacts DEF Good, ReceiveInv, Closed, R!SameRef
  <1>2. /\ ApartAt(pending, sim, store, saved, dev, p)
        /\ ApartAt(pending, sim, store, saved, dev, q)
    BY <1>1 DEF ReceiveInv, Apart
  <1>3. /\ p \notin pending /\ q \notin pending
        /\ ~ InSaved(saved, p) /\ ~ InSaved(saved, q)
    BY <1>2 DEF ApartAt, Taken, Kept
  <1>4. InParts[R!Msg(p)] > 1 /\ InParts[R!Msg(q)] > 1
    BY DEF ReceiveInv, Long, Kept
  <1>5. ASSUME NEW a \in R!Part, Good(confused, a), ~ InSaved(saved, a)
        PROVE  ~ IsOver(saved, confused, R!Msg(a))
    <2> SUFFICES ASSUME Occurs(saved, R!Whole(R!Msg(a))) PROVE FALSE
      BY <1>5 DEF Good, IsOver
    <2>1. Occurs(R!Whole(R!Msg(a)), a)
      BY PartFacts, WholeFacts
    <2> QED
      BY <1>5, <2>1 DEF Occurs, InSaved
  <1>6. ~ IsOver(saved, confused, R!Msg(p)) /\ ~ IsOver(saved, confused, R!Msg(q))
    BY <1>1, <1>3, <1>5
  <1>7. R!Msg(p) \notin Earlier[R!Msg(q)] /\ R!Msg(q) \notin Earlier[R!Msg(p)]
    BY <1>3, <1>6 DEF ReceiveInv, Turn
  <1> QED
    BY <1>1, <1>4, <1>7, PartFacts, ReceiveAssumption DEF R!SameRef

LEMMA FirstLineFacts ==
  ASSUME NEW st \in Seq(R!Part), NEW p \in R!Part, R!Complete(st, p),
         NEW i \in 1 .. InParts[R!Msg(p)]
  PROVE  LET q == R!FirstLine(st, p, i)
         IN  q \in R!Part /\ Occurs(st, q) /\ R!SameRef(q, p) /\ q[2] = i
  <1> DEFINE K == R!Lines(st, p, i)
  <1>1. K \in SUBSET Nat /\ K # {} /\ K \subseteq DOMAIN st
    BY DEF R!Complete, R!Lines
  <1>2. \E k \in K : \A l \in K : k <= l
    <2> HIDE DEF K
    <2> QED
      BY <1>1, LeastNatural
  <1>3. PICK k : k = CHOOSE c \in K : \A l \in K : c <= l
    OBVIOUS
  <1>4. k \in K
    BY <1>2, <1>3
  <1>5. R!FirstLine(st, p, i) = st[k]
    BY <1>3 DEF R!FirstLine
  <1>6. k \in DOMAIN st /\ R!SameRef(st[k], p) /\ st[k][2] = i /\ st[k] \in R!Part
    BY <1>4 DEF R!Lines
  <1> QED
    BY <1>5, <1>6 DEF Occurs

LEMMA CombineStep ==
  ASSUME ReceiveInv, R!Combine
  PROVE  ReceiveInv'
  <1>1. PICK cb, rs :
           /\ cb = [i \in 1 .. InParts[R!Msg(dev.part)] |-> R!FirstLine(store, dev.part, i)]
           /\ rs = R!Only(store, {q \in R!Part : ~ R!SameRef(q, dev.part)})
           /\ dev.pc = "combine" /\ HasPart(dev)
           /\ dev' = [dev EXCEPT !.pc = "unlinked", !.combined = cb, !.rest = rs]
           /\ store' = <<>>
           /\ UNCHANGED <<pending, sim, saved, confused>>
    BY DEF R!Combine, R!Remains, HasPart
  <1>2. PICK p \in R!Part : p = dev.part
    BY <1>1, HandFacts
  <1>3. /\ DevOK(dev) /\ dev \in DevState /\ sim[dev.place] = p /\ p # None
        /\ store \in Seq(R!Part) /\ Occurs(store, p) /\ R!Complete(store, p)
        /\ dev.combined = <<>> /\ dev.rest = <<>>
    BY <1>1, <1>2, HandFacts DEF ReceiveInv, ReceiveType, Combining, Clean
  <1>4. PICK S : S = {q \in R!Part : ~ R!SameRef(q, p)}
    OBVIOUS
  <1>5. rs \in Seq(R!Part) /\ \A q : Occurs(rs, q) <=> Occurs(store, q) /\ q \in S
    <2>1. rs = Only(store, S)
      BY <1>1, <1>2, <1>4, SameNames
    <2> QED
      BY <1>3, <2>1, OnlyPicks, OccursOnly
  <1>6. PICK m \in Incoming, n \in Nat \ {0} :
           m = R!Msg(p) /\ n = InParts[m] /\ cb = [i \in 1 .. n |-> R!FirstLine(store, p, i)]
    BY <1>1, <1>2, PartFacts, ReceiveAssumption
  <1>7. ASSUME NEW i \in 1 .. n
        PROVE  cb[i] \in R!Part /\ Occurs(store, cb[i]) /\ R!SameRef(cb[i], p) /\ cb[i][2] = i
    BY <1>3, <1>6, FirstLineFacts
  <1>8. cb \in Seq(R!Part) /\ cb # <<>> /\ DOMAIN cb = 1 .. n
    <2>1. \A i \in 1 .. n : R!FirstLine(store, p, i) \in R!Part
      BY <1>6, <1>7
    <2>2. cb \in Seq(R!Part) /\ DOMAIN cb = 1 .. n
      BY <1>6, <2>1
    <2>3. 1 \in DOMAIN cb
      BY <2>2
    <2> QED
      BY <2>2, <2>3
  <1>9. \A q : Occurs(cb, q) => q \in R!Part /\ Occurs(store, q) /\ R!SameRef(q, p)
    BY <1>7, <1>8 DEF Occurs
  <1>10. ASSUME Good(confused, p) PROVE cb = R!Whole(m)
    <2>1. ASSUME NEW i \in 1 .. n PROVE cb[i] = <<m, i>>
      <3>1. R!Msg(cb[i]) = m
        BY <1>1, <1>3, <1>6, <1>7, <1>10, OneReference
      <3> QED
        BY <1>7, <3>1, PartFacts
    <2>2. R!Whole(m) = [i \in 1 .. n |-> <<m, i>>]
      BY <1>6 DEF R!Whole
    <2>3. cb = [i \in 1 .. n |-> cb[i]]
      BY <1>6
    <2> QED
      BY <2>1, <2>2, <2>3
  <1>11. ASSUME NEW q \in R!Part, Good(confused, q), Occurs(store, q), R!SameRef(q, p)
         PROVE  Occurs(cb, q)
    <2>1. Good(confused, p)
      BY <1>11, PartFacts DEF Good, ReceiveInv, Closed, R!SameRef
    <2>2. R!Msg(q) = m
      BY <1>1, <1>3, <1>6, <1>11, <2>1, OneReference
    <2> QED
      BY <1>10, <2>1, <2>2, WholeFacts
  <1>12. /\ DevOK(dev') /\ HasPart(dev') /\ dev'.pc = "unlinked" /\ dev'.part = p
         /\ dev'.place = dev.place /\ dev'.combined = cb /\ dev'.rest = rs
    <2>1. dev' = Going(dev, "unlinked", cb, rs)
      BY <1>1 DEF Going
    <2>2. HasPart(dev)
      BY <1>1
    <2>3. Gone(dev', dev, "unlinked", cb, rs)
      BY <1>3, <1>5, <1>8, <2>1, <2>2, PcOK
    <2> QED
      BY <1>2, <2>3 DEF Gone
  <1>13. \A q : /\ Kept(store', dev', q) <=> Occurs(store, q) /\ q \in S
                /\ Occurs(dev'.combined, q) <=> Occurs(cb, q)
                /\ Kept(store, dev, q) <=> Occurs(store, q)
                /\ ~ Occurs(dev.combined, q)
    BY <1>1, <1>3, <1>5, <1>12, OccursNothing DEF Kept
  <1>14. \A q \in R!Part : Good(confused, q) =>
            (Taken(store', saved, dev', q) <=> Taken(store, saved, dev, q))
    BY <1>4, <1>9, <1>11, <1>13 DEF Taken
  <1>15. ReceiveType'
    BY <1>1, <1>12 DEF ReceiveInv, ReceiveType
  <1>16. Clean(sim', store', dev')
    BY <1>1, <1>3, <1>12 DEF Clean
  <1>17. Combining(store', saved', dev', confused')
    BY <1>1, <1>6, <1>8, <1>9, <1>10, <1>12 DEF Combining
  <1>18. Apart(pending', sim', store', saved', dev', confused')
    <2> SUFFICES ASSUME NEW q \in R!Part, Good(confused, q)
                 PROVE  ApartAt(pending, sim, store', saved, dev', q)
      BY <1>1 DEF Apart
    <2>1. ApartAt(pending, sim, store, saved, dev, q)
      BY DEF ReceiveInv, Apart
    <2>2. Kept(store', dev', q) => Kept(store, dev, q) /\ ~ Occurs(dev'.combined, q)
      BY <1>4, <1>9, <1>13
    <2>3. Occurs(dev'.combined, q) => Kept(store, dev, q)
      BY <1>9, <1>13
    <2> QED
      BY <1>2, <1>12, <1>14, <2>1, <2>2, <2>3 DEF ApartAt
  <1>19. Long(store', dev')
    BY <1>13 DEF ReceiveInv, Long
  <1>20. Somewhere(pending', sim', store', saved', dev', confused')
    BY <1>1, <1>14 DEF ReceiveInv, Somewhere
  <1> QED
    BY <1>1, <1>15, <1>16, <1>17, <1>18, <1>19, <1>20 DEF ReceiveInv

LEMMA PurgeStep ==
  ASSUME ReceiveInv, NEW old \in SUBSET R!Elements(store), R!Purge(old)
  PROVE  ReceiveInv'
  <1>1. PICK lines, rs, ext :
           /\ lines = R!Only(store, old) /\ rs = R!Only(store, R!Part \ old)
           /\ ext = [k \in DOMAIN lines |-> <<lines[k]>>]
           /\ dev.pc = "idle" /\ saved' = saved \o ext
           /\ dev' = [R!Idle EXCEPT !.pc = "unlinked", !.rest = rs]
           /\ store' = <<>> /\ confused' = confused \cup R!Touched(old)
           /\ UNCHANGED <<pending, sim>>
    BY DEF R!Purge
  <1>2. /\ store \in Seq(R!Part) /\ saved \in Seq(Seq(R!Part)) /\ Files(saved, confused)
        /\ confused \in SUBSET Incoming /\ Closed(confused)
        /\ ~ HasPart(dev) /\ dev.combined = <<>> /\ dev.rest = <<>>
    BY <1>1, Unhanded DEF ReceiveInv, ReceiveType, HasPart
  <1>3. old \in SUBSET R!Part
    BY <1>2 DEF R!Elements
  <1>4. /\ confused' \in SUBSET Incoming /\ Closed(confused') /\ confused \subseteq confused'
        /\ \A p \in old : ~ Good(confused', p)
    BY <1>1, <1>2, <1>3, TouchedFacts
  <1>5. \A q : Good(confused', q) => Good(confused, q) /\ q \notin old
    BY <1>4, MoreExcused
  <1>6. /\ rs \in Seq(R!Part) /\ \A q : Occurs(rs, q) <=> Occurs(store, q) /\ q \in R!Part \ old
        /\ lines \in Seq(R!Part) /\ \A q : Occurs(lines, q) => q \in old
    <2>1. rs = Only(store, R!Part \ old) /\ lines = Only(store, old)
      BY <1>1, SameNames
    <2> QED
      BY <1>2, <2>1, OnlyPicks, OccursOnly
  <1>7. /\ ext \in Seq(Seq(R!Part)) /\ Len(ext) = Len(lines)
        /\ \A k \in 1 .. Len(ext) : ext[k] = <<lines[k]>> /\ lines[k] \in old
    <2>1. PICK n \in Nat : n = Len(lines)
      BY <1>6
    <2>2. DOMAIN lines = 1 .. n /\ \A k \in 1 .. n : lines[k] \in R!Part /\ lines[k] \in old
      BY <1>6, <2>1 DEF Occurs
    <2>3. PICK X : X = Seq(R!Part)
      OBVIOUS
    <2>4. \A k \in 1 .. n : <<lines[k]>> \in X
      BY <2>2, <2>3
    <2>5. ext = [k \in 1 .. n |-> <<lines[k]>>]
      BY <1>1, <2>2
    <2>6. ext \in Seq(X) /\ Len(ext) = n
      BY <2>1, <2>4, <2>5
    <2> QED
      BY <2>1, <2>2, <2>3, <2>5, <2>6
  <1>8. /\ saved' \in Seq(Seq(R!Part)) /\ Files(saved', confused')
        /\ Turn(pending, saved', confused')
        /\ \A q \in R!Part : Good(confused', q) => (InSaved(saved', q) <=> InSaved(saved, q))
    <2>1. PICK X : X = Seq(R!Part)
      OBVIOUS
    <2>0. saved \in Seq(X) /\ ext \in Seq(X)
      BY <1>2, <1>7, <2>1
    <2>9. saved \o ext \in Seq(X)
      BY <2>0
    <2>2. PICK sv2 \in Seq(X) : sv2 = saved \o ext
      BY <2>9
    <2>3. /\ DOMAIN saved = 1 .. Len(saved) /\ Len(saved) \in Nat
          /\ DOMAIN sv2 = 1 .. Len(saved) + Len(ext) /\ Len(ext) \in Nat
          /\ \A k \in 1 .. Len(saved) : sv2[k] = saved[k]
          /\ \A k \in Len(saved) + 1 .. Len(saved) + Len(ext) : sv2[k] = ext[k - Len(saved)]
      <3>1. saved \in Seq(X) /\ ext \in Seq(X)
        BY <1>2, <1>7, <2>1
      <3> QED
        BY <2>2, <3>1
    <2>4. ASSUME NEW k \in DOMAIN sv2 \ DOMAIN saved
          PROVE  sv2[k] # <<>> /\ \A q : Occurs(sv2[k], q) => ~ Good(confused', q)
      <3>1. k - Len(saved) \in 1 .. Len(ext) /\ sv2[k] = ext[k - Len(saved)]
        BY <2>3
      <3>2. PICK x \in old : sv2[k] = <<x>>
        BY <1>7, <3>1
      <3>3. \A q : Occurs(<<x>>, q) => q = x
        BY DEF Occurs
      <3>4. <<x>> # <<>>
        OBVIOUS
      <3> QED
        BY <1>4, <3>2, <3>3, <3>4
    <2>5. DOMAIN saved \subseteq DOMAIN sv2
      BY <2>3
    <2>6. Files(saved, confused') /\ Turn(pending, saved, confused')
      BY <1>4, MoreExcused DEF ReceiveInv
    <2>7. Files(sv2, confused') /\ Turn(pending, sv2, confused')
          /\ \A q : InSaved(saved, q) => InSaved(sv2, q)
      BY <1>2, <2>1, <2>3, <2>4, <2>5, <2>6, SavedMore
    <2>8. \A q : Good(confused', q) /\ InSaved(sv2, q) => InSaved(saved, q)
      BY <2>3, <2>4 DEF InSaved
    <2> QED
      BY <1>1, <2>1, <2>2, <2>7, <2>8
  <1>9. /\ DevOK(dev') /\ ~ HasPart(dev') /\ dev'.pc = "unlinked" /\ dev'.part = None
        /\ dev'.combined = <<>> /\ dev'.rest = rs
    <2>1. dev' = Purging(rs)
      BY <1>1 DEF Purging
    <2> QED
      BY <1>6, <2>1, PurgeOK
  <1>10. \A q \in R!Part : Good(confused', q) =>
            /\ Kept(store', dev', q) <=> Kept(store, dev, q)
            /\ Taken(store', saved', dev', q) <=> Taken(store, saved, dev, q)
            /\ ~ Occurs(dev'.combined, q) /\ ~ Occurs(dev.combined, q)
    BY <1>1, <1>2, <1>5, <1>6, <1>8, <1>9, OccursNothing DEF Kept, Taken
  <1>11. ReceiveType'
    BY <1>1, <1>4, <1>8, <1>9 DEF ReceiveInv, ReceiveType
  <1>12. Clean(sim', store', dev') /\ Combining(store', saved', dev', confused')
    BY <1>1, <1>9 DEF Clean, Combining
  <1>13. Apart(pending', sim', store', saved', dev', confused')
    <2> SUFFICES ASSUME NEW q \in R!Part, Good(confused', q)
                 PROVE  ApartAt(pending, sim, store', saved', dev', q)
      BY <1>1 DEF Apart
    <2>1. ApartAt(pending, sim, store, saved, dev, q)
      BY <1>5 DEF ReceiveInv, Apart
    <2> QED
      BY <1>2, <1>8, <1>10, <2>1 DEF ApartAt
  <1>14. Long(store', dev')
    BY <1>1, <1>6, <1>9, OccursNothing DEF ReceiveInv, Long, Kept
  <1>15. Somewhere(pending', sim', store', saved', dev', confused')
    BY <1>1, <1>5, <1>10 DEF ReceiveInv, Somewhere
  <1> QED
    BY <1>1, <1>4, <1>8, <1>11, <1>12, <1>13, <1>14, <1>15 DEF ReceiveInv

-----------------------------------------------------------------------------
(* Nothing has come.                                                        *)
LEMMA ReceiveInitially == R!Init => ReceiveInv
  <1> SUFFICES ASSUME R!Init PROVE ReceiveInv
    OBVIOUS
  <1>1. /\ pending = R!Part /\ sim = [s \in R!Place |-> None]
        /\ store = <<>> /\ saved = <<>> /\ dev = R!Idle /\ confused = {}
    BY DEF R!Init
  <1>2. DevOK(dev) /\ ~ HasPart(dev) /\ dev.pc = "idle" /\ dev.combined = <<>> /\ dev.rest = <<>>
    BY <1>1, RestsOK
  <1>3. \A p : ~ Taken(store, saved, dev, p)
    BY <1>1, <1>2, OccursNothing DEF Taken, Kept, InSaved
  <1>4. \A p \in R!Part : ~ InSim(sim, p)
    BY <1>1, PartFacts DEF InSim
  <1>5. ReceiveType
    BY <1>1, <1>2 DEF ReceiveType
  <1>6. Clean(sim, store, dev) /\ Combining(store, saved, dev, confused)
    BY <1>2 DEF Clean, Combining
  <1>7. Apart(pending, sim, store, saved, dev, confused)
    BY <1>3, <1>4 DEF Apart, ApartAt, Taken, InSim
  <1>8. Files(saved, confused) /\ Turn(pending, saved, confused) /\ Closed(confused)
    BY <1>1 DEF Files, Turn, Closed
  <1>9. Long(store, dev) /\ Somewhere(pending, sim, store, saved, dev, confused)
    BY <1>1, <1>3 DEF Long, Somewhere, Taken
  <1> QED
    BY <1>5, <1>6, <1>7, <1>8, <1>9 DEF ReceiveInv

(* Every step keeps the invariant.                                          *)
LEMMA ReceiveStep == ReceiveInv /\ [R!Next]_(R!vars) => ReceiveInv'
  <1> SUFFICES ASSUME ReceiveInv, [R!Next]_(R!vars) PROVE ReceiveInv'
    OBVIOUS
  <1>1. CASE R!Receive
    BY <1>1, CheckMemoryStep, ReadStep, ReceiveSingleStep, ReceivePartStep, CombineStep,
       RenameStep, SaveStep, DeleteStep DEF R!Receive
  <1>2. CASE R!Network
    BY <1>2, DeliverStep DEF R!Network
  <1>3. CASE R!Fault
    BY <1>3, DeliverTwiceStep, ReadStep, CannotStoreStep, DeleteFailsStep, KillStep, PurgeStep
       DEF R!Fault
  <1>4. CASE UNCHANGED R!vars
    BY <1>4 DEF R!vars, ReceiveInv, ReceiveType
  <1> QED
    BY <1>1, <1>2, <1>3, <1>4 DEF R!Next

(* NothingLost follows from it.                                             *)
LEMMA KeepsAll == ReceiveInv => NothingLost
  <1> SUFFICES ASSUME ReceiveInv PROVE NothingLost
    OBVIOUS
  <1>1. R!NothingLost
    <2> SUFFICES ASSUME NEW p \in R!Part \ pending, R!Msg(p) \notin confused
                 PROVE  \/ p \in R!Elements(store) \cup R!Elements(dev.rest)
                                \cup R!Elements(dev.combined)
                        \/ \E s \in R!Place : sim[s] = p
                        \/ \E k \in DOMAIN saved : p \in R!Elements(saved[k])
      BY DEF R!NothingLost
    <2>1. InSim(sim, p) \/ Taken(store, saved, dev, p)
      BY DEF ReceiveInv, Somewhere, Good
    <2> QED
      BY <2>1 DEF InSim, Taken, Kept, InSaved, Occurs, R!Elements
  <1>2. R!OneMessage
    <2> SUFFICES ASSUME NEW k \in DOMAIN saved, R!Msg(saved[k][1]) \notin confused
                 PROVE  /\ saved[k] = R!Whole(R!Msg(saved[k][1]))
                        /\ \A l \in DOMAIN saved : saved[l] = saved[k] => l = k
      BY DEF R!OneMessage
    <2>1. saved \in Seq(Seq(R!Part)) /\ Files(saved, confused)
      BY DEF ReceiveInv, ReceiveType
    <2>2. saved[k] \in Seq(R!Part) /\ saved[k] # <<>>
      BY <2>1 DEF Files
    <2>3. PICK p : p = saved[k][1]
      OBVIOUS
    <2>4. p \in R!Part /\ Occurs(saved[k], p)
      <3>1. 1 \in DOMAIN saved[k]
        BY <2>2
      <3> QED
        BY <2>2, <2>3, <3>1 DEF Occurs
    <2>5. Good(confused, p)
      BY <2>3, <2>4 DEF Good
    <2> QED
      BY <2>1, <2>3, <2>4, <2>5 DEF Files
  <1> QED
    BY <1>1, <1>2 DEF NothingLost

(* The other processes of the system do not touch it.                       *)
LEMMA OthersLeaveReceive == [PhonesNext]_phones => [R!Next]_(R!vars)
  BY DEF PhonesNext, phones, receive, R!vars, Driver, Spool, Receive, Dialogue, Device, Splits

(* smsd.c, received2file and do_ic_purge: a part the network has delivered  *)
(* is in the modem, in the store or in a file at every step, those of the   *)
(* rewriting of the store and a kill included; and a file holds a message   *)
(* whole, and no two the same one.  A message is excused, by being in       *)
(* confused, when a part of it came twice, could not be written, was not    *)
(* deleted by the modem or was purged, and when the process was killed      *)
(* between taking a part of it and deleting it from the modem.              *)
THEOREM PartsKept == PhonesSpec => []NothingLost
  <1>1. PhonesInit => ReceiveInv  BY ReceiveInitially DEF PhonesInit
  <1>2. ReceiveInv /\ [PhonesNext]_phones => ReceiveInv'
    BY ReceiveStep, OthersLeaveReceive
  <1> QED  BY <1>1, <1>2, KeepsAll, PTL DEF PhonesSpec

-----------------------------------------------------------------------------
(* The loop of a modem process.  Each call is in the list of the modem once;*)
(* what readphonecalls has read is that list, or what makes them differ has *)
(* spoiled the calls of the list; and a call that waits has been reported   *)
(* exactly if the process is about to remove it.                            *)
CallsKept(pc, seen, l, m, rep) ==
    /\ \A i, j \in DOMAIN l : l[i] = l[j] => i = j
    /\ pc = "save" => seen = l \/ \A c : Occurs(l, c) \/ Occurs(seen, c) => c \in m
    /\ pc = "remove" => seen = l \/ \A c : Occurs(l, c) => c \in m
    /\ \A c \in Call \ m :
          /\ Occurs(l, c) => rep[c] = IF pc = "remove" THEN 1 ELSE 0
          /\ rep[c] <= 1

InCalls == {"save", "remove"}

(* Where check_suspend was called from, and the count at a message to send. *)
Returns(pr, n) ==
    /\ pr.pc = "suspended" => pr.at \in {"start", "out", "in", "end"}
    /\ pr.pc \in {"opening", "send"} => n < LIMIT

DeviceInv ==
    /\ D!TypeOK
    /\ Returns(dproc, count)
    /\ CallsKept(dproc.pc, dproc.seen, list, moved, reported)

(* What a step that has nothing to do with the calls does to them.          *)
AwayFromCalls ==
    /\ UNCHANGED <<list, reported, moved>>
    /\ dproc' = dproc \/ (dproc.pc \notin InCalls /\ dproc'.pc \notin InCalls)

(* The parts of the types apart: the process, and everything else.          *)
ProcType == [pc : D!Pc, at : D!Pc, was_open : BOOLEAN, workless : BOOLEAN, silent : BOOLEAN,
             seen : Seq(Call), errors : 0 .. ERRORS]

RestTyped ==
    /\ DEVICE \in Devices
    /\ dport \in {"open", "closed"} /\ string \in {"none", "start", "stop"}
    /\ queue \in Nat /\ count \in 0 .. LIMIT /\ request \in BOOLEAN
    /\ suspend \in {"none", "listed", "others"}
    /\ break_suspend \in BOOLEAN /\ dterm \in BOOLEAN

CallsTyped == list \in Seq(Call) /\ reported \in [Call -> Nat] /\ moved \subseteq Call

LEMMA DeviceTypes == D!TypeOK <=> dproc \in ProcType /\ RestTyped /\ CallsTyped
  BY Zenon DEF D!TypeOK, ProcType, RestTyped, CallsTyped

LEMMA AwayKeeps ==
  ASSUME DeviceInv, AwayFromCalls, D!TypeOK', Returns(dproc', count')
  PROVE  DeviceInv' /\ list' = list /\ \A c \in Call \ moved' : reported'[c] <= 1
  BY DEF DeviceInv, AwayFromCalls, CallsKept, InCalls

(* What such a step comes to, and the places it may lead to.                *)
Passes == AwayFromCalls /\ D!TypeOK' /\ Returns(dproc', count')
Places == D!Pc \ {"save", "remove", "suspended"}

LEMMA ProcMoves ==
  ASSUME DeviceInv, dproc' \in ProcType, dproc.pc \notin InCalls, dproc'.pc \notin InCalls,
         Returns(dproc', count'), RestTyped', UNCHANGED D!calls
  PROVE  Passes
  <1>1. CallsTyped'
    BY DeviceTypes DEF DeviceInv, CallsTyped, D!calls
  <1>2. D!TypeOK'
    BY <1>1, dproc' \in ProcType, RestTyped' DEF D!TypeOK, CallsTyped, RestTyped, ProcType
  <1> QED
    BY <1>2 DEF Passes, AwayFromCalls, D!calls

LEMMA GoPasses ==
  ASSUME DeviceInv, NEW pc \in Places, D!Go(pc), dproc.pc \notin InCalls,
         pc \in {"opening", "send"} => count' < LIMIT,
         RestTyped', UNCHANGED D!calls
  PROVE  Passes
  <1>1. dproc \in ProcType
    BY DeviceTypes DEF DeviceInv
  <1>2. dproc' \in ProcType /\ dproc'.pc = pc
    BY <1>1 DEF ProcType, D!Go, Places
  <1> QED
    BY <1>2, ProcMoves DEF Returns, Places, InCalls

LEMMA WorkPasses ==
  ASSUME DeviceInv, NEW pc \in Places \ {"opening", "send"}, NEW w \in BOOLEAN,
         \/ dproc' = [dproc EXCEPT !.workless = w, !.pc = pc]
         \/ dproc' = [dproc EXCEPT !.pc = pc, !.workless = w]
         \/ dproc' = [dproc EXCEPT !.pc = pc, !.silent = w],
         dproc.pc \notin InCalls, RestTyped', UNCHANGED D!calls
  PROVE  Passes
  <1>1. dproc \in ProcType
    BY DeviceTypes DEF DeviceInv
  <1>2. dproc' \in ProcType /\ dproc'.pc = pc
    BY <1>1 DEF ProcType, Places
  <1> QED
    BY <1>2, ProcMoves DEF Returns, Places, InCalls

LEMMA SuspendPasses ==
  ASSUME DeviceInv, dproc.pc \in {"start", "out", "in", "end"}, NEW b \in BOOLEAN,
         dproc' = [dproc EXCEPT !.pc = "suspended", !.at = dproc.pc, !.was_open = b],
         RestTyped', UNCHANGED D!calls
  PROVE  Passes
  <1>1. dproc \in ProcType
    BY DeviceTypes DEF DeviceInv
  <1>2. dproc' \in ProcType /\ dproc'.pc = "suspended" /\ dproc'.at = dproc.pc
    BY <1>1 DEF ProcType, D!Pc
  <1> QED
    BY <1>2, ProcMoves DEF Returns, InCalls

LEMMA AfterIs ==
  ASSUME NEW pc \in {"start", "out", "in", "end"}
  PROVE  D!After(pc) \in Places \ {"opening", "send"}
  BY DEF D!After, Places, D!Pc

LEMMA RestIs == DeviceInv => RestTyped /\ dproc \in ProcType /\ Returns(dproc, count)
  BY DeviceTypes DEF DeviceInv

LEMMA DeviceSuspends ==
  ASSUME DeviceInv, D!check_suspend \/ D!StopStringFails \/ D!SuspendEnds
                    \/ D!ReopenFails \/ D!SuspendedEnds
  PROVE  Passes
  <1>0. RestTyped /\ dproc \in ProcType /\ Returns(dproc, count)
    BY RestIs
  <1>1. CASE D!check_suspend
    <2>1. dproc.pc \in {"start", "out", "in", "end"}
      BY <1>1 DEF D!check_suspend, D!Checks
    <2>2. RestTyped' /\ UNCHANGED D!calls
      BY <1>0, <1>1 DEF D!check_suspend, RestTyped, D!orders
    <2>3. CASE D!Suspended
      BY <1>1, <2>1, <2>2, <2>3, SuspendPasses DEF D!check_suspend
    <2>4. CASE ~ D!Suspended
      BY <1>1, <2>1, <2>2, <2>4, AfterIs, GoPasses DEF D!check_suspend, InCalls
    <2> QED
      BY <2>3, <2>4
  <1>2. CASE D!StopStringFails
    <2>1. dproc.pc \in {"start", "out", "in", "end"}
      BY <1>2 DEF D!StopStringFails, D!Checks
    <2>2. RestTyped' /\ UNCHANGED D!calls
      BY <1>0, <1>2 DEF D!StopStringFails, RestTyped, D!orders
    <2> QED
      BY <1>2, <2>1, <2>2, SuspendPasses DEF D!StopStringFails
  <1>3. ASSUME D!SuspendEnds \/ D!ReopenFails \/ D!SuspendedEnds PROVE Passes
    <2>1. dproc.pc = "suspended" /\ D!After(dproc.at) \in Places \ {"opening", "send"}
      BY <1>0, <1>3, AfterIs DEF D!SuspendEnds, D!ReopenFails, D!SuspendedEnds, Returns
    <2>2. RestTyped' /\ UNCHANGED D!calls
      BY <1>0, <1>3 DEF D!SuspendEnds, D!ReopenFails, D!SuspendedEnds, RestTyped, D!orders, D!users
    <2>3. "leave" \in Places \ {"opening", "send"}
      BY DEF Places, D!Pc
    <2>4. PICK to : to = IF dterm THEN "leave" ELSE D!After(dproc.at)
      OBVIOUS
    <2>5. D!Go(to) \/ D!Go(D!After(dproc.at))
          \/ dproc' = [dproc EXCEPT !.pc = "leave", !.silent = TRUE]
      BY <1>3, <2>4 DEF D!SuspendEnds, D!ReopenFails, D!SuspendedEnds
    <2>6. to \in Places \ {"opening", "send"}
      BY <2>1, <2>3, <2>4
    <2> QED
      BY <2>1, <2>2, <2>3, <2>5, <2>6, GoPasses, WorkPasses DEF InCalls
  <1> QED
    BY <1>1, <1>2, <1>3

LEMMA DeviceSends ==
  ASSUME DeviceInv,
         \/ D!Open("open", "string") \/ D!Open("opening", "send") \/ D!OpenFails
         \/ D!StartString \/ D!FirstInitializationFails \/ D!Round \/ D!Told \/ D!Limit
         \/ D!Sent \/ D!SentForLong \/ D!MessageRejected \/ D!NotSent \/ D!NoFile
  PROVE  Passes
  <1>0. RestTyped /\ dproc \in ProcType /\ Returns(dproc, count)
    BY RestIs
  <1>1. {"string", "leave", "round", "out", "in"} \subseteq Places \ {"opening", "send"}
        /\ {"opening", "send"} \subseteq Places
    BY DEF Places, D!Pc
  <1>2. CASE D!Open("open", "string") \/ D!Open("opening", "send")
    <2>1. RestTyped' /\ UNCHANGED <<D!calls, count>>
      BY <1>0, <1>2 DEF D!Open, RestTyped, D!orders, D!users
    <2> QED
      BY <1>0, <1>1, <1>2, <2>1, GoPasses DEF D!Open, InCalls, Returns
  <1>3. CASE D!OpenFails
    <2>1. RestTyped' /\ UNCHANGED D!calls
      BY <1>0, <1>3 DEF D!OpenFails, RestTyped, D!orders, D!users
    <2> QED
      BY <1>1, <1>3, <2>1, GoPasses DEF D!OpenFails, InCalls
  <1>4. CASE D!StartString \/ D!FirstInitializationFails
    <2>1. RestTyped' /\ UNCHANGED D!calls
      BY <1>0, <1>4 DEF D!StartString, D!FirstInitializationFails, RestTyped, D!orders, D!users
    <2>2. PICK to : to = IF dterm THEN "leave" ELSE "round"
      OBVIOUS
    <2>3. (D!Go(to) \/ D!Go("leave")) /\ dproc.pc = "string"
      BY <1>4, <2>2 DEF D!StartString, D!FirstInitializationFails
    <2> QED
      BY <1>1, <2>1, <2>2, <2>3, GoPasses DEF InCalls
  <1>5. CASE D!Round \/ D!Told
    <2>1. RestTyped' /\ UNCHANGED D!calls
      BY <1>0, <1>5 DEF D!Round, D!Told, RestTyped, D!orders, D!users
    <2>2. PICK to : to = IF dterm THEN "leave" ELSE "out"
      OBVIOUS
    <2>3. /\ dproc' = [dproc EXCEPT !.pc = to, !.workless = TRUE] \/ D!Go("leave")
          /\ dproc.pc \in {"round", "out", "in"}
      BY <1>5, <2>2 DEF D!Round, D!Told
    <2> QED
      BY <1>1, <2>1, <2>2, <2>3, GoPasses, WorkPasses DEF InCalls
  <1>6. CASE D!Limit
    <2>1. RestTyped' /\ UNCHANGED D!calls
      <3>1. count' \in {count, 0} /\ request' \in {request, FALSE}
        BY <1>6 DEF D!Limit
      <3>2. UNCHANGED <<dport, string, queue, D!users, D!calls>>
        BY <1>6 DEF D!Limit
      <3> QED
        <4>1. request' \in BOOLEAN
          BY <1>0, <3>1, Zenon DEF RestTyped
        <4>2. count' \in 0 .. LIMIT
          BY <1>0, <3>1, DeviceAssumption DEF RestTyped
        <4> QED
          BY <1>0, <3>2, <4>1, <4>2 DEF RestTyped, D!users
    <2>2. count' \in Nat /\ LIMIT \in Nat
      BY <2>1, DeviceAssumption DEF RestTyped
    <2>3. D!Go("in") \/ (D!Go("opening") /\ count' < LIMIT)
      BY <1>6, <2>2 DEF D!Limit
    <2> QED
      BY <1>1, <1>6, <2>1, <2>3, GoPasses DEF InCalls, D!Limit
  <1>7. CASE D!Sent \/ D!SentForLong \/ D!MessageRejected \/ D!NotSent \/ D!NoFile
    <2>1. dproc.pc = "send" /\ UNCHANGED D!calls
      BY <1>7 DEF D!Sent, D!SentForLong, D!MessageRejected, D!NotSent, D!NoFile
    <2>2. RestTyped'
      <3>1. count \in 0 .. LIMIT /\ count < LIMIT /\ LIMIT \in Nat
        BY <1>0, <2>1, DeviceAssumption DEF RestTyped, Returns
      <3>2. count' \in 0 .. LIMIT
        BY <1>7, <3>1 DEF D!Sent, D!SentForLong, D!MessageRejected, D!NotSent, D!NoFile, D!orders
      <3>3. queue' \in Nat
        BY <1>0, <1>7 DEF D!Sent, D!SentForLong, D!MessageRejected, D!NotSent, D!NoFile, D!orders, RestTyped
      <3>4. UNCHANGED <<dport, string, request, D!users>>
        BY <1>7 DEF D!Sent, D!SentForLong, D!MessageRejected, D!NotSent, D!NoFile, D!orders
      <3> QED
        BY <1>0, <3>2, <3>3, <3>4 DEF RestTyped, D!users
    <2>3. PICK to : to = IF DEVICE.incoming = 2 THEN "in" ELSE IF dterm THEN "leave" ELSE "out"
      OBVIOUS
    <2>4. \/ dproc' = [dproc EXCEPT !.workless = FALSE, !.pc = to]
          \/ dproc' = [dproc EXCEPT !.workless = FALSE, !.pc = "in"]
          \/ D!Go("in")
      BY <1>7, <2>3 DEF D!Sent, D!SentForLong, D!MessageRejected, D!NotSent, D!NoFile
    <2> QED
      BY <1>1, <2>1, <2>2, <2>3, <2>4, GoPasses, WorkPasses DEF InCalls
  <1> QED
    BY <1>2, <1>3, <1>4, <1>5, <1>6, <1>7

LEMMA DeviceGoesRound ==
  ASSUME DeviceInv,
         \/ D!NoReceiving \/ D!receivesms \/ D!Skip_rr \/ D!run_rr \/ D!run_rrFails
         \/ D!Close \/ D!Rest \/ D!Leave \/ D!Users
  PROVE  Passes
  <1>0. RestTyped /\ dproc \in ProcType /\ Returns(dproc, count)
    BY RestIs
  <1>1. {"calls", "leave", "end", "rest", "round", "ended"} \subseteq Places \ {"opening", "send"}
    BY DEF Places, D!Pc
  <1>2. CASE D!NoReceiving
    <2>1. RestTyped' /\ UNCHANGED D!calls
      BY <1>0, <1>2 DEF D!NoReceiving, RestTyped, D!orders, D!users
    <2> QED
      BY <1>1, <1>2, <2>1, GoPasses DEF InCalls, D!NoReceiving
  <1>3. CASE D!receivesms
    <2>1. RestTyped' /\ UNCHANGED D!calls /\ dproc.pc = "receive"
      BY <1>0, <1>3 DEF D!receivesms, RestTyped, D!orders, D!users
    <2>2. PICK to : to = IF dterm THEN "leave" ELSE "calls"
      OBVIOUS
    <2>3. PICK w \in {dproc.workless, FALSE} : dproc' = [dproc EXCEPT !.workless = w, !.pc = to]
      BY <1>3, <2>2 DEF D!receivesms
    <2>4. w \in BOOLEAN
      BY <1>0, <2>3 DEF ProcType
    <2> QED
      BY <1>1, <2>1, <2>2, <2>3, <2>4, WorkPasses DEF InCalls
  <1>4. CASE D!Skip_rr \/ D!run_rr \/ D!run_rrFails
    <2>1. RestTyped' /\ UNCHANGED D!calls /\ dproc.pc \in {"rr", "rest"}
      BY <1>0, <1>4 DEF D!Skip_rr, D!run_rr, D!run_rrFails, RestTyped, D!orders, D!users
    <2>2. PICK to : to = IF dproc.pc = "rr" THEN "end" ELSE "rest"
      OBVIOUS
    <2>3. D!Go("end") \/ D!Go("leave") \/ D!Go(to)
      BY <1>4, <2>2 DEF D!Skip_rr, D!run_rr, D!run_rrFails
    <2> QED
      BY <1>1, <2>1, <2>2, <2>3, GoPasses DEF InCalls
  <1>5. CASE D!Close \/ D!Rest \/ D!Leave
    <2>1. RestTyped' /\ UNCHANGED D!calls /\ dproc.pc \in {"close", "rest", "leave"}
      BY <1>0, <1>5 DEF D!Close, D!Rest, D!Leave, RestTyped, D!orders, D!users
    <2>2. PICK to : to = IF dterm THEN "leave" ELSE "round"
      OBVIOUS
    <2>3. D!Go("rest") \/ D!Go("ended") \/ D!Go(to)
      BY <1>5, <2>2 DEF D!Close, D!Rest, D!Leave
    <2> QED
      BY <1>1, <2>1, <2>2, <2>3, GoPasses DEF InCalls
  <1>6. CASE D!Users
    <2>1. UNCHANGED <<dproc, count, string, dport, DEVICE, D!calls>>
      BY <1>6 DEF D!Users, D!Submit, D!Alert, D!SuspendFile, D!SIGUSR2, D!SIGTERM, D!orders, D!users
    <2>2. /\ queue' \in {queue, queue + 1} /\ request' \in {request, TRUE}
          /\ suspend' \in {suspend, "none", "listed", "others"}
          /\ break_suspend' \in {break_suspend, TRUE} /\ dterm' \in {dterm, TRUE}
      BY <1>6 DEF D!Users, D!Submit, D!Alert, D!SuspendFile, D!SIGUSR2, D!SIGTERM, D!orders, D!users
    <2>3. RestTyped'
      <3>1. queue' \in Nat /\ suspend' \in {"none", "listed", "others"}
        <4>1. queue \in Nat /\ suspend \in {"none", "listed", "others"}
          BY <1>0 DEF RestTyped
        <4> QED
          BY <2>2, <4>1
      <3>2. request' \in BOOLEAN /\ break_suspend' \in BOOLEAN /\ dterm' \in BOOLEAN
        BY <1>0, <2>2, Zenon DEF RestTyped
      <3>3. /\ DEVICE' \in Devices
            /\ dport' \in {"open", "closed"} /\ string' \in {"none", "start", "stop"}
            /\ count' \in 0 .. LIMIT
        BY <1>0, <2>1 DEF RestTyped
      <3> QED
        BY <3>1, <3>2, <3>3, Zenon DEF RestTyped
    <2>4. CallsTyped' /\ dproc' \in ProcType
      BY <2>1, DeviceTypes DEF DeviceInv, CallsTyped, D!calls
    <2>5. D!TypeOK'
      BY <2>3, <2>4 DEF D!TypeOK, CallsTyped, RestTyped, ProcType
    <2>6. AwayFromCalls /\ Returns(dproc', count')
      <3>1. dproc' = dproc /\ count' = count /\ UNCHANGED <<list, reported, moved>>
        BY <2>1 DEF D!calls
      <3>2. AwayFromCalls
        BY <3>1, Zenon DEF AwayFromCalls
      <3> QED
        BY <1>0, <3>1, <3>2 DEF Returns
    <2> QED
      BY <2>5, <2>6 DEF Passes
  <1> QED
    BY <1>2, <1>3, <1>4, <1>5, <1>6

-----------------------------------------------------------------------------
(* readphonecalls.                                                          *)
LEMMA DeviceWords ==
  /\ \A q : D!ToSet(q) = {q[i] : i \in DOMAIN q}
  /\ \A S : D!Cardinality(S) = Cardinality(S)
  /\ \A q, n : D!RemoveAt(q, n) = SubSeq(q, 1, n - 1) \o SubSeq(q, n + 1, Len(q))
  BY DEF D!ToSet, D!Cardinality, Cardinality, D!RemoveAt

LEMMA ToSetIs == \A q, c : c \in D!ToSet(q) <=> Occurs(q, c)
  BY DEF D!ToSet, Occurs

(* A sequence without its last entry.                                       *)
LEMMA Shorter ==
  ASSUME NEW S, NEW q \in Seq(S), q # <<>>
  PROVE  LET t == SubSeq(q, 1, Len(q) - 1)
         IN  /\ D!Removed(q, Len(q)) = t /\ t \in Seq(S)
             /\ DOMAIN t = 1 .. Len(q) - 1 /\ \A i \in 1 .. Len(q) - 1 : t[i] = q[i]
             /\ \A c : Occurs(t, c) => Occurs(q, c)
             /\ \A c : Occurs(q, c) => Occurs(t, c) \/ c = q[Len(q)]
  <1> DEFINE t == SubSeq(q, 1, Len(q) - 1)
  <1>1. Len(q) \in Nat \ {0} /\ DOMAIN q = 1 .. Len(q)
    BY EmptySeq
  <1>2. t \in Seq(S) /\ Len(t) = Len(q) - 1 /\ DOMAIN t = 1 .. Len(q) - 1
        /\ \A i \in 1 .. Len(q) - 1 : t[i] = q[i]
    BY <1>1, SubSeqProperties
  <1>3. SubSeq(q, Len(q) + 1, Len(q)) = <<>>
    BY <1>1, SubSeqEmpty
  <1>4. D!RemoveAt(q, Len(q)) = t
    <2>1. D!RemoveAt(q, Len(q)) = t \o <<>>
      BY <1>3, DeviceWords
    <2> HIDE DEF t
    <2> QED
      BY <1>2, <2>1, ConcatEmptySeq
  <1>5. D!Removed(q, Len(q)) = t
    BY <1>1, <1>4 DEF D!Removed
  <1> HIDE DEF t
  <1>6. ASSUME NEW c PROVE (Occurs(t, c) => Occurs(q, c))
                        /\ (Occurs(q, c) => Occurs(t, c) \/ c = q[Len(q)])
    <2>1. ASSUME NEW i \in DOMAIN q, q[i] = c, i # Len(q) PROVE Occurs(t, c)
      BY <1>1, <1>2, <2>1 DEF Occurs
    <2> QED
      BY <1>1, <1>2, <2>1 DEF Occurs
  <1> QED
    BY <1>2, <1>5, <1>6 DEF t

(* Whatever is removed, what remains was there.                             *)
LEMMA RemovedFrom ==
  ASSUME NEW S, NEW q \in Seq(S), NEW n \in Nat,
         \A i, j \in DOMAIN q : q[i] = q[j] => i = j
  PROVE  LET t == D!Removed(q, n)
         IN  /\ t \in Seq(S) /\ \A c : Occurs(t, c) => Occurs(q, c)
             /\ \A i, j \in DOMAIN t : t[i] = t[j] => i = j
  <1>1. CASE n \notin DOMAIN q
    BY <1>1 DEF D!Removed
  <1>2. CASE n \in DOMAIN q
    <2>1. n \in 1 .. Len(q) /\ Len(q) \in Nat /\ DOMAIN q = 1 .. Len(q)
          /\ \A i \in 1 .. Len(q) : q[i] \in S
      BY <1>2
    <2> DEFINE a == SubSeq(q, 1, n - 1)
               b == SubSeq(q, n + 1, Len(q))
               From(i) == IF i <= n - 1 THEN i ELSE i + 1
    <2>2. a \in Seq(S) /\ Len(a) = n - 1 /\ \A i \in 1 .. n - 1 : a[i] = q[i]
      BY <2>1, SubSeqProperties
    <2>3. b \in Seq(S) /\ Len(b) = Len(q) - n /\ \A i \in 1 .. Len(q) - n : b[i] = q[n + i]
      <3>1. \A i \in n + 1 .. Len(q) : q[i] \in S
        BY <2>1
      <3>2. /\ b \in Seq(S)
            /\ Len(b) = IF n + 1 <= Len(q) THEN Len(q) - (n + 1) + 1 ELSE 0
            /\ \A i \in 1 .. Len(q) - (n + 1) + 1 : b[i] = q[n + 1 + i - 1]
        BY <2>1, <3>1, SubSeqProperties
      <3> HIDE DEF b
      <3>3. /\ Len(q) - (n + 1) + 1 = Len(q) - n
            /\ (IF n + 1 <= Len(q) THEN Len(q) - (n + 1) + 1 ELSE 0) = Len(q) - n
        <4>1. \A k \in Nat : n <= k => /\ k - (n + 1) + 1 = k - n
                                      /\ (IF n + 1 <= k THEN k - (n + 1) + 1 ELSE 0) = k - n
          OBVIOUS
        <4>2. PICK k \in Nat : k = Len(q)
          BY <2>1
        <4>3. n <= k
          BY <2>1, <4>2
        <4> QED
          BY <4>1, <4>2, <4>3
      <3>4. ASSUME NEW i \in 1 .. Len(q) - n PROVE b[i] = q[n + i]
        <4>1. n + 1 + i - 1 = n + i
          BY <2>1
        <4> QED
          BY <3>2, <3>3, <4>1
      <3> QED
        BY <3>2, <3>3, <3>4
    <2>4. D!Removed(q, n) = a \o b
      BY <1>2, DeviceWords DEF D!Removed
    <2> HIDE DEF a, b
    <2>5. a \o b \in Seq(S) /\ Len(a \o b) = Len(q) - 1
          /\ \A i \in 1 .. Len(q) - 1 : (a \o b)[i] = IF i <= n - 1 THEN a[i] ELSE b[i - (n - 1)]
      <3>1. Len(a) + Len(b) = Len(q) - 1
        BY <2>1, <2>2, <2>3
      <3>2. /\ a \o b \in Seq(S) /\ Len(a \o b) = Len(a) + Len(b)
            /\ \A i \in 1 .. Len(a) + Len(b) :
                  (a \o b)[i] = IF i <= Len(a) THEN a[i] ELSE b[i - Len(a)]
        BY <2>2, <2>3, ConcatProperties
      <3>3. PICK ab : ab = a \o b
        OBVIOUS
      <3> QED
        BY <2>2, <3>1, <3>2, <3>3
    <2>6. \A i \in 1 .. Len(q) - 1 : (a \o b)[i] = q[From(i)] /\ From(i) \in DOMAIN q
      <3> SUFFICES ASSUME NEW i \in 1 .. Len(q) - 1
                   PROVE  (a \o b)[i] = q[From(i)] /\ From(i) \in DOMAIN q
        OBVIOUS
      <3>1. CASE i <= n - 1
        BY <2>1, <2>2, <2>5, <3>1
      <3>2. CASE ~ (i <= n - 1)
        <4>1. i - (n - 1) \in 1 .. Len(q) - n /\ n + (i - (n - 1)) = i + 1
          BY <2>1, <3>2
        <4> QED
          BY <2>1, <2>3, <2>5, <3>2, <4>1
      <3> QED
        BY <3>1, <3>2
    <2>7. \A i, j \in 1 .. Len(q) - 1 : From(i) = From(j) => i = j
      BY <2>1
    <2>8. DOMAIN (a \o b) = 1 .. Len(q) - 1
      BY <2>5
    <2>9. \A c : Occurs(a \o b, c) => Occurs(q, c)
      BY <2>6, <2>8 DEF Occurs
    <2>10. \A i, j \in DOMAIN (a \o b) : (a \o b)[i] = (a \o b)[j] => i = j
      <3> HIDE DEF From
      <3> QED
        BY <2>6, <2>7, <2>8
    <2> QED
      BY <2>4, <2>5, <2>9, <2>10
  <1> QED
    BY <1>1, <1>2

(* A sequence of calls is counted.                                          *)
LEMMA ReportIs ==
  ASSUME NEW q \in Seq(Call), reported \in [Call -> Nat]
  PROVE  /\ D!Report(q) \in [Call -> Nat]
         /\ \A c \in Call : ~ Occurs(q, c) => D!Report(q)[c] = reported[c]
         /\ (\A i, j \in DOMAIN q : q[i] = q[j] => i = j)
              => \A c \in Call : Occurs(q, c) => D!Report(q)[c] = reported[c] + 1
  <1> DEFINE At(c) == {i \in DOMAIN q : q[i] = c}
  <1>1. DOMAIN q = 1 .. Len(q) /\ Len(q) \in Nat
    OBVIOUS
  <1>2. IsFiniteSet(1 .. Len(q))
    BY <1>1, FS_Interval
  <1>3. ASSUME NEW c PROVE Cardinality(At(c)) \in Nat
    BY <1>1, <1>2, FS_Subset, FS_CardinalityType
  <1>4. ASSUME NEW c, ~ Occurs(q, c) PROVE Cardinality(At(c)) = 0
    <2>1. At(c) = {}
      BY <1>4 DEF Occurs
    <2> QED
      BY <2>1, FS_EmptySet
  <1>5. ASSUME NEW c, Occurs(q, c), \A i, j \in DOMAIN q : q[i] = q[j] => i = j
        PROVE  Cardinality(At(c)) = 1
    <2>1. PICK i \in DOMAIN q : q[i] = c
      BY <1>5 DEF Occurs
    <2>2. At(c) = {i}
      BY <1>5, <2>1
    <2> QED
      BY <2>2, FS_Singleton
  <1>6. D!Report(q) = [c \in Call |-> reported[c] + Cardinality(At(c))]
    BY DeviceWords DEF D!Report
  <1> HIDE DEF At
  <1> QED
    BY <1>3, <1>4, <1>5, <1>6

(* What a step of readphonecalls, or a missed call, keeps.                  *)
OnceStep ==
    \A c \in Call \ moved' :
       /\ Occurs(list, c) /\ ~ Occurs(list', c) => reported[c] = 1
       /\ reported'[c] <= 1

KeptNow == CallsKept(dproc.pc, dproc.seen, list, moved, reported)

LEMMA CallsPass ==
  ASSUME DeviceInv, dproc' \in ProcType, CallsTyped', KeptNow',
         UNCHANGED <<dport, string, queue, count, request, suspend, break_suspend, dterm, DEVICE>>,
         dproc'.pc \notin {"suspended", "opening", "send"},
         \A c \in Call \ moved' : Occurs(list, c) /\ ~ Occurs(list', c) => reported[c] = 1
  PROVE  DeviceInv' /\ OnceStep
  <1>1. RestTyped'
    BY RestIs DEF RestTyped
  <1>2. D!TypeOK'
    BY <1>1, dproc' \in ProcType, CallsTyped' DEF D!TypeOK, CallsTyped, RestTyped, ProcType
  <1>3. Returns(dproc', count')
    BY DEF Returns
  <1>4. DeviceInv'
    BY <1>2, <1>3, KeptNow' DEF DeviceInv, KeptNow
  <1>5. \A c \in Call \ moved' : reported'[c] <= 1
    BY KeptNow' DEF KeptNow, CallsKept
  <1> QED
    BY <1>4, <1>5 DEF OnceStep

LEMMA CallsAre ==
  ASSUME DeviceInv
  PROVE  dproc \in ProcType /\ CallsTyped /\ KeptNow
  BY DeviceTypes DEF DeviceInv, KeptNow

LEMMA ReadCallsSteps == DeviceInv /\ (D!ReadCalls \/ D!ReadFails) => DeviceInv' /\ OnceStep
  <1> SUFFICES ASSUME DeviceInv, D!ReadCalls \/ D!ReadFails PROVE DeviceInv' /\ OnceStep
    OBVIOUS
  <1>0. dproc \in ProcType /\ CallsTyped /\ KeptNow
    BY CallsAre
  <1>1. /\ UNCHANGED <<dport, string, queue, count, request, suspend, break_suspend, dterm, DEVICE>>
        /\ UNCHANGED <<list, reported, moved>> /\ dproc.pc = "calls"
    BY DEF D!ReadCalls, D!ReadFails, D!orders, D!users, D!calls
  <1>2. CallsTyped'
    BY <1>0, <1>1 DEF CallsTyped
  <1>3. CASE D!Go("rr") \/ D!ReadFails
    <2>1. dproc' \in ProcType /\ dproc'.pc = "rr"
      <3>1. CASE D!Go("rr")
        BY <1>0, <3>1 DEF ProcType, D!Go, D!Pc
      <3>2. CASE D!ReadFails
        <4>1. PICK e : e = IF dproc.errors < ERRORS THEN dproc.errors + 1 ELSE dproc.errors
          OBVIOUS
        <4>2. e \in 0 .. ERRORS
          BY <1>0, <4>1, DeviceAssumption DEF ProcType
        <4>3. dproc' = [dproc EXCEPT !.errors = e, !.pc = "rr"]
          BY <3>2, <4>1 DEF D!ReadFails, D!Error
        <4> QED
          BY <1>0, <4>2, <4>3 DEF ProcType, D!Pc
      <3> QED
        BY <1>3, <3>1, <3>2
    <2>2. KeptNow'
      BY <1>0, <1>1, <2>1 DEF KeptNow, CallsKept
    <2> QED
      BY <1>1, <1>2, <2>1, <2>2, CallsPass
  <1>4. CASE D!Read(list)
    <2>1. PICK to : to = IF list = <<>> THEN "rr" ELSE "save"
      OBVIOUS
    <2>2. dproc' = [dproc EXCEPT !.seen = list, !.pc = to]
      BY <1>4, <2>1 DEF D!Read
    <2>3. dproc' \in ProcType /\ dproc'.pc = to /\ dproc'.seen = list
      BY <1>0, <2>1, <2>2 DEF ProcType, CallsTyped, D!Pc
    <2>4. KeptNow'
      BY <1>0, <1>1, <2>1, <2>3 DEF KeptNow, CallsKept
    <2> QED
      BY <1>1, <1>2, <2>1, <2>3, <2>4, CallsPass
  <1> QED
    BY <1>3, <1>4 DEF D!ReadCalls

LEMMA SaveCallsSteps ==
  DeviceInv /\ (D!SaveCalls \/ D!SyntaxError \/ D!SaveFails) => DeviceInv' /\ OnceStep
  <1> SUFFICES ASSUME DeviceInv, D!SaveCalls \/ D!SyntaxError \/ D!SaveFails
               PROVE  DeviceInv' /\ OnceStep
    OBVIOUS
  <1>0. dproc \in ProcType /\ CallsTyped /\ KeptNow
    BY CallsAre
  <1>1. /\ UNCHANGED <<dport, string, queue, count, request, suspend, break_suspend, dterm, DEVICE>>
        /\ list' = list /\ dproc.pc = "save"
    BY DEF D!SaveCalls, D!SyntaxError, D!SaveFails, D!orders, D!users
  <1>2. PICK q : q = dproc.seen
    OBVIOUS
  <1>3. /\ q \in Seq(Call) /\ list \in Seq(Call)
        /\ reported \in [Call -> Nat] /\ moved \subseteq Call
    BY <1>0, <1>2 DEF ProcType, CallsTyped
  <1>4. /\ \A i, j \in DOMAIN list : list[i] = list[j] => i = j
        /\ q = list \/ \A c : Occurs(list, c) \/ Occurs(q, c) => c \in moved
        /\ \A c \in Call \ moved : (Occurs(list, c) => reported[c] = 0) /\ reported[c] <= 1
    BY <1>0, <1>1, <1>2 DEF KeptNow, CallsKept
  <1>5. \A c : Occurs(list, c) => c \in Call
    BY <1>3 DEF Occurs
  <1>6. CASE D!SaveCalls
    <2>1. dproc' \in ProcType /\ dproc'.pc = "remove" /\ dproc'.seen = q
      BY <1>0, <1>2, <1>6 DEF D!SaveCalls, D!Go, ProcType, D!Pc
    <2>2. reported' = D!Report(q) /\ moved' = moved
      BY <1>2, <1>6 DEF D!SaveCalls
    <2>3. CallsTyped'
      BY <1>1, <1>3, <2>2, ReportIs DEF CallsTyped
    <2>4. ASSUME NEW c \in Call \ moved
          PROVE  (Occurs(list, c) => reported'[c] = 1) /\ reported'[c] <= 1
      <3>1. CASE q = list
        BY <1>3, <1>4, <2>2, <3>1, ReportIs
      <3>2. CASE q # list
        BY <1>3, <1>4, <2>2, <3>2, ReportIs
      <3> QED
        BY <3>1, <3>2
    <2>5. KeptNow'
      BY <1>1, <1>4, <2>1, <2>2, <2>4 DEF KeptNow, CallsKept
    <2> QED
      BY <1>1, <2>1, <2>3, <2>5, CallsPass
  <1>7. CASE D!SyntaxError
    <2>1. PICK n \in 0 .. Len(q) - 1 : reported' = D!Report(SubSeq(q, 1, n))
      BY <1>2, <1>7 DEF D!SyntaxError
    <2>2. moved' = moved \cup D!ToSet(list)
      BY <1>7 DEF D!SyntaxError
    <2>3. dproc' \in ProcType /\ dproc'.pc = "rr"
      <3>1. <<>> \in Seq(Call)
        OBVIOUS
      <3> QED
        BY <1>0, <1>7, <3>1 DEF D!SyntaxError, ProcType, D!Pc
    <2>4. SubSeq(q, 1, n) \in Seq(Call) /\ \A c : Occurs(SubSeq(q, 1, n), c) => Occurs(q, c)
      <3>1. n \in Int /\ Len(q) \in Nat /\ DOMAIN q = 1 .. Len(q)
        BY <1>3
      <3>2. \A i \in 1 .. n : i \in 1 .. Len(q) /\ q[i] \in Call
        BY <1>3, <3>1
      <3>3. PICK t : t = SubSeq(q, 1, n)
        OBVIOUS
      <3>4. t \in Seq(Call) /\ Len(t) = n /\ \A i \in 1 .. n : t[i] = q[i]
        BY <3>1, <3>2, <3>3, SubSeqProperties
      <3> QED
        BY <3>1, <3>2, <3>3, <3>4 DEF Occurs
    <2>5. CallsTyped'
      BY <1>1, <1>3, <1>5, <2>1, <2>2, <2>4, ReportIs, ToSetIs DEF CallsTyped
    <2>6. ASSUME NEW c \in Call \ moved'
          PROVE  ~ Occurs(list, c) /\ reported'[c] = reported[c]
      <3>1. c \notin moved /\ ~ Occurs(list, c)
        BY <2>2, ToSetIs
      <3>2. ~ Occurs(q, c)
        BY <1>4, <3>1
      <3> QED
        BY <1>3, <2>1, <2>4, <3>1, <3>2, ReportIs
    <2>7. KeptNow'
      BY <1>1, <1>4, <2>2, <2>3, <2>6 DEF KeptNow, CallsKept
    <2> QED
      BY <1>1, <2>3, <2>5, <2>7, CallsPass
  <1>8. CASE D!SaveFails
    <2>1. dproc' \in ProcType /\ dproc'.pc = "remove" /\ dproc'.seen = q
      BY <1>0, <1>2, <1>8 DEF D!SaveFails, D!Go, ProcType, D!Pc
    <2>2. reported' = reported /\ moved' = moved \cup D!ToSet(q)
      BY <1>2, <1>8 DEF D!SaveFails
    <2>3. \A c : Occurs(q, c) => c \in Call
      BY <1>3 DEF Occurs
    <2>4. CallsTyped'
      BY <1>1, <1>3, <2>2, <2>3, ToSetIs DEF CallsTyped
    <2>5. \A c : Occurs(list, c) => c \in moved'
      BY <1>4, <2>2, ToSetIs
    <2>6. KeptNow'
      BY <1>1, <1>4, <2>1, <2>2, <2>5 DEF KeptNow, CallsKept
    <2> QED
      BY <1>1, <2>1, <2>4, <2>6, CallsPass
  <1> QED
    BY <1>6, <1>7, <1>8

LEMMA RemoveCallSteps == DeviceInv /\ (D!RemoveCall \/ D!RemoveFails) => DeviceInv' /\ OnceStep
  <1> SUFFICES ASSUME DeviceInv, D!RemoveCall \/ D!RemoveFails PROVE DeviceInv' /\ OnceStep
    OBVIOUS
  <1>0. dproc \in ProcType /\ CallsTyped /\ KeptNow
    BY CallsAre
  <1>1. /\ UNCHANGED <<dport, string, queue, count, request, suspend, break_suspend, dterm, DEVICE>>
        /\ reported' = reported /\ dproc.pc = "remove"
    BY DEF D!RemoveCall, D!RemoveFails, D!orders, D!users
  <1>2. PICK q : q = dproc.seen
    OBVIOUS
  <1>3. /\ q \in Seq(Call) /\ list \in Seq(Call)
        /\ reported \in [Call -> Nat] /\ moved \subseteq Call
    BY <1>0, <1>2 DEF ProcType, CallsTyped
  <1>4. /\ \A i, j \in DOMAIN list : list[i] = list[j] => i = j
        /\ q = list \/ \A c : Occurs(list, c) => c \in moved
        /\ \A c \in Call \ moved : (Occurs(list, c) => reported[c] = 1) /\ reported[c] <= 1
    BY <1>0, <1>1, <1>2 DEF KeptNow, CallsKept
  <1>5. \A c : Occurs(list, c) => c \in Call
    BY <1>3 DEF Occurs
  <1>6. <<>> \in Seq(Call) /\ Len(q) \in Nat /\ (Len(q) = 0 <=> q = <<>>)
    BY <1>3, EmptySeq
  <1>7. \A c : ~ Occurs(<<>>, c)
    BY DEF Occurs
  <1>8. CASE D!RemoveCall
    <2>1. moved' = moved
      BY <1>8 DEF D!RemoveCall
    <2>2. CASE DEVICE.purge \/ Len(q) = 0
      <3>1. /\ dproc' = [dproc EXCEPT !.seen = <<>>, !.pc = "rr"]
            /\ list' = IF Len(q) = 0 THEN list ELSE <<>>
        BY <1>2, <1>8, <2>2 DEF D!RemoveCall
      <3>2. dproc' \in ProcType /\ dproc'.pc = "rr"
        BY <1>0, <1>6, <3>1 DEF ProcType, D!Pc
      <3>3. /\ list' \in Seq(Call)
            /\ \A c : Occurs(list', c) => Occurs(list, c) /\ c \in moved
            /\ \A i, j \in DOMAIN list' : list'[i] = list'[j] => i = j
        <4>1. CASE Len(q) = 0
          <5>1. list' = list
            BY <3>1, <4>1
          <5>2. \A c : Occurs(list, c) => c \in moved
            BY <1>4, <1>6, <1>7, <4>1
          <5> QED
            BY <1>3, <1>4, <5>1, <5>2
        <4>2. CASE Len(q) # 0
          <5>1. list' = <<>>
            BY <3>1, <4>2
          <5> QED
            BY <1>6, <1>7, <5>1
        <4> QED
          BY <4>1, <4>2
      <3>4. CallsTyped'
        BY <1>1, <1>3, <2>1, <3>3 DEF CallsTyped
      <3>5. KeptNow'
        BY <1>1, <1>4, <2>1, <3>2, <3>3 DEF KeptNow, CallsKept
      <3> QED
        BY <1>1, <1>4, <1>5, <2>1, <3>2, <3>4, <3>5, CallsPass
    <2>3. CASE ~ (DEVICE.purge \/ Len(q) = 0)
      <3>1. PICK t : t = SubSeq(q, 1, Len(q) - 1)
        OBVIOUS
      <3>2. /\ dproc' = [dproc EXCEPT !.seen = t]
            /\ list' = D!Removed(list, Len(q))
        BY <1>2, <1>8, <2>3, <3>1 DEF D!RemoveCall
      <3>3. t \in Seq(Call)
        BY <1>3, <1>6, <2>3, <3>1, Shorter
      <3>4. dproc' \in ProcType /\ dproc'.pc = "remove" /\ dproc'.seen = t
        BY <1>0, <1>1, <3>2, <3>3 DEF ProcType, D!Pc
      <3>5. /\ list' \in Seq(Call)
            /\ \A c : Occurs(list', c) => Occurs(list, c)
            /\ \A i, j \in DOMAIN list' : list'[i] = list'[j] => i = j
        BY <1>3, <1>4, <1>6, <3>2, RemovedFrom
      <3>6. t = list' \/ \A c : Occurs(list', c) => c \in moved
        <4>1. ASSUME q = list PROVE t = list'
          BY <1>3, <1>6, <2>3, <3>1, <3>2, <4>1, Shorter
        <4> QED
          BY <1>4, <3>5, <4>1
      <3>7. CallsTyped'
        BY <1>1, <1>3, <2>1, <3>5 DEF CallsTyped
      <3>8. KeptNow'
        BY <1>1, <1>4, <2>1, <3>4, <3>5, <3>6 DEF KeptNow, CallsKept
      <3> QED
        BY <1>1, <1>4, <1>5, <2>1, <3>4, <3>7, <3>8, CallsPass
    <2> QED
      BY <2>2, <2>3
  <1>9. CASE D!RemoveFails
    <2>1. list' = list /\ moved' = moved \cup D!ToSet(list)
      BY <1>9 DEF D!RemoveFails
    <2>2. PICK e : e = IF dproc.errors < ERRORS THEN dproc.errors + 1 ELSE dproc.errors
      OBVIOUS
    <2>3. e \in 0 .. ERRORS
      BY <1>0, <2>2, DeviceAssumption DEF ProcType
    <2>4. PICK left \in {<<>>, SubSeq(q, 1, Len(q) - 1)} :
            dproc' = [dproc EXCEPT !.errors = e, !.seen = left,
                                   !.pc = IF left = <<>> THEN "rr" ELSE "remove"]
      BY <1>2, <1>9, <2>2 DEF D!RemoveFails
    <2>5. left \in Seq(Call)
      <3>1. Len(q) > 0
        BY <1>2, <1>9 DEF D!RemoveFails
      <3>2. SubSeq(q, 1, Len(q) - 1) \in Seq(Call)
        BY <1>3, <1>6, <3>1, Shorter
      <3> QED
        BY <1>6, <2>4, <3>2
    <2>6. PICK to : to = IF left = <<>> THEN "rr" ELSE "remove"
      OBVIOUS
    <2>7. dproc' \in ProcType /\ dproc'.pc = to
      BY <1>0, <2>3, <2>4, <2>5, <2>6 DEF ProcType, D!Pc
    <2>8. \A c : Occurs(list, c) => c \in moved'
      BY <2>1, ToSetIs
    <2>9. CallsTyped'
      BY <1>1, <1>3, <1>5, <2>1, ToSetIs DEF CallsTyped
    <2>10. KeptNow'
      BY <1>1, <1>4, <2>1, <2>6, <2>7, <2>8 DEF KeptNow, CallsKept
    <2> QED
      BY <1>1, <2>1, <2>6, <2>7, <2>9, <2>10, CallsPass
  <1> QED
    BY <1>8, <1>9

LEMMA MissedStep ==
  ASSUME DeviceInv, NEW c \in Call, D!Missed(c)
  PROVE  DeviceInv' /\ OnceStep
  <1>0. dproc \in ProcType /\ CallsTyped /\ KeptNow /\ RestTyped /\ Returns(dproc, count)
    BY CallsAre, RestIs
  <1>1. /\ UNCHANGED <<dport, string, queue, count, request, suspend, break_suspend, dterm, DEVICE>>
        /\ reported' = reported /\ dproc' = dproc /\ list' = <<c>> \o list
        /\ moved' = IF dproc.pc \in InCalls THEN moved \cup D!ToSet(list') ELSE moved
        /\ ~ Occurs(list, c) /\ c \notin moved /\ reported[c] = 0
    BY ToSetIs DEF D!Missed, D!orders, D!users, InCalls
  <1>2. /\ list \in Seq(Call) /\ reported \in [Call -> Nat] /\ moved \subseteq Call
    BY <1>0 DEF CallsTyped
  <1>3. /\ list' \in Seq(Call) /\ Len(list) \in Nat /\ Len(list') = Len(list) + 1
        /\ DOMAIN list = 1 .. Len(list) /\ DOMAIN list' = 1 .. Len(list) + 1
        /\ list'[1] = c /\ \A i \in 2 .. Len(list) + 1 : list'[i] = list[i - 1]
    <2>1. <<c>> \in Seq(Call) /\ Len(<<c>>) = 1 /\ <<c>>[1] = c
      OBVIOUS
    <2>2. PICK one : one = <<c>>
      OBVIOUS
    <2>3. /\ one \o list \in Seq(Call) /\ Len(one \o list) = Len(one) + Len(list)
          /\ \A i \in 1 .. Len(one) + Len(list) :
                (one \o list)[i] = IF i <= Len(one) THEN one[i] ELSE list[i - Len(one)]
      BY <1>2, <2>1, <2>2, ConcatProperties
    <2>4. PICK l : l = one \o list
      OBVIOUS
    <2>5. Len(one) = 1 /\ one[1] = c /\ Len(list) \in Nat
      BY <1>2, <2>1, <2>2
    <2>6. l \in Seq(Call) /\ Len(l) = Len(list) + 1 /\ l[1] = c
          /\ \A i \in 2 .. Len(list) + 1 : l[i] = list[i - 1]
      BY <2>3, <2>4, <2>5
    <2> QED
      BY <1>1, <1>2, <2>2, <2>4, <2>6
  <1>4. \A x : Occurs(list', x) <=> Occurs(list, x) \/ x = c
    <2> SUFFICES ASSUME NEW x PROVE Occurs(list', x) <=> Occurs(list, x) \/ x = c
      OBVIOUS
    <2>1. ASSUME NEW i \in DOMAIN list, list[i] = x PROVE Occurs(list', x)
      <3>1. i + 1 \in 2 .. Len(list) + 1 /\ i + 1 - 1 = i
        BY <1>3
      <3> QED
        BY <1>3, <2>1, <3>1 DEF Occurs
    <2>2. ASSUME NEW i \in DOMAIN list', list'[i] = x, x # c PROVE Occurs(list, x)
      <3>1. i \in 2 .. Len(list) + 1 /\ i - 1 \in DOMAIN list
        BY <1>3, <2>2
      <3> QED
        BY <1>3, <2>2, <3>1 DEF Occurs
    <2>3. 1 \in DOMAIN list'
      BY <1>3
    <2> QED
      BY <1>3, <2>1, <2>2, <2>3 DEF Occurs
  <1>5. \A i, j \in DOMAIN list' : list'[i] = list'[j] => i = j
    <2> SUFFICES ASSUME NEW i \in DOMAIN list', NEW j \in DOMAIN list', list'[i] = list'[j]
                 PROVE  i = j
      OBVIOUS
    <2>1. \A k \in DOMAIN list' : k # 1 => /\ k \in 2 .. Len(list) + 1 /\ k - 1 \in DOMAIN list
                                          /\ list'[k] = list[k - 1] /\ list'[k] # c
      BY <1>1, <1>3 DEF Occurs
    <2>2. CASE i = 1 \/ j = 1
      BY <1>3, <2>1, <2>2
    <2>3. CASE i # 1 /\ j # 1
      <3>1. list[i - 1] = list[j - 1] /\ i - 1 \in DOMAIN list /\ j - 1 \in DOMAIN list
        BY <2>1, <2>3
      <3>2. i - 1 = j - 1
        BY <1>0, <3>1 DEF KeptNow, CallsKept
      <3> QED
        BY <1>3, <3>2
    <2> QED
      BY <2>2, <2>3
  <1>6. CallsTyped'
    <2>1. \A x : Occurs(list', x) => x \in Call
      BY <1>3 DEF Occurs
    <2> QED
      BY <1>1, <1>2, <1>3, <2>1, ToSetIs DEF CallsTyped
  <1>7. KeptNow'
    <2>1. CASE dproc.pc \in InCalls
      <3>1. \A x : Occurs(list', x) => x \in moved'
        BY <1>1, <2>1, ToSetIs
      <3>2. moved \subseteq moved'
        BY <1>1, <2>1
      <3>3. dproc.pc = "save" => \A x : Occurs(dproc.seen, x) => x \in moved'
        BY <1>0, <1>4, <3>1, <3>2 DEF KeptNow, CallsKept
      <3> QED
        BY <1>0, <1>1, <1>5, <3>1, <3>2, <3>3 DEF KeptNow, CallsKept
    <2>2. CASE dproc.pc \notin InCalls
      BY <1>0, <1>1, <1>4, <1>5, <2>2 DEF KeptNow, CallsKept, InCalls
    <2> QED
      BY <2>1, <2>2
  <1>8. D!TypeOK'
    <2>1. RestTyped'
      BY <1>0, <1>1 DEF RestTyped
    <2> QED
      BY <1>0, <1>1, <1>6, <2>1 DEF D!TypeOK, CallsTyped, RestTyped, ProcType
  <1>9. DeviceInv'
    BY <1>0, <1>1, <1>7, <1>8 DEF DeviceInv, KeptNow, Returns
  <1>10. OnceStep
    BY <1>4, <1>7 DEF OnceStep, KeptNow, CallsKept
  <1> QED
    BY <1>9, <1>10

LEMMA DeviceInitially == D!Init => DeviceInv
  <1> SUFFICES ASSUME D!Init PROVE DeviceInv
    OBVIOUS
  <1>1. <<>> \in Seq(Call) /\ \A c : ~ Occurs(<<>>, c)
    BY DEF Occurs
  <1>2. dproc \in ProcType /\ dproc.pc = "start"
    BY <1>1, DeviceAssumption DEF D!Init, ProcType, D!Pc
  <1>3. RestTyped /\ CallsTyped
    <2>1. /\ queue = 0 /\ count = 0 /\ list = <<>> /\ reported = [c \in Call |-> 0] /\ moved = {}
          /\ DEVICE \in Devices /\ dport = "closed" /\ string = "none" /\ suspend = "none"
      BY DEF D!Init
    <2>2. request = FALSE /\ break_suspend = FALSE /\ dterm = FALSE
      BY DEF D!Init
    <2>3. CallsTyped
      BY <1>1, <2>1 DEF CallsTyped
    <2>4. queue \in Nat /\ count \in 0 .. LIMIT
      BY <2>1, DeviceAssumption
    <2>5. RestTyped
      BY <2>1, <2>2, <2>4 DEF RestTyped
    <2> QED
      BY <2>3, <2>5
  <1>4. KeptNow
    BY <1>1, <1>2 DEF D!Init, KeptNow, CallsKept
  <1> QED
    BY <1>2, <1>3, <1>4, DeviceTypes DEF DeviceInv, KeptNow, Returns

LEMMA DeviceStep ==
  ASSUME DeviceInv, [D!Next]_(D!vars)
  PROVE  DeviceInv' /\ OnceStep
  <1>1. ASSUME Passes PROVE DeviceInv' /\ OnceStep
    BY <1>1, AwayKeeps DEF Passes, OnceStep
  <1>2. CASE UNCHANGED D!vars
    <2>1. DeviceInv'
      BY <1>2 DEF D!vars, DeviceInv, D!TypeOK, Returns, CallsKept
    <2> QED
      BY <1>2, <2>1 DEF D!vars, OnceStep, DeviceInv, CallsKept
  <1>3. CASE D!Process
    BY <1>1, <1>3, DeviceSuspends, DeviceSends, DeviceGoesRound, ReadCallsSteps, SaveCallsSteps, RemoveCallSteps
       DEF D!Process
  <1>4. CASE D!Users
    BY <1>1, <1>4, DeviceGoesRound
  <1>5. CASE D!Fault
    BY <1>1, <1>5, DeviceSuspends, DeviceSends, DeviceGoesRound, ReadCallsSteps, SaveCallsSteps, RemoveCallSteps
       DEF D!Fault
  <1>6. ASSUME NEW c \in Call, D!Missed(c) PROVE DeviceInv' /\ OnceStep
    BY <1>6, MissedStep
  <1> QED
    BY <1>2, <1>3, <1>4, <1>5, <1>6 DEF D!Next

LEMMA OthersLeaveDevice == [PhonesNext]_phones => [D!Next]_(D!vars)
  BY DEF PhonesNext, phones, device, D!vars, Driver, Spool, Receive, Dialogue, Device, Splits

(* smsd.c, readphonecalls: each missed call is reported once, before it is  *)
(* removed from the modem.                                                  *)
THEOREM CallsReportedOnce == PhonesSpec => CallsOnce
  <1>1. PhonesInit => DeviceInv
    BY DeviceInitially DEF PhonesInit
  <1>2. DeviceInv /\ [PhonesNext]_phones => DeviceInv'
    BY DeviceStep, OthersLeaveDevice
  <1>3. DeviceInv /\ [PhonesNext]_phones
          => [\A c \in Call \ moved' :
                 /\ c \in D!ToSet(list) \ D!ToSet(list') => reported[c] = 1
                 /\ reported'[c] <= 1]_(D!vars)
    <2> SUFFICES ASSUME DeviceInv, [PhonesNext]_phones, NEW c \in Call \ moved'
                 PROVE  /\ c \in D!ToSet(list) \ D!ToSet(list') => reported[c] = 1
                        /\ reported'[c] <= 1
      OBVIOUS
    <2>1. OnceStep
      BY DeviceStep, OthersLeaveDevice
    <2> QED
      BY <2>1, ToSetIs DEF OnceStep
  <1> QED
    BY <1>1, <1>2, <1>3, PTL DEF PhonesSpec, CallsOnce, D!CallsOnce

-----------------------------------------------------------------------------
(* One message in parts.  What SmsSplit says of the part that is next, as   *)
(* operators of the message, its plan, the part and the reference.          *)
OwnElement(m)          == [id |-> 5, length |-> m.own - 3]
NumberElement(pl, k, c) == [id |-> 0, length |-> 3, data |-> <<c, pl.parts, k + 1>>]
Owns(m, k)             == m.own > 0 /\ k = 0

HeaderOf(m, pl, k, c) ==
    (IF Owns(m, k) THEN <<OwnElement(m)>> ELSE <<>>)
       \o (IF P!Numbered(pl) THEN <<NumberElement(pl, k, c)>> ELSE <<>>)

OctetsOf(m, pl, k) ==
    IF Owns(m, k) THEN IF P!Numbered(pl) THEN m.own + 5 ELSE m.own
    ELSE IF P!Numbered(pl) THEN 6 ELSE 0

FromOf(m, pl, k) == IF m.alphabet = "binary" /\ Owns(m, k) THEN m.own ELSE k * pl.each
ToOf(m, pl, k)   == IF (k + 1) * pl.each < m.length THEN (k + 1) * pl.each ELSE m.length
InText(pl)       == IF pl.split = 2 /\ pl.parts > 1 THEN pl.reserved ELSE 0
Septet(m)        == m.alphabet \in {"gsm", "utf8"}

EndOf(m, pl, k) ==
    IF Septet(m)
    THEN P!Least(ToOf(m, pl, k),
                 FromOf(m, pl, k) + 160 - P!Septets(OctetsOf(m, pl, k)) - InText(pl))
    ELSE ToOf(m, pl, k)

PduOf(m, pl, k, c) ==
    [header |-> HeaderOf(m, pl, k, c),
     fill   |-> IF Septet(m) THEN P!fillbits(OctetsOf(m, pl, k)) ELSE 0,
     from   |-> FromOf(m, pl, k), to |-> EndOf(m, pl, k)]

(* The octets of a header of no, one or two elements.                       *)
LEMMA OctetsAdd ==
  /\ P!Octets(<<>>) = 0
  /\ \A a : a.length \in Int => P!Octets(<<a>>) = 3 + a.length
  /\ \A a, b : a.length \in Int /\ b.length \in Int
                 => P!Octets(<<a, b>>) = 5 + a.length + b.length
  <1> DEFINE Size(h) == CHOOSE f : f = [n \in 0 .. Len(h) |->
                                          IF n = 0 THEN 0 ELSE f[n - 1] + 2 + h[n].length]
  <1>1. \A h : P!Octets(h) = IF h = <<>> THEN 0 ELSE 1 + Size(h)[Len(h)]
    BY DEF P!Octets
  <1>2. ASSUME NEW a, a.length \in Int PROVE Size(<<a>>)[1] = 2 + a.length
    <2>1. PICK h : h = <<a>>
      OBVIOUS
    <2>2. Len(h) = 1 /\ h[1] = a
      BY <2>1
    <2> DEFINE f == [n \in 0 .. 1 |-> IF n = 0 THEN 0 ELSE 2 + a.length]
               Eq(g) == g = [n \in 0 .. Len(h) |-> IF n = 0 THEN 0 ELSE g[n - 1] + 2 + h[n].length]
    <2>3. Eq(f)
      BY <1>2, <2>2
    <2>4. Eq(Size(h))
      BY <2>3
    <2> HIDE DEF Size, f
    <2>5. Size(h)[0] = 0 /\ Size(h)[1] = Size(h)[0] + 2 + a.length
      BY <2>2, <2>4
    <2> QED
      BY <1>2, <2>1, <2>5
  <1>3. ASSUME NEW a, NEW b, a.length \in Int, b.length \in Int
        PROVE  Size(<<a, b>>)[2] = 4 + a.length + b.length
    <2>1. PICK h : h = <<a, b>>
      OBVIOUS
    <2>2. Len(h) = 2 /\ h[1] = a /\ h[2] = b
      BY <2>1
    <2> DEFINE f == [n \in 0 .. 2 |-> IF n = 0 THEN 0 ELSE IF n = 1 THEN 2 + a.length
                                      ELSE 2 + a.length + 2 + b.length]
               Eq(g) == g = [n \in 0 .. Len(h) |-> IF n = 0 THEN 0 ELSE g[n - 1] + 2 + h[n].length]
    <2>3. Eq(f)
      <3>1. 0 .. 2 = {0, 1, 2}
        OBVIOUS
      <3>2. f[0] = 0 /\ f[1] = 2 + a.length /\ f[2] = 2 + a.length + 2 + b.length
        OBVIOUS
      <3> QED
        BY <1>3, <2>2, <3>1, <3>2
    <2>4. Eq(Size(h))
      BY <2>3
    <2> HIDE DEF Size, f
    <2>5. Size(h)[0] = 0 /\ Size(h)[1] = Size(h)[0] + 2 + a.length
          /\ Size(h)[2] = Size(h)[1] + 2 + b.length
      BY <2>2, <2>4
    <2> QED
      BY <1>3, <2>1, <2>5
  <1> HIDE DEF Size
  <1>4. \A a : Len(<<a>>) = 1 /\ <<a>> # <<>>
    OBVIOUS
  <1>5. \A a, b : Len(<<a, b>>) = 2 /\ <<a, b>> # <<>>
    OBVIOUS
  <1>6. ASSUME NEW a, a.length \in Int PROVE P!Octets(<<a>>) = 3 + a.length
    <2>1. P!Octets(<<a>>) = 1 + Size(<<a>>)[1]
      BY <1>1, <1>4
    <2> QED
      BY <1>2, <1>6, <2>1
  <1>7. ASSUME NEW a, NEW b, a.length \in Int, b.length \in Int
        PROVE  P!Octets(<<a, b>>) = 5 + a.length + b.length
    <2>1. P!Octets(<<a, b>>) = 1 + Size(<<a, b>>)[2]
      BY <1>1, <1>5
    <2> QED
      BY <1>3, <1>7, <2>1
  <1> QED
    BY <1>1, <1>6, <1>7

(* The four headers there are.                                              *)
LEMMA HeaderIs ==
  ASSUME NEW m \in Texts, NEW pl, NEW k, NEW c
  PROVE  LET h == HeaderOf(m, pl, k, c)
             a == OwnElement(m)
             b == NumberElement(pl, k, c)
         IN  /\ h = IF Owns(m, k) THEN IF P!Numbered(pl) THEN <<a, b>> ELSE <<a>>
                    ELSE IF P!Numbered(pl) THEN <<b>> ELSE <<>>
             /\ P!Octets(h) = OctetsOf(m, pl, k)
             /\ OctetsOf(m, pl, k) \in 0 .. 145
             /\ P!get_concatenation(h) = IF P!Numbered(pl) THEN b.data ELSE None
  <1> DEFINE h == HeaderOf(m, pl, k, c)
  <1>0. PICK a, b : a = OwnElement(m) /\ b = NumberElement(pl, k, c)
    OBVIOUS
  <1>1. a.id = 5 /\ b.id = 0 /\ a.length = m.own - 3 /\ b.length = 3
    BY <1>0 DEF OwnElement, NumberElement
  <1>2. m.own \in {0} \cup (3 .. 140)
    BY TextsAssumption
  <1>3. h = IF Owns(m, k) THEN IF P!Numbered(pl) THEN <<a, b>> ELSE <<a>>
            ELSE IF P!Numbered(pl) THEN <<b>> ELSE <<>>
    <2>1. <<a>> \o <<b>> = <<a, b>> /\ <<a>> \o <<>> = <<a>>
          /\ <<>> \o <<b>> = <<b>> /\ <<>> \o <<>> = <<>>
      <3>1. <<a>> \in Seq({a, b}) /\ <<b>> \in Seq({a, b}) /\ <<a, b>> \in Seq({a, b})
            /\ <<>> \in Seq({a, b})
        OBVIOUS
      <3>2. PICK p, q : p = <<a>> /\ q = <<b>>
        OBVIOUS
      <3>3. Len(p) = 1 /\ Len(q) = 1 /\ p[1] = a /\ q[1] = b
        BY <3>2
      <3>4. /\ p \o q \in Seq({a, b}) /\ Len(p \o q) = 2
            /\ (p \o q)[1] = a /\ (p \o q)[2] = b
        <4>1. /\ p \o q \in Seq({a, b}) /\ Len(p \o q) = Len(p) + Len(q)
              /\ \A i \in 1 .. Len(p) + Len(q) :
                    (p \o q)[i] = IF i <= Len(p) THEN p[i] ELSE q[i - Len(p)]
          BY <3>1, <3>2, ConcatProperties
        <4>2. PICK pq : pq = p \o q
          OBVIOUS
        <4> QED
          BY <3>3, <4>1, <4>2
      <3>5. p \o q = <<a, b>>
        <4>1. PICK u : u = <<a, b>>
          OBVIOUS
        <4>2. u \in Seq({a, b}) /\ Len(u) = 2 /\ u[1] = a /\ u[2] = b
          BY <4>1
        <4>3. PICK pq : pq = p \o q
          OBVIOUS
        <4>4. pq \in Seq({a, b}) /\ Len(pq) = Len(u) /\ \A i \in 1 .. Len(pq) : pq[i] = u[i]
          BY <3>4, <4>2, <4>3
        <4>5. pq = u
          BY <4>2, <4>4, SeqEqual
        <4> QED
          BY <4>1, <4>3, <4>5
      <3> QED
        BY <3>1, <3>2, <3>5, ConcatEmptySeq
    <2>2. h = (IF Owns(m, k) THEN <<a>> ELSE <<>>) \o (IF P!Numbered(pl) THEN <<b>> ELSE <<>>)
      BY <1>0 DEF HeaderOf
    <2> HIDE DEF h
    <2> QED
      BY <2>1, <2>2
  <1>4. OctetsOf(m, pl, k) \in 0 .. 145
    BY <1>2 DEF OctetsOf, Owns
  <1> HIDE DEF h
  <1>5. P!Octets(h) = OctetsOf(m, pl, k)
    <2>1. a.length \in Int /\ b.length \in Int
      BY <1>1, <1>2
    <2>2. P!Octets(<<>>) = 0 /\ P!Octets(<<a>>) = 3 + a.length /\ P!Octets(<<b>>) = 3 + b.length
          /\ P!Octets(<<a, b>>) = 5 + a.length + b.length
      BY <2>1, OctetsAdd
    <2> QED
      <3>1. 3 + a.length = m.own /\ 3 + b.length = 6 /\ 5 + a.length + b.length = m.own + 5
        BY <1>1, <1>2
      <3> QED
        BY <1>3, <2>2, <3>1, Zenon DEF OctetsOf
  <1>6. ASSUME NEW q, q \in Seq({a, b}), NEW n \in 1 .. Len(q), q[n] = b, \A i \in 1 .. n - 1 : q[i] = a
        PROVE  P!get_concatenation(q) = b.data
    <2> DEFINE I == {i \in 1 .. Len(q) : q[i].id \in {0, 8}}
    <2>1. n \in I /\ \A j \in I : n <= j
      BY <1>1, <1>6
    <2>2. P!SelectInSeq(q, LAMBDA e : e.id \in {0, 8}) = P!Min(I)
      BY <2>1 DEF P!SelectInSeq
    <2>3. P!Min(I) = n
      BY <2>1 DEF P!Min
    <2>4. n # 0
      BY <1>6
    <2> QED
      BY <1>6, <2>2, <2>3, <2>4 DEF P!get_concatenation
  <1>7. ASSUME NEW q, \A i \in 1 .. Len(q) : q[i] = a PROVE P!get_concatenation(q) = None
    <2> DEFINE I == {i \in 1 .. Len(q) : q[i].id \in {0, 8}}
    <2>1. I = {}
      BY <1>1, <1>7
    <2>2. P!SelectInSeq(q, LAMBDA e : e.id \in {0, 8}) = 0
      BY <2>1 DEF P!SelectInSeq
    <2> QED
      BY <2>2 DEF P!get_concatenation
  <1>8. P!get_concatenation(h) = IF P!Numbered(pl) THEN b.data ELSE None
    <2>1. P!get_concatenation(<<b>>) = b.data
      <3>1. PICK q : q = <<b>>
        OBVIOUS
      <3>2. q \in Seq({a, b}) /\ 1 \in 1 .. Len(q) /\ q[1] = b /\ \A i \in 1 .. 1 - 1 : q[i] = a
        BY <3>1
      <3> QED
        BY <1>6, <3>1, <3>2
    <2>2. P!get_concatenation(<<a, b>>) = b.data
      <3>1. PICK q : q = <<a, b>>
        OBVIOUS
      <3>2. q \in Seq({a, b}) /\ 2 \in 1 .. Len(q) /\ q[2] = b /\ \A i \in 1 .. 2 - 1 : q[i] = a
        BY <3>1
      <3> QED
        BY <1>6, <3>1, <3>2
    <2>3. P!get_concatenation(<<>>) = None
      BY <1>7
    <2>4. P!get_concatenation(<<a>>) = None
      <3>1. PICK q : q = <<a>>
        OBVIOUS
      <3>2. \A i \in 1 .. Len(q) : q[i] = a
        BY <3>1
      <3> QED
        BY <1>7, <3>1, <3>2
    <2> QED
      BY <1>3, <2>1, <2>2, <2>3, <2>4
  <1> QED
    BY <1>0, <1>3, <1>4, <1>5, <1>8 DEF h

LEMMA MakesPdu ==
  ASSUME msg \in Texts
  PROVE  P!make_pdu = PduOf(msg, plan, next, concatenated_id)
  <1>1. P!Header = HeaderOf(msg, plan, next, concatenated_id)
    BY DEF P!Header, P!Own, P!Number, P!HasOwn, HeaderOf, Owns, OwnElement, NumberElement
  <1>2. P!Octets(P!Header) = OctetsOf(msg, plan, next)
    BY <1>1, HeaderIs
  <1>3. P!From = FromOf(msg, plan, next) /\ P!To = ToOf(msg, plan, next)
    BY DEF P!From, P!To, P!HasOwn, FromOf, ToOf, Owns
  <1> QED
    BY <1>1, <1>2, <1>3 DEF P!make_pdu, P!text2pdu, P!binary2pdu, PduOf, EndOf, InText, Septet, P!maxsms_pdu

(* How a message is split: not at all, into one part, or into as many parts *)
(* as cover it, with the room for their numbers left in each.               *)
MaxOf(m) == IF m.alphabet = "gsm" THEN 160 ELSE 140
Wide(m)  == IF m.alphabet = "ucs2" THEN 2 ELSE 1

Unsplit(m, pl) ==
    /\ pl.parts = 1 /\ pl.reserved = 0 /\ pl.each = MaxOf(m) /\ pl.split \in 0 .. 3
    /\ pl.split > 0 => m.length <= MaxOf(m)
    /\ m.alphabet = "binary" => m.length <= 140
    /\ m.alphabet # "binary" /\ pl.split > 0 => m.own = 0

Covers(n, e, len) == (n - 1) * e < len /\ len <= n * e

Cut(m, pl) ==
    /\ pl.parts \in Nat /\ pl.parts >= 2 /\ pl.each \in Nat /\ pl.reserved \in Nat
    /\ Covers(pl.parts, pl.each, m.length)
    /\ pl.each > 0 /\ pl.each + pl.reserved = MaxOf(m)
    /\ m.alphabet # "binary" => m.own = 0
    /\ \/ pl.split = 1 /\ pl.reserved = 0 /\ m.alphabet # "binary"
       \/ /\ pl.split = 2 /\ m.alphabet # "binary"
          /\ \/ pl.reserved = 4 * Wide(m) /\ pl.parts <= 9
             \/ pl.reserved = 6 * Wide(m) /\ pl.parts <= 99
             \/ pl.reserved = 8 * Wide(m) /\ pl.parts <= 255
       \/ /\ pl.split = 3 /\ pl.reserved = IF Septet(m) THEN 7 ELSE 6
          /\ m.alphabet = "gsm" => pl.parts <= 255

LEMMA PartsCover ==
  ASSUME NEW len \in Nat, NEW e \in Nat \ {0}
  PROVE  /\ P!PartsFor(len, e) \in Nat
         /\ len > 0 => Covers(P!PartsFor(len, e), e, len)
         /\ len > e => P!PartsFor(len, e) >= 2
  <1>1. PICK n : n = P!PartsFor(len, e)
    OBVIOUS
  <1>2. n = (len + e - 1) \div e
    BY <1>1 DEF P!PartsFor
  <1>3. n \in Nat /\ n * e <= len + e - 1 /\ len + e - 1 < n * e + e
    BY <1>2
  <1>4. (n - 1) * e = n * e - e
    BY <1>3
  <1>5. (n - 1) * e < len /\ len <= n * e
    BY <1>3, <1>4
  <1>6. ASSUME len > e PROVE n >= 2
    <2>1. n # 0 /\ n # 1
      BY <1>5, <1>6
    <2> QED
      BY <1>3, <2>1
  <1> QED
    BY <1>1, <1>3, <1>5, <1>6 DEF Covers

PlanIs(m, pl, reserved, how) ==
    /\ pl.parts \in Nat /\ pl.parts >= 2 /\ pl.each = MaxOf(m) - reserved /\ pl.each > 0
    /\ pl.each \in Nat /\ pl.reserved = reserved /\ pl.split = how
    /\ Covers(pl.parts, pl.each, m.length)

LEMMA PlanCovers ==
  ASSUME NEW m \in Texts, NEW reserved \in 0 .. 16, NEW how, m.length > MaxOf(m)
  PROVE  PlanIs(m, P!Plan(m.length, MaxOf(m), reserved, how), reserved, how)
  <1>1. PICK pl : pl = P!Plan(m.length, MaxOf(m), reserved, how)
    OBVIOUS
  <1>2. m.length \in Nat /\ MaxOf(m) \in {140, 160}
    BY TextsAssumption DEF MaxOf
  <1>3. PICK e : e = MaxOf(m) - reserved
    OBVIOUS
  <1>4. e \in Nat \ {0} /\ m.length > e
    BY <1>2, <1>3
  <1>5. /\ pl.parts = P!PartsFor(m.length, e) /\ pl.each = e
        /\ pl.reserved = reserved /\ pl.split = how
    BY <1>1, <1>3 DEF P!Plan
  <1>6. /\ P!PartsFor(m.length, e) \in Nat /\ P!PartsFor(m.length, e) >= 2
        /\ Covers(P!PartsFor(m.length, e), e, m.length)
    BY <1>2, <1>4, PartsCover
  <1> QED
    BY <1>1, <1>3, <1>4, <1>5, <1>6 DEF PlanIs

LEMMA TextIs ==
  ASSUME NEW m \in Texts
  PROVE  /\ m.alphabet \in {"gsm", "utf8", "ucs2", "binary"} /\ m.length \in Nat
         /\ m.length <= 39015 /\ m.split \in {0, 1, 2, 3} /\ m.own \in {0} \cup (3 .. 140)
  BY TextsAssumption DEF P!Alphabet

(* A GSM text with its numbers in the header has at most 255 parts, because  *)
(* the buffer holds no longer one.                                          *)
LEMMA GsmParts ==
  ASSUME NEW n \in Nat, NEW len \in Nat, len <= 39015, Covers(n, 153, len)
  PROVE  n <= 255
  <1>1. (n - 1) * 153 < len
    BY DEF Covers
  <1> QED
    BY <1>1

LEMMA NumberedIs ==
  ASSUME NEW m \in Texts, m.alphabet # "binary", m.own = 0, m.length > MaxOf(m)
  PROVE  \/ P!NumberedText(m.length, MaxOf(m), Wide(m)) = P!Failed
         \/ Cut(m, P!NumberedText(m.length, MaxOf(m), Wide(m)))
  <1> DEFINE Q(n) == P!Plan(m.length, MaxOf(m), n * Wide(m), 2)
  <1>0. Wide(m) \in {1, 2}
    BY DEF Wide
  <1>1. PICK p4, p6, p8 : p4 = Q(4) /\ p6 = Q(6) /\ p8 = Q(8)
    OBVIOUS
  <1>2. /\ PlanIs(m, p4, 4 * Wide(m), 2) /\ PlanIs(m, p6, 6 * Wide(m), 2)
        /\ PlanIs(m, p8, 8 * Wide(m), 2)
    <2>1. 4 * Wide(m) \in 0 .. 16 /\ 6 * Wide(m) \in 0 .. 16 /\ 8 * Wide(m) \in 0 .. 16
      BY <1>0
    <2>2. PlanIs(m, Q(4), 4 * Wide(m), 2)
      BY <2>1, PlanCovers
    <2>3. PlanIs(m, Q(6), 6 * Wide(m), 2)
      BY <2>1, PlanCovers
    <2>4. PlanIs(m, Q(8), 8 * Wide(m), 2)
      BY <2>1, PlanCovers
    <2> QED
      BY <1>1, <2>2, <2>3, <2>4
  <1>3. PICK p : p = P!NumberedText(m.length, MaxOf(m), Wide(m))
    OBVIOUS
  <1>4. p = CASE p4.parts <= 9 -> p4
              [] p4.parts > 9 /\ p6.parts <= 99 -> p6
              [] p4.parts > 9 /\ p6.parts > 99 /\ p8.parts <= 255 -> p8
              [] OTHER -> P!Failed
    BY <1>1, <1>3 DEF P!NumberedText
  <1> HIDE DEF Q
  <1>5. \/ p = P!Failed
        \/ p = p4 /\ p4.parts <= 9
        \/ p = p6 /\ p6.parts <= 99
        \/ p = p8 /\ p8.parts <= 255
    <2>1. CASE p4.parts <= 9
      BY <1>2, <1>4, <2>1 DEF PlanIs
    <2>2. CASE p4.parts > 9 /\ p6.parts <= 99
      BY <1>2, <1>4, <2>2 DEF PlanIs
    <2>3. CASE p4.parts > 9 /\ p6.parts > 99 /\ p8.parts <= 255
      BY <1>2, <1>4, <2>3 DEF PlanIs
    <2>4. CASE p4.parts > 9 /\ p6.parts > 99 /\ p8.parts > 255
      BY <1>2, <1>4, <2>4 DEF PlanIs
    <2> QED
      BY <1>2, <2>1, <2>2, <2>3, <2>4 DEF PlanIs
  <1>6. MaxOf(m) \in {140, 160}
    BY DEF MaxOf
  <1>7. ASSUME NEW q, NEW n \in {4, 6, 8}, PlanIs(m, q, n * Wide(m), 2),
               q.parts <= (CASE n = 4 -> 9 [] n = 6 -> 99 [] n = 8 -> 255)
        PROVE  Cut(m, q)
    <2>1. PICK r : r = n * Wide(m)
      OBVIOUS
    <2>2. r \in Nat
      BY <1>0, <2>1
    <2> QED
      BY <1>6, <1>7, <2>1, <2>2 DEF Cut, PlanIs
  <1>8. p = p4 /\ p4.parts <= 9 => Cut(m, p)
    BY <1>2, <1>7
  <1>9. p = p6 /\ p6.parts <= 99 => Cut(m, p)
    BY <1>2, <1>7
  <1>10. p = p8 /\ p8.parts <= 255 => Cut(m, p)
    BY <1>2, <1>7
  <1> QED
    BY <1>3, <1>5, <1>8, <1>9, <1>10

LEMMA UncutIs ==
  ASSUME NEW m \in Texts, NEW how \in 0 .. 3,
         how > 0 => m.length <= MaxOf(m),
         m.alphabet = "binary" => m.length <= 140,
         m.alphabet # "binary" /\ how > 0 => m.own = 0
  PROVE  Unsplit(m, P!Uncut(MaxOf(m), how))
  BY DEF P!Uncut, Unsplit

LEMMA SplitIs ==
  ASSUME NEW m \in Texts
  PROVE  P!Split(m) = P!Failed \/ Unsplit(m, P!Split(m)) \/ Cut(m, P!Split(m))
  <1>1. PICK p : p = P!Split(m)
    OBVIOUS
  <1>2. /\ m.alphabet \in {"gsm", "utf8", "ucs2", "binary"} /\ m.length \in Nat
        /\ m.length <= 39015 /\ m.split \in {0, 1, 2, 3} /\ m.own \in {0} \cup (3 .. 140)
    BY TextIs
  <1>3. MaxOf(m) \in {140, 160} /\ (m.alphabet = "binary" => MaxOf(m) = 140)
    BY DEF MaxOf
  <1>4. CASE m.alphabet = "binary"
    <2>1. p = IF m.length <= 140 THEN P!Uncut(MaxOf(m), m.split)
              ELSE IF m.split = 0 THEN P!Failed
              ELSE P!Plan(m.length, MaxOf(m), 6, 3)
      BY <1>1, <1>3, <1>4 DEF P!Split, P!SplitBinary, P!maxsms_binary
    <2>2. CASE m.length <= 140
      BY <1>1, <1>2, <1>3, <1>4, <2>1, <2>2, UncutIs
    <2>3. CASE ~ (m.length <= 140) /\ m.split # 0
      <3>1. p = P!Plan(m.length, MaxOf(m), 6, 3)
        BY <2>1, <2>3
      <3>2. PlanIs(m, p, 6, 3)
        BY <1>2, <1>3, <1>4, <2>3, <3>1, PlanCovers
      <3>3. Cut(m, p)
        BY <1>3, <1>4, <3>2 DEF PlanIs, Cut, Septet
      <3> QED
        BY <1>1, <3>3
    <2> QED
      BY <1>1, <2>1, <2>2, <2>3
  <1>5. CASE m.alphabet # "binary"
    <2>1. PICK s : s = IF m.own > 0 THEN 0 ELSE m.split
      OBVIOUS
    <2>2. s \in {0, 1, 2, 3} /\ (s > 0 => m.own = 0)
      BY <1>2, <2>1
    <2>3. /\ s = 0 \/ m.length <= MaxOf(m) => p = P!Uncut(MaxOf(m), s)
          /\ s = 1 /\ ~ (m.length <= MaxOf(m)) => p = P!Plan(m.length, MaxOf(m), 0, 1)
          /\ s = 2 /\ ~ (m.length <= MaxOf(m)) => p = P!NumberedText(m.length, MaxOf(m), Wide(m))
          /\ s = 3 /\ ~ (m.length <= MaxOf(m)) =>
                p = P!Plan(m.length, MaxOf(m), IF m.alphabet = "ucs2" THEN 6 ELSE 7, 3)
      <3>1. p = P!SplitText(m)
        BY <1>1, <1>5 DEF P!Split
      <3>2. MaxOf(m) = IF m.alphabet = "gsm" THEN P!maxsms_pdu ELSE P!maxsms_ucs2
        BY DEF MaxOf, P!maxsms_pdu, P!maxsms_ucs2
      <3>3. Wide(m) = IF m.alphabet = "ucs2" THEN 2 ELSE 1
        BY DEF Wide
      <3>4. PICK max, w, v : /\ max = (IF m.alphabet = "gsm" THEN P!maxsms_pdu ELSE P!maxsms_ucs2)
                          /\ w = (IF m.alphabet = "ucs2" THEN 2 ELSE 1)
                          /\ v = (IF m.alphabet = "ucs2" THEN 6 ELSE 7)
        OBVIOUS
      <3>5. CASE s = 0 \/ m.length <= max
        BY <2>1, <3>1, <3>2, <3>4, <3>5 DEF P!SplitText
      <3>6. CASE s = 1 /\ ~ (m.length <= max)
        BY <2>1, <3>1, <3>2, <3>4, <3>6 DEF P!SplitText
      <3>7. CASE s = 2 /\ ~ (m.length <= max)
        BY <2>1, <3>1, <3>2, <3>3, <3>4, <3>7 DEF P!SplitText
      <3>8. CASE s = 3 /\ ~ (m.length <= max)
        BY <2>1, <3>1, <3>2, <3>4, <3>8 DEF P!SplitText
      <3> QED
        BY <2>2, <3>2, <3>4, <3>5, <3>6, <3>7, <3>8
    <2>4. CASE s = 0 \/ m.length <= MaxOf(m)
      <3>1. Unsplit(m, P!Uncut(MaxOf(m), s))
        BY <1>2, <1>3, <1>5, <2>2, <2>4, UncutIs
      <3> QED
        BY <1>1, <2>3, <2>4, <3>1
    <2>5. CASE s = 1 /\ m.length > MaxOf(m)
      <3>1. p = P!Plan(m.length, MaxOf(m), 0, 1)
        BY <1>2, <1>3, <2>3, <2>5
      <3>2. PlanIs(m, p, 0, 1)
        BY <2>5, <3>1, PlanCovers
      <3>3. Cut(m, p)
        BY <1>3, <1>5, <2>2, <2>5, <3>2 DEF PlanIs, Cut
      <3> QED
        BY <1>1, <3>3
    <2>6. CASE s = 2 /\ m.length > MaxOf(m)
      <3>1. p = P!NumberedText(m.length, MaxOf(m), Wide(m))
        BY <1>2, <1>3, <2>3, <2>6
      <3> QED
        BY <1>1, <1>5, <2>2, <2>6, <3>1, NumberedIs
    <2>7. CASE s = 3 /\ m.length > MaxOf(m)
      <3>0. PICK r \in {6, 7} : r = IF m.alphabet = "ucs2" THEN 6 ELSE 7
        OBVIOUS
      <3>1. p = P!Plan(m.length, MaxOf(m), r, 3)
        BY <1>2, <1>3, <2>3, <2>7, <3>0
      <3>2. PlanIs(m, p, r, 3)
        BY <2>7, <3>1, PlanCovers
      <3>3. ASSUME m.alphabet = "gsm" PROVE p.parts <= 255
        <4>1. p.each = 153 /\ Covers(p.parts, p.each, m.length) /\ p.parts \in Nat
          BY <3>0, <3>2, <3>3 DEF PlanIs, MaxOf
        <4> QED
          BY <1>2, <4>1, GsmParts
      <3>4. Cut(m, p)
        BY <1>2, <1>3, <1>5, <2>2, <2>7, <3>0, <3>2, <3>3 DEF PlanIs, Cut, Septet
      <3> QED
        BY <1>1, <3>4
    <2> QED
      BY <1>2, <1>3, <2>2, <2>4, <2>5, <2>6, <2>7
  <1> QED
    BY <1>4, <1>5

(* The bits in front of the text of a part are those of whole septets.      *)
LEMMA FillIs ==
  ASSUME NEW o \in 0 .. 145
  PROVE  /\ P!Septets(o) \in Nat /\ P!fillbits(o) \in Nat
         /\ 8 * o + P!fillbits(o) = 7 * P!Septets(o)
         /\ o <= 140 => P!Septets(o) <= 160
         /\ o = 0 => P!Septets(o) = 0
         /\ o = 6 => P!Septets(o) = 7
  <1>1. PICK q, r \in Nat : o = 7 * q + r /\ r <= 6 /\ r = o % 7 /\ q = o \div 7
    <2>1. (o \div 7) \in Nat /\ (o % 7) \in Nat /\ o = 7 * (o \div 7) + (o % 7) /\ (o % 7) <= 6
      OBVIOUS
    <2> QED
      BY <2>1
  <1>2. P!Septets(o) = o + q + (IF r = 0 THEN 0 ELSE 1)
    <2>1. P!Septets(o) = (8 * o + 6) \div 7
      BY DEF P!Septets
    <2> QED
      BY <1>1, <2>1
  <1>3. P!fillbits(o) = IF r = 0 THEN 0 ELSE 7 - r
    BY <1>1 DEF P!fillbits
  <1> QED
    BY <1>1, <1>2, <1>3

TooLargeOf(m) == m.alphabet = "ucs2" /\ m.own > 0 /\ m.length > 140 - m.own

SizeOf(m, pl, k, from1, to1) ==
    8 * OctetsOf(m, pl, k) + (IF Septet(m) THEN P!fillbits(OctetsOf(m, pl, k)) ELSE 0)
       + (IF Septet(m) THEN 7 ELSE 8) * (InText(pl) + to1 - from1)

(* The part k begins at b, as the products of SmsSplit say, and ends at t.  *)
LEMMA PartEnds ==
  ASSUME NEW m \in Texts, NEW pl, Unsplit(m, pl) \/ Cut(m, pl), NEW k \in Nat, k < pl.parts
  PROVE  LET b == k * pl.each
             t == EndOf(m, pl, k)
             f == FromOf(m, pl, k)
         IN  /\ b \in Nat /\ t \in Nat /\ f \in Nat
             /\ k > 0 => f = b /\ b > 0
             /\ ~ TooLargeOf(m) => SizeOf(m, pl, k, f, t) <= 8 * 140
             /\ k + 1 < pl.parts => t = b + pl.each /\ t = (k + 1) * pl.each
             /\ k + 1 = pl.parts /\ pl.split > 0 => t = m.length
  <1>1. PICK len, own1, O, f, t, b, e, n, z :
            /\ len \in Nat /\ own1 \in Nat /\ O \in 0 .. 145
            /\ len = m.length /\ own1 = m.own /\ O = OctetsOf(m, pl, k)
            /\ f = FromOf(m, pl, k) /\ t = EndOf(m, pl, k) /\ b = k * pl.each
            /\ e = pl.each /\ n = InText(pl) /\ z = SizeOf(m, pl, k, f, t)
    <2>1. m.length \in Nat /\ m.own \in Nat
      BY TextIs
    <2>2. PICK c : c = 0
      OBVIOUS
    <2>3. OctetsOf(m, pl, k) \in 0 .. 145
      BY HeaderIs
    <2> QED
      BY <2>1, <2>3
  <1> DEFINE Ends == /\ b \in Nat /\ t \in Nat /\ f \in Nat
                     /\ k > 0 => f = b /\ b > 0
                     /\ ~ TooLargeOf(m) => z <= 8 * 140
                     /\ k + 1 < pl.parts => t = b + e /\ t = (k + 1) * e
                     /\ k + 1 = pl.parts /\ pl.split > 0 => t = len
  <1>2. /\ m.alphabet \in {"gsm", "utf8", "ucs2", "binary"} /\ own1 \in {0} \cup (3 .. 140)
    BY <1>1, TextIs
  <1>3. PICK s, y \in Nat : /\ s = P!Septets(O) /\ y = P!fillbits(O) /\ 8 * O + y = 7 * s
                            /\ O <= 140 => s <= 160
                            /\ O = 0 => s = 0
                            /\ O = 6 => s = 7
    <2>1. O \in 0 .. 145
      BY <1>1
    <2>2. /\ P!Septets(O) \in Nat /\ P!fillbits(O) \in Nat
          /\ 8 * O + P!fillbits(O) = 7 * P!Septets(O)
          /\ O <= 140 => P!Septets(O) <= 160
          /\ O = 0 => P!Septets(O) = 0
          /\ O = 6 => P!Septets(O) = 7
      BY <2>1, FillIs
    <2> QED
      BY <2>2
  <1>4. PICK x : x = IF b + e < len THEN b + e ELSE len
    OBVIOUS
  <1>5. /\ t = IF Septet(m) THEN IF x < f + 160 - s - n THEN x ELSE f + 160 - s - n ELSE x
        /\ f = IF m.alphabet = "binary" /\ own1 > 0 /\ k = 0 THEN own1 ELSE b
        /\ z = 8 * O + (IF Septet(m) THEN y ELSE 0)
                 + (IF Septet(m) THEN 7 ELSE 8) * (n + t - f)
        /\ O = IF own1 > 0 /\ k = 0 THEN IF P!Numbered(pl) THEN own1 + 5 ELSE own1
               ELSE IF P!Numbered(pl) THEN 6 ELSE 0
    <2>1. e \in Nat /\ pl.each = e
      BY <1>1 DEF Unsplit, Cut, MaxOf
    <2>2. (k + 1) * e = b + e
      BY <1>1, <2>1
    <2>3. x = ToOf(m, pl, k)
      BY <1>1, <1>4, <2>1, <2>2 DEF ToOf
    <2>4. f = IF m.alphabet = "binary" /\ own1 > 0 /\ k = 0 THEN own1 ELSE b
      BY <1>1 DEF FromOf, Owns
    <2>5. t = IF Septet(m) THEN IF x < f + 160 - s - n THEN x ELSE f + 160 - s - n ELSE x
      BY <1>1, <1>3, <2>3 DEF EndOf, P!Least
    <2>6. O = IF own1 > 0 /\ k = 0 THEN IF P!Numbered(pl) THEN own1 + 5 ELSE own1
              ELSE IF P!Numbered(pl) THEN 6 ELSE 0
      BY <1>1 DEF OctetsOf, Owns
    <2> QED
      BY <1>1, <1>3, <2>4, <2>5, <2>6 DEF SizeOf
  <1>6. ASSUME Unsplit(m, pl) PROVE Ends
    <2>1. /\ k = 0 /\ b = 0 /\ e \in {140, 160} /\ n = 0 /\ ~ P!Numbered(pl) /\ pl.parts = 1
          /\ e = MaxOf(m)
      BY <1>1, <1>6 DEF Unsplit, MaxOf, InText, P!Numbered
    <2>2. /\ pl.split > 0 => len <= e
          /\ m.alphabet = "binary" => len <= 140
          /\ m.alphabet # "binary" /\ pl.split > 0 => own1 = 0
          /\ e = IF m.alphabet = "gsm" THEN 160 ELSE 140
      BY <1>1, <1>6, <2>1 DEF Unsplit, MaxOf
    <2>3. pl.split \in Nat
      BY <1>6 DEF Unsplit
    <2>4. TooLargeOf(m) <=> m.alphabet = "ucs2" /\ own1 > 0 /\ len > 140 - own1
      BY <1>1 DEF TooLargeOf
    <2>5. x \in Nat /\ x <= len /\ x <= e /\ (len <= e => x = len)
      BY <1>1, <1>4, <2>1
    <2>6. CASE Septet(m)
      <3>1. m.alphabet \in {"gsm", "utf8"}
        BY <2>6 DEF Septet
      <3>2. f = 0 /\ O = own1 /\ s <= 160
        BY <1>2, <1>3, <1>5, <2>1, <3>1
      <3>3. t = IF x < 160 - s THEN x ELSE 160 - s
        BY <1>3, <1>5, <2>1, <2>6, <3>2
      <3>4. t \in Nat /\ t <= x /\ t + s <= 160
        BY <1>3, <2>5, <3>2, <3>3
      <3>5. z = 7 * s + 7 * t
        <4>1. z = 8 * O + y + 7 * (n + t - f)
          BY <1>5, <2>6
        <4> QED
          BY <1>3, <2>1, <3>2, <3>4, <4>1
      <3>6. pl.split > 0 => t = len
        <4> SUFFICES ASSUME pl.split > 0 PROVE t = len
          OBVIOUS
        <4>1. own1 = 0 /\ len <= e
          BY <2>2, <3>1
        <4>2. s = 0 /\ x = len
          BY <1>3, <2>5, <3>2, <4>1
        <4>3. x <= 160
          BY <2>1, <2>5
        <4> QED
          BY <2>5, <3>3, <4>2, <4>3
      <3>7. Ends
        BY <1>3, <2>1, <3>2, <3>4, <3>5, <3>6
      <3> QED
        BY <3>7
    <2>7. CASE ~ Septet(m)
      <3>1. m.alphabet \in {"ucs2", "binary"} /\ e = 140
        BY <1>2, <2>2, <2>7 DEF Septet
      <3>2. t = x /\ O = own1 /\ z = 8 * O + 8 * (n + t - f)
        BY <1>1, <1>5, <2>1, <2>7
      <3>3. f \in Nat /\ z = 8 * (O + t - f)
        <4>1. f \in Nat
          BY <1>1, <1>5, <2>1
        <4>2. t \in Nat /\ O \in Nat /\ n = 0
          BY <1>1, <2>1, <2>5, <3>2
        <4> QED
          BY <3>2, <4>1, <4>2
      <3>4. ~ TooLargeOf(m) => O + t - f <= 140
        <4>1. CASE m.alphabet = "ucs2"
          BY <1>1, <1>5, <2>1, <2>4, <2>5, <3>1, <3>2, <4>1
        <4>2. CASE m.alphabet = "binary"
          BY <1>1, <1>5, <2>1, <2>5, <3>1, <3>2, <4>2
        <4> QED
          BY <3>1, <4>1, <4>2
      <3>5. ~ TooLargeOf(m) => z <= 8 * 140
        BY <1>1, <2>5, <3>2, <3>3, <3>4
      <3>6. pl.split > 0 => t = len
        BY <2>2, <2>5, <3>2
      <3>7. Ends
        BY <2>1, <2>5, <3>2, <3>3, <3>5, <3>6
      <3> QED
        BY <3>7
    <2> QED
      BY <2>6, <2>7
  <1>7. ASSUME Cut(m, pl) PROVE Ends
    <2>1. PICK parts, reserved \in Nat : parts = pl.parts /\ reserved = pl.reserved
      BY <1>7 DEF Cut
    <2>2. e \in Nat /\ e > 0 /\ parts >= 2 /\ e + reserved = MaxOf(m) /\ k + 1 <= parts
          /\ (m.alphabet # "binary" => own1 = 0)
      BY <1>1, <1>7, <2>1 DEF Cut
    <2>3. b \in Nat /\ (k > 0 => b > 0) /\ (k = 0 => b = 0) /\ b < len
          /\ (k + 1 < parts => b + e < len) /\ (k + 1 = parts => len <= b + e)
          /\ (k + 1) * e = b + e
      <3>1. (parts - 1) * e < len /\ len <= parts * e
        BY <1>1, <1>7, <2>1 DEF Cut, Covers
      <3>2. (k + 1) * e = b + e /\ b \in Nat /\ (k > 0 => b >= e) /\ (k = 0 => b = 0)
        BY <1>1, <2>2
      <3>3. \A u, v \in Nat : u <= v => u * e <= v * e
        BY <2>2
      <3>4. b <= (parts - 1) * e
        BY <1>1, <2>1, <2>2, <3>3
      <3>5. k + 1 < parts => (k + 1) * e <= (parts - 1) * e
        BY <1>1, <2>1, <2>2, <3>3
      <3>6. k + 1 = parts => parts * e = b + e
        BY <3>2
      <3>7. (parts - 1) * e \in Int /\ parts * e \in Int
        BY <2>1, <2>2
      <3> QED
        BY <1>1, <2>2, <3>1, <3>2, <3>4, <3>5, <3>6, <3>7
    <2>4. /\ n = IF pl.split = 2 THEN reserved ELSE 0
          /\ P!Numbered(pl) <=> pl.split = 3
          /\ pl.split = 1 => reserved = 0
          /\ pl.split = 3 => reserved = IF Septet(m) THEN 7 ELSE 6
          /\ m.alphabet = "binary" => pl.split = 3
          /\ pl.split \in {1, 2, 3}
      BY <1>1, <1>7, <2>1, <2>2 DEF Cut, InText, P!Numbered
    <2>5. MaxOf(m) = IF m.alphabet = "gsm" THEN 160 ELSE 140
      BY DEF MaxOf
    <2>6. CASE Septet(m)
      <3>1. m.alphabet \in {"gsm", "utf8"}
        BY <2>6 DEF Septet
      <3>2. own1 = 0 /\ f = b /\ e + reserved <= 160
        BY <1>5, <2>2, <2>5, <3>1
      <3>3. s + n <= 160 - e /\ n \in Nat
        BY <1>3, <1>5, <2>1, <2>2, <2>4, <2>6, <3>2
      <3>4. t = x
        <4>1. x \in Nat /\ x <= b + e
          BY <1>1, <1>4, <2>2, <2>3
        <4>2. x <= f + 160 - s - n
          BY <1>3, <2>2, <2>3, <3>2, <3>3, <4>1
        <4>3. t = IF x < f + 160 - s - n THEN x ELSE f + 160 - s - n
          BY <1>5, <2>6
        <4>4. f + 160 - s - n \in Int
          BY <1>3, <2>3, <3>2, <3>3
        <4> QED
          BY <4>1, <4>2, <4>3, <4>4
      <3>5. z <= 8 * 140
        <4>1. z = 7 * s + 7 * (n + t - b)
          BY <1>3, <1>5, <2>6, <3>2
        <4>2. t <= b + e
          BY <1>1, <1>4, <2>2, <2>3, <3>4
        <4> QED
          BY <1>3, <1>4, <2>2, <2>3, <2>4, <3>3, <3>4, <4>1, <4>2
      <3> QED
        BY <1>1, <1>4, <2>1, <2>2, <2>3, <3>2, <3>4, <3>5
    <2>7. CASE ~ Septet(m)
      <3>1. m.alphabet \in {"ucs2", "binary"} /\ MaxOf(m) = 140
        BY <1>2, <2>5, <2>7 DEF Septet
      <3>2. t = x
        BY <1>5, <2>7
      <3>3. f \in Nat /\ (k > 0 => f = b)
        BY <1>1, <1>5, <2>3
      <3>4. z = 8 * O + 8 * (n + t - f)
        BY <1>1, <1>3, <1>5, <2>7
      <3>5. t <= b + e /\ t \in Nat
        BY <1>1, <1>4, <2>2, <2>3, <3>2
      <3>6. O + n + t - f <= 140 /\ n \in Nat
        <4>1. t <= f + e \/ (m.alphabet = "binary" /\ own1 > 0 /\ k = 0 /\ f = own1 /\ t <= e)
          BY <1>5, <2>2, <2>3, <3>1, <3>5
        <4>2. CASE pl.split = 3
          <5>1. n = 0 /\ reserved = 6 /\ e = 134
            BY <2>1, <2>2, <2>4, <2>7, <3>1, <4>2
          <5>2. CASE own1 > 0 /\ k = 0
            <6>1. O = own1 + 5 /\ f = own1 /\ t <= e
              <7>1. m.alphabet = "binary"
                BY <1>1, <2>2, <5>2
              <7>2. b = 0 /\ f = own1 /\ O = own1 + 5
                BY <1>5, <2>3, <2>4, <4>2, <5>2, <7>1
              <7> QED
                BY <2>2, <3>5, <7>2
            <6> QED
              BY <1>1, <3>5, <5>1, <6>1
          <5>3. CASE ~ (own1 > 0 /\ k = 0)
            <6>1. O = 6 /\ f = b
              BY <1>5, <2>4, <4>2, <5>3
            <6> QED
              BY <2>3, <3>5, <5>1, <6>1
          <5> QED
            BY <5>2, <5>3
        <4>3. CASE pl.split # 3
          <5>1. m.alphabet = "ucs2" /\ own1 = 0 /\ O = 0 /\ f = b /\ n <= reserved /\ n \in Nat
            BY <1>5, <2>1, <2>2, <2>4, <3>1, <4>3
          <5> QED
            BY <2>1, <2>2, <2>3, <3>1, <3>5, <5>1
        <4> QED
          BY <4>2, <4>3
      <3>7. z <= 8 * 140
        BY <1>1, <3>3, <3>4, <3>5, <3>6
      <3>8. k + 1 < pl.parts => t = b + e /\ t = (k + 1) * e
        BY <1>4, <2>1, <2>3, <3>2
      <3>9. k + 1 = pl.parts => t = len
        BY <1>1, <1>4, <2>1, <2>2, <2>3, <3>2
      <3>10. Ends
        BY <2>3, <3>3, <3>5, <3>7, <3>8, <3>9
      <3> QED
        BY <3>10
    <2> QED
      BY <2>6, <2>7
  <1>8. Ends
    BY <1>6, <1>7
  <1> QED
    BY <1>1, <1>8

(* A plan has the four fields of a plan, whichever way it was made.         *)
PlanRecord(p) == p = [parts |-> p.parts, each |-> p.each, reserved |-> p.reserved,
                      split |-> p.split]

LEMMA SplitRecord ==
  ASSUME NEW m \in Texts
  PROVE  PlanRecord(P!Split(m))
  <1>1. PlanRecord(P!Failed)
    BY DEF PlanRecord, P!Failed
  <1>2. \A max, s : PlanRecord(P!Uncut(max, s))
    BY DEF PlanRecord, P!Uncut
  <1>3. \A len, max, r, s : PlanRecord(P!Plan(len, max, r, s))
    BY DEF PlanRecord, P!Plan
  <1>4. \A len, max, w : PlanRecord(P!NumberedText(len, max, w))
    BY <1>1, <1>3 DEF P!NumberedText
  <1>5. m.alphabet = "binary" => PlanRecord(P!Split(m))
    BY <1>1, <1>2, <1>3 DEF P!Split, P!SplitBinary
  <1>6. m.alphabet # "binary" => PlanRecord(P!Split(m))
    <2> SUFFICES ASSUME m.alphabet # "binary" PROVE PlanRecord(P!SplitText(m))
      BY DEF P!Split
    <2>1. PICK max, s, w : /\ max = IF m.alphabet = "gsm" THEN P!maxsms_pdu ELSE P!maxsms_ucs2
                           /\ s = IF m.own > 0 THEN 0 ELSE m.split
                           /\ w = P!SplitText(m)
      OBVIOUS
    <2>2. s \in {0, 1, 2, 3}
      BY <2>1, TextIs
    <2>3. CASE s = 0 \/ m.length <= max
      BY <1>2, <2>1, <2>3 DEF P!SplitText
    <2>4. CASE s = 1 /\ ~ (m.length <= max)
      BY <1>3, <2>1, <2>4 DEF P!SplitText
    <2>5. CASE s = 2 /\ ~ (m.length <= max)
      BY <1>4, <2>1, <2>5 DEF P!SplitText
    <2>6. CASE s = 3 /\ ~ (m.length <= max)
      BY <1>3, <2>1, <2>6 DEF P!SplitText
    <2> QED
      BY <2>2, <2>3, <2>4, <2>5, <2>6
  <1> QED
    BY <1>5, <1>6

LEMMA SplitTyped ==
  ASSUME NEW m \in Texts
  PROVE  P!Split(m) \in [parts : Nat, each : Nat, reserved : Nat, split : 0 .. 3]
  <1>1. PICK p : p = P!Split(m)
    OBVIOUS
  <1>2. PlanRecord(p)
    BY <1>1, SplitRecord
  <1>3. p.parts \in Nat /\ p.each \in Nat /\ p.reserved \in Nat /\ p.split \in 0 .. 3
    <2>1. CASE p = P!Failed
      BY <2>1 DEF P!Failed
    <2>2. CASE Unsplit(m, p)
      BY <2>2 DEF Unsplit, MaxOf
    <2>3. CASE Cut(m, p)
      BY <2>3 DEF Cut
    <2> QED
      BY <1>1, <2>1, <2>2, <2>3, SplitIs
  <1>4. PICK a, b \in Nat, c \in Nat, d \in 0 .. 3 :
            a = p.parts /\ a \in Nat /\ b = p.each /\ c = p.reserved /\ d = p.split
    BY <1>3
  <1>5. p = [parts |-> a, each |-> b, reserved |-> c, split |-> d]
    BY <1>2, <1>4 DEF PlanRecord
  <1> QED
    BY <1>1, <1>4, <1>5

(* The receiver can read a part, where there are no more than 255.          *)
LEMMA PartReadable ==
  ASSUME NEW m \in Texts, m = msg, NEW pl, Unsplit(m, pl) \/ Cut(m, pl),
         NEW k \in Nat, k < pl.parts, NEW c \in 0 .. 255,
         ~ (pl.parts > 255 /\ pl.split = 3 /\ m.alphabet # "gsm")
  PROVE  P!Readable(PduOf(m, pl, k, c))
  <1>1. PICK h, a, b, p : /\ h = HeaderOf(m, pl, k, c) /\ a = OwnElement(m)
                          /\ b = NumberElement(pl, k, c) /\ p = PduOf(m, pl, k, c)
    OBVIOUS
  <1>2. /\ h = IF Owns(m, k) THEN IF P!Numbered(pl) THEN <<a, b>> ELSE <<a>>
               ELSE IF P!Numbered(pl) THEN <<b>> ELSE <<>>
        /\ P!Octets(h) = OctetsOf(m, pl, k)
        /\ OctetsOf(m, pl, k) \in 0 .. 145
    BY <1>1, HeaderIs
  <1>3. p.header = h /\ p.fill = IF Septet(m) THEN P!fillbits(OctetsOf(m, pl, k)) ELSE 0
    BY <1>1 DEF PduOf
  <1>4. Septet(m) => 8 * P!Octets(h) + p.fill = 7 * P!Septets(P!Octets(h))
    BY <1>2, <1>3, FillIs
  <1>5. P!Numbered(pl) => \A j \in 1 .. 3 : b.data[j] \in 0 .. 255
    <2> SUFFICES ASSUME P!Numbered(pl) PROVE \A j \in 1 .. 3 : b.data[j] \in 0 .. 255
      OBVIOUS
    <2>1. pl.parts \in Nat /\ pl.parts <= 255
      BY DEF P!Numbered, Unsplit, Cut
    <2>2. k + 1 \in 0 .. 255 /\ pl.parts \in 0 .. 255
      BY <2>1
    <2>3. b.data = <<c, pl.parts, k + 1>>
      BY <1>1 DEF NumberElement
    <2>4. b.data[1] = c /\ b.data[2] = pl.parts /\ b.data[3] = k + 1
      BY <2>3
    <2> QED
      BY <2>2, <2>4
  <1>6. a.id = 5
    BY <1>1 DEF OwnElement
  <1>7. \A i \in DOMAIN h : h[i] = a \/ (P!Numbered(pl) /\ h[i] = b)
    <2>1. CASE Owns(m, k) /\ P!Numbered(pl)
      BY <1>2, <2>1
    <2>2. CASE Owns(m, k) /\ ~ P!Numbered(pl)
      BY <1>2, <2>2
    <2>3. CASE ~ Owns(m, k) /\ P!Numbered(pl)
      BY <1>2, <2>3
    <2>4. CASE ~ Owns(m, k) /\ ~ P!Numbered(pl)
      BY <1>2, <2>4
    <2> QED
      BY <2>1, <2>2, <2>3, <2>4
  <1>8. \A i \in DOMAIN h : h[i].id = 0 => \A j \in 1 .. 3 : h[i].data[j] \in 0 .. 255
    BY <1>5, <1>6, <1>7
  <1>9. P!Readable(p)
    BY <1>3, <1>4, <1>8 DEF P!Readable, Septet
  <1> QED
    BY <1>1, <1>9

(* Between two parts: the plan is that of the message, the part that was    *)
(* sent last is what its place in the plan makes it, and the receiver has   *)
(* the text as far as this part goes.                                       *)
NothingSent == next = 0 /\ read = [to |-> 0, number |-> None] /\ pdu = None

LastPart ==
    /\ pdu = PduOf(msg, plan, next - 1, concatenated_id)
    /\ ~ P!TooMany => read = [to |-> pdu.to, number |-> P!get_concatenation(pdu.header)]

SplitInv ==
    /\ concatenated_id \in 0 .. 255
    /\ next \in Nat /\ read.to \in Nat
    /\ msg = None => NothingSent /\ plan = None
    /\ msg # None =>
          /\ msg \in Texts /\ plan = P!Split(msg)
          /\ next <= plan.parts
          /\ IF next = 0 THEN NothingSent ELSE LastPart

LEMMA SplitInitially == P!Init => SplitInv
  BY TextsAssumption DEF P!Init, SplitInv, NothingSent

LEMMA SplitBegins ==
  ASSUME SplitInv, NEW m \in Texts, P!send1sms(m)
  PROVE  SplitInv'
  <1>1. /\ msg = None /\ msg' = m /\ plan' = P!Split(m)
        /\ concatenated_id' \in {P!NextId, concatenated_id}
        /\ UNCHANGED <<next, pdu, read>>
    BY DEF P!send1sms
  <1>2. concatenated_id' \in 0 .. 255
    BY <1>1 DEF SplitInv, P!NextId
  <1>3. NothingSent /\ next = 0
    BY <1>1 DEF SplitInv, NothingSent
  <1>4. NothingSent'
    BY <1>1, <1>3 DEF NothingSent
  <1>5. m # None
    BY TextsAssumption
  <1>6. plan'.parts \in Nat
    BY <1>1, SplitTyped
  <1> QED
    BY <1>1, <1>2, <1>3, <1>4, <1>5, <1>6 DEF SplitInv

LEMMA SplitSends ==
  ASSUME SplitInv, P!SendPart
  PROVE  SplitInv'
  <1>1. /\ msg # None /\ next < plan.parts /\ pdu' = P!make_pdu /\ read' = P!Unpack(pdu')
        /\ next' = next + 1 /\ UNCHANGED <<msg, plan, concatenated_id>>
    BY DEF P!SendPart
  <1>2. msg \in Texts /\ plan = P!Split(msg) /\ next \in Nat /\ concatenated_id \in 0 .. 255
        /\ read.to \in Nat
    BY <1>1 DEF SplitInv
  <1>3. Unsplit(msg, plan) \/ Cut(msg, plan)
    BY <1>1, <1>2, SplitIs DEF P!Failed
  <1>4. PICK p : p = PduOf(msg, plan, next, concatenated_id)
    OBVIOUS
  <1>5. pdu' = p
    BY <1>1, <1>2, <1>4, MakesPdu
  <1>6. PICK f, t : f = FromOf(msg, plan, next) /\ t = EndOf(msg, plan, next)
    OBVIOUS
  <1>7. p.from = f /\ p.to = t
    BY <1>4, <1>6 DEF PduOf
  <1>8. t \in Nat /\ (next > 0 => f = next * plan.each)
    BY <1>2, <1>3, <1>1, <1>6, PartEnds
  <1>9. next > 0 /\ ~ P!TooMany => read.to = f
    <2> SUFFICES ASSUME next > 0, ~ P!TooMany PROVE read.to = f
      OBVIOUS
    <2>1. PICK k : k = next - 1
      OBVIOUS
    <2>2. k \in Nat /\ k < plan.parts /\ k + 1 < plan.parts /\ k + 1 = next
      <3>1. plan.parts \in Nat
        BY <1>2, SplitTyped
      <3> QED
        BY <1>1, <1>2, <2>1, <3>1
    <2>3. LastPart
      BY <1>1, <1>2 DEF SplitInv
    <2>4. read.to = EndOf(msg, plan, k)
      BY <2>1, <2>3 DEF LastPart, PduOf
    <2>5. EndOf(msg, plan, k) = (k + 1) * plan.each
      BY <1>2, <1>3, <2>2, PartEnds
    <2> QED
      BY <1>8, <2>2, <2>4, <2>5
  <1>10. ~ P!TooMany => P!Readable(p)
    BY <1>1, <1>2, <1>3, <1>4, PartReadable DEF P!TooMany
  <1>11. read' = IF P!Readable(p) /\ p.from = (IF read.to = 0 THEN p.from ELSE read.to)
                 THEN [to |-> p.to, number |-> P!get_concatenation(p.header)] ELSE read
    BY <1>1, <1>5 DEF P!Unpack
  <1>12. next = 0 => read.to = 0
    BY <1>1 DEF SplitInv, NothingSent
  <1>13. ~ P!TooMany => read' = [to |-> p.to, number |-> P!get_concatenation(p.header)]
    BY <1>2, <1>7, <1>9, <1>10, <1>11, <1>12
  <1>14. read'.to \in Nat
    BY <1>2, <1>7, <1>8, <1>11
  <1>15. next' = next + 1 /\ next' \in Nat /\ next' # 0 /\ next' - 1 = next
    BY <1>1, <1>2
  <1>16. next' <= plan.parts
    <2>1. plan.parts \in Nat
      BY <1>2, SplitTyped
    <2> QED
      BY <1>1, <1>2, <2>1
  <1>17. P!TooMany' <=> P!TooMany
    BY <1>1 DEF P!TooMany
  <1>18. LastPart'
    <2>1. pdu' = PduOf(msg', plan', next' - 1, concatenated_id')
      BY <1>1, <1>4, <1>5, <1>15
    <2>2. ~ P!TooMany' => read' = [to |-> pdu'.to, number |-> P!get_concatenation(pdu'.header)]
      BY <1>5, <1>13, <1>17
    <2> QED
      BY <2>1, <2>2 DEF LastPart
  <1> QED
    BY <1>1, <1>2, <1>14, <1>15, <1>16, <1>18 DEF SplitInv

LEMMA SplitStep == SplitInv /\ [P!Next]_(P!vars) => SplitInv'
  <1> SUFFICES ASSUME SplitInv, [P!Next]_(P!vars) PROVE SplitInv'
    OBVIOUS
  <1>1. CASE UNCHANGED P!vars
    BY <1>1 DEF P!vars, SplitInv, NothingSent, LastPart, P!TooMany
  <1> QED
    BY <1>1, SplitBegins, SplitSends DEF P!Next

LEMMA SplitTypes == SplitInv => P!TypeOK
  <1> SUFFICES ASSUME SplitInv PROVE P!TypeOK
    OBVIOUS
  <1>1. msg = None => plan = None /\ pdu = None
    BY DEF SplitInv, NothingSent
  <1>2. msg # None => /\ msg \in Texts
                      /\ plan \in [parts : Nat, each : Nat, reserved : Nat, split : 0 .. 3]
                      /\ pdu = None \/ DOMAIN pdu = {"header", "fill", "from", "to"}
    BY SplitTyped DEF SplitInv, NothingSent, LastPart, PduOf
  <1> QED
    BY <1>1, <1>2 DEF SplitInv, P!TypeOK

(* What a message needs for its number in front of the text is what was     *)
(* left for it.                                                             *)
LEMMA NumbersFit ==
  ASSUME NEW m \in Texts, NEW pl, Cut(m, pl), pl.split = 2, NEW k \in Nat, k <= pl.parts
  PROVE  P!Digits(k) + P!Digits(pl.parts) + 2
            <= pl.reserved \div (IF m.alphabet = "ucs2" THEN 2 ELSE 1)
  <1>1. PICK w : w = IF m.alphabet = "ucs2" THEN 2 ELSE 1
    OBVIOUS
  <1>2. w \in {1, 2} /\ Wide(m) = w
    BY <1>1 DEF Wide
  <1>3. PICK n, r \in Nat : n = pl.parts /\ r = pl.reserved
    BY DEF Cut
  <1>4. (r = 4 * w /\ n <= 9) \/ (r = 6 * w /\ n <= 99) \/ (r = 8 * w /\ n <= 255)
    BY <1>2, <1>3 DEF Cut
  <1>5. r \div w = IF r = 4 * w THEN 4 ELSE IF r = 6 * w THEN 6 ELSE 8
    BY <1>2, <1>4
  <1>6. P!Digits(k) + P!Digits(n) + 2 <= r \div w
    BY <1>2, <1>3, <1>4, <1>5 DEF P!Digits
  <1> QED
    BY <1>1, <1>3, <1>6

LEMMA SplitReads == SplitInv => ReadAsSent
  <1> SUFFICES ASSUME SplitInv, msg # None, next > 0, ~ P!TooMany, ~ P!TooLarge
               PROVE  /\ P!Size(pdu) <= 8 * 140
                      /\ read.to = pdu.to
                      /\ P!Numbered(plan) => read.number = <<concatenated_id, plan.parts, next>>
                      /\ plan.split = 2 /\ plan.parts > 1 =>
                            P!Digits(next) + P!Digits(plan.parts) + 2
                               <= plan.reserved \div (IF msg.alphabet = "ucs2" THEN 2 ELSE 1)
                      /\ next = plan.parts /\ plan.split > 0 => read.to = msg.length
    BY DEF ReadAsSent, P!ReadAsSent
  <1>1. /\ msg \in Texts /\ plan = P!Split(msg) /\ next \in Nat /\ next <= plan.parts
        /\ LastPart
    BY DEF SplitInv
  <1>2. plan.parts \in Nat
    BY <1>1, SplitTyped
  <1>3. Unsplit(msg, plan) \/ Cut(msg, plan)
    BY <1>1, <1>2, SplitIs DEF P!Failed
  <1>4. PICK k : k = next - 1
    OBVIOUS
  <1>5. k \in Nat /\ k < plan.parts /\ k + 1 = next
    BY <1>1, <1>2, <1>4
  <1>6. /\ pdu = PduOf(msg, plan, k, concatenated_id)
        /\ read = [to |-> pdu.to, number |-> P!get_concatenation(pdu.header)]
    BY <1>1, <1>4 DEF LastPart
  <1>7. PICK f, t : f = FromOf(msg, plan, k) /\ t = EndOf(msg, plan, k)
    OBVIOUS
  <1>8. /\ pdu.header = HeaderOf(msg, plan, k, concatenated_id)
        /\ pdu.fill = IF Septet(msg) THEN P!fillbits(OctetsOf(msg, plan, k)) ELSE 0
        /\ pdu.from = f /\ pdu.to = t
    BY <1>6, <1>7 DEF PduOf
  <1>9. /\ ~ TooLargeOf(msg) => SizeOf(msg, plan, k, f, t) <= 8 * 140
        /\ k + 1 = plan.parts /\ plan.split > 0 => t = msg.length
    BY <1>1, <1>3, <1>5, <1>7, PartEnds
  <1>10. P!Size(pdu) <= 8 * 140
    <2>1. ~ TooLargeOf(msg)
      BY DEF P!TooLarge, TooLargeOf, P!maxsms_ucs2
    <2>2. P!Octets(pdu.header) = OctetsOf(msg, plan, k)
      BY <1>1, <1>8, HeaderIs
    <2>3. P!Size(pdu) = SizeOf(msg, plan, k, f, t)
      BY <1>8, <2>2 DEF P!Size, SizeOf, InText, Septet
    <2> QED
      BY <1>9, <2>1, <2>3
  <1>11. read.to = pdu.to
    BY <1>6
  <1>12. ASSUME P!Numbered(plan)
         PROVE  read.number = <<concatenated_id, plan.parts, next>>
    <2>1. read.number = P!get_concatenation(HeaderOf(msg, plan, k, concatenated_id))
      BY <1>6, <1>8
    <2>2. read.number = NumberElement(plan, k, concatenated_id).data
      BY <1>1, <1>12, <2>1, HeaderIs
    <2> QED
      BY <1>5, <2>2 DEF NumberElement
  <1>13. ASSUME plan.split = 2, plan.parts > 1
         PROVE  P!Digits(next) + P!Digits(plan.parts) + 2
                   <= plan.reserved \div (IF msg.alphabet = "ucs2" THEN 2 ELSE 1)
    <2>1. Cut(msg, plan)
      BY <1>3, <1>13 DEF Unsplit
    <2> QED
      BY <1>1, <1>13, <2>1, NumbersFit
  <1>14. next = plan.parts /\ plan.split > 0 => read.to = msg.length
    BY <1>5, <1>8, <1>9, <1>11
  <1> QED
    BY <1>10, <1>11, <1>12, <1>13, <1>14

LEMMA OthersLeaveSplit == [PhonesNext]_phones => [P!Next]_(P!vars)
  BY DEF PhonesNext, phones, split, P!vars, Driver, Spool, Receive, Dialogue, Device, Splits

(* send1sms, make_pdu and the receiver: whatever the texts are, each part   *)
(* fits into a short message, its number into the room left for it, and the *)
(* receiver reads it where it was written, to the end of the text.          *)
THEOREM PartsReadAsSent == PhonesSpec => []ReadAsSent
  <1>1. PhonesInit => SplitInv
    BY SplitInitially DEF PhonesInit
  <1>2. SplitInv /\ [PhonesNext]_phones => SplitInv'
    BY SplitStep, OthersLeaveSplit
  <1> QED
    BY <1>1, <1>2, SplitReads, PTL DEF PhonesSpec
=============================================================================
