------------------------------ MODULE SmsModem ------------------------------
(***************************************************************************)
(* How a modem process of smsd talks to its modem: initmodem brings the    *)
(* modem into a known state, wait_network_registration waits for the       *)
(* network, and send_part hands over one part of a message.  Each step is  *)
(* one put_command, a command and what the buffer of the answer holds      *)
(* afterwards; between two steps the modem may lose its power, the network *)
(* may go, and a request to terminate may come.                            *)
(*                                                                         *)
(* The modem, its SIM and the network are external.  Of an answer only the *)
(* words are kept that the program looks for.  Commands whose answer       *)
(* nothing depends on (echo, signal quality, identity, details) are one    *)
(* step.  initstring is set, initstring2 is not.  Logging, the alarm        *)
(* handler and the statistics are left out.                                *)
(***************************************************************************)
EXTENDS Integers

CONSTANTS
    TRIES,     \* 11: how often AT is tried
    REOPEN,    \* 5: from this try on the port is closed and opened again
    WAIT,      \* 100: how often the network is asked for
    Settings,  \* the settings of pin: "none", "right" or "wrong"
    Checks     \* the settings of check_network: 0, 1 or 2

Word == {"OK", "ERROR", "READY", "PIN", "PUK", "registered", "denied", ">"}

VARIABLES
    port,      \* modem_handle: open or closed
    dev,       \* the modem and its SIM
    prog,      \* where the program is
    answer,    \* its buffer for answers
    quick,     \* the modem is known to work
    config,    \* DEVICE.pin, DEVICE.check_network and registration_ok
    terminate,
    doubt,     \* ghost: the modem changed since the program had to notice
    wrong      \* ghost: how often a wrong PIN was entered
vars == <<port, dev, prog, answer, quick, config, terminate, doubt, wrong>>

TypeOK ==
    /\ port \in {"open", "closed"}
    /\ dev \in [on : BOOLEAN, locks : BOOLEAN, sim : {"READY", "PIN", "PUK"}, left : 0 .. 3,
                net : {"registered", "denied", "no"}, mode : {"pdu", "text"}]
    /\ prog \in [pc : {"idle", "AT", "SUB", "REOPEN", "CPIN?", "CPIN=", "CPIN again", "INIT",
                       "CREG", "CMGF", "CSCA", "DETAILS", "READ", "CMGS", "PDU", "sleep", "ended"},
                 for : {"send", "receive", "retry", "look"}, try : 0 .. TRIES + WAIT,
                 denied : 0 .. WAIT, retries : 0 .. 2]
    /\ answer \in SUBSET Word
    /\ quick \in {0, 1}
    /\ config \in [pin : Settings \cup {"ignore"}, check_network : 0 .. 2, registered : BOOLEAN]
    /\ terminate \in BOOLEAN /\ doubt \in BOOLEAN
    /\ wrong \in Nat

Idle == [pc |-> "idle", for |-> "send", try |-> 0, denied |-> 0, retries |-> 0]

Init ==
    /\ port = "open"
    /\ dev \in [on : {TRUE}, locks : BOOLEAN, sim : {"READY", "PIN"}, left : {3},
                net : {"registered"}, mode : {"text"}]
    /\ dev.sim = "PIN" => dev.locks
    /\ prog = Idle /\ answer = {}
    /\ quick = 0
    /\ config \in [pin : Settings, check_network : Checks, registered : {FALSE}]
    /\ terminate = FALSE /\ doubt = FALSE /\ wrong = 0

-----------------------------------------------------------------------------
(* The modem.                                                              *)
EnterPin ==
    IF dev.sim # "PIN" THEN dev
    ELSE IF config.pin = "right" THEN [dev EXCEPT !.sim = "READY", !.left = 3]
    ELSE [dev EXCEPT !.left = @ - 1, !.sim = IF dev.left = 1 THEN "PUK" ELSE "PIN"]

Execute(c) == CASE c = "CPIN=" -> EnterPin
                [] c = "CMGF"  -> [dev EXCEPT !.mode = "pdu"]
                [] OTHER       -> dev

Says(c) ==
    CASE c \in {"CPIN?", "CPIN again"} -> IF dev.sim = "READY" THEN {{"READY"}, {"READY", "OK"}}
                                          ELSE {{dev.sim}}
      [] c = "CPIN=" -> {IF Execute(c).sim = "READY" THEN {"OK"} ELSE {"ERROR"}}
      [] c = "CREG"  -> CASE dev.sim # "READY" -> {{"ERROR"}, {"OK"}}
                          [] dev.net = "no" -> {{"OK"}}
                          [] OTHER -> {{dev.net, "OK"}}
      [] c = "CMGS"  -> {IF dev.sim = "READY" /\ dev.mode = "pdu" THEN {">"} ELSE {"ERROR"}}
      [] c = "PDU"   -> {IF dev.net = "registered" THEN {"OK"} ELSE {"ERROR"}}
      [] OTHER       -> {{"OK"}}

(* put_command: the answer, or nothing when the modem is silent.  A command*)
(* that cannot be written leaves in the buffer what was there, which is    *)
(* whatever the stack held when nothing was read into it before.           *)
Result(d, a) == [dev |-> d, answer |-> a]

Kept(c) == IF c = "CREG" THEN {{}, {"registered"}}
           ELSE IF c = "CMGS" \/ (c = "AT" /\ prog.try = 1) THEN {{}, {"OK"}, {"ERROR"}}
           ELSE {answer}

put_command(c) ==
    IF port = "closed" THEN {Result(dev, a) : a \in Kept(c)}
    ELSE IF ~ dev.on THEN {Result(dev, {})}
    ELSE {Result(Execute(c), a) : a \in Says(c)}

(* What may go wrong with it: no answer in time, executed or not; an ERROR *)
(* for a reason of the modem's own; a port that does not take the command. *)
Fails(c) == {Result(dev, {}), Result(Execute(c), {}), Result(dev, {"ERROR"})}
            \cup {Result(dev, a) : a \in Kept(c)}

-----------------------------------------------------------------------------
Go(pc) == prog' = [prog EXCEPT !.pc = pc, !.try = 1]

(* initmodem begins.                                                       *)
Initmodem(for, retries) ==
    prog' = [Idle EXCEPT !.pc = "AT", !.for = for, !.try = 1, !.retries = retries]

(* What send_part and receivesms do with the result of initmodem and of    *)
(* the look at the network.                                                *)
GiveUp ==
    /\ prog' = Idle
    /\ quick' = IF prog.for = "receive" THEN quick ELSE 0

Return0 ==
    /\ prog' = [prog EXCEPT !.pc = IF prog.for = "receive" THEN "READ" ELSE "CMGS", !.try = 0]
    /\ UNCHANGED quick

ChecksNetwork == config.check_network = 1 \/ (config.check_network = 2 /\ prog.for # "receive")

AfterPin  == "INIT"
AfterInit == IF ChecksNetwork THEN "CREG" ELSE "CMGF"
Sim       == IF config.pin = "ignore" THEN AfterPin ELSE "CPIN?"

Exit == prog' = [prog EXCEPT !.pc = "ended"]

(* AT, then the character that ends a PDU, then a new start of the port.   *)
Again == prog' = IF prog.try >= REOPEN THEN [prog EXCEPT !.pc = "REOPEN"]
                 ELSE [prog EXCEPT !.pc = "AT", !.try = @ + 1]

AT(r) ==
    /\ prog.pc = "AT"
    /\ CASE "OK" \in r.answer -> Go(Sim) /\ UNCHANGED quick
         [] "OK" \notin r.answer /\ "ERROR" \in r.answer -> Again /\ UNCHANGED quick
         [] r.answer \cap {"OK", "ERROR"} = {} ->
               IF terminate THEN GiveUp
               ELSE prog' = [prog EXCEPT !.pc = "SUB"] /\ UNCHANGED quick
    /\ UNCHANGED <<config, wrong>>

SUB(r) ==
    /\ prog.pc = "SUB"
    /\ IF terminate THEN GiveUp
       ELSE /\ IF "OK" \in r.answer THEN Go(Sim) ELSE Again
            /\ UNCHANGED quick
    /\ UNCHANGED <<config, wrong>>

Reopen ==
    /\ prog.pc = "REOPEN"
    /\ port' = "open"
    /\ IF prog.try = TRIES THEN GiveUp
       ELSE /\ prog' = [prog EXCEPT !.pc = "AT", !.try = @ + 1]
            /\ UNCHANGED quick
    /\ UNCHANGED <<dev, answer, config, terminate, doubt, wrong>>

ReopenFails ==
    /\ prog.pc = "REOPEN"
    /\ port' = "closed"
    /\ GiveUp
    /\ UNCHANGED <<dev, answer, config, terminate, doubt, wrong>>

(* The PIN.  Anything but READY ends the process, so that a PIN that was   *)
(* not accepted is not entered again.                                      *)
AskPin(r) ==
    /\ prog.pc = "CPIN?"
    /\ IF "PIN" \in r.answer /\ config.pin # "none" THEN Go("CPIN=") /\ UNCHANGED config
       ELSE IF "READY" \in r.answer
            THEN /\ Go(AfterPin)
                 /\ config' = [config EXCEPT !.pin = IF @ = "none" THEN "ignore" ELSE @]
       ELSE Exit /\ UNCHANGED config
    /\ UNCHANGED <<quick, wrong>>

PinEntered(r) ==
    /\ prog.pc = "CPIN="
    /\ Go("CPIN again")
    /\ wrong' = IF r.dev.left < dev.left THEN wrong + 1 ELSE wrong
    /\ UNCHANGED <<quick, config>>

(* Mutant: a PIN that is not accepted is an error like others.             *)
PinStillNeededFails(r) ==
    /\ prog.pc = "CPIN again"
    /\ IF "READY" \in r.answer THEN Go(AfterPin) /\ UNCHANGED quick ELSE GiveUp
    /\ UNCHANGED <<config, wrong>>

AskPinAgain(r) ==
    /\ prog.pc = "CPIN again"
    /\ IF "READY" \in r.answer THEN Go(AfterPin) ELSE Exit
    /\ UNCHANGED <<quick, config, wrong>>

(* A command that is tried twice; the pause after an ERROR ends with a     *)
(* request to terminate.  The initstring must be answered OK, the others   *)
(* must not be answered ERROR.                                             *)
Twice(r, refused, next) ==
    /\ IF "OK" \in r.answer THEN Go(next) /\ UNCHANGED quick
       ELSE IF prog.try = 1
            THEN IF "ERROR" \in r.answer /\ terminate THEN GiveUp
                 ELSE prog' = [prog EXCEPT !.try = 2] /\ UNCHANGED quick
       ELSE IF refused THEN GiveUp
       ELSE Go(next) /\ UNCHANGED quick
    /\ UNCHANGED <<config, wrong>>

InitString(r) ==
    prog.pc = "INIT" /\ Twice(r, TRUE, AfterInit)

PduMode(r) ==
    prog.pc = "CMGF" /\ Twice(r, "ERROR" \in r.answer, "CSCA")

Smsc(r) ==
    prog.pc = "CSCA" /\ Twice(r, "ERROR" \in r.answer, "DETAILS")

Details(r) ==
    /\ prog.pc = "DETAILS"
    /\ Return0
    /\ UNCHANGED <<config, wrong>>

(* wait_network_registration, a part of initmodem or, when the modem is    *)
(* known to work, all there is.  A modem that does not know the question   *)
(* is never asked again; one that has been registered may be denied.       *)
Registered == IF prog.for = "look" THEN Return0 ELSE Go("CMGF") /\ UNCHANGED quick

Wait(denied) ==
    IF terminate \/ prog.try = WAIT THEN GiveUp
    ELSE prog' = [prog EXCEPT !.try = @ + 1, !.denied = denied] /\ UNCHANGED quick

wait_network_registration(r) ==
    /\ prog.pc = "CREG"
    /\ \/ /\ "registered" \in r.answer
          /\ Registered
          /\ config' = [config EXCEPT !.registered = TRUE]
       \/ /\ "denied" \in r.answer
          /\ IF config.registered \/ prog.denied < 2 THEN Wait(prog.denied + 1)
             ELSE Exit /\ UNCHANGED quick
          /\ UNCHANGED config
       \/ /\ "ERROR" \in r.answer
          /\ Registered
          /\ config' = [config EXCEPT !.registered = TRUE, !.check_network = 0]
       \/ /\ r.answer \cap {"registered", "denied", "ERROR"} = {}
          /\ Wait(prog.denied)
          /\ UNCHANGED config
    /\ UNCHANGED wrong

-----------------------------------------------------------------------------
(* send_part: the command, then the PDU unless the answer was ERROR.       *)
Cmgs(r) ==
    /\ prog.pc = "CMGS"
    /\ IF "ERROR" \in r.answer
       THEN IF prog.retries = 2 THEN GiveUp
            ELSE /\ prog' = [prog EXCEPT !.pc = "sleep", !.retries = @ + 1]
                 /\ UNCHANGED quick
       ELSE prog' = [prog EXCEPT !.pc = "PDU"] /\ UNCHANGED quick
    /\ UNCHANGED <<config, wrong>>

Pdu(r) ==
    /\ prog.pc = "PDU"
    /\ IF "OK" \in r.answer THEN prog' = Idle /\ quick' = 1
       ELSE IF prog.retries = 2 THEN GiveUp
       ELSE /\ prog' = [prog EXCEPT !.pc = "sleep", !.retries = @ + 1]
            /\ UNCHANGED quick
    /\ UNCHANGED <<config, wrong>>

(* Mutant: the part is tried again on the modem as it is.                  *)
RetryAsItIs ==
    /\ prog.pc = "sleep"
    /\ IF terminate THEN GiveUp
       ELSE prog' = [prog EXCEPT !.pc = "CMGS"] /\ UNCHANGED quick
    /\ doubt' = FALSE
    /\ UNCHANGED <<port, dev, answer, config, terminate, wrong>>

(* The pause, and the modem is initialized before the new try.             *)
Retry ==
    /\ prog.pc = "sleep"
    /\ IF terminate THEN GiveUp
       ELSE Initmodem("retry", prog.retries) /\ UNCHANGED quick
    /\ doubt' = FALSE
    /\ UNCHANGED <<port, dev, answer, config, terminate, wrong>>

(* The process has a part to send, looks for messages to receive, or has   *)
(* nothing to do and closes the port; it ends when the port does not open. *)
send_part ==
    /\ prog.pc = "idle" /\ ~ terminate
    /\ port' = "open"
    /\ IF quick = 0 THEN Initmodem("send", 0) /\ doubt' = FALSE
       ELSE /\ prog' = IF config.check_network # 0
                       THEN [Idle EXCEPT !.pc = "CREG", !.for = "look", !.try = 1]
                       ELSE [Idle EXCEPT !.pc = "CMGS"]
            /\ UNCHANGED doubt
    /\ UNCHANGED <<dev, answer, quick, config, terminate, wrong>>

receivesms ==
    /\ prog.pc = "idle" /\ ~ terminate
    /\ port' = "open"
    /\ IF quick = 0 THEN Initmodem("receive", 0) /\ doubt' = FALSE
       ELSE prog' = [Idle EXCEPT !.pc = "READ", !.for = "receive"] /\ UNCHANGED doubt
    /\ UNCHANGED <<dev, answer, quick, config, terminate, wrong>>

Read(r) ==
    /\ prog.pc = "READ"
    /\ prog' = Idle
    /\ \/ r.answer = {} /\ quick' = 0
       \/ r.answer # {} /\ quick' \in {quick, 1}
    /\ UNCHANGED <<config, wrong>>

Workless ==
    /\ prog.pc = "idle" /\ ~ terminate
    /\ port' = "closed" /\ quick' = 0
    /\ UNCHANGED <<dev, prog, answer, config, terminate, doubt, wrong>>

End ==
    /\ prog.pc = "idle"
    /\ Exit
    /\ UNCHANGED <<port, dev, answer, quick, config, terminate, doubt, wrong>>

-----------------------------------------------------------------------------
(* One command: r is what comes of it.  wait_network_registration has a    *)
(* buffer of its own, and one that has gone out of use holds nothing.      *)
Handle(r) ==
    /\ \/ AT(r) \/ SUB(r) \/ AskPin(r) \/ PinEntered(r) \/ AskPinAgain(r) \/ InitString(r)
       \/ PduMode(r) \/ Smsc(r) \/ Details(r) \/ wait_network_registration(r)
       \/ Cmgs(r) \/ Pdu(r) \/ Read(r)
    /\ dev' = r.dev
    /\ answer' = IF prog'.pc \in {"idle", "sleep", "ended", "CMGS", "READ"} THEN {}
                 ELSE IF prog.pc = "CREG" THEN answer ELSE r.answer
    /\ UNCHANGED <<port, terminate>>

(* After a failure the program has had to notice what happened.            *)
Noticed == prog'.pc = "idle" /\ quick' = 0

Command ==
    /\ \E r \in put_command(prog.pc) : Handle(r)
    /\ doubt' = (doubt /\ ~ Noticed)

CommandFails ==
    /\ \E r \in Fails(prog.pc) : Handle(r)
    /\ doubt' = ~ Noticed

Program == Command \/ Reopen \/ Retry \/ send_part \/ receivesms \/ Workless

(* The rest of the world.                                                  *)
Changed == doubt' = TRUE /\ UNCHANGED <<port, prog, answer, quick, config, terminate, wrong>>

PowerLost ==
    /\ dev' = [dev EXCEPT !.on = FALSE]
    /\ Changed

PowerOn ==
    /\ ~ dev.on
    /\ dev' = [dev EXCEPT !.on = TRUE, !.mode = "text", !.net = "registered",
                          !.sim = IF dev.locks /\ dev.sim = "READY" THEN "PIN" ELSE @]
    /\ Changed

NetworkChanges ==
    /\ dev' \in {[dev EXCEPT !.net = n] : n \in {"registered", "denied", "no"}}
    /\ dev' # dev
    /\ Changed

Terminate ==
    /\ terminate' = TRUE
    /\ UNCHANGED <<port, dev, prog, answer, quick, config, doubt, wrong>>
Fault == CommandFails \/ ReopenFails \/ End \/ PowerLost \/ PowerOn \/ NetworkChanges \/ Terminate

Next == Program \/ Fault

Spec == Init /\ [][Next]_vars

-----------------------------------------------------------------------------
(* However often the modem loses its power, answers ERROR or not at all,   *)
(* the process enters a wrong PIN once: a SIM is locked after three.       *)
WrongPinOnce == wrong <= 1

(* A part of a message is handed to a modem that is on, is in PDU mode, has*)
(* the PIN when there is one in smsd.conf, and is registered unless that   *)
(* is not checked; only a change the program has had no failure from yet   *)
(* is an excuse.                                                           *)
SendsWhenReady ==
    prog.pc = "CMGS" /\ ~ doubt =>
       /\ port = "open" /\ dev.on /\ dev.mode = "pdu"
       /\ config.pin # "ignore" => dev.sim = "READY"
       /\ config.check_network # 0 => dev.net = "registered"
=============================================================================
