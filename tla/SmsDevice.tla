----------------------------- MODULE SmsDevice -----------------------------
(***************************************************************************)
(* devicespooler, the loop of the process of one modem: it sends, receives,*)
(* reads the missed calls, runs its regular_run and rests; a line in the   *)
(* suspend file stops it, with the serial port closed, until the line goes *)
(* away, SIGUSR2 breaks the suspension, or smsd is told to terminate.      *)
(*                                                                         *)
(* send1sms and receivesms are one step each here; SmsSpool, SmsModem and  *)
(* SmsReceive have their insides.  The modem, its list of missed calls     *)
(* (the newest first) and the users of smsd are external.  outgoing is     *)
(* yes, phonecalls is yes, keep_messages is not set; times are left open:  *)
(* an interval may have passed or not.                                     *)
(***************************************************************************)
EXTENDS Integers, Sequences, SequencesExt, FiniteSets

CONSTANTS
    Call,       \* missed calls
    LIMIT,      \* message_limit
    ERRORS,     \* phonecalls_error_max
    Settings    \* of a modem: incoming (0: send only, 1: receive too, 2: receive first),
                \* keep_open (the port stays open while there is nothing to do),
                \* purge (the list of calls is cleared with one command)

VARIABLES
    DEVICE,     \* the settings
    port,       \* modem_handle
    string,     \* which of startstring and stopstring the modem got last
    proc,       \* the process
    queue,      \* how many messages wait
    count,      \* message_count
    request,    \* whether the main process asks to send an alert
    suspend,    \* the suspend file: none, one with the modem, one without
    break_suspend, terminate,
    list,       \* the missed calls the modem has, the newest first
    reported,   \* how often a call was reported
    spoiled     \* ghost: calls the list moved under, or an error held back
vars == <<DEVICE, port, string, proc, queue, count, request, suspend, break_suspend, terminate,
          list, reported, spoiled>>

Pc == {"start", "open", "string", "round", "out", "limit", "opening", "send", "in",
       "receive", "calls", "save", "remove", "rr", "end", "close", "rest",
       "suspended", "leave", "ended"}

TypeOK ==
    /\ DEVICE \in Settings
    /\ port \in {"open", "closed"}
    /\ string \in {"none", "start", "stop"}
    /\ proc \in [pc : Pc, at : Pc, was_open : BOOLEAN, workless : BOOLEAN, silent : BOOLEAN,
                 seen : Seq(Call), errors : 0 .. ERRORS]
    /\ queue \in Nat /\ count \in 0 .. LIMIT
    /\ request \in BOOLEAN
    /\ suspend \in {"none", "listed", "others"}
    /\ break_suspend \in BOOLEAN /\ terminate \in BOOLEAN
    /\ list \in Seq(Call)
    /\ reported \in [Call -> Nat]
    /\ spoiled \subseteq Call

Init ==
    /\ DEVICE \in Settings
    /\ port = "closed" /\ string = "none"
    /\ proc = [pc |-> "start", at |-> "start", was_open |-> FALSE, workless |-> TRUE,
               silent |-> FALSE, seen |-> <<>>, errors |-> 0]
    /\ queue = 0 /\ count = 0 /\ request = FALSE
    /\ suspend = "none" /\ break_suspend = FALSE /\ terminate = FALSE
    /\ list = <<>> /\ reported = [c \in Call |-> 0] /\ spoiled = {}

Go(pc) == proc' = [proc EXCEPT !.pc = pc]

calls  == <<list, reported, spoiled>>
orders == <<queue, count, request>>
users  == <<suspend, break_suspend, terminate, DEVICE>>

-----------------------------------------------------------------------------
(* check_suspend, and where the process goes on after it.                  *)
After(pc) == CASE pc = "start" -> "open"
               [] pc = "out"   -> "limit"
               [] pc = "in"    -> "receive"
               [] pc = "end"   -> IF proc.workless THEN "close" ELSE "round"

Checks == \/ proc.pc = "start"
          \/ proc.pc = "out" /\ ~ terminate
          \/ proc.pc = "in" /\ ~ terminate /\ DEVICE.incoming > 0
          \/ proc.pc = "end"

Suspended == suspend = "listed" /\ ~ (break_suspend /\ proc.pc # "end")

check_suspend ==
    /\ Checks
    /\ IF Suspended
       THEN /\ proc' = [proc EXCEPT !.pc = "suspended", !.at = proc.pc,
                                    !.was_open = (port = "open")]
            /\ string' = IF proc.pc = "start" THEN string ELSE "stop"
            /\ port' = "closed"
       ELSE Go(After(proc.pc)) /\ UNCHANGED <<port, string>>
    /\ break_suspend' = (break_suspend /\ proc.pc # "end")
    /\ UNCHANGED <<orders, suspend, terminate, DEVICE, calls>>

(* The port does not open for the stop string, which is then not sent.     *)
StopStringFails ==
    /\ Checks /\ Suspended /\ proc.pc # "start" /\ port = "closed"
    /\ proc' = [proc EXCEPT !.pc = "suspended", !.at = proc.pc, !.was_open = FALSE]
    /\ break_suspend' = (break_suspend /\ proc.pc # "end")
    /\ UNCHANGED <<port, string, orders, suspend, terminate, DEVICE, calls>>

(* The file is read again: without it the process goes on as it is; without*)
(* the line, or after SIGUSR2, an open port is opened again and the start  *)
(* string sent; a process that is told to terminate leaves in silence.     *)
Over == suspend = "others" \/ (suspend = "listed" /\ break_suspend)

SuspendEnds ==
    /\ proc.pc = "suspended"
    /\ IF Over /\ proc.was_open
       THEN /\ port' = "open" /\ string' = "start"
            /\ Go(IF terminate THEN "leave" ELSE After(proc.at))
       ELSE /\ Over \/ suspend = "none"
            /\ Go(After(proc.at)) /\ UNCHANGED <<port, string>>
    /\ UNCHANGED <<orders, users, calls>>

ReopenFails ==
    /\ proc.pc = "suspended" /\ Over /\ proc.was_open
    /\ Go(After(proc.at))
    /\ UNCHANGED <<port, string, orders, users, calls>>

SuspendedEnds ==
    /\ proc.pc = "suspended" /\ terminate
    /\ suspend = "listed" /\ ~ break_suspend
    /\ proc' = [proc EXCEPT !.pc = "leave", !.silent = TRUE]
    /\ UNCHANGED <<port, string, orders, users, calls>>

-----------------------------------------------------------------------------
(* try_openmodem, the start string, and the first initialization.          *)
Open(pc, next) ==
    /\ proc.pc = pc
    /\ port' = "open"
    /\ Go(next)
    /\ UNCHANGED <<string, orders, users, calls>>

OpenFails ==
    /\ proc.pc \in {"open", "opening", "receive"} /\ port = "closed"
    /\ Go("leave")
    /\ UNCHANGED <<port, string, orders, users, calls>>

StartString ==
    /\ proc.pc = "string"
    /\ string' = "start"
    /\ Go(IF terminate THEN "leave" ELSE "round")
    /\ UNCHANGED <<port, orders, users, calls>>

(* A modem that only sends has to be there at the start.                   *)
FirstInitializationFails ==
    /\ proc.pc = "string" /\ DEVICE.incoming = 0
    /\ string' = "start"
    /\ Go("leave")
    /\ UNCHANGED <<port, orders, users, calls>>

Round ==
    /\ proc.pc = "round"
    /\ proc' = [proc EXCEPT !.pc = IF terminate THEN "leave" ELSE "out", !.workless = TRUE]
    /\ UNCHANGED <<port, string, orders, users, calls>>

Told ==
    /\ proc.pc \in {"out", "in"} /\ terminate
    /\ Go("leave")
    /\ UNCHANGED <<port, string, orders, users, calls>>

(* The count of messages is cleared after a time; at the limit the process *)
(* goes on with receiving.  An alert for the main process comes before the *)
(* port is opened.                                                         *)
Limit ==
    /\ proc.pc = "limit"
    /\ count' \in {count, 0}
    /\ IF count' >= LIMIT THEN Go("in") /\ UNCHANGED request
       ELSE request' = FALSE /\ Go("opening")
    /\ UNCHANGED <<port, string, queue, users, calls>>

(* send1sms: a message sent; one that was rejected before sending; one that*)
(* the modem did not take; none.                                           *)
Sent ==
    /\ proc.pc = "send" /\ queue > 0
    /\ queue' = queue - 1 /\ count' = count + 1
    /\ proc' = [proc EXCEPT !.workless = FALSE,
                            !.pc = IF DEVICE.incoming = 2 THEN "in" ELSE IF terminate THEN "leave"
                                   ELSE "out"]
    /\ UNCHANGED <<port, string, request, users, calls>>

SentForLong ==
    /\ proc.pc = "send" /\ queue > 0
    /\ queue' = queue - 1 /\ count' = count + 1
    /\ proc' = [proc EXCEPT !.workless = FALSE, !.pc = "in"]
    /\ UNCHANGED <<port, string, request, users, calls>>

MessageRejected ==
    /\ proc.pc = "send" /\ queue > 0
    /\ queue' = queue - 1
    /\ proc' = [proc EXCEPT !.workless = FALSE,
                            !.pc = IF DEVICE.incoming = 2 THEN "in" ELSE IF terminate THEN "leave"
                                   ELSE "out"]
    /\ UNCHANGED <<port, string, count, request, users, calls>>

NotSent ==
    /\ proc.pc = "send" /\ queue > 0
    /\ queue' = queue - 1
    /\ Go("in")
    /\ UNCHANGED <<port, string, count, request, users, calls>>

NoFile ==
    /\ proc.pc = "send" /\ queue = 0
    /\ Go("in")
    /\ UNCHANGED <<port, string, orders, users, calls>>

NoReceiving ==
    /\ proc.pc = "in" /\ DEVICE.incoming = 0 /\ ~ terminate
    /\ Go("calls")
    /\ UNCHANGED <<port, string, orders, users, calls>>

receivesms ==
    /\ proc.pc = "receive"
    /\ port' = "open"
    /\ \E workless \in {proc.workless, FALSE} :
          proc' = [proc EXCEPT !.workless = workless, !.pc = IF terminate THEN "leave" ELSE "calls"]
    /\ UNCHANGED <<string, orders, users, calls>>

-----------------------------------------------------------------------------
(* readphonecalls: the list is read, each entry is written into a file, and*)
(* the entries are removed by their places, the last one first.            *)
Read(seen) == proc' = [proc EXCEPT !.seen = seen, !.pc = IF seen = <<>> THEN "rr" ELSE "save"]

ReadCalls ==
    /\ proc.pc = "calls"
    /\ IF proc.errors = ERRORS \/ port = "closed" THEN Go("rr")
       ELSE IF terminate THEN Go("rr") ELSE Read(list)
    /\ UNCHANGED <<port, string, orders, users, calls>>

Error(pc) ==
    proc' = [proc EXCEPT !.errors = IF @ < ERRORS THEN @ + 1 ELSE @, !.pc = pc]

ReadFails ==
    /\ proc.pc = "calls" /\ proc.errors < ERRORS
    /\ Error("rr")
    /\ UNCHANGED <<port, string, orders, users, calls>>

Report(seen) == [c \in Call |-> reported[c] + Cardinality({i \in DOMAIN seen : seen[i] = c})]

SaveCalls ==
    /\ proc.pc = "save"
    /\ reported' = Report(proc.seen)
    /\ Go("remove")
    /\ UNCHANGED <<port, string, orders, users, list, spoiled>>

(* A line that cannot be understood: the calls before it have been written,*)
(* and none is removed.                                                    *)
SyntaxError ==
    /\ proc.pc = "save"
    /\ \E n \in 0 .. Len(proc.seen) - 1 : reported' = Report(SubSeq(proc.seen, 1, n))
    /\ spoiled' = spoiled \cup ToSet(list)
    /\ proc' = [proc EXCEPT !.pc = "rr", !.seen = <<>>]
    /\ UNCHANGED <<port, string, orders, users, list>>

(* savephonecall cannot create the file; the call is removed all the same. *)
SaveFails ==
    /\ proc.pc = "save"
    /\ spoiled' = spoiled \cup ToSet(proc.seen)
    /\ Go("remove")
    /\ UNCHANGED <<port, string, orders, users, list, reported>>

Removed(l, n) == IF n \in DOMAIN l THEN RemoveAt(l, n) ELSE l

(* Mutant: the place is counted down before it is used.                    *)
RemoveCallBefore ==
    /\ proc.pc = "remove"
    /\ LET n == Len(proc.seen)
       IN  IF DEVICE.purge \/ n = 0
           THEN /\ list' = IF n = 0 THEN list ELSE <<>>
                /\ proc' = [proc EXCEPT !.seen = <<>>, !.pc = "rr"]
           ELSE /\ list' = Removed(list, n - 1)
                /\ proc' = [proc EXCEPT !.seen = SubSeq(@, 1, n - 1)]
    /\ UNCHANGED <<port, string, orders, users, reported, spoiled>>

RemoveCall ==
    /\ proc.pc = "remove"
    /\ LET n == Len(proc.seen)
       IN  IF DEVICE.purge \/ n = 0
           THEN /\ list' = IF n = 0 THEN list ELSE <<>>
                /\ proc' = [proc EXCEPT !.seen = <<>>, !.pc = "rr"]
           ELSE /\ list' = Removed(list, n)
                /\ proc' = [proc EXCEPT !.seen = SubSeq(@, 1, n - 1)]
    /\ UNCHANGED <<port, string, orders, users, reported, spoiled>>

RemoveFails ==
    /\ proc.pc = "remove" /\ Len(proc.seen) > 0
    /\ spoiled' = spoiled \cup ToSet(list)
    /\ LET left == IF DEVICE.purge \/ proc.errors >= ERRORS - 1 THEN <<>>
                   ELSE SubSeq(proc.seen, 1, Len(proc.seen) - 1)
       IN  proc' = [proc EXCEPT !.errors = IF @ < ERRORS THEN @ + 1 ELSE @,
                                !.seen = left, !.pc = IF left = <<>> THEN "rr" ELSE "remove"]
    /\ UNCHANGED <<port, string, orders, users, list, reported>>

-----------------------------------------------------------------------------
(* regular_run, when it is due: a program before it and one after it find  *)
(* the port closed; the commands open it.  Then the end of the round, and  *)
(* the rest when there was nothing to do.                                  *)
Skip_rr ==
    /\ proc.pc = "rr"
    /\ Go("end")
    /\ UNCHANGED <<port, string, orders, users, calls>>

run_rr ==
    /\ proc.pc \in {"rr", "rest"}
    /\ port' = IF port = "open" \/ DEVICE.keep_open THEN "open" ELSE "closed"
    /\ Go(IF proc.pc = "rr" THEN "end" ELSE "rest")
    /\ UNCHANGED <<string, orders, users, calls>>

(* A command cannot be given, or the port does not open again after it.    *)
run_rrFails ==
    /\ proc.pc \in {"rr", "rest"}
    /\ port' = "closed"
    /\ \/ Go("leave")
       \/ port = "open" /\ Go(IF proc.pc = "rr" THEN "end" ELSE "rest")
    /\ UNCHANGED <<string, orders, users, calls>>

Close ==
    /\ proc.pc = "close"
    /\ port' = IF DEVICE.keep_open THEN port ELSE "closed"
    /\ Go("rest")
    /\ UNCHANGED <<string, orders, users, calls>>

Rest ==
    /\ proc.pc = "rest"
    /\ Go(IF terminate THEN "leave" ELSE "round")
    /\ UNCHANGED <<port, string, orders, users, calls>>

(* After devicespooler: the stop string, unless it was cleared.            *)
Leave ==
    /\ proc.pc = "leave"
    /\ string' = IF proc.silent THEN string ELSE "stop"
    /\ port' = "closed"
    /\ Go("ended")
    /\ UNCHANGED <<orders, users, calls>>
Process ==
    \/ check_suspend \/ SuspendEnds \/ SuspendedEnds
    \/ Open("open", "string") \/ Open("opening", "send") \/ StartString \/ Round \/ Told \/ Limit
    \/ Sent \/ NoFile \/ NoReceiving \/ receivesms
    \/ ReadCalls \/ SaveCalls \/ RemoveCall \/ Skip_rr \/ run_rr \/ Close \/ Rest \/ Leave

-----------------------------------------------------------------------------
(* What the users, the callers, the modem and the port do.                 *)
Submit ==
    /\ queue' = queue + 1
    /\ UNCHANGED <<port, string, proc, count, request, users, calls>>

Alert ==
    /\ ~ request /\ request' = TRUE
    /\ UNCHANGED <<port, string, proc, queue, count, users, calls>>

SuspendFile ==
    /\ suspend' \in {"none", "listed", "others"} \ {suspend}
    /\ UNCHANGED <<port, string, proc, orders, break_suspend, terminate, DEVICE, calls>>

SIGUSR2 ==
    /\ ~ break_suspend /\ break_suspend' = TRUE
    /\ UNCHANGED <<port, string, proc, orders, suspend, terminate, DEVICE, calls>>

SIGTERM ==
    /\ ~ terminate /\ terminate' = TRUE
    /\ UNCHANGED <<port, string, proc, orders, suspend, break_suspend, DEVICE, calls>>

(* A call is missed; the places of the earlier ones move.                  *)
Missed(c) ==
    /\ c \notin ToSet(list) \cup spoiled /\ reported[c] = 0
    /\ list' = <<c>> \o list
    /\ spoiled' = IF proc.pc \in {"save", "remove"} THEN spoiled \cup ToSet(list') ELSE spoiled
    /\ UNCHANGED <<port, string, proc, orders, users, reported>>

Users == Submit \/ Alert \/ SuspendFile \/ SIGUSR2 \/ SIGTERM

Fault == \/ StopStringFails \/ ReopenFails \/ OpenFails \/ FirstInitializationFails
         \/ SentForLong \/ MessageRejected \/ NotSent
         \/ ReadFails \/ SyntaxError \/ SaveFails \/ RemoveFails \/ run_rrFails

Next == Process \/ Users \/ Fault \/ \E c \in Call : Missed(c)

Spec == Init /\ [][Next]_vars

-----------------------------------------------------------------------------
(* A missed call is reported before it is removed from the modem, and it is*)
(* reported once.  The list is removed by places that were read before, so *)
(* a call that comes in between, like an error, is an excuse for the calls *)
(* the list has at that time.                                              *)
CallsOnce ==
    [][\A c \in Call \ spoiled' :
          /\ c \in ToSet(list) \ ToSet(list') => reported[c] = 1
          /\ reported'[c] <= 1]_vars
=============================================================================
