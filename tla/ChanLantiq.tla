----------------------------- MODULE ChanLantiq -----------------------------
(***************************************************************************)
(* The Asterisk driver of the telephone ports (src-lantiq/channels/        *)
(* chan_lantiq.c): what the user does at the handset reaches the driver as *)
(* events of the TAPI device, in its monitor thread; Asterisk requests,    *)
(* rings, answers and hangs up channels in threads of its own; the timer   *)
(* of the dialling runs in a third.  iflock protects the ports, not        *)
(* everywhere.                                                             *)
(*                                                                         *)
(* Asterisk, the device and the user are outside the repository and are    *)
(* modelled as the driver uses them.  Voice, tones and the line feed are    *)
(* left out: no condition of the driver reads them.                        *)
(***************************************************************************)
EXTENDS Integers, Sequences

CONSTANTS
    PORTS,       \* number of ports, dev_ctx.channels
    Chan,        \* channels of Asterisk; each has the thread that drives it
    Digit,       \* the keys but "#"
    Extension,   \* the numbers of the dialplan, sequences of digits
    EVENTS_MAX,  \* events the device keeps for a port
    None

Port == 0 .. PORTS - 1

(* enum channel_state; UNKNOWN is not left to a port by load_module.       *)
State == {"ONHOOK", "OFFHOOK", "DIALING", "INCALL", "CALL_ENDED", "RINGING"}

Event == {"onhook", "offhook", "#"} \cup Digit

(* Channels: FREE, or GONE when another thread freed one that is in use.   *)
ChanState == {"FREE", "GONE", "DOWN", "RINGING", "BUSY", "RING", "UP"}
Free == [st |-> "FREE", port |-> None, frames |-> {}]

VARIABLES
    pvt,       \* lantiq_pvt: state, owner, dial_timer, dtmfbuf
    line,      \* the device: handset, bell, queued events
    timer,     \* the scheduler: own, the entry dial_timer names; orphans,
               \* entries that no variable names; callback, how far it is
    chan,      \* Asterisk's channels
    iflock,    \* the thread that holds it, or None
    monlock,
    monitor,   \* the monitor thread goes on
    mon,       \* where the monitor thread is, with the port and the event
    unload,    \* where unload_module is
    keyed,     \* ghost: digits keyed since the handset was lifted
    spoiled    \* ghost: what has gone wrong at a port, see the properties

port    == <<pvt, line, timer, chan, keyed, spoiled>>
threads == <<iflock, monlock, monitor, mon, unload>>
vars    == <<port, threads>>

Reason == {"owner", "refused", "timer", "digits"}

TypeOK ==
    /\ pvt \in [Port -> [state : State, owner : Chan \cup {None},
                         dial_timer : BOOLEAN, dtmfbuf : Seq(Digit)]]
    /\ line \in [Port -> [hook : {"on", "off"}, bell : BOOLEAN,
                          events : Seq(Event)]]
    /\ timer \in [Port -> [own : BOOLEAN, orphans : Nat,
                           callback : {"no", "begun", "dial"}]]
    /\ chan \in [Chan -> [st : ChanState, port : Port \cup {None},
                          frames : SUBSET {"ANSWER", "HANGUP"}]]
    /\ iflock \in Chan \cup {None}
    /\ monlock \in {"monitor", "unload", None}
    /\ monitor \in BOOLEAN
    /\ mon \in [pc : {"loop", "lock", "poll", "get", "handle", "dead"},
                i : 0 .. PORTS, event : Event \cup {None}]
    /\ unload \in {"no", "hangup", "lock", "kill", "done"}
    /\ keyed \in [Port -> Seq(Digit)]
    /\ spoiled \in [Port -> SUBSET Reason]

(* load_module has read the hook of every port and started the monitor.    *)
Init ==
    \E off \in SUBSET Port :
       /\ pvt = [p \in Port |-> [state |-> IF p \in off THEN "OFFHOOK" ELSE "ONHOOK",
                                 owner |-> None, dial_timer |-> FALSE, dtmfbuf |-> <<>>]]
       /\ line = [p \in Port |-> [hook |-> IF p \in off THEN "off" ELSE "on",
                                  bell |-> FALSE, events |-> <<>>]]
       /\ timer = [p \in Port |-> [own |-> FALSE, orphans |-> 0, callback |-> "no"]]
       /\ chan = [c \in Chan |-> Free]
       /\ iflock = None /\ monlock = None /\ monitor = TRUE
       /\ mon = [pc |-> "loop", i |-> 0, event |-> None]
       /\ unload = "no"
       /\ keyed = [p \in Port |-> <<>>] /\ spoiled = [p \in Port |-> {}]

-----------------------------------------------------------------------------
(* The functions of the driver, from state to state: s is a record of what *)
(* they change.                                                            *)
Now == [pvt |-> pvt, line |-> line, timer |-> timer, chan |-> chan,
        keyed |-> keyed, spoiled |-> spoiled]

Becomes(s) ==
    /\ pvt' = s.pvt /\ line' = s.line /\ timer' = s.timer /\ chan' = s.chan
    /\ keyed' = s.keyed /\ spoiled' = s.spoiled

SetState(s, p, st) == [s EXCEPT !.pvt[p].state = st]
Spoil(s, p, why)   == [s EXCEPT !.spoiled[p] = @ \cup {why}]
When(b, s, t)      == IF b THEN s ELSE t

(* A lifted handset does not ring.                                         *)
lantiq_ring(s, p, on) == [s EXCEPT !.line[p].bell = on /\ s.line[p].hook = "on"]

(* A new channel c for port p.  It becomes the owner even of a port that   *)
(* has one.                                                                *)
lantiq_channel(s, p, c, st) ==
    LET t == When(s.pvt[p].owner # None, Spoil(s, p, "owner"), s)
    IN  [t EXCEPT !.chan[c] = [st |-> st, port |-> p, frames |-> {}],
                  !.pvt[p].owner = c]

(* Mutant: the pointer to the freed channel stays.                         *)
ast_lantiq_hangupKeepsOwner(s, c, after) ==
    LET p == s.chan[c].port
        t == IF s.pvt[p].state \in {"RINGING", "ONHOOK"}
             THEN SetState(lantiq_ring(s, p, FALSE), p, "ONHOOK")
             ELSE SetState(s, p, "CALL_ENDED")
    IN  [t EXCEPT !.chan[c] = [Free EXCEPT !.st = after]]

(* ast_lantiq_hangup, and what ast_hangup leaves of the channel.           *)
ast_lantiq_hangup(s, c, after) ==
    LET p == s.chan[c].port
        r == When(s.pvt[p].state \in {"OFFHOOK", "DIALING"}, Spoil(s, p, "refused"), s)
        t == IF r.pvt[p].state \in {"RINGING", "ONHOOK"}
             THEN SetState(lantiq_ring(r, p, FALSE), p, "ONHOOK")
             ELSE SetState(r, p, "CALL_ENDED")
    IN  [t EXCEPT !.pvt[p].owner = None, !.chan[c] = [Free EXCEPT !.st = after]]

(* ast_sched_thread_del with dial_timer reset: a callback that has begun   *)
(* goes on.                                                                *)
DeleteTimer(s, p) ==
    When(s.pvt[p].dial_timer,
         [s EXCEPT !.pvt[p].dial_timer = FALSE, !.timer[p].own = FALSE], s)

(* ast_sched_thread_add, AST_SCHED_REPLACE.                                *)
SetTimer(s, p) == [s EXCEPT !.pvt[p].dial_timer = TRUE, !.timer[p].own = TRUE]

lantiq_reset_dtmfbuf(s, p) == [s EXCEPT !.pvt[p].dtmfbuf = <<>>]

(* Mutant: the digits stay for the next call.                              *)
lantiq_dialKeepsDigits(s, p, c, started) ==
    LET call == SetState(lantiq_channel(s, p, c, "RING"), p, "INCALL")
    IN  CASE s.pvt[p].dtmfbuf \notin Extension ->
                SetState(s, p, "CALL_ENDED")
          [] s.pvt[p].dtmfbuf \in Extension /\ started -> call
          [] OTHER -> ast_lantiq_hangup(call, c, "FREE")

(* Dials what is in the buffer on channel c; started: Asterisk could start *)
(* the dialplan for it.                                                    *)
lantiq_dial(s, p, c, started) ==
    LET call == SetState(lantiq_channel(s, p, c, "RING"), p, "INCALL")
        t == CASE s.pvt[p].dtmfbuf \notin Extension ->
                     SetState(s, p, "CALL_ENDED")
               [] s.pvt[p].dtmfbuf \in Extension /\ started -> call
               [] OTHER -> ast_lantiq_hangup(call, c, "FREE")
    IN  lantiq_reset_dtmfbuf(t, p)

(* The user has hung up while dialling.  The digits stay in the buffer; a  *)
(* channel that has become the owner meanwhile is freed in this thread.    *)
lantiq_end_dialing(s, p) ==
    LET t == When(s.pvt[p].dtmfbuf # <<>>, Spoil(s, p, "digits"), s)
        u == DeleteTimer(t, p)
    IN  When(u.pvt[p].owner # None, ast_lantiq_hangup(u, u.pvt[p].owner, "GONE"), u)

QueueFrame(s, c, f) ==
    [s EXCEPT !.chan[c].frames = IF s.chan[c].st \in {"FREE", "GONE"} THEN @ ELSE @ \cup {f}]

lantiq_end_call(s, p) ==
    When(s.pvt[p].owner # None, QueueFrame(s, s.pvt[p].owner, "HANGUP"), s)

accept_call(s, p) ==
    LET c == s.pvt[p].owner
    IN  IF c # None /\ s.chan[c].st = "RINGING"
        THEN SetState(QueueFrame(s, c, "ANSWER"), p, "INCALL")
        ELSE s

-----------------------------------------------------------------------------
(* The handset.                                                            *)
Queue(s, p, e) == [s EXCEPT !.line[p].events = Append(@, e)]

Lift(p) ==
    /\ line[p].hook = "on" /\ Len(line[p].events) < EVENTS_MAX
    /\ Becomes(Queue([Now EXCEPT !.line[p].hook = "off", !.line[p].bell = FALSE],
                     p, "offhook"))
    /\ UNCHANGED threads

PutDown(p) ==
    /\ line[p].hook = "off" /\ Len(line[p].events) < EVENTS_MAX
    /\ Becomes(Queue([Now EXCEPT !.line[p].hook = "on"], p, "onhook"))
    /\ UNCHANGED threads

Key(p, k) ==
    /\ line[p].hook = "off" /\ Len(line[p].events) < EVENTS_MAX
    /\ Becomes(Queue(Now, p, k))
    /\ UNCHANGED threads

-----------------------------------------------------------------------------
(* The monitor thread.                                                     *)
Iflock(t)  == iflock \in {None, t}

MonitorLoop ==
    /\ mon.pc = "loop"
    /\ mon' = [mon EXCEPT !.pc = IF monitor THEN "lock" ELSE "dead"]
    /\ UNCHANGED <<port, iflock, monlock, monitor, unload>>

MonitorLock ==
    /\ mon.pc = "lock" /\ monlock = None
    /\ monlock' = "monitor"
    /\ mon' = [mon EXCEPT !.pc = "poll"]
    /\ UNCHANGED <<port, iflock, monitor, unload>>

(* poll finds an event, or nothing for two seconds.                        *)
Poll ==
    /\ mon.pc = "poll"
    /\ IF \E p \in Port : line[p].events # <<>>
       THEN mon' = [mon EXCEPT !.pc = "get", !.i = 0] /\ UNCHANGED monlock
       ELSE mon' = [mon EXCEPT !.pc = "loop"] /\ monlock' = None
    /\ UNCHANGED <<port, iflock, monitor, unload>>

(* lantiq_dev_event_handler takes at most one event of each port, and lets *)
(* iflock go before it handles it.                                         *)
GetEvent ==
    /\ mon.pc = "get" /\ mon.i < PORTS /\ iflock = None
    /\ IF line[mon.i].events = <<>>
       THEN mon' = [mon EXCEPT !.i = @ + 1] /\ UNCHANGED port
       ELSE /\ mon' = [mon EXCEPT !.pc = "handle", !.event = Head(line[mon.i].events)]
            /\ Becomes([Now EXCEPT !.line[mon.i].events = Tail(@)])
    /\ UNCHANGED <<iflock, monlock, monitor, unload>>

EventsDone ==
    /\ mon.pc = "get" /\ mon.i = PORTS
    /\ mon' = [mon EXCEPT !.pc = "loop", !.i = 0]
    /\ monlock' = None
    /\ UNCHANGED <<port, iflock, monitor, unload>>

Handled == mon' = [mon EXCEPT !.pc = "get", !.i = @ + 1, !.event = None]

Handling(e) ==
    /\ mon.pc = "handle" /\ mon.event = e /\ iflock = None
    /\ Handled
    /\ UNCHANGED <<iflock, monlock, monitor, unload>>

(* Mutant: the far end of a call is not told.                              *)
OnHookSilent ==
    LET p == mon.i
        s == When(pvt[p].state = "DIALING", lantiq_end_dialing(Now, p), Now)
    IN  /\ Handling("onhook")
        /\ Becomes(SetState(s, p, "ONHOOK"))

OnHook ==
    LET p == mon.i
        s == CASE pvt[p].state = "DIALING" -> lantiq_end_dialing(Now, p)
               [] pvt[p].state = "INCALL" -> lantiq_end_call(Now, p)
               [] OTHER -> Now
    IN  /\ Handling("onhook")
        /\ Becomes(SetState(s, p, "ONHOOK"))

OffHook ==
    LET p == mon.i
        s == [Now EXCEPT !.keyed[p] = <<>>]
    IN  /\ Handling("offhook")
        /\ Becomes(IF pvt[p].state = "RINGING" THEN accept_call(s, p)
                   ELSE SetState(s, p, "OFFHOOK"))

(* One of the three calls of the device fails.                             *)
OffHookFails ==
    /\ Handling("offhook")
    /\ Becomes(Now)

(* lantiq_dev_event_digit: the first digit starts the dialling, "#" dials. *)
Dialing(s, p) ==
    When(s.pvt[p].state = "OFFHOOK",
         SetState(s, p, "DIALING"), s)

DigitEvent(d) ==
    LET p == mon.i
        s == Dialing(Now, p)
    IN  /\ Handling(d) /\ d \in Digit
        /\ IF pvt[p].state \in {"OFFHOOK", "DIALING"}
           THEN Becomes(SetTimer([s EXCEPT !.pvt[p].dtmfbuf = Append(@, d),
                                           !.keyed[p] = Append(@, d)], p))
           ELSE UNCHANGED port

Unused(c) == chan[c].st = "FREE"

Dialable(p) == pvt[p].dtmfbuf \in Extension

HashEvent(c, started) ==
    LET p == mon.i
    IN  /\ Handling("#") /\ (Dialable(p) => Unused(c))
        /\ IF pvt[p].state \in {"OFFHOOK", "DIALING"}
           THEN Becomes(lantiq_dial(DeleteTimer(Dialing(Now, p), p), p, c, started))
           ELSE UNCHANGED port

-----------------------------------------------------------------------------
(* The scheduler's thread.  The callback takes no lock: it resets          *)
(* dial_timer, looks at the state, and dials.                              *)
Expire(p) ==
    /\ timer[p].callback = "no"
    /\ \/ timer[p].own /\ timer' = [timer EXCEPT ![p].own = FALSE, ![p].callback = "begun"]
       \/ /\ timer[p].orphans > 0
          /\ timer' = [timer EXCEPT ![p].orphans = @ - 1, ![p].callback = "begun"]
    /\ UNCHANGED <<pvt, line, chan, keyed, spoiled, threads>>

lantiq_event_dial_timeout(p) ==
    /\ timer[p].callback = "begun"
    /\ pvt' = [pvt EXCEPT ![p].dial_timer = FALSE]
    /\ timer' = [timer EXCEPT
                   ![p].own = FALSE,
                   ![p].orphans = IF timer[p].own THEN @ + 1 ELSE @,
                   ![p].callback = IF pvt[p].state # "ONHOOK" THEN "dial" ELSE "no"]
    /\ UNCHANGED <<line, chan, keyed, spoiled, threads>>

TimeoutDials(p, c, started) ==
    /\ timer[p].callback = "dial" /\ (Dialable(p) => Unused(c))
    /\ started \/ iflock = None
    /\ LET s == When(pvt[p].state # "DIALING", Spoil(Now, p, "timer"), Now)
       IN  Becomes(lantiq_dial([s EXCEPT !.timer[p].callback = "no"], p, c, started))
    /\ UNCHANGED threads

-----------------------------------------------------------------------------
(* Asterisk: a thread that dials a port, and the threads of the calls that *)
(* the ports dial.                                                         *)
Live(c) == chan[c].st \notin {"FREE", "GONE"}

ast_lantiq_requester(c, p) ==
    /\ unload = "no" /\ Unused(c) /\ Iflock(c)
    /\ Becomes(lantiq_channel(Now, p, c, "DOWN"))
    /\ UNCHANGED threads

(* A destination that is no port: the function returns with iflock held.   *)
RequesterRefuses(c) ==
    /\ unload = "no" /\ Unused(c) /\ Iflock(c)
    /\ iflock' = c
    /\ UNCHANGED <<port, monlock, monitor, mon, unload>>

ast_lantiq_call(c) ==
    LET p == chan[c].port
    IN  /\ chan[c].st = "DOWN" /\ Iflock(c)
        /\ IF pvt[p].state = "ONHOOK"
           THEN Becomes([SetState(lantiq_ring(Now, p, TRUE), p, "RINGING")
                           EXCEPT !.chan[c].st = "RINGING"])
           ELSE Becomes([Now EXCEPT !.chan[c].st = "BUSY"])
        /\ UNCHANGED threads

ReadAnswer(c) ==
    /\ Live(c) /\ "ANSWER" \in chan[c].frames
    /\ chan' = [chan EXCEPT ![c].frames = @ \ {"ANSWER"},
                            ![c].st = IF @ = "RINGING" THEN "UP" ELSE @]
    /\ UNCHANGED <<pvt, line, timer, keyed, spoiled, threads>>

(* The dialplan answers a call that a port has dialled: ast_lantiq_answer  *)
(* has no code.                                                            *)
Answered(c) ==
    /\ chan[c].st = "RING"
    /\ chan' = [chan EXCEPT ![c].st = "UP"]
    /\ UNCHANGED <<pvt, line, timer, keyed, spoiled, threads>>

Hangup(c) ==
    /\ Live(c) /\ Iflock(c)
    /\ Becomes(ast_lantiq_hangup(Now, c, "FREE"))
    /\ UNCHANGED threads

-----------------------------------------------------------------------------
(* unload_module.  restart_monitor is called once, by load_module, when    *)
(* there is no thread yet.                                                 *)
Unregister ==
    /\ unload = "no"
    /\ unload' = "hangup"
    /\ UNCHANGED <<port, iflock, monlock, monitor, mon>>

SoftHangup ==
    /\ unload = "hangup" /\ iflock = None
    /\ unload' = "lock"
    /\ chan' = [c \in Chan |->
                  IF \E p \in Port : pvt[p].owner = c
                  THEN [chan[c] EXCEPT !.frames = @ \cup {"HANGUP"}] ELSE chan[c]]
    /\ UNCHANGED <<pvt, line, timer, keyed, spoiled, iflock, monlock, monitor, mon>>

(* It waits for the thread to end with monlock held: a thread that waits   *)
(* for monlock does not end.                                               *)
KillMonitor ==
    /\ unload = "lock" /\ monlock = None
    /\ unload' = "kill" /\ monlock' = "unload" /\ monitor' = FALSE
    /\ UNCHANGED <<port, iflock, mon>>

JoinMonitor ==
    /\ unload = "kill" /\ mon.pc = "dead"
    /\ unload' = "done" /\ monlock' = None
    /\ UNCHANGED <<port, iflock, monitor, mon>>

-----------------------------------------------------------------------------
Monitor ==
    \/ MonitorLoop \/ MonitorLock \/ Poll \/ GetEvent \/ EventsDone
    \/ OnHook \/ OffHook
    \/ \E d \in Digit : DigitEvent(d)
    \/ \E c \in Chan, b \in BOOLEAN : HashEvent(c, b)

Scheduler(p) ==
    \/ Expire(p) \/ lantiq_event_dial_timeout(p)
    \/ \E c \in Chan, b \in BOOLEAN : TimeoutDials(p, c, b)

Unload == Unregister \/ SoftHangup \/ KillMonitor \/ JoinMonitor

Asterisk(c) ==
    \/ \E p \in Port : ast_lantiq_requester(c, p)
    \/ RequesterRefuses(c) \/ ast_lantiq_call(c) \/ ReadAnswer(c) \/ Answered(c)
    \/ Hangup(c)

Handset(p) == Lift(p) \/ PutDown(p) \/ \E k \in Digit \cup {"#"} : Key(p, k)

Next ==
    \/ \E p \in Port : Handset(p) \/ Scheduler(p)
    \/ Monitor \/ OffHookFails
    \/ \E c \in Chan : Asterisk(c)
    \/ Unload

Spec == Init /\ [][Next]_vars

-----------------------------------------------------------------------------
(* What has gone wrong at a port, for good: "owner", a new channel has     *)
(* displaced the owner of the port; "refused", a call that came while the  *)
(* user was about to dial was hung up, and with it the dialling; "timer",  *)
(* the timeout has dialled at a port that was no longer dialling;          *)
(* "digits", dialling was given up, and its digits stayed.                 *)
Fine(p, reasons) == spoiled[p] \cap reasons = {}

(* The owner of a port is a channel that exists and belongs to the port,   *)
(* whatever has happened: no thread finds a freed channel in it under the  *)
(* lock.  Unless a channel was displaced, every channel of the port is its *)
(* owner, so that events reach the call they are for.                      *)
OwnerMatches ==
    \A p \in Port, c \in Chan :
       /\ pvt[p].owner = c => Live(c) /\ chan[c].port = p
       /\ Live(c) /\ chan[c].port = p /\ Fine(p, {"owner"}) => pvt[p].owner = c

(* The number that will be dialled is the one keyed since the handset was  *)
(* lifted.                                                                 *)
DialsWhatWasKeyed ==
    \A p \in Port :
       Fine(p, {"digits", "timer", "owner", "refused"})
         => pvt[p].dtmfbuf = IF pvt[p].state = "DIALING" THEN keyed[p] ELSE <<>>

(* A call that the user has hung up is hung up for the far end, too,       *)
(* unless it began behind the user's back.                                 *)
CallEnds ==
    \A c \in Chan, p \in Port :
       (pvt[p].owner = c /\ pvt[p].state = "INCALL" /\ line[p].hook = "on")
         ~> \/ ~Live(c) \/ pvt[p].owner # c \/ line[p].hook = "off"
            \/ ~Fine(p, {"timer"}) \/ iflock # None \/ unload # "no"
=============================================================================
