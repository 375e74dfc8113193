----------------------------- MODULE BridgeCalls -----------------------------
(* What the bridge promises the sketch: its calls act on the mailbox one   *)
(* after the other, each exactly once between call and return, and return  *)
(* their own result.  The serial line, its packets and repetitions are not *)
(* visible here; YunBridge implements this.                                *)
EXTENDS Mailbox

CONSTANT None

VARIABLES
    phase,      \* "broken" (no session), "idle", "called", "done"
    call,       \* the command of the sketch, or None
    result,     \* what it will return, once "done"
    box         \* the mailbox

vars == <<phase, call, result, box>>

Init == phase = "broken" /\ call = None /\ result = None /\ box = NewBox

Call(cmd) ==
    /\ phase = "idle"
    /\ phase' = "called" /\ call' = cmd
    /\ UNCHANGED <<result, box>>

Execute ==
    /\ phase = "called"
    /\ phase' = "done"
    /\ result' = Answer(call, box)
    /\ box' = After(call, box)
    /\ UNCHANGED call

Return ==
    /\ phase = "done"
    /\ phase' = "idle" /\ call' = None /\ result' = None
    /\ UNCHANGED box

Arrive(cmd) == box' = ext_command(cmd, box) /\ UNCHANGED <<phase, call, result>>

(* The sketch restarts: the call is forgotten, executed or not.            *)
Reset ==
    /\ phase \in {"idle", "called", "done"}
    /\ phase' = "idle" /\ call' = None /\ result' = None
    /\ UNCHANGED box

(* The bridge restarts: no session and an empty mailbox, until the sketch  *)
(* opens a session, in which it may have called already.                   *)
Break == phase' = "broken" /\ call' = None /\ result' = None /\ box' = NewBox

Open ==
    /\ phase = "broken"
    /\ \/ (phase' = "idle" /\ call' = None)
       \/ (phase' = "called" /\ call' \in Command)
    /\ UNCHANGED <<result, box>>

Next ==
    \/ \E cmd \in Command : Call(cmd)
    \/ Execute \/ Return \/ Reset \/ Break \/ Open
    \/ \E cmd \in ExtCommand : Arrive(cmd)

Spec == Init /\ [][Next]_vars
=============================================================================
