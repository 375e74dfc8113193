----------------------------- MODULE MCYunBridge -----------------------------
(* A sketch that makes at most MaxCalls calls and reboots at most          *)
(* MaxReboots times, TCP clients that send at most MaxArrivals messages,   *)
(* and at most MaxRestarts restarts of the bridge.  Losses and repetitions *)
(* are not bounded, but for the capacity of the line.                      *)
EXTENDS YunBridge

CONSTANTS MaxCalls, MaxArrivals, MaxReboots, MaxRestarts

MCLength == [m \in Message |-> 300]

VARIABLE count

mcvars == <<vars, count>>

Limit == [call |-> MaxCalls, arrival |-> MaxArrivals,
          reboot |-> MaxReboots, restart |-> MaxRestarts]

Counted(kind) == count[kind] < Limit[kind] /\ count' = [count EXCEPT ![kind] = @ + 1]
Free == UNCHANGED count

MCInit == Init /\ count = [kind \in DOMAIN Limit |-> 0]

MCNext ==
    \/ \E cmd \in Command : Call(cmd) /\ Counted("call")
    \/ Repeat /\ Free
    \/ TakeReply /\ Free
    \/ DropReply /\ Free
    \/ \E i \in Index : Reboot(i) /\ Counted("reboot")
    \/ \E i \in 1 .. LINE_CAPACITY : LosePacket(i) /\ Free
    \/ \E i \in 1 .. LINE_CAPACITY : LoseReply(i) /\ Free
    \/ ProcessReset /\ Free
    \/ ProcessRepeated /\ Free
    \/ ProcessCommand /\ Free
    \/ \E cmd \in ExtCommand : Arrive(cmd) /\ Counted("arrival")
    \/ Restart /\ Counted("restart")

MCSpec == MCInit /\ [][MCNext]_mcvars

(* The bridge reads the line in an endless loop; the sketch repeats and    *)
(* listens; the line does not lose everything.                             *)
Fairness ==
    /\ WF_mcvars(Repeat /\ Free)
    /\ SF_mcvars(Process /\ Free)
    /\ SF_mcvars((TakeReply \/ DropReply) /\ Free)

MCLiveSpec == MCSpec /\ Fairness
=============================================================================
