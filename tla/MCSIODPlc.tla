------------------------------ MODULE MCSIODPlc ------------------------------
(* One SIOD that is sent at most MaxMessages PLC messages and loses power  *)
(* at most MaxCrashes times.                                               *)
EXTENDS SIODPlc

CONSTANTS MaxMessages, MaxCrashes

VARIABLES messages, crashes

mcvars == <<vars, messages, crashes>>

MCInit == Init /\ messages = 0 /\ crashes = 0

Message == messages < MaxMessages /\ messages' = messages + 1 /\ UNCHANGED crashes
Power   == crashes < MaxCrashes /\ crashes' = crashes + 1 /\ UNCHANGED messages
Free    == UNCHANGED <<messages, crashes>>

MCNext ==
    \/ Start /\ Free
    \/ PLCread_config /\ Free
    \/ Serve /\ Free
    \/ \E out \in Output, cond \in Condition : AddRule(out, cond) /\ Message
    \/ \E out \in Output : DeleteRule(out) /\ Message
    \/ PLCdel_config /\ Free
    \/ ucicommit /\ Free
    \/ PLCexec /\ Free
    \/ Crash /\ Power

MCSpec == MCInit /\ [][MCNext]_mcvars
=============================================================================
