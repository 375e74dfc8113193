------------------------------ MODULE MCPhones ------------------------------
(* Phones for model checking: each behaviour is one of one part, chosen at  *)
(* the start; the others stay as they began.  What users, networks, modems  *)
(* and the power do is bounded by budget.                                   *)
EXTENDS Phones, TLC

CONSTANTS
    c1, c2, k1,          \* channels of Asterisk, a key
    m1, m2, m3, m4, d1, d2,  \* messages to send, modems
    s1, s2, s3,          \* messages to receive
    q1, q2               \* missed calls

VARIABLES part, budget

Extensions == {<<k1>>}

(* m2 fails the checks of the main process, m3 those of a modem process.    *)
OutParts == (m1 :> 2) @@ (m2 :> 1) @@ (m3 :> 1) @@ (m4 :> 1)

(* s2 has the reference of s1, and is sent after the others.                *)
PartsIn     == (s1 :> 2) @@ (s2 :> 2) @@ (s3 :> 2)
ReferenceIn == (s1 :> 1) @@ (s2 :> 1) @@ (s3 :> 2)
EarlierIn   == (s1 :> {}) @@ (s2 :> {s1, s3}) @@ (s3 :> {})

Modes == {[incoming |-> 0, keep_open |-> TRUE, purge |-> FALSE],
          [incoming |-> 1, keep_open |-> FALSE, purge |-> FALSE],
          [incoming |-> 2, keep_open |-> FALSE, purge |-> TRUE]}

(* Lengths on both sides of every limit: one part, 9, 99 and 255 parts with *)
(* numbers in the text, 255 parts with numbers in the header, and the most  *)
(* the buffer of smsd holds.                                                *)
Lengths == [gsm    |-> {1, 160, 161, 1404, 1405, 15246, 15247, 38760, 38761, 39015},
            utf8   |-> {140, 141, 33660, 33661, 33915, 33916},
            ucs2   |-> {2, 140, 142, 1188, 1190, 12672, 12674, 31620, 31622, 34170, 34172},
            binary |-> {20, 140, 141, 268, 34170}]
AllTexts == UNION {[alphabet : {a}, length : Lengths[a], split : 0 .. 3,
                    own : IF a = "utf8" THEN {0} ELSE {0, 7, 12}] : a \in DOMAIN Lengths}

mcvars == <<part, budget, phones>>

Budget == [driver |-> 4, spool |-> 2, receive |-> 1, modem |-> 2, device |-> 2, split |-> 0]

(* The other parts are where each of them can be at its start.              *)
Still(p) ==
    /\ p # "driver" => \A l \in L!Port : line[l].hook = "on"
    /\ p # "modem" => mdev.sim = "READY" /\ ~ mdev.locks /\ config.pin = "none"
    /\ p # "device" => DEVICE.incoming = 0
    /\ p # "split" => concatenated_id = 1

MCInit ==
    /\ part \in DOMAIN Budget
    /\ budget = Budget[part]
    /\ PhonesInit
    /\ Still(part)

Spend(p, n) == part = p /\ budget >= n /\ budget' = budget - n /\ UNCHANGED part

DriverRuns ==
    \/ L!Monitor \/ \E p \in L!Port : L!Scheduler(p)
    \/ L!SoftHangup \/ L!KillMonitor \/ L!JoinMonitor
    \/ \E c \in Chan : L!ast_lantiq_call(c) \/ L!ReadAnswer(c) \/ L!Answered(c) \/ L!Hangup(c)
DriverUsed ==
    \E p \in L!Port : L!Handset(p) \/ \E c \in Chan : L!ast_lantiq_requester(c, p)
DriverFails == L!OffHookFails \/ L!Unregister \/ \E c \in Chan : L!RequesterRefuses(c)

MCNext ==
    \/ Spend("driver", 0) /\ Driver(DriverRuns)
    \/ Spend("driver", 1) /\ Driver(DriverUsed)
    \/ Spend("driver", 2) /\ Driver(DriverFails)
    \/ Spend("spool", 0) /\ Spool(Submit(m1))
    \/ Spend("spool", 1) /\ Spool(\E m \in Message \ {m1} : Submit(m))
    \/ Spend("spool", 0) /\ Spool(MainStep)
    \/ \E d \in Modem : Spend("spool", 0) /\ Spool(ModemStep(d))
    \/ Spend("spool", 1) /\ Spool(Fault)
    \/ Spend("receive", 0) /\ Receive(R!Receive \/ R!Network)
    \/ Spend("receive", 1) /\ Receive(R!Fault)
    \/ Spend("modem", 0) /\ Dialogue(M!Program \/ M!PowerOn)
    \/ Spend("modem", 1) /\ Dialogue(M!Fault)
    \/ Spend("device", 0) /\ Device(D!Process \/ D!Missed(q1))
    \/ Spend("device", 1) /\ Device(D!Fault \/ D!Users \/ D!Missed(q2))
    \/ Spend("split", 0) /\ Splits(P!Next)

MCFairness ==
    /\ WF_mcvars(Spend("driver", 0) /\ Driver(L!Monitor))
    /\ \A p \in L!Port : WF_mcvars(Spend("driver", 0) /\ Driver(L!Scheduler(p)))
    /\ \A c \in Chan :
          WF_mcvars(Spend("driver", 0) /\ Driver("HANGUP" \in chan[c].frames /\ L!Hangup(c)))
    /\ WF_mcvars(Spend("spool", 0) /\ Spool(MainStep))
    /\ \A d \in Modem : WF_mcvars(Spend("spool", 0) /\ Spool(ModemStep(d)))
    /\ WF_mcvars(Spend("receive", 0) /\ Receive(R!Receive))

MCSpec == MCInit /\ [][MCNext]_mcvars /\ MCFairness
=============================================================================
