----------------------------- MODULE MCSIODMesh -----------------------------
(* Small meshes for TLC.  The surroundings do at most MaxEvents things, of  *)
(* the kinds in Kinds; what the SIODs do in answer is not bounded.          *)
EXTENDS SIODMesh, TLC

CONSTANTS n1, n2, n3,
          Kinds,        \* what the surroundings may do
          MaxEvents,    \* how often
          Warm          \* start after discovery instead of before any boot

VARIABLE left           \* how often they still may

mcvars == <<vars, left>>

NoRules == [n \in Node |-> <<>>]

And(id1, x1, y1, id2, x2, y2, id3, x3, y3) ==
    [id1 |-> id1, x1 |-> x1, y1 |-> y1, id2 |-> id2, x2 |-> x2, y2 |-> y2,
     conn |-> "and", id3 |-> id3, x3 |-> x3, y3 |-> y3]

(* n1: input 0 of n1 on => relay 2 of n1 on.                               *)
LocalRule == [n \in Node |-> IF n = n1
    THEN <<And(n1, 2, TRUE, n1, 4, TRUE, n1, 4, TRUE)>> ELSE <<>>]

(* n1: input 0 of n1 on => relay 2 of n2 on.                               *)
RemoteRule == [n \in Node |-> IF n = n1
    THEN <<And(n2, 2, TRUE, n1, 4, TRUE, n1, 4, TRUE)>> ELSE <<>>]

(* n1: relay 2 of n2 follows input 0 of n1; n2: its own relay goes off     *)
(* when the relay of n1 is on or its own input is.                         *)
MixedRules == [n \in Node |-> IF n = n1
    THEN <<And(n2, 2, TRUE, n1, 4, TRUE, n1, 4, TRUE),
           And(n1, 2, TRUE, n2, 4, TRUE, n1, 4, FALSE)>>
    ELSE <<[And(n2, 2, FALSE, n1, 2, TRUE, n2, 4, TRUE) EXCEPT !.conn = "or"]>>]

Off == [x \in IO |-> FALSE]

Cold ==
    /\ Init
    /\ wire = [n \in Node |-> Off]
    /\ inRange = [n \in Node |-> TRUE]

(* The state that Cold leads to when every SIOD has booted and all         *)
(* datagrams have been served.                                             *)
Discovered ==
    /\ up = [n \in Node |-> TRUE]
    /\ GST = [n \in Node |-> [m \in Node |-> Off]]
    /\ IPT = [n \in Node |-> [m \in Node |-> IF m = n THEN Unknown ELSE m]]
    /\ triggered = [n \in Node |-> [k \in 1 .. RULES_MAX |-> FALSE]]
    /\ scan = [n \in Node |-> 0]
    /\ IVRSet_counter = [n \in Node |-> 0]
    /\ fifo = [n \in Node |-> "none"]
    /\ wire = [n \in Node |-> Off]
    /\ saved = [n \in Node |-> [x \in Outputs |-> FALSE]]
    /\ inRange = [n \in Node |-> TRUE]
    /\ net = [s \in Node |-> [d \in Node |-> <<>>]]
    /\ impersonated = {}
    /\ disturbed = {}

MCInit ==
    /\ IF Warm THEN Discovered ELSE Cold
    /\ left = MaxEvents

Spend(kind) == kind \in Kinds /\ left > 0 /\ left' = left - 1

Free == UNCHANGED left

MCSet(n) == \/ \E x \in SetX, y \in BOOLEAN : ClientSet(n, x, y)
            \/ \E ys \in [Outputs -> BOOLEAN] : ClientSetAll(n, ys)

MCNext ==
    \/ \E n \in Node : Boot(n) /\ Free
    \/ \E n \in Node : Process(n) /\ Free
    \/ \E s, d \in Node : Unheard(s, d) /\ Free
    \/ \E n \in Node : MCSet(n) /\ Spend("set")
    \/ \E n \in Node, xs \in {IO} \cup {{x} : x \in IO} :
          ClientGet(n, xs) /\ Spend("get")
    \/ \E n \in Node, kind \in {"GSTCheckSum", "ConfigRes"} :
          ClientQuery(n, kind) /\ Spend("query")
    \/ \E n \in Node : IVR(n) /\ Spend("ivr")
    \/ \E n \in Node : Failure(n) /\ Spend("crash")
    \/ \E n \in Node, x \in Inputs : Flip(n, x) /\ Spend("flip")
    \/ \E n \in Node : WindowChange(n) /\ Spend("window")
    \/ \E n \in Node, x \in Outputs : RelayFault(n, x) /\ Spend("fault")
    \/ \E s, d \in Node, i \in 1 .. 6 : Lose(s, d, i) /\ Spend("lose")
    \/ \E s, d \in Node, i \in 1 .. 6 : Overtake(s, d, i) /\ Spend("overtake")

MCSpec == MCInit /\ [][MCNext]_mcvars

(* The loop serves a datagram as soon as select reports it (it may have to *)
(* wait for PLCexec again and again, hence SF), runs its timeout when none *)
(* is there, and finishes PLCexec; a SIOD is powered up in the end.        *)
Fairness ==
    \A n \in Node :
        /\ WF_mcvars(Boot(n) /\ Free)
        /\ WF_mcvars(Tick(n) /\ Free)
        /\ WF_mcvars(PLCStep(n) /\ Free)
        /\ \A s \in Node \ {n} : /\ SF_mcvars(Receive(s, n) /\ Free)
                                 /\ WF_mcvars(Unheard(s, n) /\ Free)

MCLiveSpec == MCSpec /\ Fairness
=============================================================================
