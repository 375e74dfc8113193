------------------------------- MODULE SIODPlc -------------------------------
(***************************************************************************)
(* The PLC rules of one SIOD (src/socket_io/src/socket_io.c): the table    *)
(* PLCT that PLCexec works from, and the list siod.plcrules.rule in the    *)
(* configuration, from which a restart rebuilds the table.                 *)
(*                                                                         *)
(* A rule is the text AAAA1/X1/Y1/AAAA2/X2/Y2/and_or/AAAA3/X3/Y3.  What    *)
(* the code tells apart is                                                 *)
(*   - out, the triple AAAA1/X1/Y1 that identifies the rule;               *)
(*   - cond, the rest, which decides the length of the text;               *)
(*   - len, the characters that are left of it: uciget returns at most     *)
(*     STR_MAX - 1 characters of the list, so its last text may be cut.    *)
(* Rules with an invalid field are refused without a trace and left out.   *)
(* The process does not come back without a reboot, so what "uci add_list" *)
(* has staged and "uci commit" has not written is lost with it.            *)
(***************************************************************************)
EXTENDS Integers, Sequences, FiniteSets, Sublist

CONSTANTS
    Output,         \* the triples AAAA1/X1/Y1
    AndCondition,   \* the conditions AAAA2/X2/Y2/and/AAAA3/X3/Y3
    OrCondition,    \* the same with "or", one character shorter
    RULES_MAX,      \* entries of PLCT, 10 in the code
    STR_MAX,        \* size of the buffer uciget fills, 100 in the code
    None            \* no output

ASSUME TableAssumption == RULES_MAX \in Nat /\ STR_MAX \in Nat

ASSUME NoneAssumption == None \notin Output

Condition == AndCondition \cup OrCondition
Length(cond) == IF cond \in OrCondition THEN 29 ELSE 30
TRIPLE == 8         \* characters of AAAA1/X1/Y1

Text == [out : Output, cond : Condition, len : 1 .. 30]
Rule(out, cond) == [out |-> out, cond |-> cond, len |-> Length(cond)]
Whole(text) == text.len >= Length(text.cond)

Entry == [rule : Text, triggered : BOOLEAN]

VARIABLES
    mode,       \* "off", "reading" (PLCread_config), "serving", or
                \* "deleting" (PLCdel_config)
    PLCT,       \* the table
    unread,     \* the texts the loop over the configured list has to visit
    config,     \* siod.plcrules.rule as committed
    staged,     \* what PLCdel_config has put back into the list so far
    victim,     \* the output PLCdel_config deletes, or None
    overflowed  \* history: has the list ever been longer than uciget returns?

vars == <<mode, PLCT, unread, config, staged, victim, overflowed>>

TypeOK ==
    /\ mode \in {"off", "reading", "serving", "deleting"}
    /\ PLCT \in Seq(Entry) /\ Len(PLCT) <= RULES_MAX
    /\ unread \in Seq(Text)
    /\ config \in Seq(Text)
    /\ staged \in Seq(Text)
    /\ victim \in Output \cup {None}
    /\ overflowed \in BOOLEAN

Init ==
    /\ mode = "off"
    /\ PLCT = <<>>
    /\ unread = <<>>
    /\ config = <<>>
    /\ staged = <<>>
    /\ victim = None
    /\ overflowed = FALSE

-----------------------------------------------------------------------------
(* uciget: the list as one line, its texts separated by spaces, cut after  *)
(* STR_MAX - 1 characters.  Offset is where each text begins.              *)
Offset(list) ==
    LET at[i \in 1 .. Len(list) + 1] ==
            IF i = 1 THEN 0 ELSE at[i - 1] + list[i - 1].len + 1
    IN  at

Clip(text, room) ==
    IF room \in 1 .. text.len THEN [text EXCEPT !.len = room] ELSE text

Visible(list) == {i \in 1 .. Len(list) : Offset(list)[i] < STR_MAX - 1}

uciget(list) ==
    [i \in 1 .. Cardinality(Visible(list)) |->
        Clip(list[i], STR_MAX - 1 - Offset(list)[i])]

Overflows(list) == Offset(list)[Len(list) + 1] > STR_MAX

(* PLCdel and PLCdel_config know a rule by its first TRIPLE characters.    *)
IsFor(text, out) == text.len >= TRIPLE /\ text.out = out

FirstFor(tab, out, k) ==
    /\ k \in 1 .. Len(tab)
    /\ IsFor(tab[k].rule, out)
    /\ \A j \in 1 .. k - 1 : ~IsFor(tab[j].rule, out)

(* Mutant of Without: the flags are not moved along with the rules.        *)
WithoutShift(tab, k) ==
    [j \in 1 .. Len(tab) - 1 |->
        [rule |-> IF j < k THEN tab[j].rule ELSE tab[j + 1].rule,
         triggered |-> tab[j].triggered]]

Without(tab, k) ==
    [j \in 1 .. Len(tab) - 1 |-> IF j < k THEN tab[j] ELSE tab[j + 1]]

Has(tab, out) == \E k \in 1 .. Len(tab) : FirstFor(tab, out, k)

PLCdel(tab, out) ==
    IF Has(tab, out)
    THEN Without(tab, CHOOSE k \in 1 .. Len(tab) : FirstFor(tab, out, k))
    ELSE tab

(* Mutants of PLCadd: a rule with the same output stays; one entry more    *)
(* than the table has is filled.                                           *)
PLCaddTwice(tab, text) ==
    IF Len(tab) >= RULES_MAX THEN tab
    ELSE Append(tab, [rule |-> text, triggered |-> FALSE])

PLCaddBeyond(tab, text) ==
    IF Len(tab) > RULES_MAX THEN tab
    ELSE Append(IF text.len >= TRIPLE THEN PLCdel(tab, text.out) ELSE tab,
                [rule |-> text, triggered |-> FALSE])

(* A full table refuses every rule, even one that would replace another.   *)
PLCadd(tab, text) ==
    IF Len(tab) >= RULES_MAX THEN tab
    ELSE Append(IF text.len >= TRIPLE THEN PLCdel(tab, text.out) ELSE tab,
                [rule |-> text, triggered |-> FALSE])

(* What PLCadd makes of a cut text: it looks at AAAA1, AAAA2, AAAA3, then  *)
(* at the rest.  A text cut in or just before an ID, or just before Y3, is *)
(* refused; in all other cases an argument it reads was never set, and the *)
(* text may be refused, may be added, or the process may die.              *)
Refused(text) ==
    LET full == text.len + 30 - Length(text.cond)
    IN  text.len \in (1 .. 3) \cup (9 .. 12) \/ full \in (22 .. 25) \cup {29}

-----------------------------------------------------------------------------
(* main starts with PLCread_config, one iteration per step.  With an empty *)
(* list its only iteration hands PLCadd an unset buffer, which is no rule. *)
Start ==
    /\ mode = "off"
    /\ mode' = "reading"
    /\ unread' = uciget(config)
    /\ UNCHANGED <<PLCT, config, staged, victim, overflowed>>

PLCread_config ==
    /\ mode = "reading" /\ unread # <<>>
    /\ unread' = Tail(unread)
    /\ \/ ~Refused(Head(unread)) /\ PLCT' = PLCadd(PLCT, Head(unread))
       \/ ~Whole(Head(unread)) /\ PLCT' = PLCT
    /\ UNCHANGED <<mode, config, staged, victim, overflowed>>

Serve ==
    /\ mode = "reading" /\ unread = <<>>
    /\ mode' = "serving"
    /\ UNCHANGED <<PLCT, unread, config, staged, victim, overflowed>>

(* The process dies, for want of power or over an unset argument.          *)
Crash ==
    /\ mode # "off"
    /\ mode' = "off"
    /\ PLCT' = <<>>
    /\ unread' = <<>>
    /\ staged' = <<>>
    /\ victim' = None
    /\ UNCHANGED <<config, overflowed>>

(* PLC with a condition: the table first; the configuration only if the    *)
(* text is not found in what uciget returns of it.                         *)
AddRule(out, cond) ==
    LET list == uciget(config)
        rule == Rule(out, cond)
    IN  /\ mode = "serving"
        /\ PLCT' = PLCadd(PLCT, rule)
        /\ config' = IF \/ Len(PLCT) >= RULES_MAX     \* PLCadd returned -1
                        \/ \E i \in 1 .. Len(list) : list[i] = rule
                     THEN config ELSE Append(config, rule)
        /\ overflowed' = (overflowed \/ Overflows(config'))
        /\ UNCHANGED <<mode, unread, staged, victim>>

(* PLC without a condition: the table first, and if the rule was there     *)
(* PLCdel_config, which reads the list with uciget, deletes it, and adds   *)
(* every text for another output again.                                    *)
DeleteRule(out) ==
    /\ mode = "serving"
    /\ Has(PLCT, out)
    /\ PLCT' = PLCdel(PLCT, out)
    /\ mode' = "deleting"
    /\ victim' = out
    /\ unread' = uciget(config)
    /\ \/ staged' = <<>>
       \* an empty list: the loop adds its unset buffer, which may hold a
       \* part of the rule that was just deleted
       \/ /\ uciget(config) = <<>>
          /\ \E cond \in Condition :
                staged' = <<[Rule(out, cond) EXCEPT !.len = 4]>>
    /\ UNCHANGED <<config, overflowed>>

PLCdel_config ==
    /\ mode = "deleting" /\ unread # <<>>
    /\ unread' = Tail(unread)
    /\ staged' = IF IsFor(Head(unread), victim) THEN staged
                 ELSE Append(staged, Head(unread))
    /\ UNCHANGED <<mode, PLCT, config, victim, overflowed>>

(* Mutant of ucicommit: the list keeps the deleted rule.                   *)
ucicommitNothing ==
    /\ mode = "deleting" /\ unread = <<>>
    /\ mode' = "serving"
    /\ staged' = <<>>
    /\ victim' = None
    /\ UNCHANGED <<PLCT, unread, config, overflowed>>

ucicommit ==
    /\ mode = "deleting" /\ unread = <<>>
    /\ mode' = "serving"
    /\ config' = staged
    /\ staged' = <<>>
    /\ victim' = None
    /\ UNCHANGED <<PLCT, unread, overflowed>>

(* PLCexec leaves each rule triggered or armed, as the mesh may be.        *)
PLCexec ==
    /\ mode = "serving"
    /\ \E fired \in SUBSET (1 .. Len(PLCT)) :
          PLCT' = [k \in 1 .. Len(PLCT) |->
                     [rule |-> PLCT[k].rule, triggered |-> k \in fired]]
    /\ UNCHANGED <<mode, unread, config, staged, victim, overflowed>>

Next ==
    \/ Start \/ PLCread_config \/ Serve
    \/ \E out \in Output, cond \in Condition : AddRule(out, cond)
    \/ \E out \in Output : DeleteRule(out)
    \/ PLCdel_config \/ ucicommit
    \/ PLCexec
    \/ Crash

Spec == Init /\ [][Next]_vars

-----------------------------------------------------------------------------
(* "So we are sure no rules duplications" (line 2702): however rules are   *)
(* added, replaced and read back, cut texts included, an output never has  *)
(* two rules, which would drive its relay to and fro.                      *)
OneRulePerOutput ==
    \A i, j \in 1 .. Len(PLCT) :
        /\ IsFor(PLCT[i].rule, PLCT[i].rule.out)
        /\ IsFor(PLCT[j].rule, PLCT[i].rule.out)
        => i = j

(* A PLC message for one output leaves the rules of all others, their      *)
(* order and their triggered flags as they are, wherever PLCdel has moved  *)
(* them: a flag that slips to another rule fires it again or mutes it.     *)
Others(tab, out) == Only(tab, {e \in Entry : ~IsFor(e.rule, out)})

Rules(tab) == [k \in 1 .. Len(tab) |-> tab[k].rule]

OthersUntouched ==
    [][mode = "serving" /\ mode' # "off" /\ Rules(PLCT') # Rules(PLCT)
         => \E out \in Output : Others(PLCT', out) = Others(PLCT, out)]_vars

(* As long as the list fits the buffer, table and configuration speak of   *)
(* the same outputs, and every rule of the table is in the configuration:  *)
(* a restart neither loses an output nor brings a deleted one back.        *)
ConfigCoversTable ==
    mode = "serving" /\ ~overflowed =>
        /\ {PLCT[i].rule.out : i \in 1 .. Len(PLCT)}
             = {config[i].out : i \in 1 .. Len(config)}
        /\ \A i \in 1 .. Len(PLCT) : \E j \in 1 .. Len(config) :
               config[j] = PLCT[i].rule

(* "Maximum of 10 PLC rules is supported" (line 888), and they are read    *)
(* "from the config" at startup (line 215): a restart now would bring the  *)
(* same rules back.                                                        *)
RestartKeepsRules ==
    mode = "serving" =>
        \A i \in 1 .. Len(PLCT) : \E j \in 1 .. Len(uciget(config)) :
            uciget(config)[j] = PLCT[i].rule
=============================================================================
