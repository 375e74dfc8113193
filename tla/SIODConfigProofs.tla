--------------------------- MODULE SIODConfigProofs ---------------------------
(* Theorems about what one SIOD is configured with: the PLC rules, for      *)
(* every set of outputs and conditions, every table size and every buffer   *)
(* size; the settings, for all messages and values; the time range, for     *)
(* every set of ranges and every clock; and the tables of the other SIODs,  *)
(* for all names and numbers.                                               *)
EXTENDS SIODConfig, SublistProofs, FiniteSetTheorems, TLAPS

-----------------------------------------------------------------------------
(* The operators the actions are built from.                               *)

(* A rule is a text, and a text that is cut is a text.                     *)
LEMMA RuleType ==
  ASSUME NEW out \in Output, NEW cond \in Condition
  PROVE  Rule(out, cond) \in Text
  BY DEF Rule, Text, Length

LEMMA ClipType ==
  ASSUME NEW text \in Text, NEW room
  PROVE  Clip(text, room) \in Text
  <1>1. CASE room \in 1 .. text.len
    <2>1. text.len \in 1 .. 30
      BY DEF Text
    <2>2. room \in 1 .. 30
      BY <1>1, <2>1
    <2> QED
      BY <1>1, <2>2 DEF Clip, Text
  <1>2. CASE room \notin 1 .. text.len
    BY <1>2 DEF Clip
  <1> QED
    BY <1>1, <1>2

(* uciget returns texts, no more of them than there are.                   *)
LEMMA UcigetType ==
  ASSUME NEW list \in Seq(Text)
  PROVE  uciget(list) \in Seq(Text)
  <1> DEFINE n == Cardinality(Visible(list))
  <1>1. IsFiniteSet(1 .. Len(list)) /\ Cardinality(1 .. Len(list)) = Len(list)
    <2>1. Len(list) \in Nat
      OBVIOUS
    <2>2. IsFiniteSet(1 .. Len(list))
          /\ Cardinality(1 .. Len(list)) = IF 1 > Len(list) THEN 0 ELSE Len(list) - 1 + 1
      BY <2>1, FS_Interval
    <2> QED
      BY <2>1, <2>2
  <1>2. Visible(list) \in SUBSET (1 .. Len(list))
    BY DEF Visible
  <1>3. IsFiniteSet(Visible(list)) /\ n <= Len(list)
    BY <1>1, <1>2, FS_Subset
  <1>4. n \in Nat
    BY <1>3, FS_CardinalityType
  <1> HIDE DEF n
  <1>5. \A i \in 1 .. n : Clip(list[i], STR_MAX - 1 - Offset(list)[i]) \in Text
    <2> SUFFICES ASSUME NEW i \in 1 .. n
                 PROVE  Clip(list[i], STR_MAX - 1 - Offset(list)[i]) \in Text
      OBVIOUS
    <2>1. list[i] \in Text
      BY <1>3, <1>4
    <2> QED
      BY <2>1, ClipType
  <1>6. uciget(list) = [i \in 1 .. n |-> Clip(list[i], STR_MAX - 1 - Offset(list)[i])]
    BY DEF uciget, n
  <1> QED
    BY <1>4, <1>5, <1>6

(* A table in which every output has one rule, within its bounds.          *)
Unique(tab) ==
    \A i, j \in 1 .. Len(tab) :
        /\ IsFor(tab[i].rule, tab[i].rule.out)
        /\ IsFor(tab[j].rule, tab[i].rule.out)
        => i = j

(* PLCdel returns such a table, no longer than before, without a rule for  *)
(* the output.                                                             *)
LEMMA PLCdelFacts ==
  ASSUME NEW tab \in Seq(Entry), NEW out \in Output
  PROVE  /\ PLCdel(tab, out) \in Seq(Entry)
         /\ Len(PLCdel(tab, out)) <= Len(tab)
         /\ Unique(tab) => /\ Unique(PLCdel(tab, out))
                           /\ ~ \E k \in 1 .. Len(PLCdel(tab, out)) :
                                   IsFor(PLCdel(tab, out)[k].rule, out)
  <1>1. CASE ~Has(tab, out)
    <2>1. PLCdel(tab, out) = tab
      BY <1>1 DEF PLCdel
    <2>2. ASSUME Unique(tab), NEW k \in 1 .. Len(tab), IsFor(tab[k].rule, out)
          PROVE  FALSE
      <3>1. tab[k].rule.out = out
        BY <2>2 DEF IsFor
      <3>2. \A j \in 1 .. k - 1 : ~IsFor(tab[j].rule, out)
        <4> SUFFICES ASSUME NEW j \in 1 .. k - 1, IsFor(tab[j].rule, out) PROVE FALSE
          OBVIOUS
        <4>1. j \in 1 .. Len(tab) /\ j # k
          OBVIOUS
        <4> QED
          BY <2>2, <3>1, <4>1 DEF Unique
      <3>3. FirstFor(tab, out, k)
        BY <2>2, <3>2 DEF FirstFor
      <3> QED
        BY <1>1, <3>3 DEF Has
    <2> QED
      BY <2>1, <2>2
  <1>2. CASE Has(tab, out)
    <2>1. PICK k \in 1 .. Len(tab) :
             FirstFor(tab, out, k) /\ PLCdel(tab, out) = Without(tab, k)
      BY <1>2 DEF PLCdel, Has
    <2> DEFINE new == Without(tab, k)
    <2>2. Len(tab) \in Nat /\ Len(tab) >= 1 /\ k \in Nat
      OBVIOUS
    <2>3. \A j \in 1 .. Len(tab) - 1 : j \in 1 .. Len(tab) /\ j + 1 \in 1 .. Len(tab)
      BY <2>2
    <2>4. new \in Seq(Entry) /\ Len(new) = Len(tab) - 1
      BY <2>2, <2>3 DEF Without
    <2>5. \A j \in 1 .. Len(new) : new[j] = IF j < k THEN tab[j] ELSE tab[j + 1]
      BY <2>4 DEF Without
    <2>6. ASSUME Unique(tab) PROVE Unique(new)
      <3> SUFFICES ASSUME NEW i \in 1 .. Len(new), NEW j \in 1 .. Len(new),
                          IsFor(new[i].rule, new[i].rule.out),
                          IsFor(new[j].rule, new[i].rule.out)
                   PROVE  i = j
        BY DEF Unique
      <3> DEFINE f(m) == IF m < k THEN m ELSE m + 1
      <3>1. f(i) \in 1 .. Len(tab) /\ f(j) \in 1 .. Len(tab)
        BY <2>3, <2>4
      <3>2. new[i] = tab[f(i)] /\ new[j] = tab[f(j)]
        BY <2>5
      <3>3. f(i) = f(j)
        BY <2>6, <3>1, <3>2 DEF Unique
      <3> QED
        BY <3>3, <2>2, <2>4
    <2>7. ASSUME Unique(tab), NEW j \in 1 .. Len(new), IsFor(new[j].rule, out)
          PROVE  FALSE
      <3> DEFINE m == IF j < k THEN j ELSE j + 1
      <3>1. m \in 1 .. Len(tab) /\ new[j] = tab[m] /\ m # k
        BY <2>2, <2>3, <2>4, <2>5
      <3>2. IsFor(tab[k].rule, out) /\ tab[k].rule.out = out
        BY <2>1 DEF FirstFor, IsFor
      <3>3. IsFor(tab[m].rule, out)
        BY <2>7, <3>1
      <3> QED
        BY <2>7, <3>1, <3>2, <3>3 DEF Unique
    <2> QED
      BY <2>1, <2>2, <2>4, <2>6, <2>7
  <1> QED
    BY <1>1, <1>2

(* PLCadd keeps the table within its bounds and its outputs apart.         *)
LEMMA PLCaddFacts ==
  ASSUME NEW tab \in Seq(Entry), Len(tab) <= RULES_MAX, NEW text \in Text
  PROVE  /\ PLCadd(tab, text) \in Seq(Entry)
         /\ Len(PLCadd(tab, text)) <= RULES_MAX
         /\ Unique(tab) => Unique(PLCadd(tab, text))
  <1>1. CASE Len(tab) >= RULES_MAX
    BY <1>1 DEF PLCadd
  <1>2. CASE ~(Len(tab) >= RULES_MAX)
    <2> DEFINE rest == IF text.len >= TRIPLE THEN PLCdel(tab, text.out) ELSE tab
               e    == [rule |-> text, triggered |-> FALSE]
    <2>1. text.out \in Output /\ text.len \in 1 .. 30 /\ e \in Entry
      BY DEF Text, Entry
    <2>2. rest \in Seq(Entry) /\ Len(rest) <= Len(tab)
      BY <2>1, PLCdelFacts
    <2>3. Unique(tab) => Unique(rest)
      BY <2>1, PLCdelFacts
    <2>4. Unique(tab) /\ text.len >= TRIPLE =>
             \A k \in 1 .. Len(rest) : ~IsFor(rest[k].rule, text.out)
      BY <2>1, PLCdelFacts
    <2>5. PLCadd(tab, text) = Append(rest, e)
      BY <1>2 DEF PLCadd
    <2> HIDE DEF rest
    <2>6. Append(rest, e) \in Seq(Entry) /\ Len(Append(rest, e)) = Len(rest) + 1
      BY <2>1, <2>2
    <2>7. Len(Append(rest, e)) <= RULES_MAX
      BY <1>2, <2>2, <2>6, TableAssumption
    <2>8. ASSUME Unique(tab) PROVE Unique(Append(rest, e))
      <3> DEFINE new == Append(rest, e)
      <3> SUFFICES ASSUME NEW i \in 1 .. Len(new), NEW j \in 1 .. Len(new),
                          IsFor(new[i].rule, new[i].rule.out),
                          IsFor(new[j].rule, new[i].rule.out)
                   PROVE  i = j
        BY DEF Unique
      <3>1. \A m \in 1 .. Len(new) :
               \/ m \in 1 .. Len(rest) /\ new[m] = rest[m]
               \/ m = Len(rest) + 1 /\ new[m] = e
        BY <2>1, <2>2, <2>6
      <3>2. new[i].rule.out = new[j].rule.out /\ IsFor(new[j].rule, new[j].rule.out)
            /\ IsFor(new[i].rule, new[j].rule.out)
        BY DEF IsFor
      <3>3. CASE i \in 1 .. Len(rest) /\ j \in 1 .. Len(rest)
                 /\ new[i] = rest[i] /\ new[j] = rest[j]
        BY <2>3, <2>8, <3>3 DEF Unique
      <3>4. CASE i \in 1 .. Len(rest) /\ new[i] = rest[i]
                 /\ j = Len(rest) + 1 /\ new[j] = e
        <4>1. text.len >= TRIPLE /\ IsFor(rest[i].rule, text.out)
          BY <3>2, <3>4 DEF IsFor
        <4> QED
          BY <2>4, <2>8, <3>4, <4>1
      <3>5. CASE j \in 1 .. Len(rest) /\ new[j] = rest[j]
                 /\ i = Len(rest) + 1 /\ new[i] = e
        <4>1. text.len >= TRIPLE /\ IsFor(rest[j].rule, text.out)
          BY <3>2, <3>5 DEF IsFor
        <4> QED
          BY <2>4, <2>8, <3>5, <4>1
      <3>6. CASE i = Len(rest) + 1 /\ j = Len(rest) + 1
        BY <3>6
      <3> QED
        BY <3>1, <3>3, <3>4, <3>5, <3>6
    <2> QED
      BY <2>5, <2>6, <2>7, <2>8
  <1> QED
    BY <1>1, <1>2

-----------------------------------------------------------------------------
(* The inductive invariant: the type and the uniqueness of the outputs.    *)
Table == TypeOK /\ Unique(PLCT)

(* The table is empty at first.                                            *)
LEMMA TableInit == Init => Table
  <1> SUFFICES ASSUME Init PROVE Table
    OBVIOUS
  <1>1. Len(PLCT) = 0
    BY DEF Init
  <1>2. TypeOK
    <2>1. PLCT \in Seq(Entry)
      BY DEF Init
    <2>2. unread \in Seq(Text) /\ config \in Seq(Text) /\ staged \in Seq(Text)
      BY DEF Init
    <2>3. Len(PLCT) <= RULES_MAX
      BY <1>1, TableAssumption
    <2>4. /\ mode \in {"off", "reading", "serving", "deleting"}
          /\ victim \in Output \cup {None}
          /\ overflowed \in BOOLEAN
      BY DEF Init
    <2> QED
      BY <2>1, <2>2, <2>3, <2>4 DEF TypeOK
  <1>3. Unique(PLCT)
    BY <1>1 DEF Unique
  <1> QED
    BY <1>2, <1>3 DEF Table

(* Every step of the program keeps types and outputs.                      *)
LEMMA TableStep == Table /\ [Next]_vars => Table'
  <1> SUFFICES ASSUME Table, [Next]_vars PROVE Table'
    OBVIOUS
  <1> USE DEF Table
  <1>1. CASE Start
    BY <1>1, UcigetType DEF Start, TypeOK
  <1>2. CASE PLCread_config
    <2>1. Head(unread) \in Text /\ Tail(unread) \in Seq(Text)
      BY <1>2 DEF PLCread_config, TypeOK
    <2>2. CASE PLCT' = PLCT
      BY <1>2, <2>1, <2>2 DEF PLCread_config, TypeOK
    <2>3. CASE PLCT' = PLCadd(PLCT, Head(unread))
      BY <1>2, <2>1, <2>3, PLCaddFacts DEF PLCread_config, TypeOK
    <2> QED
      BY <1>2, <2>2, <2>3 DEF PLCread_config
  <1>3. CASE Serve
    BY <1>3 DEF Serve, TypeOK
  <1>4. ASSUME NEW out \in Output, NEW cond \in Condition, AddRule(out, cond)
        PROVE  Table'
    <2>1. Rule(out, cond) \in Text
      BY RuleType
    <2>2. PLCT' \in Seq(Entry) /\ Len(PLCT') <= RULES_MAX /\ Unique(PLCT')
      BY <1>4, <2>1, PLCaddFacts DEF AddRule, TypeOK
    <2>3. config' \in Seq(Text)
      BY <1>4, <2>1 DEF AddRule, TypeOK
    <2>4. overflowed' \in BOOLEAN
      BY <1>4 DEF AddRule, TypeOK, Overflows
    <2> QED
      BY <1>4, <2>2, <2>3, <2>4 DEF AddRule, TypeOK
  <1>5. ASSUME NEW out \in Output, DeleteRule(out) PROVE Table'
    <2>1. PLCT' \in Seq(Entry) /\ Len(PLCT') <= RULES_MAX /\ Unique(PLCT')
      <3>1. /\ PLCdel(PLCT, out) \in Seq(Entry)
            /\ Len(PLCdel(PLCT, out)) <= Len(PLCT)
            /\ Unique(PLCdel(PLCT, out))
        BY PLCdelFacts DEF TypeOK
      <3>2. Len(PLCdel(PLCT, out)) \in Nat /\ Len(PLCT) \in Nat
        BY <3>1 DEF TypeOK
      <3> QED
        BY <1>5, <3>1, <3>2, TableAssumption DEF DeleteRule, TypeOK
    <2>2. unread' \in Seq(Text)
      BY <1>5, UcigetType DEF DeleteRule, TypeOK
    <2>3. staged' \in Seq(Text)
      <3>1. \A cond \in Condition : [Rule(out, cond) EXCEPT !.len = 4] \in Text
        BY RuleType DEF Text
      <3>2. CASE staged' = <<>>
        BY <3>2
      <3>3. CASE staged' # <<>>
        <4>1. PICK cond \in Condition :
                 staged' = <<[Rule(out, cond) EXCEPT !.len = 4]>>
          BY <1>5, <3>3 DEF DeleteRule
        <4> QED
          BY <3>1, <4>1
      <3> QED
        BY <3>2, <3>3
    <2> QED
      BY <1>5, <2>1, <2>2, <2>3 DEF DeleteRule, TypeOK
  <1>6. CASE PLCdel_config
    <2>1. Head(unread) \in Text /\ Tail(unread) \in Seq(Text)
      BY <1>6 DEF PLCdel_config, TypeOK
    <2> QED
      BY <1>6, <2>1 DEF PLCdel_config, TypeOK
  <1>7. CASE ucicommit
    BY <1>7 DEF ucicommit, TypeOK
  <1>8. CASE PLCexec
    <2>1. PICK fired \in SUBSET (1 .. Len(PLCT)) :
             PLCT' = [k \in 1 .. Len(PLCT) |->
                        [rule |-> PLCT[k].rule, triggered |-> k \in fired]]
      BY <1>8 DEF PLCexec
    <2>2. Len(PLCT) \in Nat /\ \A k \in 1 .. Len(PLCT) : PLCT[k].rule \in Text
      <3>1. PLCT \in Seq(Entry)
        BY DEF TypeOK
      <3>2. Len(PLCT) \in Nat /\ \A k \in 1 .. Len(PLCT) : PLCT[k] \in Entry
        BY <3>1
      <3> QED
        BY <3>2 DEF Entry
    <2>3. PLCT' \in Seq(Entry) /\ Len(PLCT') = Len(PLCT)
      BY <2>1, <2>2 DEF Entry
    <2>4. \A k \in 1 .. Len(PLCT) : PLCT'[k].rule = PLCT[k].rule
      BY <2>1
    <2>5. Unique(PLCT')
      BY <2>3, <2>4 DEF Unique
    <2> QED
      BY <1>8, <2>3, <2>5 DEF PLCexec, TypeOK
  <1>9. CASE Crash
    BY <1>9, TableAssumption DEF Crash, TypeOK, Unique
  <1>10. CASE UNCHANGED vars
    BY <1>10 DEF vars, TypeOK
  <1> QED
    BY <1>1, <1>2, <1>3, <1>4, <1>5, <1>6, <1>7, <1>8, <1>9, <1>10 DEF Next

(* Every reachable state has its type; the table stays within RULES_MAX.   *)
THEOREM Typing == Spec => []TypeOK
  <1>1. Table => TypeOK
    BY DEF Table
  <1> QED
    BY TableInit, TableStep, <1>1, PTL DEF Spec

(* However rules are added, replaced, deleted, cut off and read back, no   *)
(* output ever has two rules in the table.                                 *)
THEOREM OneRule == Spec => []OneRulePerOutput
  <1>1. Table => OneRulePerOutput
    BY DEF Table, Unique, OneRulePerOutput
  <1> QED
    BY TableInit, TableStep, <1>1, PTL DEF Spec


-----------------------------------------------------------------------------
(* The list of the configuration, as uciget sees it.  at[i] is where the    *)
(* text i begins, and the one after the last is the length of the list.     *)
OffsetsOf(at, list) ==
    /\ at \in [1 .. Len(list) + 1 -> Nat]
    /\ at[1] = 0
    /\ \A i \in 1 .. Len(list) : at[i + 1] = at[i] + list[i].len + 1

Total(list) == Offset(list)[Len(list) + 1]

(* A text has a length.                                                     *)
LEMMA TextLength ==
  ASSUME NEW text \in Text
  PROVE  text.len \in 1 .. 30 /\ text.len \in Nat /\ text.len >= 1
  <1>1. text.len \in 1 .. 30
    BY DEF Text
  <1>2. \A l \in 1 .. 30 : l \in Nat /\ l >= 1
    OBVIOUS
  <1> QED
    BY <1>1, <1>2

(* Offset is such a function.                                               *)
LEMMA OffsetFacts ==
  ASSUME NEW list \in Seq(Text)
  PROVE  OffsetsOf(Offset(list), list)
  <1>1. PICK N \in Nat : N = Len(list)
    OBVIOUS
  <1>2. \A i \in 1 .. N : list[i].len \in Nat
    <2>1. \A i \in 1 .. N : list[i] \in Text
      BY <1>1
    <2> QED
      BY <2>1, TextLength
  <1> DEFINE step == [p \in (1 .. N) \X Nat |-> p[2] + list[p[1]].len + 1]
             Body(a) == [i \in 1 .. N + 1 |-> IF i = 1 THEN 0 ELSE a[i - 1] + list[i - 1].len + 1]
             at == CHOOSE a : a = Body(a)
  <1>3. step \in [(1 .. N) \X Nat -> Nat]
    BY <1>2
  <1>4. PICK f \in [0 .. N -> Nat] : f[0] = 0 /\ \A i \in 1 .. N : f[i] = step[<<i, f[i - 1]>>]
    <2>1. HasRecursive(Nat, N, 0, step)
      <3>1. 0 \in Nat
        OBVIOUS
      <3> HIDE DEF step
      <3> QED
        BY <1>3, <3>1, Recursion
    <2> HIDE DEF step
    <2> QED
      BY <2>1 DEF HasRecursive, Recursive
  <1>5. \A i \in 1 .. N : f[i] = f[i - 1] + list[i].len + 1
    <2> SUFFICES ASSUME NEW i \in 1 .. N PROVE f[i] = f[i - 1] + list[i].len + 1
      OBVIOUS
    <2>1. i - 1 \in 0 .. N
      OBVIOUS
    <2>2. f[i - 1] \in Nat
      BY <2>1
    <2>3. <<i, f[i - 1]>> \in (1 .. N) \X Nat
      BY <2>2
    <2> QED
      BY <1>4, <2>3
  <1>6. PICK g : g = [i \in 1 .. N + 1 |-> f[i - 1]]
    OBVIOUS
  <1>7. g = Body(g)
    <2>1. ASSUME NEW i \in 1 .. N + 1 PROVE g[i] = Body(g)[i]
      <3>1. CASE i = 1
        BY <1>4, <1>6, <3>1
      <3>2. CASE i # 1
        <4>1. PICK j \in 1 .. N : j = i - 1
          BY <3>2
        <4>2. g[i] = f[j] /\ g[i - 1] = f[j - 1] /\ f[j] = f[j - 1] + list[j].len + 1
          <5>1. i - 1 \in 1 .. N + 1
            BY <4>1
          <5> QED
            BY <1>5, <1>6, <4>1, <5>1
        <4>3. Body(g)[i] = g[i - 1] + list[i - 1].len + 1
          BY <3>2
        <4> HIDE DEF Body
        <4> QED
          BY <4>1, <4>2, <4>3
      <3> QED
        BY <3>1, <3>2
    <2>2. g = [i \in 1 .. N + 1 |-> g[i]]
      BY <1>6
    <2>3. Body(g) = [i \in 1 .. N + 1 |-> Body(g)[i]]
      OBVIOUS
    <2> HIDE DEF Body
    <2> QED
      BY <2>1, <2>2, <2>3
  <1>8. at = Body(at)
    <2> HIDE DEF Body
    <2> QED
      BY <1>7
  <1>9. Offset(list) = at
    BY <1>1 DEF Offset
  <1> HIDE DEF at
  <1>10. \A i \in 1 .. N + 1 : at[i] = IF i = 1 THEN 0 ELSE at[i - 1] + list[i - 1].len + 1
    <2>1. \A i \in 1 .. N + 1 : at[i] = Body(at)[i]
      BY <1>8
    <2> QED
      BY <2>1
  <1>11. at[1] = 0 /\ \A i \in 1 .. N : at[i + 1] = at[i] + list[i].len + 1
    <2>1. at[1] = 0
      <3>1. 1 \in 1 .. N + 1
        OBVIOUS
      <3> QED
        BY <1>10, <3>1
    <2>2. ASSUME NEW i \in 1 .. N PROVE at[i + 1] = at[i] + list[i].len + 1
      <3>1. i + 1 \in 1 .. N + 1 /\ i + 1 # 1 /\ i + 1 - 1 = i
        OBVIOUS
      <3>2. at[i + 1] = at[i + 1 - 1] + list[i + 1 - 1].len + 1
        BY <1>10, <3>1
      <3> QED
        BY <3>1, <3>2
    <2> QED
      BY <2>1, <2>2
  <1>12. \A m \in 0 .. N : at[m + 1] = f[m]
    <2> DEFINE Bad == {m \in 0 .. N : at[m + 1] # f[m]}
    <2> SUFFICES ASSUME Bad # {} PROVE FALSE
      OBVIOUS
    <2>1. Bad \in SUBSET Nat
      OBVIOUS
    <2>2. PICK m \in Bad : \A k \in Bad : m <= k
      <3> HIDE DEF Bad
      <3> QED
        BY <2>1, LeastNatural
    <2>3. m # 0
      BY <1>4, <1>11, <2>2
    <2>4. m \in 1 .. N /\ m - 1 \in 0 .. N /\ ~ (m <= m - 1) /\ m - 1 + 1 = m
      BY <2>2, <2>3
    <2>5. at[m] = f[m - 1]
      BY <2>2, <2>4
    <2> QED
      BY <1>5, <1>11, <2>2, <2>4, <2>5
  <1>13. at \in [1 .. N + 1 -> Nat]
    <2>1. ASSUME NEW i \in 1 .. N + 1 PROVE at[i] \in Nat
      <3>1. i - 1 \in 0 .. N /\ i - 1 + 1 = i
        OBVIOUS
      <3> QED
        BY <1>12, <3>1
    <2>2. at = [i \in 1 .. N + 1 |-> at[i]]
      <3>1. at = Body(at)
        BY <1>8
      <3> QED
        BY <3>1
    <2> QED
      BY <2>1, <2>2
  <1> QED
    BY <1>1, <1>9, <1>11, <1>13 DEF OffsetsOf

(* So a list has a length.                                                  *)
LEMMA TotalNat ==
  ASSUME NEW list \in Seq(Text)
  PROVE  Total(list) \in Nat
  <1>1. Len(list) + 1 \in 1 .. Len(list) + 1
    OBVIOUS
  <1> QED
    BY <1>1, OffsetFacts DEF Total, OffsetsOf

(* The offsets of two lists that begin alike are alike so far.              *)
LEMMA SameOffsets ==
  ASSUME NEW list \in Seq(Text), NEW long \in Seq(Text), Len(list) <= Len(long),
         \A i \in 1 .. Len(list) : long[i] = list[i]
  PROVE  \A i \in 1 .. Len(list) + 1 : Offset(long)[i] = Offset(list)[i]
  <1>1. PICK N \in Nat, M \in Nat : N = Len(list) /\ M = Len(long) /\ N <= M
    OBVIOUS
  <1>2. PICK a, b : a = Offset(list) /\ b = Offset(long)
    OBVIOUS
  <1>3. a[1] = 0 /\ b[1] = 0 /\ \A i \in 1 .. N : /\ a[i + 1] = a[i] + list[i].len + 1
                                                 /\ b[i + 1] = b[i] + list[i].len + 1
    <2>1. \A i \in 1 .. N : i \in 1 .. M
      BY <1>1
    <2> QED
      BY <1>1, <1>2, <2>1, OffsetFacts DEF OffsetsOf
  <1>4. \A i \in 1 .. N + 1 : b[i] = a[i]
    <2> DEFINE Bad == {i \in 1 .. N + 1 : b[i] # a[i]}
    <2> SUFFICES ASSUME Bad # {} PROVE FALSE
      OBVIOUS
    <2>1. Bad \in SUBSET Nat
      OBVIOUS
    <2>2. PICK m \in Bad : \A k \in Bad : m <= k
      <3> HIDE DEF Bad
      <3> QED
        BY <2>1, LeastNatural
    <2>3. m # 1
      BY <1>3, <2>2
    <2>4. m - 1 \in 1 .. N /\ m - 1 \in 1 .. N + 1 /\ ~ (m <= m - 1) /\ m - 1 + 1 = m
      BY <2>2, <2>3
    <2>5. b[m - 1] = a[m - 1]
      BY <2>2, <2>4
    <2>6. a[m] = a[m - 1] + list[m - 1].len + 1 /\ b[m] = b[m - 1] + list[m - 1].len + 1
      BY <1>3, <2>4
    <2> QED
      BY <2>2, <2>5, <2>6
  <1> QED
    BY <1>1, <1>2, <1>4

(* The length of a list that has one text more.                             *)
LEMMA TotalAppend ==
  ASSUME NEW list \in Seq(Text), NEW text \in Text
  PROVE  Total(Append(list, text)) = Total(list) + text.len + 1
  <1>1. PICK long \in Seq(Text) : long = Append(list, text)
    <2>1. Append(list, text) \in Seq(Text)
      OBVIOUS
    <2> QED
      BY <2>1
  <1>2. PICK N \in Nat : N = Len(list)
    OBVIOUS
  <1>3. Len(long) = N + 1 /\ long[N + 1] = text /\ \A i \in 1 .. N : long[i] = list[i]
    BY <1>1, <1>2
  <1>4. N + 1 \in 1 .. N + 1 /\ N <= N + 1
    OBVIOUS
  <1>5. Offset(long)[N + 1] = Offset(list)[N + 1]
    BY <1>2, <1>3, <1>4, SameOffsets
  <1>6. Offset(long)[N + 1 + 1] = Offset(long)[N + 1] + text.len + 1
    BY <1>3, <1>4, OffsetFacts DEF OffsetsOf
  <1> QED
    BY <1>1, <1>2, <1>3, <1>5, <1>6 DEF Total

(* And of one that has lost its first.                                      *)
LEMMA TotalTail ==
  ASSUME NEW list \in Seq(Text), list # <<>>
  PROVE  Total(list) = Head(list).len + 1 + Total(Tail(list))
  <1>1. PICK rest \in Seq(Text) : rest = Tail(list)
    <2>1. Tail(list) \in Seq(Text)
      OBVIOUS
    <2> QED
      BY <2>1
  <1>2. PICK N \in Nat : N = Len(rest)
    OBVIOUS
  <1>3. /\ Len(list) = N + 1 /\ Head(list) = list[1] /\ list[1] \in Text
        /\ \A i \in 1 .. N : rest[i] = list[i + 1]
    BY <1>1, <1>2
  <1>9. list[1].len \in Nat /\ list[1].len + 1 \in Nat
    BY <1>3, TextLength
  <1>4. PICK a, b, h : a = Offset(list) /\ b = Offset(rest) /\ h = list[1].len + 1 /\ h \in Nat
    BY <1>9
  <1>5. /\ a[1] = 0 /\ b[1] = 0 /\ b \in [1 .. N + 1 -> Nat]
        /\ \A i \in 1 .. N + 1 : a[i + 1] = a[i] + list[i].len + 1
        /\ \A i \in 1 .. N : b[i + 1] = b[i] + rest[i].len + 1
    BY <1>2, <1>3, <1>4, OffsetFacts DEF OffsetsOf
  <1>6. \A i \in 1 .. N + 1 : a[i + 1] = h + b[i]
    <2> DEFINE Bad == {i \in 1 .. N + 1 : a[i + 1] # h + b[i]}
    <2> SUFFICES ASSUME Bad # {} PROVE FALSE
      OBVIOUS
    <2>1. Bad \in SUBSET Nat
      OBVIOUS
    <2>2. PICK m \in Bad : \A k \in Bad : m <= k
      <3> HIDE DEF Bad
      <3> QED
        BY <2>1, LeastNatural
    <2>3. m # 1
      <3>1. a[1 + 1] = a[1] + list[1].len + 1
        BY <1>5
      <3>2. a[1 + 1] = h + b[1]
        BY <1>4, <1>5, <1>9, <3>1
      <3> QED
        BY <2>2, <3>2
    <2>4. PICK j \in 1 .. N : j = m - 1
      BY <2>2, <2>3
    <2>5. j \in 1 .. N + 1 /\ ~ (m <= j) /\ j + 1 = m /\ j + 1 \in 1 .. N + 1
      BY <2>2, <2>4
    <2>6. a[j + 1] = h + b[j]
      BY <2>2, <2>5
    <2>7. a[j + 1 + 1] = a[j + 1] + list[j + 1].len + 1 /\ b[j + 1] = b[j] + rest[j].len + 1
      BY <1>5, <2>5
    <2>8. rest[j] = list[j + 1] /\ rest[j].len \in Nat /\ b[j] \in Nat
      <3>1. rest[j] = list[j + 1] /\ rest[j] \in Text
        BY <1>2, <1>3
      <3> QED
        BY <1>5, <2>5, <3>1, TextLength
    <2>9. a[m + 1] = h + b[m]
      <3>1. PICK l \in Nat : l = rest[j].len
        BY <2>8
      <3>2. a[m + 1] = a[m] + l + 1 /\ b[m] = b[j] + l + 1 /\ a[m] = h + b[j]
        BY <2>5, <2>6, <2>7, <2>8, <3>1
      <3>3. PICK x \in Nat, y \in Nat : x = b[j] /\ y = h
        BY <1>4, <2>8
      <3>4. a[m + 1] = y + x + l + 1 /\ b[m] = x + l + 1
        BY <3>2, <3>3
      <3>5. y + x + l + 1 = y + (x + l + 1)
        OBVIOUS
      <3> QED
        BY <3>3, <3>4, <3>5
    <2> QED
      BY <2>2, <2>9
  <1>7. N + 1 \in 1 .. N + 1
    OBVIOUS
  <1>8. a[N + 1 + 1] = h + b[N + 1]
    BY <1>6, <1>7
  <1> QED
    BY <1>1, <1>2, <1>3, <1>4, <1>8 DEF Total

(* The empty list has no length.                                            *)
LEMMA TotalNothing == Total(<<>>) = 0
  <1>1. PICK list : list = <<>>
    OBVIOUS
  <1>2. list \in Seq(Text) /\ Len(list) = 0
    BY <1>1
  <1>3. Offset(list)[1] = 0
    BY <1>2, OffsetFacts DEF OffsetsOf
  <1>4. Total(list) = 0
    BY <1>2, <1>3 DEF Total
  <1> QED
    BY <1>1, <1>4


(* A list that fits is read whole.                                          *)
LEMMA UcigetWhole ==
  ASSUME NEW list \in Seq(Text), Total(list) <= STR_MAX
  PROVE  uciget(list) = list
  <1>1. PICK N \in Nat : N = Len(list)
    OBVIOUS
  <1>2. PICK at : at = Offset(list)
    OBVIOUS
  <1>3. /\ at \in [1 .. N + 1 -> Nat] /\ at[N + 1] <= STR_MAX
        /\ \A i \in 1 .. N : /\ at[i + 1] = at[i] + list[i].len + 1
                             /\ list[i] \in Text /\ list[i].len \in Nat /\ list[i].len >= 1
    <2>1. OffsetsOf(at, list)
      BY <1>2, OffsetFacts
    <2>2. \A i \in 1 .. N : list[i] \in Text
      BY <1>1
    <2>4. at \in [1 .. N + 1 -> Nat] /\ at[N + 1] <= STR_MAX
      BY <1>1, <1>2, <2>1 DEF OffsetsOf, Total
    <2>5. \A i \in 1 .. N : at[i + 1] = at[i] + list[i].len + 1
      BY <1>1, <2>1 DEF OffsetsOf
    <2>6. ASSUME NEW i \in 1 .. N PROVE list[i].len \in Nat /\ list[i].len >= 1
      <3>1. list[i] \in Text
        BY <2>2
      <3> QED
        BY <3>1, TextLength
    <2> QED
      BY <2>2, <2>4, <2>5, <2>6
  <1>4. \A i \in 1 .. N : at[i + 1] <= STR_MAX
    <2> DEFINE Bad == {k \in 0 .. N : ~ (at[N + 1 - k] <= STR_MAX)}
    <2>1. Bad = {}
      <3> SUFFICES ASSUME Bad # {} PROVE FALSE
        OBVIOUS
      <3>1. Bad \in SUBSET Nat
        OBVIOUS
      <3>2. PICK m \in Bad : \A k \in Bad : m <= k
        <4> HIDE DEF Bad
        <4> QED
          BY <3>1, LeastNatural
      <3>3. m # 0
        BY <1>3, <3>2
      <3>4. PICK i \in 1 .. N : i = N + 1 - m
        BY <3>2, <3>3
      <3>5. m - 1 \in 0 .. N /\ ~ (m <= m - 1) /\ N + 1 - (m - 1) = i + 1
        BY <3>2, <3>3, <3>4
      <3>6. at[i + 1] <= STR_MAX
        BY <3>2, <3>5
      <3>7. at[i] \in Nat /\ at[i + 1] \in Nat
        BY <1>3
      <3>8. at[i] <= STR_MAX
        <4>1. PICK x \in Nat, y \in Nat, l \in Nat : x = at[i] /\ y = at[i + 1] /\ l = list[i].len
          BY <1>3, <3>7
        <4>2. y = x + l + 1 /\ y <= STR_MAX
          BY <1>3, <3>6, <4>1
        <4> QED
          BY <4>1, <4>2, TableAssumption
      <3> QED
        BY <3>2, <3>4, <3>8
    <2>2. ASSUME NEW i \in 1 .. N PROVE at[i + 1] <= STR_MAX
      <3>1. N - i \in 0 .. N /\ N + 1 - (N - i) = i + 1
        OBVIOUS
      <3> QED
        BY <2>1, <3>1
    <2> QED
      BY <2>2
  <1>5. ASSUME NEW i \in 1 .. N
        PROVE  at[i] < STR_MAX - 1 /\ Clip(list[i], STR_MAX - 1 - at[i]) = list[i]
    <2>0. at[i] \in Nat /\ list[i].len \in Nat /\ list[i].len >= 1
      <3>1. i \in 1 .. N + 1
        OBVIOUS
      <3> QED
        BY <1>3, <3>1
    <2>1. PICK l \in Nat, a \in Nat : l = list[i].len /\ a = at[i] /\ l >= 1
      BY <2>0
    <2>2. a + l + 1 <= STR_MAX
      BY <1>3, <1>4, <2>1
    <2>3. PICK room : room = STR_MAX - 1 - a
      OBVIOUS
    <2>4. room \in Int /\ room >= l /\ a < STR_MAX - 1
      <3>1. PICK max \in Nat : max = STR_MAX
        BY TableAssumption
      <3>2. a + l + 1 <= max /\ room = max - 1 - a
        BY <2>2, <2>3, <3>1
      <3>3. l \in Nat /\ l >= 1
        BY <2>1
      <3>4. room \in Int
        BY <3>2
      <3>5. room >= l
        BY <3>2, <3>3
      <3>6. a < max - 1
        BY <3>2, <3>3
      <3> QED
        BY <3>1, <3>4, <3>5, <3>6
    <2>5. CASE room \in 1 .. l
      <3>1. room = l
        BY <2>1, <2>4, <2>5
      <3>2. [list[i] EXCEPT !.len = l] = list[i]
        BY <1>3, <2>1 DEF Text
      <3> QED
        BY <2>1, <2>3, <2>4, <2>5, <3>1, <3>2 DEF Clip
    <2>6. CASE room \notin 1 .. l
      BY <2>1, <2>3, <2>4, <2>6 DEF Clip
    <2> QED
      BY <2>5, <2>6
  <1>6. Visible(list) = 1 .. N
    BY <1>1, <1>2, <1>5 DEF Visible
  <1>7. Cardinality(Visible(list)) = N
    <2>1. Cardinality(1 .. N) = IF 1 > N THEN 0 ELSE N - 1 + 1
      BY FS_Interval
    <2> QED
      BY <1>6, <2>1
  <1>8. uciget(list) = [i \in 1 .. N |-> Clip(list[i], STR_MAX - 1 - Offset(list)[i])]
    BY <1>7 DEF uciget
  <1>9. uciget(list) = [i \in 1 .. N |-> list[i]]
    BY <1>2, <1>5, <1>8
  <1> QED
    BY <1>1, <1>9

-----------------------------------------------------------------------------
(* The rules of the others.                                                 *)
OthersOf(out) == {e \in Entry : ~IsFor(e.rule, out)}

(* PLCdel leaves the rules of the other outputs as they were.               *)
LEMMA PLCdelOthers ==
  ASSUME NEW tab \in Seq(Entry), NEW out \in Output
  PROVE  Others(PLCdel(tab, out), out) = Others(tab, out)
  <1>1. CASE ~Has(tab, out)
    BY <1>1 DEF PLCdel
  <1>2. CASE Has(tab, out)
    <2>1. PICK k \in 1 .. Len(tab) :
             FirstFor(tab, out, k) /\ PLCdel(tab, out) = Without(tab, k)
      BY <1>2 DEF PLCdel, Has
    <2>2. PICK new : new = Without(tab, k)
      OBVIOUS
    <2>3. Len(tab) \in Nat /\ Len(tab) >= 1 /\ k \in Nat
      OBVIOUS
    <2>4. \A j \in 1 .. Len(tab) - 1 : j \in 1 .. Len(tab) /\ j + 1 \in 1 .. Len(tab)
      BY <2>3
    <2>5. new \in Seq(Entry) /\ Len(new) = Len(tab) - 1
      BY <2>2, <2>3, <2>4 DEF Without
    <2>6. \A j \in 1 .. Len(new) : new[j] = IF j < k THEN tab[j] ELSE tab[j + 1]
      BY <2>2, <2>5 DEF Without
    <2>7. tab[k] \notin OthersOf(out)
      BY <2>1 DEF FirstFor, OthersOf
    <2>8. Skips(new, tab, k)
      BY <2>5, <2>6 DEF Skips
    <2>9. Only(new, OthersOf(out)) = Only(tab, OthersOf(out))
      BY <2>5, <2>7, <2>8, OnlySkips
    <2> QED
      BY <2>1, <2>2, <2>9 DEF Others, OthersOf
  <1> QED
    BY <1>1, <1>2

(* So does PLCadd, when it adds a whole rule.                               *)
LEMMA PLCaddOthers ==
  ASSUME NEW tab \in Seq(Entry), NEW text \in Text, text.len >= TRIPLE
  PROVE  Others(PLCadd(tab, text), text.out) = Others(tab, text.out)
  <1>1. CASE Len(tab) >= RULES_MAX
    BY <1>1 DEF PLCadd
  <1>2. CASE ~(Len(tab) >= RULES_MAX)
    <2>1. PICK rest, e : rest = PLCdel(tab, text.out) /\ e = [rule |-> text, triggered |-> FALSE]
      OBVIOUS
    <2>2. text.out \in Output /\ e \in Entry /\ e.rule = text
      BY <2>1 DEF Text, Entry
    <2>3. rest \in Seq(Entry) /\ Others(rest, text.out) = Others(tab, text.out)
      BY <2>1, <2>2, PLCdelFacts, PLCdelOthers
    <2>4. e \notin OthersOf(text.out)
      BY <2>2 DEF OthersOf, IsFor
    <2>5. Only(Append(rest, e), OthersOf(text.out)) = Only(rest, OthersOf(text.out))
      BY <2>2, <2>3, <2>4, OnlyAppend
    <2>6. PLCadd(tab, text) = Append(rest, e)
      BY <1>2, <2>1 DEF PLCadd
    <2> QED
      BY <2>3, <2>5, <2>6 DEF Others, OthersOf
  <1> QED
    BY <1>1, <1>2

(* A rule is long enough to be known by its output.                         *)
LEMMA RuleWhole ==
  ASSUME NEW out \in Output, NEW cond \in Condition
  PROVE  Rule(out, cond).out = out /\ Rule(out, cond).len >= TRIPLE
  BY DEF Rule, Length, TRIPLE

(* Only AddRule and DeleteRule change rules, and each of one output.        *)
LEMMA NextOthers ==
  ASSUME TypeOK, [Next]_vars, mode = "serving", mode' # "off", Rules(PLCT') # Rules(PLCT)
  PROVE  \E out \in Output : Others(PLCT', out) = Others(PLCT, out)
  <1>1. PLCT \in Seq(Entry)
    BY DEF TypeOK
  <1>2. ASSUME NEW out \in Output, NEW cond \in Condition, AddRule(out, cond)
        PROVE  Others(PLCT', out) = Others(PLCT, out)
    <2>1. Rule(out, cond) \in Text /\ Rule(out, cond).out = out /\ Rule(out, cond).len >= TRIPLE
      BY RuleType, RuleWhole
    <2>2. PLCT' = PLCadd(PLCT, Rule(out, cond))
      BY <1>2 DEF AddRule
    <2> QED
      BY <1>1, <2>1, <2>2, PLCaddOthers
  <1>3. ASSUME NEW out \in Output, DeleteRule(out)
        PROVE  Others(PLCT', out) = Others(PLCT, out)
    BY <1>1, <1>3, PLCdelOthers DEF DeleteRule
  <1>4. CASE PLCexec
    <2>1. PICK fired \in SUBSET (1 .. Len(PLCT)) :
             PLCT' = [k \in 1 .. Len(PLCT) |->
                        [rule |-> PLCT[k].rule, triggered |-> k \in fired]]
      BY <1>4 DEF PLCexec
    <2>2. PICK n \in Nat : n = Len(PLCT)
      BY <1>1
    <2>3. PICK tab : tab = PLCT'
      OBVIOUS
    <2>4. tab = [k \in 1 .. n |-> [rule |-> PLCT[k].rule, triggered |-> k \in fired]]
      BY <2>1, <2>2, <2>3
    <2>5. Len(tab) = n
      BY <2>4
    <2>6. \A k \in 1 .. n : tab[k].rule = PLCT[k].rule
      BY <2>4
    <2>7. Rules(tab) = Rules(PLCT)
      BY <2>2, <2>5, <2>6 DEF Rules
    <2> QED
      BY <2>3, <2>7
  <1> QED
    BY <1>2, <1>3, <1>4 DEF Next, vars, Start, PLCread_config, Serve, PLCdel_config, ucicommit,
       Crash

(* socket_io.c, PLC: a message for one output leaves the rules of all       *)
(* others, their order and their flags as they are, for every table.        *)
THEOREM OthersStay == Spec => OthersUntouched
  <1>1. Table /\ [Next]_vars =>
          [mode = "serving" /\ mode' # "off" /\ Rules(PLCT') # Rules(PLCT)
             => \E out \in Output : Others(PLCT', out) = Others(PLCT, out)]_vars
    BY NextOthers DEF Table
  <1> QED
    BY TableInit, TableStep, <1>1, PTL DEF Spec, OthersUntouched


-----------------------------------------------------------------------------
(* The table and the configuration.  The texts of a list are whole; a list  *)
(* or a table has something for an output.                                  *)
Full(list)         == \A t : Occurs(list, t) => t.len = Length(t.cond)
Speaks(list, out)  == \E t : Occurs(list, t) /\ t.out = out
HasRule(tab, out)  == \E e : Occurs(tab, e) /\ e.rule.out = out
Within(list, long) == \A t : Occurs(list, t) => Occurs(long, t)
OutputsOf(list)    == {out \in Output : Speaks(list, out)}
RuledBy(tab)       == {out \in Output : HasRule(tab, out)}
Listed(tab, list)  == \A e : Occurs(tab, e) => Occurs(list, e.rule)

(* The list fits, has room in the table, and has every rule of it.          *)
ListOK(tab, list) ==
    /\ Full(list) /\ Total(list) <= STR_MAX
    /\ IsFiniteSet(OutputsOf(list)) /\ Cardinality(OutputsOf(list)) <= RULES_MAX
    /\ Listed(tab, list)

Covered(tab, list) == \A out \in Output : Speaks(list, out) => HasRule(tab, out)

(* PLCread_config has still to visit what the table does not have.          *)
Refilling(tab, list, un) ==
    /\ Within(un, list)
    /\ \A out \in Output : Speaks(list, out) => HasRule(tab, out) \/ Speaks(un, out)

(* PLCdel_config: what it has put back and what it has still to visit is    *)
(* the list, without the output it deletes.                                 *)
Rewriting(tab, list, un, st, v) ==
    /\ v \in Output /\ ~ HasRule(tab, v)
    /\ \A out \in Output : out # v /\ Speaks(list, out) => HasRule(tab, out)
    /\ Within(un, list) /\ Within(st, list) /\ ~ Speaks(st, v)
    /\ \A t : t.out # v /\ Occurs(list, t) => Occurs(st, t) \/ Occurs(un, t)
    /\ Total(st) + Total(un) <= STR_MAX

Covering(m, tab, list, un, st, v) ==
    /\ ListOK(tab, list)
    /\ m = "off" => tab = <<>>
    /\ m = "serving" => Covered(tab, list)
    /\ m = "reading" => Refilling(tab, list, un)
    /\ m = "deleting" => Rewriting(tab, list, un, st, v)

CoverInv == ~overflowed => Covering(mode, PLCT, config, unread, staged, victim)

(* A text that is whole is known by its output.                             *)
LEMMA FullKnown ==
  ASSUME NEW list, Full(list), NEW t, Occurs(list, t)
  PROVE  /\ t.len >= TRIPLE /\ Whole(t)
         /\ \A out : IsFor(t, out) <=> t.out = out
  <1>1. t.len = Length(t.cond)
    BY DEF Full
  <1>2. Length(t.cond) \in {29, 30}
    BY DEF Length
  <1>3. t.len >= TRIPLE
    BY <1>1, <1>2 DEF TRIPLE
  <1>4. Whole(t)
    BY <1>1, <1>2 DEF Whole
  <1> QED
    BY <1>3, <1>4 DEF IsFor

(* The entries PLCdel leaves are those of the other outputs.                *)
LEMMA PLCdelEntries ==
  ASSUME NEW tab \in Seq(Entry), Unique(tab), NEW out \in Output
  PROVE  \A e : Occurs(PLCdel(tab, out), e) <=> Occurs(tab, e) /\ ~ IsFor(e.rule, out)
  <1>1. PICK new : new = PLCdel(tab, out)
    OBVIOUS
  <1>2. new \in Seq(Entry) /\ \A k \in 1 .. Len(new) : ~ IsFor(new[k].rule, out)
    BY <1>1, PLCdelFacts
  <1>3. Only(new, OthersOf(out)) = Only(tab, OthersOf(out))
    BY <1>1, PLCdelOthers DEF Others, OthersOf
  <1>4. \A e : Occurs(new, e) /\ e \in OthersOf(out) <=> Occurs(tab, e) /\ e \in OthersOf(out)
    BY <1>2, <1>3, OccursOnly
  <1>5. \A e : Occurs(new, e) => e \in OthersOf(out)
    BY <1>2 DEF Occurs, OthersOf
  <1>6. \A e : Occurs(tab, e) => e \in Entry
    BY DEF Occurs
  <1> QED
    BY <1>1, <1>4, <1>5, <1>6 DEF OthersOf

(* The entry of a rule that is added.                                       *)
Armed(text) == [rule |-> text, triggered |-> FALSE]

(* The entries PLCadd leaves, when there is room.                           *)
LEMMA PLCaddEntries ==
  ASSUME NEW tab \in Seq(Entry), Unique(tab), ~ (Len(tab) >= RULES_MAX),
         NEW text \in Text, text.len >= TRIPLE
  PROVE  \A e : Occurs(PLCadd(tab, text), e)
                  <=> \/ Occurs(tab, e) /\ ~ IsFor(e.rule, text.out)
                      \/ e = Armed(text)
  <1>1. PICK rest : rest = PLCdel(tab, text.out)
    OBVIOUS
  <1>2. text.out \in Output /\ Armed(text) \in Entry
    BY DEF Text, Entry, Armed
  <1>3. rest \in Seq(Entry)
    BY <1>1, <1>2, PLCdelFacts
  <1>4. PLCadd(tab, text) = Append(rest, Armed(text))
    BY <1>1 DEF PLCadd, Armed
  <1>5. \A e : Occurs(rest, e) <=> Occurs(tab, e) /\ ~ IsFor(e.rule, text.out)
    BY <1>1, <1>2, PLCdelEntries
  <1>6. \A e : Occurs(Append(rest, Armed(text)), e) <=> Occurs(rest, e) \/ e = Armed(text)
    BY <1>2, <1>3, OccursAppend
  <1> QED
    BY <1>4, <1>5, <1>6

(* A table of whole rules has as many outputs as rules.                     *)
LEMMA RuledCount ==
  ASSUME NEW tab \in Seq(Entry), Unique(tab), NEW list, Full(list), Listed(tab, list)
  PROVE  IsFiniteSet(RuledBy(tab)) /\ Cardinality(RuledBy(tab)) = Len(tab)
  <1>1. PICK n \in Nat : n = Len(tab)
    OBVIOUS
  <1>2. \A i \in 1 .. n : Occurs(tab, tab[i]) /\ tab[i].rule.out \in Output
    <2>1. DOMAIN tab = 1 .. n /\ \A i \in 1 .. n : tab[i] \in Entry
      BY <1>1
    <2> QED
      BY <2>1 DEF Occurs, Entry, Text
  <1>3. \A i \in 1 .. n : \A out : IsFor(tab[i].rule, out) <=> tab[i].rule.out = out
    BY <1>2, FullKnown DEF Listed
  <1>4. PICK f : f = [i \in 1 .. n |-> tab[i].rule.out]
    OBVIOUS
  <1>5. f \in [1 .. n -> RuledBy(tab)]
    BY <1>2, <1>4 DEF RuledBy, HasRule
  <1>6. \A a, b \in 1 .. n : f[a] = f[b] => a = b
    BY <1>1, <1>3, <1>4 DEF Unique
  <1>7. \A out \in RuledBy(tab) : \E i \in 1 .. n : f[i] = out
    BY <1>1, <1>4 DEF RuledBy, HasRule, Occurs
  <1>8. ExistsBijection(1 .. n, RuledBy(tab))
    <2>1. f \in Injection(1 .. n, RuledBy(tab))
      BY <1>5, <1>6 DEF Injection, IsInjective
    <2>2. f \in Surjection(1 .. n, RuledBy(tab))
      BY <1>5, <1>7 DEF Surjection
    <2> QED
      BY <2>1, <2>2 DEF ExistsBijection, Bijection
  <1> QED
    BY <1>1, <1>8, FS_CountingElements, FS_NatBijection


(* The outputs of a list are no more than those of a list it is within.     *)
LEMMA FewerOutputs ==
  ASSUME NEW all, IsFiniteSet(all), Cardinality(all) <= RULES_MAX, NEW some \in SUBSET all
  PROVE  IsFiniteSet(some) /\ Cardinality(some) <= RULES_MAX
  <1>1. IsFiniteSet(some) /\ Cardinality(some) <= Cardinality(all)
    BY FS_Subset
  <1>2. Cardinality(all) \in Nat /\ Cardinality(some) \in Nat
    BY <1>1, FS_CardinalityType
  <1> QED
    BY <1>1, <1>2, TableAssumption

(* A full table has a rule for every output of the list.                    *)
LEMMA FullTable ==
  ASSUME NEW tab \in Seq(Entry), Unique(tab), Len(tab) <= RULES_MAX, Len(tab) >= RULES_MAX,
         NEW list, ListOK(tab, list)
  PROVE  Covered(tab, list)
  <1>1. IsFiniteSet(RuledBy(tab)) /\ Cardinality(RuledBy(tab)) = Len(tab)
    BY RuledCount DEF ListOK
  <1>2. RuledBy(tab) \in SUBSET OutputsOf(list)
    BY DEF RuledBy, OutputsOf, HasRule, Speaks, ListOK, Listed
  <1>3. IsFiniteSet(OutputsOf(list)) /\ Cardinality(OutputsOf(list)) <= RULES_MAX
    BY DEF ListOK
  <1>4. Cardinality(RuledBy(tab)) <= Cardinality(OutputsOf(list))
        /\ (Cardinality(OutputsOf(list)) = Cardinality(RuledBy(tab))
              => OutputsOf(list) = RuledBy(tab))
    BY <1>2, <1>3, FS_Subset
  <1>5. Cardinality(OutputsOf(list)) \in Nat /\ Len(tab) \in Nat
    BY <1>3, FS_CardinalityType
  <1>6. Cardinality(OutputsOf(list)) = Cardinality(RuledBy(tab))
    BY <1>1, <1>3, <1>4, <1>5, TableAssumption
  <1> QED
    BY <1>4, <1>6 DEF OutputsOf, RuledBy, Covered

(* PLCread_config adds a rule of the list to the table, or finds it full.   *)
LEMMA ReadCovers ==
  ASSUME NEW tab \in Seq(Entry), Unique(tab), Len(tab) <= RULES_MAX, NEW list,
         ListOK(tab, list), NEW un \in Seq(Text), un # <<>>, Refilling(tab, list, un)
  PROVE  /\ ListOK(PLCadd(tab, Head(un)), list)
         /\ Refilling(PLCadd(tab, Head(un)), list, Tail(un))
  <1>1. PICK text \in Text : text = Head(un)
    <2>1. Head(un) \in Text
      OBVIOUS
    <2> QED
      BY <2>1
  <1>2. \A t : Occurs(un, t) <=> t = text \/ Occurs(Tail(un), t)
    BY <1>1, OccursTail
  <1>3. Occurs(list, text) /\ text.len >= TRIPLE
    BY <1>2, FullKnown DEF Refilling, Within, ListOK
  <1>4. PICK new : new = PLCadd(tab, text)
    OBVIOUS
  <1>5. CASE Len(tab) >= RULES_MAX
    <2>1. new = tab
      BY <1>4, <1>5 DEF PLCadd
    <2>2. Covered(tab, list)
      BY <1>5, FullTable
    <2>3. Refilling(tab, list, Tail(un))
      BY <1>2, <2>2 DEF Refilling, Within, Covered
    <2> QED
      BY <1>1, <1>4, <2>1, <2>3
  <1>6. CASE ~ (Len(tab) >= RULES_MAX)
    <2>1. \A e : Occurs(new, e) <=> \/ Occurs(tab, e) /\ ~ IsFor(e.rule, text.out)
                                    \/ e = Armed(text)
      BY <1>3, <1>4, <1>6, PLCaddEntries
    <2>2. Armed(text).rule = text
      BY DEF Armed
    <2>3. Listed(new, list)
      BY <1>3, <2>1, <2>2 DEF ListOK, Listed
    <2>4. \A out : HasRule(tab, out) \/ out = text.out => HasRule(new, out)
      BY <2>1, <2>2 DEF HasRule, IsFor
    <2>5. \A out : Speaks(un, out) => out = text.out \/ Speaks(Tail(un), out)
      BY <1>2 DEF Speaks
    <2>6. Refilling(new, list, Tail(un))
      BY <1>2, <2>4, <2>5 DEF Refilling, Within
    <2> QED
      BY <1>1, <1>4, <2>3, <2>6 DEF ListOK
  <1> QED
    BY <1>5, <1>6

(* AddRule, as long as the longer list fits.                                *)
LEMMA AddCovers ==
  ASSUME NEW tab \in Seq(Entry), Unique(tab), Len(tab) <= RULES_MAX, ~ (Len(tab) >= RULES_MAX),
         NEW list, ListOK(tab, list), Covered(tab, list),
         NEW text \in Text, text.len = Length(text.cond),
         NEW long, \A t : Occurs(long, t) <=> Occurs(list, t) \/ t = text,
         Total(long) <= STR_MAX
  PROVE  ListOK(PLCadd(tab, text), long) /\ Covered(PLCadd(tab, text), long)
  <1>1. PICK new : new = PLCadd(tab, text)
    OBVIOUS
  <1>2. Full(long)
    BY DEF Full, ListOK
  <1>3. text.len >= TRIPLE
    BY <1>2, FullKnown
  <1>4. /\ new \in Seq(Entry) /\ Len(new) <= RULES_MAX /\ Unique(new)
        /\ \A e : Occurs(new, e) <=> \/ Occurs(tab, e) /\ ~ IsFor(e.rule, text.out)
                                     \/ e = Armed(text)
    BY <1>1, <1>3, PLCaddFacts, PLCaddEntries
  <1>5. Armed(text).rule = text
    BY DEF Armed
  <1>6. Listed(new, long)
    BY <1>4, <1>5 DEF ListOK, Listed
  <1>7. \A out : HasRule(tab, out) \/ out = text.out => HasRule(new, out)
    BY <1>4, <1>5 DEF HasRule, IsFor
  <1>8. \A out : Speaks(long, out) => Speaks(list, out) \/ out = text.out
    BY DEF Speaks
  <1>9. Covered(new, long)
    BY <1>7, <1>8 DEF Covered
  <1>10. IsFiniteSet(RuledBy(new)) /\ Cardinality(RuledBy(new)) = Len(new)
    BY <1>2, <1>4, <1>6, RuledCount
  <1>11. OutputsOf(long) \in SUBSET RuledBy(new)
    BY <1>9 DEF OutputsOf, RuledBy, Covered
  <1>12. IsFiniteSet(OutputsOf(long)) /\ Cardinality(OutputsOf(long)) <= RULES_MAX
    BY <1>4, <1>10, <1>11, FewerOutputs
  <1> QED
    BY <1>1, <1>2, <1>6, <1>9, <1>12 DEF ListOK

(* PLCdel begins to delete: nothing is put back yet.                        *)
LEMMA DeleteCovers ==
  ASSUME NEW tab \in Seq(Entry), Unique(tab), NEW list \in Seq(Text), ListOK(tab, list),
         Covered(tab, list), NEW out \in Output
  PROVE  /\ ListOK(PLCdel(tab, out), list)
         /\ Rewriting(PLCdel(tab, out), list, list, <<>>, out)
  <1>1. PICK new : new = PLCdel(tab, out)
    OBVIOUS
  <1>2. \A e : Occurs(new, e) <=> Occurs(tab, e) /\ ~ IsFor(e.rule, out)
    BY <1>1, PLCdelEntries
  <1>3. \A e : Occurs(tab, e) => (IsFor(e.rule, out) <=> e.rule.out = out)
    BY FullKnown DEF ListOK, Listed
  <1>4. ListOK(new, list)
    BY <1>2 DEF ListOK, Listed
  <1>5. /\ ~ HasRule(new, out)
        /\ \A o \in Output : o # out /\ Speaks(list, o) => HasRule(new, o)
    BY <1>2, <1>3 DEF HasRule, Covered
  <1>6. Total(<<>>) + Total(list) <= STR_MAX
    <2>1. Total(<<>>) = 0 /\ Total(list) <= STR_MAX /\ Total(list) \in Nat
      BY TotalNothing, TotalNat DEF ListOK
    <2> QED
      BY <2>1
  <1>7. Within(list, list) /\ Within(<<>>, list) /\ ~ Speaks(<<>>, out)
    BY OccursNothing DEF Within, Speaks
  <1> QED
    BY <1>1, <1>4, <1>5, <1>6, <1>7 DEF Rewriting

(* PLCdel_config visits a text.                                             *)
LEMMA RewriteCovers ==
  ASSUME NEW tab, NEW list, ListOK(tab, list), NEW un \in Seq(Text), un # <<>>,
         NEW st \in Seq(Text), NEW v, Rewriting(tab, list, un, st, v),
         NEW new, new = IF IsFor(Head(un), v) THEN st ELSE Append(st, Head(un))
  PROVE  Rewriting(tab, list, Tail(un), new, v)
  <1>1. PICK text \in Text : text = Head(un)
    <2>1. Head(un) \in Text
      OBVIOUS
    <2> QED
      BY <2>1
  <1>2. PICK rest \in Seq(Text) : rest = Tail(un)
    <2>1. Tail(un) \in Seq(Text)
      OBVIOUS
    <2> QED
      BY <2>1
  <1>3. \A t : Occurs(un, t) <=> t = text \/ Occurs(rest, t)
    BY <1>1, <1>2, OccursTail
  <1>4. Occurs(list, text) /\ (IsFor(text, v) <=> text.out = v)
    BY <1>3, FullKnown DEF Rewriting, Within, ListOK
  <1>5. \A t : Occurs(new, t) <=> \/ Occurs(st, t)
                                  \/ t = text /\ text.out # v
    <2>1. \A t : Occurs(Append(st, text), t) <=> Occurs(st, t) \/ t = text
      BY OccursAppend
    <2> QED
      BY <1>1, <1>4, <2>1
  <1>6. Total(new) + Total(rest) <= STR_MAX
    <2>1. PICK a, b, c, l : /\ a = Total(st) /\ b = Total(rest) /\ c = Total(un) /\ l = text.len
                            /\ a \in Nat /\ b \in Nat /\ l \in Nat
      <3>1. Total(st) \in Nat /\ Total(rest) \in Nat /\ text.len \in Nat
        BY TotalNat, TextLength
      <3> QED
        BY <3>1
    <2>2. c = l + 1 + b
      BY <1>1, <1>2, <2>1, TotalTail
    <2>3. Total(new) = a \/ Total(new) = a + l + 1
      BY <1>1, <2>1, TotalAppend
    <2>4. a + c <= STR_MAX
      BY <2>1 DEF Rewriting
    <2> QED
      BY <2>1, <2>2, <2>3, <2>4, TableAssumption
  <1>7. Within(rest, list) /\ Within(new, list) /\ ~ Speaks(new, v)
    BY <1>3, <1>4, <1>5 DEF Rewriting, Within, Speaks
  <1>8. \A t : t.out # v /\ Occurs(list, t) => Occurs(new, t) \/ Occurs(rest, t)
    BY <1>3, <1>5 DEF Rewriting
  <1> QED
    BY <1>2, <1>6, <1>7, <1>8 DEF Rewriting

(* ucicommit: what was put back is the list.                                *)
LEMMA CommitCovers ==
  ASSUME NEW tab, NEW list, ListOK(tab, list), NEW st \in Seq(Text), NEW v,
         Rewriting(tab, list, <<>>, st, v)
  PROVE  ListOK(tab, st) /\ Covered(tab, st)
  <1>1. Full(st)
    BY DEF Full, ListOK, Rewriting, Within
  <1>2. Total(st) <= STR_MAX
    <2>1. Total(<<>>) = 0 /\ Total(st) + Total(<<>>) <= STR_MAX
      BY TotalNothing DEF Rewriting
    <2>2. Total(st) \in Nat
      BY TotalNat
    <2> QED
      BY <2>1, <2>2
  <1>3. \A out : Speaks(st, out) => Speaks(list, out) /\ out # v
    BY DEF Rewriting, Within, Speaks
  <1>4. OutputsOf(st) \in SUBSET OutputsOf(list)
    BY <1>3 DEF OutputsOf
  <1>5. IsFiniteSet(OutputsOf(st)) /\ Cardinality(OutputsOf(st)) <= RULES_MAX
    BY <1>4, FewerOutputs DEF ListOK
  <1>6. Listed(tab, st)
    <2> SUFFICES ASSUME NEW e, Occurs(tab, e) PROVE Occurs(st, e.rule)
      BY DEF Listed
    <2>1. Occurs(list, e.rule) /\ e.rule.out # v
      BY DEF ListOK, Listed, Rewriting, HasRule
    <2> QED
      BY <2>1, OccursNothing DEF Rewriting
  <1>7. Covered(tab, st)
    BY <1>3 DEF Covered, Rewriting
  <1> QED
    BY <1>1, <1>2, <1>5, <1>6, <1>7 DEF ListOK

(* PLCexec changes flags.                                                   *)
LEMMA SameRulesCover ==
  ASSUME NEW tab \in Seq(Entry), NEW new \in Seq(Entry), Len(new) = Len(tab),
         \A k \in 1 .. Len(tab) : new[k].rule = tab[k].rule, NEW list,
         ListOK(tab, list), Covered(tab, list)
  PROVE  ListOK(new, list) /\ Covered(new, list)
  <1>1. PICK n \in Nat : n = Len(tab)
    OBVIOUS
  <1>2. DOMAIN tab = 1 .. n /\ DOMAIN new = 1 .. n
    BY <1>1
  <1>3. \A e : Occurs(new, e) => \E d : Occurs(tab, d) /\ d.rule = e.rule
    BY <1>1, <1>2 DEF Occurs
  <1>4. \A d : Occurs(tab, d) => \E e : Occurs(new, e) /\ d.rule = e.rule
    BY <1>1, <1>2 DEF Occurs
  <1>5. ListOK(new, list)
    BY <1>3 DEF ListOK, Listed
  <1>6. \A out : HasRule(tab, out) => HasRule(new, out)
    BY <1>4 DEF HasRule
  <1> QED
    BY <1>5, <1>6 DEF Covered


(* The table of a SIOD that is off is empty, whatever list it finds.        *)
LEMMA CoverInit == Init => CoverInv
  <1> SUFFICES ASSUME Init PROVE CoverInv
    OBVIOUS
  <1>1. mode = "off" /\ PLCT = <<>> /\ config = <<>>
    BY DEF Init
  <1>2. ListOK(<<>>, <<>>)
    <2>1. Full(<<>>) /\ Listed(<<>>, <<>>)
      BY OccursNothing DEF Full, Listed
    <2>2. OutputsOf(<<>>) = {}
      BY OccursNothing DEF OutputsOf, Speaks
    <2>3. IsFiniteSet({}) /\ Cardinality({}) = 0
      BY FS_EmptySet
    <2>4. 0 <= STR_MAX /\ 0 <= RULES_MAX
      BY TableAssumption
    <2> QED
      BY <2>1, <2>2, <2>3, <2>4, TotalNothing DEF ListOK
  <1> QED
    BY <1>1, <1>2 DEF CoverInv, Covering

(* A crash empties the table; what is left is the list.                     *)
LEMMA EmptyCovers ==
  ASSUME NEW tab, NEW list, ListOK(tab, list)
  PROVE  ListOK(<<>>, list)
  BY OccursNothing DEF ListOK, Listed

(* Every step of the program keeps the invariant.                           *)
LEMMA CoverStep == Table /\ CoverInv /\ [Next]_vars => CoverInv'
  <1> SUFFICES ASSUME Table, CoverInv, [Next]_vars, ~overflowed'
               PROVE  Covering(mode', PLCT', config', unread', staged', victim')
    BY DEF CoverInv
  <1>1. /\ PLCT \in Seq(Entry) /\ Len(PLCT) <= RULES_MAX /\ Unique(PLCT)
        /\ unread \in Seq(Text) /\ config \in Seq(Text) /\ staged \in Seq(Text)
    BY DEF Table, TypeOK
  <1>2. ~overflowed
    BY DEF Next, vars, Start, PLCread_config, Serve, AddRule, DeleteRule, PLCdel_config,
       ucicommit, PLCexec, Crash
  <1>3. Covering(mode, PLCT, config, unread, staged, victim)
    BY <1>2 DEF CoverInv
  <1>4. ListOK(PLCT, config) /\ uciget(config) = config
    BY <1>1, <1>3, UcigetWhole DEF Covering, ListOK
  <1>5. CASE Start
    <2>1. mode' = "reading" /\ unread' = config /\ PLCT' = <<>> /\ config' = config
      BY <1>3, <1>4, <1>5 DEF Start, Covering
    <2>2. Refilling(<<>>, config, config)
      BY DEF Refilling, Within
    <2> QED
      BY <1>4, <2>1, <2>2, EmptyCovers DEF Covering
  <1>6. CASE PLCread_config
    <2>1. /\ mode = "reading" /\ mode' = "reading" /\ unread # <<>> /\ unread' = Tail(unread)
          /\ config' = config
      BY <1>6 DEF PLCread_config
    <2>2. Refilling(PLCT, config, unread)
      BY <1>3, <2>1 DEF Covering
    <2>3. Whole(Head(unread))
      <3>1. Occurs(unread, Head(unread))
        BY <1>1, <2>1, OccursTail
      <3> QED
        BY <1>4, <2>2, <3>1, FullKnown DEF Refilling, Within, ListOK
    <2>4. PLCT' = PLCadd(PLCT, Head(unread))
      BY <1>6, <2>3 DEF PLCread_config
    <2>5. ListOK(PLCT', config) /\ Refilling(PLCT', config, unread')
      BY <1>1, <1>4, <2>1, <2>2, <2>4, ReadCovers
    <2> QED
      BY <2>1, <2>5 DEF Covering
  <1>7. CASE Serve
    <2>1. /\ mode = "reading" /\ mode' = "serving" /\ unread = <<>>
          /\ PLCT' = PLCT /\ config' = config
      BY <1>7 DEF Serve
    <2>2. Covered(PLCT, config)
      BY <1>3, <2>1, OccursNothing DEF Covering, Refilling, Covered, Speaks
    <2> QED
      BY <1>4, <2>1, <2>2 DEF Covering
  <1>8. ASSUME NEW out \in Output, NEW cond \in Condition, AddRule(out, cond)
        PROVE  Covering(mode', PLCT', config', unread', staged', victim')
    <2>1. PICK rule : rule = Rule(out, cond)
      OBVIOUS
    <2>2. rule \in Text /\ rule.len = Length(rule.cond)
      BY <2>1, RuleType DEF Rule
    <2>3. /\ mode = "serving" /\ mode' = "serving" /\ PLCT' = PLCadd(PLCT, rule)
          /\ ~ Overflows(config')
          /\ config' = IF \/ Len(PLCT) >= RULES_MAX
                          \/ \E i \in 1 .. Len(config) : config[i] = rule
                       THEN config ELSE Append(config, rule)
      BY <1>4, <1>8, <2>1 DEF AddRule
    <2>4. Covered(PLCT, config)
      BY <1>3, <2>3 DEF Covering
    <2>5. CASE Len(PLCT) >= RULES_MAX
      <3>1. PLCT' = PLCT /\ config' = config
        BY <2>3, <2>5 DEF PLCadd
      <3> QED
        BY <1>4, <2>3, <2>4, <3>1 DEF Covering
    <2>6. CASE ~ (Len(PLCT) >= RULES_MAX)
      <3>1. config' \in Seq(Text)
        BY <1>1, <2>2, <2>3
      <3>2. \A t : Occurs(config', t) <=> Occurs(config, t) \/ t = rule
        <4>1. CASE \E i \in 1 .. Len(config) : config[i] = rule
          <5>1. config' = config /\ Occurs(config, rule)
            BY <1>1, <2>3, <4>1 DEF Occurs
          <5> QED
            BY <5>1
        <4>2. CASE ~ \E i \in 1 .. Len(config) : config[i] = rule
          <5>1. config' = Append(config, rule)
            BY <2>3, <2>6, <4>2
          <5> QED
            BY <1>1, <2>2, <5>1, OccursAppend
        <4> QED
          BY <4>1, <4>2
      <3>3. PICK long \in Seq(Text) : long = config'
        BY <3>1
      <3>4. Total(long) <= STR_MAX
        <4>1. ~ (Total(long) > STR_MAX)
          BY <2>3, <3>3 DEF Overflows, Total
        <4>2. Total(long) \in Nat
          BY TotalNat
        <4> QED
          BY <4>1, <4>2, TableAssumption
      <3>5. ListOK(PLCadd(PLCT, rule), long) /\ Covered(PLCadd(PLCT, rule), long)
        BY <1>1, <1>4, <2>2, <2>4, <2>6, <3>2, <3>3, <3>4, AddCovers
      <3> QED
        BY <2>3, <3>3, <3>5 DEF Covering
    <2> QED
      BY <2>5, <2>6
  <1>9. ASSUME NEW out \in Output, DeleteRule(out)
        PROVE  Covering(mode', PLCT', config', unread', staged', victim')
    <2>1. /\ mode = "serving" /\ mode' = "deleting" /\ PLCT' = PLCdel(PLCT, out)
          /\ victim' = out /\ unread' = config /\ config' = config /\ Has(PLCT, out)
          /\ staged' = <<>> \/ config = <<>>
      BY <1>4, <1>9 DEF DeleteRule
    <2>2. config # <<>>
      <3>1. PICK k \in 1 .. Len(PLCT) : TRUE
        BY <2>1 DEF Has
      <3>2. Occurs(PLCT, PLCT[k])
        BY <1>1 DEF Occurs
      <3> QED
        BY <1>4, <3>2, OccursNothing DEF ListOK, Listed
    <2>3. Covered(PLCT, config)
      BY <1>3, <2>1 DEF Covering
    <2>4. ListOK(PLCT', config) /\ Rewriting(PLCT', config, config, <<>>, out)
      BY <1>1, <1>4, <2>1, <2>3, DeleteCovers
    <2> QED
      BY <2>1, <2>2, <2>4 DEF Covering
  <1>10. CASE PLCdel_config
    <2>1. /\ mode = "deleting" /\ mode' = "deleting" /\ unread # <<>> /\ unread' = Tail(unread)
          /\ staged' = IF IsFor(Head(unread), victim) THEN staged
                       ELSE Append(staged, Head(unread))
          /\ PLCT' = PLCT /\ config' = config /\ victim' = victim
      BY <1>10 DEF PLCdel_config
    <2>2. Rewriting(PLCT, config, unread, staged, victim)
      BY <1>3, <2>1 DEF Covering
    <2>3. Rewriting(PLCT, config, unread', staged', victim)
      BY <1>1, <1>4, <2>1, <2>2, RewriteCovers
    <2> QED
      BY <1>4, <2>1, <2>3 DEF Covering
  <1>11. CASE ucicommit
    <2>1. /\ mode = "deleting" /\ mode' = "serving" /\ unread = <<>> /\ config' = staged
          /\ PLCT' = PLCT
      BY <1>11 DEF ucicommit
    <2>2. Rewriting(PLCT, config, <<>>, staged, victim)
      BY <1>3, <2>1 DEF Covering
    <2>3. ListOK(PLCT, staged) /\ Covered(PLCT, staged)
      BY <1>1, <1>4, <2>2, CommitCovers
    <2> QED
      BY <2>1, <2>3 DEF Covering
  <1>12. CASE PLCexec
    <2>1. mode = "serving" /\ mode' = "serving" /\ config' = config
      BY <1>12 DEF PLCexec
    <2>2. PICK fired \in SUBSET (1 .. Len(PLCT)) :
             PLCT' = [k \in 1 .. Len(PLCT) |->
                        [rule |-> PLCT[k].rule, triggered |-> k \in fired]]
      BY <1>12 DEF PLCexec
    <2>9. PICK n \in Nat : n = Len(PLCT)
      BY <1>1
    <2>3. PICK new : new = PLCT'
      OBVIOUS
    <2>4. new = [k \in 1 .. n |-> [rule |-> PLCT[k].rule, triggered |-> k \in fired]]
      BY <2>9, <2>2, <2>3
    <2>5. \A k \in 1 .. n : PLCT[k].rule \in Text
      <3>1. \A k \in 1 .. n : PLCT[k] \in Entry
        BY <1>1, <2>9
      <3> QED
        BY <3>1 DEF Entry
    <2>6. new \in Seq(Entry) /\ Len(new) = n
      BY <2>4, <2>5 DEF Entry
    <2>7. \A k \in 1 .. n : new[k].rule = PLCT[k].rule
      BY <2>4
    <2>8. ListOK(new, config) /\ Covered(new, config)
      BY <1>1, <1>3, <1>4, <2>1, <2>3, <2>9, <2>6, <2>7, SameRulesCover DEF Covering
    <2> QED
      BY <2>1, <2>3, <2>8 DEF Covering
  <1>13. CASE Crash
    BY <1>4, <1>13, EmptyCovers DEF Crash, Covering
  <1>14. CASE UNCHANGED vars
    BY <1>3, <1>14 DEF vars
  <1> QED
    BY <1>5, <1>6, <1>7, <1>8, <1>9, <1>10, <1>11, <1>12, <1>13, <1>14 DEF Next

(* socket_io.c, PLCread_config, PLC and PLCdel_config: while the list fits  *)
(* the buffer uciget reads it into, the table and the configuration speak   *)
(* of the same outputs whatever is added, replaced and deleted and however  *)
(* often the process dies, even in the middle of the rewriting of the list. *)
THEOREM ConfigCovers == Spec => []ConfigCoversTable
  <1>1. Table /\ CoverInv => ConfigCoversTable
    <2> SUFFICES ASSUME Table, CoverInv, mode = "serving", ~overflowed
                 PROVE  /\ {PLCT[i].rule.out : i \in 1 .. Len(PLCT)}
                             = {config[i].out : i \in 1 .. Len(config)}
                        /\ \A i \in 1 .. Len(PLCT) : \E j \in 1 .. Len(config) :
                               config[j] = PLCT[i].rule
      BY DEF ConfigCoversTable
    <2>1. PLCT \in Seq(Entry) /\ config \in Seq(Text)
      BY DEF Table, TypeOK
    <2>2. DOMAIN PLCT = 1 .. Len(PLCT) /\ DOMAIN config = 1 .. Len(config)
      BY <2>1
    <2>3. Listed(PLCT, config) /\ Covered(PLCT, config)
      BY DEF CoverInv, Covering, ListOK
    <2>4. \A i \in 1 .. Len(PLCT) : \E j \in 1 .. Len(config) : config[j] = PLCT[i].rule
      BY <2>2, <2>3 DEF Listed, Occurs
    <2>5. \A j \in 1 .. Len(config) : \E i \in 1 .. Len(PLCT) : PLCT[i].rule.out = config[j].out
      <3> SUFFICES ASSUME NEW j \in 1 .. Len(config)
                   PROVE  \E i \in 1 .. Len(PLCT) : PLCT[i].rule.out = config[j].out
        OBVIOUS
      <3>1. config[j].out \in Output
        <4>1. config[j] \in Text
          BY <2>1
        <4> QED
          BY <4>1 DEF Text
      <3>2. Speaks(config, config[j].out)
        BY <2>2 DEF Speaks, Occurs
      <3> QED
        BY <2>2, <2>3, <3>1, <3>2 DEF Covered, HasRule, Occurs
    <2>6. {PLCT[i].rule.out : i \in 1 .. Len(PLCT)} = {config[i].out : i \in 1 .. Len(config)}
      <3>1. ASSUME NEW i \in 1 .. Len(PLCT)
            PROVE  PLCT[i].rule.out \in {config[j].out : j \in 1 .. Len(config)}
        <4>1. PICK j \in 1 .. Len(config) : config[j] = PLCT[i].rule
          BY <2>4
        <4>2. config[j].out = PLCT[i].rule.out
          BY <4>1
        <4> QED
          BY <4>2
      <3>2. ASSUME NEW j \in 1 .. Len(config)
            PROVE  config[j].out \in {PLCT[i].rule.out : i \in 1 .. Len(PLCT)}
        BY <2>5
      <3> QED
        BY <3>1, <3>2
    <2> QED
      BY <2>4, <2>6
  <1> QED
    BY TableInit, TableStep, CoverInit, CoverStep, <1>1, PTL DEF Spec

-----------------------------------------------------------------------------
(* The settings.  A handler of m has Commanded(m) commands; its last change *)
(* is the one numbered Change(m).                                           *)
Change(m) ==
    CASE m.kind = "batman"   -> 4
      [] m.kind = "network"  -> 7
      [] m.kind = "asterisk" -> 6
      [] m.kind = "outputs"  -> 1
      [] m.kind = "ntp"      -> m.servers + 3
      [] m.kind = "restart"  -> 0

Commanded(m) ==
    CASE m.kind = "batman"   -> 6
      [] m.kind = "network"  -> 9
      [] m.kind = "asterisk" -> 6
      [] m.kind = "outputs"  -> 2
      [] m.kind = "ntp"      -> m.servers + 4
      [] m.kind = "restart"  -> 2

Dns    == <<"network", "dns">>
Server == <<"ntp", "server">>

(* The i-th command.                                                        *)
CommandIs(m, i, c) ==
    /\ m.kind = "batman" =>
          c = IF i <= 4 THEN S!uciset("batman", S!Fields.batman[i], m.value)
              ELSE IF i = 5 THEN S!Commit ELSE S!Answer
    /\ m.kind = "network" =>
          c = CASE i <= 3 -> S!uciset("network", S!Fields.network[i], m.value)
                [] i = 4  -> S!ucidelete("network", "dns")
                [] i \in {5, 6} -> S!uciadd_list("network", "dns", m.value)
                [] i = 7  -> S!uciset("network", "proto", m.value)
                [] i = 8  -> S!Commit
                [] i = 9  -> S!Answer
    /\ m.kind = "asterisk" => c = S!uciset("asterisk", S!Fields.asterisk[i], m.value)
    /\ m.kind = "outputs" =>
          c = IF i = 1 THEN S!uciset("outputs", "value", m.value) ELSE S!Commit
    /\ m.kind = "ntp" =>
          c = IF i = 1 THEN S!ucidelete("ntp", "server")
              ELSE IF i = 2 \/ i = m.servers + 4 THEN S!Commit
              ELSE IF i = m.servers + 3 THEN S!uciset("ntp", "enable_server", m.value)
              ELSE S!uciadd_list("ntp", "server", m.value)
    /\ m.kind = "restart" => c = IF i = 1 THEN S!Restart ELSE S!Answer

IsSequence(s) == \E X : s \in Seq(X)

LEMMA InSequence ==
  ASSUME NEW X, NEW s, s \in Seq(X)
  PROVE  IsSequence(s)
  BY Zenon DEF IsSequence

(* c is s and then t, that have n and k entries.                            *)
Follow(c, s, n, t, k) ==
    /\ Len(c) = n + k
    /\ \A i \in 1 .. n : c[i] = s[i]
    /\ \A i \in 1 .. k : c[n + i] = t[i]

LEMMA Joined ==
  ASSUME NEW X, NEW s \in Seq(X), NEW t \in Seq(X), NEW n \in Nat, NEW k \in Nat,
         Len(s) = n, Len(t) = k
  PROVE  s \o t \in Seq(X) /\ Follow(s \o t, s, n, t, k)
  BY DEF Follow

(* ConfigBatman.                                                            *)
LEMMA BatmanCommands ==
  ASSUME NEW m \in Asked, m.kind = "batman"
  PROVE  /\ Len(S!Commands(m)) = 6 /\ IsSequence(S!Commands(m))
         /\ \A i \in 1 .. 6 : CommandIs(m, i, S!Commands(m)[i])
  <1>1. PICK v : v = m.value  OBVIOUS
  <1>2. PICK s : s = S!Sets("batman", S!Fields.batman, v)  OBVIOUS
  <1>3. s = [i \in 1 .. 4 |-> S!uciset("batman", S!Fields.batman[i], v)]
    BY <1>2 DEF S!Sets, S!Fields
  <1>4. PICK a, b : a = S!Commit /\ b = S!Answer  OBVIOUS
  <1>5. PICK t : t = <<a, b>>  OBVIOUS
  <1>6. S!Commands(m) = s \o t
    BY <1>1, <1>2, <1>4, <1>5 DEF S!Commands, S!ConfigBatman
  <1>7. PICK X : /\ \A i \in 1 .. 4 : S!uciset("batman", S!Fields.batman[i], v) \in X
                 /\ a \in X /\ b \in X
    <2> DEFINE Y == {S!uciset("batman", S!Fields.batman[i], v) : i \in 1 .. 4} \cup {a, b}
    <2>1. \A i \in 1 .. 4 : S!uciset("batman", S!Fields.batman[i], v) \in Y
      OBVIOUS
    <2> QED  BY <2>1
  <1>8. s \in Seq(X) /\ Len(s) = 4 /\ \A i \in 1 .. 4 : s[i] = S!uciset("batman", S!Fields.batman[i], v)
    BY <1>3, <1>7
  <1>9. t \in Seq(X) /\ Len(t) = 2 /\ t[1] = a /\ t[2] = b
    BY <1>5, <1>7
  <1>10. PICK c : c = S!Commands(m)  OBVIOUS
  <1>f. Follow(c, s, 4, t, 2) /\ IsSequence(c)
    <2>1. Follow(c, s, 4, t, 2)
      BY <1>6, <1>8, <1>9, <1>10, Joined
    <2>2. c \in Seq(X)
      BY <1>6, <1>8, <1>9, <1>10, Joined
    <2> QED  BY <2>1, <2>2, InSequence
  <1>11. /\ Len(c) = 4 + 2
         /\ \A i \in 1 .. 4 : c[i] = s[i]
         /\ \A i \in 1 .. 2 : c[4 + i] = t[i]
    BY <1>f DEF Follow
  <1>12. ASSUME NEW i \in 1 .. 6
         PROVE  c[i] = IF i <= 4 THEN S!uciset("batman", S!Fields.batman[i], v)
                       ELSE IF i = 5 THEN a ELSE b
    <2>1. i \in 1 .. 4 \/ i = 4 + 1 \/ i = 4 + 2  OBVIOUS
    <2> QED  BY <1>8, <1>9, <1>11, <2>1
  <1> QED
    BY <1>1, <1>4, <1>f, <1>10, <1>11, <1>12 DEF CommandIs

(* Config.                                                                  *)
LEMMA NetworkCommands ==
  ASSUME NEW m \in Asked, m.kind = "network"
  PROVE  /\ Len(S!Commands(m)) = 9 /\ IsSequence(S!Commands(m))
         /\ \A i \in 1 .. 9 : CommandIs(m, i, S!Commands(m)[i])
  <1>1. PICK v : v = m.value  OBVIOUS
  <1>2. PICK s : s = S!Sets("network", <<"ipaddr", "netmask", "gateway">>, v)  OBVIOUS
  <1>3. s = [i \in 1 .. 3 |-> S!uciset("network", S!Fields.network[i], v)]
    BY <1>2 DEF S!Sets, S!Fields
  <1>4. PICK d, l, p, a, b : /\ d = S!ucidelete("network", "dns")
                             /\ l = S!uciadd_list("network", "dns", v)
                             /\ p = S!uciset("network", "proto", v)
                             /\ a = S!Commit /\ b = S!Answer
    OBVIOUS
  <1>5. PICK t : t = <<d, l, l, p, a, b>>  OBVIOUS
  <1>6. S!Commands(m) = s \o t
    BY <1>1, <1>2, <1>4, <1>5 DEF S!Commands, S!Config
  <1>7. PICK X : /\ \A i \in 1 .. 3 : S!uciset("network", S!Fields.network[i], v) \in X
                 /\ d \in X /\ l \in X /\ p \in X /\ a \in X /\ b \in X
    <2> DEFINE Y == {S!uciset("network", S!Fields.network[i], v) : i \in 1 .. 3} \cup {d, l, p, a, b}
    <2>1. \A i \in 1 .. 3 : S!uciset("network", S!Fields.network[i], v) \in Y
      OBVIOUS
    <2> QED  BY <2>1
  <1>8. s \in Seq(X) /\ Len(s) = 3 /\ \A i \in 1 .. 3 : s[i] = S!uciset("network", S!Fields.network[i], v)
    BY <1>3, <1>7
  <1>9. /\ t \in Seq(X) /\ Len(t) = 6
        /\ t[1] = d /\ t[2] = l /\ t[3] = l /\ t[4] = p /\ t[5] = a /\ t[6] = b
    BY <1>5, <1>7
  <1>10. PICK c : c = S!Commands(m)  OBVIOUS
  <1>f. Follow(c, s, 3, t, 6) /\ IsSequence(c)
    <2>1. Follow(c, s, 3, t, 6)
      BY <1>6, <1>8, <1>9, <1>10, Joined
    <2>2. c \in Seq(X)
      BY <1>6, <1>8, <1>9, <1>10, Joined
    <2> QED  BY <2>1, <2>2, InSequence
  <1>11. /\ Len(c) = 3 + 6
         /\ \A i \in 1 .. 3 : c[i] = s[i]
         /\ \A i \in 1 .. 6 : c[3 + i] = t[i]
    BY <1>f DEF Follow
  <1>12. /\ \A i \in 1 .. 3 : c[i] = S!uciset("network", S!Fields.network[i], v)
         /\ c[4] = d /\ c[5] = l /\ c[6] = l /\ c[7] = p /\ c[8] = a /\ c[9] = b
    <2>1. c[3 + 1] = d /\ c[3 + 2] = l /\ c[3 + 3] = l /\ c[3 + 4] = p /\ c[3 + 5] = a /\ c[3 + 6] = b
      BY <1>9, <1>11
    <2> QED  BY <1>8, <1>11, <2>1
  <1> QED
    BY <1>1, <1>4, <1>f, <1>10, <1>11, <1>12 DEF CommandIs

(* ConfigAsterisk and setgpio.                                              *)
LEMMA AsteriskCommands ==
  ASSUME NEW m \in Asked, m.kind = "asterisk"
  PROVE  /\ Len(S!Commands(m)) = 6 /\ IsSequence(S!Commands(m))
         /\ \A i \in 1 .. 6 : CommandIs(m, i, S!Commands(m)[i])
  <1>1. S!Commands(m) = [i \in 1 .. 6 |-> S!uciset("asterisk", S!Fields.asterisk[i], m.value)]
    BY DEF S!Commands, S!ConfigAsterisk, S!Sets, S!Fields
  <1>2. S!Commands(m) \in Seq({S!uciset("asterisk", S!Fields.asterisk[i], m.value) : i \in 1 .. 6})
    BY <1>1
  <1>3. IsSequence(S!Commands(m))  BY <1>2, InSequence
  <1> QED  BY <1>1, <1>3 DEF CommandIs

LEMMA OutputsCommands ==
  ASSUME NEW m \in Asked, m.kind = "outputs"
  PROVE  /\ Len(S!Commands(m)) = 2 /\ IsSequence(S!Commands(m))
         /\ \A i \in 1 .. 2 : CommandIs(m, i, S!Commands(m)[i])
  <1>1. PICK a, b : a = S!uciset("outputs", "value", m.value) /\ b = S!Commit  OBVIOUS
  <1>2. PICK s, t : s = S!Sets("outputs", S!Fields.outputs, m.value) /\ t = <<b>>  OBVIOUS
  <1>3. s = [i \in 1 .. 1 |-> a]
    BY <1>1, <1>2 DEF S!Sets, S!Fields
  <1>4. PICK X : a \in X /\ b \in X
    <2>1. a \in {a, b} /\ b \in {a, b}  OBVIOUS
    <2> QED  BY <2>1
  <1>5. s \in Seq(X) /\ Len(s) = 1 /\ s[1] = a /\ t \in Seq(X) /\ Len(t) = 1 /\ t[1] = b
    <2>1. s \in Seq(X) /\ Len(s) = 1  BY <1>3, <1>4
    <2>2. s[1] = a  BY <1>3
    <2> QED  BY <1>2, <1>4, <2>1, <2>2
  <1>6. PICK c : c = S!Commands(m)  OBVIOUS
  <1>7. c = s \o t
    BY <1>1, <1>2, <1>6 DEF S!Commands, S!setgpio
  <1>f. Follow(c, s, 1, t, 1) /\ IsSequence(c)
    <2>1. Follow(c, s, 1, t, 1)
      BY <1>5, <1>7, Joined
    <2>2. c \in Seq(X)
      BY <1>5, <1>7, Joined
    <2> QED  BY <2>1, <2>2, InSequence
  <1>8. Len(c) = 1 + 1 /\ c[1] = s[1] /\ c[1 + 1] = t[1]
    <2>2. 1 \in 1 .. 1  OBVIOUS
    <2> QED  BY <1>f, <2>2 DEF Follow
  <1>9. Len(c) = 2 /\ c[1] = a /\ c[2] = b
    BY <1>5, <1>8
  <1> QED
    BY <1>1, <1>f, <1>6, <1>9 DEF CommandIs

(* ConfigNTP.                                                               *)
LEMMA NtpCommands ==
  ASSUME NEW m \in Asked, m.kind = "ntp"
  PROVE  /\ m.servers + 4 \in Nat /\ Len(S!Commands(m)) = m.servers + 4
         /\ IsSequence(S!Commands(m))
         /\ \A i \in 1 .. m.servers + 4 : CommandIs(m, i, S!Commands(m)[i])
  <1>1. PICK n \in Nat : n = m.servers /\ n >= 1
    BY SettingsAssumption
  <1>2. PICK v : v = m.value  OBVIOUS
  <1>3. PICK d, a, l, e : /\ d = S!ucidelete("ntp", "server") /\ a = S!Commit
                          /\ l = S!uciadd_list("ntp", "server", v)
                          /\ e = S!uciset("ntp", "enable_server", v)
    OBVIOUS
  <1>4. PICK s, t, u : s = <<d, a>> /\ t = [i \in 1 .. n |-> l] /\ u = <<e, a>>  OBVIOUS
  <1>5. PICK c : c = S!Commands(m)  OBVIOUS
  <1>6. c = (s \o t) \o u
    BY <1>1, <1>2, <1>3, <1>4, <1>5 DEF S!Commands, S!ConfigNTP, S!Times
  <1>7. PICK X : d \in X /\ a \in X /\ l \in X /\ e \in X
    <2>1. d \in {d, a, l, e} /\ a \in {d, a, l, e} /\ l \in {d, a, l, e} /\ e \in {d, a, l, e}
      OBVIOUS
    <2> QED  BY <2>1
  <1>8. /\ s \in Seq(X) /\ Len(s) = 2 /\ s[1] = d /\ s[2] = a
        /\ t \in Seq(X) /\ Len(t) = n /\ \A i \in 1 .. n : t[i] = l
        /\ u \in Seq(X) /\ Len(u) = 2 /\ u[1] = e /\ u[2] = a
    BY <1>4, <1>7
  <1>9. PICK f : f = s \o t  OBVIOUS
  <1>10. /\ f \in Seq(X) /\ Len(f) = 2 + n
         /\ \A i \in 1 .. 2 : f[i] = s[i]
         /\ \A i \in 1 .. n : f[2 + i] = t[i]
    <2>1. f \in Seq(X) /\ Follow(f, s, 2, t, n)  BY <1>8, <1>9, Joined
    <2> QED  BY <2>1 DEF Follow
  <1>11. PICK k \in Nat : k = 2 + n  OBVIOUS
  <1>s. IsSequence(c)
    <2>1. Len(f) = k  BY <1>10, <1>11
    <2>2. c \in Seq(X)  BY <1>6, <1>8, <1>9, <1>10, <2>1, Joined
    <2> QED  BY <2>2, InSequence
  <1>12. /\ Len(c) = k + 2
         /\ \A i \in 1 .. k : c[i] = f[i]
         /\ \A i \in 1 .. 2 : c[k + i] = u[i]
    <2>1. Len(f) = k  BY <1>10, <1>11
    <2>2. Follow(c, f, k, u, 2)  BY <1>6, <1>8, <1>9, <1>10, <2>1, Joined
    <2> QED  BY <2>2 DEF Follow
  <1>13. ASSUME NEW i \in 1 .. n + 4
         PROVE  c[i] = IF i = 1 THEN d
                       ELSE IF i = 2 \/ i = n + 4 THEN a
                       ELSE IF i = n + 3 THEN e ELSE l
    <2>1. CASE i \in 1 .. 2
      BY <1>8, <1>10, <1>11, <1>12, <2>1
    <2>2. CASE i \in 3 .. n + 2
      <3>1. PICK j \in 1 .. n : i = 2 + j
        <4>1. i - 2 \in 1 .. n /\ i = 2 + (i - 2)  BY <2>2
        <4> QED  BY <4>1
      <3>2. i \in 1 .. k  BY <1>11, <2>2
      <3>3. c[i] = f[i]  BY <1>12, <3>2
      <3>4. f[i] = t[j]  BY <1>10, <3>1
      <3>5. c[i] = l  BY <1>8, <3>3, <3>4
      <3> QED  BY <2>2, <3>5
    <2>3. CASE i = n + 3
      <3>1. i = k + 1  BY <1>11, <2>3
      <3>2. c[i] = e  BY <1>8, <1>12, <3>1
      <3> QED  BY <2>3, <3>2
    <2>4. CASE i = n + 4
      <3>1. i = k + 2  BY <1>11, <2>4
      <3>2. c[i] = a  BY <1>8, <1>12, <3>1
      <3> QED  BY <2>4, <3>2
    <2> QED  BY <2>1, <2>2, <2>3, <2>4
  <1>14. Len(c) = n + 4  BY <1>11, <1>12
  <1> QED
    BY <1>1, <1>2, <1>3, <1>5, <1>13, <1>14, <1>s DEF CommandIs

(* The i-th command of every handler.                                       *)
LEMMA CommandsAre ==
  ASSUME NEW m \in Asked
  PROVE  /\ Commanded(m) \in Nat /\ Len(S!Commands(m)) = Commanded(m)
         /\ IsSequence(S!Commands(m))
         /\ \A i \in 1 .. Commanded(m) : CommandIs(m, i, S!Commands(m)[i])
  <1>1. m.kind \in {"batman", "network", "asterisk", "ntp", "outputs", "restart"}
    BY SettingsAssumption DEF S!Kind, S!Fields
  <1>2. CASE m.kind = "batman"
    BY <1>2, BatmanCommands DEF Commanded
  <1>3. CASE m.kind = "network"
    BY <1>3, NetworkCommands DEF Commanded
  <1>4. CASE m.kind = "asterisk"
    BY <1>4, AsteriskCommands DEF Commanded
  <1>5. CASE m.kind = "ntp"
    BY <1>5, NtpCommands DEF Commanded
  <1>6. CASE m.kind = "outputs"
    BY <1>6, OutputsCommands DEF Commanded
  <1>7. CASE m.kind = "restart"
    <2>1. S!Commands(m) = <<S!Restart, S!Answer>>
      BY <1>7 DEF S!Commands
    <2>2. <<S!Restart, S!Answer>> \in Seq({S!Restart, S!Answer})
      OBVIOUS
    <2>3. IsSequence(S!Commands(m))  BY <2>1, <2>2, InSequence
    <2> QED  BY <1>7, <2>1, <2>3 DEF Commanded, CommandIs
  <1> QED
    BY <1>1, <1>2, <1>3, <1>4, <1>5, <1>6, <1>7

(* The handler of m has td left to do after n commands.                     *)
InPlace(m, td, n) ==
    /\ n \in 0 .. Commanded(m) - 1 /\ IsSequence(td)
    /\ Len(td) = Commanded(m) - n
    /\ \A i \in 1 .. Len(td) : td[i] = S!Commands(m)[n + i]

LEMMA Begins ==
  ASSUME NEW m \in Asked
  PROVE  InPlace(m, S!Commands(m), 0)
  <1>1. Commanded(m) \in Nat /\ Commanded(m) >= 1
    BY SettingsAssumption DEF Commanded, S!Kind, S!Fields
  <1> QED  BY <1>1, CommandsAre DEF InPlace

LEMMA SequenceParts ==
  ASSUME NEW s, IsSequence(s)
  PROVE  /\ Len(s) \in Nat /\ DOMAIN s = 1 .. Len(s)
         /\ Len(s) > 0 => /\ s # <<>> /\ Head(s) = s[1] /\ IsSequence(Tail(s))
                          /\ Len(Tail(s)) = Len(s) - 1
                          /\ \A i \in 1 .. Len(s) - 1 : Tail(s)[i] = s[i + 1]
         /\ Len(s) = 1 => Tail(s) = <<>>
  <1>1. PICK X : s \in Seq(X)  BY DEF IsSequence
  <1>2. CASE Len(s) > 0
    <2>1. Tail(s) \in Seq(X)  BY <1>1, <1>2
    <2>2. IsSequence(Tail(s))  BY <2>1, InSequence
    <2>3. ASSUME Len(s) = 1 PROVE Tail(s) = <<>>
      <3>1. PICK t : t = Tail(s)  OBVIOUS
      <3>2. Len(t) = 0  BY <1>1, <2>3, <3>1
      <3>3. t \in Seq(X)  BY <2>1, <3>1
      <3>4. t = <<>>  BY <3>2, <3>3
      <3> QED  BY <3>1, <3>4
    <2> QED  BY <1>1, <1>2, <2>2, <2>3
  <1> QED  BY <1>1, <1>2

(* The next command, and what is left after it.                             *)
LEMMA Goes ==
  ASSUME NEW m \in Asked, NEW td, NEW n, InPlace(m, td, n)
  PROVE  /\ n \in Nat /\ n + 1 \in 1 .. Commanded(m) /\ Head(td) = S!Commands(m)[n + 1]
         /\ td # <<>> /\ (Len(td) = 1 <=> n + 1 = Commanded(m))
         /\ Len(td) = 1 => Tail(td) = <<>>
         /\ Len(td) # 1 => InPlace(m, Tail(td), n + 1)
  <1>1. PICK k \in Nat : k = Commanded(m)  BY CommandsAre
  <1>2. PICK l \in Nat : l = Len(td) /\ l = k - n /\ l > 0 /\ n \in 0 .. k - 1
    BY <1>1, SequenceParts DEF InPlace
  <1>3. \A i \in 1 .. l : td[i] = S!Commands(m)[n + i]
    BY <1>2 DEF InPlace
  <1>4. /\ td # <<>> /\ Head(td) = td[1] /\ IsSequence(Tail(td))
        /\ Len(Tail(td)) = l - 1
        /\ \A i \in 1 .. l - 1 : Tail(td)[i] = td[i + 1]
        /\ l = 1 => Tail(td) = <<>>
    BY <1>2, SequenceParts DEF InPlace
  <1>5. Head(td) = S!Commands(m)[n + 1]
    BY <1>2, <1>3, <1>4
  <1>6. ASSUME l # 1 PROVE InPlace(m, Tail(td), n + 1)
    <2>1. \A i \in 1 .. l - 1 : Tail(td)[i] = S!Commands(m)[(n + 1) + i]
      <3>1. TAKE i \in 1 .. l - 1
      <3>2. i + 1 \in 1 .. l /\ n + (i + 1) = (n + 1) + i  BY <1>2
      <3>3. td[i + 1] = S!Commands(m)[n + (i + 1)]  BY <1>3, <3>2
      <3> QED  BY <1>4, <3>2, <3>3
    <2>2. n + 1 \in 0 .. k - 1 /\ l - 1 = k - (n + 1)  BY <1>2, <1>6
    <2> QED  BY <1>1, <1>4, <2>1, <2>2 DEF InPlace
  <1> QED  BY <1>1, <1>2, <1>4, <1>5, <1>6

(* What a command does.                                                     *)
Changes(c) == c.do \in {"set", "delete", "add"}

LEMMA CommandChanges ==
  ASSUME NEW m \in Asked, NEW i \in 1 .. Commanded(m)
  PROVE  /\ Changes(S!Commands(m)[i]) <=> i <= Change(m) /\ ~ (m.kind = "ntp" /\ i = 2)
         /\ Change(m) \in Nat /\ Change(m) <= Commanded(m)
         /\ m.kind = "ntp" => Change(m) >= 4
  <1>1. m.kind \in {"batman", "network", "asterisk", "ntp", "outputs", "restart"}
        /\ m.servers \in Nat \ {0}
    BY SettingsAssumption DEF S!Kind, S!Fields
  <1>2. PICK c : c = S!Commands(m)[i]  OBVIOUS
  <1>3. CommandIs(m, i, c)  BY <1>2, CommandsAre
  <1>4. CASE m.kind = "batman"
    BY <1>2, <1>3, <1>4 DEF CommandIs, Commanded, Change, Changes, S!uciset, S!Commit, S!Answer
  <1>5. CASE m.kind = "network"
    BY <1>2, <1>3, <1>5 DEF CommandIs, Commanded, Change, Changes, S!uciset, S!Commit, S!Answer,
       S!ucidelete, S!uciadd_list
  <1>6. CASE m.kind = "asterisk"
    BY <1>2, <1>3, <1>6 DEF CommandIs, Commanded, Change, Changes, S!uciset
  <1>7. CASE m.kind = "outputs"
    BY <1>2, <1>3, <1>7 DEF CommandIs, Commanded, Change, Changes, S!uciset, S!Commit
  <1>8. CASE m.kind = "ntp"
    BY <1>1, <1>2, <1>3, <1>8 DEF CommandIs, Commanded, Change, Changes, S!uciset, S!Commit,
       S!ucidelete, S!uciadd_list
  <1>9. CASE m.kind = "restart"
    BY <1>2, <1>3, <1>9 DEF CommandIs, Commanded, Change, Changes, S!Restart, S!Answer
  <1> QED
    BY <1>1, <1>4, <1>5, <1>6, <1>7, <1>8, <1>9

(* Some of kind k is staged, and some is not.                               *)
Under(h, n, k) == h # None /\ h.kind = k /\ 1 <= n /\ n < Change(h)

LEMMA UnderChanging ==
  ASSUME handling \in Asked \cup {None}, NEW n, handling # None => InPlace(handling, todo, n),
         NEW k \in S!Kind, Under(handling, n, k)
  PROVE  k \in S!Changing
  <1>1. handling \in Asked /\ handling # None /\ handling.kind = k /\ InPlace(handling, todo, n)
    BY DEF Under
  <1>2. PICK m \in Asked : m = handling  BY <1>1
  <1>3. PICK l \in Nat : l = Commanded(m)  BY CommandsAre
  <1>4. n \in 0 .. l - 1 /\ Len(todo) = l - n /\ IsSequence(todo)
        /\ \A i \in 1 .. Len(todo) : todo[i] = S!Commands(m)[n + i]
    BY <1>1, <1>2, <1>3 DEF InPlace
  <1>5. l \in 1 .. l /\ n >= 1
    BY <1>4 DEF Under
  <1>6. PICK c \in Nat : c = Change(m) /\ c <= l /\ n < c /\ (m.kind = "ntp" => c >= 4)
    BY <1>2, <1>3, <1>5, CommandChanges DEF Under
  <1>7. c \in 1 .. l /\ c - n \in 1 .. l - n /\ n + (c - n) = c
    BY <1>4, <1>6
  <1>8. Changes(S!Commands(m)[c])
    BY <1>3, <1>6, <1>7, CommandChanges
  <1>9. Changes(todo[c - n]) /\ c - n \in DOMAIN todo
    BY <1>4, <1>7, <1>8, SequenceParts
  <1>10. todo # S!Commands(m)
    BY <1>3, <1>4, <1>5, CommandsAre
  <1> QED
    BY <1>1, <1>2, <1>9, <1>10 DEF S!Changing, Changes

(* The options of a kind, by number.                                        *)
Opt(k, i) == <<k, S!Fields[k][i]>>

Width(k) == CASE k = "batman" -> 4 [] k = "network" -> 5 [] k = "asterisk" -> 6
              [] k = "ntp" -> 2 [] k = "outputs" -> 1

Kinds == {"batman", "network", "asterisk", "ntp", "outputs"}

LEMMA KindIs == S!Kind = Kinds
  BY DEF S!Kind, S!Fields, Kinds

LEMMA OptionsAre ==
  ASSUME NEW k \in Kinds
  PROVE  /\ S!Options(k) = {Opt(k, i) : i \in 1 .. Width(k)}
         /\ S!Options(k) \subseteq S!Option
  <1>1. DOMAIN S!Fields[k] = 1 .. Width(k)
    <2>1. CASE k = "batman"   BY <2>1 DEF S!Fields, Width
    <2>2. CASE k = "network"  BY <2>2 DEF S!Fields, Width
    <2>3. CASE k = "asterisk" BY <2>3 DEF S!Fields, Width
    <2>4. CASE k = "ntp"      BY <2>4 DEF S!Fields, Width
    <2>5. CASE k = "outputs"  BY <2>5 DEF S!Fields, Width
    <2> QED  BY <2>1, <2>2, <2>3, <2>4, <2>5 DEF Kinds
  <1>2. S!ToSet(S!Fields[k]) = {S!Fields[k][i] : i \in 1 .. Width(k)}
    BY <1>1 DEF S!ToSet
  <1>3. S!Options(k) = {Opt(k, i) : i \in 1 .. Width(k)}
    BY <1>2, Zenon DEF S!Options, Opt
  <1>4. S!Options(k) \subseteq S!Option
    BY KindIs DEF S!Option
  <1> QED  BY <1>3, <1>4

LEMMA OptionOf ==
  ASSUME NEW k \in Kinds, NEW i \in 1 .. Width(k)
  PROVE  Opt(k, i) \in S!Options(k) /\ Opt(k, i) \in S!Option
  BY OptionsAre

LEMMA OtherOption ==
  ASSUME NEW k \in Kinds, NEW j \in Kinds, NEW o \in S!Options(k), NEW p \in S!Options(j), k # j
  PROVE  o # p
  <1>1. o[1] = k  BY DEF S!Options
  <1>2. p[1] = j  BY DEF S!Options
  <1> QED  BY <1>1, <1>2

LEMMA OptionsDiffer ==
  ASSUME NEW k \in Kinds, NEW i \in 1 .. Width(k), NEW j \in 1 .. Width(k), i # j
  PROVE  Opt(k, i) # Opt(k, j)
  <1>1. S!Fields[k][i] # S!Fields[k][j]
    BY DEF S!Fields, Kinds, Width
  <1> QED  BY <1>1 DEF Opt

LEMMA ListsAre ==
  ASSUME NEW k \in Kinds, NEW i \in 1 .. Width(k)
  PROVE  /\ Opt(k, i) \in S!Lists <=> (k = "network" /\ i = 4) \/ (k = "ntp" /\ i = 1)
         /\ Opt(k, i) = Dns <=> k = "network" /\ i = 4
  <1>1. Opt(k, i)[1] = k /\ Opt(k, i)[2] = S!Fields[k][i]
    BY DEF Opt
  <1>2. S!Fields[k][i] = "dns" <=> k = "network" /\ i = 4
    BY DEF S!Fields, Kinds, Width
  <1>3. k = "ntp" => (S!Fields[k][i] = "server" <=> i = 1)
    BY DEF S!Fields, Kinds, Width
  <1>4. Opt(k, i) = Dns <=> k = "network" /\ i = 4
    BY <1>1, <1>2 DEF Dns, Opt
  <1>5. Opt(k, i) = Server <=> k = "ntp" /\ i = 1
    BY <1>1, <1>3 DEF Server, Opt
  <1> QED  BY <1>4, <1>5 DEF S!Lists, Dns, Server

LEMMA OneValue ==
  ASSUME NEW v
  PROVE  /\ S!ToSet(<<v>>) = {v} /\ Len(<<v>>) = 1
         /\ S!ToSet(<<v, v>>) = {v} /\ Len(<<v, v>>) = 2
  BY DEF S!ToSet

(* What a command makes of the options.                                     *)
Staged(vw, c) ==
    CASE c.do = "set"    -> [vw EXCEPT ![c.option] = <<c.value>>]
      [] c.do = "delete" -> [vw EXCEPT ![c.option] = <<>>]
      [] c.do = "add"    -> [vw EXCEPT ![c.option] = Append(@, c.value)]
      [] OTHER           -> vw

LEMMA StagedIs ==
  ASSUME NEW c, S!Stage(c)
  PROVE  view' = Staged(view, c)
  BY DEF S!Stage, Staged

(* Only the option o of the kind changes, to what it is then.               *)
Sets(vw, vw2, o, s) ==
    /\ vw2 \in [S!Option -> Seq(Value)]
    /\ vw2[o] = s
    /\ \A p \in S!Option : p # o => vw2[p] = vw[p]

LEMMA SetSets ==
  ASSUME NEW vw \in [S!Option -> Seq(Value)], NEW k, NEW f, <<k, f>> \in S!Option, NEW v \in Value,
         NEW c, c = S!uciset(k, f, v)
  PROVE  Sets(vw, Staged(vw, c), <<k, f>>, <<v>>)
  <1>1. Staged(vw, c) = [vw EXCEPT ![<<k, f>>] = <<v>>]
    BY DEF Staged, S!uciset
  <1>2. PICK o \in S!Option : o = <<k, f>>  OBVIOUS
  <1>3. PICK s \in Seq(Value) : s = <<v>>
    <2>1. <<v>> \in Seq(Value)  OBVIOUS
    <2> QED  BY <2>1
  <1>4. PICK vw2 : vw2 = [vw EXCEPT ![o] = s]  OBVIOUS
  <1>5. Sets(vw, vw2, o, s)  BY <1>4 DEF Sets
  <1> QED  BY <1>1, <1>2, <1>3, <1>4, <1>5

LEMMA DeleteSets ==
  ASSUME NEW vw \in [S!Option -> Seq(Value)], NEW k, NEW f, <<k, f>> \in S!Option,
         NEW c, c = S!ucidelete(k, f)
  PROVE  Sets(vw, Staged(vw, c), <<k, f>>, <<>>)
  <1>1. Staged(vw, c) = [vw EXCEPT ![<<k, f>>] = <<>>]
    BY DEF Staged, S!ucidelete
  <1>2. PICK o \in S!Option : o = <<k, f>>  OBVIOUS
  <1>3. PICK s \in Seq(Value) : s = <<>>
    <2>1. <<>> \in Seq(Value)  OBVIOUS
    <2> QED  BY <2>1
  <1>4. PICK vw2 : vw2 = [vw EXCEPT ![o] = s]  OBVIOUS
  <1>5. Sets(vw, vw2, o, s)  BY <1>4 DEF Sets
  <1> QED  BY <1>1, <1>2, <1>3, <1>4, <1>5

LEMMA AddSets ==
  ASSUME NEW vw \in [S!Option -> Seq(Value)], NEW k, NEW f, <<k, f>> \in S!Option, NEW v \in Value,
         NEW c, c = S!uciadd_list(k, f, v)
  PROVE  Sets(vw, Staged(vw, c), <<k, f>>, Append(vw[<<k, f>>], v))
  <1>1. Staged(vw, c) = [vw EXCEPT ![<<k, f>>] = Append(@, v)]
    BY DEF Staged, S!uciadd_list
  <1>2. PICK o \in S!Option : o = <<k, f>>  OBVIOUS
  <1>3. PICK s \in Seq(Value) : s = Append(vw[o], v)
    <2>1. PICK r \in Seq(Value) : r = vw[o]  OBVIOUS
    <2>2. Append(r, v) \in Seq(Value)  OBVIOUS
    <2> QED  BY <2>1, <2>2
  <1>4. PICK vw2 : vw2 = [vw EXCEPT ![o] = s]  OBVIOUS
  <1>5. Sets(vw, vw2, o, s)  BY <1>4 DEF Sets
  <1>6. Staged(vw, c) = vw2  BY <1>1, <1>2, <1>3, <1>4
  <1> QED  BY <1>2, <1>3, <1>5, <1>6

(* What the first n commands of the handler of m have made of its options.  *)
SetSoFar(m, n, vw) ==
    /\ m.kind \in {"batman", "asterisk", "outputs"} =>
          \A i \in 1 .. Width(m.kind) : i <= n => vw[Opt(m.kind, i)] = <<m.value>>
    /\ m.kind = "network" =>
          /\ \A i \in 1 .. 3 : i <= n => vw[Opt("network", i)] = <<m.value>>
          /\ n = 4 => vw[Opt("network", 4)] = <<>>
          /\ n = 5 => vw[Opt("network", 4)] = <<m.value>>
          /\ n >= 6 => vw[Opt("network", 4)] = <<m.value, m.value>>
          /\ n >= 7 => vw[Opt("network", 5)] = <<m.value>>
    /\ m.kind = "ntp" =>
          /\ n \in 1 .. 2 => vw[Opt("ntp", 1)] = <<>>
          /\ n >= 3 => /\ Len(vw[Opt("ntp", 1)]) = IF n < m.servers + 2 THEN n - 2 ELSE m.servers
                       /\ S!ToSet(vw[Opt("ntp", 1)]) = {m.value}
          /\ n >= m.servers + 3 => vw[Opt("ntp", 2)] = <<m.value>>

(* The options of the other kinds stay as they were.                        *)
Grown(m, n, vw, vw2) ==
    /\ vw2 \in [S!Option -> Seq(Value)]
    /\ SetSoFar(m, n + 1, vw2)
    /\ \A k \in Kinds \ {m.kind} : \A o \in S!Options(k) : vw2[o] = vw[o]

(* Of the kind, only the option numbered i changes, to what it is then.     *)
OnlySets(k, i, vw, vw2, s) ==
    /\ \A j \in Kinds \ {k} : \A o \in S!Options(j) : vw2[o] = vw[o]
    /\ \A j \in 1 .. Width(k) : j # i => vw2[Opt(k, j)] = vw[Opt(k, j)]
    /\ vw2[Opt(k, i)] = s /\ vw2 \in [S!Option -> Seq(Value)]

LEMMA SetsOthers ==
  ASSUME NEW k \in Kinds, NEW i \in 1 .. Width(k), NEW vw, NEW vw2, NEW s,
         Sets(vw, vw2, Opt(k, i), s)
  PROVE  OnlySets(k, i, vw, vw2, s)
  <1>1. ASSUME NEW j \in Kinds \ {k}, NEW o \in S!Options(j)
        PROVE  vw2[o] = vw[o]
    BY OtherOption, OptionsAre, OptionOf DEF Sets
  <1>2. ASSUME NEW j \in 1 .. Width(k), j # i
        PROVE  vw2[Opt(k, j)] = vw[Opt(k, j)]
    BY <1>2, OptionsDiffer, OptionOf DEF Sets
  <1>3. vw2[Opt(k, i)] = s /\ vw2 \in [S!Option -> Seq(Value)]
    BY DEF Sets
  <1> QED  BY <1>1, <1>2, <1>3 DEF OnlySets

(* The kinds whose commands set the options in their order.                 *)
LEMMA PlainGrows ==
  ASSUME NEW m \in Asked, m.kind \in {"batman", "asterisk", "outputs"}, NEW n \in Nat,
         n + 1 \in 1 .. Width(m.kind), NEW vw \in [S!Option -> Seq(Value)], SetSoFar(m, n, vw),
         NEW c, c = S!Commands(m)[n + 1]
  PROVE  Grown(m, n, vw, Staged(vw, c))
  <1>1. PICK k \in Kinds : k = m.kind  BY DEF Kinds
  <1>2. PICK v \in Value : v = m.value  BY SettingsAssumption
  <1>3. PICK w \in Nat : w = Width(k)  BY DEF Kinds, Width
  <1>4. PICK i \in 1 .. w : i = n + 1  BY <1>1, <1>3
  <1>5. c = S!uciset(k, S!Fields[k][i], v)
    <2>1. CommandIs(m, i, c)
      BY <1>1, <1>3, <1>4, CommandsAre DEF Commanded, Width
    <2>2. CASE k = "batman"
      BY <1>1, <1>2, <1>3, <1>4, <2>1, <2>2 DEF CommandIs, Width
    <2>3. CASE k = "asterisk"
      BY <1>1, <1>2, <1>3, <1>4, <2>1, <2>3 DEF CommandIs, Width
    <2>4. CASE k = "outputs"
      <3>1. i = 1 /\ S!Fields[k][i] = "value"  BY <1>3, <1>4, <2>4 DEF Width, S!Fields
      <3> QED  BY <1>1, <1>2, <2>1, <2>4, <3>1 DEF CommandIs
    <2> QED  BY <1>1, <2>2, <2>3, <2>4
  <1>6. Opt(k, i) \in S!Option
    BY <1>3, OptionOf
  <1>7. PICK vw2 : vw2 = Staged(vw, c)  OBVIOUS
  <1>8. Sets(vw, vw2, Opt(k, i), <<v>>)
    BY <1>5, <1>6, <1>7, SetSets DEF Opt
  <1>9. /\ \A j \in Kinds \ {k} : \A o \in S!Options(j) : vw2[o] = vw[o]
        /\ \A j \in 1 .. w : j # i => vw2[Opt(k, j)] = vw[Opt(k, j)]
        /\ vw2[Opt(k, i)] = <<v>> /\ vw2 \in [S!Option -> Seq(Value)]
    <2>1. OnlySets(k, i, vw, vw2, <<v>>)  BY <1>3, <1>8, SetsOthers
    <2> QED  BY <1>3, <2>1 DEF OnlySets
  <1>10. \A j \in 1 .. w : j <= n => vw[Opt(k, j)] = <<v>>
    BY <1>1, <1>2, <1>3 DEF SetSoFar
  <1>11. \A j \in 1 .. w : j <= n + 1 => vw2[Opt(k, j)] = <<v>>
    <2>1. TAKE j \in 1 .. w
    <2>2. j = i \/ (j # i /\ (j <= n + 1 => j <= n))  BY <1>4
    <2> QED  BY <1>9, <1>10, <2>2
  <1>12. SetSoFar(m, n + 1, vw2)
    BY <1>1, <1>2, <1>3, <1>11 DEF SetSoFar
  <1> QED  BY <1>1, <1>7, <1>9, <1>12 DEF Grown

LEMMA NetworkGrows ==
  ASSUME NEW m \in Asked, m.kind = "network", NEW n \in Nat, n + 1 \in 1 .. 7,
         NEW vw \in [S!Option -> Seq(Value)], SetSoFar(m, n, vw),
         NEW c, c = S!Commands(m)[n + 1]
  PROVE  Grown(m, n, vw, Staged(vw, c))
  <1>1. PICK k \in Kinds : k = "network"  BY DEF Kinds
  <1>2. PICK v \in Value : v = m.value  BY SettingsAssumption
  <1>3. Width(k) = 5  BY <1>1 DEF Width
  <1>4. PICK i \in 1 .. 7 : i = n + 1  OBVIOUS
  <1>5. PICK vw2 : vw2 = Staged(vw, c)  OBVIOUS
  <1>6. CommandIs(m, i, c)
    BY <1>4, CommandsAre DEF Commanded
  <1>7. /\ Opt(k, 4) = <<"network", "dns">> /\ Opt(k, 5) = <<"network", "proto">>
        /\ \A j \in 1 .. 5 : Opt(k, j) \in S!Option
    <2>1. \A j \in 1 .. 5 : Opt(k, j) \in S!Option  BY <1>3, OptionOf
    <2> QED  BY <1>1, <2>1 DEF Opt, S!Fields
  <1>8. /\ \A j \in 1 .. 3 : j <= n => vw[Opt(k, j)] = <<v>>
        /\ n = 4 => vw[Opt(k, 4)] = <<>>
        /\ n = 5 => vw[Opt(k, 4)] = <<v>>
        /\ n = 6 => vw[Opt(k, 4)] = <<v, v>>
    BY <1>1, <1>2 DEF SetSoFar
  <1>9. ASSUME NEW j \in 1 .. 5, NEW s, Sets(vw, vw2, Opt(k, j), s),
               i <= 3 => j = i /\ s = <<v>>,
               i = 4 => j = 4 /\ s = <<>>,
               i = 5 => j = 4 /\ s = <<v>>,
               i = 6 => j = 4 /\ s = <<v, v>>,
               i = 7 => j = 5 /\ s = <<v>>
        PROVE  Grown(m, n, vw, vw2)
    <2>1. /\ \A l \in Kinds \ {k} : \A o \in S!Options(l) : vw2[o] = vw[o]
          /\ \A l \in 1 .. 5 : l # j => vw2[Opt(k, l)] = vw[Opt(k, l)]
          /\ vw2[Opt(k, j)] = s /\ vw2 \in [S!Option -> Seq(Value)]
      <3>1. OnlySets(k, j, vw, vw2, s)  BY <1>3, <1>9, SetsOthers
      <3> QED  BY <1>3, <3>1 DEF OnlySets
    <2>2. \A l \in 1 .. 3 : l <= i => vw2[Opt(k, l)] = <<v>>
      <3>1. TAKE l \in 1 .. 3
      <3>2. l = j \/ (l # j /\ (l <= i => l <= n))  BY <1>4, <1>9
      <3> QED  BY <1>4, <1>8, <1>9, <2>1, <3>2
    <2>3. i = 4 => vw2[Opt(k, 4)] = <<>>   BY <1>9, <2>1
    <2>4. i = 5 => vw2[Opt(k, 4)] = <<v>>  BY <1>9, <2>1
    <2>5. i >= 6 => vw2[Opt(k, 4)] = <<v, v>>
      <3>1. CASE i = 6  BY <1>9, <2>1, <3>1
      <3>2. CASE i = 7  BY <1>4, <1>8, <1>9, <2>1, <3>2
      <3> QED  BY <1>4, <3>1, <3>2
    <2>6. i >= 7 => vw2[Opt(k, 5)] = <<v>>  BY <1>4, <1>9, <2>1
    <2>7. SetSoFar(m, i, vw2)
      BY <1>1, <1>2, <2>2, <2>3, <2>4, <2>5, <2>6 DEF SetSoFar
    <2> QED  BY <1>1, <1>4, <2>1, <2>7 DEF Grown
  <1>10. CASE i <= 3
    <2>1. c = S!uciset(k, S!Fields[k][i], v)
      BY <1>1, <1>2, <1>6, <1>10 DEF CommandIs, S!Fields
    <2>2. Sets(vw, vw2, Opt(k, i), <<v>>)
      <3>1. i \in 1 .. 5 /\ Opt(k, i) = <<k, S!Fields[k][i]>>  BY <1>10 DEF Opt
      <3> QED  BY <1>2, <1>5, <1>7, <2>1, <3>1, SetSets
    <2> QED  BY <1>5, <1>9, <1>10, <2>2
  <1>11. CASE i = 4
    <2>1. c = S!ucidelete("network", "dns")
      BY <1>6, <1>11 DEF CommandIs
    <2>2. Sets(vw, vw2, Opt(k, 4), <<>>)
      BY <1>5, <1>7, <2>1, DeleteSets
    <2> QED  BY <1>5, <1>9, <1>11, <2>2
  <1>12. CASE i \in {5, 6}
    <2>1. c = S!uciadd_list("network", "dns", v)
      BY <1>2, <1>6, <1>12 DEF CommandIs
    <2>2. Sets(vw, vw2, Opt(k, 4), Append(vw[Opt(k, 4)], v))
      BY <1>2, <1>5, <1>7, <2>1, AddSets
    <2>3. Append(<<>>, v) = <<v>> /\ Append(<<v>>, v) = <<v, v>>
      <3>1. <<>> \in Seq(Value) /\ <<v>> \in Seq(Value)  BY <1>2
      <3>2. Append(<<>>, v) = <<v>>  BY <1>2, <3>1
      <3>3. Append(<<v>>, v) = <<v, v>>
        <4>r. PICK r : r = <<v>>  OBVIOUS
        <4>1. r = <<v>> /\ r \in Seq(Value) /\ Len(r) = 1 /\ r[1] = v  BY <1>2, <4>r
        <4>2. PICK t : t = Append(r, v)  OBVIOUS
        <4>3. t \in Seq(Value) /\ Len(t) = 2 /\ t[1] = v /\ t[2] = v  BY <1>2, <4>1, <4>2
        <4>4. t = <<v, v>>  BY <4>3
        <4> QED  BY <4>1, <4>2, <4>4
      <3> QED  BY <3>2, <3>3
    <2>4. CASE i = 5
      <3>1. n = 4  BY <1>4, <2>4
      <3>2. vw[Opt(k, 4)] = <<>>  BY <1>8, <3>1
      <3>3. Sets(vw, vw2, Opt(k, 4), <<v>>)  BY <2>2, <2>3, <3>2
      <3> QED  BY <1>5, <1>9, <2>4, <3>3
    <2>5. CASE i = 6
      <3>1. n = 5  BY <1>4, <2>5
      <3>2. vw[Opt(k, 4)] = <<v>>  BY <1>8, <3>1
      <3>3. Sets(vw, vw2, Opt(k, 4), <<v, v>>)  BY <2>2, <2>3, <3>2
      <3> QED  BY <1>5, <1>9, <2>5, <3>3
    <2> QED  BY <1>12, <2>4, <2>5
  <1>13. CASE i = 7
    <2>1. c = S!uciset("network", "proto", v)
      BY <1>2, <1>6, <1>13 DEF CommandIs
    <2>2. Sets(vw, vw2, Opt(k, 5), <<v>>)
      <3>1. <<"network", "proto">> \in S!Option
        <4>1. 5 \in 1 .. 5  OBVIOUS
        <4>2. Opt(k, 5) \in S!Option  BY <1>7, <4>1
        <4> QED  BY <1>7, <4>2
      <3>2. Sets(vw, vw2, <<"network", "proto">>, <<v>>)  BY <1>2, <1>5, <2>1, <3>1, SetSets
      <3> QED  BY <1>7, <3>2
    <2> QED  BY <1>5, <1>9, <1>13, <2>2
  <1> QED  BY <1>10, <1>11, <1>12, <1>13

LEMMA AppendSame ==
  ASSUME NEW q \in Seq(Value), NEW v \in Value, q = <<>> \/ S!ToSet(q) = {v}
  PROVE  /\ Append(q, v) \in Seq(Value) /\ Len(Append(q, v)) = Len(q) + 1
         /\ S!ToSet(Append(q, v)) = {v}
  <1>1. PICK n \in Nat : n = Len(q)  OBVIOUS
  <1>2. PICK t : t = Append(q, v)  OBVIOUS
  <1>3. /\ t \in Seq(Value) /\ Len(t) = n + 1 /\ t[n + 1] = v
        /\ \A i \in 1 .. n : t[i] = q[i]
    BY <1>1, <1>2
  <1>4. \A i \in 1 .. n : q[i] = v
    <2>1. CASE q = <<>>  BY <1>1, <2>1
    <2>2. CASE S!ToSet(q) = {v}
      <3>1. DOMAIN q = 1 .. n  BY <1>1
      <3>2. \A i \in 1 .. n : q[i] \in S!ToSet(q)  BY <3>1 DEF S!ToSet
      <3> QED  BY <2>2, <3>2
    <2> QED  BY <2>1, <2>2
  <1>5. DOMAIN t = 1 .. n + 1  BY <1>1, <1>3
  <1>6. \A i \in 1 .. n + 1 : t[i] = v
    <2>1. TAKE i \in 1 .. n + 1
    <2>2. i = n + 1 \/ i \in 1 .. n  BY <1>1
    <2> QED  BY <1>3, <1>4, <2>2
  <1>7. n + 1 \in 1 .. n + 1  BY <1>1
  <1>8. S!ToSet(t) = {v}
    BY <1>5, <1>6, <1>7 DEF S!ToSet
  <1> QED  BY <1>1, <1>2, <1>3, <1>8

LEMMA NtpGrows ==
  ASSUME NEW m \in Asked, m.kind = "ntp", NEW n \in Nat, n + 1 \in 1 .. m.servers + 3, n # 1,
         NEW vw \in [S!Option -> Seq(Value)], SetSoFar(m, n, vw),
         NEW c, c = S!Commands(m)[n + 1]
  PROVE  Grown(m, n, vw, Staged(vw, c))
  <1>1. PICK k \in Kinds : k = "ntp"  BY DEF Kinds
  <1>2. PICK v \in Value : v = m.value  BY SettingsAssumption
  <1>3. Width(k) = 2  BY <1>1 DEF Width
  <1>s. PICK u \in Nat : u = m.servers /\ u >= 1  BY SettingsAssumption
  <1>4. PICK i \in 1 .. u + 3 : i = n + 1 /\ i # 2  BY <1>s
  <1>5. PICK vw2 : vw2 = Staged(vw, c)  OBVIOUS
  <1>6. CommandIs(m, i, c)
    BY <1>4, <1>s, CommandsAre DEF Commanded
  <1>7. /\ Opt(k, 1) = <<"ntp", "server">> /\ Opt(k, 2) = <<"ntp", "enable_server">>
        /\ Opt(k, 1) \in S!Option /\ Opt(k, 2) \in S!Option
    <2>1. 1 \in 1 .. 2 /\ 2 \in 1 .. 2  OBVIOUS
    <2>2. Opt(k, 1) \in S!Option /\ Opt(k, 2) \in S!Option  BY <1>3, <2>1, OptionOf
    <2> QED  BY <1>1, <2>2 DEF Opt, S!Fields
  <1>8. /\ n = 2 => vw[Opt(k, 1)] = <<>>
        /\ n >= 3 => /\ Len(vw[Opt(k, 1)]) = IF n < u + 2 THEN n - 2 ELSE u
                     /\ S!ToSet(vw[Opt(k, 1)]) = {v}
    BY <1>1, <1>2, <1>s DEF SetSoFar
  <1>9. CASE i = 1
    <2>1. c = S!ucidelete("ntp", "server")
      BY <1>6, <1>9 DEF CommandIs
    <2>2. <<"ntp", "server">> \in S!Option  BY <1>7
    <2>3. Sets(vw, vw2, <<"ntp", "server">>, <<>>)
      BY <1>5, <2>1, <2>2, DeleteSets
    <2>4. 1 \in 1 .. 2 /\ Sets(vw, vw2, Opt(k, 1), <<>>)  BY <1>7, <2>3
    <2>5. OnlySets(k, 1, vw, vw2, <<>>)  BY <1>3, <2>4, SetsOthers
    <2>6. vw2[Opt(k, 1)] = <<>>  BY <2>5 DEF OnlySets
    <2>7. SetSoFar(m, i, vw2)
      BY <1>1, <1>s, <1>9, <2>6 DEF SetSoFar
    <2> QED  BY <1>1, <1>4, <1>5, <2>5, <2>7 DEF OnlySets, Grown
  <1>10. CASE i \in 3 .. u + 2
    <2>1. c = S!uciadd_list("ntp", "server", v)
      <3>1. i # 1 /\ i # 2 /\ i # u + 4 /\ i # u + 3  BY <1>s, <1>10
      <3> QED  BY <1>2, <1>6, <1>s, <3>1 DEF CommandIs
    <2>2. <<"ntp", "server">> \in S!Option  BY <1>7
    <2>3. Sets(vw, vw2, <<"ntp", "server">>, Append(vw[<<"ntp", "server">>], v))
      BY <1>2, <1>5, <2>1, <2>2, AddSets
    <2>4. PICK q \in Seq(Value) : q = vw[Opt(k, 1)]  BY <1>7
    <2>5. Sets(vw, vw2, Opt(k, 1), Append(q, v))  BY <1>7, <2>3, <2>4, Zenon
    <2>n. 1 \in 1 .. 2  OBVIOUS
    <2>6. OnlySets(k, 1, vw, vw2, Append(q, v))  BY <1>3, <2>5, <2>n, SetsOthers
    <2>7. vw2[Opt(k, 1)] = Append(q, v)  BY <2>6 DEF OnlySets
    <2>8. Len(q) = n - 2 /\ (q = <<>> \/ S!ToSet(q) = {v})
      <3>1. CASE n = 2
        <4>1. q = <<>>  BY <1>8, <2>4, <3>1
        <4>2. Len(q) = 0  BY <4>1
        <4> QED  BY <3>1, <4>1, <4>2
      <3>2. CASE n >= 3
        <4>1. n < u + 2  BY <1>s, <1>4, <1>10
        <4> QED  BY <1>8, <2>4, <3>2, <4>1
      <3> QED  BY <1>4, <1>10, <3>1, <3>2
    <2>9. Len(Append(q, v)) = i - 2 /\ S!ToSet(Append(q, v)) = {v}
      <3>1. Len(Append(q, v)) = Len(q) + 1 /\ S!ToSet(Append(q, v)) = {v}
        BY <1>2, <2>4, <2>8, AppendSame
      <3> QED  BY <1>4, <2>8, <3>1
    <2>10. Len(vw2[Opt(k, 1)]) = (IF i < u + 2 THEN i - 2 ELSE u) /\ S!ToSet(vw2[Opt(k, 1)]) = {v}
      BY <1>s, <1>10, <2>7, <2>9
    <2>11. SetSoFar(m, i, vw2)
      BY <1>1, <1>2, <1>s, <1>10, <2>10 DEF SetSoFar
    <2> QED  BY <1>1, <1>4, <1>5, <2>6, <2>11 DEF OnlySets, Grown
  <1>11. CASE i = u + 3
    <2>1. c = S!uciset("ntp", "enable_server", v)
      <3>1. i # 1 /\ i # 2 /\ i # u + 4  BY <1>s, <1>11
      <3> QED  BY <1>2, <1>6, <1>s, <1>11, <3>1 DEF CommandIs
    <2>2. <<"ntp", "enable_server">> \in S!Option  BY <1>7
    <2>3. Sets(vw, vw2, <<"ntp", "enable_server">>, <<v>>)
      BY <1>2, <1>5, <2>1, <2>2, SetSets
    <2>4. Sets(vw, vw2, Opt(k, 2), <<v>>)  BY <1>7, <2>3, Zenon
    <2>n. 2 \in 1 .. 2  OBVIOUS
    <2>5. OnlySets(k, 2, vw, vw2, <<v>>)  BY <1>3, <2>4, <2>n, SetsOthers
    <2>6. vw2[Opt(k, 2)] = <<v>> /\ vw2[Opt(k, 1)] = vw[Opt(k, 1)]
      <3>1. 1 \in 1 .. Width(k) /\ 1 # 2  BY <1>3
      <3> QED  BY <2>5, <3>1 DEF OnlySets
    <2>7. Len(vw2[Opt(k, 1)]) = u /\ S!ToSet(vw2[Opt(k, 1)]) = {v}
      <3>1. n >= 3 /\ ~ (n < u + 2)  BY <1>s, <1>4, <1>11
      <3> QED  BY <1>8, <2>6, <3>1
    <2>8. SetSoFar(m, i, vw2)
      BY <1>1, <1>2, <1>s, <1>11, <2>6, <2>7 DEF SetSoFar
    <2> QED  BY <1>1, <1>4, <1>5, <2>5, <2>8 DEF OnlySets, Grown
  <1> QED  BY <1>4, <1>s, <1>9, <1>10, <1>11

(* A command of any handler that changes an option.                         *)
LEMMA CommandGrows ==
  ASSUME NEW m \in Asked, NEW n \in Nat, n + 1 \in 1 .. Commanded(m),
         NEW vw \in [S!Option -> Seq(Value)], SetSoFar(m, n, vw),
         NEW c, c = S!Commands(m)[n + 1], Changes(c)
  PROVE  Grown(m, n, vw, Staged(vw, c))
  <1>1. m.kind \in {"batman", "network", "asterisk", "ntp", "outputs", "restart"}
        /\ m.servers \in Nat \ {0}
    BY SettingsAssumption DEF S!Kind, S!Fields
  <1>2. n + 1 <= Change(m) /\ ~ (m.kind = "ntp" /\ n + 1 = 2)
    BY CommandChanges
  <1>3. CASE m.kind \in {"batman", "asterisk", "outputs"}
    <2>1. Change(m) = Width(m.kind) /\ Width(m.kind) \in Nat  BY <1>3 DEF Change, Width
    <2>2. n + 1 \in 1 .. Width(m.kind)  BY <1>2, <2>1
    <2> QED  BY <1>3, <2>2, PlainGrows
  <1>4. CASE m.kind = "network"
    <2>1. n + 1 \in 1 .. 7  BY <1>2, <1>4 DEF Change
    <2> QED  BY <1>4, <2>1, NetworkGrows
  <1>5. CASE m.kind = "ntp"
    <2>1. n + 1 \in 1 .. m.servers + 3 /\ n # 1  BY <1>1, <1>2, <1>5 DEF Change
    <2> QED  BY <1>5, <2>1, NtpGrows
  <1>6. CASE m.kind = "restart"
    BY <1>2, <1>6 DEF Change
  <1> QED  BY <1>1, <1>3, <1>4, <1>5, <1>6

(* A command that changes none.                                             *)
LEMMA CommandKeeps ==
  ASSUME NEW m \in Asked, NEW n \in Nat, n + 1 \in 1 .. Commanded(m),
         NEW vw, SetSoFar(m, n, vw), ~ Changes(S!Commands(m)[n + 1])
  PROVE  SetSoFar(m, n + 1, vw)
  <1>1. m.kind \in {"batman", "network", "asterisk", "ntp", "outputs", "restart"}
        /\ m.servers \in Nat \ {0}
    BY SettingsAssumption DEF S!Kind, S!Fields
  <1>2. n + 1 > Change(m) \/ (m.kind = "ntp" /\ n + 1 = 2)
    BY CommandChanges
  <1>3. CASE m.kind \in {"batman", "asterisk", "outputs"}
    <2>1. Change(m) = Width(m.kind) /\ Width(m.kind) \in Nat  BY <1>3 DEF Change, Width
    <2> QED  BY <1>2, <1>3, <2>1 DEF SetSoFar
  <1>4. CASE m.kind = "network"
    BY <1>2, <1>4 DEF Change, SetSoFar
  <1>5. CASE m.kind = "ntp"
    BY <1>1, <1>2, <1>5 DEF Change, SetSoFar
  <1>6. CASE m.kind = "restart"
    BY <1>6 DEF SetSoFar
  <1> QED  BY <1>1, <1>3, <1>4, <1>5, <1>6

(* All changes made, the options of the kind come from the message.         *)
LEMMA AllSet ==
  ASSUME NEW m \in Asked, m.kind \in Kinds, NEW n \in Nat, n >= Change(m),
         NEW vw, SetSoFar(m, n, vw)
  PROVE  S!From(m.value, vw, S!Options(m.kind))
  <1>1. PICK k \in Kinds : k = m.kind  OBVIOUS
  <1>2. PICK v : v = m.value  OBVIOUS
  <1>3. m.servers \in Nat \ {0}  BY SettingsAssumption
  <1>4. \A i \in 1 .. Width(k) : /\ S!ToSet(vw[Opt(k, i)]) = {v}
                                 /\ (k = "network" /\ i = 4) => Len(vw[Opt(k, i)]) = 2
                                 /\ ~ ((k = "network" /\ i = 4) \/ (k = "ntp" /\ i = 1))
                                       => Len(vw[Opt(k, i)]) = 1
    <2>1. TAKE i \in 1 .. Width(k)
    <2>2. CASE k \in {"batman", "asterisk", "outputs"}
      <3>1. i <= n  BY <1>1, <2>2 DEF Change, Width
      <3>2. vw[Opt(k, i)] = <<v>>  BY <1>1, <1>2, <2>2, <3>1 DEF SetSoFar
      <3> QED  BY <2>2, <3>2, OneValue
    <2>3. CASE k = "network"
      <3>1. n >= 7 /\ i \in 1 .. 5  BY <1>1, <2>3 DEF Change, Width
      <3>2. CASE i = 4
        <4>1. vw[Opt(k, i)] = <<v, v>>  BY <1>1, <1>2, <2>3, <3>1, <3>2 DEF SetSoFar
        <4> QED  BY <2>3, <3>2, <4>1, OneValue
      <3>3. CASE i # 4
        <4>1. i \in 1 .. 3 \/ i = 5  BY <3>1, <3>3
        <4>2. vw[Opt(k, i)] = <<v>>  BY <1>1, <1>2, <2>3, <3>1, <4>1 DEF SetSoFar
        <4> QED  BY <2>3, <3>3, <4>2, OneValue
      <3> QED  BY <3>2, <3>3
    <2>4. CASE k = "ntp"
      <3>1. n >= m.servers + 3 /\ i \in 1 .. 2  BY <1>1, <2>4 DEF Change, Width
      <3>2. CASE i = 1
        <4>1. n >= 3  BY <1>3, <3>1
        <4> QED  BY <1>1, <1>2, <2>4, <3>2, <4>1 DEF SetSoFar
      <3>3. CASE i = 2
        <4>1. vw[Opt(k, i)] = <<v>>  BY <1>1, <1>2, <2>4, <3>1, <3>3 DEF SetSoFar
        <4> QED  BY <2>4, <3>3, <4>1, OneValue
      <3> QED  BY <3>1, <3>2, <3>3
    <2> QED  BY <2>2, <2>3, <2>4 DEF Kinds
  <1>5. ASSUME NEW o \in S!Options(k)
        PROVE  /\ S!ToSet(vw[o]) = {v}
               /\ (o = <<"network", "dns">> => Len(vw[o]) = 2)
               /\ (o \notin S!Lists => Len(vw[o]) = 1)
    <2>1. PICK i \in 1 .. Width(k) : o = Opt(k, i)  BY OptionsAre
    <2>2. /\ o \in S!Lists <=> (k = "network" /\ i = 4) \/ (k = "ntp" /\ i = 1)
          /\ o = <<"network", "dns">> <=> k = "network" /\ i = 4
      BY <2>1, ListsAre DEF Dns
    <2> QED  BY <1>4, <2>1, <2>2
  <1> QED  BY <1>1, <1>2, <1>5 DEF S!From

(* What the i-th command of the handler of m is.                            *)
CommandCases(m, i, c) ==
    \/ Changes(c) /\ c # S!Commit /\ c # S!Answer /\ c # S!Restart /\ m.kind \in Kinds
       /\ i <= Change(m)
    \/ /\ c = S!Commit /\ ~ Changes(c) /\ m.kind \in Kinds
       /\ i > Change(m) \/ (m.kind = "ntp" /\ i = 2)
       /\ m.kind \in {"batman", "network"} => i = Change(m) + 1
    \/ /\ c = S!Answer /\ c # S!Commit /\ ~ Changes(c) /\ i = Commanded(m)
       /\ m.kind = "restart" \/ (m.kind \in {"batman", "network"} /\ i = Change(m) + 2)
    \/ c = S!Restart /\ c # S!Commit /\ c # S!Answer /\ ~ Changes(c) /\ m.kind = "restart"

LEMMA CommandsInCases ==
  ASSUME NEW m \in Asked, NEW i \in 1 .. Commanded(m), NEW c, c = S!Commands(m)[i]
  PROVE  CommandCases(m, i, c)
  <1>1. m.kind \in {"batman", "network", "asterisk", "ntp", "outputs", "restart"}
        /\ m.servers \in Nat \ {0}
    BY SettingsAssumption DEF S!Kind, S!Fields
  <1>2. CommandIs(m, i, c)  BY CommandsAre
  <1>3. Changes(c) <=> i <= Change(m) /\ ~ (m.kind = "ntp" /\ i = 2)
    BY CommandChanges
  <1>4. S!Commit.do = "commit" /\ S!Answer.do = "200" /\ S!Restart.do = "restart"
    BY DEF S!Commit, S!Answer, S!Restart
  <1>5. /\ Changes(c) => c # S!Commit /\ c # S!Answer /\ c # S!Restart
        /\ S!Commit # S!Answer /\ S!Restart # S!Commit /\ S!Restart # S!Answer
    <2>1. Changes(c) => c.do # "commit" /\ c.do # "200" /\ c.do # "restart"  BY DEF Changes
    <2> QED  BY <1>4, <2>1
  <1>6. CASE m.kind = "batman"
    <2>1. i \in 1 .. 6 /\ Change(m) = 4 /\ Commanded(m) = 6  BY <1>6 DEF Commanded, Change
    <2>2. i = 5 => c = S!Commit  BY <1>2, <1>6 DEF CommandIs
    <2>3. i = 6 => c = S!Answer  BY <1>2, <1>6 DEF CommandIs
    <2> QED  BY <1>3, <1>5, <1>6, <2>1, <2>2, <2>3 DEF CommandCases, Kinds
  <1>7. CASE m.kind = "network"
    <2>1. i \in 1 .. 9 /\ Change(m) = 7 /\ Commanded(m) = 9  BY <1>7 DEF Commanded, Change
    <2>2. i = 8 => c = S!Commit  BY <1>2, <1>7 DEF CommandIs
    <2>3. i = 9 => c = S!Answer  BY <1>2, <1>7 DEF CommandIs
    <2> QED  BY <1>3, <1>5, <1>7, <2>1, <2>2, <2>3 DEF CommandCases, Kinds
  <1>8. CASE m.kind = "asterisk"
    BY <1>3, <1>5, <1>8 DEF CommandCases, Kinds, Commanded, Change
  <1>9. CASE m.kind = "outputs"
    <2>1. i \in 1 .. 2 /\ Change(m) = 1 /\ Commanded(m) = 2  BY <1>9 DEF Commanded, Change
    <2>2. i = 2 => c = S!Commit  BY <1>2, <1>9 DEF CommandIs
    <2> QED  BY <1>3, <1>5, <1>9, <2>1, <2>2 DEF CommandCases, Kinds
  <1>10. CASE m.kind = "ntp"
    <2>0. PICK u \in Nat : u = m.servers /\ u >= 1  BY <1>1
    <2>1. i \in 1 .. u + 4 /\ Change(m) = u + 3 /\ Commanded(m) = u + 4
      BY <1>10, <2>0 DEF Commanded, Change
    <2>2. i = 2 \/ i = u + 4 => c = S!Commit  BY <1>2, <1>10, <2>0 DEF CommandIs
    <2>3. i <= Change(m) \/ i = u + 4  BY <2>0, <2>1
    <2>4. CASE Changes(c)  BY <1>3, <1>5, <1>10, <2>4 DEF CommandCases, Kinds
    <2>5. CASE ~ Changes(c)
      <3>1. i = 2 \/ i = u + 4  BY <1>3, <1>10, <2>3, <2>5
      <3>2. i = 2 \/ i > Change(m)  BY <2>0, <2>1, <3>1
      <3> QED  BY <1>10, <2>2, <2>5, <3>1, <3>2 DEF CommandCases, Kinds
    <2> QED  BY <2>4, <2>5
  <1>11. CASE m.kind = "restart"
    <2>1. i \in 1 .. 2 /\ Change(m) = 0 /\ Commanded(m) = 2  BY <1>11 DEF Commanded, Change
    <2>2. c = IF i = 1 THEN S!Restart ELSE S!Answer  BY <1>2, <1>11 DEF CommandIs
    <2> QED  BY <1>3, <1>5, <1>11, <2>1, <2>2 DEF CommandCases
  <1> QED  BY <1>1, <1>6, <1>7, <1>8, <1>9, <1>10, <1>11

-----------------------------------------------------------------------------
(* What can be said of a kind: where it is not excused, and not being       *)
(* changed, its options come from one message, the one that was promised.   *)
Settled(k, conf, pr) ==
    /\ S!Whole(conf, S!Options(k))
    /\ pr[k] # None => S!From(pr[k], conf, S!Options(k))

ViewGood(k, hf, h, n, vw, pr) == <<"view", k>> \in hf \/ Under(h, n, k) \/ Settled(k, vw, pr)
FlashGood(k, hf, cm, pr)      == <<"flash", k>> \in hf \/ Settled(k, cm, pr)
UseGood(hf, iu) == <<"inuse", "network">> \in hf \/ S!Whole(iu, S!Options("network"))

ToldGood(tl, hf) ==
    tl # None =>
       IF tl.kind = "network"
       THEN /\ <<"inuse", "network">> \in hf \/ S!Whole(tl.options, S!Address)
            /\ <<"view", "network">> \in hf
               \/ S!Whole(tl.options, S!Options("network") \ S!Address)
       ELSE <<"view", tl.kind>> \in hf \/ S!Whole(tl.options, S!Options(tl.kind))

Doing(h, td, n, vw, cm, pr) ==
    /\ n \in Nat
    /\ h = None => n = 0
    /\ h # None => /\ h \in Asked /\ InPlace(h, td, n) /\ SetSoFar(h, n, vw)
                   /\ h.kind \in Kinds => pr[h.kind] = None
                   /\ h.kind \in {"batman", "network"} /\ n = Change(h) + 1
                         => S!From(h.value, cm, S!Options(h.kind))

SetInv(n) ==
    /\ S!TypeOK
    /\ Doing(handling, todo, n, view, committed, promised)
    /\ \A k \in Kinds : ViewGood(k, half, handling, n, view, promised)
    /\ \A k \in Kinds : FlashGood(k, half, committed, promised)
    /\ UseGood(half, inuse)
    /\ ToldGood(told, half)

LEMMA FromSame ==
  ASSUME NEW v, NEW conf, NEW conf2, NEW options, \A o \in options : conf[o] = conf2[o],
         S!From(v, conf, options)
  PROVE  S!From(v, conf2, options)
  BY DEF S!From

LEMMA WholeSame ==
  ASSUME NEW conf, NEW conf2, NEW options, NEW fewer, fewer \subseteq options,
         \A o \in fewer : conf[o] = conf2[o], S!Whole(conf, options)
  PROVE  S!Whole(conf2, fewer)
  BY DEF S!From, S!Whole

LEMMA SettledSame ==
  ASSUME NEW k, NEW conf, NEW conf2, \A o \in S!Options(k) : conf[o] = conf2[o],
         NEW pr, NEW pr2, pr2[k] \in {pr[k], None}, Settled(k, conf, pr)
  PROVE  Settled(k, conf2, pr2)
  <1>1. S!Whole(conf2, S!Options(k))
    BY WholeSame DEF Settled
  <1>2. ASSUME pr2[k] # None PROVE S!From(pr2[k], conf2, S!Options(k))
    <2>1. pr2[k] = pr[k] /\ S!From(pr[k], conf, S!Options(k))  BY <1>2 DEF Settled
    <2> QED  BY <2>1, FromSame
  <1> QED  BY <1>1, <1>2 DEF Settled

LEMMA SettledBy ==
  ASSUME NEW k, NEW conf, NEW v \in Value, S!From(v, conf, S!Options(k)),
         NEW pr, pr[k] \in {v, None}
  PROVE  Settled(k, conf, pr)
  BY DEF Settled, S!Whole

(* Putting kinds at a place leaves the other places alone.                  *)
Placed(hf, place, kinds) == {h \in hf : h[1] # place} \cup {<<place, k>> : k \in kinds}

LEMMA PlacedIn ==
  ASSUME NEW hf, NEW place \in S!Place, NEW kinds,
         hf \subseteq S!Place \X Kinds, kinds \subseteq Kinds
  PROVE  /\ Placed(hf, place, kinds) \subseteq S!Place \X Kinds
         /\ \A k \in Kinds : <<place, k>> \in Placed(hf, place, kinds) <=> k \in kinds
         /\ \A k \in Kinds : \A p \in S!Place :
               p # place => (<<p, k>> \in Placed(hf, place, kinds) <=> <<p, k>> \in hf)
  BY DEF Placed

LEMMA PutIs ==
  ASSUME NEW place, NEW kinds
  PROVE  S!Put(place, kinds) = Placed(half, place, kinds)
  BY DEF S!Put, Placed

LEMMA AtIn ==
  ASSUME NEW place
  PROVE  /\ S!At(place) \subseteq Kinds
         /\ \A k \in Kinds : k \in S!At(place) <=> <<place, k>> \in half
  BY KindIs DEF S!At

-----------------------------------------------------------------------------
(* The steps, one by one.                                                   *)
LEMMA SetInvInit ==
  ASSUME S!Init
  PROVE  SetInv(0)
  <1>1. S!Option = UNION {S!Options(k) : k \in Kinds}
    BY KindIs DEF S!Option
  <1>2. \A o \in S!Option : S!New[o] = IF o \in S!Lists THEN S!Times(Factory, 2) ELSE <<Factory>>
    BY DEF S!New
  <1>3. Factory \in Value  BY SettingsAssumption
  <1>4. S!Times(Factory, 2) = <<Factory, Factory>>
    BY DEF S!Times
  <1>5. <<Factory>> \in Seq(Value) /\ <<Factory, Factory>> \in Seq(Value)
    BY <1>3
  <1>6. S!New \in [S!Option -> Seq(Value)]
    BY <1>4, <1>5 DEF S!New
  <1>7. ASSUME NEW k \in Kinds PROVE S!From(Factory, S!New, S!Options(k))
    <2>1. ASSUME NEW o \in S!Options(k)
          PROVE  /\ S!ToSet(S!New[o]) = {Factory}
                 /\ o = <<"network", "dns">> => Len(S!New[o]) = 2
                 /\ o \notin S!Lists => Len(S!New[o]) = 1
      <3>1. o \in S!Option  BY OptionsAre
      <3>2. o = <<"network", "dns">> => o \in S!Lists  BY DEF S!Lists
      <3>3. CASE o \in S!Lists
        <4>1. S!New[o] = <<Factory, Factory>>  BY <1>2, <1>4, <3>1, <3>3
        <4> QED  BY <3>3, <4>1, OneValue
      <3>4. CASE o \notin S!Lists
        <4>1. S!New[o] = <<Factory>>  BY <1>2, <3>1, <3>4
        <4> QED  BY <3>2, <3>4, <4>1, OneValue
      <3> QED  BY <3>3, <3>4
    <2> QED  BY <2>1 DEF S!From
  <1>8. /\ view = S!New /\ committed = S!New
        /\ inuse = [o \in S!Options("network") |-> S!New[o]]
        /\ handling = None /\ todo = <<>> /\ told = None
        /\ promised = [k \in S!Kind |-> None] /\ half = {}
    BY DEF S!Init
  <1>n. "network" \in Kinds  BY DEF Kinds
  <1>9. inuse \in [S!Options("network") -> Seq(Value)]
    <2>1. S!Options("network") \subseteq S!Option  BY <1>n, OptionsAre
    <2> QED  BY <1>6, <1>8, <2>1
  <1>10. S!TypeOK
    BY <1>6, <1>8, <1>9 DEF S!TypeOK
  <1>11. Doing(handling, todo, 0, view, committed, promised)
    BY <1>8 DEF Doing
  <1>12. \A k \in Kinds : Settled(k, S!New, promised)
    <2>1. TAKE k \in Kinds
    <2>2. promised[k] = None  BY <1>8, KindIs
    <2> QED  BY <1>3, <1>7, <2>2, SettledBy
  <1>13. UseGood(half, inuse)
    <2>1. S!Whole(S!New, S!Options("network"))  BY <1>n, <1>12 DEF Settled
    <2>2. \A o \in S!Options("network") : S!New[o] = inuse[o]  BY <1>8
    <2>3. S!Whole(inuse, S!Options("network"))  BY <2>1, <2>2, WholeSame
    <2> QED  BY <2>3 DEF UseGood
  <1>14. ToldGood(told, half)
    BY <1>8 DEF ToldGood
  <1>15. \A k \in Kinds : /\ ViewGood(k, half, handling, 0, view, promised)
                          /\ FlashGood(k, half, committed, promised)
    BY <1>8, <1>12 DEF ViewGood, FlashGood
  <1> QED  BY <1>10, <1>11, <1>13, <1>14, <1>15 DEF SetInv

LEMMA MessageStep ==
  ASSUME NEW n, SetInv(n), NEW m \in Asked, S!process_udp(m)
  PROVE  SetInv(0)'
  <1>1. /\ handling = None /\ handling' = m /\ todo' = S!Commands(m) /\ told' = None
        /\ promised' = IF m.kind \in S!Kind THEN [promised EXCEPT ![m.kind] = None] ELSE promised
        /\ view' = view /\ committed' = committed /\ inuse' = inuse /\ half' = half
    BY DEF S!process_udp
  <1>2. /\ S!TypeOK /\ UseGood(half, inuse)
        /\ \A k \in Kinds : ViewGood(k, half, handling, n, view, promised)
        /\ \A k \in Kinds : FlashGood(k, half, committed, promised)
    BY DEF SetInv
  <1>3. m # None  BY SettingsAssumption
  <1>4. /\ InPlace(m, S!Commands(m), 0) /\ S!Commands(m) # <<>>
    BY Begins, Goes
  <1>5. promised' \in [S!Kind -> Value \cup {None}] /\ \A k \in Kinds : promised'[k] \in {promised[k], None}
    BY <1>1, <1>2, KindIs DEF S!TypeOK
  <1>6. m.kind \in Kinds => promised'[m.kind] = None
    BY <1>1, <1>2, KindIs DEF S!TypeOK
  <1>7. S!TypeOK'
    BY <1>1, <1>2, <1>3, <1>4, <1>5 DEF S!TypeOK
  <1>8. SetSoFar(m, 0, view)
    BY SettingsAssumption DEF SetSoFar, Width
  <1>9. Doing(m, S!Commands(m), 0, view, committed, promised')
    BY <1>3, <1>4, <1>6, <1>8 DEF Doing, Change
  <1>10. ASSUME NEW k \in Kinds
         PROVE  /\ ViewGood(k, half, m, 0, view, promised')
                /\ FlashGood(k, half, committed, promised')
    <2>1. \A o \in S!Options(k) : view[o] = view[o] /\ committed[o] = committed[o]  OBVIOUS
    <2>2. promised'[k] \in {promised[k], None}  BY <1>5
    <2>3. Settled(k, view, promised) => Settled(k, view, promised')
      BY <2>1, <2>2, SettledSame
    <2>4. Settled(k, committed, promised) => Settled(k, committed, promised')
      BY <2>1, <2>2, SettledSame
    <2>5. ~ Under(handling, n, k)  BY <1>1 DEF Under
    <2> QED  BY <1>2, <2>3, <2>4, <2>5 DEF ViewGood, FlashGood
  <1>11. ToldGood(told', half')  BY <1>1 DEF ToldGood
  <1> QED  BY <1>1, <1>2, <1>7, <1>9, <1>10, <1>11 DEF SetInv

LEMMA RequestStep ==
  ASSUME NEW n, SetInv(n), NEW k \in {"batman", "network", "asterisk"},
         S!Request(k, CASE k = "batman" -> S!ConfigBatmanReq
                        [] k = "network" -> S!ConfigReq
                        [] k = "asterisk" -> S!AsteriskStatReq)
  PROVE  SetInv(n)'
  <1>1. PICK answer : answer = CASE k = "batman" -> S!ConfigBatmanReq
                                 [] k = "network" -> S!ConfigReq
                                 [] k = "asterisk" -> S!AsteriskStatReq
    OBVIOUS
  <1>2. /\ handling = None /\ told' = [kind |-> k, options |-> answer]
        /\ view' = view /\ committed' = committed /\ inuse' = inuse /\ half' = half
        /\ handling' = handling /\ todo' = todo /\ promised' = promised
    BY <1>1 DEF S!Request
  <1>3. /\ S!TypeOK /\ UseGood(half, inuse)
        /\ Doing(handling, todo, n, view, committed, promised)
        /\ \A j \in Kinds : ViewGood(j, half, handling, n, view, promised)
        /\ \A j \in Kinds : FlashGood(j, half, committed, promised)
    BY DEF SetInv
  <1>4. S!TypeOK'  BY <1>2, <1>3 DEF S!TypeOK
  <1>5. k \in Kinds /\ "network" \in Kinds  BY DEF Kinds
  <1>6. ~ Under(handling, n, k)  BY <1>2 DEF Under
  <1>7. <<"view", k>> \in half \/ S!Whole(view, S!Options(k))
    BY <1>3, <1>5, <1>6 DEF ViewGood, Settled
  <1>8. told'.kind = k /\ told'.options = answer  BY <1>2
  <1>9. CASE k = "network"
    <2>1. answer = [o \in S!Options("network") |->
                      IF o[2] \in {"ipaddr", "netmask"} THEN inuse[o] ELSE view[o]]
      BY <1>1, <1>9 DEF S!ConfigReq
    <2>2. S!Address \subseteq S!Options("network")
      <3>1. <<"network", "ipaddr">> = Opt("network", 1) /\ <<"network", "netmask">> = Opt("network", 2)
        BY DEF Opt, S!Fields
      <3>2. 1 \in 1 .. Width("network") /\ 2 \in 1 .. Width("network")  BY DEF Width
      <3>3. Opt("network", 1) \in S!Options("network") /\ Opt("network", 2) \in S!Options("network")
        BY <1>5, <3>2, OptionOf
      <3> QED  BY <3>1, <3>3 DEF S!Address
    <2>3. \A o \in S!Address : inuse[o] = answer[o]
      <3>1. \A o \in S!Address : o[2] \in {"ipaddr", "netmask"}  BY DEF S!Address
      <3> QED  BY <2>1, <2>2, <3>1
    <2>4. \A o \in S!Options("network") \ S!Address : view[o] = answer[o]
      <3>1. ASSUME NEW o \in S!Options("network"), o[2] \in {"ipaddr", "netmask"}
            PROVE  o \in S!Address
        <4>1. PICK f : o = <<"network", f>>  BY DEF S!Options
        <4> QED  BY <3>1, <4>1 DEF S!Address
      <3> QED  BY <2>1, <3>1
    <2>5. <<"inuse", "network">> \in half \/ S!Whole(answer, S!Address)
      <3>1. S!Whole(inuse, S!Options("network")) => S!Whole(answer, S!Address)
        BY <2>2, <2>3, WholeSame
      <3> QED  BY <1>3, <3>1 DEF UseGood
    <2>6. S!Whole(view, S!Options("network")) => S!Whole(answer, S!Options("network") \ S!Address)
      <3>1. S!Options("network") \ S!Address \subseteq S!Options("network")  OBVIOUS
      <3> QED  BY <2>4, <3>1, WholeSame
    <2>7. <<"view", "network">> \in half \/ S!Whole(answer, S!Options("network") \ S!Address)
      BY <1>7, <1>9, <2>6
    <2>8. ToldGood(told', half)
      BY <1>8, <1>9, <2>5, <2>7 DEF ToldGood
    <2> QED  BY <1>2, <1>3, <1>4, <2>8 DEF SetInv
  <1>10. CASE k # "network"
    <2>1. answer = [o \in S!Options(k) |-> view[o]]
      BY <1>1, <1>10 DEF S!ConfigBatmanReq, S!AsteriskStatReq
    <2>2. \A o \in S!Options(k) : view[o] = answer[o]  BY <2>1
    <2>3. S!Whole(view, S!Options(k)) => S!Whole(answer, S!Options(k))
      BY <2>2, WholeSame
    <2>4. <<"view", k>> \in half \/ S!Whole(answer, S!Options(k))
      BY <1>7, <2>3
    <2>5. ToldGood(told', half)
      BY <1>8, <1>10, <2>4 DEF ToldGood
    <2> QED  BY <1>2, <1>3, <1>4, <2>5 DEF SetInv
  <1> QED  BY <1>9, <1>10

(* The handler of m after one more command: it goes on, or is done.         *)
After(h, td, k, m, n) ==
    /\ k \in Nat
    /\ \/ h = m /\ k = n + 1 /\ n + 1 # Commanded(m)
       \/ h = None /\ k = 0 /\ n + 1 = Commanded(m)
    /\ h = None <=> td = <<>>

LEMMA StepGoes ==
  ASSUME NEW n, SetInv(n), S!Step
  PROVE  /\ handling \in Asked /\ n \in Nat /\ n + 1 \in 1 .. Commanded(handling)
         /\ Head(todo) = S!Commands(handling)[n + 1]
         /\ SetSoFar(handling, n, view) /\ InPlace(handling, todo, n)
         /\ handling.kind \in Kinds => promised[handling.kind] = None
         /\ CommandCases(handling, n + 1, Head(todo))
  <1>1. /\ handling \in Asked /\ InPlace(handling, todo, n) /\ SetSoFar(handling, n, view)
        /\ handling.kind \in Kinds => promised[handling.kind] = None
    BY DEF SetInv, Doing, S!Step
  <1>2. PICK c : c = Head(todo)  OBVIOUS
  <1>3. n \in Nat /\ n + 1 \in 1 .. Commanded(handling) /\ c = S!Commands(handling)[n + 1]
    BY <1>1, <1>2, Goes
  <1>4. CommandCases(handling, n + 1, c)
    BY <1>1, <1>3, CommandsInCases
  <1> QED  BY <1>1, <1>2, <1>3, <1>4

LEMMA StepDoing ==
  ASSUME NEW n, SetInv(n), S!Step, SetSoFar(handling, n + 1, view'),
         n + 1 # Commanded(handling) =>
            /\ handling.kind \in Kinds => promised'[handling.kind] = None
            /\ handling.kind \in {"batman", "network"} /\ n + 1 = Change(handling) + 1
                  => S!From(handling.value, committed', S!Options(handling.kind))
  PROVE  \E k : /\ Doing(handling', todo', k, view', committed', promised')
                /\ After(handling', todo', k, handling, n)
  <1>1. handling \in Asked /\ n \in Nat /\ InPlace(handling, todo, n) /\ handling # None
    BY StepGoes DEF S!Step
  <1>2. handling' = (IF Len(todo) = 1 THEN None ELSE handling) /\ todo' = Tail(todo)
    BY DEF S!Step
  <1>3. /\ Len(todo) = 1 <=> n + 1 = Commanded(handling)
        /\ Len(todo) = 1 => Tail(todo) = <<>>
        /\ Len(todo) # 1 => InPlace(handling, Tail(todo), n + 1)
    BY <1>1, Goes
  <1>4. CASE Len(todo) = 1
    <2>1. Doing(handling', todo', 0, view', committed', promised')
      BY <1>2, <1>4 DEF Doing
    <2>2. After(handling', todo', 0, handling, n)
      BY <1>2, <1>3, <1>4 DEF After
    <2> QED  BY <2>1, <2>2
  <1>5. CASE Len(todo) # 1
    <2>1. InPlace(handling, todo', n + 1) /\ n + 1 # Commanded(handling) /\ handling' = handling
      BY <1>2, <1>3, <1>5
    <2>2. todo' # <<>>  BY <1>1, <2>1, Goes
    <2>3. Doing(handling, todo', n + 1, view', committed', promised')
      BY <1>1, <2>1 DEF Doing
    <2>4. After(handling, todo', n + 1, handling, n)
      BY <1>1, <2>1, <2>2 DEF After
    <2> QED  BY <2>1, <2>3, <2>4
  <1> QED  BY <1>4, <1>5

(* A command that changes an option.                                        *)
LEMMA ChangeStep ==
  ASSUME NEW n, SetInv(n), S!Step, Changes(Head(todo))
  PROVE  \E k \in Nat : SetInv(k)'
  <1>1. PICK m \in Asked : m = handling  BY StepGoes
  <1>2. /\ n \in Nat /\ n + 1 \in 1 .. Commanded(m) /\ SetSoFar(m, n, view)
        /\ Head(todo) = S!Commands(m)[n + 1] /\ InPlace(m, todo, n)
        /\ m.kind \in Kinds => promised[m.kind] = None
    BY <1>1, StepGoes
  <1>3. PICK c : c = Head(todo)  OBVIOUS
  <1>4. /\ Changes(c) /\ c # S!Commit /\ c # S!Answer /\ c # S!Restart /\ m.kind \in Kinds
        /\ n + 1 <= Change(m)
    <2>1. CommandCases(m, n + 1, c) /\ Changes(c)  BY <1>1, <1>3, StepGoes
    <2> QED  BY <2>1 DEF CommandCases
  <1>5. /\ S!Stage(c) /\ half' = S!Put("view", S!At("view") \ {m.kind}) /\ told' = None
        /\ committed' = committed /\ inuse' = inuse /\ promised' = promised
    BY <1>1, <1>3, <1>4 DEF S!Step, S!Run
  <1>6. /\ S!TypeOK /\ UseGood(half, inuse)
        /\ \A k \in Kinds : ViewGood(k, half, m, n, view, promised)
        /\ \A k \in Kinds : FlashGood(k, half, committed, promised)
    BY <1>1 DEF SetInv
  <1>7. view \in [S!Option -> Seq(Value)] /\ half \subseteq S!Place \X Kinds
    BY <1>6, KindIs DEF S!TypeOK
  <1>8. Grown(m, n, view, view')
    <2>1. view' = Staged(view, c)  BY <1>5, StagedIs
    <2> QED  BY <1>2, <1>3, <1>4, <1>7, <2>1, CommandGrows
  <1>9. /\ view' \in [S!Option -> Seq(Value)] /\ SetSoFar(m, n + 1, view')
        /\ \A k \in Kinds \ {m.kind} : \A o \in S!Options(k) : view'[o] = view[o]
    BY <1>8 DEF Grown
  <1>10. /\ half' \subseteq S!Place \X Kinds
         /\ \A k \in Kinds : <<"view", k>> \in half' <=> <<"view", k>> \in half /\ k # m.kind
         /\ \A k \in Kinds : \A p \in S!Place \ {"view"} : <<p, k>> \in half' <=> <<p, k>> \in half
    <2>1. half' = Placed(half, "view", S!At("view") \ {m.kind})  BY <1>5, PutIs
    <2>2. S!At("view") \ {m.kind} \subseteq Kinds /\ "view" \in S!Place  BY AtIn DEF S!Place
    <2>3. \A k \in Kinds : k \in S!At("view") <=> <<"view", k>> \in half  BY AtIn
    <2>4. /\ half' \subseteq S!Place \X Kinds
          /\ \A k \in Kinds : <<"view", k>> \in half' <=> k \in S!At("view") \ {m.kind}
          /\ \A k \in Kinds : \A p \in S!Place :
                p # "view" => (<<p, k>> \in half' <=> <<p, k>> \in half)
      BY <1>7, <2>1, <2>2, PlacedIn
    <2> QED  BY <2>3, <2>4
  <1>11. n + 1 # Change(m) + 1 /\ Change(m) \in Nat /\ Change(m) <= Commanded(m)
    BY <1>2, <1>4, CommandChanges
  <1>12. PICK l : /\ Doing(handling', todo', l, view', committed', promised')
                  /\ After(handling', todo', l, m, n)
    BY <1>1, <1>2, <1>5, <1>9, <1>11, StepDoing
  <1>13. S!TypeOK'
    BY <1>1, <1>5, <1>6, <1>9, <1>10, <1>12, KindIs DEF S!TypeOK, After
  <1>14. ASSUME NEW k \in Kinds
         PROVE  ViewGood(k, half', handling', l, view', promised')
    <2>1. CASE k # m.kind
      <3>1. ~ Under(m, n, k)  BY <2>1 DEF Under
      <3>2. \A o \in S!Options(k) : view[o] = view'[o]  BY <1>9, <2>1
      <3>3. promised'[k] \in {promised[k], None}  BY <1>5
      <3>4. Settled(k, view, promised) => Settled(k, view', promised')
        BY <3>2, <3>3, SettledSame
      <3> QED  BY <1>6, <1>10, <2>1, <3>1, <3>4 DEF ViewGood
    <2>2. CASE k = m.kind /\ n + 1 < Change(m)
      <3>1. n + 1 # Commanded(m)  BY <1>2, <1>11, <2>2
      <3>2. handling' = m /\ l = n + 1  BY <1>12, <3>1 DEF After
      <3>3. m # None  BY SettingsAssumption
      <3>4. Under(m, n + 1, k)  BY <1>2, <2>2, <3>3 DEF Under
      <3> QED  BY <3>2, <3>4 DEF ViewGood
    <2>3. CASE k = m.kind /\ n + 1 >= Change(m)
      <3>1. S!From(m.value, view', S!Options(k))
        BY <1>2, <1>9, <2>3, AllSet
      <3>2. promised'[k] = None  BY <1>2, <1>5, <2>3
      <3>3. m.value \in Value  BY SettingsAssumption
      <3>4. Settled(k, view', promised')
        BY <3>1, <3>2, <3>3, SettledBy
      <3> QED  BY <3>4 DEF ViewGood
    <2> QED  BY <1>2, <1>11, <2>1, <2>2, <2>3
  <1>15. "flash" \in S!Place \ {"view"} /\ "inuse" \in S!Place \ {"view"} /\ "network" \in Kinds
    BY DEF S!Place, Kinds
  <1>16. \A k \in Kinds : FlashGood(k, half', committed', promised')
    BY <1>5, <1>6, <1>10, <1>15 DEF FlashGood
  <1>17. UseGood(half', inuse')
    BY <1>5, <1>6, <1>10, <1>15 DEF UseGood
  <1>18. ToldGood(told', half')  BY <1>5 DEF ToldGood
  <1>19. l \in Nat  BY <1>12 DEF After
  <1> QED
    BY <1>12, <1>13, <1>14, <1>16, <1>17, <1>18, <1>19 DEF SetInv

LEMMA CommandsDiffer ==
  S!Commit # S!Answer /\ S!Restart # S!Commit /\ S!Restart # S!Answer
  <1>1. S!Commit.do = "commit" /\ S!Answer.do = "200" /\ S!Restart.do = "restart"
    BY DEF S!Commit, S!Answer, S!Restart
  <1> QED  BY <1>1

(* Uci commits what is staged, and excuses what is being changed.           *)
Committing(excused) ==
    /\ view' = view /\ committed' = view /\ inuse' = inuse /\ promised' = promised
    /\ half' = S!Put("flash", S!At("view") \cup excused)

LEMMA Commits ==
  ASSUME NEW n, SetInv(n), NEW excused, excused \subseteq Kinds,
         \A k \in Kinds : Under(handling, n, k) => k \in excused, Committing(excused)
  PROVE  /\ half' \subseteq S!Place \X Kinds
         /\ \A k \in Kinds : FlashGood(k, half', committed', promised')
         /\ \A k \in Kinds : <<"view", k>> \in half' <=> <<"view", k>> \in half
         /\ UseGood(half', inuse')
         /\ committed' \in [S!Option -> Seq(Value)]
  <1>1. /\ S!TypeOK /\ UseGood(half, inuse)
        /\ \A k \in Kinds : ViewGood(k, half, handling, n, view, promised)
    BY DEF SetInv
  <1>2. view \in [S!Option -> Seq(Value)] /\ half \subseteq S!Place \X Kinds
    BY <1>1, KindIs DEF S!TypeOK
  <1>3. /\ half' \subseteq S!Place \X Kinds
        /\ \A k \in Kinds : <<"flash", k>> \in half' <=> k \in S!At("view") \cup excused
        /\ \A k \in Kinds : \A p \in S!Place :
              p # "flash" => (<<p, k>> \in half' <=> <<p, k>> \in half)
    <2>1. half' = Placed(half, "flash", S!At("view") \cup excused)
      BY PutIs DEF Committing
    <2>2. S!At("view") \cup excused \subseteq Kinds /\ "flash" \in S!Place  BY AtIn DEF S!Place
    <2> QED  BY <1>2, <2>1, <2>2, PlacedIn
  <1>4. "view" \in S!Place /\ "inuse" \in S!Place /\ "network" \in Kinds
    BY DEF S!Place, Kinds
  <1>5. \A k \in Kinds : k \in S!At("view") <=> <<"view", k>> \in half  BY AtIn
  <1>6. ASSUME NEW k \in Kinds PROVE FlashGood(k, half', committed', promised')
    <2>1. <<"view", k>> \in half \/ Under(handling, n, k) \/ Settled(k, view, promised)
      BY <1>1 DEF ViewGood
    <2>2. <<"view", k>> \in half \/ Under(handling, n, k) => <<"flash", k>> \in half'
      BY <1>3, <1>5
    <2> QED  BY <2>1, <2>2 DEF FlashGood, Committing
  <1>7. UseGood(half', inuse')
    BY <1>1, <1>3, <1>4 DEF UseGood, Committing
  <1> QED  BY <1>2, <1>3, <1>4, <1>6, <1>7 DEF Committing

LEMMA CommitStep ==
  ASSUME NEW n, SetInv(n), S!Step, Head(todo) = S!Commit
  PROVE  \E k \in Nat : SetInv(k)'
  <1>1. PICK m \in Asked : m = handling  BY StepGoes
  <1>2. /\ n \in Nat /\ n + 1 \in 1 .. Commanded(m) /\ SetSoFar(m, n, view)
        /\ Head(todo) = S!Commands(m)[n + 1] /\ InPlace(m, todo, n)
        /\ m.kind \in Kinds => promised[m.kind] = None
    BY <1>1, StepGoes
  <1>3. PICK c : c = Head(todo)  OBVIOUS
  <1>4. /\ c = S!Commit /\ ~ Changes(c) /\ m.kind \in Kinds
        /\ n + 1 > Change(m) \/ (m.kind = "ntp" /\ n + 1 = 2)
        /\ m.kind \in {"batman", "network"} => n + 1 = Change(m) + 1
    <2>1. CommandCases(m, n + 1, c) /\ c = S!Commit  BY <1>1, <1>3, StepGoes
    <2> QED  BY <2>1, CommandsDiffer DEF CommandCases
  <1>5. /\ Committing(S!Changing \cap {"ntp"}) /\ told' = None
    <2>1. S!Stage(c) /\ S!ucicommit(S!Changing \cap {"ntp"}) /\ told' = None
      <3>1. S!Run(c) /\ told' = None  BY <1>3 DEF S!Step
      <3>2. S!Stage(c)  BY <3>1 DEF S!Run
      <3>3. S!ucicommit(S!Changing \cap {"ntp"})  BY <1>4, <3>1, CommandsDiffer DEF S!Run
      <3> QED  BY <3>1, <3>2, <3>3
    <2>2. view' = view
      <3>1. c.do = "commit"  BY <1>4 DEF S!Commit
      <3> QED  BY <2>1, <3>1 DEF S!Stage
    <2> QED  BY <2>1, <2>2 DEF S!ucicommit, Committing
  <1>6. /\ S!TypeOK
        /\ \A k \in Kinds : ViewGood(k, half, m, n, view, promised)
    BY <1>1 DEF SetInv
  <1>7. S!Changing \cap {"ntp"} \subseteq Kinds  BY DEF Kinds
  <1>8. Change(m) \in Nat /\ Change(m) <= Commanded(m) /\ (m.kind = "ntp" => Change(m) >= 4)
    BY <1>2, CommandChanges
  <1>9. ASSUME NEW k \in Kinds, Under(handling, n, k) PROVE k \in S!Changing \cap {"ntp"}
    <2>1. m.kind = k /\ n < Change(m)  BY <1>1, <1>9 DEF Under
    <2>2. m.kind = "ntp"  BY <1>2, <1>4, <1>8, <2>1
    <2>3. k \in S!Kind  BY KindIs
    <2>4. k \in S!Changing  BY <1>1, <1>2, <1>9, <2>3, UnderChanging
    <2> QED  BY <2>1, <2>2, <2>4
  <1>10. /\ half' \subseteq S!Place \X Kinds
         /\ \A k \in Kinds : FlashGood(k, half', committed', promised')
         /\ \A k \in Kinds : <<"view", k>> \in half' <=> <<"view", k>> \in half
         /\ UseGood(half', inuse')
         /\ committed' \in [S!Option -> Seq(Value)]
    BY <1>5, <1>7, <1>9, Commits
  <1>11. view' = view /\ committed' = view /\ inuse' = inuse /\ promised' = promised
    BY <1>5 DEF Committing
  <1>12. SetSoFar(m, n + 1, view)
    BY <1>2, <1>3, <1>4, CommandKeeps
  <1>13. m.kind \in {"batman", "network"} => S!From(m.value, view, S!Options(m.kind))
    <2>1. m.kind \in {"batman", "network"} => n >= Change(m)  BY <1>2, <1>4, <1>8
    <2> QED  BY <1>2, <1>4, <2>1, AllSet
  <1>14. PICK l : /\ Doing(handling', todo', l, view', committed', promised')
                  /\ After(handling', todo', l, m, n)
    BY <1>1, <1>2, <1>11, <1>12, <1>13, StepDoing
  <1>15. S!TypeOK'
    BY <1>1, <1>6, <1>10, <1>11, <1>14, KindIs DEF S!TypeOK, After
  <1>16. ASSUME NEW k \in Kinds
         PROVE  ViewGood(k, half', handling', l, view', promised')
    <2>1. CASE ~ Under(m, n, k)
      BY <1>6, <1>10, <1>11, <2>1 DEF ViewGood
    <2>2. CASE Under(m, n, k)
      <3>1. k = m.kind /\ k = "ntp" /\ n < Change(m) /\ n >= 1  BY <1>1, <1>9, <2>2 DEF Under
      <3>2. n + 1 = 2 /\ n + 1 < Change(m) /\ n + 1 # Commanded(m)
        BY <1>2, <1>4, <1>8, <3>1
      <3>3. handling' = m /\ l = n + 1  BY <1>14, <3>2 DEF After
      <3>4. m # None  BY SettingsAssumption
      <3>5. Under(m, n + 1, k)  BY <1>2, <3>1, <3>2, <3>4 DEF Under
      <3> QED  BY <3>3, <3>5 DEF ViewGood
    <2> QED  BY <2>1, <2>2
  <1>17. ToldGood(told', half')  BY <1>5 DEF ToldGood
  <1>18. l \in Nat  BY <1>14 DEF After
  <1> QED
    BY <1>10, <1>14, <1>15, <1>16, <1>17, <1>18 DEF SetInv

LEMMA AnswerStep ==
  ASSUME NEW n, SetInv(n), S!Step, Head(todo) = S!Answer
  PROVE  \E k \in Nat : SetInv(k)'
  <1>1. PICK m \in Asked : m = handling  BY StepGoes
  <1>2. /\ n \in Nat /\ n + 1 \in 1 .. Commanded(m) /\ SetSoFar(m, n, view)
        /\ Head(todo) = S!Commands(m)[n + 1] /\ InPlace(m, todo, n)
    BY <1>1, StepGoes
  <1>3. PICK c : c = Head(todo)  OBVIOUS
  <1>4. /\ c = S!Answer /\ c # S!Commit /\ ~ Changes(c) /\ n + 1 = Commanded(m)
        /\ m.kind = "restart" \/ (m.kind \in {"batman", "network"} /\ n + 1 = Change(m) + 2)
    <2>1. CommandCases(m, n + 1, c) /\ c = S!Answer  BY <1>1, <1>3, StepGoes
    <2> QED  BY <2>1, CommandsDiffer DEF CommandCases
  <1>5. /\ view' = view /\ committed' = committed /\ inuse' = inuse /\ half' = half /\ told' = None
        /\ promised' = IF m.kind \in S!Kind THEN [promised EXCEPT ![m.kind] = m.value] ELSE promised
    <2>1. S!Stage(c)
          /\ promised' = (IF m.kind \in S!Kind THEN [promised EXCEPT ![m.kind] = m.value] ELSE promised)
          /\ committed' = committed /\ inuse' = inuse /\ half' = half /\ told' = None
      <3>1. S!Run(c) /\ told' = None  BY <1>3 DEF S!Step
      <3>2. S!Stage(c)  BY <3>1 DEF S!Run
      <3>3. /\ promised' = IF m.kind \in S!Kind THEN [promised EXCEPT ![m.kind] = m.value]
                          ELSE promised
            /\ UNCHANGED <<committed, inuse, half>>
        BY <1>1, <1>4, <3>1, CommandsDiffer DEF S!Run
      <3> QED  BY <3>1, <3>2, <3>3
    <2>2. view' = view
      <3>1. c.do = "200"  BY <1>4 DEF S!Answer
      <3> QED  BY <2>1, <3>1 DEF S!Stage
    <2> QED  BY <2>1, <2>2
  <1>6. /\ S!TypeOK /\ UseGood(half, inuse)
        /\ \A k \in Kinds : ViewGood(k, half, m, n, view, promised)
        /\ \A k \in Kinds : FlashGood(k, half, committed, promised)
        /\ Doing(m, todo, n, view, committed, promised)
    BY <1>1 DEF SetInv
  <1>7. m # None /\ m.value \in Value  BY SettingsAssumption
  <1>8. SetSoFar(m, n + 1, view)
    BY <1>2, <1>3, <1>4, CommandKeeps
  <1>9. PICK l : /\ Doing(handling', todo', l, view', committed', promised')
                 /\ After(handling', todo', l, m, n)
    BY <1>1, <1>4, <1>5, <1>8, StepDoing
  <1>10. promised' \in [S!Kind -> Value \cup {None}]
    BY <1>5, <1>6, <1>7 DEF S!TypeOK
  <1>11. S!TypeOK'
    BY <1>1, <1>5, <1>6, <1>9, <1>10 DEF S!TypeOK, After
  <1>12. ASSUME NEW k \in Kinds
         PROVE  /\ ViewGood(k, half', handling', l, view', promised')
                /\ FlashGood(k, half', committed', promised')
    <2>1. CASE k # m.kind
      <3>1. ~ Under(m, n, k)  BY <2>1 DEF Under
      <3>2. promised'[k] = promised[k]  BY <1>5, <1>6, <2>1, KindIs DEF S!TypeOK
      <3>3. /\ Settled(k, view, promised) => Settled(k, view, promised')
            /\ Settled(k, committed, promised) => Settled(k, committed, promised')
        BY <3>2 DEF Settled
      <3> QED  BY <1>5, <1>6, <3>1, <3>3 DEF ViewGood, FlashGood
    <2>2. CASE k = m.kind
      <3>1. m.kind \in {"batman", "network"} /\ n + 1 = Change(m) + 2
        BY <1>4, <2>2 DEF Kinds
      <3>2. Change(m) \in Nat  BY <1>2, CommandChanges
      <3>3. n = Change(m) + 1 /\ n >= Change(m)  BY <1>2, <3>1, <3>2
      <3>4. S!From(m.value, view, S!Options(k))
        BY <1>2, <2>2, <3>3, AllSet
      <3>5. S!From(m.value, committed, S!Options(k))
        BY <1>6, <1>7, <2>2, <3>1, <3>3 DEF Doing
      <3>6. promised'[k] = m.value  BY <1>5, <1>6, <2>2, KindIs DEF S!TypeOK
      <3>7. Settled(k, view, promised') /\ Settled(k, committed, promised')
        BY <1>7, <3>4, <3>5, <3>6, SettledBy
      <3> QED  BY <1>5, <3>7 DEF ViewGood, FlashGood
    <2> QED  BY <2>1, <2>2
  <1>13. ToldGood(told', half') /\ UseGood(half', inuse')  BY <1>5, <1>6 DEF ToldGood
  <1>14. l \in Nat  BY <1>9 DEF After
  <1> QED
    BY <1>9, <1>11, <1>12, <1>13, <1>14 DEF SetInv

LEMMA RestartStep ==
  ASSUME NEW n, SetInv(n), S!Step, Head(todo) = S!Restart
  PROVE  \E k \in Nat : SetInv(k)'
  <1>1. PICK m \in Asked : m = handling  BY StepGoes
  <1>2. /\ n \in Nat /\ n + 1 \in 1 .. Commanded(m) /\ SetSoFar(m, n, view)
        /\ Head(todo) = S!Commands(m)[n + 1] /\ InPlace(m, todo, n)
    BY <1>1, StepGoes
  <1>3. PICK c : c = Head(todo)  OBVIOUS
  <1>4. c = S!Restart /\ ~ Changes(c) /\ m.kind = "restart"
    <2>1. CommandCases(m, n + 1, c) /\ c = S!Restart  BY <1>1, <1>3, StepGoes
    <2> QED  BY <2>1, CommandsDiffer DEF CommandCases
  <1>5. /\ view' = view /\ committed' = committed /\ promised' = promised /\ told' = None
        /\ inuse' = [o \in S!Options("network") |-> view[o]]
        /\ half' = S!Put("inuse", S!At("view"))
    <2>1. S!Run(c) /\ told' = None  BY <1>3 DEF S!Step
    <2>2. /\ inuse' = [o \in S!Options("network") |-> view[o]]
          /\ half' = S!Put("inuse", S!At("view"))
          /\ committed' = committed /\ promised' = promised
      BY <1>4, <2>1, CommandsDiffer DEF S!Run
    <2>3. view' = view
      <3>1. c.do = "restart"  BY <1>4 DEF S!Restart
      <3>2. S!Stage(c)  BY <2>1 DEF S!Run
      <3> QED  BY <3>1, <3>2 DEF S!Stage
    <2> QED  BY <2>1, <2>2, <2>3
  <1>6. /\ S!TypeOK
        /\ \A k \in Kinds : ViewGood(k, half, m, n, view, promised)
        /\ \A k \in Kinds : FlashGood(k, half, committed, promised)
    BY <1>1 DEF SetInv
  <1>7. view \in [S!Option -> Seq(Value)] /\ half \subseteq S!Place \X Kinds
    BY <1>6, KindIs DEF S!TypeOK
  <1>8. m # None /\ m.kind \notin Kinds  BY <1>4, SettingsAssumption DEF Kinds
  <1>9. SetSoFar(m, n + 1, view)
    BY <1>2, <1>3, <1>4, CommandKeeps
  <1>10. PICK l : /\ Doing(handling', todo', l, view', committed', promised')
                  /\ After(handling', todo', l, m, n)
    BY <1>1, <1>4, <1>5, <1>8, <1>9, StepDoing
  <1>11. /\ half' \subseteq S!Place \X Kinds
         /\ \A k \in Kinds : <<"inuse", k>> \in half' <=> k \in S!At("view")
         /\ \A k \in Kinds : \A p \in S!Place :
               p # "inuse" => (<<p, k>> \in half' <=> <<p, k>> \in half)
    <2>1. half' = Placed(half, "inuse", S!At("view"))  BY <1>5, PutIs
    <2>2. S!At("view") \subseteq Kinds /\ "inuse" \in S!Place  BY AtIn DEF S!Place
    <2> QED  BY <1>7, <2>1, <2>2, PlacedIn
  <1>12. "view" \in S!Place /\ "flash" \in S!Place /\ "network" \in Kinds
    BY DEF S!Place, Kinds
  <1>13. S!Options("network") \subseteq S!Option
    BY <1>12, OptionsAre
  <1>14. inuse' \in [S!Options("network") -> Seq(Value)]
    BY <1>5, <1>7, <1>13
  <1>15. S!TypeOK'
    BY <1>1, <1>5, <1>6, <1>10, <1>11, <1>14, KindIs DEF S!TypeOK, After
  <1>16. ASSUME NEW k \in Kinds
         PROVE  /\ ViewGood(k, half', handling', l, view', promised')
                /\ FlashGood(k, half', committed', promised')
    <2>1. ~ Under(m, n, k)  BY <1>8 DEF Under
    <2> QED  BY <1>5, <1>6, <1>11, <1>12, <2>1 DEF ViewGood, FlashGood
  <1>17. UseGood(half', inuse')
    <2>1. ~ Under(m, n, "network")  BY <1>4 DEF Under
    <2>2. <<"view", "network">> \in half \/ S!Whole(view, S!Options("network"))
      BY <1>6, <1>12, <2>1 DEF ViewGood, Settled
    <2>3. <<"view", "network">> \in half => <<"inuse", "network">> \in half'
      BY <1>11, <1>12, AtIn
    <2>4. \A o \in S!Options("network") : view[o] = inuse'[o]  BY <1>5
    <2>5. S!Whole(view, S!Options("network")) => S!Whole(inuse', S!Options("network"))
      BY <2>4, WholeSame
    <2> QED  BY <2>2, <2>3, <2>5 DEF UseGood
  <1>18. ToldGood(told', half')  BY <1>5 DEF ToldGood
  <1>19. l \in Nat  BY <1>10 DEF After
  <1> QED
    BY <1>10, <1>15, <1>16, <1>17, <1>18, <1>19 DEF SetInv

LEMMA ChangingIn == S!Changing \subseteq Kinds
  BY KindIs DEF S!Changing

LEMMA UnderIsChanging ==
  ASSUME NEW n, SetInv(n)
  PROVE  \A k \in Kinds : Under(handling, n, k) => k \in S!Changing
  <1>1. handling \in Asked \cup {None} /\ (handling # None => InPlace(handling, todo, n))
    BY DEF SetInv, S!TypeOK, Doing
  <1> QED  BY <1>1, KindIs, UnderChanging

LEMMA KillStep ==
  ASSUME NEW n, SetInv(n), S!Kill
  PROVE  SetInv(0)'
  <1>1. /\ half' = S!Put("view", S!At("view") \cup S!Changing)
        /\ handling' = None /\ todo' = <<>> /\ told' = None
        /\ view' = view /\ committed' = committed /\ inuse' = inuse /\ promised' = promised
    BY DEF S!Kill
  <1>2. /\ S!TypeOK /\ UseGood(half, inuse)
        /\ \A k \in Kinds : ViewGood(k, half, handling, n, view, promised)
        /\ \A k \in Kinds : FlashGood(k, half, committed, promised)
    BY DEF SetInv
  <1>3. half \subseteq S!Place \X Kinds  BY <1>2, KindIs DEF S!TypeOK
  <1>4. /\ half' \subseteq S!Place \X Kinds
        /\ \A k \in Kinds : <<"view", k>> \in half' <=> k \in S!At("view") \cup S!Changing
        /\ \A k \in Kinds : \A p \in S!Place :
              p # "view" => (<<p, k>> \in half' <=> <<p, k>> \in half)
    <2>1. half' = Placed(half, "view", S!At("view") \cup S!Changing)  BY <1>1, PutIs
    <2>2. S!At("view") \cup S!Changing \subseteq Kinds /\ "view" \in S!Place
      BY AtIn, ChangingIn DEF S!Place
    <2> QED  BY <1>3, <2>1, <2>2, PlacedIn
  <1>5. "inuse" \in S!Place /\ "flash" \in S!Place /\ "network" \in Kinds
    BY DEF S!Place, Kinds
  <1>6. S!TypeOK'  BY <1>1, <1>2, <1>4, KindIs DEF S!TypeOK
  <1>7. Doing(handling', todo', 0, view', committed', promised')  BY <1>1 DEF Doing
  <1>8. ASSUME NEW k \in Kinds
        PROVE  /\ ViewGood(k, half', handling', 0, view', promised')
               /\ FlashGood(k, half', committed', promised')
    <2>1. Under(handling, n, k) => <<"view", k>> \in half'  BY <1>4, UnderIsChanging
    <2>2. <<"view", k>> \in half => <<"view", k>> \in half'  BY <1>4, AtIn
    <2> QED  BY <1>1, <1>2, <1>4, <1>5, <2>1, <2>2 DEF ViewGood, FlashGood
  <1>9. UseGood(half', inuse') /\ ToldGood(told', half')
    BY <1>1, <1>2, <1>4, <1>5 DEF UseGood, ToldGood
  <1> QED  BY <1>6, <1>7, <1>8, <1>9 DEF SetInv

LEMMA OtherCommitStep ==
  ASSUME NEW n, SetInv(n), S!OtherCommit
  PROVE  SetInv(n)'
  <1>1. /\ Committing(S!Changing) /\ told' = None /\ view' = view /\ handling' = handling /\ todo' = todo
    BY DEF S!OtherCommit, S!ucicommit, Committing
  <1>2. /\ S!TypeOK
        /\ \A k \in Kinds : ViewGood(k, half, handling, n, view, promised)
        /\ Doing(handling, todo, n, view, committed, promised)
    BY DEF SetInv
  <1>3. /\ half' \subseteq S!Place \X Kinds
        /\ \A k \in Kinds : FlashGood(k, half', committed', promised')
        /\ \A k \in Kinds : <<"view", k>> \in half' <=> <<"view", k>> \in half
        /\ UseGood(half', inuse')
        /\ committed' \in [S!Option -> Seq(Value)]
    BY <1>1, ChangingIn, UnderIsChanging, Commits
  <1>4. committed' = view /\ inuse' = inuse /\ promised' = promised
    BY <1>1 DEF Committing
  <1>5. S!TypeOK'  BY <1>1, <1>2, <1>3, <1>4, KindIs DEF S!TypeOK
  <1>6. ASSUME handling # None, handling.kind \in {"batman", "network"}, n = Change(handling) + 1
        PROVE  S!From(handling.value, view, S!Options(handling.kind))
    <2>1. PICK m \in Asked : m = handling /\ SetSoFar(m, n, view) /\ n \in Nat /\ InPlace(m, todo, n)
      BY <1>2, <1>6 DEF Doing
    <2>2. n >= Change(m) /\ m.kind \in Kinds
      <3>1. n + 1 \in 1 .. Commanded(m)  BY <2>1, Goes
      <3>2. Change(m) \in Nat  BY <3>1, CommandChanges
      <3> QED  BY <1>6, <2>1, <3>2 DEF Kinds
    <2> QED  BY <2>1, <2>2, AllSet
  <1>7. Doing(handling', todo', n, view', committed', promised')
    BY <1>1, <1>2, <1>4, <1>6 DEF Doing
  <1>8. \A k \in Kinds : ViewGood(k, half', handling', n, view', promised')
    BY <1>1, <1>2, <1>3, <1>4 DEF ViewGood
  <1>9. ToldGood(told', half')  BY <1>1 DEF ToldGood
  <1> QED  BY <1>3, <1>5, <1>7, <1>8, <1>9 DEF SetInv

LEMMA PowerLossStep ==
  ASSUME NEW n, SetInv(n), S!PowerLoss
  PROVE  SetInv(0)'
  <1>1. /\ view' = committed /\ inuse' = [o \in S!Options("network") |-> committed[o]]
        /\ half' = {<<p, k>> : p \in S!Place, k \in S!At("flash")}
        /\ handling' = None /\ todo' = <<>> /\ told' = None
        /\ committed' = committed /\ promised' = promised
    BY DEF S!PowerLoss
  <1>2. /\ S!TypeOK
        /\ \A k \in Kinds : FlashGood(k, half, committed, promised)
    BY DEF SetInv
  <1>3. "inuse" \in S!Place /\ "flash" \in S!Place /\ "view" \in S!Place /\ "network" \in Kinds
    BY DEF S!Place, Kinds
  <1>4. /\ half' \subseteq S!Place \X Kinds
        /\ \A k \in Kinds : \A p \in S!Place : <<"flash", k>> \in half => <<p, k>> \in half'
    BY <1>1, AtIn
  <1>5. S!Options("network") \subseteq S!Option
    BY <1>3, OptionsAre
  <1>6. inuse' \in [S!Options("network") -> Seq(Value)]
    BY <1>1, <1>2, <1>5 DEF S!TypeOK
  <1>7. S!TypeOK'  BY <1>1, <1>2, <1>4, <1>6, KindIs DEF S!TypeOK
  <1>8. Doing(handling', todo', 0, view', committed', promised')  BY <1>1 DEF Doing
  <1>9. \A k \in Kinds : /\ ViewGood(k, half', handling', 0, view', promised')
                         /\ FlashGood(k, half', committed', promised')
    BY <1>1, <1>2, <1>3, <1>4 DEF ViewGood, FlashGood
  <1>10. UseGood(half', inuse')
    <2>1. <<"flash", "network">> \in half \/ S!Whole(committed, S!Options("network"))
      BY <1>2, <1>3 DEF FlashGood, Settled
    <2>2. \A o \in S!Options("network") : committed[o] = inuse'[o]  BY <1>1
    <2>3. S!Whole(committed, S!Options("network")) => S!Whole(inuse', S!Options("network"))
      BY <2>2, WholeSame
    <2> QED  BY <1>3, <1>4, <2>1, <2>3 DEF UseGood
  <1>11. ToldGood(told', half')  BY <1>1 DEF ToldGood
  <1> QED  BY <1>7, <1>8, <1>9, <1>10, <1>11 DEF SetInv

LEMMA SettingsStep ==
  ASSUME NEW n \in Nat, SetInv(n), S!Next
  PROVE  \E k \in Nat : SetInv(k)'
  <1>1. CASE \E m \in Asked : S!process_udp(m)
    BY <1>1, MessageStep
  <1>2. CASE S!Request("batman", S!ConfigBatmanReq)
    <2>1. SetInv(n)'  BY <1>2, RequestStep
    <2> QED  BY <2>1
  <1>3. CASE S!Request("network", S!ConfigReq)
    <2>1. SetInv(n)'  BY <1>3, RequestStep
    <2> QED  BY <2>1
  <1>4. CASE S!Request("asterisk", S!AsteriskStatReq)
    <2>1. SetInv(n)'  BY <1>4, RequestStep
    <2> QED  BY <2>1
  <1>5. CASE S!Step
    <2>1. PICK m \in Asked : m = handling  BY <1>5, StepGoes
    <2>2. CommandCases(m, n + 1, Head(todo))  BY <1>5, <2>1, StepGoes
    <2>3. \/ Changes(Head(todo)) \/ Head(todo) = S!Commit \/ Head(todo) = S!Answer
          \/ Head(todo) = S!Restart
      BY <2>2 DEF CommandCases
    <2> QED  BY <1>5, <2>3, ChangeStep, CommitStep, AnswerStep, RestartStep
  <1>6. CASE S!Kill
    BY <1>6, KillStep
  <1>7. CASE S!OtherCommit
    BY <1>7, OtherCommitStep
  <1>8. CASE S!PowerLoss
    BY <1>8, PowerLossStep
  <1> QED  BY <1>1, <1>2, <1>3, <1>4, <1>5, <1>6, <1>7, <1>8 DEF S!Next

LEMMA SettingsStay ==
  ASSUME NEW n, SetInv(n), UNCHANGED settings
  PROVE  SetInv(n)'
  <1>1. /\ view' = view /\ committed' = committed /\ inuse' = inuse /\ handling' = handling
        /\ todo' = todo /\ told' = told /\ promised' = promised /\ half' = half
    BY DEF settings
  <1>2. S!TypeOK'  BY <1>1 DEF SetInv, S!TypeOK
  <1> QED  BY <1>1, <1>2 DEF SetInv

LEMMA WholeBySetInv ==
  ASSUME NEW n, SetInv(n)
  PROVE  SettingsWhole
  <1>1. /\ \A k \in Kinds : FlashGood(k, half, committed, promised)
        /\ UseGood(half, inuse) /\ ToldGood(told, half)
    BY DEF SetInv
  <1>2. \A k \in S!Kind : \/ <<"flash", k>> \in half
                          \/ /\ S!Whole(committed, S!Options(k))
                             /\ promised[k] # None => S!From(promised[k], committed, S!Options(k))
    BY <1>1, KindIs DEF FlashGood, Settled
  <1> QED  BY <1>1, <1>2 DEF SettingsWhole, S!SettingsWhole, UseGood, ToldGood

(* socket_io.c, process_udp, uciset and ucicommit: whatever was staged,     *)
(* lost with the power or committed by a message of another kind, what is   *)
(* committed, in use or told of a kind was given by one message, and is     *)
(* that of the message that was answered, but for what a handler that was   *)
(* killed or overtaken left half done.                                      *)
THEOREM SettingsAreWhole == ConfigSpec => []SettingsWhole
  <1> DEFINE Inv == \E n \in Nat : SetInv(n)
  <1>1. ConfigInit => Inv
    <2>1. ConfigInit => SetInv(0)  BY SetInvInit DEF ConfigInit
    <2> QED  BY <2>1
  <1>2. Inv /\ [ConfigNext]_configvars => Inv'
    <2> SUFFICES ASSUME NEW n \in Nat, SetInv(n), [ConfigNext]_configvars
                 PROVE  \E k \in Nat : SetInv(k)'
      OBVIOUS
    <2>1. CASE S!Next
      BY <2>1, SettingsStep
    <2>2. CASE UNCHANGED settings
      BY <2>2, SettingsStay
    <2>3. S!Next \/ UNCHANGED settings
      BY DEF ConfigNext, configvars, Rules1, Range1, Settings1, Tables1
    <2> QED  BY <2>1, <2>2, <2>3
  <1>3. Inv => SettingsWhole
    BY WholeBySetInv
  <1> QED
    BY <1>1, <1>2, <1>3, PTL DEF ConfigSpec

-----------------------------------------------------------------------------
(* The time range.  What ParseTimeRange leaves in a broken-down time.       *)
Reads(tm, r, day, time) ==
    /\ tm.time = IF r.time = <<>> THEN -1 ELSE time
    /\ r.kind = "any"  => tm.mday = -1 /\ tm.year = -1
    /\ r.kind = "date" => tm.mday = day /\ tm.year = R!YEAR
    /\ r.kind = "week" => tm.wday = day /\ tm.year = 0

(* A range of the week is read over a year that is zero: over nothing, or   *)
(* over another range of the week.                                          *)
RangeInv ==
    /\ R!TypeOK
    /\ given.text = "good" /\ stored.text = "good"
    /\ rpc = "down" => start = R!Zero /\ end = R!Zero
    /\ rpc # "down" /\ ~ mixed =>
          /\ Reads(start, given, given.from, R!Times(given)[1])
          /\ Reads(end, given, given.to, R!Times(given)[2])

(* A day that a range begins or ends on.                                    *)
DayOf(r, day) ==
    \/ r.kind = "any" /\ day = 0
    \/ r.kind = "week" /\ day \in 0 .. 6
    \/ r.kind = "date" /\ day \in 1 .. 31

LEMMA RangeIs ==
  ASSUME NEW r \in Ranges
  PROVE  /\ DayOf(r, r.from) /\ DayOf(r, r.to)
         /\ R!Times(r)[1] \in 0 .. DAY - 1 /\ R!Times(r)[2] \in 0 .. DAY - 1
         /\ r.time = <<>> \/ (r.time = R!Times(r) /\ r.time[1] \in 0 .. DAY - 1 /\ r.time[2] \in 0 .. DAY - 1)
         /\ r.text \in {"good", "bad"} /\ DAY \in Nat /\ DAY >= 1
         /\ r.kind = "any" => r.from = r.to
  <1>1. /\ DayOf(r, r.from) /\ DayOf(r, r.to) /\ r.text \in {"good", "bad"}
        /\ DAY \in Nat /\ DAY >= 1
        /\ r.kind = "any" => r.from = r.to
    BY RangeAssumption DEF DayOf
  <1>2. CASE r.time = <<>>
    <2>1. R!Times(r) = <<0, 0>>  BY <1>2 DEF R!Times
    <2>2. PICK x : x = R!Times(r)  OBVIOUS
    <2>3. x[1] = 0 /\ x[2] = 0  BY <2>1, <2>2
    <2>4. 0 \in 0 .. DAY - 1  BY <1>1
    <2>5. x[1] \in 0 .. DAY - 1 /\ x[2] \in 0 .. DAY - 1  BY <2>3, <2>4
    <2> QED  BY <1>1, <1>2, <2>2, <2>5
  <1>3. CASE r.time # <<>>
    <2>1. PICK t, u \in 0 .. DAY - 1 : r.time = <<t, u>>  BY <1>3, RangeAssumption
    <2>2. r.time[1] = t /\ r.time[2] = u  BY <2>1
    <2>3. R!Times(r) = r.time  BY <1>3 DEF R!Times
    <2>4. r.time[1] \in 0 .. DAY - 1 /\ r.time[2] \in 0 .. DAY - 1  BY <2>1, <2>2
    <2>5. PICK x : x = R!Times(r)  OBVIOUS
    <2>6. x[1] \in 0 .. DAY - 1 /\ x[2] \in 0 .. DAY - 1 /\ r.time = x  BY <2>3, <2>4, <2>5
    <2> QED  BY <1>1, <2>4, <2>5, <2>6
  <1> QED  BY <1>2, <1>3

LEMMA Parsed ==
  ASSUME NEW tm \in R!Tm, NEW r \in Ranges, NEW day, DayOf(r, day), NEW time \in 0 .. DAY - 1,
         NEW s \in R!strptime(tm, r, day, time)
  PROVE  /\ s \in R!Tm /\ R!Repetitive(s, r) \in R!Tm
         /\ (r.kind = "week" => tm.year = 0) => Reads(R!Repetitive(s, r), r, day, time)
  <1>1. DAY \in Nat /\ DAY >= 1  BY RangeAssumption
  <1>2. /\ s \in R!Tm /\ s.time = time
        /\ r.kind = "date" => s.mday = day /\ s.year = R!YEAR
        /\ r.kind = "week" => s.wday = day /\ s.year = tm.year
    <2>t. /\ tm = [mday |-> tm.mday, year |-> tm.year, wday |-> tm.wday, time |-> tm.time]
          /\ tm.mday \in -1 .. 31 /\ tm.year \in {-1, 0, R!YEAR} /\ tm.wday \in 0 .. 6
      BY DEF R!Tm
    <2>d. time \in -1 .. DAY - 1  BY <1>1
    <2>1. CASE r.kind = "date"
      <3>1. s = [tm EXCEPT !.time = time, !.mday = day, !.year = R!YEAR]
        BY <2>1 DEF R!strptime
      <3>2. s = [mday |-> day, year |-> R!YEAR, wday |-> tm.wday, time |-> time]
        BY <2>t, <3>1
      <3>3. day \in 0 .. 31  BY <2>1 DEF DayOf
      <3> QED  BY <2>t, <2>d, <2>1, <3>2, <3>3 DEF R!Tm
    <2>2. CASE r.kind = "week"
      <3>1. \/ s = [tm EXCEPT !.time = time, !.wday = day]
            \/ s = [tm EXCEPT !.time = time, !.wday = day, !.mday = day]
        BY <2>2 DEF R!strptime
      <3>2. PICK d \in {tm.mday, day} :
               s = [mday |-> d, year |-> tm.year, wday |-> day, time |-> time]
        BY <2>t, <3>1
      <3>3. day \in 0 .. 6 /\ d \in -1 .. 31  BY <2>t, <2>2, <3>2 DEF DayOf
      <3> QED  BY <2>t, <2>d, <2>2, <3>2, <3>3 DEF R!Tm
    <2>3. CASE r.kind = "any"
      <3>1. s = [tm EXCEPT !.time = time, !.wday = 0]
        BY <2>3 DEF R!strptime
      <3>2. s = [mday |-> tm.mday, year |-> tm.year, wday |-> 0, time |-> time]
        BY <2>t, <3>1
      <3>3. day \in 0 .. 31  BY <2>3 DEF DayOf
      <3> QED  BY <2>t, <2>d, <2>3, <3>2, <3>3 DEF R!Tm
    <2> QED  BY <2>1, <2>2, <2>3 DEF DayOf
  <1>3. PICK p : p = R!Repetitive(s, r)  OBVIOUS
  <1>4. /\ p.mday = (IF r.kind = "any" THEN -1 ELSE s.mday)
        /\ p.year = (IF r.kind = "any" THEN -1 ELSE s.year)
        /\ p.wday = s.wday /\ p.time = (IF r.time = <<>> THEN -1 ELSE s.time)
    BY <1>3 DEF R!Repetitive
  <1>5. p \in R!Tm
    <2>1. /\ (IF r.kind = "any" THEN -1 ELSE s.mday) \in -1 .. 31
          /\ (IF r.kind = "any" THEN -1 ELSE s.year) \in {-1, 0, R!YEAR}
          /\ s.wday \in 0 .. 6 /\ (IF r.time = <<>> THEN -1 ELSE s.time) \in -1 .. DAY - 1
      BY <1>1, <1>2 DEF R!Tm
    <2> QED  BY <1>3, <2>1 DEF R!Tm, R!Repetitive
  <1>6. (r.kind = "week" => tm.year = 0) => Reads(p, r, day, time)
    BY <1>2, <1>4 DEF Reads
  <1> QED  BY <1>2, <1>3, <1>5, <1>6

LEMMA RangeInit ==
  ASSUME R!Init
  PROVE  RangeInv
  <1>1. R!Zero \in R!Tm
    BY RangeAssumption DEF R!Zero, R!Tm, R!YEAR
  <1> QED  BY <1>1 DEF R!Init, RangeInv, R!TypeOK

(* What the parse of r leaves.                                              *)
LEMMA ParsedTo ==
  ASSUME RangeInv, NEW r \in Ranges, R!ParseTimeRange(r)
  PROVE  /\ start' \in R!Tm /\ end' \in R!Tm
         /\ r.text = "good" /\ (r.kind = "week" => start.year = 0 /\ end.year = 0) =>
               /\ Reads(start', r, r.from, R!Times(r)[1])
               /\ Reads(end', r, r.to, R!Times(r)[2])
  <1>1. start \in R!Tm /\ end \in R!Tm  BY DEF RangeInv, R!TypeOK
  <1>2. PICK s \in R!strptime(start, r, r.from, R!Times(r)[1]) :
           IF r.text = "bad"
           THEN start' = s /\ UNCHANGED end
           ELSE \E e \in R!strptime(end, r, r.to, R!Times(r)[2]) :
                   start' = R!Repetitive(s, r) /\ end' = R!Repetitive(e, r)
    BY DEF R!ParseTimeRange
  <1>3. /\ s \in R!Tm /\ R!Repetitive(s, r) \in R!Tm
        /\ (r.kind = "week" => start.year = 0) => Reads(R!Repetitive(s, r), r, r.from, R!Times(r)[1])
    BY <1>1, <1>2, RangeIs, Parsed
  <1>4. CASE r.text = "bad"
    BY <1>1, <1>2, <1>3, <1>4
  <1>5. CASE r.text # "bad"
    <2>1. PICK e \in R!strptime(end, r, r.to, R!Times(r)[2]) :
             start' = R!Repetitive(s, r) /\ end' = R!Repetitive(e, r)
      BY <1>2, <1>5
    <2>2. /\ R!Repetitive(e, r) \in R!Tm
          /\ (r.kind = "week" => end.year = 0) => Reads(R!Repetitive(e, r), r, r.to, R!Times(r)[2])
      BY <1>1, <2>1, RangeIs, Parsed
    <2> QED  BY <1>3, <2>1, <2>2
  <1> QED  BY <1>4, <1>5

LEMMA RangeStep ==
  ASSUME RangeInv, R!Next
  PROVE  RangeInv'
  <1>1. /\ stored \in Ranges /\ given \in Ranges /\ rpc \in {"down", "up", "commit"}
        /\ now \in Clock /\ mixed \in BOOLEAN
        /\ given.text = "good" /\ stored.text = "good"
        /\ start \in R!Tm /\ end \in R!Tm
        /\ rpc = "down" => start = R!Zero /\ end = R!Zero
        /\ rpc # "down" /\ ~ mixed =>
              /\ Reads(start, given, given.from, R!Times(given)[1])
              /\ Reads(end, given, given.to, R!Times(given)[2])
    BY DEF RangeInv, R!TypeOK
  <1>2. CASE R!Start
    <2>1. /\ rpc = "down" /\ R!ParseTimeRange(stored) /\ rpc' = "up" /\ given' = stored
          /\ mixed' = FALSE /\ stored' = stored /\ now' = now
      BY <1>2 DEF R!Start
    <2>2. start.year = 0 /\ end.year = 0  BY <1>1, <2>1 DEF R!Zero
    <2>3. /\ start' \in R!Tm /\ end' \in R!Tm
          /\ Reads(start', stored, stored.from, R!Times(stored)[1])
          /\ Reads(end', stored, stored.to, R!Times(stored)[2])
      BY <1>1, <2>1, <2>2, ParsedTo
    <2>4. /\ Reads(start', given', (given').from, R!Times(given')[1])
          /\ Reads(end', given', (given').to, R!Times(given')[2])
      BY <2>1, <2>3
    <2> QED  BY <1>1, <2>1, <2>3, <2>4 DEF RangeInv, R!TypeOK, R!Times
  <1>3. CASE \E r \in Ranges : R!TimeRange(r)
    <2>1. PICK r \in Ranges : R!TimeRange(r)  BY <1>3
    <2>2. /\ rpc = "up" /\ R!ParseTimeRange(r)
          /\ rpc' = (IF r.text = "good" THEN "commit" ELSE "up")
          /\ given' = (IF r.text = "good" THEN r ELSE given)
          /\ mixed' = (r.text = "bad" \/ (r.kind = "week" /\ (given.kind # "week" \/ mixed)))
          /\ stored' = stored /\ now' = now
      BY <2>1 DEF R!TimeRange
    <2>3. start' \in R!Tm /\ end' \in R!Tm  BY <2>2, ParsedTo
    <2>4. r.text \in {"good", "bad"}  BY RangeIs
    <2>5. ASSUME ~ mixed'
          PROVE  /\ Reads(start', given', (given').from, R!Times(given')[1])
                 /\ Reads(end', given', (given').to, R!Times(given')[2])
      <3>1. r.text = "good" /\ given' = r  BY <2>2, <2>4, <2>5
      <3>2. r.kind = "week" => given.kind = "week" /\ ~ mixed  BY <2>2, <2>5
      <3>3. r.kind = "week" => start.year = 0 /\ end.year = 0
        BY <1>1, <2>2, <3>2 DEF Reads
      <3>4. /\ Reads(start', r, r.from, R!Times(r)[1])
            /\ Reads(end', r, r.to, R!Times(r)[2])
        BY <2>2, <3>1, <3>3, ParsedTo
      <3> QED  BY <3>1, <3>4
    <2>6. given' \in Ranges /\ given'.text = "good"  BY <1>1, <2>2, <2>4
    <2>7. mixed' \in BOOLEAN  BY <2>2
    <2>8. rpc' \in {"up", "commit"}  BY <2>2
    <2> QED  BY <1>1, <2>2, <2>3, <2>5, <2>6, <2>7, <2>8 DEF RangeInv, R!TypeOK, R!Times
  <1>4. CASE R!ucicommit
    BY <1>1, <1>4 DEF R!ucicommit, RangeInv, R!TypeOK, R!Times
  <1>5. CASE R!Pass
    BY <1>1, <1>5 DEF R!Pass, RangeInv, R!TypeOK, R!Times
  <1>6. CASE R!Crash
    <2>1. R!Zero \in R!Tm
      BY RangeAssumption DEF R!Zero, R!Tm, R!YEAR
    <2> QED  BY <1>1, <1>6, <2>1 DEF R!Crash, RangeInv, R!TypeOK
  <1> QED  BY <1>2, <1>3, <1>4, <1>5, <1>6 DEF R!Next

(* Days and times of the day are compared one after the other.              *)
LEMMA DaysFirst ==
  ASSUME NEW x \in Int, NEW y \in Int, NEW s \in 0 .. DAY - 1, NEW u \in 0 .. DAY - 1
  PROVE  x * DAY + s <= y * DAY + u <=> x < y \/ (x = y /\ s <= u)
  <1>1. DAY \in Nat /\ DAY >= 1  BY RangeAssumption
  <1>2. PICK d \in Int : d = y - x  OBVIOUS
  <1>3. y * DAY = x * DAY + d * DAY
    <2>1. y = x + d  BY <1>2
    <2>2. (x + d) * DAY = x * DAY + d * DAY  BY <1>1, <1>2
    <2> QED  BY <2>1, <2>2
  <1>4. PICK p \in Int : p = d * DAY  BY <1>1, <1>2
  <1>5. PICK q \in Int : q = x * DAY  BY <1>1
  <1>6. /\ d >= 1 => p >= DAY
        /\ d = 0 => p = 0
        /\ d <= -1 => p <= -DAY
    BY <1>1, <1>2, <1>4
  <1>7. q + s <= (q + p) + u <=> d >= 1 \/ (d = 0 /\ s <= u)
    BY <1>1, <1>2, <1>4, <1>5, <1>6
  <1> QED  BY <1>2, <1>3, <1>4, <1>5, <1>7

LEMMA Divides ==
  ASSUME NEW n \in Nat, NEW d \in Nat, d >= 1
  PROVE  n \div d \in Nat /\ n % d \in 0 .. d - 1 /\ n = (n \div d) * d + (n % d)
  OBVIOUS

(* The clock.                                                               *)
LEMMA ClockIs ==
  ASSUME now \in Clock
  PROVE  /\ R!mday \in Nat /\ now % DAY \in 0 .. DAY - 1 /\ now = R!mday * DAY + (now % DAY)
         /\ R!wday \in 0 .. 6 /\ R!mday \div 7 \in Nat
         /\ R!mday = 7 * (R!mday \div 7) + R!wday
  <1>1. DAY \in Nat /\ DAY >= 1 /\ now \in Nat  BY RangeAssumption
  <1>2. PICK n \in Nat : n = now  BY <1>1
  <1>3. PICK d \in Nat : d = DAY /\ d >= 1  BY <1>1
  <1>4. n \div d \in Nat /\ n % d \in 0 .. d - 1 /\ n = (n \div d) * d + (n % d)
    BY <1>2, <1>3, Divides
  <1>5. PICK D \in Nat : D = n \div d  BY <1>4
  <1>6. D % 7 \in 0 .. 6 /\ D \div 7 \in Nat /\ D = 7 * (D \div 7) + (D % 7)
    <2>1. PICK e \in Nat : e = 7  OBVIOUS
    <2>2. D \div e \in Nat /\ D % e \in 0 .. e - 1 /\ D = (D \div e) * e + (D % e)
      <3>1. e \in Nat /\ e >= 1  BY <2>1
      <3>2. D \in Nat  BY <1>5
      <3> QED  BY <3>1, <3>2, Divides
    <2>3. PICK k \in Nat : k = D \div 7  BY <2>1, <2>2
    <2>4. PICK w \in 0 .. 6 : w = D % 7  BY <2>1, <2>2
    <2>5. D = k * 7 + w  BY <2>1, <2>2, <2>3, <2>4
    <2>6. D = 7 * k + w  BY <2>5
    <2> QED  BY <2>3, <2>4, <2>6
  <1>7. R!mday = D /\ R!wday = D % 7
    BY <1>2, <1>3, <1>5 DEF R!mday, R!wday, R!DAYSINWEEK
  <1> QED  BY <1>2, <1>3, <1>4, <1>5, <1>6, <1>7

(* What CheckTimeRange fills in.                                            *)
LEMMA FilledIs ==
  ASSUME start \in R!Tm, NEW tm \in R!Tm
  PROVE  /\ R!Filled(tm).time = IF start.time = -1 THEN now % DAY ELSE tm.time
         /\ R!Filled(tm).mday = IF start.mday = -1 THEN R!mday ELSE tm.mday
         /\ R!Filled(tm).year = IF start.mday = -1 THEN R!YEAR ELSE tm.year
         /\ R!Today(R!Filled(tm)).time = IF start.time = -1 THEN now % DAY ELSE tm.time
         /\ R!Today(R!Filled(tm)).mday = R!mday
         /\ R!Today(R!Filled(tm)).year = R!YEAR
  <1>1. tm = [mday |-> tm.mday, year |-> tm.year, wday |-> tm.wday, time |-> tm.time]
    BY DEF R!Tm
  <1>2. PICK D, t : D = R!mday /\ t = now % DAY  OBVIOUS
  <1>3. PICK f : f = R!Filled(tm)  OBVIOUS
  <1>4. f = [mday |-> IF start.mday = -1 THEN D ELSE tm.mday,
             year |-> IF start.mday = -1 THEN R!YEAR ELSE tm.year,
             wday |-> tm.wday,
             time |-> IF start.time = -1 THEN t ELSE tm.time]
    <2>1. PICK g : g = IF start.mday = -1 THEN R!Today(tm) ELSE tm  OBVIOUS
    <2>2. g = [mday |-> IF start.mday = -1 THEN D ELSE tm.mday,
               year |-> IF start.mday = -1 THEN R!YEAR ELSE tm.year,
               wday |-> tm.wday, time |-> tm.time]
      BY <1>1, <1>2, <2>1 DEF R!Today
    <2>3. f = IF start.time = -1 THEN [g EXCEPT !.time = t] ELSE g
      BY <1>2, <1>3, <2>1 DEF R!Filled
    <2> QED  BY <2>2, <2>3
  <1>5. R!Today(f) = [f EXCEPT !.mday = D, !.year = R!YEAR]
    BY <1>2 DEF R!Today
  <1>6. PICK g : g = R!Today(f)  OBVIOUS
  <1>7. /\ f.time = (IF start.time = -1 THEN t ELSE tm.time)
        /\ f.mday = (IF start.mday = -1 THEN D ELSE tm.mday)
        /\ f.year = (IF start.mday = -1 THEN R!YEAR ELSE tm.year)
    BY <1>4
  <1>8. g.time = f.time /\ g.mday = D /\ g.year = R!YEAR
    BY <1>4, <1>5, <1>6
  <1> QED  BY <1>2, <1>3, <1>6, <1>7, <1>8

(* What is read, in the terms of mktime, and the range that is meant.       *)
LEMMA GivenIs ==
  ASSUME RangeInv, rpc # "down", ~ mixed
  PROVE  /\ start \in R!Tm /\ end \in R!Tm /\ given \in Ranges /\ now \in Clock
         /\ Reads(start, given, given.from, R!Times(given)[1])
         /\ Reads(end, given, given.to, R!Times(given)[2])
  BY DEF RangeInv, R!TypeOK

LEMMA SameAnswer ==
  ASSUME NEW A, NEW B, A \in BOOLEAN, B \in BOOLEAN, A <=> B
  PROVE  {A} = {B}
  OBVIOUS

(* Without a date: every day.                                               *)
LEMMA AnyDay ==
  ASSUME RangeInv, rpc # "down", ~ mixed, given.kind = "any", ~ R!Overnight(given)
  PROVE  R!CheckTimeRange = {R!Meant(given)}
  <1>1. PICK g \in Ranges : g = given  BY GivenIs
  <1>2. PICK D \in Nat : D = R!mday  BY GivenIs, ClockIs
  <1>3. PICK t \in 0 .. DAY - 1 : t = now % DAY  BY GivenIs, ClockIs
  <1>4. now = D * DAY + t  BY <1>2, <1>3, GivenIs, ClockIs
  <1>5. PICK a, b \in 0 .. DAY - 1 : a = R!Times(g)[1] /\ b = R!Times(g)[2]
    BY RangeIs
  <1>6. /\ start.time = (IF g.time = <<>> THEN -1 ELSE a) /\ start.mday = -1 /\ start.year = -1
        /\ end.time = (IF g.time = <<>> THEN -1 ELSE b)
    BY <1>1, <1>5, GivenIs DEF Reads
  <1>7. PICK from1, to1 \in 0 .. DAY - 1 :
           /\ from1 = IF g.time = <<>> THEN t ELSE a
           /\ to1 = IF g.time = <<>> THEN t ELSE b
    OBVIOUS
  <1>8. a # -1 /\ DAY \in Nat /\ DAY >= 1  BY <1>5, RangeAssumption
  <1>9. R!mktime(R!Filled(start)) = D * DAY + from1 /\ R!mktime(R!Filled(end)) = D * DAY + to1
    <2>1. PICK f : f = R!Filled(start)  OBVIOUS
    <2>2. PICK h : h = R!Filled(end)  OBVIOUS
    <2>3. f.time = from1 /\ f.mday = D /\ f.year = R!YEAR
      BY <1>2, <1>3, <1>6, <1>7, <1>8, <2>1, GivenIs, FilledIs
    <2>4. h.time = to1 /\ h.mday = D /\ h.year = R!YEAR
      BY <1>2, <1>3, <1>6, <1>7, <1>8, <2>2, GivenIs, FilledIs
    <2> QED  BY <2>1, <2>2, <2>3, <2>4 DEF R!mktime, R!YEAR
  <1>10. R!CheckTimeRange = {R!Concrete}
    BY <1>6 DEF R!CheckTimeRange, R!Unset
  <1>11. R!Concrete <=> from1 <= t /\ t <= to1
    <2>1. D * DAY + from1 <= D * DAY + t <=> from1 <= t  BY <1>8
    <2>2. D * DAY + t <= D * DAY + to1 <=> t <= to1  BY <1>8
    <2> QED  BY <1>4, <1>9, <2>1, <2>2 DEF R!Concrete
  <1>12. R!Days(g) = {<<d, d>> : d \in D - 1 .. D}
    BY <1>1, <1>2 DEF R!Days
  <1>13. R!Meant(g) <=> from1 <= t /\ t <= to1
    <2>1. CASE g.time = <<>>
      <3>1. <<D, D>> \in R!Days(g) /\ D \in <<D, D>>[1] .. <<D, D>>[2]  BY <1>12
      <3>2. R!Meant(g)  BY <1>2, <2>1, <3>1 DEF R!Meant
      <3> QED  BY <1>7, <2>1, <3>2
    <2>2. CASE g.time # <<>>
      <3>1. g.time[1] = a /\ g.time[2] = b /\ from1 = a /\ to1 = b
        BY <1>5, <1>7, <2>2 DEF R!Times
      <3>2. ~ R!Overnight(g)  BY <1>1
      <3>3. R!Meant(g) <=> \E d \in R!Days(g) : d[1] * DAY + a <= now /\ now <= d[2] * DAY + b
        BY <2>2, <3>1, <3>2 DEF R!Meant
      <3>4. \A d \in R!Days(g) : d[1] \in D - 1 .. D /\ d[2] = d[1]
        BY <1>12
      <3>5. ASSUME NEW d \in R!Days(g), d[1] * DAY + a <= now, now <= d[2] * DAY + b
            PROVE  a <= t /\ t <= b
        <4>1. PICK e \in Int : e = d[1] /\ e = d[2] /\ e <= D  BY <3>4
        <4>2. e * DAY + a <= D * DAY + t /\ D * DAY + t <= e * DAY + b
          BY <1>4, <3>5, <4>1
        <4>3. D < e \/ (D = e /\ t <= b)  BY <4>2, DaysFirst
        <4>4. e < D \/ (e = D /\ a <= t)  BY <4>2, DaysFirst
        <4> QED  BY <4>1, <4>3, <4>4
      <3>6. ASSUME a <= t, t <= b
            PROVE  \E d \in R!Days(g) : d[1] * DAY + a <= now /\ now <= d[2] * DAY + b
        <4>1. PICK d : d = <<D, D>>  OBVIOUS
        <4>2. d \in R!Days(g) /\ d[1] = D /\ d[2] = D  BY <1>12, <4>1
        <4>3. D * DAY + a <= D * DAY + t /\ D * DAY + t <= D * DAY + b
          BY <3>6, DaysFirst
        <4> QED  BY <1>4, <4>2, <4>3
      <3> QED  BY <3>1, <3>3, <3>5, <3>6
    <2> QED  BY <2>1, <2>2
  <1>14. R!Concrete \in BOOLEAN /\ R!Meant(g) \in BOOLEAN
    BY Zenon DEF R!Concrete, R!Meant
  <1> QED  BY <1>1, <1>10, <1>11, <1>13, <1>14, SameAnswer

(* Days of the month, without times.                                        *)
LEMMA SomeDates ==
  ASSUME RangeInv, rpc # "down", ~ mixed, given.kind = "date", given.time = <<>>
  PROVE  R!CheckTimeRange = {R!Meant(given)}
  <1>1. PICK g \in Ranges : g = given  BY GivenIs
  <1>2. PICK D \in Nat : D = R!mday  BY GivenIs, ClockIs
  <1>3. PICK t \in 0 .. DAY - 1 : t = now % DAY  BY GivenIs, ClockIs
  <1>4. now = D * DAY + t  BY <1>2, <1>3, GivenIs, ClockIs
  <1>5. PICK f, u \in 1 .. 31 : f = g.from /\ u = g.to
    BY <1>1, RangeIs DEF DayOf
  <1>6. /\ start.time = -1 /\ start.mday = f /\ start.year = R!YEAR
        /\ end.time = -1 /\ end.mday = u /\ end.year = R!YEAR
    BY <1>1, <1>5, GivenIs DEF Reads
  <1>7. DAY \in Nat /\ DAY >= 1 /\ f # -1
    <2>1. f # -1
      <3>1. \A x \in 1 .. 31 : x # -1  OBVIOUS
      <3>2. f \in 1 .. 31  OBVIOUS
      <3> QED  BY <3>1, <3>2
    <2> QED  BY <2>1, RangeAssumption
  <1>8. R!mktime(R!Filled(start)) = f * DAY + t /\ R!mktime(R!Filled(end)) = u * DAY + t
    <2>1. PICK x : x = R!Filled(start)  OBVIOUS
    <2>2. PICK h : h = R!Filled(end)  OBVIOUS
    <2>3. x.time = t /\ x.mday = f /\ x.year = R!YEAR
      BY <1>3, <1>6, <1>7, <2>1, GivenIs, FilledIs
    <2>4. h.time = t /\ h.mday = u /\ h.year = R!YEAR
      BY <1>3, <1>6, <1>7, <2>2, GivenIs, FilledIs
    <2> QED  BY <2>1, <2>2, <2>3, <2>4 DEF R!mktime, R!YEAR
  <1>9. R!CheckTimeRange = {R!Concrete}
    BY <1>6 DEF R!CheckTimeRange, R!Unset, R!YEAR
  <1>10. R!Concrete <=> f <= D /\ D <= u
    <2>1. f * DAY + t <= D * DAY + t <=> f < D \/ (f = D /\ t <= t)  BY DaysFirst
    <2>2. D * DAY + t <= u * DAY + t <=> D < u \/ (D = u /\ t <= t)  BY DaysFirst
    <2> QED  BY <1>4, <1>8, <2>1, <2>2 DEF R!Concrete
  <1>11. R!Days(g) = {<<f, u>>}
    BY <1>1, <1>5 DEF R!Days
  <1>12. R!Meant(g) <=> f <= D /\ D <= u
    <2>1. R!Meant(g) <=> \E d \in R!Days(g) : D \in d[1] .. d[2]
      BY <1>1, <1>2 DEF R!Meant
    <2>2. \A d \in R!Days(g) : d[1] = f /\ d[2] = u  BY <1>11
    <2>3. <<f, u>> \in R!Days(g)  BY <1>11
    <2> QED  BY <2>1, <2>2, <2>3
  <1>13. R!Concrete \in BOOLEAN /\ R!Meant(g) \in BOOLEAN
    BY Zenon DEF R!Concrete, R!Meant
  <1> QED  BY <1>1, <1>9, <1>10, <1>12, <1>13, SameAnswer

(* Days of the week: of the weeks that Days names, only this one matters.   *)
LEMMA SomeDaysOfTheWeek ==
  ASSUME RangeInv, rpc # "down", ~ mixed, given.kind = "week", ~ R!Overnight(given),
         ~ R!NewWeek(given)
  PROVE  R!CheckTimeRange = {R!Meant(given)}
  <1>1. PICK g \in Ranges : g = given  BY GivenIs
  <1>2. PICK D \in Nat : D = R!mday  BY GivenIs, ClockIs
  <1>3. PICK t \in 0 .. DAY - 1 : t = now % DAY  BY GivenIs, ClockIs
  <1>4. now = D * DAY + t  BY <1>2, <1>3, GivenIs, ClockIs
  <1>5. PICK a, b \in 0 .. DAY - 1 : a = R!Times(g)[1] /\ b = R!Times(g)[2]
    BY RangeIs
  <1>6. PICK f, u \in 0 .. 6 : f = g.from /\ u = g.to
    BY <1>1, RangeIs DEF DayOf
  <1>7. PICK w \in 0 .. 6 : w = R!wday  BY GivenIs, ClockIs
  <1>8. PICK K \in Nat : K = R!mday \div 7  BY GivenIs, ClockIs
  <1>9. D = 7 * K + w  BY <1>2, <1>7, <1>8, GivenIs, ClockIs
  <1>10. /\ start.time = (IF g.time = <<>> THEN -1 ELSE a) /\ start.wday = f /\ start.year = 0
         /\ end.time = (IF g.time = <<>> THEN -1 ELSE b) /\ end.wday = u
    BY <1>1, <1>5, <1>6, GivenIs DEF Reads
  <1>11. PICK from1, to1 \in 0 .. DAY - 1 :
            /\ from1 = IF g.time = <<>> THEN t ELSE a
            /\ to1 = IF g.time = <<>> THEN t ELSE b
    OBVIOUS
  <1>12. a # -1 /\ DAY \in Nat /\ DAY >= 1  BY <1>5, RangeAssumption
  <1>13. /\ R!mktime(R!Today(R!Filled(start))) = D * DAY + from1
         /\ R!mktime(R!Today(R!Filled(end))) = D * DAY + to1
    <2>1. PICK x : x = R!Today(R!Filled(start))  OBVIOUS
    <2>2. PICK h : h = R!Today(R!Filled(end))  OBVIOUS
    <2>3. x.time = from1 /\ x.mday = D /\ x.year = R!YEAR
      BY <1>2, <1>3, <1>10, <1>11, <1>12, <2>1, GivenIs, FilledIs
    <2>4. h.time = to1 /\ h.mday = D /\ h.year = R!YEAR
      BY <1>2, <1>3, <1>10, <1>11, <1>12, <2>2, GivenIs, FilledIs
    <2> QED  BY <2>1, <2>2, <2>3, <2>4 DEF R!mktime, R!YEAR
  <1>14. R!CheckTimeRange = {R!Week}
    BY <1>10 DEF R!CheckTimeRange
  <1>15. PICK m : m = (u - f) % 7  OBVIOUS
  <1>16. m \in Int /\ f + m = (IF u >= f THEN u ELSE u + 7)
    BY <1>15
  <1>17. PICK weeks \in {0, 7} : weeks = IF u >= f THEN 0 ELSE 7  OBVIOUS
  <1>18. PICK F, U \in Int : F = K * 7 + f /\ U = K * 7 + f + m  BY <1>16
  <1>19. R!Week <=> /\ F < D \/ (F = D /\ from1 <= t)
                    /\ D < U \/ (D = U /\ t <= to1)
    <2>1. R!Week <=> /\ D * DAY + from1 + (f - w) * DAY <= now
                     /\ now <= D * DAY + to1 + (u - w + weeks) * DAY
      BY <1>7, <1>10, <1>13, <1>17 DEF R!Week, R!DAYSINWEEK
    <2>2. D + (f - w) = F /\ D + (u - w + weeks) = U
      BY <1>9, <1>16, <1>17, <1>18
    <2>3. D * DAY + from1 + (f - w) * DAY = F * DAY + from1
      BY <1>12, <2>2
    <2>4. D * DAY + to1 + (u - w + weeks) * DAY = U * DAY + to1
      BY <1>12, <1>17, <2>2
    <2>5. F * DAY + from1 <= D * DAY + t <=> F < D \/ (F = D /\ from1 <= t)  BY DaysFirst
    <2>6. D * DAY + t <= U * DAY + to1 <=> D < U \/ (D = U /\ t <= to1)  BY DaysFirst
    <2> QED  BY <1>4, <2>1, <2>3, <2>4, <2>5, <2>6
  <1>20. R!Days(g) = {<<k * 7 + f, k * 7 + f + m>> : k \in -1 .. K}
    BY <1>1, <1>6, <1>8, <1>15 DEF R!Days, R!DAYSINWEEK
  <1>d. /\ \A d \in R!Days(g) : \E k \in -1 .. K : d[1] = k * 7 + f /\ d[2] = k * 7 + f + m
        /\ \A k \in -1 .. K : \E d \in R!Days(g) : d[1] = k * 7 + f /\ d[2] = k * 7 + f + m
    <2>1. ASSUME NEW d \in R!Days(g)
          PROVE  \E k \in -1 .. K : d[1] = k * 7 + f /\ d[2] = k * 7 + f + m
      <3>1. PICK k \in -1 .. K : d = <<k * 7 + f, k * 7 + f + m>>  BY <1>20
      <3>2. d[1] = k * 7 + f /\ d[2] = k * 7 + f + m  BY <3>1
      <3> QED  BY <3>2
    <2>2. ASSUME NEW k \in -1 .. K
          PROVE  \E d \in R!Days(g) : d[1] = k * 7 + f /\ d[2] = k * 7 + f + m
      <3>1. PICK d : d = <<k * 7 + f, k * 7 + f + m>>  OBVIOUS
      <3>2. d \in R!Days(g)  BY <1>20, <3>1
      <3>3. d[1] = k * 7 + f /\ d[2] = k * 7 + f + m  BY <3>1
      <3> QED  BY <3>2, <3>3
    <2> QED  BY <2>1, <2>2
  <1>21. R!Meant(g) <=> \E k \in -1 .. K : /\ k * 7 + f < D \/ (k * 7 + f = D /\ from1 <= t)
                                           /\ D < k * 7 + f + m \/ (D = k * 7 + f + m /\ t <= to1)
    <2>1. CASE g.time = <<>>
      <3>1. R!Meant(g) <=> \E d \in R!Days(g) : D \in d[1] .. d[2]
        BY <1>2, <2>1 DEF R!Meant
      <3>2. (\E d \in R!Days(g) : D \in d[1] .. d[2])
            <=> \E k \in -1 .. K : D \in k * 7 + f .. k * 7 + f + m
        BY <1>d
      <3>3. from1 = t /\ to1 = t  BY <1>11, <2>1
      <3> QED  BY <1>16, <3>1, <3>2, <3>3
    <2>2. CASE g.time # <<>>
      <3>1. g.time[1] = a /\ g.time[2] = b /\ from1 = a /\ to1 = b
        BY <1>5, <1>11, <2>2 DEF R!Times
      <3>2. ~ R!Overnight(g)  BY <1>1
      <3>3. R!Meant(g) <=> \E d \in R!Days(g) : d[1] * DAY + a <= now /\ now <= d[2] * DAY + b
        BY <2>2, <3>1, <3>2 DEF R!Meant
      <3>4. (\E d \in R!Days(g) : d[1] * DAY + a <= now /\ now <= d[2] * DAY + b)
            <=> \E k \in -1 .. K : /\ (k * 7 + f) * DAY + a <= now
                                   /\ now <= (k * 7 + f + m) * DAY + b
        BY <1>d
      <3>5. ASSUME NEW k \in -1 .. K
            PROVE  /\ (k * 7 + f) * DAY + a <= now <=> k * 7 + f < D \/ (k * 7 + f = D /\ a <= t)
                   /\ now <= (k * 7 + f + m) * DAY + b
                      <=> D < k * 7 + f + m \/ (D = k * 7 + f + m /\ t <= b)
        <4>1. PICK p, q \in Int : p = k * 7 + f /\ q = k * 7 + f + m  BY <1>16
        <4>2. p * DAY + a <= D * DAY + t <=> p < D \/ (p = D /\ a <= t)  BY DaysFirst
        <4>3. D * DAY + t <= q * DAY + b <=> D < q \/ (D = q /\ t <= b)  BY DaysFirst
        <4> QED  BY <1>4, <4>1, <4>2, <4>3
      <3> QED  BY <3>1, <3>3, <3>4, <3>5
    <2> QED  BY <2>1, <2>2
  <1>22. R!Meant(g) <=> R!Week
    <2>1. ~ (u < f /\ w < f)  BY <1>1, <1>6, <1>7 DEF R!NewWeek
    <2>2. ASSUME NEW k \in -1 .. K,
                 k * 7 + f < D \/ (k * 7 + f = D /\ from1 <= t),
                 D < k * 7 + f + m \/ (D = k * 7 + f + m /\ t <= to1)
          PROVE  R!Week
      <3>1. k = K
        <4>1. ~ (k <= K - 2)  BY <1>9, <1>16, <2>2
        <4>2. k # K - 1       BY <1>9, <1>16, <2>1, <2>2
        <4> QED  BY <4>1, <4>2
      <3> QED  BY <1>18, <1>19, <2>2, <3>1
    <2>3. R!Week => R!Meant(g)
      <3>1. K \in -1 .. K  OBVIOUS
      <3> QED  BY <1>18, <1>19, <1>21, <3>1
    <2> QED  BY <1>21, <2>2, <2>3
  <1>23. R!Week \in BOOLEAN /\ R!Meant(g) \in BOOLEAN
    BY Zenon DEF R!Week, R!Meant
  <1> QED  BY <1>1, <1>14, <1>22, <1>23, SameAnswer

LEMMA RangeByInv ==
  ASSUME RangeInv
  PROVE  InTimeRange
  <1> SUFFICES ASSUME rpc # "down", ~ mixed, ~ R!Single(given), ~ R!Overnight(given),
                      ~ R!NewWeek(given)
               PROVE  R!CheckTimeRange = {R!Meant(given)}
    BY DEF InTimeRange, R!InTimeRange
  <1>1. given.kind \in {"any", "week", "date"}
    BY RangeIs DEF RangeInv, R!TypeOK, DayOf
  <1>2. given.kind = "date" => given.time = <<>>
    BY DEF R!Single
  <1> QED  BY <1>1, <1>2, AnyDay, SomeDates, SomeDaysOfTheWeek

LEMMA RangeStays ==
  ASSUME RangeInv, UNCHANGED range
  PROVE  RangeInv'
  BY DEF range, RangeInv, R!TypeOK, R!Times

(* socket_io.c, ParseTimeRange and CheckTimeRange: whatever ranges were set *)
(* and forgotten before, the outputs are released at the times that the     *)
(* last range names, but for the kinds of ranges that are excepted.         *)
THEOREM RangeIsKept == ConfigSpec => []InTimeRange
  <1>1. ConfigInit => RangeInv
    BY RangeInit DEF ConfigInit
  <1>2. RangeInv /\ [ConfigNext]_configvars => RangeInv'
    <2> SUFFICES ASSUME RangeInv, [ConfigNext]_configvars PROVE RangeInv'
      OBVIOUS
    <2>1. R!Next \/ UNCHANGED range
      BY DEF ConfigNext, configvars, Rules1, Range1, Settings1, Tables1
    <2> QED  BY <2>1, RangeStep, RangeStays
  <1> QED
    BY <1>1, <1>2, RangeByInv, PTL DEF ConfigSpec

-----------------------------------------------------------------------------
(* The first k rows of a table have ids, each its own; the others have none.*)
Compact(tab, k) == k \in 0 .. SIODS_MAX /\ \A i \in T!Index : tab[i].id # 0 <=> i <= k

Keyed(tab, k) == Compact(tab, k) /\ \A i, j \in 1 .. k : tab[i].id = tab[j].id => i = j

Rows(V) == [T!Index -> [id : T!Word, value : V]]

(* A row has another value.                                                 *)
Valued(tab, i, v) == [tab EXCEPT ![i].value = v]

(* The first row that is free is taken.                                     *)
Taken(tab, k, id, v) == [tab EXCEPT ![k + 1] = [id |-> id, value |-> v]]

LEMMA LeastIs ==
  ASSUME NEW A \in SUBSET Int, NEW a \in A, \A b \in A : a <= b
  PROVE  T!Min(A) = a
  <1>1. \A c \in A : (\A b \in A : c <= b) => c = a
    BY SMT
  <1> QED
    BY <1>1 DEF T!Min

LEMMA LengthIs ==
  ASSUME NEW tab, NEW k, Compact(tab, k)
  PROVE  T!Length(tab) = k /\ (T!Full(tab) <=> k = SIODS_MAX)
  <1>1. k \in 0 .. SIODS_MAX /\ SIODS_MAX \in Nat /\ \A i \in 1 .. SIODS_MAX : tab[i].id # 0 <=> i <= k
    BY TablesAssumption DEF Compact, T!Index
  <1>2. T!Full(tab) <=> k = SIODS_MAX
    <2>1. ASSUME k # SIODS_MAX PROVE ~ T!Full(tab)
      <3>1. k + 1 \in 1 .. SIODS_MAX /\ ~ (k + 1 <= k)
        BY <1>1, <2>1
      <3> QED
        BY <1>1, <3>1 DEF T!Full, T!Index
    <2>2. ASSUME k = SIODS_MAX PROVE T!Full(tab)
      BY <1>1, <2>2 DEF T!Full, T!Index
    <2> QED
      BY <2>1, <2>2
  <1>3. CASE k = SIODS_MAX
    BY <1>2, <1>3 DEF T!Length
  <1>4. CASE k # SIODS_MAX
    <2> DEFINE A == {i \in T!Index : tab[i].id = 0}
    <2>1. A \in SUBSET Int /\ k + 1 \in A /\ \A b \in A : k + 1 <= b
      BY <1>1, <1>4 DEF T!Index
    <2>2. T!Min(A) = k + 1
      <3> HIDE DEF A
      <3> QED
        BY <2>1, LeastIs
    <2>3. T!Length(tab) = T!Min(A) - 1
      BY <1>2, <1>4 DEF T!Length
    <2> QED
      BY <1>1, <1>2, <1>4, <2>2, <2>3
  <1> QED
    BY <1>3, <1>4

(* What the functions of a table find.                                      *)
LEMMA GetIs ==
  ASSUME NEW tab, NEW k, Keyed(tab, k), NEW id
  PROVE  /\ \A i \in 1 .. k : tab[i].id = id =>
               /\ T!RowsOf(tab, id) = {i} /\ T!Get(tab, id) = tab[i].value /\ ~ T!Passes(tab, id)
               /\ \A v : T!Set(tab, id, v) = Valued(tab, i, v)
               /\ \A v : T!Add(tab, id, v) = Valued(tab, i, v)
         /\ (\A i \in 1 .. k : tab[i].id # id) =>
               /\ T!RowsOf(tab, id) = {} /\ T!Get(tab, id) = None
               /\ T!Passes(tab, id) <=> k = SIODS_MAX
               /\ \A v : T!Add(tab, id, v) = IF k = SIODS_MAX THEN tab
                             ELSE Taken(tab, k, id, v)
  <1>1. T!Length(tab) = k /\ (T!Full(tab) <=> k = SIODS_MAX) /\ k \in Nat
    <2>1. Compact(tab, k)
      BY DEF Keyed
    <2>2. k \in Nat
      BY <2>1, TablesAssumption DEF Compact
    <2> QED
      BY <2>1, <2>2, LengthIs
  <1>2. T!RowsOf(tab, id) = {i \in 1 .. k : tab[i].id = id}
    BY <1>1 DEF T!RowsOf
  <1>3. ASSUME NEW i \in 1 .. k, tab[i].id = id
        PROVE  /\ T!RowsOf(tab, id) = {i} /\ T!Get(tab, id) = tab[i].value /\ ~ T!Passes(tab, id)
               /\ \A v : T!Set(tab, id, v) = Valued(tab, i, v)
               /\ \A v : T!Add(tab, id, v) = Valued(tab, i, v)
    <2>1. T!RowsOf(tab, id) = {i}
      BY <1>2, <1>3 DEF Keyed
    <2>2. T!Min({i}) = i
      <3>1. {i} \in SUBSET Int /\ i \in {i} /\ \A b \in {i} : i <= b
        BY <1>1
      <3> QED
        BY <3>1, LeastIs
    <2>3. {i} # {}
      OBVIOUS
    <2>4. T!Get(tab, id) = tab[i].value /\ ~ T!Passes(tab, id)
      BY <2>1, <2>2, <2>3 DEF T!Get, T!Passes
    <2>5. \A v : T!Set(tab, id, v) = Valued(tab, i, v)
      BY <2>1, <2>2, <2>3, Zenon DEF T!Set, Valued
    <2>6. \A v : T!Add(tab, id, v) = T!Set(tab, id, v)
      BY <2>1, <2>3, Zenon DEF T!Add
    <2> QED
      BY <2>1, <2>4, <2>5, <2>6
  <1>4. ASSUME \A i \in 1 .. k : tab[i].id # id
        PROVE  /\ T!RowsOf(tab, id) = {} /\ T!Get(tab, id) = None
               /\ T!Passes(tab, id) <=> k = SIODS_MAX
               /\ \A v : T!Add(tab, id, v) = IF k = SIODS_MAX THEN tab
                             ELSE Taken(tab, k, id, v)
    <2>1. T!RowsOf(tab, id) = {}
      BY <1>2, <1>4
    <2> QED
      BY <1>1, <2>1 DEF T!Get, T!Passes, T!Add, Taken
  <1> QED
    BY <1>3, <1>4

LEMMA Finds ==
  ASSUME NEW tab, NEW k, Keyed(tab, k), NEW i \in 1 .. k
  PROVE  /\ T!Get(tab, tab[i].id) = tab[i].value
         /\ ~ T!Passes(tab, tab[i].id)
         /\ \A v : T!Add(tab, tab[i].id, v) = Valued(tab, i, v)
         /\ \A v : T!Set(tab, tab[i].id, v) = Valued(tab, i, v)
  BY GetIs

LEMMA Misses ==
  ASSUME NEW tab, NEW k, Keyed(tab, k), NEW id, \A i \in 1 .. k : tab[i].id # id
  PROVE  T!Get(tab, id) = None /\ (T!Passes(tab, id) <=> k = SIODS_MAX)
  BY GetIs

(* What is the same in two tables for the other ids.                        *)
Unaffected(tab, new, id) ==
    \A d : d # id =>
       /\ T!Get(new, d) = T!Get(tab, d)
       /\ T!Passes(tab, d) => T!Passes(new, d)

(* The value of a row changes.                                              *)
LEMMA Revalued ==
  ASSUME NEW V, NEW tab \in Rows(V), NEW k, Keyed(tab, k), NEW r \in T!Index, NEW v \in V,
         NEW new, new = Valued(tab, r, v)
  PROVE  /\ new \in Rows(V) /\ Keyed(new, k)
         /\ \A i \in T!Index : new[i].id = tab[i].id
         /\ \A d : /\ d # tab[r].id \/ ~ (r \in 1 .. k) => T!Get(new, d) = T!Get(tab, d)
                   /\ T!Passes(tab, d) <=> T!Passes(new, d)
         /\ r \in 1 .. k => T!Get(new, tab[r].id) = v
  <1>0. new = [tab EXCEPT ![r] = [id |-> tab[r].id, value |-> v]]
    <2>1. tab[r] \in [id : T!Word, value : V]
      BY DEF Rows
    <2>2. [tab[r] EXCEPT !.value = v] = [id |-> tab[r].id, value |-> v]
      BY <2>1
    <2>3. new = [tab EXCEPT ![r] = [tab[r] EXCEPT !.value = v]]
      BY Zenon DEF Valued
    <2> QED
      BY <2>2, <2>3, Zenon
  <1>1. new \in Rows(V)
    BY <1>0 DEF Rows
  <1>2. \A i \in T!Index : /\ new[i].id = tab[i].id
                           /\ new[i].value = IF i = r THEN v ELSE tab[i].value
    BY <1>0 DEF Rows
  <1>3. k \in Nat /\ 1 .. k \subseteq T!Index /\ SIODS_MAX \in Nat
    BY TablesAssumption DEF Keyed, Compact, T!Index
  <1>4. Keyed(new, k)
    BY <1>2, <1>3 DEF Keyed, Compact
  <1>5. ASSUME NEW d
        PROVE  /\ d # tab[r].id \/ ~ (r \in 1 .. k) => T!Get(new, d) = T!Get(tab, d)
               /\ T!Passes(tab, d) <=> T!Passes(new, d)
    <2>1. CASE \E i \in 1 .. k : tab[i].id = d
      <3>1. PICK i \in 1 .. k : tab[i].id = d
        BY <2>1
      <3>2. i \in T!Index /\ new[i].id = d
        BY <1>2, <1>3, <3>1
      <3>3. T!Get(tab, d) = tab[i].value /\ ~ T!Passes(tab, d)
        BY <3>1, GetIs
      <3>4. T!Get(new, d) = new[i].value /\ ~ T!Passes(new, d)
        BY <3>2, <1>4, GetIs
      <3>5. i = r => d = tab[r].id /\ r \in 1 .. k
        BY <3>1
      <3> QED
        BY <1>2, <3>2, <3>3, <3>4, <3>5
    <2>2. CASE \A i \in 1 .. k : tab[i].id # d
      <3>1. \A i \in 1 .. k : new[i].id # d
        BY <1>2, <1>3, <2>2
      <3>2. T!Get(tab, d) = None /\ (T!Passes(tab, d) <=> k = SIODS_MAX)
        BY <2>2, GetIs
      <3>3. T!Get(new, d) = None /\ (T!Passes(new, d) <=> k = SIODS_MAX)
        BY <3>1, <1>4, GetIs
      <3> QED
        BY <3>2, <3>3
    <2> QED
      BY <2>1, <2>2
  <1>6. ASSUME r \in 1 .. k PROVE T!Get(new, tab[r].id) = v
    <2>1. T!Get(new, tab[r].id) = new[r].value
      <3>1. new[r].id = tab[r].id
        BY <1>2
      <3> QED
        BY <1>4, <1>6, <3>1, GetIs
    <2> QED
      BY <1>2, <2>1
  <1> QED
    BY <1>1, <1>2, <1>4, <1>5, <1>6

(* A row more; an id that is zero leaves it free.                           *)
LEMMA Appended ==
  ASSUME NEW V, NEW tab \in Rows(V), NEW k, Keyed(tab, k), k # SIODS_MAX,
         NEW id \in T!Word, \A i \in 1 .. k : tab[i].id # id, NEW v \in V,
         NEW new, new = Taken(tab, k, id, v),
         NEW n, n = IF id = 0 THEN k ELSE k + 1
  PROVE  /\ new \in Rows(V)
         /\ Keyed(new, n)
         /\ \A i \in 1 .. k : new[i] = tab[i]
         /\ new[k + 1].id = id
         /\ Unaffected(tab, new, id)
         /\ id # 0 => T!Get(new, id) = v
  <1>1. new \in Rows(V)
    BY DEF Rows, Taken
  <1>2. k \in Nat /\ 1 .. k \subseteq T!Index /\ SIODS_MAX \in Nat /\ k < SIODS_MAX
        /\ k + 1 \in T!Index
    BY TablesAssumption DEF Keyed, Compact, T!Index
  <1>3. /\ \A i \in T!Index \ {k + 1} : new[i] = tab[i]
        /\ new[k + 1].id = id /\ new[k + 1].value = v
    BY <1>2 DEF Rows, Taken
  <1>4. n = IF id = 0 THEN k ELSE k + 1
    OBVIOUS
  <1>5. /\ n \in 0 .. SIODS_MAX
        /\ \A i \in 1 .. n : i \in 1 .. k \/ (i = k + 1 /\ id # 0)
        /\ 1 .. k \subseteq 1 .. n /\ (id # 0 => k + 1 \in 1 .. n)
        /\ \A i \in 1 .. k : i \in T!Index \ {k + 1}
    BY <1>2, <1>4
  <1>6. Keyed(new, n)
    <2>1. ASSUME NEW i \in T!Index PROVE new[i].id # 0 <=> i <= n
      <3>1. i \in Int /\ (tab[i].id # 0 <=> i <= k)
        BY DEF Keyed, Compact, T!Index
      <3>2. CASE i = k + 1
        BY <1>2, <1>3, <1>4, <3>2
      <3>3. CASE i # k + 1
        <4>1. new[i] = tab[i]
          BY <1>3, <3>3
        <4>2. i <= n <=> i <= k
          BY <1>2, <1>4, <3>1, <3>3
        <4> QED
          BY <3>1, <4>1, <4>2
      <3> QED
        BY <3>2, <3>3
    <2>2. ASSUME NEW i \in 1 .. n, NEW j \in 1 .. n, new[i].id = new[j].id PROVE i = j
      <3>1. CASE i \in 1 .. k /\ j \in 1 .. k
        BY <1>3, <1>5, <2>2, <3>1 DEF Keyed
      <3>2. CASE i \in 1 .. k /\ j = k + 1
        BY <1>3, <1>5, <2>2, <3>2
      <3>3. CASE i = k + 1 /\ j \in 1 .. k
        BY <1>3, <1>5, <2>2, <3>3
      <3> QED
        BY <1>5, <3>1, <3>2, <3>3
    <2> QED
      BY <1>5, <2>1, <2>2 DEF Keyed, Compact
  <1>7. ASSUME NEW d, d # id
        PROVE  T!Get(new, d) = T!Get(tab, d) /\ (T!Passes(tab, d) => T!Passes(new, d))
    <2>1. CASE \E i \in 1 .. k : tab[i].id = d
      <3>1. PICK i \in 1 .. k : tab[i].id = d
        BY <2>1
      <3>2. i \in 1 .. n /\ new[i] = tab[i] /\ new[i].id = d
        BY <1>3, <1>5, <3>1
      <3>3. T!Get(tab, d) = tab[i].value /\ ~ T!Passes(tab, d)
        BY <3>1, GetIs
      <3>4. T!Get(new, d) = new[i].value
        BY <3>2, <1>6, Finds
      <3> QED
        BY <3>2, <3>3, <3>4
    <2>2. CASE \A i \in 1 .. k : tab[i].id # d
      <3>1. \A i \in 1 .. n : new[i].id # d
        <4> SUFFICES ASSUME NEW i \in 1 .. n PROVE new[i].id # d
          OBVIOUS
        <4>1. CASE i \in 1 .. k
          <5>1. new[i] = tab[i]
            BY <1>3, <1>5, <4>1
          <5> QED
            BY <2>2, <4>1, <5>1
        <4>2. CASE i = k + 1
          BY <1>3, <1>7, <4>2
        <4> QED
          BY <1>5, <4>1, <4>2
      <3>2. T!Get(tab, d) = None /\ ~ T!Passes(tab, d)
        BY <2>2, GetIs
      <3>3. T!Get(new, d) = None /\ (T!Passes(new, d) <=> n = SIODS_MAX)
        BY <3>1, <1>6, Misses
      <3> QED
        BY <3>2, <3>3
    <2> QED
      BY <2>1, <2>2
  <1>8. ASSUME id # 0 PROVE T!Get(new, id) = v
    <2>1. k + 1 \in 1 .. n /\ new[k + 1].id = id /\ new[k + 1].value = v
      BY <1>3, <1>5, <1>8
    <2> QED
      BY <1>6, <2>1, Finds
  <1> QED
    BY <1>1, <1>3, <1>4, <1>5, <1>6, <1>7, <1>8 DEF Unaffected

(* GSTadd and IPTset.                                                       *)
LEMMA Added ==
  ASSUME NEW V, NEW tab \in Rows(V), NEW k, Keyed(tab, k),
         NEW id \in T!Word, NEW v \in V, NEW new, new = T!Add(tab, id, v)
  PROVE  /\ new \in Rows(V)
         /\ \E n : /\ Keyed(new, n) /\ k <= n
                   /\ \A i \in 1 .. k : new[i].id = tab[i].id
                   /\ \A i \in 1 .. n : i \in 1 .. k \/ new[i].id = id
                   /\ id # 0 /\ k # SIODS_MAX => n > 0
         /\ Unaffected(tab, new, id)
         /\ id # 0 => T!Get(new, id) = v \/ (T!Passes(tab, id) /\ T!Passes(new, id))
  <1>1. k \in Nat /\ 1 .. k \subseteq T!Index /\ SIODS_MAX \in Nat /\ k <= SIODS_MAX
        /\ \A i \in 1 .. k : tab[i].id # 0
    BY TablesAssumption DEF Keyed, Compact, T!Index
  <1>2. CASE \E i \in 1 .. k : tab[i].id = id
    <2>1. PICK r \in 1 .. k : tab[r].id = id
      BY <1>2
    <2>2. new = Valued(tab, r, v)
      <3>1. T!Add(tab, tab[r].id, v) = Valued(tab, r, v)
        BY Finds
      <3> QED
        BY <2>1, <3>1
    <2>3. r \in T!Index /\ k > 0
      BY <1>1
    <2>4. /\ new \in Rows(V) /\ Keyed(new, k)
          /\ \A i \in T!Index : new[i].id = tab[i].id
          /\ \A d : /\ d # tab[r].id \/ ~ (r \in 1 .. k) => T!Get(new, d) = T!Get(tab, d)
                    /\ T!Passes(tab, d) <=> T!Passes(new, d)
          /\ r \in 1 .. k => T!Get(new, tab[r].id) = v
      BY <2>2, <2>3, Revalued
    <2>5. \A i \in 1 .. k : new[i].id = tab[i].id
      BY <1>1, <2>4
    <2> QED
      BY <1>1, <2>1, <2>3, <2>4, <2>5 DEF Unaffected
  <1>3. CASE (\A i \in 1 .. k : tab[i].id # id) /\ k = SIODS_MAX
    <2>1. new = tab /\ T!Passes(tab, id)
      BY <1>3, GetIs
    <2> QED
      BY <1>1, <1>3, <2>1 DEF Unaffected
  <1>4. CASE (\A i \in 1 .. k : tab[i].id # id) /\ k # SIODS_MAX
    <2>1. new = Taken(tab, k, id, v)
      BY <1>4, GetIs
    <2>3. PICK n : n = IF id = 0 THEN k ELSE k + 1
      OBVIOUS
    <2>2. /\ new \in Rows(V)
          /\ Keyed(new, n)
          /\ \A i \in 1 .. k : new[i] = tab[i]
          /\ new[k + 1].id = id
          /\ Unaffected(tab, new, id)
          /\ id # 0 => T!Get(new, id) = v
      <3>1. k # SIODS_MAX /\ \A i \in 1 .. k : tab[i].id # id
        BY <1>4
      <3> QED
        BY <3>1, <2>1, <2>3, Appended
    <2>4. k <= n /\ (\A i \in 1 .. n : i \in 1 .. k \/ i = k + 1) /\ (id # 0 => n > 0)
      BY <1>1, <2>3
    <2> QED
      BY <1>1, <2>2, <2>3, <2>4
  <1> QED
    BY <1>2, <1>3, <1>4

-----------------------------------------------------------------------------
(* The octets of a message.                                                 *)

(* A line of an octet is set or cleared.                                    *)
LEMMA WithLineType ==
  ASSUME NEW g \in T!Octet, NEW x \in Line, NEW y \in 0 .. 1
  PROVE  T!WithLine(g, x, y) \in T!Octet
  <1>1. g \in 0 .. 255 /\ y \in {0, 1}
    BY DEF T!Octet
  <1>2. ASSUME NEW p \in {1, 2, 4, 8, 16, 32, 64, 128}
        PROVE  g + (y - ((g \div p) % 2)) * p \in 0 .. 255
    <2>1. CASE p = 1
      BY <1>1, <2>1
    <2>2. CASE p = 2
      BY <1>1, <2>2
    <2>3. CASE p = 4
      BY <1>1, <2>3
    <2>4. CASE p = 8
      BY <1>1, <2>4
    <2>5. CASE p = 16
      BY <1>1, <2>5
    <2>6. CASE p = 32
      BY <1>1, <2>6
    <2>7. CASE p = 64
      BY <1>1, <2>7
    <2>8. CASE p = 128
      BY <1>1, <2>8
    <2> QED
      BY <2>1, <2>2, <2>3, <2>4, <2>5, <2>6, <2>7, <2>8
  <1>3. 2 ^ x \in {1, 2, 4, 8, 16, 32, 64, 128}
    <2>1. 2 ^ 0 = 1 /\ 2 ^ 1 = 2 /\ 2 ^ 2 = 4 /\ 2 ^ 3 = 8
      OBVIOUS
    <2>2. 2 ^ 4 = 16 /\ 2 ^ 5 = 32 /\ 2 ^ 6 = 64 /\ 2 ^ 7 = 128
      OBVIOUS
    <2>3. x \in {0, 1, 2, 3, 4, 5, 6, 7}
      BY TablesAssumption
    <2>4. CASE x \in {0, 1, 2, 3}
      <3>1. x = 0 \/ x = 1 \/ x = 2 \/ x = 3
        BY <2>4
      <3>2. 2 ^ x = 1 \/ 2 ^ x = 2 \/ 2 ^ x = 4 \/ 2 ^ x = 8
        BY <2>1, <3>1, Zenon
      <3> QED
        BY <3>2, Zenon
    <2>5. CASE x \in {4, 5, 6, 7}
      <3>1. x = 4 \/ x = 5 \/ x = 6 \/ x = 7
        BY <2>5
      <3>2. 2 ^ x = 16 \/ 2 ^ x = 32 \/ 2 ^ x = 64 \/ 2 ^ x = 128
        BY <2>2, <3>1, Zenon
      <3> QED
        BY <3>2, Zenon
    <2> QED
      BY <2>3, <2>4, <2>5
  <1>4. PICK p : p = 2 ^ x
    OBVIOUS
  <1>5. T!WithLine(g, x, y) = g + (y - ((g \div p) % 2)) * p
    BY <1>4 DEF T!WithLine
  <1>6. p \in {1, 2, 4, 8, 16, 32, 64, 128}
    BY <1>3, <1>4, Zenon
  <1>7. g + (y - ((g \div p) % 2)) * p \in 0 .. 255
    BY <1>2, <1>6, Zenon
  <1> QED
    BY <1>5, <1>7, Zenon DEF T!Octet

LEMMA MostIs ==
  ASSUME NEW k \in Nat \ {0}
  PROVE  T!Max(1 .. k) = k /\ (1 .. k) \ {k} = 1 .. (k - 1)
  <1>1. \A x \in 1 .. k : (\A y \in 1 .. k : x >= y) => x = k
    BY SMT
  <1>2. k \in 1 .. k /\ \A y \in 1 .. k : k >= y
    OBVIOUS
  <1> QED
    BY <1>1, <1>2 DEF T!Max

(* What is written as eight digits is read as it was.                       *)
LEMMA OctetRead ==
  ASSUME NEW g \in T!Octet
  PROVE  T!binarystr2byte(T!byte2binarystr(g)) = g
  <1> DEFINE D == 1 .. 8
             most == [s \in SUBSET D |-> T!Max(s)]
  <1>1. PICK q : q = T!byte2binarystr(g)
    OBVIOUS
  <1>2. /\ q = [i \in D |-> (g \div 2 ^ (8 - i)) % 2]
        /\ g \in 0 .. 255
    BY <1>1 DEF T!byte2binarystr, T!Octet
  <1>3. /\ q[1] = (g \div 128) % 2 /\ q[2] = (g \div 64) % 2 /\ q[3] = (g \div 32) % 2
        /\ q[4] = (g \div 16) % 2 /\ q[5] = (g \div 8) % 2 /\ q[6] = (g \div 4) % 2
        /\ q[7] = (g \div 2) % 2 /\ q[8] = (g \div 1) % 2
    <2>1. 2 ^ 0 = 1 /\ 2 ^ 1 = 2 /\ 2 ^ 2 = 4 /\ 2 ^ 3 = 8
      OBVIOUS
    <2>2. 2 ^ 4 = 16 /\ 2 ^ 5 = 32 /\ 2 ^ 6 = 64 /\ 2 ^ 7 = 128
      OBVIOUS
    <2>3. /\ 8 - 1 = 7 /\ 8 - 2 = 6 /\ 8 - 3 = 5 /\ 8 - 4 = 4
          /\ 8 - 5 = 3 /\ 8 - 6 = 2 /\ 8 - 7 = 1 /\ 8 - 8 = 0
      OBVIOUS
    <2>4. 1 \in D /\ 2 \in D /\ 3 \in D /\ 4 \in D /\ 5 \in D /\ 6 \in D /\ 7 \in D /\ 8 \in D
      OBVIOUS
    <2> HIDE DEF D
    <2>5. /\ q[1] = (g \div 2 ^ (8 - 1)) % 2 /\ q[2] = (g \div 2 ^ (8 - 2)) % 2
          /\ q[3] = (g \div 2 ^ (8 - 3)) % 2 /\ q[4] = (g \div 2 ^ (8 - 4)) % 2
          /\ q[5] = (g \div 2 ^ (8 - 5)) % 2 /\ q[6] = (g \div 2 ^ (8 - 6)) % 2
          /\ q[7] = (g \div 2 ^ (8 - 7)) % 2 /\ q[8] = (g \div 2 ^ (8 - 8)) % 2
      BY <1>2, <2>4, Zenon
    <2> QED
      BY <2>1, <2>2, <2>3, <2>5
  <1>4. D = DOMAIN q /\ q \in [D -> Nat]
    <2>1. \A i \in D : q[i] \in Nat
      <3>1. D = {1, 2, 3, 4, 5, 6, 7, 8}
        OBVIOUS
      <3>2. /\ q[1] \in Nat /\ q[2] \in Nat /\ q[3] \in Nat /\ q[4] \in Nat
            /\ q[5] \in Nat /\ q[6] \in Nat /\ q[7] \in Nat /\ q[8] \in Nat
        <4> HIDE DEF D, most
        <4> QED
          BY <1>2, <1>3
      <3> HIDE DEF D
      <3> QED
        BY <3>1, <3>2
    <2> QED
      BY <1>2, <2>1
  <1> DEFINE Read(f) == f = [s \in SUBSET DOMAIN q |-> IF s = {} THEN 0
                               ELSE 2 * f[s \ {T!Max(s)}] + q[T!Max(s)]]
  <1>5. \E f \in [SUBSET D -> Nat] : Read(f)
    <2> DEFINE op == [p \in D \X Nat |-> 2 * p[2] + q[p[1]]]
    <2>1. op \in [D \X Nat -> Nat]
      <3> HIDE DEF D
      <3> QED
        BY <1>4
    <2>2. \A s \in SUBSET D : s # {} => most[s] \in s
      <3> SUFFICES ASSUME NEW s \in SUBSET D, s # {} PROVE T!Max(s) \in s
        OBVIOUS
      <3> DEFINE B == {8 - x : x \in s}
      <3>1. B \in SUBSET Nat /\ B # {}
        <4>1. \A x \in s : 8 - x \in Nat
          OBVIOUS
        <4> HIDE DEF D
        <4> QED
          BY <4>1
      <3>2. PICK b \in B : \A y \in B : b <= y
        <4> HIDE DEF B
        <4> QED
          BY <3>1, LeastNatural
      <3>3. PICK x \in s : b = 8 - x
        BY <3>2
      <3>4. \A y \in s : x >= y
        <4> SUFFICES ASSUME NEW y \in s PROVE x >= y
          OBVIOUS
        <4>1. 8 - y \in B /\ y \in 1 .. 8 /\ x \in 1 .. 8
          OBVIOUS
        <4>2. 8 - x <= 8 - y
          <5> HIDE DEF B, D
          <5> QED
            BY <3>2, <3>3, <4>1
        <4> QED
          BY <4>1, <4>2
      <3> QED
        BY <3>3, <3>4 DEF T!Max
    <2>3. PICK f \in [SUBSET D -> Nat] : Folds(f, D, 0, most, op)
      <3>1. IsFiniteSet(D) /\ 0 \in Nat
        <4>1. 1 \in Int /\ 8 \in Int
          OBVIOUS
        <4> QED
          BY <4>1, FS_Interval
      <3>2. HasFold(Nat, D, 0, most, op)
        <4> HIDE DEF D, most, op
        <4> QED
          BY <2>1, <2>2, <3>1, FoldExists
      <3> QED
        BY <3>2 DEF HasFold
    <2> DEFINE Body == [s \in SUBSET DOMAIN q |-> IF s = {} THEN 0
                               ELSE 2 * f[s \ {T!Max(s)}] + q[T!Max(s)]]
    <2>4. ASSUME NEW s \in SUBSET D PROVE f[s] = Body[s]
      <3>1. f[s] = IF s = {} THEN 0 ELSE op[<<most[s], f[s \ {most[s]}]>>]
        <4> HIDE DEF D, most, op
        <4> QED
          BY <2>3 DEF Folds
      <3>2. Body[s] = IF s = {} THEN 0 ELSE 2 * f[s \ {T!Max(s)}] + q[T!Max(s)]
        <4> HIDE DEF D
        <4> QED
          BY <1>4
      <3>3. CASE s # {}
        <4>1. PICK x : x = T!Max(s)
          OBVIOUS
        <4>2. x = most[s] /\ x \in s
          BY <2>2, <3>3, <4>1
        <4>3. f[s \ {x}] \in Nat /\ x \in D
          BY <4>2
        <4>4. op[<<x, f[s \ {x}]>>] = 2 * f[s \ {x}] + q[x]
          <5> HIDE DEF D
          <5> QED
            BY <4>3
        <4> HIDE DEF D, most, op, Body
        <4> QED
          BY <3>1, <3>2, <3>3, <4>1, <4>2, <4>4
      <3> QED
        BY <3>1, <3>2, <3>3
    <2>5. f = Body
      <3> HIDE DEF D
      <3>1. Body = [s \in SUBSET D |-> Body[s]]
        BY <1>4
      <3> HIDE DEF Body
      <3> QED
        BY <2>4, <3>1
    <2> QED
      BY <2>5
  <1>6. PICK f : /\ Read(f) /\ T!binarystr2byte(q) = f[DOMAIN q]
    <2> DEFINE r == CHOOSE f : Read(f)
    <2>1. Read(r)
      BY <1>5
    <2>2. T!binarystr2byte(q) = r[DOMAIN q]
      BY DEF T!binarystr2byte, T!FoldLeft, T!MapThenFoldSet
    <2> HIDE DEF r
    <2> QED
      BY <2>1, <2>2
  <1>7. \A k \in 1 .. 8 : f[1 .. k] = 2 * f[1 .. (k - 1)] + q[k]
    <2> SUFFICES ASSUME NEW k \in 1 .. 8 PROVE f[1 .. k] = 2 * f[1 .. (k - 1)] + q[k]
      OBVIOUS
    <2>1. PICK s : s = 1 .. k
      OBVIOUS
    <2>2. s \in SUBSET D /\ s # {}
      <3>1. k \in s
        BY <2>1
      <3>2. \A i \in s : i \in D
        BY <2>1
      <3> HIDE DEF D
      <3> QED
        BY <3>1, <3>2
    <2>3. T!Max(s) = k /\ s \ {k} = 1 .. (k - 1)
      BY <2>1, MostIs
    <2>4. f[s] = 2 * f[s \ {T!Max(s)}] + q[T!Max(s)]
      <3> HIDE DEF D
      <3> QED
        BY <1>4, <1>6, <2>2
    <2> QED
      BY <2>1, <2>3, <2>4
  <1>8. f[1 .. 0] = 0
    <2>1. 1 .. 0 = {}
      OBVIOUS
    <2>2. {} \in SUBSET D
      OBVIOUS
    <2> HIDE DEF D
    <2> QED
      BY <1>4, <1>6, <2>1, <2>2
  <1> HIDE DEF D, most, Read
  <1>17. g \in Nat
    BY <1>2
  <1>18. \A i \in 1 .. 8 : q[i] \in Int
    BY <1>4 DEF D
  <1>9. f[1 .. 1] = 2 * f[1 .. 0] + q[1] /\ f[1 .. 2] = 2 * f[1 .. 1] + q[2]
    BY <1>7
  <1>10. f[1 .. 3] = 2 * f[1 .. 2] + q[3] /\ f[1 .. 4] = 2 * f[1 .. 3] + q[4]
    BY <1>7
  <1>11. f[1 .. 5] = 2 * f[1 .. 4] + q[5] /\ f[1 .. 6] = 2 * f[1 .. 5] + q[6]
    BY <1>7
  <1>12. f[1 .. 7] = 2 * f[1 .. 6] + q[7] /\ f[1 .. 8] = 2 * f[1 .. 7] + q[8]
    BY <1>7
  <1>13. f[1 .. 1] = g \div 128 /\ f[1 .. 2] = g \div 64
    <2>1. /\ (g \div 128) % 2 = g \div 128
          /\ g \div 64 = 2 * (g \div 128) + ((g \div 64) % 2)
      BY <1>2
    <2>2. f[1 .. 1] = g \div 128
      <3>1. q[1] = g \div 128 /\ q[1] \in Int
        <4>1. q[1] = g \div 128
          BY <1>3, <2>1, Zenon
        <4> QED
          BY <1>17, <4>1
      <3> QED
        BY <1>8, <1>9, <3>1
    <2> QED
      BY <1>3, <1>9, <2>1, <2>2
  <1>14. f[1 .. 3] = g \div 32 /\ f[1 .. 4] = g \div 16
    BY <1>2, <1>3, <1>10, <1>13
  <1>15. f[1 .. 5] = g \div 8 /\ f[1 .. 6] = g \div 4
    BY <1>2, <1>3, <1>11, <1>14
  <1>16. f[1 .. 7] = g \div 2 /\ f[1 .. 8] = g
    BY <1>2, <1>3, <1>12, <1>15
  <1> QED
    BY <1>1, <1>4, <1>6, <1>16 DEF D

-----------------------------------------------------------------------------
(* What the tables say.  The GST has rows only of SIODs that were heard, and*)
(* what was heard of a SIOD, unless it is full and has no row of it; the IPT*)
(* has the address of every SIOD.                                           *)
StatesSaid(gst, hrd) ==
    /\ \E k : Keyed(gst, k)
    /\ \A i \in 1 .. T!Length(gst) : \E n \in Name : hrd[n] # None /\ Number[n] = gst[i].id
    /\ own \in T!Distinct =>
          \A n \in T!Distinct : T!Get(gst, Number[n]) = hrd[n] \/ T!Passes(gst, Number[n])

AddressesSaid(ipt, frm) ==
    /\ \E k : Keyed(ipt, k)
    /\ \A n \in T!Distinct : T!Get(ipt, Number[n]) = frm[n]

OwnFirst(gst) == own \in T!Distinct => T!Length(gst) >= 1 /\ gst[1].id = Number[own]

TabInv ==
    /\ T!TypeOK
    /\ process = "down" => /\ GST = T!Zero /\ IPT = T!Zero
                           /\ heard = T!Nothing /\ from = T!Nothing
    /\ process = "up" => /\ StatesSaid(GST, heard) /\ heard[own] # None /\ OwnFirst(GST)
                         /\ AddressesSaid(IPT, from)

HeardType == [Name -> T!Octet \cup {None}]
FromType  == [Name -> Host \cup {None}]

LEMMA TypesAre ==
  T!TypeOK <=> /\ own \in Own /\ process \in {"down", "up", "overrun"}
               /\ GST \in Rows(T!Octet) /\ IPT \in Rows(Host \cup {0})
               /\ heard \in HeardType /\ from \in FromType
  BY DEF T!TypeOK, Rows, HeardType, FromType

LEMMA NumbersAre ==
  /\ \A n \in Name : Number[n] \in T!Word
  /\ T!Distinct \subseteq Name
  /\ \A n \in T!Distinct : Number[n] # 0
  /\ \A n \in T!Distinct : \A m \in Name : m # n => Number[m] # Number[n]
  BY TablesAssumption DEF T!Distinct

LEMMA KeyedLength ==
  ASSUME NEW tab, NEW k, Keyed(tab, k)
  PROVE  /\ T!Length(tab) = k /\ (T!Full(tab) <=> k = SIODS_MAX)
         /\ k \in Nat /\ \A i \in 1 .. k : i \in T!Index
  <1>1. Compact(tab, k)
    BY DEF Keyed
  <1>2. T!Length(tab) = k /\ (T!Full(tab) <=> k = SIODS_MAX)
    BY <1>1, LengthIs
  <1> QED
    BY <1>1, <1>2, TablesAssumption DEF Compact, T!Index

(* A row is written for what a SIOD has said.                               *)
LEMMA StateAdded ==
  ASSUME NEW gst \in Rows(T!Octet), NEW hrd \in HeardType, StatesSaid(gst, hrd),
         NEW n \in Name, NEW g \in T!Octet, NEW new, new = T!Add(gst, Number[n], g),
         NEW then \in HeardType, \A m \in Name : m # n => then[m] = hrd[m],
         \/ then[n] = g
         \/ /\ then = hrd /\ T!Get(gst, Number[n]) # None
            /\ own \in T!Distinct => n \notin T!Distinct
  PROVE  /\ new \in Rows(T!Octet)
         /\ StatesSaid(new, then)
         /\ OwnFirst(gst) => OwnFirst(new)
         /\ n = own /\ T!Length(gst) = 0 => OwnFirst(new)
  <1>1. PICK k : Keyed(gst, k)
    BY DEF StatesSaid
  <1>2. Number[n] \in T!Word /\ g # None
    BY NumbersAre, TablesAssumption DEF T!Octet
  <1>3. /\ new \in Rows(T!Octet)
        /\ \E l : /\ Keyed(new, l) /\ k <= l
                  /\ \A i \in 1 .. k : new[i].id = gst[i].id
                  /\ \A i \in 1 .. l : i \in 1 .. k \/ new[i].id = Number[n]
                  /\ Number[n] # 0 /\ k # SIODS_MAX => l > 0
        /\ Unaffected(gst, new, Number[n])
        /\ Number[n] # 0 => T!Get(new, Number[n]) = g
                            \/ (T!Passes(gst, Number[n]) /\ T!Passes(new, Number[n]))
    BY <1>1, <1>2, Added
  <1>4. PICK l : /\ Keyed(new, l) /\ k <= l
                 /\ \A i \in 1 .. k : new[i].id = gst[i].id
                 /\ \A i \in 1 .. l : i \in 1 .. k \/ new[i].id = Number[n]
                 /\ Number[n] # 0 /\ k # SIODS_MAX => l > 0
    BY <1>3
  <1>5. T!Length(gst) = k /\ T!Length(new) = l /\ k \in Nat /\ l \in Nat
    BY <1>1, <1>4, KeyedLength
  <1>6. ASSUME NEW i \in 1 .. k PROVE \E m \in Name : then[m] # None /\ Number[m] = gst[i].id
    <2>1. PICK m \in Name : hrd[m] # None /\ Number[m] = gst[i].id
      BY <1>5 DEF StatesSaid
    <2>2. then[m] # None
      BY <1>2, <2>1
    <2> QED
      BY <2>1, <2>2
  <1>7. ASSUME NEW i \in 1 .. l PROVE \E m \in Name : then[m] # None /\ Number[m] = new[i].id
    <2>1. CASE i \in 1 .. k
      BY <1>4, <1>6, <2>1
    <2>2. CASE new[i].id = Number[n] /\ then[n] = g
      BY <1>2, <2>2
    <2>3. CASE new[i].id = Number[n] /\ T!Get(gst, Number[n]) # None
      <3>1. PICK j \in 1 .. k : gst[j].id = Number[n]
        BY <1>1, <2>3, Misses
      <3> QED
        BY <1>6, <2>3, <3>1
    <2> QED
      BY <1>4, <2>1, <2>2, <2>3
  <1>8. ASSUME own \in T!Distinct, NEW m \in T!Distinct
        PROVE  T!Get(new, Number[m]) = then[m] \/ T!Passes(new, Number[m])
    <2>1. T!Get(gst, Number[m]) = hrd[m] \/ T!Passes(gst, Number[m])
      BY <1>8 DEF StatesSaid
    <2>2. CASE m # n
      <3>1. Number[m] # Number[n] /\ m \in Name
        BY <2>2, NumbersAre
      <3>2. then[m] = hrd[m]
        BY <2>2, <3>1
      <3> QED
        BY <1>3, <2>1, <3>1, <3>2 DEF Unaffected
    <2>3. CASE m = n
      <3>1. Number[n] # 0 /\ then[n] = g
        BY <1>8, <2>3, NumbersAre
      <3> QED
        BY <1>3, <2>3, <3>1
    <2> QED
      BY <2>2, <2>3
  <1>9. StatesSaid(new, then)
    BY <1>4, <1>5, <1>7, <1>8 DEF StatesSaid
  <1>10. ASSUME OwnFirst(gst) PROVE OwnFirst(new)
    <2> SUFFICES ASSUME own \in T!Distinct PROVE l >= 1 /\ new[1].id = Number[own]
      BY <1>5 DEF OwnFirst
    <2>1. k >= 1 /\ gst[1].id = Number[own]
      BY <1>5, <1>10 DEF OwnFirst
    <2>2. 1 \in 1 .. k
      BY <1>5, <2>1
    <2> QED
      BY <1>4, <1>5, <2>1, <2>2
  <1>11. ASSUME n = own, T!Length(gst) = 0 PROVE OwnFirst(new)
    <2> SUFFICES ASSUME own \in T!Distinct PROVE l >= 1 /\ new[1].id = Number[own]
      BY <1>5 DEF OwnFirst
    <2>1. Number[n] # 0 /\ k = 0 /\ SIODS_MAX # 0
      BY <1>5, <1>11, NumbersAre, TablesAssumption
    <2>2. 1 \in 1 .. l /\ ~ (1 \in 1 .. k)
      BY <1>4, <1>5, <2>1
    <2> QED
      BY <1>4, <1>5, <1>11, <2>2
  <1> QED
    BY <1>3, <1>9, <1>10, <1>11

LEMMA AddressAdded ==
  ASSUME NEW ipt \in Rows(Host \cup {0}), NEW frm \in FromType, AddressesSaid(ipt, frm),
         NEW n \in Name, NEW a \in Host, ~ T!Passes(ipt, Number[n]),
         NEW new, new = T!Add(ipt, Number[n], a)
  PROVE  new \in Rows(Host \cup {0}) /\ AddressesSaid(new, [frm EXCEPT ![n] = a])
  <1>1. PICK k : Keyed(ipt, k)
    BY DEF AddressesSaid
  <1>2. Number[n] \in T!Word /\ a \in Host \cup {0}
    BY NumbersAre
  <1>3. /\ new \in Rows(Host \cup {0})
        /\ \E l : /\ Keyed(new, l) /\ k <= l
                  /\ \A i \in 1 .. k : new[i].id = ipt[i].id
                  /\ \A i \in 1 .. l : i \in 1 .. k \/ new[i].id = Number[n]
                  /\ Number[n] # 0 /\ k # SIODS_MAX => l > 0
        /\ Unaffected(ipt, new, Number[n])
        /\ Number[n] # 0 => T!Get(new, Number[n]) = a
                            \/ (T!Passes(ipt, Number[n]) /\ T!Passes(new, Number[n]))
    BY <1>1, <1>2, Added
  <1>4. ASSUME NEW m \in T!Distinct PROVE T!Get(new, Number[m]) = [frm EXCEPT ![n] = a][m]
    <2>1. m \in Name
      BY NumbersAre
    <2>2. CASE m = n
      <3>1. Number[m] # 0 /\ [frm EXCEPT ![n] = a][m] = a
        BY <2>1, <2>2, NumbersAre DEF FromType
      <3> QED
        BY <1>3, <2>2, <3>1
    <2>3. CASE m # n
      <3>1. Number[m] # Number[n] /\ [frm EXCEPT ![n] = a][m] = frm[m]
        BY <2>1, <2>3, NumbersAre DEF FromType
      <3> QED
        BY <1>3, <3>1 DEF Unaffected, AddressesSaid
    <2> QED
      BY <2>2, <2>3
  <1> QED
    BY <1>3, <1>4 DEF AddressesSaid

LEMMA ZeroIs ==
  /\ T!Zero \in Rows(T!Octet) /\ T!Zero \in Rows(Host \cup {0})
  /\ Keyed(T!Zero, 0) /\ T!Length(T!Zero) = 0
  /\ StatesSaid(T!Zero, T!Nothing) /\ AddressesSaid(T!Zero, T!Nothing)
  /\ T!Nothing \in HeardType /\ T!Nothing \in FromType
  <1>1. /\ T!Zero \in Rows(T!Octet) /\ T!Zero \in Rows(Host \cup {0})
        /\ \A i \in T!Index : T!Zero[i].id = 0
    <2>1. 0 \in T!Word /\ 0 \in T!Octet
      BY DEF T!Word, T!Octet
    <2> QED
      BY <2>1 DEF T!Zero, Rows
  <1>2. Keyed(T!Zero, 0)
    BY <1>1, TablesAssumption DEF Keyed, Compact, T!Index
  <1>3. T!Length(T!Zero) = 0
    BY <1>2, LengthIs DEF Keyed
  <1>4. \A id : T!Get(T!Zero, id) = None
    <2> SUFFICES ASSUME NEW id PROVE T!Get(T!Zero, id) = None
      OBVIOUS
    <2>1. \A i \in 1 .. 0 : T!Zero[i].id # id
      OBVIOUS
    <2>2. T!Get(T!Zero, id) = None /\ (T!Passes(T!Zero, id) <=> 0 = SIODS_MAX)
      BY <1>2, <2>1, Misses
    <2> QED
      BY <2>2
  <1>5. T!Nothing \in HeardType /\ T!Nothing \in FromType /\ \A n \in Name : T!Nothing[n] = None
    BY DEF T!Nothing, HeardType, FromType
  <1>6. \A n \in T!Distinct : T!Get(T!Zero, Number[n]) = T!Nothing[n]
    BY <1>4, <1>5, NumbersAre
  <1>7. StatesSaid(T!Zero, T!Nothing)
    <2>1. \A i \in 1 .. T!Length(T!Zero) : FALSE
      BY <1>3
    <2> QED
      BY <1>2, <1>6, <2>1 DEF StatesSaid
  <1>8. AddressesSaid(T!Zero, T!Nothing)
    BY <1>2, <1>6 DEF AddressesSaid
  <1> QED
    BY <1>1, <1>2, <1>3, <1>5, <1>7, <1>8

LEMMA StartHolds ==
  ASSUME TabInv, NEW g \in Gpios, T!Start(g)
  PROVE  TabInv'
  <1>1. /\ process = "down" /\ process' = "up" /\ GST' = T!Add(T!Zero, Number[own], g)
        /\ heard' = [T!Nothing EXCEPT ![own] = g]
        /\ own' = own /\ IPT' = T!Zero /\ from' = T!Nothing
    BY DEF T!Start, TabInv
  <1>2. own \in Own /\ own \in Name /\ g \in T!Octet /\ g # None
    BY TypesAre, TablesAssumption DEF TabInv, T!Octet
  <1>3. heard' \in HeardType /\ heard'[own] = g /\ \A m \in Name : m # own => heard'[m] = T!Nothing[m]
    BY <1>1, <1>2, ZeroIs DEF HeardType
  <1>4. GST' \in Rows(T!Octet) /\ StatesSaid(GST', heard') /\ OwnFirst(GST')
    <2>1. PICK new, then : new = GST' /\ then = heard'
      OBVIOUS
    <2>2. /\ T!Zero \in Rows(T!Octet) /\ T!Nothing \in HeardType
          /\ StatesSaid(T!Zero, T!Nothing) /\ T!Length(T!Zero) = 0
      BY ZeroIs
    <2>3. /\ new = T!Add(T!Zero, Number[own], g) /\ then \in HeardType /\ then[own] = g
          /\ \A m \in Name : m # own => then[m] = T!Nothing[m]
      BY <1>1, <1>3, <2>1
    <2>4. new \in Rows(T!Octet) /\ StatesSaid(new, then) /\ OwnFirst(new)
      BY <1>2, <2>2, <2>3, StateAdded
    <2> QED
      BY <2>1, <2>4
  <1>5. T!TypeOK'
    BY <1>1, <1>2, <1>3, <1>4, ZeroIs DEF T!TypeOK, Rows, HeardType, FromType
  <1>6. StatesSaid(GST, heard)' /\ OwnFirst(GST)' /\ AddressesSaid(IPT, from)'
    BY <1>1, <1>4, ZeroIs DEF StatesSaid, OwnFirst, AddressesSaid
  <1> QED
    BY <1>1, <1>2, <1>3, <1>5, <1>6 DEF TabInv

LEMMA SetOwnHolds ==
  ASSUME TabInv, NEW g \in Gpios, T!SetOwn(g)
  PROVE  TabInv'
  <1>1. /\ process = "up" /\ process' = "up" /\ GST' = Valued(GST, 1, g)
        /\ heard' = [heard EXCEPT ![own] = g]
        /\ own' = own /\ IPT' = IPT /\ from' = from
    BY Zenon DEF T!SetOwn, Valued
  <1>2. /\ own \in Own /\ own \in Name /\ g \in T!Octet /\ g # None
        /\ GST \in Rows(T!Octet) /\ IPT \in Rows(Host \cup {0})
        /\ heard \in HeardType /\ from \in FromType
    BY TypesAre, TablesAssumption DEF TabInv, T!Octet
  <1>3. heard' \in HeardType /\ heard'[own] = g /\ \A m \in Name : m # own => heard'[m] = heard[m]
    BY <1>1, <1>2 DEF HeardType
  <1>4. /\ StatesSaid(GST, heard) /\ heard[own] # None /\ OwnFirst(GST) /\ AddressesSaid(IPT, from)
    BY <1>1 DEF TabInv
  <1>5. PICK k : Keyed(GST, k)
    BY <1>4 DEF StatesSaid
  <1>6. 1 \in T!Index /\ k \in Nat
    BY <1>5, TablesAssumption DEF T!Index, Keyed, Compact
  <1>7. /\ GST' \in Rows(T!Octet) /\ Keyed(GST', k)
        /\ \A i \in T!Index : GST'[i].id = GST[i].id
        /\ \A d : /\ d # GST[1].id \/ ~ (1 \in 1 .. k) => T!Get(GST', d) = T!Get(GST, d)
                  /\ T!Passes(GST, d) <=> T!Passes(GST', d)
        /\ 1 \in 1 .. k => T!Get(GST', GST[1].id) = g
    BY <1>1, <1>2, <1>5, <1>6, Revalued
  <1>8. T!Length(GST) = k /\ T!Length(GST') = k /\ \A i \in 1 .. k : i \in T!Index
    BY <1>5, <1>7, KeyedLength
  <1>9. OwnFirst(GST')
    BY <1>4, <1>6, <1>7, <1>8 DEF OwnFirst
  <1>10. ASSUME NEW i \in 1 .. k PROVE \E m \in Name : heard'[m] # None /\ Number[m] = GST'[i].id
    <2>1. PICK m \in Name : heard[m] # None /\ Number[m] = GST[i].id
      BY <1>4, <1>8 DEF StatesSaid
    <2>2. heard'[m] # None
      BY <1>2, <1>3, <2>1
    <2> QED
      BY <1>7, <1>8, <2>1, <2>2
  <1>11. ASSUME own \in T!Distinct, NEW m \in T!Distinct
         PROVE  T!Get(GST', Number[m]) = heard'[m] \/ T!Passes(GST', Number[m])
    <2>1. k >= 1 /\ GST[1].id = Number[own]
      BY <1>4, <1>8, <1>11 DEF OwnFirst
    <2>2. T!Get(GST, Number[m]) = heard[m] \/ T!Passes(GST, Number[m])
      BY <1>4, <1>11 DEF StatesSaid
    <2>3. CASE m = own
      <3>1. 1 \in 1 .. k
        BY <1>6, <2>1
      <3> QED
        BY <1>3, <1>7, <2>1, <2>3, <3>1
    <2>4. CASE m # own
      <3>1. Number[m] # Number[own] /\ m \in Name
        BY <1>2, <2>4, NumbersAre
      <3> QED
        BY <1>3, <1>7, <2>1, <2>2, <2>4, <3>1
    <2> QED
      BY <2>3, <2>4
  <1>12. StatesSaid(GST', heard')
    BY <1>7, <1>8, <1>10, <1>11 DEF StatesSaid
  <1>13. T!TypeOK'
    BY <1>1, <1>2, <1>3, <1>7 DEF T!TypeOK, Rows, HeardType, FromType
  <1>14. StatesSaid(GST, heard)' /\ OwnFirst(GST)' /\ AddressesSaid(IPT, from)'
    BY <1>1, <1>4, <1>9, <1>12 DEF StatesSaid, OwnFirst, AddressesSaid
  <1> QED
    BY <1>1, <1>2, <1>3, <1>13, <1>14 DEF TabInv

(* What a message brings to the tables is enough.                           *)
LEMMA MessageHolds ==
  ASSUME TabInv, process = "up", own' = own, process' \in {"up", "overrun"},
         NEW n \in Name, NEW a \in Host, ~ T!Passes(IPT, Number[n]), T!Heard(n, a),
         GST' \in Rows(T!Octet), heard' \in HeardType,
         \A m \in Name : heard[m] # None => heard'[m] # None,
         StatesSaid(GST', heard'), OwnFirst(GST')
  PROVE  TabInv'
  <1>1. IPT' = T!Add(IPT, Number[n], a) /\ from' = [from EXCEPT ![n] = a]
    BY DEF T!Heard, T!IPTset
  <1>2. /\ own \in Own /\ own \in Name
        /\ GST \in Rows(T!Octet) /\ IPT \in Rows(Host \cup {0})
        /\ heard \in HeardType /\ from \in FromType
    BY TypesAre, TablesAssumption DEF TabInv, T!Octet
  <1>3. AddressesSaid(IPT, from) /\ heard[own] # None
    BY DEF TabInv
  <1>4. IPT' \in Rows(Host \cup {0}) /\ AddressesSaid(IPT', from')
    BY <1>1, <1>2, <1>3, AddressAdded
  <1>5. from' \in FromType
    BY <1>1, <1>2 DEF FromType
  <1>6. T!TypeOK'
    BY <1>2, <1>4, <1>5 DEF T!TypeOK, Rows, HeardType, FromType
  <1>7. StatesSaid(GST, heard)' /\ OwnFirst(GST)' /\ AddressesSaid(IPT, from)'
    BY <1>4 DEF StatesSaid, OwnFirst, AddressesSaid
  <1> QED
    BY <1>2, <1>3, <1>6, <1>7 DEF TabInv

LEMMA TellHolds ==
  ASSUME TabInv, NEW n \in Name, NEW a \in Host, T!Tell(n, a)
  PROVE  TabInv'
  <1>1. /\ process = "up" /\ ~ T!Passes(IPT, Number[n]) /\ T!Heard(n, a)
        /\ process' \in {"up", "overrun"} /\ own' = own /\ GST' = GST /\ heard' = heard
    BY DEF T!Tell, T!Overruns
  <1>2. /\ GST \in Rows(T!Octet) /\ heard \in HeardType
        /\ StatesSaid(GST, heard) /\ OwnFirst(GST)
    BY <1>1, TypesAre DEF TabInv
  <1> QED
    BY <1>1, <1>2, MessageHolds

LEMMA PutAllHolds ==
  ASSUME TabInv, NEW n \in Name, NEW a \in Host, NEW g \in Gpios, T!PutAll(n, a, g)
  PROVE  TabInv'
  <1>1. /\ process = "up" /\ ~ T!Passes(IPT, Number[n]) /\ T!Heard(n, a)
        /\ process' = process /\ own' = own /\ heard' = [heard EXCEPT ![n] = g]
        /\ GST' = T!Add(GST, Number[n], T!binarystr2byte(T!byte2binarystr(g)))
    BY DEF T!PutAll
  <1>2. g \in T!Octet /\ g # None /\ T!binarystr2byte(T!byte2binarystr(g)) = g
    <2>1. g \in T!Octet
      BY TablesAssumption DEF T!Octet
    <2> QED
      BY <2>1, OctetRead, TablesAssumption DEF T!Octet
  <1>3. /\ GST \in Rows(T!Octet) /\ heard \in HeardType
        /\ StatesSaid(GST, heard) /\ OwnFirst(GST)
    BY <1>1, TypesAre DEF TabInv
  <1>4. heard' \in HeardType /\ heard'[n] = g /\ \A m \in Name : m # n => heard'[m] = heard[m]
    BY <1>1, <1>2, <1>3 DEF HeardType
  <1>5. GST' = T!Add(GST, Number[n], g)
    BY <1>1, <1>2
  <1>6. GST' \in Rows(T!Octet) /\ StatesSaid(GST', heard') /\ OwnFirst(GST')
    BY <1>2, <1>3, <1>4, <1>5, StateAdded
  <1>7. \A m \in Name : heard[m] # None => heard'[m] # None
    BY <1>2, <1>4
  <1> QED
    BY <1>1, <1>4, <1>6, <1>7, MessageHolds

LEMMA PutHolds ==
  ASSUME TabInv, NEW n \in Name, NEW a \in Host, NEW x \in Line, NEW y \in 0 .. 1, T!Put(n, a, x, y)
  PROVE  TabInv'
  <1> DEFINE gpios == T!Get(GST, Number[n])
  <1>1. /\ process = "up" /\ ~ T!Passes(IPT, Number[n]) /\ T!Heard(n, a)
        /\ process' \in {"up", "overrun"} /\ own' = own
        /\ GST' = IF gpios = None THEN GST ELSE T!Set(GST, Number[n], T!WithLine(gpios, x, y))
        /\ heard' = IF heard[n] = None THEN heard
                    ELSE [heard EXCEPT ![n] = T!WithLine(heard[n], x, y)]
    BY DEF T!Put, T!Overruns
  <1>2. /\ GST \in Rows(T!Octet) /\ heard \in HeardType
        /\ StatesSaid(GST, heard) /\ OwnFirst(GST)
    BY <1>1, TypesAre DEF TabInv
  <1>3. PICK k : Keyed(GST, k)
    BY <1>2 DEF StatesSaid
  <1>4. ASSUME heard[n] # None PROVE T!WithLine(heard[n], x, y) \in T!Octet
    <2>1. heard[n] \in T!Octet
      BY <1>2, <1>4 DEF HeardType
    <2> QED
      BY <2>1, WithLineType
  <1>5. None \notin T!Octet
    BY TablesAssumption DEF T!Octet
  <1>6. /\ heard' \in HeardType
        /\ \A m \in Name : m # n => heard'[m] = heard[m]
        /\ heard[n] # None => heard'[n] = T!WithLine(heard[n], x, y)
        /\ heard[n] = None => heard' = heard
    BY <1>1, <1>2, <1>4 DEF HeardType
  <1>7. \A m \in Name : heard[m] # None => heard'[m] # None
    BY <1>4, <1>5, <1>6
  <1>8. CASE gpios = None
    <2>1. GST' = GST
      BY <1>1, <1>8
    <2>2. \A i \in 1 .. T!Length(GST) : \E m \in Name : heard'[m] # None /\ Number[m] = GST[i].id
      BY <1>2, <1>7 DEF StatesSaid
    <2>3. ASSUME own \in T!Distinct, NEW m \in T!Distinct
          PROVE  T!Get(GST, Number[m]) = heard'[m] \/ T!Passes(GST, Number[m])
      <3>1. (T!Get(GST, Number[m]) = heard[m] \/ T!Passes(GST, Number[m])) /\ m \in Name
        BY <1>2, <2>3, NumbersAre DEF StatesSaid
      <3>2. CASE m = n /\ heard[n] # None
        BY <1>8, <3>1, <3>2
      <3>3. CASE m # n \/ heard[n] = None
        BY <1>6, <3>1, <3>3
      <3> QED
        BY <3>2, <3>3
    <2>4. StatesSaid(GST', heard')
      BY <1>3, <2>1, <2>2, <2>3 DEF StatesSaid
    <2> QED
      BY <1>1, <1>2, <1>6, <1>7, <2>1, <2>4, MessageHolds
  <1>9. CASE gpios # None
    <2>1. PICK i \in 1 .. k : GST[i].id = Number[n]
      BY <1>3, <1>9, Misses
    <2>2. /\ gpios = GST[i].value /\ ~ T!Passes(GST, Number[n])
          /\ \A v : T!Add(GST, Number[n], v) = T!Set(GST, Number[n], v)
      <3>1. /\ T!Get(GST, GST[i].id) = GST[i].value
            /\ ~ T!Passes(GST, GST[i].id)
            /\ \A v : T!Add(GST, GST[i].id, v) = Valued(GST, i, v)
            /\ \A v : T!Set(GST, GST[i].id, v) = Valued(GST, i, v)
        BY <1>3, Finds
      <3> QED
        BY <2>1, <3>1
    <2>3. gpios \in T!Octet
      <3>1. i \in T!Index
        BY <1>3, TablesAssumption DEF Keyed, Compact, T!Index
      <3> QED
        BY <1>2, <2>2, <3>1 DEF Rows
    <2> HIDE DEF gpios
    <2>4. PICK g : g = T!WithLine(gpios, x, y)
      OBVIOUS
    <2>5. g \in T!Octet /\ GST' = T!Add(GST, Number[n], g)
      BY <1>1, <1>9, <2>2, <2>3, <2>4, WithLineType
    <2>6. own \in T!Distinct /\ n \in T!Distinct => heard[n] = gpios
      BY <1>2, <2>2 DEF StatesSaid, gpios
    <2>7. CASE heard[n] = gpios
      <3>1. heard'[n] = g
        BY <1>6, <1>9, <2>4, <2>7
      <3>2. GST' \in Rows(T!Octet) /\ StatesSaid(GST', heard') /\ OwnFirst(GST')
        BY <1>2, <1>6, <2>5, <3>1, StateAdded
      <3> QED
        BY <1>1, <1>6, <1>7, <3>2, MessageHolds
    <2>8. CASE heard[n] # gpios /\ heard[n] = None
      <3>1. heard' = heard /\ T!Get(GST, Number[n]) # None
            /\ (own \in T!Distinct => n \notin T!Distinct)
        BY <1>6, <1>9, <2>6, <2>8 DEF gpios
      <3>2. GST' \in Rows(T!Octet) /\ StatesSaid(GST', heard') /\ OwnFirst(GST')
        BY <1>2, <1>6, <2>5, <3>1, StateAdded
      <3> QED
        BY <1>1, <1>6, <1>7, <3>2, MessageHolds
    <2>9. CASE heard[n] # gpios /\ heard[n] # None
      <3>1. PICK h : h = [heard EXCEPT ![n] = g]
        OBVIOUS
      <3>2. /\ own \in T!Distinct => n \notin T!Distinct
        BY <2>6, <2>9
      <3>3. h \in HeardType /\ h[n] = g /\ (\A m \in Name : m # n => h[m] = heard[m])
        BY <1>2, <2>5, <3>1 DEF HeardType
      <3>4. GST' \in Rows(T!Octet) /\ StatesSaid(GST', h) /\ OwnFirst(GST')
        BY <1>2, <2>5, <3>3, StateAdded
      <3>5. StatesSaid(GST', heard')
        <4>1. \A m \in Name : h[m] # None => heard'[m] # None
          BY <1>6, <1>7, <2>9, <3>3
        <4>2. own \in T!Distinct => \A m \in T!Distinct : h[m] = heard'[m]
          BY <1>6, <3>2, <3>3, NumbersAre
        <4> QED
          BY <3>4, <4>1, <4>2 DEF StatesSaid
      <3> QED
        BY <1>1, <1>6, <1>7, <3>4, <3>5, MessageHolds
    <2> QED
      BY <2>7, <2>8, <2>9
  <1> QED
    BY <1>8, <1>9

LEMMA TablesStep ==
  ASSUME TabInv, T!Next
  PROVE  TabInv'
  <1>1. ASSUME NEW n \in Name, NEW a \in Host, T!Tell(n, a) PROVE TabInv'
    BY <1>1, TellHolds
  <1>2. ASSUME NEW n \in Name, NEW a \in Host, NEW x \in Line, NEW y \in 0 .. 1, T!Put(n, a, x, y)
        PROVE  TabInv'
    BY <1>2, PutHolds
  <1>3. ASSUME NEW n \in Name, NEW a \in Host, NEW g \in Gpios, T!PutAll(n, a, g) PROVE TabInv'
    BY <1>3, PutAllHolds
  <1>4. ASSUME UNCHANGED <<own, GST, IPT, heard, from>>, process = "up", process' \in {"up", "overrun"}
        PROVE  TabInv'
    <2>1. T!TypeOK'
      BY <1>4 DEF TabInv, T!TypeOK
    <2>2. /\ StatesSaid(GST, heard)' /\ OwnFirst(GST)' /\ AddressesSaid(IPT, from)'
          /\ (heard[own] # None)'
      BY <1>4 DEF TabInv, StatesSaid, OwnFirst, AddressesSaid
    <2> QED
      BY <1>4, <2>1, <2>2 DEF TabInv
  <1>5. ASSUME T!Crash PROVE TabInv'
    <2>1. /\ process' = "down" /\ GST' = T!Zero /\ IPT' = T!Zero /\ heard' = T!Nothing
          /\ from' = T!Nothing /\ own' = own
      BY <1>5 DEF T!Crash
    <2>2. T!TypeOK'
      BY <2>1, ZeroIs, TypesAre DEF TabInv, T!TypeOK, Rows, HeardType, FromType
    <2>3. T!Zero' = T!Zero /\ T!Nothing' = T!Nothing
      BY DEF T!Zero, T!Nothing
    <2> QED
      BY <2>1, <2>2 DEF TabInv
  <1>6. CASE T!Message
    <2>1. CASE \E n \in Name : T!IPTOverrun(n) \/ T!IVRGetReq(n)
      BY <1>4, <2>1 DEF T!IPTOverrun, T!IVRGetReq, T!Overruns
    <2>2. CASE T!GSTCheckSumReq \/ T!GSTReq
      BY <1>4, <2>2 DEF T!GSTCheckSumReq, T!GSTReq, T!Overruns
    <2> QED
      BY <1>1, <1>2, <1>3, <1>6, <2>1, <2>2 DEF T!Message
  <1> QED
    BY <1>5, <1>6, StartHolds, SetOwnHolds DEF T!Next

-----------------------------------------------------------------------------
LEMMA WordsAreNat == \A w \in T!Word : w \in Nat
  <1> SUFFICES ASSUME NEW w \in T!Word PROVE w \in Nat
    OBVIOUS
  <1>1. w \in 0 .. 65535
    BY DEF T!Word
  <1> QED
    BY <1>1

LEMMA OctetsNat ==
  ASSUME NEW id \in T!Word, NEW v \in T!Octet
  PROVE  T!Octets(id, v) \in Nat
  <1>1. id \in Nat /\ v \in Nat
    BY WordsAreNat DEF T!Octet
  <1>2. PICK a, b \in Nat : a = id % 256 /\ b = id \div 256
    BY <1>1
  <1> QED
    BY <1>1, <1>2 DEF T!Octets

(* The check sum of the rows, and the sum over the SIODs that were heard.   *)
RowOctets(gst, k) == [i \in 1 .. k |-> T!Octets(gst[i].id, gst[i].value)]

SIODOctets(N) == [n \in N |-> T!Octets(Number[n], heard[n])]

LEMMA RowsSum ==
  ASSUME NEW gst, NEW k \in Nat, T!Length(gst) = k, RowOctets(gst, k) \in [1 .. k -> Nat]
  PROVE  \E f : Sums(f, RowOctets(gst, k), 1 .. k) /\ T!GSTchecksum(gst) = f[1 .. k] % 256
  <1> DEFINE I == 1 .. k
             g == RowOctets(gst, k)
             Eq(f) == f = [s \in SUBSET I |-> IF s = {} THEN 0
                             ELSE T!Octets(gst[CHOOSE x \in s : TRUE].id, gst[CHOOSE x \in s : TRUE].value)
                                  + f[s \ {CHOOSE x \in s : TRUE}]]
  <1>1. IsFiniteSet(I)
    <2>1. 1 \in Int /\ k \in Int
      OBVIOUS
    <2> QED
      BY <2>1, FS_Interval
  <1>2. \A x \in I : g[x] = T!Octets(gst[x].id, gst[x].value)
    BY DEF RowOctets
  <1> HIDE DEF I, g
  <1>3. ASSUME NEW f PROVE Eq(f) <=> Sums(f, g, I)
    <2>1. \A s \in SUBSET I : s # {} => (CHOOSE x \in s : TRUE) \in I
      OBVIOUS
    <2>2. \A s \in SUBSET I :
            (IF s = {} THEN 0
             ELSE T!Octets(gst[CHOOSE x \in s : TRUE].id, gst[CHOOSE x \in s : TRUE].value)
                  + f[s \ {CHOOSE x \in s : TRUE}])
            = (IF s = {} THEN 0
               ELSE g[CHOOSE x \in s : TRUE] + f[s \ {CHOOSE x \in s : TRUE}])
      BY <1>2, <2>1
    <2> QED
      BY <2>2 DEF Sums
  <1>4. \E f \in [SUBSET I -> Nat] : Sums(f, g, I)
    <2>1. g \in [I -> Nat]
      BY DEF g, I
    <2> QED
      BY <1>1, <2>1, SumExists
  <1>5. PICK f : f = CHOOSE e : Eq(e)
    OBVIOUS
  <1>6. Eq(f)
    <2> HIDE DEF Eq
    <2>1. \E e : Eq(e)
      BY <1>3, <1>4
    <2> QED
      BY <1>5, <2>1
  <1>7. T!GSTchecksum(gst) = f[1 .. k] % 256
    BY <1>5 DEF T!GSTchecksum, T!MapThenSumSet, T!MapThenFoldSet, I
  <1> QED
    BY <1>3, <1>6, <1>7 DEF g, I

LEMMA SIODsSum ==
  ASSUME IsFiniteSet(T!Known), SIODOctets(T!Known) \in [T!Known -> Nat]
  PROVE  \E e : /\ Sums(e, SIODOctets(T!Known), T!Known)
                /\ T!MapThenSumSet(LAMBDA n : T!Octets(Number[n], heard[n]), T!Known) = e[T!Known]
  <1> DEFINE N == T!Known
             g == SIODOctets(N)
             Eq(f) == f = [s \in SUBSET N |-> IF s = {} THEN 0
                             ELSE T!Octets(Number[CHOOSE x \in s : TRUE], heard[CHOOSE x \in s : TRUE])
                                  + f[s \ {CHOOSE x \in s : TRUE}]]
  <1>2. \A x \in N : g[x] = T!Octets(Number[x], heard[x])
    BY DEF SIODOctets
  <1>4. \E f \in [SUBSET N -> Nat] : Sums(f, g, N)
    BY SumExists
  <1> HIDE DEF g, N
  <1>3. ASSUME NEW f PROVE Eq(f) <=> Sums(f, g, N)
    <2>1. \A s \in SUBSET N : s # {} => (CHOOSE x \in s : TRUE) \in N
      OBVIOUS
    <2>2. \A s \in SUBSET N :
            (IF s = {} THEN 0
             ELSE T!Octets(Number[CHOOSE x \in s : TRUE], heard[CHOOSE x \in s : TRUE])
                  + f[s \ {CHOOSE x \in s : TRUE}])
            = (IF s = {} THEN 0
               ELSE g[CHOOSE x \in s : TRUE] + f[s \ {CHOOSE x \in s : TRUE}])
      BY <1>2, <2>1
    <2> QED
      BY <2>2 DEF Sums
  <1>5. PICK f : f = CHOOSE e : Eq(e)
    OBVIOUS
  <1>6. Eq(f)
    <2> HIDE DEF Eq
    <2>1. \E e : Eq(e)
      BY <1>3, <1>4
    <2> QED
      BY <1>5, <2>1
  <1>7. T!MapThenSumSet(LAMBDA n : T!Octets(Number[n], heard[n]), N) = f[N]
    BY <1>5 DEF T!MapThenSumSet, T!MapThenFoldSet, N
  <1> QED
    BY <1>3, <1>6, <1>7 DEF g, N

(* Each row is of the SIOD that was heard, and each SIOD that was heard has *)
(* one.                                                                     *)
LEMMA SumsAgree ==
  ASSUME TabInv, process = "up", own \in T!Distinct, ~ T!Full(GST), T!Known \subseteq T!Distinct
  PROVE  T!GSTchecksum(GST)
           = T!MapThenSumSet(LAMBDA n : T!Octets(Number[n], heard[n]), T!Known) % 256
  <1>1. PICK k : Keyed(GST, k)
    BY DEF TabInv, StatesSaid
  <1>2. /\ T!Length(GST) = k /\ k # SIODS_MAX /\ k \in Nat
        /\ \A i \in 1 .. k : i \in T!Index
    BY <1>1, KeyedLength
  <1>3. PICK I : I = 1 .. k
    OBVIOUS
  <1>4. IsFiniteSet(I)
    <2>1. 1 \in Int /\ k \in Int
      BY <1>2
    <2> QED
      BY <1>3, <2>1, FS_Interval
  <1>5. /\ GST \in Rows(T!Octet) /\ heard \in HeardType
        /\ StatesSaid(GST, heard)
    BY TypesAre DEF TabInv
  <1>6. ASSUME NEW i \in I PROVE \E n \in T!Known : Number[n] = GST[i].id
    <2>1. PICK n \in Name : heard[n] # None /\ Number[n] = GST[i].id
      BY <1>2, <1>3, <1>5 DEF StatesSaid
    <2> QED
      BY <2>1 DEF T!Known
  <1>7. PICK r : r = [i \in I |-> CHOOSE n \in T!Known : Number[n] = GST[i].id]
    OBVIOUS
  <1>8. r \in [I -> T!Known] /\ \A i \in I : Number[r[i]] = GST[i].id
    BY <1>6, <1>7
  <1>9. \A i, j \in I : r[i] = r[j] => i = j
    BY <1>1, <1>3, <1>8 DEF Keyed
  <1>10. ASSUME NEW n \in T!Known PROVE \E i \in I : r[i] = n
    <2>1. n \in T!Distinct /\ n \in Name /\ heard[n] # None
      BY DEF T!Known
    <2>2. ~ T!Passes(GST, Number[n])
      BY DEF T!Passes
    <2>3. T!Get(GST, Number[n]) # None
      BY <1>5, <2>1, <2>2 DEF StatesSaid
    <2>4. PICK i \in I : GST[i].id = Number[n]
      <3>1. ASSUME \A i \in 1 .. k : GST[i].id # Number[n] PROVE FALSE
        BY <1>1, <2>3, <3>1, Misses
      <3> QED
        BY <1>3, <3>1
    <2>5. r[i] \in Name /\ Number[r[i]] = Number[n]
      BY <1>8, <2>4 DEF T!Known
    <2> QED
      BY <2>1, <2>4, <2>5, NumbersAre
  <1>11. IsFiniteSet(T!Known)
    <2>1. T!Known = {r[i] : i \in I}
      BY <1>8, <1>10
    <2>2. r \in [I -> T!Known] /\ r \in Surjection(I, T!Known)
      BY <1>8, <1>10 DEF Surjection
    <2> QED
      BY <1>4, <2>2, FS_Surjection
  <1>12. ASSUME NEW i \in I
         PROVE  /\ heard[r[i]] = GST[i].value /\ GST[i].id \in T!Word /\ GST[i].value \in T!Octet
    <2>1. r[i] \in T!Distinct /\ Number[r[i]] = GST[i].id
      BY <1>8
    <2>2. ~ T!Passes(GST, Number[r[i]])
      BY DEF T!Passes
    <2>3. T!Get(GST, Number[r[i]]) = heard[r[i]]
      BY <1>5, <2>1, <2>2 DEF StatesSaid
    <2>4. T!Get(GST, GST[i].id) = GST[i].value
      BY <1>1, <1>3, Finds
    <2>5. GST[i].id \in T!Word /\ GST[i].value \in T!Octet
      BY <1>2, <1>3, <1>5 DEF Rows
    <2> QED
      BY <2>1, <2>3, <2>4, <2>5
  <1>13. PICK g : g = RowOctets(GST, k)
    OBVIOUS
  <1>14. PICK h : h = SIODOctets(T!Known)
    OBVIOUS
  <1>15. g \in [I -> Nat] /\ \A i \in I : g[i] = T!Octets(GST[i].id, GST[i].value)
    BY <1>3, <1>12, <1>13, OctetsNat DEF RowOctets
  <1>16. h \in [T!Known -> Nat] /\ \A n \in T!Known : h[n] = T!Octets(Number[n], heard[n])
    <2>1. ASSUME NEW n \in T!Known PROVE T!Octets(Number[n], heard[n]) \in Nat
      <3>1. PICK i \in I : r[i] = n
        BY <1>10
      <3>2. Number[n] \in T!Word /\ heard[n] \in T!Octet
        BY <1>8, <1>12, <3>1
      <3> QED
        BY <3>2, OctetsNat
    <2> QED
      BY <1>14, <2>1 DEF SIODOctets
  <1>17. \A i \in I : g[i] = h[r[i]]
    BY <1>8, <1>12, <1>15, <1>16
  <1>18. PICK f : Sums(f, g, I) /\ T!GSTchecksum(GST) = f[I] % 256
    BY <1>2, <1>3, <1>13, <1>15, RowsSum
  <1>19. PICK e : /\ Sums(e, h, T!Known)
                  /\ T!MapThenSumSet(LAMBDA n : T!Octets(Number[n], heard[n]), T!Known) = e[T!Known]
    <2>1. SIODOctets(T!Known) \in [T!Known -> Nat]
      BY <1>14, <1>16
    <2>2. \E e : /\ Sums(e, SIODOctets(T!Known), T!Known)
                 /\ T!MapThenSumSet(LAMBDA n : T!Octets(Number[n], heard[n]), T!Known) = e[T!Known]
      BY <1>11, <2>1, SIODsSum
    <2> QED
      BY <1>14, <2>2
  <1>20. f[I] = e[T!Known]
    BY <1>4, <1>8, <1>9, <1>10, <1>11, <1>15, <1>16, <1>17, <1>18, <1>19, SumRenamed
  <1> QED
    BY <1>18, <1>19, <1>20

LEMMA TablesByInv ==
  ASSUME TabInv
  PROVE  T!TablesHold
  <1> SUFFICES ASSUME process = "up", own \in T!Distinct
               PROVE  /\ GST[1].id = Number[own]
                      /\ \A tab \in {GST, IPT} : \A i, j \in 1 .. T!Length(tab) :
                            tab[i].id = tab[j].id => i = j
                      /\ \A n \in T!Distinct :
                            /\ T!Get(GST, Number[n]) = heard[n] \/ T!Passes(GST, Number[n])
                            /\ T!Get(IPT, Number[n]) = from[n]
                      /\ ~ T!Full(GST) /\ T!Known \subseteq T!Distinct =>
                            T!GSTchecksum(GST)
                              = T!MapThenSumSet(LAMBDA n : T!Octets(Number[n], heard[n]), T!Known) % 256
    BY DEF T!TablesHold
  <1>1. StatesSaid(GST, heard) /\ OwnFirst(GST) /\ AddressesSaid(IPT, from)
    BY DEF TabInv
  <1>2. GST[1].id = Number[own]
    BY <1>1 DEF OwnFirst
  <1>3. ASSUME NEW tab \in {GST, IPT}
        PROVE  \A i, j \in 1 .. T!Length(tab) : tab[i].id = tab[j].id => i = j
    <2>1. PICK k : Keyed(tab, k)
      BY <1>1 DEF StatesSaid, AddressesSaid
    <2>2. T!Length(tab) = k
      BY <2>1, KeyedLength
    <2> QED
      BY <2>1, <2>2 DEF Keyed
  <1>4. \A n \in T!Distinct :
           /\ T!Get(GST, Number[n]) = heard[n] \/ T!Passes(GST, Number[n])
           /\ T!Get(IPT, Number[n]) = from[n]
    BY <1>1 DEF StatesSaid, AddressesSaid
  <1> QED
    BY <1>2, <1>3, <1>4, SumsAgree

LEMMA TablesStart == T!Init => TabInv
  <1> SUFFICES ASSUME T!Init PROVE TabInv
    OBVIOUS
  <1>1. /\ own \in Own /\ process = "down" /\ GST = T!Zero /\ IPT = T!Zero
        /\ heard = T!Nothing /\ from = T!Nothing
    BY DEF T!Init
  <1>2. T!TypeOK
    BY <1>1, ZeroIs, TypesAre
  <1> QED
    BY <1>1, <1>2 DEF TabInv

LEMMA TablesStay ==
  ASSUME TabInv, UNCHANGED tables
  PROVE  TabInv'
  <1>1. UNCHANGED <<own, process, GST, IPT, heard, from>>
    BY DEF tables
  <1>2. T!TypeOK'
    BY <1>1 DEF TabInv, T!TypeOK
  <1>3. T!Zero' = T!Zero /\ T!Nothing' = T!Nothing
    BY DEF T!Zero, T!Nothing
  <1> QED
    BY <1>1, <1>2, <1>3 DEF TabInv, StatesSaid, OwnFirst, AddressesSaid

(* socket_io.c, PLCadd, GSTset, GSTadd and IPTset: PLCT never has more than *)
(* RULES_MAX rules and every variable has its type; and in whatever order   *)
(* the SIODs were heard, the tables say of each what it said last, once, the*)
(* own row is the first, and the check sum is that of the SIODs.            *)
THEOREM TablesAreTrue == ConfigSpec => []TablesHold
  <1> DEFINE Settled1 == \E n \in Nat : SetInv(n)
             Inv == Table /\ RangeInv /\ Settled1 /\ TabInv
  <1>1. ConfigInit => Inv
    <2>1. S!Init => SetInv(0)
      BY SetInvInit
    <2>2. S!Init => Settled1
      BY <2>1
    <2> HIDE DEF Settled1
    <2> QED
      BY <2>2, TableInit, RangeInit, TablesStart DEF ConfigInit
  <1>2. Inv /\ [ConfigNext]_configvars => Inv'
    <2> SUFFICES ASSUME Inv, [ConfigNext]_configvars PROVE Inv'
      OBVIOUS
    <2>1. /\ [Next]_vars
          /\ R!Next \/ UNCHANGED range
          /\ S!Next \/ UNCHANGED settings
          /\ T!Next \/ UNCHANGED tables
      BY DEF ConfigNext, configvars, Rules1, Range1, Settings1, Tables1
    <2>2. Table'
      BY <2>1, TableStep
    <2>3. RangeInv'
      BY <2>1, RangeStep, RangeStays
    <2>4. Settled1'
      <3>1. PICK n \in Nat : SetInv(n)
        OBVIOUS
      <3>2. CASE S!Next
        BY <3>1, <3>2, SettingsStep
      <3>3. CASE UNCHANGED settings
        BY <3>1, <3>3, SettingsStay
      <3> QED
        BY <2>1, <3>2, <3>3
    <2>5. TabInv'
      BY <2>1, TablesStep, TablesStay
    <2> QED
      BY <2>2, <2>3, <2>4, <2>5
  <1>3. Inv => TablesHold
    <2>1. Table => TypeOK
      BY DEF Table
    <2>2. RangeInv => R!TypeOK
      BY DEF RangeInv
    <2>3. Settled1 => S!TypeOK
      BY DEF SetInv
    <2>4. TabInv => T!TypeOK
      BY DEF TabInv
    <2> QED
      BY <2>1, <2>2, <2>3, <2>4, TablesByInv DEF TablesHold
  <1> QED
    BY <1>1, <1>2, <1>3, PTL DEF ConfigSpec
=============================================================================
