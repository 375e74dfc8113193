---------------------------- MODULE SublistProofs ----------------------------
(* Proofs about Only: it takes the elements that are in the set, all of     *)
(* them, in their order.  Only is a recursive function, and what is true of *)
(* each of its values is proved by contradiction from the least number it   *)
(* is false of.  The same way of the folds over finite sets: they exist, and*)
(* a sum is the same whatever element is taken first.                       *)
EXTENDS Sublist, FiniteSetTheorems, WellFoundedInduction, TLAPS

(* Every set of natural numbers that is not empty has a least element: the  *)
(* form of induction the proofs use.                                        *)
LEMMA LeastNatural ==
  ASSUME NEW T \in SUBSET Nat, T # {}
  PROVE  \E x \in T : \A y \in T : x <= y
  <1> DEFINE R == {p \in Nat \X Nat : p[1] < p[2]}
  <1>1. R = OpToRel(<, Nat)
    BY DEF OpToRel
  <1>2. IsWellFoundedOn(R, Nat)
    BY <1>1, NatLessThanWellFounded
  <1>3. PICK x \in T : \A y \in T : ~ (<<y, x>> \in R)
    <2> HIDE DEF R
    <2> QED
      BY <1>2, WFMin
  <1>4. ASSUME NEW y \in T PROVE x <= y
    <2>1. x \in Nat /\ y \in Nat
      OBVIOUS
    <2>2. <<y, x>> \in Nat \X Nat /\ <<y, x>>[1] = y /\ <<y, x>>[2] = x
      BY <2>1
    <2>3. ~ (y < x)
      BY <1>3, <2>2
    <2> QED
      BY <2>1, <2>3
  <1> QED
    BY <1>4

(* f begins with b and goes on by step.                                      *)
Recursive(f, N, b, step) == f[0] = b /\ \A i \in 1 .. N : f[i] = step[<<i, f[i - 1]>>]

(* There is such a function with values in V.                               *)
HasRecursive(V, N, b, step) == \E f \in [0 .. N -> V] : Recursive(f, N, b, step)

(* A definition by recursion defines a function.                            *)
LEMMA Recursion ==
  ASSUME NEW V, NEW N \in Nat, NEW b \in V, NEW step \in [(1 .. N) \X V -> V]
  PROVE  HasRecursive(V, N, b, step)
  <1> DEFINE Good(n, f) == f[0] = b /\ \A i \in 1 .. n : f[i] = step[<<i, f[i - 1]>>]
             Bad == {n \in 0 .. N : ~ \E f \in [0 .. n -> V] : Good(n, f)}
  <1> SUFFICES ASSUME Bad # {} PROVE FALSE
    BY DEF HasRecursive, Recursive
  <1>1. PICK n \in Bad : \A k \in Bad : n <= k
    <2>1. Bad \in SUBSET Nat
      OBVIOUS
    <2> HIDE DEF Bad
    <2> QED
      BY <2>1, LeastNatural
  <1>2. n \in 0 .. N /\ ~ \E f \in [0 .. n -> V] : Good(n, f)
    BY <1>1
  <1>3. n # 0
    <2> SUFFICES ASSUME n = 0 PROVE FALSE
      OBVIOUS
    <2>1. [i \in 0 .. 0 |-> b] \in [0 .. n -> V] /\ Good(n, [i \in 0 .. 0 |-> b])
      OBVIOUS
    <2> QED
      BY <1>2, <2>1
  <1>4. PICK f \in [0 .. n - 1 -> V] : Good(n - 1, f)
    <2>1. n - 1 \in 0 .. N /\ ~ (n <= n - 1)
      BY <1>2, <1>3
    <2>2. ~ (n - 1 \in Bad)
      BY <1>1, <2>1
    <2> QED
      BY <2>1, <2>2
  <1> DEFINE g == [i \in 0 .. n |-> IF i = n THEN step[<<n, f[n - 1]>>] ELSE f[i]]
  <1>5. g \in [0 .. n -> V]
    <2>1. f[n - 1] \in V /\ n \in 1 .. N
      BY <1>2, <1>3, <1>4
    <2>2. step[<<n, f[n - 1]>>] \in V
      BY <2>1
    <2>3. \A i \in 0 .. n : i # n => i \in 0 .. n - 1
      BY <1>2
    <2> QED
      BY <2>2, <2>3
  <1>6. Good(n, g)
    <2>1. g[0] = b
      BY <1>2, <1>3, <1>4
    <2>2. ASSUME NEW i \in 1 .. n PROVE g[i] = step[<<i, g[i - 1]>>]
      <3>1. i - 1 \in 0 .. n /\ i - 1 # n /\ g[i - 1] = f[i - 1] /\ i \in 0 .. n
        BY <1>2
      <3>2. CASE i = n
        BY <3>1, <3>2
      <3>3. CASE i # n
        BY <1>2, <1>4, <3>1, <3>3
      <3> QED
        BY <3>2, <3>3
    <2> QED
      BY <2>1, <2>2
  <1> QED
    BY <1>2, <1>5, <1>6

(* f has the values of the recursive function that Only uses.               *)
StepsOf(f, s, S) ==
    /\ Only(s, S) = f[Len(s)]
    /\ f[0] = <<>>
    /\ \A n \in 1 .. Len(s) : f[n] = IF s[n] \in S THEN Append(f[n - 1], s[n]) ELSE f[n - 1]

(* That function exists, and Only is its last value.                        *)
LEMMA OnlySteps ==
  ASSUME NEW X, NEW s \in Seq(X), NEW S
  PROVE  \E f \in [0 .. Len(s) -> Seq(X)] : StepsOf(f, s, S)
  <1> DEFINE N == Len(s)
             step == [p \in (1 .. N) \X Seq(X) |->
                         IF s[p[1]] \in S THEN Append(p[2], s[p[1]]) ELSE p[2]]
             Body(f) == [n \in 0 .. N |-> IF n = 0 THEN <<>>
                           ELSE IF s[n] \in S THEN Append(f[n - 1], s[n]) ELSE f[n - 1]]
             only == CHOOSE f : f = Body(f)
  <1>1. N \in Nat /\ <<>> \in Seq(X)
    OBVIOUS
  <1>2. step \in [(1 .. N) \X Seq(X) -> Seq(X)]
    <2> SUFFICES ASSUME NEW p \in (1 .. N) \X Seq(X)
                 PROVE  (IF s[p[1]] \in S THEN Append(p[2], s[p[1]]) ELSE p[2]) \in Seq(X)
      OBVIOUS
    <2> QED
      OBVIOUS
  <1>3. PICK f \in [0 .. N -> Seq(X)] : f[0] = <<>> /\ \A n \in 1 .. N : f[n] = step[<<n, f[n - 1]>>]
    <2>1. HasRecursive(Seq(X), N, <<>>, step)
      <3> HIDE DEF step, N
      <3> QED
        BY <1>1, <1>2, Recursion
    <2> HIDE DEF step, N
    <2> QED
      BY <2>1 DEF HasRecursive, Recursive
  <1>4. \A n \in 1 .. N : f[n] = IF s[n] \in S THEN Append(f[n - 1], s[n]) ELSE f[n - 1]
    <2> SUFFICES ASSUME NEW n \in 1 .. N
                 PROVE  f[n] = IF s[n] \in S THEN Append(f[n - 1], s[n]) ELSE f[n - 1]
      OBVIOUS
    <2>1. f[n - 1] \in Seq(X)
      BY <1>1
    <2> QED
      BY <1>3, <2>1
  <1>5. f = Body(f)
    <2>1. ASSUME NEW n \in 0 .. N PROVE f[n] = Body(f)[n]
      <3>1. CASE n = 0
        BY <1>3, <3>1
      <3>2. CASE n # 0
        <4>1. n \in 1 .. N
          BY <1>1, <3>2
        <4> QED
          BY <1>4, <3>2, <4>1
      <3> QED
        BY <3>1, <3>2
    <2>2. f = [n \in 0 .. N |-> f[n]]
      OBVIOUS
    <2>3. Body(f) = [n \in 0 .. N |-> Body(f)[n]]
      OBVIOUS
    <2> HIDE DEF Body, N
    <2> QED
      BY <2>1, <2>2, <2>3
  <1>6. only = Body(only)
    <2> HIDE DEF Body
    <2> QED
      BY <1>5
  <1>7. Only(s, S) = only[N]
    BY DEF Only
  <1> HIDE DEF only
  <1>8. only[0] = <<>> /\ \A n \in 1 .. N :
           only[n] = IF s[n] \in S THEN Append(only[n - 1], s[n]) ELSE only[n - 1]
    <2>1. \A n \in 0 .. N : only[n] = Body(only)[n]
      BY <1>6
    <2> QED
      BY <1>1, <2>1
  <1>9. \A n \in 0 .. N : only[n] = f[n]
    <2> DEFINE Bad == {n \in 0 .. N : only[n] # f[n]}
    <2> SUFFICES ASSUME Bad # {} PROVE FALSE
      OBVIOUS
    <2>1. Bad \in SUBSET Nat
      BY <1>1
    <2>2. PICK n \in Bad : \A k \in Bad : n <= k
      <3> HIDE DEF Bad
      <3> QED
        BY <2>1, LeastNatural
    <2> HIDE DEF N
    <2>3. n \in 1 .. N /\ n - 1 \in 0 .. N /\ ~ (n <= n - 1)
      BY <1>1, <1>3, <1>8, <2>2
    <2>4. only[n - 1] = f[n - 1]
      BY <2>2, <2>3
    <2> QED
      BY <1>4, <1>8, <2>2, <2>3, <2>4
  <1>10. StepsOf(f, s, S)
    BY <1>3, <1>4, <1>7, <1>9, <1>1 DEF StepsOf
  <1> QED
    BY <1>10

(* h says where in s each element of t was taken from: from the members of  *)
(* S, all of them, in their order.                                          *)
Picks(h, t, s, n, S) ==
    /\ h \in [1 .. Len(t) -> 1 .. n]
    /\ \A i \in 1 .. Len(t) : t[i] = s[h[i]] /\ s[h[i]] \in S
    /\ \A i, j \in 1 .. Len(t) : i < j => h[i] < h[j]
    /\ \A k \in 1 .. n : s[k] \in S => \E i \in 1 .. Len(t) : h[i] = k

(* The next element is taken or left.                                       *)
LEMMA PicksStep ==
  ASSUME NEW X, NEW s \in Seq(X), NEW S, NEW n \in 1 .. Len(s), NEW t \in Seq(X),
         NEW h, Picks(h, t, s, n - 1, S),
         NEW u, u = IF s[n] \in S THEN Append(t, s[n]) ELSE t
  PROVE  \E g : Picks(g, u, s, n, S)
  <1> DEFINE l == Len(t)
  <1>1. l \in Nat /\ n \in Nat \ {0} /\ s[n] \in X
    OBVIOUS
  <1>2. CASE s[n] \notin S
    <2>1. u = t
      BY <1>2
    <2>2. h \in [1 .. l -> 1 .. n]
      <3>1. h \in [1 .. l -> 1 .. n - 1] /\ 1 .. n - 1 \subseteq 1 .. n
        BY <1>1 DEF Picks
      <3> QED
        BY <3>1
    <2>3. \A k \in 1 .. n : s[k] \in S => k \in 1 .. n - 1
      BY <1>1, <1>2
    <2> QED
      BY <2>1, <2>2, <2>3 DEF Picks
  <1>3. CASE s[n] \in S
    <2>1. u = Append(t, s[n]) /\ Len(u) = l + 1
      BY <1>1, <1>3
    <2>a. \A i \in 1 .. l : u[i] = t[i]
      BY <1>1, <2>1
    <2>b. u[l + 1] = s[n]
      BY <1>1, <2>1
    <2> HIDE DEF l
    <2>c. h \in [1 .. l -> 1 .. n - 1]
      BY DEF Picks, l
    <2>0. PICK g : g = [i \in 1 .. l + 1 |-> IF i = l + 1 THEN n ELSE h[i]]
      OBVIOUS
    <2>2. ASSUME NEW i \in 1 .. l
          PROVE  u[i] = t[i] /\ g[i] = h[i] /\ h[i] \in 1 .. n - 1 /\ i # l + 1 /\ h[i] < n
      <3>1. i \in 1 .. l + 1 /\ i # l + 1
        BY <1>1
      <3>2. g[i] = h[i]
        BY <2>0, <3>1
      <3>3. h[i] \in 1 .. n - 1 /\ h[i] < n
        BY <2>c, <1>1
      <3> QED
        BY <2>a, <3>1, <3>2, <3>3
    <2>3. u[l + 1] = s[n] /\ g[l + 1] = n /\ l + 1 \in 1 .. l + 1
      <3>1. l + 1 \in 1 .. l + 1
        BY <1>1
      <3>2. g[l + 1] = n
        BY <2>0, <3>1
      <3> QED
        BY <2>b, <3>1, <3>2
    <2>4. \A i \in 1 .. l + 1 : i \in 1 .. l \/ i = l + 1
      BY <1>1
    <2>5. g \in [1 .. Len(u) -> 1 .. n]
      <3>1. ASSUME NEW i \in 1 .. l + 1 PROVE g[i] \in 1 .. n
        <4>1. CASE i = l + 1
          <5>1. n \in 1 .. n
            BY <1>1
          <5> QED
            BY <2>3, <4>1, <5>1
        <4>2. CASE i \in 1 .. l
          <5>1. g[i] \in 1 .. n - 1
            BY <2>2, <4>2
          <5> QED
            BY <1>1, <5>1
        <4> QED
          BY <2>4, <4>1, <4>2
      <3>2. g \in [1 .. l + 1 -> 1 .. n]
        BY <2>0, <3>1
      <3> QED
        BY <2>1, <3>2
    <2>6. \A i \in 1 .. Len(u) : u[i] = s[g[i]] /\ s[g[i]] \in S
      BY <1>3, <2>1, <2>2, <2>3, <2>4 DEF Picks, l
    <2>7. ASSUME NEW i \in 1 .. Len(u), NEW j \in 1 .. Len(u), i < j PROVE g[i] < g[j]
      <3>1. i \in 1 .. l
        BY <1>1, <2>1, <2>7
      <3>2. CASE j = l + 1
        BY <1>1, <2>2, <2>3, <3>1, <3>2
      <3>3. CASE j \in 1 .. l
        BY <2>2, <2>7, <3>1, <3>3 DEF Picks, l
      <3> QED
        BY <2>1, <2>4, <3>2, <3>3
    <2>8. ASSUME NEW k \in 1 .. n, s[k] \in S PROVE \E i \in 1 .. Len(u) : g[i] = k
      <3>1. CASE k = n
        BY <2>1, <2>3, <3>1
      <3>2. CASE k # n
        <4>1. PICK i \in 1 .. l : h[i] = k
          BY <1>1, <2>8, <3>2 DEF Picks, l
        <4>2. i \in 1 .. Len(u) /\ g[i] = k
          BY <1>1, <2>1, <2>2, <4>1
        <4> QED
          BY <4>2
      <3> QED
        BY <3>1, <3>2
    <2>9. Picks(g, u, s, n, S)
      BY <2>5, <2>6, <2>7, <2>8 DEF Picks
    <2> QED
      BY <2>9
  <1> QED
    BY <1>2, <1>3

(* Only takes the members of S, all of them, in their order.                *)
LEMMA OnlyPicks ==
  ASSUME NEW X, NEW s \in Seq(X), NEW S
  PROVE  Only(s, S) \in Seq(X) /\ \E h : Picks(h, Only(s, S), s, Len(s), S)
  <1>0. PICK f \in [0 .. Len(s) -> Seq(X)] : StepsOf(f, s, S)
    BY OnlySteps
  <1>1. /\ Only(s, S) = f[Len(s)]
        /\ f[0] = <<>>
        /\ \A n \in 1 .. Len(s) : f[n] = IF s[n] \in S THEN Append(f[n - 1], s[n]) ELSE f[n - 1]
    BY <1>0 DEF StepsOf
  <1> DEFINE Bad == {n \in 0 .. Len(s) : ~ \E h : Picks(h, f[n], s, n, S)}
  <1>2. Len(s) \in Nat /\ Only(s, S) \in Seq(X)
    BY <1>1
  <1>3. Bad = {}
    <2> SUFFICES ASSUME Bad # {} PROVE FALSE
      OBVIOUS
    <2>1. Bad \in SUBSET Nat
      BY <1>2
    <2>2. PICK n \in Bad : \A k \in Bad : n <= k
      <3> HIDE DEF Bad
      <3> QED
        BY <2>1, LeastNatural
    <2>3. CASE n = 0
      <3>1. f[0] = <<>> /\ Len(f[0]) = 0
        BY <1>1
      <3>2. Picks([i \in 1 .. 0 |-> i], f[0], s, 0, S)
        BY <3>1 DEF Picks
      <3> QED
        BY <2>2, <2>3, <3>2
    <2>4. CASE n # 0
      <3>1. n \in 1 .. Len(s) /\ n - 1 \in 0 .. Len(s) /\ ~ (n <= n - 1)
        BY <1>2, <2>2, <2>4
      <3>2. PICK h : Picks(h, f[n - 1], s, n - 1, S)
        BY <2>2, <3>1
      <3>3. f[n - 1] \in Seq(X)
        BY <1>1, <3>1
      <3>4. f[n] = IF s[n] \in S THEN Append(f[n - 1], s[n]) ELSE f[n - 1]
        BY <1>1, <3>1
      <3>5. \E g : Picks(g, f[n], s, n, S)
        <4>1. PICK t, u : t = f[n - 1] /\ u = f[n]
          OBVIOUS
        <4>2. t \in Seq(X) /\ Picks(h, t, s, n - 1, S)
              /\ u = IF s[n] \in S THEN Append(t, s[n]) ELSE t
          BY <3>2, <3>3, <3>4, <4>1
        <4>3. \E g : Picks(g, u, s, n, S)
          BY <3>1, <4>2, PicksStep
        <4> QED
          BY <4>1, <4>3
      <3> QED
        BY <2>2, <3>5
    <2> QED
      BY <2>3, <2>4
  <1>4. Len(s) \in 0 .. Len(s)
    BY <1>2
  <1> QED
    BY <1>1, <1>2, <1>3, <1>4

(* x is an element of the sequence s.                                       *)
Occurs(s, x) == \E i \in DOMAIN s : s[i] = x

(* The elements of Only(s, S) are those of s that are in S.                 *)
LEMMA OccursOnly ==
  ASSUME NEW X, NEW s \in Seq(X), NEW S
  PROVE  \A x : Occurs(Only(s, S), x) <=> Occurs(s, x) /\ x \in S
  <1>1. PICK t : t = Only(s, S)
    OBVIOUS
  <1>2. PICK h : t \in Seq(X) /\ Picks(h, t, s, Len(s), S)
    BY <1>1, OnlyPicks
  <1>3. DOMAIN t = 1 .. Len(t) /\ DOMAIN s = 1 .. Len(s)
    BY <1>2
  <1>4. ASSUME NEW x, Occurs(t, x) PROVE Occurs(s, x) /\ x \in S
    BY <1>2, <1>3, <1>4 DEF Occurs, Picks
  <1>5. ASSUME NEW x \in S, Occurs(s, x) PROVE Occurs(t, x)
    <2>1. PICK k \in 1 .. Len(s) : s[k] = x
      BY <1>3, <1>5 DEF Occurs
    <2>2. PICK i \in 1 .. Len(t) : h[i] = k
      BY <1>2, <2>1 DEF Picks
    <2>3. t[i] = x
      BY <1>2, <2>1, <2>2 DEF Picks
    <2> QED
      BY <1>3, <2>3 DEF Occurs
  <1> QED
    BY <1>1, <1>4, <1>5

(* Append adds one element.                                                 *)
LEMMA OccursAppend ==
  ASSUME NEW X, NEW s \in Seq(X), NEW x \in X
  PROVE  \A y : Occurs(Append(s, x), y) <=> Occurs(s, y) \/ y = x
  <1>1. PICK t : t = Append(s, x)
    OBVIOUS
  <1>2. /\ Len(s) \in Nat /\ DOMAIN s = 1 .. Len(s) /\ DOMAIN t = 1 .. Len(s) + 1
        /\ t[Len(s) + 1] = x /\ \A i \in 1 .. Len(s) : t[i] = s[i]
    BY <1>1
  <1>3. ASSUME NEW y, Occurs(t, y) PROVE Occurs(s, y) \/ y = x
    <2>1. PICK i \in 1 .. Len(s) + 1 : t[i] = y
      BY <1>2, <1>3 DEF Occurs
    <2>2. i \in 1 .. Len(s) \/ i = Len(s) + 1
      BY <1>2
    <2> QED
      BY <1>2, <2>1, <2>2 DEF Occurs
  <1>4. ASSUME NEW y, Occurs(s, y) PROVE Occurs(t, y)
    <2>1. PICK i \in 1 .. Len(s) : s[i] = y
      BY <1>2, <1>4 DEF Occurs
    <2>2. i \in 1 .. Len(s) + 1
      BY <1>2
    <2> QED
      BY <1>2, <2>1, <2>2 DEF Occurs
  <1>5. Occurs(t, x)
    <2>1. Len(s) + 1 \in 1 .. Len(s) + 1
      BY <1>2
    <2> QED
      BY <1>2, <2>1 DEF Occurs
  <1> QED
    BY <1>1, <1>3, <1>4, <1>5

(* The empty sequence has none.                                             *)
LEMMA OccursNothing == \A x : ~ Occurs(<<>>, x)
  BY DEF Occurs

(* A further element is taken or left.                                     *)
LEMMA OnlyAppend ==
  ASSUME NEW X, NEW s \in Seq(X), NEW x \in X, NEW S
  PROVE  Only(Append(s, x), S) = IF x \in S THEN Append(Only(s, S), x) ELSE Only(s, S)
  <1>1. PICK t : t = Append(s, x)
    OBVIOUS
  <1>2. PICK n \in Nat : n = Len(s)
    OBVIOUS
  <1>3. t \in Seq(X) /\ Len(t) = n + 1 /\ t[n + 1] = x /\ \A i \in 1 .. n : t[i] = s[i]
    BY <1>1, <1>2
  <1>4. PICK f \in [0 .. n -> Seq(X)] : StepsOf(f, s, S)
    BY <1>2, OnlySteps
  <1>5. PICK g \in [0 .. n + 1 -> Seq(X)] : StepsOf(g, t, S)
    BY <1>3, OnlySteps
  <1>6. \A m \in 0 .. n : g[m] = f[m]
    <2> DEFINE Bad == {m \in 0 .. n : g[m] # f[m]}
    <2> SUFFICES ASSUME Bad # {} PROVE FALSE
      OBVIOUS
    <2>1. Bad \in SUBSET Nat
      OBVIOUS
    <2>2. PICK m \in Bad : \A k \in Bad : m <= k
      <3> HIDE DEF Bad
      <3> QED
        BY <2>1, LeastNatural
    <2>3. m # 0
      BY <1>4, <1>5, <2>2 DEF StepsOf
    <2>4. m \in 1 .. n /\ m - 1 \in 0 .. n /\ ~ (m <= m - 1) /\ m \in 1 .. n + 1
      BY <2>2, <2>3
    <2>5. g[m - 1] = f[m - 1]
      BY <2>2, <2>4
    <2>6. f[m] = IF s[m] \in S THEN Append(f[m - 1], s[m]) ELSE f[m - 1]
      BY <1>2, <1>4, <2>4 DEF StepsOf
    <2>7. g[m] = IF t[m] \in S THEN Append(g[m - 1], t[m]) ELSE g[m - 1]
      BY <1>3, <1>5, <2>4 DEF StepsOf
    <2>8. g[m] = f[m]
      BY <1>3, <2>4, <2>5, <2>6, <2>7
    <2> QED
      BY <2>2, <2>8
  <1>7. n + 1 \in 1 .. n + 1 /\ (n + 1) - 1 = n /\ n \in 0 .. n
    OBVIOUS
  <1>8. g[n + 1] = IF x \in S THEN Append(g[n], x) ELSE g[n]
    BY <1>3, <1>5, <1>7 DEF StepsOf
  <1>9. Only(t, S) = g[n + 1] /\ Only(s, S) = f[n]
    BY <1>2, <1>3, <1>4, <1>5 DEF StepsOf
  <1> QED
    BY <1>1, <1>6, <1>7, <1>8, <1>9

(* t is s without its element at k.                                        *)
Skips(t, s, k) ==
    /\ Len(t) = Len(s) - 1
    /\ \A j \in 1 .. Len(t) : t[j] = IF j < k THEN s[j] ELSE s[j + 1]

(* An element that is not in the set is not missed.                        *)
LEMMA OnlySkips ==
  ASSUME NEW X, NEW s \in Seq(X), NEW t \in Seq(X), NEW S, NEW k \in 1 .. Len(s),
         s[k] \notin S, Skips(t, s, k)
  PROVE  Only(t, S) = Only(s, S)
  <1>1. PICK n \in Nat : n = Len(t)
    OBVIOUS
  <1>2. Len(s) = n + 1 /\ k \in 1 .. n + 1
    BY <1>1 DEF Skips
  <1>3. PICK f \in [0 .. n + 1 -> Seq(X)] : StepsOf(f, s, S)
    BY <1>2, OnlySteps
  <1>4. PICK g \in [0 .. n -> Seq(X)] : StepsOf(g, t, S)
    BY <1>1, OnlySteps
  <1>5. \A m \in 1 .. n + 1 : f[m] = IF s[m] \in S THEN Append(f[m - 1], s[m]) ELSE f[m - 1]
    BY <1>2, <1>3 DEF StepsOf
  <1>6. \A m \in 1 .. n : g[m] = IF t[m] \in S THEN Append(g[m - 1], t[m]) ELSE g[m - 1]
    BY <1>1, <1>4 DEF StepsOf
  <1>7. f[0] = g[0] /\ f[k] = f[k - 1]
    BY <1>2, <1>3, <1>4, <1>5 DEF StepsOf
  <1> DEFINE Same(m) == g[m] = IF m < k THEN f[m] ELSE f[m + 1]
             Bad == {m \in 0 .. n : ~ Same(m)}
  <1>8. Bad = {}
    <2> SUFFICES ASSUME Bad # {} PROVE FALSE
      OBVIOUS
    <2>1. Bad \in SUBSET Nat
      OBVIOUS
    <2>2. PICK m \in Bad : \A i \in Bad : m <= i
      <3> HIDE DEF Bad
      <3> QED
        BY <2>1, LeastNatural
    <2>3. Same(0)
      <3>1. CASE k = 1
        BY <1>7, <3>1
      <3>2. CASE k # 1
        BY <1>2, <1>7, <3>2
      <3> QED
        BY <3>1, <3>2
    <2>4. m \in 1 .. n /\ m - 1 \in 0 .. n /\ ~ (m <= m - 1) /\ m + 1 \in 1 .. n + 1
      BY <2>2, <2>3
    <2>5. Same(m - 1)
      BY <2>2, <2>4
    <2>6. t[m] = IF m < k THEN s[m] ELSE s[m + 1]
      BY <1>1, <2>4 DEF Skips
    <2>7. g[m] = IF t[m] \in S THEN Append(g[m - 1], t[m]) ELSE g[m - 1]
      BY <1>6, <2>4
    <2>8. CASE m < k
      <3>1. m - 1 < k /\ m \in 1 .. n + 1
        BY <1>2, <2>4, <2>8
      <3>2. f[m] = IF s[m] \in S THEN Append(f[m - 1], s[m]) ELSE f[m - 1]
        BY <1>5, <3>1
      <3>3. g[m - 1] = f[m - 1]
        BY <2>5, <3>1
      <3>4. g[m] = f[m]
        BY <2>6, <2>7, <2>8, <3>2, <3>3
      <3> QED
        BY <2>2, <2>8, <3>4
    <2>9. CASE ~ (m < k)
      <3>1. f[m + 1] = IF s[m + 1] \in S THEN Append(f[m], s[m + 1]) ELSE f[m]
        <4>1. f[m + 1] = IF s[m + 1] \in S THEN Append(f[m + 1 - 1], s[m + 1])
                                           ELSE f[m + 1 - 1]
          BY <1>5, <2>4
        <4>2. m + 1 - 1 = m
          BY <2>4
        <4> QED
          BY <4>1, <4>2
      <3>2. g[m - 1] = f[m]
        <4>1. CASE m - 1 < k
          <5>1. m = k
            BY <1>2, <2>4, <2>9, <4>1
          <5> QED
            BY <1>7, <2>5, <4>1, <5>1
        <4>2. CASE ~ (m - 1 < k)
          <5>1. m - 1 + 1 = m
            BY <2>4
          <5> QED
            BY <2>5, <4>2, <5>1
        <4> QED
          BY <4>1, <4>2
      <3>3. g[m] = f[m + 1]
        BY <2>6, <2>7, <2>9, <3>1, <3>2
      <3> QED
        BY <2>2, <2>9, <3>3
    <2> QED
      BY <2>8, <2>9
  <1>9. Same(n)
    <2>1. n \in 0 .. n
      BY <1>1
    <2> QED
      BY <1>8, <2>1
  <1>10. g[n] = f[n + 1]
    <2>1. CASE n < k
      <3>1. n + 1 = k /\ n = k - 1
        BY <1>2, <2>1
      <3> QED
        BY <1>7, <1>9, <2>1, <3>1
    <2>2. CASE ~ (n < k)
      BY <1>9, <2>2
    <2> QED
      BY <2>1, <2>2
  <1> QED
    BY <1>1, <1>2, <1>3, <1>4, <1>10 DEF StepsOf


(* An element of a sequence is its first or one of the others.             *)
LEMMA OccursTail ==
  ASSUME NEW X, NEW s \in Seq(X), s # <<>>
  PROVE  \A x : Occurs(s, x) <=> x = Head(s) \/ Occurs(Tail(s), x)
  <1>1. PICK t : t = Tail(s)
    OBVIOUS
  <1>2. PICK n \in Nat : n = Len(t)
    BY <1>1
  <1>3. /\ DOMAIN s = 1 .. n + 1 /\ DOMAIN t = 1 .. n
        /\ Head(s) = s[1] /\ \A i \in 1 .. n : t[i] = s[i + 1]
    BY <1>1, <1>2
  <1>4. ASSUME NEW x, Occurs(s, x) PROVE x = Head(s) \/ Occurs(t, x)
    <2>1. PICK i \in 1 .. n + 1 : s[i] = x
      BY <1>3, <1>4 DEF Occurs
    <2>2. CASE i = 1
      BY <1>3, <2>1, <2>2
    <2>3. CASE i # 1
      <3>1. i - 1 \in 1 .. n /\ i - 1 + 1 = i
        BY <2>3
      <3>2. t[i - 1] = x
        BY <1>3, <2>1, <3>1
      <3> QED
        BY <1>3, <3>1, <3>2 DEF Occurs
    <2> QED
      BY <2>2, <2>3
  <1>5. Occurs(s, Head(s))
    <2>1. 1 \in 1 .. n + 1
      OBVIOUS
    <2> QED
      BY <1>3, <2>1 DEF Occurs
  <1>6. ASSUME NEW x, Occurs(t, x) PROVE Occurs(s, x)
    <2>1. PICK i \in 1 .. n : t[i] = x
      BY <1>3, <1>6 DEF Occurs
    <2>2. i + 1 \in 1 .. n + 1 /\ s[i + 1] = x
      BY <1>3, <2>1
    <2> QED
      BY <1>3, <2>2 DEF Occurs
  <1> QED
    BY <1>1, <1>4, <1>5, <1>6

-----------------------------------------------------------------------------
(* A fold over the subsets of S: pick names the element of a subset that is *)
(* taken first, op combines it with the fold of the others.                 *)
Folds(f, S, b, pick, op) ==
    f = [s \in SUBSET S |-> IF s = {} THEN b ELSE op[<<pick[s], f[s \ {pick[s]}]>>]]

HasFold(V, S, b, pick, op) == \E f \in [SUBSET S -> V] : Folds(f, S, b, pick, op)

LEMMA FewerElements ==
  ASSUME NEW S, IsFiniteSet(S), NEW s \in SUBSET S
  PROVE  /\ IsFiniteSet(s) /\ Cardinality(s) \in Nat /\ Cardinality(s) <= Cardinality(S)
         /\ Cardinality(S) \in Nat
         /\ \A x \in s : /\ Cardinality(s \ {x}) = Cardinality(s) - 1 /\ Cardinality(s) > 0
                         /\ s \ {x} \in SUBSET S
         /\ Cardinality(s) = 0 => s = {}
  <1>1. IsFiniteSet(s) /\ Cardinality(s) <= Cardinality(S)
    BY FS_Subset
  <1>2. Cardinality(s) \in Nat /\ Cardinality(S) \in Nat
    BY <1>1, FS_CardinalityType
  <1>3. Cardinality(s) = 0 => s = {}
    BY <1>1, FS_EmptySet
  <1>4. \A x \in s : Cardinality(s \ {x}) = Cardinality(s) - 1
    BY <1>1, FS_RemoveElement
  <1>5. \A x \in s : Cardinality(s) # 0
    BY <1>3
  <1> QED
    BY <1>1, <1>2, <1>3, <1>4, <1>5

(* A definition by recursion over the subsets of a finite set defines a     *)
(* function: after as many rounds as there are elements nothing changes.    *)
LEMMA FoldExists ==
  ASSUME NEW V, NEW S, IsFiniteSet(S), NEW b \in V,
         NEW pick, \A s \in SUBSET S : s # {} => pick[s] \in s,
         NEW op \in [S \X V -> V]
  PROVE  HasFold(V, S, b, pick, op)
  <1> DEFINE W == [SUBSET S -> V]
             N == Cardinality(S) + 1
             Round(f) == [s \in SUBSET S |-> IF s = {} THEN b ELSE op[<<pick[s], f[s \ {pick[s]}]>>]]
             step == [p \in (1 .. N) \X W |-> Round(p[2])]
  <1>1. \A f \in W : Round(f) \in W
    <2> SUFFICES ASSUME NEW f \in W, NEW s \in SUBSET S, s # {}
                 PROVE  op[<<pick[s], f[s \ {pick[s]}]>>] \in V
      OBVIOUS
    <2>1. pick[s] \in S /\ s \ {pick[s]} \in SUBSET S
      OBVIOUS
    <2>2. f[s \ {pick[s]}] \in V
      BY <2>1
    <2> QED
      BY <2>1, <2>2
  <1>2. N \in Nat /\ N > 0
    BY FS_CardinalityType
  <1> HIDE DEF Round
  <1>3. PICK z : z = [s \in SUBSET S |-> b]
    OBVIOUS
  <1>4. z \in W
    BY <1>3
  <1>5. step \in [(1 .. N) \X W -> W]
    BY <1>1
  <1>6. HasRecursive(W, N, z, step)
    <2> HIDE DEF W, N, step
    <2> QED
      BY <1>2, <1>4, <1>5, Recursion
  <1>7. PICK f \in [0 .. N -> W] : f[0] = z /\ \A i \in 1 .. N : f[i] = step[<<i, f[i - 1]>>]
    <2> HIDE DEF W, N, step
    <2> QED
      BY <1>6 DEF HasRecursive, Recursive
  <1>8. \A i \in 1 .. N : f[i - 1] \in W /\ f[i] = Round(f[i - 1])
    <2> SUFFICES ASSUME NEW i \in 1 .. N PROVE f[i - 1] \in W /\ f[i] = Round(f[i - 1])
      OBVIOUS
    <2>1. i - 1 \in 0 .. N
      BY <1>2
    <2>2. f[i - 1] \in W
      BY <2>1, <1>7
    <2>3. step[<<i, f[i - 1]>>] = Round(f[i - 1])
      BY <2>2
    <2> QED
      BY <1>7, <2>2, <2>3
  <1> DEFINE Still(i) == \A s \in SUBSET S : Cardinality(s) <= i => f[i + 1][s] = f[i][s]
             Bad == {i \in 0 .. N - 1 : ~ Still(i)}
  <1>9. Bad = {}
    <2> SUFFICES ASSUME Bad # {} PROVE FALSE
      OBVIOUS
    <2>1. Bad \in SUBSET Nat
      BY <1>2
    <2>2. PICK i \in Bad : \A j \in Bad : i <= j
      <3> HIDE DEF Bad
      <3> QED
        BY <2>1, LeastNatural
    <2>3. i \in 0 .. N - 1 /\ ~ Still(i)
      OBVIOUS
    <2>4. PICK s \in SUBSET S : Cardinality(s) <= i /\ f[i + 1][s] # f[i][s]
      BY <2>3
    <2>5. i + 1 \in 1 .. N /\ f[i + 1] = Round(f[i])
      <3>1. i + 1 \in 1 .. N /\ (i + 1) - 1 = i
        BY <1>2, <2>3
      <3> QED
        BY <1>8, <3>1
    <2>6. \A w : \A t \in SUBSET S : Round(w)[t] = IF t = {} THEN b ELSE op[<<pick[t], w[t \ {pick[t]}]>>]
      BY DEF Round
    <2>7. CASE s = {}
      <3>1. f[i + 1][s] = b
        BY <2>5, <2>6, <2>7
      <3>2. f[i][s] = b
        <4>1. CASE i = 0
          BY <1>3, <1>7, <4>1
        <4>2. CASE i # 0
          <5>1. i \in 1 .. N
            BY <1>2, <2>3, <4>2
          <5>2. f[i] = Round(f[i - 1])
            BY <5>1, <1>8
          <5> QED
            BY <5>2, <2>6, <2>7
        <4> QED
          BY <4>1, <4>2
      <3> QED
        BY <3>1, <3>2, <2>4
    <2>8. CASE s # {}
      <3>1. pick[s] \in s
        BY <2>8
      <3>2. /\ Cardinality(s \ {pick[s]}) = Cardinality(s) - 1 /\ Cardinality(s) > 0
            /\ Cardinality(s) \in Nat /\ s \ {pick[s]} \in SUBSET S
        BY <3>1, FewerElements
      <3>3. i \in 1 .. N /\ i - 1 \in 0 .. N - 1 /\ ~ (i <= i - 1) /\ (i - 1) + 1 = i
        BY <1>2, <2>3, <2>4, <3>2
      <3>4. Still(i - 1)
        BY <2>2, <3>3
      <3>5. f[i][s \ {pick[s]}] = f[i - 1][s \ {pick[s]}]
        <4>1. Cardinality(s \ {pick[s]}) <= i - 1
          BY <2>3, <2>4, <3>2
        <4> QED
          BY <3>2, <3>3, <3>4, <4>1
      <3>6. f[i] = Round(f[i - 1])
        BY <3>3, <1>8
      <3>7. \A w : Round(w)[s] = op[<<pick[s], w[s \ {pick[s]}]>>]
        BY <2>6, <2>8
      <3>8. /\ f[i + 1][s] = op[<<pick[s], f[i][s \ {pick[s]}]>>]
            /\ f[i][s] = op[<<pick[s], f[i - 1][s \ {pick[s]}]>>]
        <4> HIDE DEF N, W, step, Still, Bad
        <4> QED
          BY <3>6, <3>7, <2>5
      <3> QED
        BY <3>5, <3>8, <2>4
    <2> QED
      BY <2>7, <2>8
  <1>10. PICK w : w = f[N - 1]
    OBVIOUS
  <1>11. w \in W /\ f[N] = Round(w) /\ N - 1 \in 0 .. N - 1 /\ (N - 1) + 1 = N
    <2>1. N \in 1 .. N /\ N - 1 \in 0 .. N - 1 /\ (N - 1) + 1 = N
      BY <1>2
    <2> HIDE DEF N, W, step, Still, Bad
    <2> QED
      BY <2>1, <1>8, <1>10
  <1>12. Still(N - 1)
    BY <1>9, <1>11
  <1>13. \A s \in SUBSET S : Round(w)[s] = w[s]
    <2> SUFFICES ASSUME NEW s \in SUBSET S PROVE Round(w)[s] = w[s]
      OBVIOUS
    <2>1. Cardinality(s) <= N - 1
      BY FewerElements
    <2> QED
      BY <1>10, <1>11, <1>12, <2>1
  <1>14. Round(w) = w
    <2>1. Round(w) \in W
      BY <1>1, <1>11
    <2> QED
      BY <1>11, <1>13, <2>1
  <1> QED
    BY <1>11, <1>14 DEF HasFold, Folds, Round

-----------------------------------------------------------------------------
(* Sums over the subsets of S of what g has for their elements.             *)
Sums(f, g, S) ==
    f = [s \in SUBSET S |-> IF s = {} THEN 0
                            ELSE g[CHOOSE x \in s : TRUE] + f[s \ {CHOOSE x \in s : TRUE}]]

LEMMA SumExists ==
  ASSUME NEW S, IsFiniteSet(S), NEW g \in [S -> Nat]
  PROVE  \E f \in [SUBSET S -> Nat] : Sums(f, g, S)
  <1> DEFINE pick == [s \in SUBSET S |-> CHOOSE x \in s : TRUE]
             op   == [p \in S \X Nat |-> g[p[1]] + p[2]]
  <1>1. op \in [S \X Nat -> Nat]
    OBVIOUS
  <1>2. \A s \in SUBSET S : s # {} => pick[s] \in s
    OBVIOUS
  <1>3. PICK f \in [SUBSET S -> Nat] : Folds(f, S, 0, pick, op)
    <2>1. HasFold(Nat, S, 0, pick, op)
      <3>1. 0 \in Nat
        OBVIOUS
      <3> HIDE DEF pick, op
      <3> QED
        BY <1>1, <1>2, <3>1, FoldExists
    <2> QED
      BY <2>1 DEF HasFold
  <1> DEFINE Body == [s \in SUBSET S |-> IF s = {} THEN 0
                            ELSE g[CHOOSE x \in s : TRUE] + f[s \ {CHOOSE x \in s : TRUE}]]
  <1>4. ASSUME NEW s \in SUBSET S PROVE f[s] = Body[s]
    <2>1. f[s] = IF s = {} THEN 0 ELSE op[<<pick[s], f[s \ {pick[s]}]>>]
      <3> HIDE DEF pick, op
      <3> QED
        BY <1>3 DEF Folds
    <2>2. CASE s # {}
      <3>1. PICK x : x = pick[s]
        OBVIOUS
      <3>2. x = (CHOOSE y \in s : TRUE) /\ x \in s
        BY <3>1, <1>2, <2>2
      <3>3. f[s \ {x}] \in Nat /\ x \in S
        BY <3>2
      <3>4. <<x, f[s \ {x}]>> \in S \X Nat
        BY <3>3
      <3>5. op[<<x, f[s \ {x}]>>] = g[x] + f[s \ {x}]
        BY <3>4
      <3> QED
        BY <2>1, <2>2, <3>1, <3>2, <3>5
    <2> QED
      BY <2>1, <2>2
  <1>5. f = Body
    <2>1. f \in [SUBSET S -> Nat] /\ DOMAIN f = SUBSET S
      OBVIOUS
    <2>2. Body = [s \in SUBSET S |-> Body[s]]
      OBVIOUS
    <2> QED
      BY <1>4, <2>1, <2>2
  <1> QED
    BY <1>5 DEF Sums

(* Each element can be the first one.                                       *)
LEMMA SumOne ==
  ASSUME NEW S, IsFiniteSet(S), NEW g \in [S -> Nat], NEW f, Sums(f, g, S)
  PROVE  /\ f[{}] = 0
         /\ \A s \in SUBSET S : f[s] \in Nat /\ \A x \in s : f[s] = g[x] + f[s \ {x}]
  <1>1. f[{}] = 0
    BY DEF Sums
  <1>2. ASSUME NEW s \in SUBSET S, s # {}
        PROVE  \E c \in s : f[s] = g[c] + f[s \ {c}]
    BY <1>2 DEF Sums
  <1> DEFINE Good(s) == f[s] \in Nat /\ \A x \in s : f[s] = g[x] + f[s \ {x}]
             Bad == {Cardinality(s) : s \in {t \in SUBSET S : ~ Good(t)}}
  <1>3. Bad = {}
    <2> SUFFICES ASSUME Bad # {} PROVE FALSE
      OBVIOUS
    <2>1. Bad \in SUBSET Nat
      BY FewerElements
    <2>2. PICK n \in Bad : \A k \in Bad : n <= k
      <3> HIDE DEF Bad
      <3> QED
        BY <2>1, LeastNatural
    <2>3. PICK s \in SUBSET S : n = Cardinality(s) /\ ~ Good(s)
      BY <2>2
    <2>4. ASSUME NEW t \in SUBSET S, Cardinality(t) < n PROVE Good(t)
      <3>1. Cardinality(t) \in Nat /\ n \in Nat
        BY FewerElements, <2>1
      <3> QED
        BY <2>2, <2>4, <3>1
    <2> HIDE DEF Bad
    <2>5. s # {}
      BY <1>1, <2>3
    <2>6. PICK c \in s : f[s] = g[c] + f[s \ {c}]
      BY <1>2, <2>5
    <2>7. ASSUME NEW x \in s PROVE Good(s \ {x}) /\ s \ {x} \in SUBSET S
      <3>1. Cardinality(s \ {x}) < n /\ s \ {x} \in SUBSET S
        BY <2>3, FewerElements
      <3> QED
        BY <2>4, <3>1
    <2>8. f[s] \in Nat
      <3>1. f[s \ {c}] \in Nat /\ g[c] \in Nat
        BY <2>7
      <3> QED
        BY <2>6, <3>1
    <2>9. ASSUME NEW x \in s PROVE f[s] = g[x] + f[s \ {x}]
      <3>1. CASE x = c
        BY <2>6, <3>1
      <3>2. CASE x # c
        <4>1. x \in s \ {c} /\ c \in s \ {x} /\ (s \ {c}) \ {x} = (s \ {x}) \ {c}
          BY <3>2
        <4>2. f[s \ {c}] = g[x] + f[(s \ {c}) \ {x}]
          BY <2>7, <4>1
        <4>3. f[s \ {x}] = g[c] + f[(s \ {x}) \ {c}]
          BY <2>7, <4>1
        <4>4. f[(s \ {x}) \ {c}] \in Nat
          <5>1. Cardinality(s \ {x}) = Cardinality(s) - 1 /\ Cardinality((s \ {x}) \ {c}) = Cardinality(s \ {x}) - 1
                /\ Cardinality(s) \in Nat /\ (s \ {x}) \ {c} \in SUBSET S
            BY <4>1, <2>7, FewerElements
          <5> QED
            BY <5>1, <2>3, <2>4
        <4>5. g[x] \in Nat /\ g[c] \in Nat
          OBVIOUS
        <4> QED
          BY <2>6, <4>1, <4>2, <4>3, <4>4, <4>5
      <3> QED
        BY <3>1, <3>2
    <2> QED
      BY <2>3, <2>8, <2>9
  <1>4. ASSUME NEW s \in SUBSET S PROVE Good(s)
    BY <1>3
  <1> QED
    BY <1>1, <1>4

(* A sum has the same value over what its elements are renamed to.          *)
LEMMA SumRenamed ==
  ASSUME NEW S, IsFiniteSet(S), NEW T, IsFiniteSet(T), NEW r \in [S -> T],
         \A x, y \in S : r[x] = r[y] => x = y, \A z \in T : \E x \in S : r[x] = z,
         NEW g \in [S -> Nat], NEW h \in [T -> Nat], \A x \in S : g[x] = h[r[x]],
         NEW f, Sums(f, g, S), NEW e, Sums(e, h, T)
  PROVE  f[S] = e[T]
  <1>0. /\ f[{}] = 0 /\ e[{}] = 0
        /\ \A s \in SUBSET S : \A x \in s : f[s] = g[x] + f[s \ {x}]
        /\ \A t \in SUBSET T : \A z \in t : e[t] = h[z] + e[t \ {z}]
    <2>1. /\ f[{}] = 0
          /\ \A s \in SUBSET S : f[s] \in Nat /\ \A x \in s : f[s] = g[x] + f[s \ {x}]
      BY SumOne
    <2>2. /\ e[{}] = 0
          /\ \A s \in SUBSET T : e[s] \in Nat /\ \A x \in s : e[s] = h[x] + e[s \ {x}]
      BY SumOne
    <2> QED
      BY <2>1, <2>2
  <1> DEFINE Image(s) == {r[x] : x \in s}
             Good(s)  == f[s] = e[Image(s)]
             Bad == {Cardinality(s) : s \in {t \in SUBSET S : ~ Good(t)}}
  <1>1. Bad = {}
    <2> SUFFICES ASSUME Bad # {} PROVE FALSE
      OBVIOUS
    <2>1. Bad \in SUBSET Nat
      <3>1. \A t \in SUBSET S : Cardinality(t) \in Nat
        BY FewerElements
      <3> HIDE DEF Good
      <3> QED
        BY <3>1
    <2>2. PICK n \in Bad : \A k \in Bad : n <= k
      <3> HIDE DEF Bad
      <3> QED
        BY <2>1, LeastNatural
    <2>3. PICK s \in SUBSET S : n = Cardinality(s) /\ ~ Good(s)
      BY <2>2
    <2>4. ASSUME NEW t \in SUBSET S, Cardinality(t) < n PROVE Good(t)
      <3>1. Cardinality(t) \in Nat /\ n \in Nat
        BY FewerElements, <2>1
      <3>2. ~ Good(t) => Cardinality(t) \in Bad
        <4> HIDE DEF Good
        <4> QED
          OBVIOUS
      <3> HIDE DEF Bad, Good
      <3> QED
        BY <2>2, <2>4, <3>1, <3>2
    <2> HIDE DEF Bad
    <2>5. s # {}
      <3>1. Image({}) = {}
        OBVIOUS
      <3> QED
        BY <1>0, <2>3, <3>1
    <2>6. PICK x \in s : TRUE
      BY <2>5
    <2>7. /\ Image(s) \in SUBSET T /\ r[x] \in Image(s)
          /\ Image(s) \ {r[x]} = Image(s \ {x})
      OBVIOUS
    <2>8. f[s] = g[x] + f[s \ {x}]
      BY <1>0
    <2>9. e[Image(s)] = h[r[x]] + e[Image(s \ {x})]
      <3>1. e[Image(s)] = h[r[x]] + e[Image(s) \ {r[x]}]
        <4> HIDE DEF Image
        <4> QED
          BY <1>0, <2>7
      <3> QED
        BY <2>7, <3>1
    <2>10. Good(s \ {x})
      <3>1. Cardinality(s \ {x}) < n /\ s \ {x} \in SUBSET S
        BY <2>3, FewerElements
      <3> QED
        BY <2>4, <3>1
    <2> QED
      BY <2>3, <2>8, <2>9, <2>10
  <1>2. Good(S)
    <2>1. S \in SUBSET S /\ (~ Good(S) => Cardinality(S) \in Bad)
      <3> HIDE DEF Good
      <3> QED
        OBVIOUS
    <2> HIDE DEF Good, Bad
    <2> QED
      BY <1>1, <2>1
  <1>3. Image(S) = T
    OBVIOUS
  <1> QED
    BY <1>2, <1>3
=============================================================================
