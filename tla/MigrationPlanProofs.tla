------------------------- MODULE MigrationPlanProofs -------------------------
(***************************************************************************)
(* Proofs about MigrationPlan, for every manifest: the order of its steps  *)
(* is right, or it is refused for a fault it has; and a plan made from the *)
(* order is one that the runner can rely on.                               *)
(*                                                                         *)
(* The planner visits steps to a depth and loops over their dependencies.  *)
(* The first part has what is needed of such recursive functions, proved   *)
(* from the well-foundedness of the natural numbers; the induction is over *)
(* the depth, with Visitor saying what a call of visit() does.             *)
(***************************************************************************)
EXTENDS MigrationPlan, Integers, FiniteSetTheorems, WellFoundedInduction, TLAPS

-----------------------------------------------------------------------------
(* Recursion over the natural numbers.                                     *)

(* What holds of some natural number holds of a smallest one.              *)
LEMMA Smallest ==
  ASSUME NEW S \in SUBSET Nat, S # {}
  PROVE  \E m \in S : \A k \in S : m <= k
<1> DEFINE R == OpToRel(<, Nat)
<1>1. IsWellFoundedOn(R, Nat)
  BY NatLessThanWellFounded
<1>2. PICK m \in S : \A k \in S : <<k, m>> \notin R
  BY <1>1, WFMin, Zenon
<1>3. \A x, y \in Nat : x < y => <<x, y>> \in R
  BY DEF OpToRel
<1> HIDE DEF R
<1>4. m \in Nat /\ \A k \in S : k \in Nat
  OBVIOUS
<1>5. \A k \in S : ~ (k < m)
  BY <1>2, <1>3, <1>4, Zenon
<1>6. \A k \in S : m <= k
  BY <1>4, <1>5
<1> QED BY <1>6

(* Induction over the natural numbers, for a set of them.                  *)
LEMMA Induction ==
  ASSUME NEW S, 0 \in S, \A n \in Nat : n \in S => n + 1 \in S
  PROVE  \A n \in Nat : n \in S
<1>1. SUFFICES ASSUME NEW n \in Nat, n \notin S PROVE FALSE
  OBVIOUS
<1>2. PICK m \in Nat \ S : \A k \in Nat \ S : m <= k
  <2>1. Nat \ S \in SUBSET Nat /\ Nat \ S # {}
    BY <1>1
  <2>2. QED  BY <2>1, Smallest, Zenon
<1>3. m # 0 /\ m - 1 \in Nat /\ m - 1 < m
  BY <1>2
<1>4. m - 1 \in S
  BY <1>2, <1>3
<1>5. (m - 1) + 1 \in S
  BY <1>3, <1>4
<1>6. QED  BY <1>2, <1>5

\* g starts with c and goes on as H says, for ever or up to n.
Iterates(g, c, H) == g[0] = c /\ \A n \in Nat : g[n + 1] = H[n + 1][g[n]]
Loops(g, n, c, H) == g[0] = c /\ \A i \in 1..n : g[i] = H[i][g[i - 1]]

(* A function that starts with c and goes on as H says exists.             *)
LEMMA Iteration ==
  ASSUME NEW T, NEW c \in T, NEW H \in [Nat -> [T -> T]]
  PROVE  \E g \in [Nat -> T] : Iterates(g, c, H)
<1> DEFINE Upto(n, h) == h \in [0..n -> T] /\ h[0] = c
                         /\ \A i \in 0..n : i # 0 => h[i] = H[i][h[i - 1]]
           S == {n \in Nat : \E h : Upto(n, h)}
<1>1. \A n \in Nat : \E h : Upto(n, h)
  <2>1. 0 \in S
    <3>1. Upto(0, [i \in 0..0 |-> c])
      OBVIOUS
    <3>2. QED  BY <3>1
  <2>2. ASSUME NEW n \in Nat, n \in S
        PROVE  n + 1 \in S
    <3>1. PICK h : Upto(n, h)
      BY <2>2
    <3> DEFINE k == [i \in 0..(n + 1) |-> IF i = n + 1 THEN H[n + 1][h[n]] ELSE h[i]]
    <3>2. h[n] \in T /\ H[n + 1] \in [T -> T]
      BY <3>1
    <3>3. k \in [0..(n + 1) -> T]
      <4>1. ASSUME NEW i \in 0..(n + 1)
            PROVE  k[i] \in T
        <5>1. CASE i = n + 1
          BY <5>1, <3>2
        <5>2. CASE i # n + 1
          <6>1. i \in 0..n
            BY <5>2
          <6>2. QED  BY <6>1, <5>2, <3>1
        <5>3. QED  BY <5>1, <5>2
      <4>2. QED  BY <4>1
    <3>4. k[0] = c
      BY <3>1
    <3>5. ASSUME NEW i \in 0..(n + 1), i # 0
          PROVE  k[i] = H[i][k[i - 1]]
      <4>1. i - 1 \in 0..n /\ i - 1 # n + 1 /\ i - 1 \in 0..(n + 1)
        BY <3>5
      <4>2. k[i - 1] = h[i - 1]
        BY <4>1
      <4>3. CASE i = n + 1
        BY <4>2, <4>3
      <4>4. CASE i # n + 1
        <5>1. i \in 0..n
          BY <4>4
        <5>2. h[i] = H[i][h[i - 1]]
          BY <5>1, <3>1, <3>5
        <5>3. QED  BY <5>1, <5>2, <4>2, <4>4
      <4>5. QED  BY <4>3, <4>4
    <3>6. Upto(n + 1, k)
      BY <3>3, <3>4, <3>5
    <3> HIDE DEF Upto, k
    <3>7. QED  BY <3>6
  <2> HIDE DEF S
  <2>3. \A n \in Nat : n \in S
    BY <2>1, <2>2, Induction
  <2>4. QED  BY <2>3 DEF S
<1>2. ASSUME NEW m \in Nat, NEW n \in Nat, m <= n, NEW h, NEW k, Upto(m, h), Upto(n, k)
      PROVE  h[m] = k[m]
  <2> DEFINE E == {i \in Nat : i <= m => h[i] = k[i]}
  <2>1. 0 \in E
    BY <1>2
  <2>2. ASSUME NEW i \in Nat, i \in E
        PROVE  i + 1 \in E
    <3>1. SUFFICES ASSUME i + 1 <= m PROVE h[i + 1] = k[i + 1]
      OBVIOUS
    <3>2. i + 1 \in 0..m /\ i + 1 \in 0..n /\ i + 1 # 0 /\ (i + 1) - 1 = i /\ i <= m
      BY <1>2, <3>1
    <3>3. h[i + 1] = H[i + 1][h[i]] /\ k[i + 1] = H[i + 1][k[i]]
      BY <1>2, <3>2
    <3>4. h[i] = k[i]
      BY <2>2, <3>2
    <3>5. QED  BY <3>3, <3>4
  <2> HIDE DEF E
  <2>3. \A i \in Nat : i \in E
    BY <2>1, <2>2, Induction
  <2>4. QED  BY <2>3 DEF E
<1> DEFINE F(n) == CHOOSE h : Upto(n, h)
           g == [n \in Nat |-> F(n)[n]]
<1> HIDE DEF S
<1>3. \A n \in Nat : Upto(n, F(n))
  BY <1>1
<1> HIDE DEF F
<1>4. g \in [Nat -> T] /\ g[0] = c
  BY <1>3
<1>5. ASSUME NEW n \in Nat
      PROVE  g[n + 1] = H[n + 1][g[n]]
  <2>1. F(n + 1)[n + 1] = H[n + 1][F(n + 1)[n]]
    <3>1. Upto(n + 1, F(n + 1)) /\ n + 1 \in 0..(n + 1) /\ n + 1 # 0 /\ (n + 1) - 1 = n
      BY <1>3
    <3>2. QED  BY <3>1
  <2>2. F(n + 1)[n] = F(n)[n]
    <3>1. n + 1 \in Nat /\ n <= n + 1
      OBVIOUS
    <3> HIDE DEF Upto
    <3>2. QED  BY <1>2, <1>3, <3>1
  <2>3. QED  BY <2>1, <2>2
<1>6. QED  BY <1>4, <1>5 DEF Iterates

(* Induction up to n.                                                      *)
LEMMA Stepwise ==
  ASSUME NEW S, NEW n \in Nat, 0 \in S, \A i \in 1..n : i - 1 \in S => i \in S
  PROVE  \A i \in 0..n : i \in S
<1> DEFINE E == {i \in Nat : i <= n => i \in S}
<1>1. 0 \in E
  OBVIOUS
<1>2. ASSUME NEW i \in Nat, i \in E
      PROVE  i + 1 \in E
  <2>1. SUFFICES ASSUME i + 1 <= n PROVE i + 1 \in S
    OBVIOUS
  <2>2. i + 1 \in 1..n /\ (i + 1) - 1 = i /\ i <= n
    BY <2>1
  <2>3. QED  BY <1>2, <2>2
<1> HIDE DEF E
<1>3. \A i \in Nat : i \in E
  BY <1>1, <1>2, Induction
<1>4. QED  BY <1>3 DEF E

(* A function that goes on as H says up to n exists.                       *)
LEMMA Loop ==
  ASSUME NEW T, NEW c \in T, NEW n \in Nat, NEW H \in [1..n -> [T -> T]]
  PROVE  \E g \in [0..n -> T] : Loops(g, n, c, H)
<1>1. PICK K \in [Nat -> [T -> T]] : \A i \in 1..n : K[i] = H[i]
  <2> DEFINE K == [i \in Nat |-> IF i \in 1..n THEN H[i] ELSE [u \in T |-> u]]
  <2>1. K \in [Nat -> [T -> T]] /\ \A i \in 1..n : K[i] = H[i]
    OBVIOUS
  <2>2. QED  BY <2>1
<1>2. PICK h \in [Nat -> T] : Iterates(h, c, K)
  BY Iteration
<1> DEFINE g == [i \in 0..n |-> h[i]]
<1>3. g \in [0..n -> T] /\ g[0] = c
  BY <1>2 DEF Iterates
<1>4. ASSUME NEW i \in 1..n
      PROVE  g[i] = H[i][g[i - 1]]
  <2>1. i - 1 \in Nat /\ i - 1 \in 0..n /\ (i - 1) + 1 = i /\ i \in 0..n
    OBVIOUS
  <2>2. h[(i - 1) + 1] = K[(i - 1) + 1][h[i - 1]]
    BY <1>2, <2>1 DEF Iterates
  <2>3. QED  BY <1>1, <2>1, <2>2
<1>5. QED  BY <1>3, <1>4 DEF Loops

-----------------------------------------------------------------------------
(* Sequences.                                                              *)

(* The values of a sequence.                                               *)
LEMMA ValuesOf ==
  ASSUME NEW X, NEW s \in Seq(X)
  PROVE  /\ Len(s) \in Nat /\ DOMAIN s = 1..Len(s)
         /\ ToSet(s) = {s[i] : i \in 1..Len(s)}
         /\ ToSet(s) \subseteq X
         /\ \A i \in 1..Len(s) : s[i] \in X
<1>1. Len(s) \in Nat /\ DOMAIN s = 1..Len(s) /\ \A i \in 1..Len(s) : s[i] \in X
  OBVIOUS
<1>2. ToSet(s) = {s[i] : i \in 1..Len(s)}
  BY <1>1, Zenon DEF ToSet
<1>3. QED  BY <1>1, <1>2

(* A sequence with one more element.                                       *)
LEMMA Appended ==
  ASSUME NEW X, NEW s \in Seq(X), NEW x \in X
  PROVE  /\ Append(s, x) \in Seq(X) /\ Len(Append(s, x)) = Len(s) + 1
         /\ Append(s, x)[Len(s) + 1] = x
         /\ \A i \in 1..Len(s) : Append(s, x)[i] = s[i]
         /\ ToSet(Append(s, x)) = ToSet(s) \cup {x}
<1> DEFINE q == Append(s, x)
<1>1. /\ q \in Seq(X) /\ Len(q) = Len(s) + 1 /\ Len(s) \in Nat
      /\ q[Len(s) + 1] = x /\ \A i \in 1..Len(s) : q[i] = s[i]
  OBVIOUS
<1>2. ToSet(q) = {q[i] : i \in 1..Len(q)} /\ ToSet(s) = {s[i] : i \in 1..Len(s)}
  BY <1>1, ValuesOf
<1> HIDE DEF q
<1>3. ToSet(q) = ToSet(s) \cup {x}
  BY <1>1, <1>2
<1>4. QED  BY <1>1, <1>3 DEF q

(* The empty sequence.                                                     *)
LEMMA NoValues == <<>> \in Seq({}) /\ Len(<<>>) = 0 /\ ToSet(<<>>) = {}
<1>1. <<>> \in Seq({}) /\ Len(<<>>) = 0
  OBVIOUS
<1>2. DOMAIN <<>> = 1..0 /\ ~ \E i \in Nat : i \in 1..0
  OBVIOUS
<1>3. QED  BY <1>1, <1>2 DEF ToSet

-----------------------------------------------------------------------------
(* Loops.                                                                  *)
\* What there is after each element of s has been visited, from v on.
Passes(after, visit, s, v) ==
  after[0] = v /\ \A i \in 1..Len(s) : after[i] = visit[s[i]][after[i - 1]]

(* A loop goes from element to element.                                    *)
LEMMA EachSteps ==
  ASSUME NEW X, NEW T, NEW visit \in [X -> [T -> T]], NEW s \in Seq(X), NEW v \in T
  PROVE  \E after \in [0..Len(s) -> T] :
           Each(visit, s, v) = after[Len(s)] /\ Passes(after, visit, s, v)
<1> DEFINE Body(g) == [i \in 0..Len(s) |-> IF i = 0 THEN v ELSE visit[s[i]][g[i - 1]]]
           chosen == CHOOSE g : g = Body(g)
<1>1. Each(visit, s, v) = chosen[Len(s)]
  BY DEF Each
<1>2. \E g : g = Body(g)
  <2> DEFINE H == [i \in 1..Len(s) |-> visit[s[i]]]
  <2>1. H \in [1..Len(s) -> [T -> T]] /\ Len(s) \in Nat
    OBVIOUS
  <2> HIDE DEF H
  <2>2. PICK g \in [0..Len(s) -> T] : Loops(g, Len(s), v, H)
    BY <2>1, Loop
  <2>3. \A i \in 0..Len(s) : g[i] = IF i = 0 THEN v ELSE visit[s[i]][g[i - 1]]
    BY <2>2 DEF H, Loops
  <2>4. QED  BY <2>2, <2>3
<1>3. chosen = Body(chosen)
  BY <1>2
<1> HIDE DEF chosen
<1>4. \A i \in 0..Len(s) : chosen[i] = IF i = 0 THEN v ELSE visit[s[i]][chosen[i - 1]]
  <2>1. \A i \in 0..Len(s) : Body(chosen)[i] = IF i = 0 THEN v ELSE visit[s[i]][chosen[i - 1]]
    OBVIOUS
  <2> HIDE DEF Body
  <2>2. QED  BY <1>3, <2>1
<1>5. chosen[0] = v /\ \A i \in 1..Len(s) : chosen[i] = visit[s[i]][chosen[i - 1]]
  BY <1>4
<1>6. \A i \in 0..Len(s) : chosen[i] \in T
  <2> DEFINE S == {i \in 0..Len(s) : chosen[i] \in T}
  <2>1. 0 \in S /\ \A i \in 1..Len(s) : i - 1 \in S => i \in S
    BY <1>5
  <2>2. Len(s) \in Nat
    OBVIOUS
  <2> HIDE DEF S
  <2>3. \A i \in 0..Len(s) : i \in S
    BY <2>1, <2>2, Stepwise
  <2>4. QED  BY <2>3 DEF S
<1>7. chosen \in [0..Len(s) -> T]
  BY <1>3, <1>6
<1>8. QED  BY <1>1, <1>5, <1>7 DEF Passes

(* A loop ends where its steps lead.                                       *)
LEMMA EachTyped ==
  ASSUME NEW X, NEW T, NEW visit \in [X -> [T -> T]], NEW s \in Seq(X), NEW v \in T
  PROVE  Each(visit, s, v) \in T
<1>1. PICK after \in [0..Len(s) -> T] :
        Each(visit, s, v) = after[Len(s)] /\ Passes(after, visit, s, v)
  BY EachSteps
<1>2. Len(s) \in Nat
  OBVIOUS
<1>3. QED  BY <1>1, <1>2

\* p is what of the first m of order is in S, in that order.
Keeps(p, order, m, S) ==
  /\ ToSet(p) = S \cap {order[j] : j \in 1..m}
  /\ \A i \in 1..Len(p) : \E k \in 1..m :
       /\ p[i] = order[k]
       /\ {p[j] : j \in 1..(i - 1)} = S \cap {order[j] : j \in 1..(k - 1)}

(* One more element, kept or not.                                          *)
LEMMA KeepsOne ==
  ASSUME NEW X, NEW order \in Seq(X), NEW S, NEW m \in 1..Len(order),
         NEW p \in Seq(X), Keeps(p, order, m - 1, S)
  PROVE  Keeps(IF order[m] \in S THEN Append(p, order[m]) ELSE p, order, m, S)
<1>1. order[m] \in X /\ m \in Nat \ {0}
  OBVIOUS
<1>2. {order[j] : j \in 1..m} = {order[j] : j \in 1..(m - 1)} \cup {order[m]}
  BY <1>1
<1>3. CASE order[m] \notin S
  <2>1. ToSet(p) = S \cap {order[j] : j \in 1..m}
    BY <1>2, <1>3 DEF Keeps
  <2>2. \A k \in 1..(m - 1) : k \in 1..m
    BY <1>1
  <2>3. Keeps(p, order, m, S)
    BY <2>1, <2>2 DEF Keeps
  <2>4. QED  BY <1>3, <2>3
<1>4. CASE order[m] \in S
  <2> DEFINE q == Append(p, order[m])
  <2>1. /\ Len(p) \in Nat /\ Len(q) = Len(p) + 1
        /\ q[Len(q)] = order[m] /\ \A i \in 1..Len(p) : q[i] = p[i]
        /\ ToSet(q) = ToSet(p) \cup {order[m]} /\ ToSet(p) = {p[i] : i \in 1..Len(p)}
    BY <1>1, Appended, ValuesOf
  <2> HIDE DEF q
  <2>2. ToSet(q) = S \cap {order[j] : j \in 1..m}
    BY <1>2, <1>4, <2>1 DEF Keeps
  <2>3. ASSUME NEW i \in 1..Len(q)
        PROVE  \E k \in 1..m : /\ q[i] = order[k]
                 /\ {q[j] : j \in 1..(i - 1)} = S \cap {order[j] : j \in 1..(k - 1)}
    <3>1. {q[j] : j \in 1..(i - 1)} = {p[j] : j \in 1..(i - 1)}
      BY <2>1
    <3>2. CASE i = Len(q)
      <4>1. {p[j] : j \in 1..(i - 1)} = ToSet(p) /\ m \in 1..m
        BY <1>1, <2>1, <3>2
      <4>2. {q[j] : j \in 1..(i - 1)} = S \cap {order[j] : j \in 1..(m - 1)}
        BY <3>1, <4>1 DEF Keeps
      <4>3. QED  BY <2>1, <3>2, <4>1, <4>2
    <3>3. CASE i # Len(q)
      <4>1. i \in 1..Len(p) /\ q[i] = p[i]
        BY <2>1, <3>3
      <4>2. PICK k \in 1..(m - 1) : /\ p[i] = order[k]
              /\ {p[j] : j \in 1..(i - 1)} = S \cap {order[j] : j \in 1..(k - 1)}
        BY <4>1 DEF Keeps
      <4>3. k \in 1..m
        BY <1>1
      <4>4. QED  BY <3>1, <4>1, <4>2, <4>3
    <3>4. QED  BY <3>2, <3>3
  <2>4. Keeps(q, order, m, S)
    BY <2>2, <2>3 DEF Keeps
  <2>5. QED  BY <1>4, <2>4 DEF q
<1>5. QED  BY <1>3, <1>4

(* What is in S comes in the order it had, and all of it.                  *)
LEMMA WithinKeeps ==
  ASSUME NEW X, NEW order \in Seq(X), NEW S
  PROVE  Within(order, S) \in Seq(X) /\ Keeps(Within(order, S), order, Len(order), S)
<1> DEFINE n == Len(order)
           Add(i, p) == IF order[i] \in S THEN Append(p, order[i]) ELSE p
           Body(g) == [i \in 0..n |-> IF i = 0 THEN <<>>
                        ELSE IF order[i] \in S THEN Append(g[i - 1], order[i]) ELSE g[i - 1]]
           chosen == CHOOSE g : g = Body(g)
<1>1. Within(order, S) = chosen[n] /\ n \in Nat
  BY DEF Within
<1>2. \E g : g = Body(g)
  <2> DEFINE H == [i \in 1..n |-> [p \in Seq(X) |-> Add(i, p)]]
  <2>1. H \in [1..n -> [Seq(X) -> Seq(X)]]
    <3>1. \A i \in 1..n, p \in Seq(X) : Add(i, p) \in Seq(X)
      OBVIOUS
    <3>2. QED  BY <3>1
  <2>2. \A i \in 1..n, p \in Seq(X) : H[i][p] = Add(i, p)
    OBVIOUS
  <2>3. <<>> \in Seq(X)
    OBVIOUS
  <2> HIDE DEF H
  <2>4. PICK g \in [0..n -> Seq(X)] : Loops(g, n, <<>>, H)
    <3> HIDE DEF n
    <3>1. QED  BY <1>1, <2>1, <2>3, Loop
  <2>5. ASSUME NEW i \in 0..n
        PROVE  g[i] = IF i = 0 THEN <<>> ELSE Add(i, g[i - 1])
    <3>1. CASE i = 0
      BY <3>1, <2>4 DEF Loops
    <3>2. CASE i # 0
      <4>1. i \in 1..n /\ i - 1 \in 0..n /\ g[i - 1] \in Seq(X)
        BY <3>2, <2>4
      <4>2. g[i] = H[i][g[i - 1]]
        BY <4>1, <2>4 DEF Loops
      <4>3. QED  BY <4>1, <4>2, <2>2, <3>2
    <3>3. QED  BY <3>1, <3>2
  <2>6. QED  BY <2>4, <2>5
<1>3. chosen = Body(chosen)
  BY <1>2
<1> HIDE DEF chosen
<1>4. \A i \in 0..n : chosen[i] = IF i = 0 THEN <<>> ELSE Add(i, chosen[i - 1])
  <2>1. \A i \in 0..n : Body(chosen)[i] = IF i = 0 THEN <<>> ELSE Add(i, chosen[i - 1])
    OBVIOUS
  <2> HIDE DEF Body
  <2>2. QED  BY <1>3, <2>1
<1>5. chosen[0] = <<>> /\ \A i \in 1..n : i - 1 \in 0..n /\ chosen[i] = Add(i, chosen[i - 1])
  <2> HIDE DEF Add
  <2>1. QED  BY <1>1, <1>4
<1> DEFINE G == {m \in 0..n : chosen[m] \in Seq(X) /\ Keeps(chosen[m], order, m, S)}
<1>6. 0 \in G
  <2>1. <<>> \in Seq(X) /\ 0 \in 0..n
    BY <1>1
  <2>2. Keeps(<<>>, order, 0, S)
    BY NoValues DEF Keeps
  <2>3. QED  BY <1>5, <2>1, <2>2
<1>7. ASSUME NEW m \in 1..n, m - 1 \in G
      PROVE  m \in G
  <2>1. chosen[m] = Add(m, chosen[m - 1])
    BY <1>5
  <2>2. chosen[m - 1] \in Seq(X) /\ Keeps(chosen[m - 1], order, m - 1, S)
    BY <1>7
  <2>3. Add(m, chosen[m - 1]) \in Seq(X)
    BY <2>2
  <2>4. Keeps(Add(m, chosen[m - 1]), order, m, S)
    BY <2>2, KeepsOne
  <2> HIDE DEF Add
  <2>5. QED  BY <2>1, <2>3, <2>4
<1> HIDE DEF G, n
<1>8. \A m \in 0..n : m \in G
  BY <1>1, <1>6, <1>7, Stepwise
<1>9. n \in 0..n
  BY <1>1
<1>10. chosen[n] \in Seq(X) /\ Keeps(chosen[n], order, n, S)
  BY <1>8, <1>9 DEF G
<1>11. QED  BY <1>1, <1>10 DEF n

-----------------------------------------------------------------------------
(* Manifests.                                                              *)

(* What is in a manifest.                                                  *)
LEMMA ManifestFacts ==
  ASSUME NEW Names, NEW Sums, NEW steps, Manifest(steps, Names, Sums)
  PROVE  /\ Len(steps) \in Nat /\ DOMAIN steps = 1..Len(steps)
         /\ IdsOf(steps) \subseteq NamedIn(steps)
         /\ \A x \in IdsOf(steps) : /\ StepOf(steps, x).deps \in Seq(NamedIn(steps))
                                    /\ DepsOf(steps, x) \subseteq NamedIn(steps)
         /\ IdSeq(steps) \in Seq(IdsOf(steps)) /\ Len(IdSeq(steps)) = Len(steps)
         /\ ToSet(IdSeq(steps)) = IdsOf(steps)
<1> DEFINE Step == [id : Names, deps : Seq(Names), down : BOOLEAN, sum : Sums]
<1>1. steps \in Seq(Step)
  BY DEF Manifest
<1>2. /\ Len(steps) \in Nat /\ DOMAIN steps = 1..Len(steps)
      /\ ToSet(steps) = {steps[i] : i \in 1..Len(steps)}
      /\ \A i \in 1..Len(steps) : steps[i] \in Step
  <2> HIDE DEF Step
  <2>1. QED  BY <1>1, ValuesOf
<1>3. IdsOf(steps) \subseteq NamedIn(steps)
  BY DEF NamedIn
<1>4. ASSUME NEW x \in IdsOf(steps)
      PROVE  /\ StepOf(steps, x).deps \in Seq(NamedIn(steps))
             /\ DepsOf(steps, x) \subseteq NamedIn(steps)
  <2>1. PICK i \in 1..Len(steps) : StepOf(steps, x) = steps[i]
    <3>1. \E s \in ToSet(steps) : s.id = x
      BY <1>2 DEF IdsOf
    <3>2. StepOf(steps, x) \in ToSet(steps)
      BY <3>1 DEF StepOf
    <3>3. QED  BY <3>2, <1>2
  <2> DEFINE d == steps[i].deps
  <2>2. d \in Seq(Names) /\ ToSet(d) \subseteq NamedIn(steps)
    BY <1>2 DEF NamedIn
  <2> HIDE DEF d
  <2>3. d \in Seq(NamedIn(steps))
    <3>1. /\ Len(d) \in Nat /\ \A j \in 1..Len(d) : d[j] \in NamedIn(steps)
          /\ d = [j \in 1..Len(d) |-> d[j]]
      <4>1. Len(d) \in Nat /\ ToSet(d) = {d[j] : j \in 1..Len(d)}
        BY <2>2, ValuesOf
      <4>2. d = [j \in 1..Len(d) |-> d[j]]
        BY <2>2
      <4>3. QED  BY <4>1, <4>2, <2>2
    <3>2. QED  BY <3>1
  <2>4. QED  BY <2>1, <2>2, <2>3 DEF DepsOf, d
<1>5. IdSeq(steps) \in Seq(IdsOf(steps)) /\ Len(IdSeq(steps)) = Len(steps)
  BY <1>2 DEF IdSeq, IdsOf
<1>6. ToSet(IdSeq(steps)) = IdsOf(steps)
  <2>1. ToSet(IdSeq(steps)) = {IdSeq(steps)[i] : i \in 1..Len(steps)}
    BY <1>5, ValuesOf
  <2>2. \A i \in 1..Len(steps) : IdSeq(steps)[i] = steps[i].id
    BY <1>2 DEF IdSeq
  <2>3. QED  BY <2>1, <2>2, <1>2 DEF IdsOf
<1>7. QED  BY <1>2, <1>3, <1>4, <1>5, <1>6

(* There are as many ids as steps just if no two steps have the same.      *)
LEMMA ManyIds ==
  ASSUME NEW Names, NEW Sums, NEW steps, Manifest(steps, Names, Sums)
  PROVE  /\ IsFiniteSet(IdsOf(steps)) /\ Cardinality(IdsOf(steps)) \in Nat
         /\ Cardinality(IdsOf(steps)) <= Len(steps)
         /\ Cardinality(IdsOf(steps)) = Len(steps) <=>
              \A i, j \in DOMAIN steps : steps[i].id = steps[j].id => i = j
<1> DEFINE n == Len(steps)
           f == [i \in 1..n |-> steps[i].id]
<1>1. n \in Nat /\ DOMAIN steps = 1..n
  BY ManifestFacts
<1>2. IsFiniteSet(1..n) /\ Cardinality(1..n) = n
  <2> HIDE DEF n
  <2>1. 1 \in Int /\ n \in Int
    BY <1>1
  <2>2. IsFiniteSet(1..n) /\ Cardinality(1..n) = IF 1 > n THEN 0 ELSE n - 1 + 1
    BY <2>1, FS_Interval, Zenon
  <2>3. QED  BY <1>1, <2>2
<1>3. f \in Surjection(1..n, IdsOf(steps))
  BY <1>1 DEF IdsOf, Surjection
<1> HIDE DEF n
<1>4. IsFiniteSet(IdsOf(steps)) /\ Cardinality(IdsOf(steps)) <= n
  BY <1>2, <1>3, FS_Surjection
<1>5. Cardinality(IdsOf(steps)) \in Nat
  BY <1>4, FS_CardinalityType
<1>6. ASSUME \A i, j \in 1..n : steps[i].id = steps[j].id => i = j
      PROVE  Cardinality(IdsOf(steps)) = n
  <2>1. f \in Injection(1..n, IdsOf(steps))
    BY <1>3, <1>6 DEF Injection, Surjection, IsInjective
  <2> HIDE DEF f
  <2>2. QED  BY <2>1, <1>2, <1>3, FS_Surjection
<1>7. ASSUME Cardinality(IdsOf(steps)) = n
      PROVE  \A i, j \in 1..n : steps[i].id = steps[j].id => i = j
  <2>1. f \in Injection(1..n, IdsOf(steps))
    <3> HIDE DEF f
    <3>1. QED  BY <1>2, <1>3, <1>7, FS_Surjection
  <2>2. \A i \in 1..n : f[i] = steps[i].id
    OBVIOUS
  <2> HIDE DEF f
  <2>3. QED  BY <2>1, <2>2 DEF Injection, IsInjective
<1>8. QED  BY <1>1, <1>4, <1>5, <1>6, <1>7 DEF n

-----------------------------------------------------------------------------
(* The planner.  Visiting what is in X makes w of v.                       *)

Fine(steps, v) ==
  /\ v \in Visits(steps) /\ v.error = "none"
  /\ v.visiting \subseteq IdsOf(steps)
  /\ InOrder(steps, v.plan)
  /\ ToSet(v.plan) \cap v.visiting = {}

Justified(steps, error) ==
  \/ error = "unknown" /\ SomeUnknown(steps)
  \/ error = "cycle" /\ SomeCycle(steps)

Outcome(steps, X, v, w) ==
  /\ w \in Visits(steps)
  /\ \/ Justified(steps, w.error)
     \/ /\ Fine(steps, w) /\ w.visiting = v.visiting
        /\ ToSet(v.plan) \cup X \subseteq ToSet(w.plan)

\* x may be visited next, with so much depth left.
Ready(steps, x, v, n) ==
  /\ Fine(steps, v) /\ x \in NamedIn(steps)
  /\ \A y \in v.visiting : DependsOn(steps, y, x)
  /\ Cardinality(IdsOf(steps) \ v.visiting) < n

\* What a call of visit() does, at a depth.
Visitor(steps, n, visit) ==
  /\ visit \in [NamedIn(steps) -> [Visits(steps) -> Visits(steps)]]
  /\ \A x \in NamedIn(steps), v \in Visits(steps) :
       /\ v.error # "none" => visit[x][v] = v
       /\ Ready(steps, x, v, n) => Outcome(steps, {x}, v, visit[x][v])

(* The errors that visit() raises.                                         *)
LEMMA JustifiedError ==
  ASSUME NEW steps, NEW error, Justified(steps, error)
  PROVE  error \in {"unknown", "cycle"}
BY DEF Justified

(* A loop over what may be visited.                                        *)
LEMMA LoopOutcome ==
  ASSUME NEW steps, NEW n, NEW visit, Visitor(steps, n, visit),
         NEW s \in Seq(NamedIn(steps)), NEW v, Fine(steps, v),
         \A i \in 1..Len(s), y \in v.visiting : DependsOn(steps, y, s[i]),
         Cardinality(IdsOf(steps) \ v.visiting) < n
  PROVE  Outcome(steps, ToSet(s), v, Each(visit, s, v))
<1> DEFINE T == Visits(steps)
           X(i) == {s[j] : j \in 1..i}
<1>1. /\ visit \in [NamedIn(steps) -> [T -> T]] /\ v \in T
      /\ Len(s) \in Nat /\ \A i \in 1..Len(s) : s[i] \in NamedIn(steps)
      /\ ToSet(s) = X(Len(s))
  BY ValuesOf DEF Visitor, Fine
<1>2. PICK after \in [0..Len(s) -> T] :
        Each(visit, s, v) = after[Len(s)] /\ Passes(after, visit, s, v)
  <2> HIDE DEF T
  <2>1. QED  BY <1>1, EachSteps
<1> DEFINE G == {i \in 0..Len(s) : Outcome(steps, X(i), v, after[i])}
<1>3. 0 \in G
  BY <1>1, <1>2 DEF Outcome, Passes
<1>4. ASSUME NEW i \in 1..Len(s), i - 1 \in G
      PROVE  i \in G
  <2> DEFINE u == after[i - 1]
             w == after[i]
             x == s[i]
  <2>1. /\ u \in T /\ x \in NamedIn(steps) /\ w = visit[x][u]
        /\ Outcome(steps, X(i - 1), v, u)
    BY <1>1, <1>2, <1>4 DEF Passes
  <2>2. X(i) = X(i - 1) \cup {x}
    OBVIOUS
  <2>3. \A y \in v.visiting : DependsOn(steps, y, x)
    OBVIOUS
  <2> HIDE DEF u, w, x, X
  <2>4. CASE Justified(steps, u.error)
    <3>1. w = u
      BY <2>1, <2>4, JustifiedError DEF Visitor
    <3>2. QED  BY <2>1, <2>4, <3>1 DEF Outcome, w
  <2>5. CASE ~Justified(steps, u.error)
    <3>1. /\ Fine(steps, u) /\ u.visiting = v.visiting
          /\ ToSet(v.plan) \cup X(i - 1) \subseteq ToSet(u.plan)
      BY <2>1, <2>5 DEF Outcome
    <3>2. Ready(steps, x, u, n)
      BY <2>1, <2>3, <3>1 DEF Ready
    <3>3. Outcome(steps, {x}, u, w)
      BY <2>1, <3>2 DEF Visitor
    <3>4. Outcome(steps, X(i), v, w)
      BY <2>2, <3>1, <3>3 DEF Outcome
    <3>5. QED  BY <3>4 DEF w
  <2>6. QED  BY <2>4, <2>5
<1> HIDE DEF G, X
<1>5. \A i \in 0..Len(s) : i \in G
  BY <1>1, <1>3, <1>4, Stepwise
<1>6. Outcome(steps, X(Len(s)), v, after[Len(s)])
  BY <1>1, <1>5 DEF G
<1>7. QED  BY <1>1, <1>2, <1>6

(* Reaching further.                                                       *)
LEMMA Reached ==
  ASSUME NEW Names, NEW Sums, NEW steps, Manifest(steps, Names, Sums),
         NEW x \in IdsOf(steps), NEW d \in DepsOf(steps, x)
  PROVE  /\ DependsOn(steps, x, d)
         /\ \A y : DependsOn(steps, y, x) => DependsOn(steps, y, d)
BY DEF DependsOn

(* A plan with one more step.                                              *)
LEMMA InOrderGrows ==
  ASSUME NEW steps, NEW plan, NEW x \in IdsOf(steps), InOrder(steps, plan),
         x \notin ToSet(plan), DepsOf(steps, x) \subseteq ToSet(plan)
  PROVE  InOrder(steps, Append(plan, x))
<1> DEFINE q == Append(plan, x)
           n == Len(plan)
<1>1. /\ plan \in Seq(IdsOf(steps)) /\ n \in Nat /\ ToSet(plan) = {plan[i] : i \in 1..n}
      /\ q \in Seq(IdsOf(steps)) /\ Len(q) = n + 1 /\ q[n + 1] = x
      /\ \A i \in 1..n : q[i] = plan[i]
  BY Appended, ValuesOf DEF InOrder
<1> HIDE DEF q, n
<1>2. \A i, j \in 1..n : plan[i] = plan[j] => i = j
  BY DEF InOrder, n
<1>3. \A i, j \in 1..(n + 1) : q[i] = q[j] => i = j
  <2>1. \A i \in 1..n : q[i] # x
    BY <1>1
  <2>2. \A i \in 1..(n + 1) : i \in 1..n \/ i = n + 1
    BY <1>1
  <2>3. QED  BY <1>1, <1>2, <2>1, <2>2
<1>4. ASSUME NEW i \in 1..(n + 1)
      PROVE  DepsOf(steps, q[i]) \subseteq {q[j] : j \in 1..(i - 1)}
  <2>1. \A j \in 1..(i - 1) : j \in 1..n
    BY <1>1
  <2>2. {q[j] : j \in 1..(i - 1)} = {plan[j] : j \in 1..(i - 1)}
    BY <1>1, <2>1
  <2>3. CASE i = n + 1
    <3>1. i - 1 = n
      BY <1>1, <2>3
    <3>2. QED  BY <1>1, <2>2, <2>3, <3>1
  <2>4. CASE i # n + 1
    <3>1. i \in 1..n
      BY <1>1, <2>4
    <3>2. QED  BY <1>1, <2>2, <3>1 DEF InOrder, n
  <2>5. QED  BY <2>3, <2>4
<1>5. QED  BY <1>1, <1>3, <1>4 DEF InOrder, q

(* A visit of what is a visit one level down.                              *)
LEMMA VisitTyped ==
  ASSUME NEW Names, NEW Sums, NEW steps, Manifest(steps, Names, Sums), NEW visit,
         visit \in [NamedIn(steps) -> [Visits(steps) -> Visits(steps)]]
  PROVE  Visit(steps, visit) \in [NamedIn(steps) -> [Visits(steps) -> Visits(steps)]]
<1> DEFINE T == Visits(steps)
           Met(v, x) == [v EXCEPT !.visiting = @ \cup {x}]
           One(x, v) == IF v.error # "none" \/ x \in ToSet(v.plan) THEN v
                        ELSE IF x \notin IdsOf(steps) THEN [v EXCEPT !.error = "unknown"]
                        ELSE IF x \in v.visiting THEN [v EXCEPT !.error = "cycle"]
                        ELSE Placed(x, Each(visit, StepOf(steps, x).deps, Met(v, x)))
<1>1. ASSUME NEW x \in NamedIn(steps), NEW v \in T
      PROVE  One(x, v) \in T
  <2>1. v \in T /\ [v EXCEPT !.error = "unknown"] \in T /\ [v EXCEPT !.error = "cycle"] \in T
    BY DEF Visits
  <2>2. ASSUME x \in IdsOf(steps)
        PROVE  Placed(x, Each(visit, StepOf(steps, x).deps, Met(v, x))) \in T
    <3>1. Met(v, x) \in T
      BY DEF Visits
    <3>2. StepOf(steps, x).deps \in Seq(NamedIn(steps))
      BY <2>2, ManifestFacts
    <3> DEFINE u == Each(visit, StepOf(steps, x).deps, Met(v, x))
    <3>3. u \in T
      <4>1. visit \in [NamedIn(steps) -> [T -> T]]
        OBVIOUS
      <4> HIDE DEF T, Met, One
      <4>2. QED  BY <3>1, <3>2, <4>1, EachTyped
    <3> HIDE DEF u
    <3>4. Placed(x, u) \in T
      <4>1. /\ Append(u.plan, x) \in Seq(NamedIn(steps)) /\ u.visiting \ {x} \in SUBSET NamedIn(steps)
            /\ u = [plan |-> u.plan, visiting |-> u.visiting, error |-> u.error]
        BY <3>3 DEF Visits
      <4>2. QED  BY <3>3, <4>1 DEF Placed, Visits
    <3>5. QED  BY <3>4 DEF u
  <2> HIDE DEF T, Met
  <2>3. QED  BY <2>1, <2>2
<1>2. Visit(steps, visit) = [x \in NamedIn(steps) |-> [v \in T |-> One(x, v)]]
  BY DEF Visit
<1> HIDE DEF One, T
<1>3. [x \in NamedIn(steps) |-> [v \in T |-> One(x, v)]] \in [NamedIn(steps) -> [T -> T]]
  BY <1>1
<1>4. QED  BY <1>2, <1>3 DEF T

(* The table of visit() by depth.                                          *)
LEMMA VisitDownSteps ==
  ASSUME NEW Names, NEW Sums, NEW steps, Manifest(steps, Names, Sums)
  PROVE  /\ VisitDown(steps, 0) = TooDeep(steps)
         /\ \A n \in Nat : /\ VisitDown(steps, n + 1) = Visit(steps, VisitDown(steps, n))
                          /\ VisitDown(steps, n) \in [NamedIn(steps) -> [Visits(steps) -> Visits(steps)]]
<1> DEFINE V == [NamedIn(steps) -> [Visits(steps) -> Visits(steps)]]
           Body(g) == [d \in Nat |-> IF d = 0 THEN TooDeep(steps) ELSE Visit(steps, g[d - 1])]
           chosen == CHOOSE g : g = Body(g)
<1>1. \A n : VisitDown(steps, n) = chosen[n]
  BY DEF VisitDown
<1>2. TooDeep(steps) \in V
  <2>1. \A v \in Visits(steps) :
          (IF v.error # "none" THEN v ELSE [v EXCEPT !.error = "depth"]) \in Visits(steps)
    BY DEF Visits
  <2>2. QED  BY <2>1 DEF TooDeep
<1>3. \A f \in V : Visit(steps, f) \in V
  BY VisitTyped
<1> HIDE DEF V
<1>4. \E g : g = Body(g)
  <2> DEFINE H == [d \in Nat |-> [f \in V |-> Visit(steps, f)]]
  <2>1. H \in [Nat -> [V -> V]] /\ \A d \in Nat, f \in V : H[d][f] = Visit(steps, f)
    BY <1>3
  <2> HIDE DEF H
  <2>2. PICK g \in [Nat -> V] : Iterates(g, TooDeep(steps), H)
    BY <1>2, <2>1, Iteration
  <2>3. ASSUME NEW d \in Nat
        PROVE  g[d] = IF d = 0 THEN TooDeep(steps) ELSE Visit(steps, g[d - 1])
    <3>1. CASE d = 0
      BY <2>2, <3>1 DEF Iterates
    <3>2. CASE d # 0
      <4>1. d - 1 \in Nat /\ (d - 1) + 1 = d
        BY <3>2
      <4>2. g[(d - 1) + 1] = H[(d - 1) + 1][g[d - 1]] /\ g[d - 1] \in V
        BY <2>2, <4>1 DEF Iterates
      <4>3. QED  BY <2>1, <3>2, <4>1, <4>2
    <3>3. QED  BY <3>1, <3>2
  <2>4. QED  BY <2>2, <2>3
<1>5. chosen = Body(chosen)
  BY <1>4
<1> HIDE DEF chosen
<1>6. \A d \in Nat : chosen[d] = IF d = 0 THEN TooDeep(steps) ELSE Visit(steps, chosen[d - 1])
  <2>1. \A d \in Nat : Body(chosen)[d] = IF d = 0 THEN TooDeep(steps) ELSE Visit(steps, chosen[d - 1])
    OBVIOUS
  <2> HIDE DEF Body
  <2>2. QED  BY <1>5, <2>1
<1>7. chosen[0] = TooDeep(steps)
  BY <1>6
<1>8. \A n \in Nat : chosen[n + 1] = Visit(steps, chosen[n])
  <2> SUFFICES ASSUME NEW n \in Nat
               PROVE  chosen[n + 1] = Visit(steps, chosen[n])
    OBVIOUS
  <2>1. n + 1 \in Nat /\ n + 1 # 0 /\ (n + 1) - 1 = n
    OBVIOUS
  <2>2. chosen[n + 1] = Visit(steps, chosen[(n + 1) - 1])
    BY <1>6, <2>1
  <2>3. QED  BY <2>1, <2>2
<1>9. \A n \in Nat : chosen[n] \in V
  <2> DEFINE S == {n \in Nat : chosen[n] \in V}
  <2>1. 0 \in S /\ \A n \in Nat : n \in S => n + 1 \in S
    BY <1>2, <1>3, <1>7, <1>8
  <2> HIDE DEF S
  <2>2. \A n \in Nat : n \in S
    BY <2>1, Induction
  <2>3. QED  BY <2>2 DEF S
<1>10. QED  BY <1>1, <1>7, <1>8, <1>9 DEF V

(* One more call of visit(), at one more depth.                            *)
LEMMA VisitsMore ==
  ASSUME NEW Names, NEW Sums, NEW steps, Manifest(steps, Names, Sums),
         NEW n \in Nat, NEW visit, Visitor(steps, n, visit)
  PROVE  Visitor(steps, n + 1, Visit(steps, visit))
<1> DEFINE Ids == IdsOf(steps)
           T == Visits(steps)
           V == Visit(steps, visit)
<1>1. V \in [NamedIn(steps) -> [T -> T]]
  BY VisitTyped DEF Visitor
<1>2. ASSUME NEW x \in NamedIn(steps), NEW v \in T, v.error # "none"
      PROVE  V[x][v] = v
  BY <1>2 DEF Visit
<1>3. ASSUME NEW x \in NamedIn(steps), NEW v \in T, Ready(steps, x, v, n + 1)
      PROVE  Outcome(steps, {x}, v, V[x][v])
  <2> DEFINE deps == StepOf(steps, x).deps
             v0 == [v EXCEPT !.visiting = @ \cup {x}]
             u == Each(visit, deps, v0)
  <2>1. /\ Fine(steps, v) /\ \A y \in v.visiting : DependsOn(steps, y, x)
        /\ Cardinality(Ids \ v.visiting) < n + 1
        /\ v.error = "none" /\ v.visiting \subseteq Ids /\ Ids \subseteq NamedIn(steps)
        /\ v.plan \in Seq(Ids) /\ ToSet(v.plan) \subseteq Ids
    BY <1>3, ManifestFacts, ValuesOf DEF Ready, Fine, InOrder
  <2>2. V[x][v] = IF x \in ToSet(v.plan) THEN v
                  ELSE IF x \notin Ids THEN [v EXCEPT !.error = "unknown"]
                  ELSE IF x \in v.visiting THEN [v EXCEPT !.error = "cycle"]
                  ELSE Placed(x, u)
    BY <2>1 DEF Visit
  <2> HIDE DEF u, V
  <2>3. CASE x \in ToSet(v.plan)
    BY <2>1, <2>2, <2>3 DEF Outcome
  <2>4. CASE x \notin ToSet(v.plan) /\ x \notin Ids
    <3>1. SomeUnknown(steps)
      BY <2>4 DEF SomeUnknown
    <3>2. [v EXCEPT !.error = "unknown"] \in T /\ [v EXCEPT !.error = "unknown"].error = "unknown"
      BY DEF Visits
    <3>3. QED  BY <2>2, <2>4, <3>1, <3>2 DEF Outcome, Justified
  <2>5. CASE x \notin ToSet(v.plan) /\ x \in Ids /\ x \in v.visiting
    <3>1. SomeCycle(steps)
      BY <2>1, <2>5 DEF SomeCycle
    <3>2. [v EXCEPT !.error = "cycle"] \in T /\ [v EXCEPT !.error = "cycle"].error = "cycle"
      BY DEF Visits
    <3>3. QED  BY <2>2, <2>5, <3>1, <3>2 DEF Outcome, Justified
  <2>6. CASE x \notin ToSet(v.plan) /\ x \in Ids /\ x \notin v.visiting
    <3>1. /\ v0 \in T /\ v0.error = "none" /\ v0.visiting = v.visiting \cup {x}
          /\ v0.plan = v.plan
      BY <2>1 DEF Visits
    <3>2. deps \in Seq(NamedIn(steps)) /\ ToSet(deps) = DepsOf(steps, x)
      BY <2>6, ManifestFacts DEF DepsOf
    <3> HIDE DEF deps, v0
    <3>3. Fine(steps, v0)
      BY <2>1, <2>6, <3>1 DEF Fine
    <3>4. ASSUME NEW i \in 1..Len(deps), NEW y \in v0.visiting
          PROVE  DependsOn(steps, y, deps[i])
      <4>1. deps[i] \in DepsOf(steps, x)
        BY <3>2, ValuesOf
      <4>2. QED  BY <2>1, <2>6, <3>1, <4>1, Reached
    <3>5. Cardinality(Ids \ v0.visiting) < n
      <4> DEFINE S == Ids \ v.visiting
      <4>1. IsFiniteSet(Ids)
        BY ManyIds
      <4>2. IsFiniteSet(S) /\ x \in S
        BY <4>1, <2>6, FS_Subset
      <4>3. Cardinality(S \ {x}) = Cardinality(S) - 1 /\ Cardinality(S) \in Nat
        BY <4>2, FS_RemoveElement, FS_CardinalityType
      <4>4. Ids \ v0.visiting = S \ {x}
        BY <3>1
      <4>5. Cardinality(S) < n + 1
        BY <2>1
      <4> HIDE DEF S, Ids
      <4>6. QED  BY <4>3, <4>4, <4>5
    <3>6. Outcome(steps, DepsOf(steps, x), v0, u)
      BY <3>2, <3>3, <3>4, <3>5, LoopOutcome DEF u
    <3>7. CASE Justified(steps, u.error)
      <4>1. Placed(x, u) = u
        BY <3>7, JustifiedError DEF Placed
      <4>2. QED  BY <2>2, <2>6, <3>6, <3>7, <4>1 DEF Outcome
    <3>8. CASE ~Justified(steps, u.error)
      <4>1. /\ Fine(steps, u) /\ u.visiting = v.visiting \cup {x}
            /\ ToSet(v.plan) \cup DepsOf(steps, x) \subseteq ToSet(u.plan)
        BY <3>1, <3>6, <3>8 DEF Outcome
      <4> DEFINE w == Placed(x, u)
      <4>2. /\ u \in T /\ u.error = "none" /\ InOrder(steps, u.plan)
            /\ u.plan \in Seq(Ids) /\ ToSet(u.plan) \cap u.visiting = {}
        BY <4>1 DEF Fine, InOrder
      <4>3. /\ w.error = "none" /\ w.visiting = v.visiting /\ w.plan = Append(u.plan, x)
            /\ w = [plan |-> w.plan, visiting |-> w.visiting, error |-> w.error]
        <5>1. u = [plan |-> u.plan, visiting |-> u.visiting, error |-> u.error]
          BY <4>2 DEF Visits
        <5>2. w = [u EXCEPT !.visiting = @ \ {x}, !.plan = Append(@, x)]
          BY <4>2 DEF Placed
        <5>3. /\ w.error = "none" /\ w.plan = Append(u.plan, x)
              /\ w.visiting = u.visiting \ {x}
              /\ w = [plan |-> w.plan, visiting |-> w.visiting, error |-> w.error]
          BY <4>2, <5>1, <5>2
        <5> HIDE DEF w
        <5>4. QED  BY <2>6, <4>1, <5>3
      <4> HIDE DEF w
      <4>4. ToSet(w.plan) = ToSet(u.plan) \cup {x}
        BY <2>6, <4>2, <4>3, Appended
      <4>5. InOrder(steps, w.plan)
        BY <2>6, <4>1, <4>2, <4>3, InOrderGrows
      <4>6. w \in T
        <5>1. w.plan \in Seq(NamedIn(steps))
          BY <2>1, <4>5 DEF InOrder
        <5>2. w.visiting \subseteq NamedIn(steps)
          BY <2>1, <4>3
        <5>3. QED  BY <4>3, <5>1, <5>2 DEF Visits
      <4>7. ToSet(w.plan) \cap w.visiting = {}
        BY <2>6, <4>1, <4>2, <4>3, <4>4
      <4>8. Fine(steps, w)
        BY <2>1, <4>3, <4>5, <4>6, <4>7 DEF Fine
      <4>9. ToSet(v.plan) \cup {x} \subseteq ToSet(w.plan)
        BY <4>1, <4>4
      <4>10. V[x][v] = w
        BY <2>2, <2>6 DEF w
      <4>11. QED  BY <4>3, <4>6, <4>8, <4>9, <4>10 DEF Outcome
    <3>9. QED  BY <3>7, <3>8
  <2>7. QED  BY <2>3, <2>4, <2>5, <2>6
<1> HIDE DEF V
<1>4. QED  BY <1>1, <1>2, <1>3 DEF Visitor, V

(* So at every depth.                                                      *)
LEMMA Visited ==
  ASSUME NEW Names, NEW Sums, NEW steps, Manifest(steps, Names, Sums)
  PROVE  \A n \in Nat : Visitor(steps, n, VisitDown(steps, n))
<1> DEFINE S == {n \in Nat : Visitor(steps, n, VisitDown(steps, n))}
<1>1. 0 \in S
  <2>1. VisitDown(steps, 0) = TooDeep(steps)
    BY VisitDownSteps
  <2>2. TooDeep(steps) \in [NamedIn(steps) -> [Visits(steps) -> Visits(steps)]]
    BY <2>1, VisitDownSteps
  <2>3. \A x \in NamedIn(steps), v \in Visits(steps) :
          v.error # "none" => TooDeep(steps)[x][v] = v
    BY DEF TooDeep
  <2>4. ASSUME NEW x \in NamedIn(steps), NEW v \in Visits(steps), Ready(steps, x, v, 0)
        PROVE  FALSE
    <3>1. IsFiniteSet(IdsOf(steps) \ v.visiting)
      BY ManyIds, FS_Subset
    <3>2. Cardinality(IdsOf(steps) \ v.visiting) \in Nat
      BY <3>1, FS_CardinalityType
    <3>3. QED  BY <2>4, <3>2 DEF Ready
  <2>5. QED  BY <2>1, <2>2, <2>3, <2>4 DEF Visitor
<1>2. \A n \in Nat : n \in S => n + 1 \in S
  <2> SUFFICES ASSUME NEW n \in Nat, n \in S
               PROVE  n + 1 \in S
    OBVIOUS
  <2>1. VisitDown(steps, n + 1) = Visit(steps, VisitDown(steps, n))
    BY VisitDownSteps
  <2>2. Visitor(steps, n + 1, Visit(steps, VisitDown(steps, n)))
    BY VisitsMore
  <2>3. QED  BY <2>1, <2>2
<1> HIDE DEF S
<1>3. \A n \in Nat : n \in S
  BY <1>1, <1>2, Induction
<1>4. QED  BY <1>3 DEF S

-----------------------------------------------------------------------------
(* Orders.                                                                 *)

(* Without duplicates a step is found under its id.                        *)
LEMMA OnceEach ==
  ASSUME NEW Names, NEW Sums, NEW steps, Manifest(steps, Names, Sums),
         Cardinality(IdsOf(steps)) = Len(steps)
  PROVE  \A i \in DOMAIN steps : StepOf(steps, steps[i].id) = steps[i]
<1>1. \A i, j \in DOMAIN steps : steps[i].id = steps[j].id => i = j
  BY ManyIds
<1>2. ToSet(steps) = {steps[i] : i \in DOMAIN steps}
  BY Zenon DEF ToSet
<1>3. ASSUME NEW i \in DOMAIN steps
      PROVE  StepOf(steps, steps[i].id) = steps[i]
  <2>1. steps[i] \in ToSet(steps)
    BY <1>2
  <2>2. StepOf(steps, steps[i].id) \in ToSet(steps) /\ StepOf(steps, steps[i].id).id = steps[i].id
    BY <2>1 DEF StepOf
  <2>3. QED  BY <1>1, <1>2, <2>2
<1>4. QED  BY <1>3

(* What is named as a dependency is a step.                                *)
LEMMA NoneUnknown ==
  ASSUME NEW Names, NEW Sums, NEW steps, Manifest(steps, Names, Sums),
         Cardinality(IdsOf(steps)) = Len(steps),
         \A x \in IdsOf(steps) : DepsOf(steps, x) \subseteq IdsOf(steps)
  PROVE  ~SomeUnknown(steps)
<1>1. \A i \in DOMAIN steps : ToSet(steps[i].deps) \subseteq IdsOf(steps)
  <2>1. ASSUME NEW i \in DOMAIN steps
        PROVE  ToSet(steps[i].deps) \subseteq IdsOf(steps)
    <3>1. steps[i].id \in IdsOf(steps)
      BY DEF IdsOf
    <3>2. DepsOf(steps, steps[i].id) = ToSet(steps[i].deps)
      BY OnceEach DEF DepsOf
    <3>3. QED  BY <3>1, <3>2
  <2>2. QED  BY <2>1
<1>2. QED  BY <1>1 DEF SomeUnknown, NamedIn

(* Steps in order depend on none of themselves.                            *)
LEMMA NoneCyclic ==
  ASSUME NEW steps, NEW plan, InOrder(steps, plan), ToSet(plan) = IdsOf(steps)
  PROVE  ~SomeCycle(steps)
<1> SUFFICES ASSUME NEW x \in IdsOf(steps), DependsOn(steps, x, x)
             PROVE  FALSE
  BY DEF SomeCycle
<1>1. /\ Len(plan) \in Nat /\ IdsOf(steps) = {plan[i] : i \in 1..Len(plan)}
      /\ \A i, j \in 1..Len(plan) : plan[i] = plan[j] => i = j
      /\ \A i \in 1..Len(plan) : DepsOf(steps, plan[i]) \subseteq {plan[j] : j \in 1..(i - 1)}
  BY ValuesOf DEF InOrder
<1>2. PICK i \in 1..Len(plan) : x = plan[i]
  BY <1>1
<1> DEFINE S == {plan[j] : j \in 1..(i - 1)}
<1>3. DepsOf(steps, x) \subseteq S
  BY <1>1, <1>2
<1>4. S \in SUBSET NamedIn(steps)
  <2>1. \A j \in 1..(i - 1) : j \in 1..Len(plan)
    BY <1>1
  <2>2. QED  BY <1>1, <2>1 DEF NamedIn
<1>5. ASSUME NEW z \in S
      PROVE  DepsOf(steps, z) \subseteq S
  <2>1. PICK j \in 1..(i - 1) : z = plan[j]
    OBVIOUS
  <2>2. j \in 1..Len(plan) /\ \A k \in 1..(j - 1) : k \in 1..(i - 1)
    BY <1>1, <2>1
  <2>3. DepsOf(steps, plan[j]) \subseteq {plan[k] : k \in 1..(j - 1)}
    BY <1>1, <2>2
  <2>4. {plan[k] : k \in 1..(j - 1)} \subseteq S
    BY <2>2
  <2> HIDE DEF S
  <2>5. QED  BY <2>1, <2>3, <2>4
<1>6. x \in S
  <2> HIDE DEF S
  <2>1. QED  BY <1>3, <1>4, <1>5 DEF DependsOn
<1>7. PICK j \in 1..(i - 1) : x = plan[j]
  BY <1>6
<1>8. j \in 1..Len(plan) /\ j # i
  BY <1>1, <1>2, <1>7
<1>9. QED  BY <1>1, <1>2, <1>7, <1>8

(* _ordered_steps has every step, each once and after its dependencies,    *)
(* and refuses a manifest only for a fault that it has: a duplicate id, an *)
(* unknown dependency or a cycle.                                          *)
THEOREM PlannerIsRight ==
  ASSUME NEW Names, NEW Sums, NEW steps, Manifest(steps, Names, Sums)
  PROVE  OrderIsRight(steps)
<1> DEFINE Ids == IdsOf(steps)
           n == Len(steps) + 1
           v == [plan |-> <<>>, visiting |-> {}, error |-> "none"]
           visited == Each(VisitDown(steps, n), IdSeq(steps), v)
<1>1. /\ Len(steps) \in Nat /\ Ids \subseteq NamedIn(steps)
      /\ IdSeq(steps) \in Seq(Ids) /\ ToSet(IdSeq(steps)) = Ids
      /\ \A x \in Ids : DepsOf(steps, x) \subseteq NamedIn(steps)
  BY ManifestFacts
<1>2. Order(steps) = IF Cardinality(Ids) # Len(steps) THEN Failure("duplicate")
                     ELSE IF visited.error # "none" THEN Failure(visited.error)
                     ELSE Success(visited.plan)
  BY DEF Order
<1>3. Fine(steps, v)
  <2>1. <<>> \in Seq(Ids) /\ <<>> \in Seq(NamedIn(steps)) /\ Len(<<>>) = 0 /\ ToSet(<<>>) = {}
    BY NoValues
  <2>2. InOrder(steps, <<>>)
    BY <2>1 DEF InOrder
  <2>3. QED  BY <2>1, <2>2 DEF Fine, Visits
<1>4. Visitor(steps, n, VisitDown(steps, n))
  BY <1>1, Visited
<1>5. IdSeq(steps) \in Seq(NamedIn(steps))
  BY <1>1
<1>6. v.visiting = {} /\ Cardinality(Ids \ v.visiting) < n
  <2>1. Cardinality(Ids) \in Nat /\ Cardinality(Ids) <= Len(steps)
    BY ManyIds
  <2>2. Ids \ v.visiting = Ids
    OBVIOUS
  <2> HIDE DEF Ids, v
  <2>3. QED  BY <1>1, <2>1, <2>2 DEF v
<1>7. Outcome(steps, Ids, v, visited)
  <2> HIDE DEF v, n
  <2>1. QED  BY <1>1, <1>3, <1>4, <1>5, <1>6, LoopOutcome
<1> HIDE DEF visited
<1>8. CASE Cardinality(Ids) # Len(steps)
  <2>1. Order(steps).error = "duplicate"
    BY <1>2, <1>8 DEF Failure
  <2>2. \E i, j \in DOMAIN steps : i # j /\ steps[i].id = steps[j].id
    BY <1>8, ManyIds
  <2>3. QED  BY <2>1, <2>2 DEF OrderIsRight
<1>9. CASE Cardinality(Ids) = Len(steps) /\ Justified(steps, visited.error)
  <2>1. Order(steps).error = visited.error
    BY <1>2, <1>9, JustifiedError DEF Failure
  <2>2. QED  BY <1>9, <2>1 DEF OrderIsRight, Justified
<1>10. CASE Cardinality(Ids) = Len(steps) /\ ~Justified(steps, visited.error)
  <2> DEFINE plan == visited.plan
  <2>1. visited.error = "none" /\ InOrder(steps, plan) /\ Ids \subseteq ToSet(plan)
    BY <1>7, <1>10 DEF Outcome, Fine
  <2>2. Order(steps).error = "none" /\ Order(steps).plan = plan
    BY <1>2, <1>10, <2>1 DEF Success
  <2> HIDE DEF plan
  <2>3. ToSet(plan) = Ids /\ Ids = {plan[i] : i \in 1..Len(plan)} /\ Len(plan) \in Nat
    BY <2>1, ValuesOf DEF InOrder
  <2>4. ASSUME NEW x \in Ids
        PROVE  DepsOf(steps, x) \subseteq Ids
    <3>1. PICK i \in 1..Len(plan) : x = plan[i]
      BY <2>3
    <3>2. DepsOf(steps, x) \subseteq {plan[j] : j \in 1..(i - 1)}
      BY <2>1, <3>1 DEF InOrder
    <3>3. \A j \in 1..(i - 1) : j \in 1..Len(plan)
      BY <2>3, <3>1
    <3>4. QED  BY <2>3, <3>2, <3>3
  <2>5. ~SomeUnknown(steps)
    BY <1>10, <2>4, NoneUnknown
  <2>6. ~SomeCycle(steps)
    BY <2>1, <2>3, NoneCyclic
  <2>7. QED  BY <2>1, <2>2, <2>3, <2>5, <2>6 DEF OrderIsRight
<1>11. QED  BY <1>8, <1>9, <1>10

-----------------------------------------------------------------------------
(* Plans.                                                                  *)

\* p is the first m of order.
Begins(p, order, m) == Len(p) = m /\ \A i \in 1..m : p[i] = order[i]

(* The part of an order up to a target is its beginning.                   *)
LEMMA UpToBegins ==
  ASSUME NEW X, NEW order \in Seq(X), NEW x
  PROVE  UpTo(order, x) \in Seq(X) /\ \E m \in 0..Len(order) : Begins(UpTo(order, x), order, m)
<1>1. Len(order) \in Nat /\ DOMAIN order = 1..Len(order) /\ ToSet(order) = {order[i] : i \in 1..Len(order)}
  BY ValuesOf
<1>2. CASE x \notin ToSet(order)
  <2>1. UpTo(order, x) = order /\ Len(order) \in 0..Len(order)
    BY <1>1, <1>2 DEF UpTo
  <2>2. QED  BY <2>1 DEF Begins
<1>3. CASE x \in ToSet(order)
  <2> DEFINE m == CHOOSE i \in DOMAIN order : order[i] = x
  <2>1. m \in 1..Len(order)
    BY <1>1, <1>3
  <2>2. UpTo(order, x) = SubSeq(order, 1, m)
    BY <1>3 DEF UpTo
  <2> HIDE DEF m
  <2>3. /\ SubSeq(order, 1, m) \in Seq(X) /\ Len(SubSeq(order, 1, m)) = m
        /\ \A i \in 1..m : SubSeq(order, 1, m)[i] = order[i]
    BY <2>1
  <2>4. m \in 0..Len(order)
    BY <1>1, <2>1
  <2>5. QED  BY <2>2, <2>3, <2>4 DEF Begins
<1>4. QED  BY <1>2, <1>3

(* The order backwards.                                                    *)
LEMMA Reversed ==
  ASSUME NEW X, NEW order \in Seq(X)
  PROVE  /\ Reverse(order) \in Seq(X) /\ Len(Reverse(order)) = Len(order)
         /\ \A i \in 1..Len(order) : Reverse(order)[i] = order[Len(order) + 1 - i]
<1> DEFINE n == Len(order)
<1>1. Reverse(order) = [i \in 1..n |-> order[(n - i) + 1]]
  BY DEF Reverse
<1>2. \A i \in 1..n : (n - i) + 1 \in 1..n /\ (n - i) + 1 = n + 1 - i /\ order[(n - i) + 1] \in X
  OBVIOUS
<1>3. n \in Nat
  OBVIOUS
<1> HIDE DEF n
<1>4. QED  BY <1>1, <1>2, <1>3 DEF n

(* Of what comes once, what is kept comes once.                            *)
LEMMA KeptOnce ==
  ASSUME NEW X, NEW order \in Seq(X), NEW S, NEW p, NEW m \in 0..Len(order),
         Len(p) \in Nat, Keeps(p, order, m, S),
         \A i, j \in 1..m : order[i] = order[j] => i = j
  PROVE  \A i, j \in 1..Len(p) : p[i] = p[j] => i = j
<1>1. ASSUME NEW i \in 1..Len(p), NEW j \in 1..Len(p), p[i] = p[j], i < j
      PROVE  FALSE
  <2>1. PICK k \in 1..m : /\ p[j] = order[k]
                          /\ {p[l] : l \in 1..(j - 1)} = S \cap {order[l] : l \in 1..(k - 1)}
    BY DEF Keeps
  <2>2. i \in 1..(j - 1)
    BY <1>1
  <2>3. p[i] \in {order[l] : l \in 1..(k - 1)}
    BY <2>1, <2>2
  <2>4. PICK l \in 1..(k - 1) : p[i] = order[l]
    BY <2>3
  <2>5. l \in 1..m /\ l # k
    BY <2>1, <2>4
  <2>6. QED  BY <1>1, <2>1, <2>4, <2>5
<1>2. QED  BY <1>1

(* plan_upgrade: what an order has up to the target, without what is       *)
(* applied.                                                                *)
LEMMA UpgradeSound ==
  ASSUME NEW steps, NEW order, InOrder(steps, order), NEW applied, NEW target,
         PlanUpgrade(order, applied, target).error = "none"
  PROVE  PlanSound("upgrade", steps, applied, PlanUpgrade(order, applied, target).plan)
<1> DEFINE Ids == IdsOf(steps)
           first == UpTo(order, target)
           S == ToSet(order) \ applied
           plan == Within(first, S)
<1>1. /\ order \in Seq(Ids) /\ Len(order) \in Nat /\ ToSet(order) = {order[i] : i \in 1..Len(order)}
      /\ \A i, j \in 1..Len(order) : order[i] = order[j] => i = j
      /\ \A i \in 1..Len(order) : DepsOf(steps, order[i]) \subseteq {order[j] : j \in 1..(i - 1)}
  BY ValuesOf DEF InOrder
<1>2. PlanUpgrade(order, applied, target).plan = plan
  BY DEF PlanUpgrade, Failure, Success
<1> HIDE DEF Ids
<1>3. PICK m \in 0..Len(order) : first \in Seq(Ids) /\ Begins(first, order, m)
  BY <1>1, UpToBegins
<1>4. Len(first) = m /\ m \in Nat /\ \A i \in 1..m : first[i] = order[i] /\ i \in 1..Len(order)
  BY <1>1, <1>3 DEF Begins
<1> HIDE DEF first
<1>5. plan \in Seq(Ids) /\ Keeps(plan, first, m, S)
  BY <1>3, <1>4, WithinKeeps
<1> HIDE DEF S, plan
<1>6. Len(plan) \in Nat /\ ToSet(plan) = {plan[i] : i \in 1..Len(plan)}
  BY <1>5, ValuesOf
<1>7. \A i, j \in 1..Len(plan) : plan[i] = plan[j] => i = j
  <2>1. \A i, j \in 1..m : first[i] = first[j] => i = j
    BY <1>1, <1>4
  <2>2. m \in 0..Len(first)
    BY <1>4
  <2>3. QED  BY <1>3, <1>5, <1>6, <2>1, <2>2, KeptOnce
<1>8. \A i \in 1..Len(plan) : plan[i] \notin applied
  <2>1. ToSet(plan) \subseteq S
    BY <1>5 DEF Keeps
  <2>2. QED  BY <1>6, <2>1 DEF S
<1>9. ASSUME NEW i \in 1..Len(plan)
      PROVE  DepsOf(steps, plan[i]) \subseteq applied \cup {plan[j] : j \in 1..(i - 1)}
  <2>1. PICK k \in 1..m : /\ plan[i] = first[k]
          /\ {plan[j] : j \in 1..(i - 1)} = S \cap {first[j] : j \in 1..(k - 1)}
    BY <1>5 DEF Keeps
  <2>2. plan[i] = order[k] /\ k \in 1..Len(order) /\ \A j \in 1..(k - 1) : j \in 1..m
    BY <1>4, <2>1
  <2>3. {first[j] : j \in 1..(k - 1)} = {order[j] : j \in 1..(k - 1)}
    BY <1>4, <2>2
  <2>4. DepsOf(steps, plan[i]) \subseteq {order[j] : j \in 1..(k - 1)}
    BY <1>1, <2>2
  <2>5. {order[j] : j \in 1..(k - 1)} \subseteq ToSet(order)
    BY <1>1, <1>4, <2>2
  <2>6. QED  BY <2>1, <2>3, <2>4, <2>5 DEF S
<1>10. PlanSound("upgrade", steps, applied, plan)
  BY <1>5, <1>7, <1>8, <1>9 DEF PlanSound, Ids
<1>11. QED  BY <1>2, <1>10

(* plan_downgrade: what is applied after the target, in reverse order.     *)
LEMMA DowngradeSound ==
  ASSUME NEW steps, NEW order, InOrder(steps, order), ToSet(order) = IdsOf(steps),
         NEW applied \in SUBSET IdsOf(steps), NEW target,
         PlanDowngrade(order, applied, target).error = "none"
  PROVE  PlanSound("downgrade", steps, applied, PlanDowngrade(order, applied, target).plan)
<1> DEFINE Ids == IdsOf(steps)
           n == Len(order)
           back == Reverse(order)
           kept == IF target \in {NoStep, Base} THEN {} ELSE ToSet(UpTo(order, target))
           S == applied \ kept
           plan == Within(back, S)
<1>1. /\ order \in Seq(Ids) /\ n \in Nat /\ Ids = {order[i] : i \in 1..n}
      /\ \A i, j \in 1..n : order[i] = order[j] => i = j
      /\ \A i \in 1..n : DepsOf(steps, order[i]) \subseteq {order[j] : j \in 1..(i - 1)}
  BY ValuesOf DEF InOrder
<1>2. PlanDowngrade(order, applied, target).plan = plan
  BY DEF PlanDowngrade, Failure, Success
<1> HIDE DEF Ids
<1>3. PICK m \in 0..n : kept = {order[i] : i \in 1..m}
  <2>1. CASE target \in {NoStep, Base}
    <3>1. kept = {order[i] : i \in 1..0} /\ 0 \in 0..n
      BY <1>1, <2>1
    <3>2. QED  BY <3>1
  <2>2. CASE target \notin {NoStep, Base}
    <3> DEFINE first == UpTo(order, target)
    <3>1. kept = ToSet(first)
      BY <2>2
    <3> HIDE DEF first, n
    <3>2. PICK m \in 0..n : first \in Seq(Ids) /\ Begins(first, order, m)
      BY <1>1, UpToBegins DEF first, n
    <3>3. ToSet(first) = {first[i] : i \in 1..m}
      BY <3>2, ValuesOf DEF Begins
    <3>4. ToSet(first) = {order[i] : i \in 1..m}
      BY <3>2, <3>3 DEF Begins
    <3>5. QED  BY <3>1, <3>2, <3>4
  <2>3. QED  BY <2>1, <2>2
<1>4. /\ back \in Seq(Ids) /\ Len(back) = n
      /\ \A i \in 1..n : back[i] = order[n + 1 - i] /\ n + 1 - i \in 1..n
  BY <1>1, Reversed
<1> HIDE DEF back, kept
<1>5. plan \in Seq(Ids) /\ Keeps(plan, back, n, S)
  <2> HIDE DEF S, n
  <2>1. QED  BY <1>4, WithinKeeps
<1> HIDE DEF plan, n
<1>6. Len(plan) \in Nat /\ ToSet(plan) = {plan[i] : i \in 1..Len(plan)}
  BY <1>5, ValuesOf
<1>7. \A i, j \in 1..Len(plan) : plan[i] = plan[j] => i = j
  <2>1. ASSUME NEW i \in 1..n, NEW j \in 1..n, back[i] = back[j]
        PROVE  i = j
    <3> DEFINE a == n + 1 - i
               b == n + 1 - j
    <3>1. a \in 1..n /\ b \in 1..n /\ order[a] = order[b]
      BY <1>4, <2>1
    <3> HIDE DEF a, b
    <3>2. a = b
      BY <1>1, <3>1
    <3>3. QED  BY <1>1, <3>2 DEF a, b
  <2>2. n \in 0..Len(back)
    BY <1>1, <1>4
  <2> HIDE DEF S
  <2>3. QED  BY <1>4, <1>5, <1>6, <2>1, <2>2, KeptOnce
<1>8. \A i \in 1..Len(plan) : plan[i] \in S
  <2>1. ToSet(plan) \subseteq S
    BY <1>5 DEF Keeps
  <2>2. QED  BY <1>6, <2>1
<1>9. ASSUME NEW i \in 1..Len(plan), NEW y \in applied, plan[i] \in DepsOf(steps, y)
      PROVE  y \in {plan[j] : j \in 1..(i - 1)}
  <2>1. PICK k \in 1..n : /\ plan[i] = back[k]
          /\ {plan[j] : j \in 1..(i - 1)} = S \cap {back[j] : j \in 1..(k - 1)}
    BY <1>5 DEF Keeps
  <2>2. plan[i] = order[n + 1 - k] /\ n + 1 - k \in 1..n
    BY <1>4, <2>1
  <2>3. PICK b \in 1..n : y = order[b]
    BY <1>1 DEF Ids
  <2>4. plan[i] \in {order[j] : j \in 1..(b - 1)}
    BY <1>1, <1>9, <2>3
  <2>5. PICK a \in 1..(b - 1) : plan[i] = order[a]
    BY <2>4
  <2>6. a = n + 1 - k
    <3>1. a \in 1..n
      BY <1>1, <2>3, <2>5
    <3>2. QED  BY <1>1, <2>2, <2>5, <3>1
  <2>7. y \notin kept
    <3>1. SUFFICES ASSUME y \in kept PROVE FALSE
      OBVIOUS
    <3>2. PICK c \in 1..m : y = order[c]
      BY <1>3, <3>1
    <3>3. c \in 1..n /\ m \in 0..n
      BY <1>1, <1>3, <3>2
    <3>4. c = b
      BY <1>1, <2>3, <3>2, <3>3
    <3>5. a \in 1..m
      BY <2>5, <3>2, <3>4, <3>3, <1>1
    <3>6. plan[i] \in kept
      BY <1>3, <2>5, <3>5
    <3>7. QED  BY <1>8, <3>6
  <2>8. n + 1 - b \in 1..(k - 1) /\ n + 1 - b \in 1..n /\ n + 1 - (n + 1 - b) = b
    BY <1>1, <2>1, <2>3, <2>5, <2>6
  <2>9. y = back[n + 1 - b]
    BY <1>4, <2>3, <2>8
  <2>10. y \in {back[j] : j \in 1..(k - 1)}
    BY <2>8, <2>9
  <2>11. QED  BY <2>1, <2>7, <2>10
<1>10. PlanSound("downgrade", steps, applied, plan)
  <2>1. \A i \in 1..Len(plan) : plan[i] \in applied
    BY <1>8
  <2> HIDE DEF S
  <2>2. QED  BY <1>5, <1>7, <1>9, <2>1 DEF PlanSound, Ids
<1>11. QED  BY <1>2, <1>10

(* What upgrade() and downgrade() intend to run for a record can be relied *)
(* on.                                                                     *)
THEOREM PlansAreSoundFor ==
  ASSUME NEW Names, NEW Sums, NEW steps, Manifest(steps, Names, Sums),
         NEW direction \in {"upgrade", "downgrade"}, NEW record, NEW target,
         Intended(direction, steps, record, target).error = "none"
  PROVE  PlanSound(direction, steps, DOMAIN record, Intended(direction, steps, record, target).plan)
<1> DEFINE order == Order(steps)
           Reversible(plan) == \A i \in DOMAIN plan.plan : StepOf(steps, plan.plan[i]).down
           Checked(plan) ==
             IF direction = "downgrade" /\ ~Reversible(plan) THEN Failure("irreversible") ELSE plan
           chosen == IF direction = "upgrade"
                     THEN PlanUpgrade(order.plan, DOMAIN record, target)
                     ELSE PlanDowngrade(order.plan, DOMAIN record, target)
           intended == Intended(direction, steps, record, target)
<1>1. intended = IF order.error # "none" THEN order
                 ELSE IF ~FitsRecord(steps, record) THEN Failure("record")
                 ELSE Checked(chosen)
  BY DEF Intended
<1> HIDE DEF intended
<1>2. intended.error = "none"
  BY DEF intended
<1>3. \A why \in {"record", "irreversible"} : Failure(why).error = why
  BY DEF Failure
<1>4. order.error = "none" /\ FitsRecord(steps, record) /\ intended = Checked(chosen)
  <2> HIDE DEF order, Checked
  <2>1. QED  BY <1>1, <1>2, <1>3
<1>5. intended = chosen
  <2> HIDE DEF chosen, Reversible
  <2>1. QED  BY <1>2, <1>3, <1>4
<1>6. InOrder(steps, order.plan) /\ ToSet(order.plan) = IdsOf(steps)
  <2>1. OrderIsRight(steps)
    BY PlannerIsRight
  <2>2. QED  BY <1>4, <2>1 DEF OrderIsRight
<1>7. DOMAIN record \in SUBSET IdsOf(steps)
  BY <1>4 DEF FitsRecord
<1> HIDE DEF order
<1>8. CASE direction = "upgrade"
  <2>1. chosen = PlanUpgrade(order.plan, DOMAIN record, target)
    BY <1>8
  <2>2. QED  BY <1>2, <1>5, <1>6, <1>8, <2>1, UpgradeSound DEF intended
<1>9. CASE direction = "downgrade"
  <2>1. chosen = PlanDowngrade(order.plan, DOMAIN record, target)
    BY <1>9
  <2>2. QED  BY <1>2, <1>5, <1>6, <1>7, <1>9, <2>1, DowngradeSound DEF intended
<1>10. QED  BY <1>8, <1>9

(* A plan made for a manifest, whatever is on record, and whichever target *)
(* is asked for, can be relied on.                                         *)
THEOREM PlansCanBeReliedOn ==
  ASSUME NEW Names, NEW Sums, NEW steps, Manifest(steps, Names, Sums)
  PROVE  PlansAreSound(steps)
<1> SUFFICES ASSUME NEW direction \in {"upgrade", "downgrade"}, NEW target,
                    NEW applied \in SUBSET IdsOf(steps),
                    Intended(direction, steps, [x \in applied |-> NoSum], target).error = "none"
             PROVE  PlanSound(direction, steps, applied,
                      Intended(direction, steps, [x \in applied |-> NoSum], target).plan)
  BY DEF PlansAreSound
<1> DEFINE record == [x \in applied |-> NoSum]
<1>1. DOMAIN record = applied
  OBVIOUS
<1> HIDE DEF record
<1>2. PlanSound(direction, steps, DOMAIN record, Intended(direction, steps, record, target).plan)
  BY PlansAreSoundFor DEF record
<1>3. QED  BY <1>1, <1>2 DEF record
=============================================================================
