----------------------------- MODULE WireProofs -----------------------------
(***************************************************************************)
(* Proofs about the wire format: a text made of fields is read as these    *)
(* fields, whatever follows it.                                            *)
(***************************************************************************)
EXTENDS Wire, SequenceTheorems, FiniteSetTheorems, WellFoundedInduction, TLAPS

----------------------------------------------------------------------------
(* Induction and recursion.  A property is a set, a recursion a function:   *)
(* both can be named in a step of a proof, which an operator cannot.        *)

\* A set of numbers that is not empty has a smallest member.
LEMMA SmallestExists ==
    ASSUME NEW S \in SUBSET Nat, S # {}
    PROVE  \E m \in S : \A k \in S : m <= k
  <1> DEFINE less == OpToRel(<, Nat)
  <1>1. PICK m \in S : \A k \in S : ~(<<k, m>> \in less)
    <2> HIDE DEF less
    <2> QED
      BY NatLessThanWellFounded, WFMin DEF less
  <1>2. \A k \in S : ~(k < m)
    BY <1>1 DEF OpToRel
  <1> QED
    BY <1>2

\* Induction on numbers, of a property given as the set of what has it.
LEMMA CountingUp ==
    ASSUME NEW P, 0 \in P, \A n \in Nat : n \in P => n + 1 \in P
    PROVE  Nat \subseteq P
  <1> DEFINE rest == Nat \ P
  <1>1. SUFFICES ASSUME rest # {} PROVE FALSE
    OBVIOUS
  <1>2. PICK m \in rest : \A k \in rest : m <= k
    BY <1>1, SmallestExists
  <1>3. m # 0 /\ m - 1 \in Nat
    BY <1>2
  <1>4. m - 1 \in P
    BY <1>2, <1>3
  <1> QED
    BY <1>2, <1>3, <1>4

\* Induction on sequences, from the front to the back.
LEMMA AppendingOn ==
    ASSUME NEW S, NEW P,
           <<>> \in P, \A s \in Seq(S), e \in S : s \in P => Append(s, e) \in P
    PROVE  Seq(S) \subseteq P
  <1> DEFINE lengths == { n \in Nat : \A s \in Seq(S) : Len(s) = n => s \in P }
  <1>1. 0 \in lengths
    <2>1. ASSUME NEW s \in Seq(S), Len(s) = 0
          PROVE  s = <<>>
      BY <2>1
    <2> QED
      BY <2>1
  <1>2. ASSUME NEW n \in Nat, n \in lengths
        PROVE  n + 1 \in lengths
    <2>1. ASSUME NEW s \in Seq(S), Len(s) = n + 1
          PROVE  s \in P
      <3>1. s # <<>>
        BY <2>1
      <3>2. PICK t \in Seq(S), e \in S : s = Append(t, e)
        BY <3>1, SequenceEmptyOrAppend
      <3>3. Len(t) = n
        BY <2>1, <3>2
      <3> QED
        BY <1>2, <3>2, <3>3
    <2> QED
      BY <2>1
  <1> HIDE DEF lengths
  <1>3. Nat \subseteq lengths
    BY <1>1, <1>2, CountingUp
  <1> QED
    BY <1>3 DEF lengths

\* Induction on sequences, from the back to the front.
LEMMA PrependingOn ==
    ASSUME NEW S, NEW P,
           <<>> \in P, \A s \in Seq(S), e \in S : s \in P => <<e>> \o s \in P
    PROVE  Seq(S) \subseteq P
  <1> DEFINE lengths == { n \in Nat : \A s \in Seq(S) : Len(s) = n => s \in P }
  <1>1. 0 \in lengths
    <2>1. ASSUME NEW s \in Seq(S), Len(s) = 0
          PROVE  s = <<>>
      BY <2>1
    <2> QED
      BY <2>1
  <1>2. ASSUME NEW n \in Nat, n \in lengths
        PROVE  n + 1 \in lengths
    <2>1. ASSUME NEW s \in Seq(S), Len(s) = n + 1
          PROVE  s \in P
      <3>1. s # <<>>
        BY <2>1
      <3>2. Head(s) \in S /\ Tail(s) \in Seq(S) /\ Len(Tail(s)) = n
        BY <2>1, <3>1
      <3>3. s = <<Head(s)>> \o Tail(s)
        BY <2>1, <3>1
      <3> QED
        BY <1>2, <3>2, <3>3
    <2> QED
      BY <2>1
  <1> HIDE DEF lengths
  <1>3. Nat \subseteq lengths
    BY <1>1, <1>2, CountingUp
  <1> QED
    BY <1>3 DEF lengths

\* What comes of a in X when step[0], step[1], ... are applied to it.
Steps(X) == [Nat -> [X -> X]]
Iterates(X, a, step) ==
    { f \in [Nat -> X] : f[0] = a /\ \A n \in Nat : f[n + 1] = step[n][f[n]] }

\* A step from X to X can be iterated from any member of X.
LEMMA IterationExists ==
    ASSUME NEW X, NEW a \in X, NEW step \in Steps(X)
    PROVE  Iterates(X, a, step) # {}
  <1> USE DEF Steps, Iterates
  <1> DEFINE Upto(n) == { f \in [0 .. n -> X] :
                            f[0] = a /\ \A k \in 0 .. n - 1 : f[k + 1] = step[k][f[k]] }
             some == { n \in Nat : Upto(n) # {} }
             pick == [n \in Nat |-> CHOOSE f \in Upto(n) : TRUE]
             whole == [n \in Nat |-> pick[n][n]]
  <1>1. 0 \in some
    <2>1. [k \in 0 .. 0 |-> a] \in Upto(0)
      OBVIOUS
    <2> QED
      BY <2>1
  <1>2. ASSUME NEW n \in Nat, n \in some
        PROVE  n + 1 \in some
    <2>1. PICK f : f \in Upto(n)
      BY <1>2
    <2> DEFINE g == [k \in 0 .. n + 1 |-> IF k <= n THEN f[k] ELSE step[n][f[n]]]
    <2>2. f \in [0 .. n -> X] /\ f[n] \in X
      BY <2>1
    <2>3. step[n][f[n]] \in X
      BY <2>2
    <2>4. g \in [0 .. n + 1 -> X]
      BY <2>2, <2>3
    <2>5. g[0] = a
      BY <2>1
    <2>6. ASSUME NEW k \in 0 .. (n + 1) - 1
          PROVE  g[k + 1] = step[k][g[k]]
      <3>1. CASE k < n
        <4>1. k \in 0 .. n - 1
          BY <3>1
        <4>2. f[k + 1] = step[k][f[k]]
          BY <2>1, <4>1
        <4>3. k <= n /\ k + 1 <= n /\ k \in 0 .. n + 1 /\ k + 1 \in 0 .. n + 1
          BY <3>1
        <4>4. g[k + 1] = f[k + 1] /\ g[k] = f[k]
          BY <4>3
        <4> QED
          BY <4>2, <4>4
      <3>2. CASE k = n
        BY <3>2
      <3> QED
        BY <3>1, <3>2
    <2>7. g \in Upto(n + 1)
      BY <2>4, <2>5, <2>6
    <2> QED
      <3> HIDE DEF Upto, g
      <3> QED
        BY <2>7
  <1>3. \A n \in Nat : Upto(n) # {}
    <2> HIDE DEF Upto
    <2>1. Nat \subseteq some
      <3> HIDE DEF some
      <3> QED
        BY <1>1, <1>2, CountingUp
    <2> QED
      BY <2>1
  <1>4. \A n \in Nat : pick[n] \in Upto(n)
    <2> HIDE DEF Upto
    <2> QED
      BY <1>3
  <1> HIDE DEF pick
  <1>5. ASSUME NEW n \in Nat, NEW m \in Nat, n <= m
        PROVE  \A k \in 0 .. n : pick[n][k] = pick[m][k]
    <2> DEFINE same == { k \in Nat : k <= n => pick[n][k] = pick[m][k] }
    <2>1. pick[n] \in Upto(n) /\ pick[m] \in Upto(m)
      BY <1>4
    <2>2. 0 \in same
      BY <2>1
    <2>3. ASSUME NEW k \in Nat, k \in same
          PROVE  k + 1 \in same
      <3>1. SUFFICES ASSUME k + 1 <= n PROVE pick[n][k + 1] = pick[m][k + 1]
        OBVIOUS
      <3>2. k \in 0 .. n - 1 /\ k \in 0 .. m - 1
        BY <1>5, <3>1
      <3>3. pick[n][k + 1] = step[k][pick[n][k]] /\ pick[m][k + 1] = step[k][pick[m][k]]
        BY <2>1, <3>2
      <3>4. pick[n][k] = pick[m][k]
        BY <2>3, <3>1
      <3> QED
        BY <3>3, <3>4
    <2>4. Nat \subseteq same
      <3> HIDE DEF same
      <3> QED
        BY <2>2, <2>3, CountingUp
    <2> QED
      BY <2>4
  <1>6. whole \in [Nat -> X]
    <2>1. \A n \in Nat : pick[n][n] \in X
      BY <1>4
    <2> QED
      BY <2>1
  <1>7. whole[0] = a
    BY <1>4
  <1>8. ASSUME NEW n \in Nat
        PROVE  whole[n + 1] = step[n][whole[n]]
    <2>1. pick[n + 1] \in Upto(n + 1) /\ n \in 0 .. (n + 1) - 1
      BY <1>4
    <2>2. pick[n + 1][n + 1] = step[n][pick[n + 1][n]]
      BY <2>1
    <2>3. pick[n][n] = pick[n + 1][n]
      BY <1>5
    <2> QED
      BY <2>2, <2>3
  <1> QED
    BY <1>6, <1>7, <1>8

\* What is read of a text: the head of it, then what is read of the rest.
Reader(T, Y, size, head, next) ==
    /\ size \in [T -> Nat] /\ head \in [T -> Seq(Y)] /\ next \in [T -> T]
    /\ \A t \in T : size[t] # 0 => size[next[t]] < size[t]
Readings(T, Y, size, head, next) ==
    { f \in [T -> Seq(Y)] :
        \A t \in T : f[t] = IF size[t] = 0 THEN <<>> ELSE head[t] \o f[next[t]] }

\* There is a function that reads every text from its front to its end.
LEMMA ReadingExists ==
    ASSUME NEW T, NEW Y, NEW size, NEW head, NEW next, Reader(T, Y, size, head, next)
    PROVE  Readings(T, Y, size, head, next) # {}
  <1>0. /\ size \in [T -> Nat] /\ head \in [T -> Seq(Y)] /\ next \in [T -> T]
        /\ \A t \in T : size[t] # 0 => size[next[t]] < size[t]
    BY DEF Reader
  <1> DEFINE X == [T -> Seq(Y)]
             a == [t \in T |-> <<>>]
             Body(g) == [t \in T |-> IF size[t] = 0 THEN <<>> ELSE head[t] \o g[next[t]]]
             step == [n \in Nat |-> [g \in X |-> Body(g)]]
  <1>1. ASSUME NEW g \in X
        PROVE  Body(g) \in X
    <2>1. ASSUME NEW t \in T
          PROVE  (IF size[t] = 0 THEN <<>> ELSE head[t] \o g[next[t]]) \in Seq(Y)
      <3>1. head[t] \in Seq(Y) /\ g[next[t]] \in Seq(Y)
        BY <1>0
      <3> QED
        BY <3>1, ConcatProperties, EmptySeq
    <2> QED
      BY <2>1
  <1>2. a \in X
    BY EmptySeq
  <1>3. step \in Steps(X)
    <2> HIDE DEF X, Body
    <2> QED
      BY <1>1 DEF Steps
  <1>4. \A n \in Nat, g \in X : step[n][g] = Body(g)
    <2> HIDE DEF X, Body
    <2> QED
      OBVIOUS
  <1>5. PICK F \in [Nat -> X] : F[0] = a /\ \A n \in Nat : F[n + 1] = Body(F[n])
    <2> HIDE DEF X, Body, step, a
    <2>1. PICK F : F \in Iterates(X, a, step)
      BY <1>2, <1>3, IterationExists
    <2>2. F \in [Nat -> X] /\ F[0] = a /\ \A n \in Nat : F[n + 1] = step[n][F[n]]
      BY <2>1 DEF Iterates
    <2>3. \A n \in Nat : F[n + 1] = Body(F[n])
      BY <1>4, <2>2
    <2> QED
      BY <2>2, <2>3
  <1> HIDE DEF step
  <1>6. \A n \in Nat, t \in T :
            F[n + 1][t] = IF size[t] = 0 THEN <<>> ELSE head[t] \o F[n][next[t]]
    BY <1>5, ZenonT(60)
  <1> DEFINE settled == { n \in Nat : \A t \in T : size[t] <= n => F[n + 1][t] = F[n][t] }
  <1>7. 0 \in settled
    <2>1. ASSUME NEW t \in T, size[t] <= 0
          PROVE  F[0 + 1][t] = F[0][t]
      <3>1. size[t] = 0
        BY <1>0, <2>1
      <3>2. F[0][t] = <<>>
        BY <1>5
      <3>3. F[0 + 1][t] = <<>>
        BY <1>6, <3>1, SMTT(40)
      <3> QED
        BY <3>2, <3>3
    <2> QED
      BY <2>1
  <1> HIDE DEF X, a
  <1>8. ASSUME NEW n \in Nat, n \in settled
        PROVE  n + 1 \in settled
    <2>1. ASSUME NEW t \in T, size[t] <= n + 1, size[t] # 0
          PROVE  F[(n + 1) + 1][t] = F[n + 1][t]
      <3>1. size[next[t]] <= n /\ next[t] \in T
        BY <1>0, <2>1
      <3>2. F[n + 1][next[t]] = F[n][next[t]]
        BY <1>8, <3>1
      <3>3. F[(n + 1) + 1][t] = head[t] \o F[n + 1][next[t]]
        <4>1. n + 1 \in Nat
          OBVIOUS
        <4> QED
          BY <1>6, <2>1, <4>1
      <3>4. F[n + 1][t] = head[t] \o F[n][next[t]]
        BY <1>6, <2>1
      <3> QED
        BY <3>2, <3>3, <3>4
    <2>2. ASSUME NEW t \in T, size[t] = 0
          PROVE  F[(n + 1) + 1][t] = F[n + 1][t]
      <3>1. n + 1 \in Nat
        OBVIOUS
      <3> QED
        BY <1>6, <2>2, <3>1
    <2> QED
      BY <2>1, <2>2
  <1>9. \A n \in Nat : n \in settled
    <2> HIDE DEF settled
    <2> QED
      BY <1>7, <1>8, CountingUp
  <1> DEFINE later == { d \in Nat : \A t \in T : F[size[t] + d][t] = F[size[t]][t] }
  <1>10. 0 \in later
    BY <1>0
  <1>11. ASSUME NEW d \in Nat, d \in later
         PROVE  d + 1 \in later
    <2>1. ASSUME NEW t \in T
          PROVE  F[size[t] + (d + 1)][t] = F[size[t]][t]
      <3>1. size[t] \in Nat /\ size[t] + d \in settled /\ size[t] <= size[t] + d
        BY <1>0, <1>9
      <3>2. F[(size[t] + d) + 1][t] = F[size[t] + d][t]
        BY <3>1
      <3>3. F[size[t] + d][t] = F[size[t]][t]
        BY <1>11
      <3>4. size[t] + (d + 1) = (size[t] + d) + 1
        BY <3>1
      <3> QED
        BY <3>2, <3>3, <3>4
    <2> QED
      BY <2>1
  <1>12. \A d \in Nat : d \in later
    <2> HIDE DEF later
    <2> QED
      BY <1>10, <1>11, CountingUp
  <1> DEFINE G == [t \in T |-> F[size[t]][t]]
  <1>13. G \in [T -> Seq(Y)]
    <2>1. ASSUME NEW t \in T
          PROVE  F[size[t]][t] \in Seq(Y)
      <3>1. F[size[t]] \in X
        BY <1>0, <1>5
      <3> QED
        BY <3>1 DEF X
    <2> QED
      BY <2>1
  <1>14. ASSUME NEW t \in T
         PROVE  G[t] = IF size[t] = 0 THEN <<>> ELSE head[t] \o G[next[t]]
    <2>1. CASE size[t] = 0
      <3>1. F[0][t] = <<>>
        BY <1>5, SMTT(40) DEF a
      <3> QED
        BY <2>1, <3>1
    <2>2. CASE size[t] # 0
      <3> DEFINE n == size[t] - 1
                 d == n - size[next[t]]
      <3>1. n \in Nat /\ size[t] = n + 1 /\ d \in Nat /\ n = size[next[t]] + d
        BY <1>0, <2>2
      <3>2. F[n + 1][t] = head[t] \o F[n][next[t]]
        <4> HIDE DEF n
        <4> QED
          BY <1>6, <2>2, <3>1
      <3>3. F[size[next[t]] + d][next[t]] = F[size[next[t]]][next[t]]
        <4>1. d \in later /\ next[t] \in T
          BY <1>0, <1>12, <3>1
        <4> HIDE DEF d
        <4> QED
          BY <4>1
      <3>4. G[t] = head[t] \o F[n][next[t]]
        BY <3>1, <3>2
      <3>5. F[n][next[t]] = G[next[t]]
        <4>1. next[t] \in T
          BY <1>0
        <4>2. G[next[t]] = F[size[next[t]]][next[t]]
          BY <4>1
        <4> HIDE DEF n, d, G
        <4> QED
          BY <3>1, <3>3, <4>2
      <3> QED
        BY <2>2, <3>4, <3>5
    <2> QED
      BY <2>1, <2>2
  <1> QED
    BY <1>13, <1>14 DEF Readings

----------------------------------------------------------------------------
(* Sums and concatenations of sequences.                                    *)

\* The sums, and the concatenations, of the beginnings of a sequence.
Sums(s) == { f \in [Nat -> Int] :
    f[0] = 0 /\ \A n \in 0 .. Len(s) - 1 : f[n + 1] = f[n] + s[n + 1] }
Joins(S, s) == { f \in [Nat -> Seq(S)] :
    f[0] = <<>> /\ \A n \in 0 .. Len(s) - 1 : f[n + 1] = f[n] \o s[n + 1] }

\* The sums of the first members of a sequence are a function.
LEMMA SumsExist ==
    ASSUME NEW s \in Seq(Int)
    PROVE  Sums(s) # {}
  <1> DEFINE step == [n \in Nat |-> [x \in Int |-> IF n < Len(s) THEN x + s[n + 1] ELSE x]]
  <1>1. step \in Steps(Int)
    <2>1. ASSUME NEW n \in Nat, NEW x \in Int
          PROVE  (IF n < Len(s) THEN x + s[n + 1] ELSE x) \in Int
      OBVIOUS
    <2> QED
      BY <2>1 DEF Steps
  <1>2. 0 \in Int
    OBVIOUS
  <1>3. PICK f : f \in Iterates(Int, 0, step)
    <2> HIDE DEF step
    <2> QED
      BY <1>1, <1>2, IterationExists
  <1>4. f \in [Nat -> Int] /\ f[0] = 0 /\ \A n \in Nat : f[n + 1] = step[n][f[n]]
    BY <1>3 DEF Iterates
  <1>5. ASSUME NEW n \in 0 .. Len(s) - 1
        PROVE  f[n + 1] = f[n] + s[n + 1]
    <2>1. n \in Nat /\ n < Len(s) /\ f[n] \in Int
      BY <1>4
    <2>2. step[n][f[n]] = f[n] + s[n + 1]
      BY <2>1
    <2> QED
      BY <1>4, <2>1, <2>2
  <1>6. f \in Sums(s)
    BY <1>4, <1>5 DEF Sums
  <1> QED
    BY <1>6

\* SumOf is the last of these sums.
LEMMA SumIsLast ==
    ASSUME NEW s \in Seq(Int), NEW f, f \in Sums(s)
    PROVE  SumOf(s) = f[Len(s)]
  <1> DEFINE Rec(g) == [k \in 0 .. Len(s) |-> IF k = 0 THEN 0 ELSE g[k - 1] + s[k]]
             back == CHOOSE g : g = Rec(g)
             sum == [k \in 0 .. Len(s) |-> f[k]]
  <1>1. Len(s) \in Nat /\ f \in [Nat -> Int] /\ f[0] = 0
        /\ \A n \in 0 .. Len(s) - 1 : f[n + 1] = f[n] + s[n + 1]
    BY DEF Sums
  <1>2. sum = Rec(sum)
    <2>1. ASSUME NEW k \in 0 .. Len(s)
          PROVE  sum[k] = Rec(sum)[k]
      <3>1. CASE k = 0
        BY <1>1, <3>1
      <3>2. CASE k # 0
        <4>1. k - 1 \in 0 .. Len(s) - 1 /\ (k - 1) + 1 = k
          BY <3>2
        <4>2. f[k] = f[k - 1] + s[k]
          BY <1>1, <4>1
        <4> QED
          BY <3>2, <4>1, <4>2
      <3> QED
        BY <3>1, <3>2
    <2> QED
      BY <2>1
  <1>3. back = Rec(back)
    BY <1>2
  <1> HIDE DEF back
  <1> DEFINE same == { k \in Nat : k <= Len(s) => back[k] = f[k] }
  <1>4. 0 \in same
    BY <1>1, <1>3
  <1>5. ASSUME NEW k \in Nat, k \in same
        PROVE  k + 1 \in same
    <2>1. SUFFICES ASSUME k + 1 <= Len(s) PROVE back[k + 1] = f[k + 1]
      OBVIOUS
    <2>2. k \in 0 .. Len(s) - 1 /\ k + 1 \in 0 .. Len(s) /\ k + 1 # 0 /\ (k + 1) - 1 = k
      BY <1>1, <2>1
    <2>3. back[k + 1] = back[k] + s[k + 1]
      BY <1>3, <2>2
    <2> QED
      BY <1>1, <1>5, <2>1, <2>2, <2>3, SMTT(40)
  <1>6. Len(s) \in same
    <2> HIDE DEF same
    <2> QED
      BY <1>1, <1>4, <1>5, CountingUp
  <1>7. SumOf(s) = back[Len(s)]
    BY DEF SumOf, back
  <1> QED
    BY <1>1, <1>6, <1>7

\* SumOf member by member, from the front.
LEMMA SumFacts ==
    /\ SumOf(<<>>) = 0
    /\ \A s \in Seq(Int) : SumOf(s) \in Int
    /\ \A s \in Seq(Int), x \in Int : SumOf(Append(s, x)) = SumOf(s) + x
  <1>1. ASSUME NEW s \in Seq(Int)
        PROVE  SumOf(s) \in Int
    <2>1. PICK f : f \in Sums(s)
      BY SumsExist
    <2>2. SumOf(s) = f[Len(s)]
      BY <2>1, SumIsLast
    <2>3. f \in [Nat -> Int]
      BY <2>1 DEF Sums
    <2>4. Len(s) \in Nat
      BY LenProperties
    <2> QED
      BY <2>2, <2>3, <2>4
  <1>2. SumOf(<<>>) = 0
    <2>1. PICK f : f \in Sums(<<>>)
      <3>1. <<>> \in Seq(Int)
        OBVIOUS
      <3> QED
        BY <3>1, SumsExist
    <2> QED
      BY <2>1, SumIsLast DEF Sums
  <1>3. ASSUME NEW s \in Seq(Int), NEW x \in Int
        PROVE  SumOf(Append(s, x)) = SumOf(s) + x
    <2> DEFINE t == Append(s, x)
    <2>1. /\ t \in Seq(Int) /\ Len(t) = Len(s) + 1 /\ Len(s) \in Nat
          /\ \A n \in 1 .. Len(s) : t[n] = s[n]
          /\ t[Len(s) + 1] = x
      OBVIOUS
    <2> HIDE DEF t
    <2>2. PICK f : f \in Sums(t)
      BY <2>1, SumsExist
    <2>3. f \in [Nat -> Int] /\ f[0] = 0 /\ \A n \in 0 .. Len(t) - 1 : f[n + 1] = f[n] + t[n + 1]
      BY <2>2 DEF Sums
    <2>4. f \in Sums(s)
      <3>1. ASSUME NEW n \in 0 .. Len(s) - 1
            PROVE  f[n + 1] = f[n] + s[n + 1]
        <4>1. n \in 0 .. Len(t) - 1 /\ n + 1 \in 1 .. Len(s)
          BY <2>1
        <4>2. f[n + 1] = f[n] + t[n + 1] /\ t[n + 1] = s[n + 1]
          BY <2>1, <2>3, <4>1
        <4> QED
          BY <4>2
      <3> QED
        BY <2>3, <3>1 DEF Sums
    <2>6. f[Len(s) + 1] = f[Len(s)] + x
      <3>1. Len(s) \in 0 .. Len(t) - 1
        BY <2>1
      <3>2. f[Len(s) + 1] = f[Len(s)] + t[Len(s) + 1]
        BY <2>3, <3>1
      <3> QED
        BY <2>1, <3>2
    <2>5. SumOf(t) = f[Len(s) + 1] /\ SumOf(s) = f[Len(s)]
      BY <2>1, <2>2, <2>4, SumIsLast
    <2> QED
      BY <2>5, <2>6 DEF t
  <1> QED
    BY <1>1, <1>2, <1>3

\* The concatenations of the first members of a sequence are a function.
LEMMA JoinsExist ==
    ASSUME NEW S, NEW s \in Seq(Seq(S))
    PROVE  Joins(S, s) # {}
  <1> DEFINE step == [n \in Nat |-> [x \in Seq(S) |-> IF n < Len(s) THEN x \o s[n + 1] ELSE x]]
  <1>1. step \in Steps(Seq(S))
    <2>1. ASSUME NEW n \in Nat, NEW x \in Seq(S)
          PROVE  (IF n < Len(s) THEN x \o s[n + 1] ELSE x) \in Seq(S)
      OBVIOUS
    <2> QED
      BY <2>1 DEF Steps
  <1>2. <<>> \in Seq(S)
    OBVIOUS
  <1>3. PICK f : f \in Iterates(Seq(S), <<>>, step)
    <2> HIDE DEF step
    <2> QED
      BY <1>1, <1>2, IterationExists
  <1>4. f \in [Nat -> Seq(S)] /\ f[0] = <<>> /\ \A n \in Nat : f[n + 1] = step[n][f[n]]
    BY <1>3 DEF Iterates
  <1>5. ASSUME NEW n \in 0 .. Len(s) - 1
        PROVE  f[n + 1] = f[n] \o s[n + 1]
    <2>1. n \in Nat /\ n < Len(s) /\ f[n] \in Seq(S)
      <3>1. Len(s) \in Nat
        BY LenProperties
      <3>2. f \in [Nat -> Seq(S)]
        BY <1>4
      <3>3. n \in Nat /\ n < Len(s)
        BY <3>1
      <3> QED
        BY <3>2, <3>3
    <2>2. step[n][f[n]] = f[n] \o s[n + 1]
      BY <2>1
    <2> QED
      BY <1>4, <2>1, <2>2
  <1>6. f \in Joins(S, s)
    BY <1>4, <1>5 DEF Joins
  <1> QED
    BY <1>6

\* FlattenSeq is the last of these concatenations.
LEMMA JoinIsLast ==
    ASSUME NEW S, NEW s \in Seq(Seq(S)), NEW f, f \in Joins(S, s)
    PROVE  FlattenSeq(s) = f[Len(s)]
  <1> DEFINE Rec(g) == [i \in 1 .. Len(s) |-> IF i = 1 THEN s[i] ELSE g[i - 1] \o s[i]]
             back == CHOOSE g : g = Rec(g)
             join == [i \in 1 .. Len(s) |-> f[i]]
  <1>1. /\ Len(s) \in Nat /\ f \in [Nat -> Seq(S)] /\ f[0] = <<>>
        /\ \A n \in 0 .. Len(s) - 1 : f[n + 1] = f[n] \o s[n + 1]
    BY LenProperties DEF Joins
  <1>2. ASSUME NEW i \in 1 .. Len(s)
        PROVE  f[i] = IF i = 1 THEN s[i] ELSE f[i - 1] \o s[i]
    <2>1. i - 1 \in 0 .. Len(s) - 1 /\ (i - 1) + 1 = i /\ s[i] \in Seq(S)
      BY <1>1
    <2>2. f[i] = f[i - 1] \o s[i]
      BY <1>1, <2>1
    <2>3. <<>> \o s[i] = s[i]
      BY <2>1, ConcatEmptySeq
    <2>4. CASE i = 1
      <3>1. i - 1 = 0
        BY <2>4
      <3>2. f[i - 1] = <<>>
        BY <1>1, <3>1
      <3> QED
        BY <2>2, <2>3, <2>4, <3>2
    <2>5. CASE i # 1
      BY <2>2, <2>5
    <2> QED
      BY <2>4, <2>5
  <1>3. join = Rec(join)
    <2>1. ASSUME NEW i \in 1 .. Len(s)
          PROVE  join[i] = Rec(join)[i]
      <3>1. CASE i = 1
        BY <1>2, <3>1
      <3>2. CASE i # 1
        <4>1. i - 1 \in 1 .. Len(s)
          BY <1>1, <3>2
        <4> QED
          BY <1>2, <3>2, <4>1
      <3> QED
        BY <3>1, <3>2
    <2> QED
      BY <2>1
  <1>4. back = Rec(back)
    BY <1>3
  <1> HIDE DEF back, join
  <1> DEFINE same == { k \in Nat : k \in 1 .. Len(s) => back[k] = f[k] }
  <1>5. 0 \in same
    OBVIOUS
  <1>6. ASSUME NEW k \in Nat, k \in same
        PROVE  k + 1 \in same
    <2>1. SUFFICES ASSUME k + 1 \in 1 .. Len(s) PROVE back[k + 1] = f[k + 1]
      OBVIOUS
    <2>2. back[k + 1] = IF k + 1 = 1 THEN s[k + 1] ELSE back[(k + 1) - 1] \o s[k + 1]
      BY <1>4, <2>1
    <2>3. f[k + 1] = IF k + 1 = 1 THEN s[k + 1] ELSE f[(k + 1) - 1] \o s[k + 1]
      BY <1>2, <2>1
    <2>4. (k + 1) - 1 = k
      OBVIOUS
    <2>5. CASE k = 0
      BY <2>2, <2>3, <2>5
    <2>6. CASE k # 0
      <3>1. k \in 1 .. Len(s)
        BY <1>1, <2>1, <2>6
      <3>2. back[k] = f[k]
        BY <1>6, <3>1
      <3> QED
        BY <2>2, <2>3, <2>4, <2>6, <3>2
    <2> QED
      BY <2>5, <2>6
  <1>7. Len(s) \in same
    <2> HIDE DEF same
    <2> QED
      BY <1>1, <1>5, <1>6, CountingUp
  <1>8. CASE Len(s) = 0
    <2>1. s = <<>>
      BY <1>8
    <2>2. FlattenSeq(s) = s
      BY <1>8 DEF FlattenSeq
    <2> QED
      BY <1>1, <1>8, <2>1, <2>2
  <1>9. CASE Len(s) # 0
    <2>1. FlattenSeq(s) = back[Len(s)]
      BY <1>9 DEF FlattenSeq, back
    <2>2. Len(s) \in 1 .. Len(s)
      BY <1>1, <1>9
    <2> QED
      BY <1>7, <2>1, <2>2
  <1> QED
    BY <1>8, <1>9

\* FlattenSeq member by member, from the front.
LEMMA FlattenFacts ==
    ASSUME NEW S
    PROVE  /\ FlattenSeq(<<>>) = <<>>
           /\ \A s \in Seq(Seq(S)) : FlattenSeq(s) \in Seq(S)
           /\ \A s \in Seq(Seq(S)), x \in Seq(S) :
                FlattenSeq(Append(s, x)) = FlattenSeq(s) \o x
  <1>1. ASSUME NEW s \in Seq(Seq(S))
        PROVE  FlattenSeq(s) \in Seq(S)
    <2>1. PICK f : f \in Joins(S, s)
      BY JoinsExist
    <2>2. FlattenSeq(s) = f[Len(s)]
      BY <2>1, JoinIsLast
    <2>3. f \in [Nat -> Seq(S)] /\ Len(s) \in Nat
      BY <2>1, LenProperties DEF Joins
    <2> QED
      BY <2>2, <2>3
  <1>2. FlattenSeq(<<>>) = <<>>
    BY DEF FlattenSeq
  <1>3. ASSUME NEW s \in Seq(Seq(S)), NEW x \in Seq(S)
        PROVE  FlattenSeq(Append(s, x)) = FlattenSeq(s) \o x
    <2> DEFINE t == Append(s, x)
    <2>1. /\ t \in Seq(Seq(S)) /\ Len(t) = Len(s) + 1 /\ Len(s) \in Nat
          /\ \A n \in 1 .. Len(s) : t[n] = s[n]
          /\ t[Len(s) + 1] = x
      OBVIOUS
    <2> HIDE DEF t
    <2>2. PICK f : f \in Joins(S, t)
      BY <2>1, JoinsExist
    <2>3. f \in [Nat -> Seq(S)] /\ f[0] = <<>>
          /\ \A n \in 0 .. Len(t) - 1 : f[n + 1] = f[n] \o t[n + 1]
      BY <2>2 DEF Joins
    <2>4. f \in Joins(S, s)
      <3>1. ASSUME NEW n \in 0 .. Len(s) - 1
            PROVE  f[n + 1] = f[n] \o s[n + 1]
        <4>1. n \in 0 .. Len(t) - 1 /\ n + 1 \in 1 .. Len(s)
          BY <2>1
        <4>2. f[n + 1] = f[n] \o t[n + 1] /\ t[n + 1] = s[n + 1]
          BY <2>1, <2>3, <4>1
        <4> QED
          BY <4>2
      <3> QED
        BY <2>3, <3>1 DEF Joins
    <2>5. f[Len(s) + 1] = f[Len(s)] \o x
      <3>1. Len(s) \in 0 .. Len(t) - 1
        BY <2>1
      <3>2. f[Len(s) + 1] = f[Len(s)] \o t[Len(s) + 1]
        BY <2>3, <3>1
      <3> QED
        BY <2>1, <3>2
    <2>6. FlattenSeq(t) = f[Len(s) + 1] /\ FlattenSeq(s) = f[Len(s)]
      BY <2>1, <2>2, <2>4, JoinIsLast
    <2> QED
      BY <2>5, <2>6 DEF t
  <1> QED
    BY <1>1, <1>2, <1>3

\* Appending to the second of two sequences appends to both together.
LEMMA ConcatAppend ==
    ASSUME NEW S, NEW s \in Seq(S), NEW t \in Seq(S), NEW e \in S
    PROVE  s \o Append(t, e) = Append(s \o t, e)
  <1>1. <<e>> \in Seq(S) /\ s \o t \in Seq(S)
    BY ConcatProperties
  <1>2. Append(t, e) = t \o <<e>> /\ Append(s \o t, e) = (s \o t) \o <<e>>
    BY <1>1, AppendIsConcat
  <1> QED
    BY <1>1, <1>2, ConcatAssociative

\* A sequence of one member, as an Append.
LEMMA SingletonAppend ==
    ASSUME NEW S, NEW e \in S
    PROVE  <<e>> = Append(<<>>, e) /\ <<e>> \in Seq(S) /\ <<>> \in Seq(S)
  OBVIOUS

\* The sum of two sequences together.
LEMMA SumConcat ==
    ASSUME NEW s \in Seq(Int), NEW t \in Seq(Int)
    PROVE  SumOf(s \o t) = SumOf(s) + SumOf(t)
  <1> DEFINE P == { u \in Seq(Int) : SumOf(s \o u) = SumOf(s) + SumOf(u) }
  <1>1. <<>> \in P
    BY SumFacts, ConcatEmptySeq, EmptySeq
  <1>2. ASSUME NEW u \in Seq(Int), NEW e \in Int, u \in P
        PROVE  Append(u, e) \in P
    <2>1. s \o Append(u, e) = Append(s \o u, e) /\ s \o u \in Seq(Int)
      BY ConcatAppend, ConcatProperties, SMTT(40)
    <2>2. SumOf(s \o Append(u, e)) = SumOf(s \o u) + e
      BY <2>1, SumFacts
    <2>3. SumOf(Append(u, e)) = SumOf(u) + e /\ SumOf(u) \in Int /\ SumOf(s) \in Int
      BY SumFacts
    <2>4. Append(u, e) \in Seq(Int)
      OBVIOUS
    <2> QED
      BY <1>2, <2>2, <2>3, <2>4
  <1> HIDE DEF P
  <1>3. t \in P
    BY <1>1, <1>2, AppendingOn
  <1> QED
    BY <1>3 DEF P

\* The sum of one number.
LEMMA SumOfOne ==
    ASSUME NEW x \in Int
    PROVE  SumOf(<<x>>) = x
  <1>1. <<>> \in Seq(Int) /\ <<x>> = Append(<<>>, x)
    BY SingletonAppend
  <1>2. SumOf(<<x>>) = SumOf(<<>>) + x
    BY <1>1, SumFacts
  <1> QED
    BY <1>2, SumFacts

\* Numbers add up to no less than each of them, nor, if none is 0, than their
\* number.
LEMMA SumBounds ==
    ASSUME NEW s \in Seq(Nat)
    PROVE  /\ SumOf(s) \in Nat
           /\ \A i \in 1 .. Len(s) : s[i] <= SumOf(s)
           /\ (\A i \in 1 .. Len(s) : s[i] # 0) => Len(s) <= SumOf(s)
  <1> DEFINE Good(u) == /\ SumOf(u) \in Nat
                        /\ \A i \in 1 .. Len(u) : u[i] <= SumOf(u)
                        /\ (\A i \in 1 .. Len(u) : u[i] # 0) => Len(u) <= SumOf(u)
             P == { u \in Seq(Nat) : Good(u) }
  <1>1. <<>> \in P
    <2>1. Good(<<>>)
      BY SumFacts
    <2> QED
      BY <2>1
  <1>2. ASSUME NEW u \in Seq(Nat), NEW e \in Nat, u \in P
        PROVE  Append(u, e) \in P
    <2> DEFINE v == Append(u, e)
    <2>1. u \in Seq(Int) /\ e \in Int
      OBVIOUS
    <2>2. SumOf(v) = SumOf(u) + e
      BY <2>1, SumFacts
    <2>3. /\ v \in Seq(Nat) /\ Len(v) = Len(u) + 1 /\ Len(u) \in Nat
          /\ \A i \in 1 .. Len(u) : v[i] = u[i]
          /\ v[Len(u) + 1] = e
      OBVIOUS
    <2>4. Good(u)
      BY <1>2
    <2> HIDE DEF v
    <2>5. SumOf(v) \in Nat
      BY <2>2, <2>4
    <2>6. ASSUME NEW i \in 1 .. Len(v)
          PROVE  v[i] <= SumOf(v)
      <3>1. CASE i = Len(u) + 1
        BY <2>2, <2>3, <2>4, <3>1
      <3>2. CASE i # Len(u) + 1
        <4>1. i \in 1 .. Len(u)
          BY <2>3, <3>2
        <4>2. v[i] = u[i] /\ u[i] \in Nat /\ u[i] <= SumOf(u)
          BY <2>3, <2>4, <4>1, SMTT(40)
        <4> QED
          BY <2>2, <2>4, <4>2
      <3> QED
        BY <3>1, <3>2
    <2>7. ASSUME \A i \in 1 .. Len(v) : v[i] # 0
          PROVE  Len(v) <= SumOf(v)
      <3>1. ASSUME NEW i \in 1 .. Len(u)
            PROVE  u[i] # 0
        <4>1. i \in 1 .. Len(v) /\ v[i] = u[i]
          BY <2>3
        <4> QED
          BY <2>7, <4>1
      <3>2. Len(u) + 1 \in 1 .. Len(v)
        BY <2>3
      <3>3. e # 0
        BY <2>3, <2>7, <3>2
      <3> QED
        BY <2>2, <2>3, <2>4, <3>1, <3>3
    <2>8. Good(v)
      BY <2>5, <2>6, <2>7
    <2> QED
      BY <2>3, <2>8 DEF v
  <1>3. s \in P
    <2> HIDE DEF P
    <2> QED
      BY <1>1, <1>2, AppendingOn
  <1> QED
    BY <1>3

\* Two sequences of sequences, flattened together.
LEMMA FlattenConcat ==
    ASSUME NEW S, NEW s \in Seq(Seq(S)), NEW t \in Seq(Seq(S))
    PROVE  FlattenSeq(s \o t) = FlattenSeq(s) \o FlattenSeq(t)
  <1> DEFINE P == { u \in Seq(Seq(S)) : FlattenSeq(s \o u) = FlattenSeq(s) \o FlattenSeq(u) }
  <1>1. <<>> \in P
    <2>1. FlattenSeq(<<>>) = <<>> /\ FlattenSeq(s) \in Seq(S)
      BY FlattenFacts
    <2>2. FlattenSeq(s) \o <<>> = FlattenSeq(s)
      BY <2>1, ConcatEmptySeq
    <2>3. s \o <<>> = s /\ <<>> \in Seq(Seq(S))
      BY ConcatEmptySeq, EmptySeq
    <2> QED
      BY <2>1, <2>2, <2>3
  <1>2. ASSUME NEW u \in Seq(Seq(S)), NEW e \in Seq(S), u \in P
        PROVE  Append(u, e) \in P
    <2>1. s \o Append(u, e) = Append(s \o u, e) /\ s \o u \in Seq(Seq(S))
      BY ConcatAppend, ConcatProperties, SMTT(40)
    <2>2. FlattenSeq(s \o Append(u, e)) = FlattenSeq(s \o u) \o e
      BY <2>1, FlattenFacts
    <2>3. FlattenSeq(Append(u, e)) = FlattenSeq(u) \o e
      BY FlattenFacts
    <2>4. FlattenSeq(u) \in Seq(S) /\ FlattenSeq(s) \in Seq(S)
      BY FlattenFacts
    <2>5. (FlattenSeq(s) \o FlattenSeq(u)) \o e = FlattenSeq(s) \o (FlattenSeq(u) \o e)
      BY <2>4, ConcatAssociative, SMTT(40)
    <2>6. Append(u, e) \in Seq(Seq(S))
      BY AppendProperties
    <2>7. FlattenSeq(s \o u) = FlattenSeq(s) \o FlattenSeq(u)
      BY <1>2
    <2> QED
      BY <2>2, <2>3, <2>5, <2>6, <2>7
  <1> HIDE DEF P
  <1>3. t \in P
    BY <1>1, <1>2, AppendingOn
  <1> QED
    BY <1>3 DEF P

\* One sequence, flattened.
LEMMA FlattenOne ==
    ASSUME NEW S, NEW x \in Seq(S)
    PROVE  FlattenSeq(<<x>>) = x
  <1>1. <<>> \in Seq(Seq(S)) /\ <<x>> = Append(<<>>, x)
    BY SingletonAppend
  <1>2. FlattenSeq(<<x>>) = FlattenSeq(<<>>) \o x
    BY <1>1, FlattenFacts
  <1>3. FlattenSeq(<<>>) = <<>>
    BY FlattenFacts
  <1> QED
    BY <1>2, <1>3, ConcatEmptySeq

\* The length of a concatenation, and the elements of it.
Lengths(s) == [i \in 1 .. Len(s) |-> Len(s[i])]

\* The lengths of the members of a sequence and of one more.
LEMMA LengthsAppend ==
    ASSUME NEW S, NEW s \in Seq(Seq(S)), NEW e \in Seq(S)
    PROVE  /\ Lengths(s) \in Seq(Nat)
           /\ Lengths(Append(s, e)) = Append(Lengths(s), Len(e))
  <1>1. ASSUME NEW t \in Seq(Seq(S))
        PROVE  Lengths(t) \in Seq(Nat) /\ Len(Lengths(t)) = Len(t)
    <2>1. Len(t) \in Nat
      BY LenProperties
    <2>2. \A i \in 1 .. Len(t) : Len(t[i]) \in Nat
      <3>1. ASSUME NEW i \in 1 .. Len(t)
            PROVE  Len(t[i]) \in Nat
        <4>1. t[i] \in Seq(S)
          BY ElementOfSeq
        <4> QED
          BY <4>1, LenProperties
      <3> QED
        BY <3>1
    <2> QED
      BY <2>1, <2>2 DEF Lengths
  <1>2. Len(e) \in Nat /\ Len(s) \in Nat
    BY LenProperties
  <1>3. Append(s, e) \in Seq(Seq(S)) /\ Len(Append(s, e)) = Len(s) + 1
        /\ Append(s, e)[Len(s) + 1] = e
        /\ \A i \in 1 .. Len(s) : Append(s, e)[i] = s[i]
    BY AppendProperties
  <1> DEFINE a == Lengths(Append(s, e))
             b == Append(Lengths(s), Len(e))
  <1>4. a \in Seq(Nat) /\ Len(a) = Len(s) + 1
    BY <1>1, <1>3
  <1>5. b \in Seq(Nat) /\ Len(b) = Len(s) + 1 /\ b[Len(s) + 1] = Len(e)
        /\ \A i \in 1 .. Len(s) : b[i] = Lengths(s)[i]
    BY <1>1, <1>2, AppendProperties
  <1>6. ASSUME NEW i \in 1 .. Len(s) + 1
        PROVE  a[i] = b[i]
    <2>1. a[i] = Len(Append(s, e)[i])
      BY <1>3 DEF Lengths
    <2>2. CASE i = Len(s) + 1
      BY <1>3, <1>5, <2>1, <2>2
    <2>3. CASE i # Len(s) + 1
      <3>1. i \in 1 .. Len(s)
        BY <1>2, <2>3
      <3>2. Lengths(s)[i] = Len(s[i])
        BY <3>1 DEF Lengths
      <3> QED
        BY <1>3, <1>5, <2>1, <3>1, <3>2
    <2> QED
      BY <2>2, <2>3
  <1>7. a = b
    <2> HIDE DEF a, b
    <2> QED
      BY <1>4, <1>5, <1>6, SeqEqual
  <1> QED
    BY <1>1, <1>7

\* What is flattened is as long as its members together.
LEMMA FlattenLen ==
    ASSUME NEW S, NEW s \in Seq(Seq(S))
    PROVE  Len(FlattenSeq(s)) = SumOf(Lengths(s))
  <1> DEFINE P == { u \in Seq(Seq(S)) : Len(FlattenSeq(u)) = SumOf(Lengths(u)) }
  <1>1. <<>> \in P
    <2>1. Lengths(<<>>) = <<>>
      BY DEF Lengths
    <2>2. FlattenSeq(<<>>) = <<>>
      BY FlattenFacts
    <2>3. Len(<<>>) = 0 /\ <<>> \in Seq(Seq(S))
      BY EmptySeq
    <2> QED
      BY <2>1, <2>2, <2>3, SumFacts
  <1>2. ASSUME NEW u \in Seq(Seq(S)), NEW e \in Seq(S), u \in P
        PROVE  Append(u, e) \in P
    <2>1. Lengths(u) \in Seq(Nat) /\ Lengths(Append(u, e)) = Append(Lengths(u), Len(e))
      BY LengthsAppend
    <2>2. Len(e) \in Int /\ Lengths(u) \in Seq(Int)
      BY <2>1, LenProperties
    <2>3. SumOf(Append(Lengths(u), Len(e))) = SumOf(Lengths(u)) + Len(e)
      BY <2>2, SumFacts
    <2>4. FlattenSeq(Append(u, e)) = FlattenSeq(u) \o e /\ FlattenSeq(u) \in Seq(S)
      BY FlattenFacts
    <2>5. Len(FlattenSeq(u) \o e) = Len(FlattenSeq(u)) + Len(e)
      BY <2>4, ConcatProperties
    <2>6. Append(u, e) \in Seq(Seq(S))
      BY AppendProperties
    <2>7. Len(FlattenSeq(u)) = SumOf(Lengths(u))
      BY <1>2
    <2> QED
      BY <2>1, <2>3, <2>4, <2>5, <2>6, <2>7
  <1> HIDE DEF P
  <1>3. s \in P
    BY <1>1, <1>2, AppendingOn
  <1> QED
    BY <1>3 DEF P

\* The members of a sequence.
LEMMA ToSetFacts ==
    ASSUME NEW S
    PROVE  /\ ToSet(<<>>) = {}
           /\ \A e : ToSet(<<e>>) = {e}
           /\ \A s \in Seq(S) : ToSet(s) \subseteq S /\ ToSet(s) = { s[i] : i \in 1 .. Len(s) }
           /\ \A s, t \in Seq(S) : ToSet(s \o t) = ToSet(s) \cup ToSet(t)
  <1>1. ToSet(<<>>) = {}
    BY DEF ToSet
  <1>2. \A e : ToSet(<<e>>) = {e}
    BY DEF ToSet
  <1>3. ASSUME NEW s \in Seq(S)
        PROVE  ToSet(s) \subseteq S /\ ToSet(s) = { s[i] : i \in 1 .. Len(s) }
    BY DEF ToSet
  <1>4. ASSUME NEW s \in Seq(S), NEW t \in Seq(S)
        PROVE  ToSet(s \o t) = ToSet(s) \cup ToSet(t)
    <2>1. ToSet(s \o t) = { (s \o t)[i] : i \in 1 .. Len(s) + Len(t) }
      <3>1. s \o t \in Seq(S) /\ Len(s \o t) = Len(s) + Len(t)
        BY ConcatProperties
      <3>2. ToSet(s \o t) = { (s \o t)[i] : i \in 1 .. Len(s \o t) }
        BY <1>3, <3>1
      <3> QED
        BY <3>1, <3>2
    <2>2. ToSet(s) = { s[i] : i \in 1 .. Len(s) } /\ ToSet(t) = { t[i] : i \in 1 .. Len(t) }
      BY <1>3
    <2>3. Len(s) \in Nat /\ Len(t) \in Nat
      BY LenProperties
    <2>4. \A i \in 1 .. Len(s) + Len(t) :
              (s \o t)[i] = IF i <= Len(s) THEN s[i] ELSE t[i - Len(s)]
      BY ConcatProperties
    <2>5. ASSUME NEW x \in ToSet(s \o t)
          PROVE  x \in ToSet(s) \cup ToSet(t)
      <3>1. PICK i \in 1 .. Len(s) + Len(t) : x = (s \o t)[i]
        BY <2>1
      <3>2. CASE i <= Len(s)
        BY <2>2, <2>3, <2>4, <3>1, <3>2
      <3>3. CASE ~(i <= Len(s))
        <4>1. i - Len(s) \in 1 .. Len(t)
          BY <2>3, <3>3
        <4> QED
          BY <2>2, <2>4, <3>1, <3>3, <4>1
      <3> QED
        BY <3>2, <3>3
    <2>6. ASSUME NEW x \in ToSet(s)
          PROVE  x \in ToSet(s \o t)
      <3>1. PICK i \in 1 .. Len(s) : x = s[i]
        BY <2>2
      <3>2. i \in 1 .. Len(s) + Len(t) /\ i <= Len(s)
        BY <2>3
      <3>3. (s \o t)[i] = x
        BY <2>4, <3>1, <3>2
      <3> QED
        BY <2>1, <3>2, <3>3
    <2>7. ASSUME NEW x \in ToSet(t)
          PROVE  x \in ToSet(s \o t)
      <3>1. PICK i \in 1 .. Len(t) : x = t[i]
        BY <2>2
      <3>2. i + Len(s) \in 1 .. Len(s) + Len(t) /\ ~(i + Len(s) <= Len(s))
            /\ (i + Len(s)) - Len(s) = i
        BY <2>3
      <3>3. (s \o t)[i + Len(s)] = x
        BY <2>4, <3>1, <3>2
      <3> QED
        BY <2>1, <3>2, <3>3
    <2> QED
      BY <2>5, <2>6, <2>7
  <1> QED
    BY <1>1, <1>2, <1>3, <1>4

\* The members of a sequence and of one more.
LEMMA ToSetAppend ==
    ASSUME NEW S, NEW s \in Seq(S), NEW e \in S
    PROVE  ToSet(Append(s, e)) = ToSet(s) \cup {e}
  <1>1. Append(s, e) = s \o <<e>> /\ <<e>> \in Seq(S)
    BY AppendIsConcat, SingletonAppend
  <1>2. ToSet(<<e>>) = {e}
    BY ToSetFacts
  <1>3. ToSet(s \o <<e>>) = ToSet(s) \cup ToSet(<<e>>)
    <2>1. \A q, r \in Seq(S) : ToSet(q \o r) = ToSet(q) \cup ToSet(r)
      BY ToSetFacts
    <2> QED
      BY <1>1, <2>1, Zenon
  <1> QED
    BY <1>1, <1>2, <1>3

\* The members of what is flattened are those of its members.
LEMMA FlattenToSet ==
    ASSUME NEW S, NEW s \in Seq(Seq(S))
    PROVE  ToSet(FlattenSeq(s)) = UNION { ToSet(e) : e \in ToSet(s) }
  <1> DEFINE P == { u \in Seq(Seq(S)) : ToSet(FlattenSeq(u)) = UNION { ToSet(e) : e \in ToSet(u) } }
  <1>1. <<>> \in P
    <2>1. FlattenSeq(<<>>) = <<>> /\ ToSet(<<>>) = {} /\ <<>> \in Seq(Seq(S))
      BY FlattenFacts, ToSetFacts, EmptySeq
    <2> QED
      BY <2>1
  <1>2. ASSUME NEW u \in Seq(Seq(S)), NEW e \in Seq(S), u \in P
        PROVE  Append(u, e) \in P
    <2>1. FlattenSeq(Append(u, e)) = FlattenSeq(u) \o e /\ FlattenSeq(u) \in Seq(S)
      BY FlattenFacts
    <2>2. ToSet(FlattenSeq(u) \o e) = ToSet(FlattenSeq(u)) \cup ToSet(e)
      BY <2>1, ToSetFacts
    <2>4. ToSet(Append(u, e)) = ToSet(u) \cup {e}
      BY ToSetAppend
    <2>5. Append(u, e) \in Seq(Seq(S))
      BY AppendProperties
    <2>6. ToSet(FlattenSeq(u)) = UNION { ToSet(d) : d \in ToSet(u) }
      BY <1>2
    <2> QED
      BY <2>1, <2>2, <2>4, <2>5, <2>6
  <1> HIDE DEF P
  <1>3. s \in P
    BY <1>1, <1>2, AppendingOn
  <1> QED
    BY <1>3 DEF P

----------------------------------------------------------------------------
(* Varints. *)

\* The bytes, as bounds.
LEMMA ByteFacts == \A b : b \in Byte <=> b \in Nat /\ b <= 255
  BY SMT DEF Byte

\* The values, as bounds.
LEMMA ValueFacts == /\ MaxValue = 2147483647
                    /\ \A n : n \in Value <=> n \in Nat /\ n <= MaxValue
  <1>1. MaxValue = 2147483647
    BY SMT DEF MaxValue
  <1>2. MaxValue \in Nat
    BY <1>1, SMT
  <1>3. \A n : n \in Value <=> n \in Nat /\ n <= MaxValue
    BY <1>2, SMT DEF Value
  <1> QED
    BY <1>1, <1>3

\* A value is a natural number.
LEMMA ValueNat == \A n \in Value : n \in Nat
  BY ValueFacts, SMT

\* The powers of 128 in a varint.
LEMMA PowerFacts ==
    /\ Power128[1] = 1 /\ Power128[2] = 128 /\ Power128[3] = 16384
    /\ Power128[4] = 2097152 /\ Power128[5] = 268435456
  BY SMT DEF Power128

\* A value below 128^k takes at most k bytes.
LEMMA VarintSizes ==
    ASSUME NEW n \in Value
    PROVE  VarintSize(n) = IF n < 128 THEN 1 ELSE IF n < 16384 THEN 2
                           ELSE IF n < 2097152 THEN 3 ELSE IF n < 268435456 THEN 4 ELSE 5
  <1> DEFINE last == IF n < 128 THEN 1 ELSE IF n < 16384 THEN 2
                     ELSE IF n < 2097152 THEN 3 ELSE IF n < 268435456 THEN 4 ELSE 5
             groups == { i \in 2 .. 5 : n >= Power128[i] }
  <1>1. last \in 1 .. 5
    BY SMT
  <1>2. ASSUME NEW i \in 2 .. 5
        PROVE  n >= Power128[i] <=> i <= last
    <2>1. i = 2 \/ i = 3 \/ i = 4 \/ i = 5
      OBVIOUS
    <2>2. n \in Nat
      BY ValueFacts
    <2>3. CASE i = 2
      BY <2>2, <2>3, PowerFacts, SMT
    <2>4. CASE i = 3
      BY <2>2, <2>4, PowerFacts, SMT
    <2>5. CASE i = 4
      BY <2>2, <2>5, PowerFacts, SMT
    <2>6. CASE i = 5
      BY <2>2, <2>6, PowerFacts, SMT
    <2> QED
      BY <2>1, <2>3, <2>4, <2>5, <2>6
  <1> HIDE DEF last
  <1>3. groups = 2 .. last
    BY <1>1, <1>2
  <1>4. Cardinality(2 .. last) = last - 1
    <2>1. 2 \in Int /\ last \in Int
      BY <1>1
    <2>2. Cardinality(2 .. last) = IF 2 > last THEN 0 ELSE last - 2 + 1
      BY <2>1, FS_Interval
    <2> QED
      BY <1>1, <2>2
  <1>5. VarintSize(n) = 1 + Cardinality(groups)
    BY DEF VarintSize
  <1> HIDE DEF groups
  <1>6. VarintSize(n) = last
    BY <1>1, <1>3, <1>4, <1>5
  <1> QED
    BY <1>6, SMT DEF last

\* A varint is as long as its size says; its bytes are the digits of the value
\* in base 128.
LEMMA VarintBytes ==
    ASSUME NEW n \in Value
    PROVE  /\ VarintSize(n) \in 1 .. 5
           /\ Varint(n) \in Text /\ Len(Varint(n)) = VarintSize(n)
           /\ \A i \in 1 .. VarintSize(n) :
                /\ Varint(n)[i] = ((n \div Power128[i]) % 128)
                                      + (IF i < VarintSize(n) THEN 128 ELSE 0)
                /\ (n \div Power128[i]) % 128 \in 0 .. 127
  <1>1. VarintSize(n) \in 1 .. 5
    BY VarintSizes, SMT
  <1>2. ASSUME NEW i \in 1 .. VarintSize(n)
        PROVE  (n \div Power128[i]) % 128 \in 0 .. 127
    <2>1. i = 1 \/ i = 2 \/ i = 3 \/ i = 4 \/ i = 5
      BY <1>1
    <2>2. n \in Nat
      BY ValueFacts
    <2>3. Power128[i] \in Nat /\ Power128[i] > 0
      BY <2>1, PowerFacts, SMT
    <2>4. n \div Power128[i] \in Nat
      BY <2>2, <2>3, SMT
    <2> QED
      BY <2>4
  <1>3. ASSUME NEW i \in 1 .. VarintSize(n)
        PROVE  ((n \div Power128[i]) % 128) + (IF i < VarintSize(n) THEN 128 ELSE 0) \in Byte
    BY <1>1, <1>2, SMTT(40) DEF Byte
  <1>4. Varint(n) = [i \in 1 .. VarintSize(n) |->
                        ((n \div Power128[i]) % 128) + (IF i < VarintSize(n) THEN 128 ELSE 0)]
    BY DEF Varint, Groups
  <1>5. Varint(n) \in Text /\ Len(Varint(n)) = VarintSize(n)
    BY <1>1, <1>3, <1>4 DEF Text
  <1> QED
    BY <1>1, <1>2, <1>4, <1>5

\* A sum of at most five numbers, written out.
LEMMA SumOfFive ==
    ASSUME NEW s \in Seq(Int), Len(s) <= 5
    PROVE  SumOf(s) = (IF 1 <= Len(s) THEN s[1] ELSE 0) + (IF 2 <= Len(s) THEN s[2] ELSE 0)
                        + (IF 3 <= Len(s) THEN s[3] ELSE 0) + (IF 4 <= Len(s) THEN s[4] ELSE 0)
                        + (IF 5 <= Len(s) THEN s[5] ELSE 0)
  <1>1. PICK f : f \in Sums(s)
    BY SumsExist
  <1>2. /\ f[0] = 0
        /\ \A k \in 0 .. Len(s) - 1 : f[k + 1] = f[k] + s[k + 1]
    BY <1>1 DEF Sums
  <1>3. SumOf(s) = f[Len(s)]
    BY <1>1, SumIsLast
  <1>4. Len(s) \in 0 .. 5
    <2>1. Len(s) \in Nat
      BY LenProperties
    <2>2. \A k \in Nat : k <= 5 => k \in 0 .. 5
      OBVIOUS
    <2> QED
      BY <2>1, <2>2, Zenon
  <1>5. \A k \in 1 .. Len(s) : s[k] \in Int
    BY ElementOfSeq
  <1>6. 1 <= Len(s) => f[1] = s[1]
    BY <1>2, <1>4, <1>5
  <1>7. 2 <= Len(s) => f[2] = s[1] + s[2]
    BY <1>2, <1>4, <1>5, <1>6
  <1>8. 3 <= Len(s) => f[3] = s[1] + s[2] + s[3]
    BY <1>2, <1>4, <1>5, <1>7
  <1>9. 4 <= Len(s) => f[4] = s[1] + s[2] + s[3] + s[4]
    BY <1>2, <1>4, <1>5, <1>8
  <1>10. 5 <= Len(s) => f[5] = s[1] + s[2] + s[3] + s[4] + s[5]
    BY <1>2, <1>4, <1>5, <1>9
  <1> QED
    BY <1>2, <1>3, <1>4, <1>5, <1>6, <1>7, <1>8, <1>9, <1>10, SMTT(40)

\* Seven bits at a time make up the number.
LEMMA SevenBits ==
    ASSUME NEW n \in Nat
    PROVE  /\ (n < 128) => n % 128 = n
           /\ (n < 16384) => (n % 128) + ((n \div 128) % 128) * 128 = n
           /\ (n < 2097152) =>
                (n % 128) + ((n \div 128) % 128) * 128 + ((n \div 16384) % 128) * 16384 = n
           /\ (n < 268435456) =>
                (n % 128) + ((n \div 128) % 128) * 128 + ((n \div 16384) % 128) * 16384
                    + ((n \div 2097152) % 128) * 2097152 = n
           /\ (n <= 2147483647) =>
                /\ (n % 128) + ((n \div 128) % 128) * 128 + ((n \div 16384) % 128) * 16384
                    + ((n \div 2097152) % 128) * 2097152
                    + ((n \div 268435456) % 128) * 268435456 = n
                /\ (n \div 268435456) % 128 < 8
  BY SMT

\* Adding or removing the bit that says a varint goes on.
LEMMA LowBits ==
    ASSUME NEW g \in Nat, g < 128
    PROVE  (g + 128) % 128 = g /\ g % 128 = g /\ (g < 8 => g % 8 = g)
  BY SMT

\* The value of the bytes of a varint is what was written.
LEMMA VarintValue ==
    ASSUME NEW n \in Value, NEW text \in Text, NEW size, size = VarintSize(n),
           \A i \in 1 .. size : i \in 1 .. Len(text) /\ text[i] = Varint(n)[i]
    PROVE  VarintUpTo(text, size) = n
  <1> DEFINE group(i) == (n \div Power128[i]) % 128
             q == [i \in 1 .. size |-> (text[i] % (IF i < 5 THEN 128 ELSE 8)) * Power128[i]]
  <1>1. /\ size \in 1 .. 5
        /\ \A i \in 1 .. size : /\ Varint(n)[i] = group(i) + (IF i < size THEN 128 ELSE 0)
                                /\ group(i) \in 0 .. 127
    BY VarintBytes, ZenonT(60)
  <1>2. n \in Nat /\ n <= 2147483647
    BY ValueFacts
  <1>3. ASSUME NEW i \in 1 .. size
        PROVE  q[i] = group(i) * Power128[i] /\ q[i] \in Int
    <2>1. i \in 1 .. 5 /\ Power128[i] \in Nat
      <3>1. i = 1 \/ i = 2 \/ i = 3 \/ i = 4 \/ i = 5
        BY <1>1
      <3> QED
        BY <3>1, PowerFacts, SMT
    <2>2. text[i] = group(i) + (IF i < size THEN 128 ELSE 0) /\ group(i) \in 0 .. 127
      BY <1>1
    <2>3. i = 5 => group(i) < 8
      BY <1>2, PowerFacts, SevenBits, SMT
    <2>4. PICK g \in Nat : g = group(i) /\ g < 128
      BY <2>2
    <2>5. PICK p \in Nat : p = Power128[i]
      BY <2>1
    <2> HIDE DEF group
    <2>6. text[i] = g + (IF i < size THEN 128 ELSE 0) /\ (i = 5 => g < 8)
      BY <2>2, <2>3, <2>4
    <2>7. text[i] % (IF i < 5 THEN 128 ELSE 8) = g
      <3>1. CASE i < size
        <4>1. i < 5
          BY <1>1, <3>1
        <4>2. text[i] = g + 128
          BY <2>6, <3>1
        <4> QED
          BY <2>4, <4>1, <4>2, LowBits
      <3>2. CASE ~(i < size) /\ i < 5
        BY <2>4, <2>6, <3>2, LowBits
      <3>3. CASE ~(i < size) /\ i = 5
        BY <2>4, <2>6, <3>3, LowBits
      <3> QED
        BY <2>1, <3>1, <3>2, <3>3
    <2>8. q[i] = (text[i] % (IF i < 5 THEN 128 ELSE 8)) * Power128[i]
      OBVIOUS
    <2> HIDE DEF q
    <2>9. q[i] = g * p
      BY <2>5, <2>7, <2>8
    <2> QED
      BY <2>4, <2>5, <2>9
  <1>4. q \in Seq(Int) /\ Len(q) = size
    BY <1>1, <1>3
  <1>5. VarintUpTo(text, size) = SumOf(q)
    <2>1. (IF size < 5 THEN size ELSE 5) = size
      BY <1>1
    <2> QED
      BY <2>1 DEF VarintUpTo
  <1> HIDE DEF q
  <1>6. SumOf(q) = (IF 1 <= size THEN q[1] ELSE 0) + (IF 2 <= size THEN q[2] ELSE 0)
                        + (IF 3 <= size THEN q[3] ELSE 0) + (IF 4 <= size THEN q[4] ELSE 0)
                        + (IF 5 <= size THEN q[5] ELSE 0)
    <2>1. Len(q) <= 5
      BY <1>1, <1>4
    <2>2. SumOf(q) = (IF 1 <= Len(q) THEN q[1] ELSE 0) + (IF 2 <= Len(q) THEN q[2] ELSE 0)
                        + (IF 3 <= Len(q) THEN q[3] ELSE 0) + (IF 4 <= Len(q) THEN q[4] ELSE 0)
                        + (IF 5 <= Len(q) THEN q[5] ELSE 0)
      BY <1>4, <2>1, SumOfFive
    <2> QED
      BY <1>4, <2>2
  <1>7. /\ 1 <= size => q[1] = n % 128
        /\ 2 <= size => q[2] = ((n \div 128) % 128) * 128
        /\ 3 <= size => q[3] = ((n \div 16384) % 128) * 16384
        /\ 4 <= size => q[4] = ((n \div 2097152) % 128) * 2097152
        /\ 5 <= size => q[5] = ((n \div 268435456) % 128) * 268435456
    <2>1. \A i \in 1 .. size : q[i] = ((n \div Power128[i]) % 128) * Power128[i]
      BY <1>3
    <2>2. n \div 1 = n
      BY <1>2, SMT
    <2>3. (n % 128) * 1 = n % 128
      BY <1>2, SMT
    <2>4. 1 <= size => q[1] = n % 128
      BY <1>1, <2>1, <2>2, <2>3, PowerFacts, SMT
    <2>5. 2 <= size => q[2] = ((n \div 128) % 128) * 128
      BY <1>1, <2>1, PowerFacts, SMT
    <2>6. 3 <= size => q[3] = ((n \div 16384) % 128) * 16384
      BY <1>1, <2>1, PowerFacts, SMT
    <2>7. 4 <= size => q[4] = ((n \div 2097152) % 128) * 2097152
      BY <1>1, <2>1, PowerFacts, SMT
    <2>8. 5 <= size => q[5] = ((n \div 268435456) % 128) * 268435456
      BY <1>1, <2>1, PowerFacts, SMT
    <2> QED
      BY <2>4, <2>5, <2>6, <2>7, <2>8, SMT
  <1>8. size = IF n < 128 THEN 1 ELSE IF n < 16384 THEN 2
               ELSE IF n < 2097152 THEN 3 ELSE IF n < 268435456 THEN 4 ELSE 5
    BY VarintSizes, SMT
  <1>9. SumOf(q) = n
    <2>1. CASE n < 128
      BY <1>2, <1>6, <1>7, <1>8, <2>1, SevenBits, SMT
    <2>2. CASE ~(n < 128) /\ n < 16384
      BY <1>2, <1>6, <1>7, <1>8, <2>2, SevenBits, SMT
    <2>3. CASE ~(n < 16384) /\ n < 2097152
      BY <1>2, <1>6, <1>7, <1>8, <2>3, SevenBits, SMT
    <2>4. CASE ~(n < 2097152) /\ n < 268435456
      BY <1>2, <1>6, <1>7, <1>8, <2>4, SevenBits, SMT
    <2>5. CASE ~(n < 268435456)
      BY <1>2, <1>6, <1>7, <1>8, <2>5, SevenBits, SMT
    <2> QED
      BY <1>2, <2>1, <2>2, <2>3, <2>4, <2>5, SMT
  <1> QED
    BY <1>5, <1>9

\* What is behind the first of two sequences is the second.
LEMMA BehindConcat ==
    ASSUME NEW S, NEW s \in Seq(S), NEW t \in Seq(S)
    PROVE  Behind(s \o t, Len(s)) = t /\ SubSeq(s \o t, 1, Len(s)) = s
  <1>1. Len(s) \in Nat /\ Len(t) \in Nat
    BY LenProperties
  <1>2. /\ s \o t \in Seq(S) /\ Len(s \o t) = Len(s) + Len(t)
        /\ \A i \in 1 .. Len(s) + Len(t) :
              (s \o t)[i] = IF i <= Len(s) THEN s[i] ELSE t[i - Len(s)]
    BY ConcatProperties
  <1>3. SubSeq(s \o t, Len(s) + 1, Len(s \o t)) = t
    BY <1>1, <1>2
  <1>4. SubSeq(s \o t, 1, Len(s)) = s
    BY <1>1, <1>2
  <1> QED
    BY <1>3, <1>4 DEF Behind

\* What is behind a part of a sequence is a sequence, shorter by that part.
LEMMA BehindFacts ==
    ASSUME NEW S, NEW s \in Seq(S), NEW n \in 0 .. Len(s)
    PROVE  Behind(s, n) \in Seq(S) /\ Len(Behind(s, n)) = Len(s) - n
  <1>1. Len(s) \in Nat
    BY LenProperties
  <1> QED
    BY <1>1 DEF Behind

\* What the head of any text is.
LEMMA HeadFacts ==
    ASSUME NEW text \in Text
    PROVE  /\ HeadOf(text).ends \in BOOLEAN /\ HeadOf(text).value \in Nat
           /\ HeadOf(text).rest \in Text
           /\ HeadOf(text).ends => Len(HeadOf(text).rest) < Len(text)
           /\ ~HeadOf(text).ends => HeadOf(text).rest = text
  <1> DEFINE end == VarintEnd(text)
             low == IF end < 5 THEN end ELSE 5
             q == [i \in 1 .. low |-> (text[i] % (IF i < 5 THEN 128 ELSE 8)) * Power128[i]]
  <1>1. Len(text) \in Nat /\ \A i \in 1 .. Len(text) : text[i] \in Nat
    <2>1. \A i \in 1 .. Len(text) : text[i] \in Byte
      BY ElementOfSeq DEF Text
    <2>2. Len(text) \in Nat
      BY LenProperties DEF Text
    <2> QED
      BY <2>1, <2>2, ByteFacts
  <1>2. end \in 0 .. Len(text)
    <2>1. CASE \E i \in 1 .. Len(text) : i <= 10 /\ text[i] < 128
      <3> DEFINE short == { i \in 1 .. Len(text) : text[i] < 128 }
      <3>1. short \in SUBSET Nat /\ short # {}
        BY <2>1
      <3>2. PICK m \in short : \A k \in short : m <= k
        BY <3>1, SmallestExists
      <3>3. m \in 1 .. Len(text) /\ text[m] < 128
        BY <3>2
      <3>4. \A j \in 1 .. m - 1 : j \in 1 .. Len(text) /\ ~(j \in short)
        BY <1>1, <3>2, <3>3
      <3>5. \A j \in 1 .. m - 1 : text[j] >= 128
        BY <1>1, <3>4
      <3>6. end \in 1 .. Len(text)
        BY <2>1, <3>3, <3>5 DEF VarintEnd
      <3> QED
        BY <1>1, <3>6
    <2>2. CASE ~(\E i \in 1 .. Len(text) : i <= 10 /\ text[i] < 128)
      BY <1>1, <2>2 DEF VarintEnd
    <2> QED
      BY <2>1, <2>2
  <1>3. VarintUpTo(text, end) \in Nat
    <2>1. low \in Nat /\ low <= Len(text) /\ low <= 5
      BY <1>1, <1>2
    <2> HIDE DEF low
    <2>2. ASSUME NEW i \in 1 .. low
          PROVE  q[i] \in Nat
      <3>1. i \in 1 .. Len(text) /\ i \in Nat /\ i <= 5 /\ i >= 1
        BY <1>1, <2>1
      <3>2. PICK b \in Nat : b = text[i]
        BY <1>1, <3>1
      <3>3. PICK p \in Nat : p = Power128[i]
        <4>1. i = 1 \/ i = 2 \/ i = 3 \/ i = 4 \/ i = 5
          BY <3>1
        <4> QED
          BY <4>1, PowerFacts, SMT
      <3>4. PICK m \in Nat : m = (IF i < 5 THEN 128 ELSE 8) /\ m > 0
        OBVIOUS
      <3>5. q[i] = (b % m) * p
        BY <3>2, <3>3, <3>4
      <3>6. b % m \in Nat
        BY <3>4
      <3> QED
        BY <3>5, <3>6
    <2>3. q \in Seq(Nat)
      BY <2>1, <2>2
    <2>4. VarintUpTo(text, end) = SumOf(q)
      BY DEF VarintUpTo, low
    <2> HIDE DEF q
    <2> QED
      BY <2>3, <2>4, SumBounds
  <1>4. HeadOf(text) = [ends |-> end > 0, value |-> VarintUpTo(text, end),
                        rest |-> Behind(text, end)]
    BY DEF HeadOf, HeadTo
  <1> HIDE DEF end
  <1>5. Behind(text, end) \in Text /\ Len(Behind(text, end)) = Len(text) - end
    BY <1>2, BehindFacts DEF Text
  <1>6. end = 0 => Behind(text, end) = text
    BY <1>1 DEF Behind, Text
  <1>7. /\ HeadOf(text).ends = (end > 0) /\ HeadOf(text).value = VarintUpTo(text, end)
        /\ HeadOf(text).rest = Behind(text, end)
    BY <1>4
  <1>8. end > 0 => Len(text) - end < Len(text)
    BY <1>1, <1>2
  <1>9. ~(end > 0) => end = 0
    BY <1>2
  <1>10. HeadOf(text).ends \in BOOLEAN
    BY <1>7
  <1>11. HeadOf(text).value \in Nat /\ HeadOf(text).rest \in Text
    BY <1>3, <1>5, <1>7
  <1>12. HeadOf(text).ends => Len(HeadOf(text).rest) < Len(text)
    BY <1>5, <1>7, <1>8
  <1>13. ~HeadOf(text).ends => HeadOf(text).rest = text
    BY <1>6, <1>7, <1>9
  <1> QED
    BY <1>10, <1>11, <1>12, <1>13

\* A varint is read as it was written, and what follows it is left.
LEMMA HeadOfVarint ==
    ASSUME NEW n \in Value, NEW rest \in Text
    PROVE  HeadOf(Varint(n) \o rest) = [ends |-> TRUE, value |-> n, rest |-> rest]
  <1> DEFINE v == Varint(n)
             size == VarintSize(n)
             text == v \o rest
  <1>1. /\ size \in 1 .. 5 /\ v \in Text /\ Len(v) = size
        /\ \A i \in 1 .. size :
              /\ v[i] = ((n \div Power128[i]) % 128) + (IF i < size THEN 128 ELSE 0)
              /\ (n \div Power128[i]) % 128 \in 0 .. 127
    BY VarintBytes
  <1>2. /\ text \in Text /\ Len(text) = size + Len(rest) /\ Len(rest) \in Nat
        /\ \A i \in 1 .. size : i \in 1 .. Len(text) /\ text[i] = v[i]
    <2>1. Len(rest) \in Nat
      BY LenProperties DEF Text
    <2>2. /\ text \in Text /\ Len(text) = Len(v) + Len(rest)
          /\ \A i \in 1 .. Len(v) + Len(rest) :
                text[i] = IF i <= Len(v) THEN v[i] ELSE rest[i - Len(v)]
      BY <1>1, ConcatProperties, SMTT(40) DEF Text
    <2> QED
      BY <1>1, <2>1, <2>2
  <1>3. VarintUpTo(text, size) = n
    BY <1>2, VarintValue
  <1>4. Behind(text, size) = rest
    BY <1>1, BehindConcat DEF Text
  <1> HIDE DEF v, size, text
  <1>5. \A i \in 1 .. size : (text[i] < 128) = (i = size)
    <2> SUFFICES ASSUME NEW i \in 1 .. size
                 PROVE  (text[i] < 128) = (i = size)
      OBVIOUS
    <2>1. PICK g \in Nat : g = (n \div Power128[i]) % 128 /\ g <= 127
      BY <1>1
    <2>2. text[i] = g + (IF i < size THEN 128 ELSE 0)
      BY <1>1, <1>2, <2>1
    <2> QED
      BY <1>1, <2>1, <2>2
  <1>6. VarintEnd(text) = size
    <2>1. \E i \in 1 .. Len(text) : i <= 10 /\ text[i] < 128
      BY <1>1, <1>2, <1>5
    <2>2. \A i \in 1 .. Len(text) : text[i] \in Int
      <3>1. \A i \in 1 .. Len(text) : text[i] \in Byte
        BY <1>2, ElementOfSeq DEF Text
      <3> QED
        BY <3>1, ByteFacts
    <2>3. size \in 1 .. Len(text) /\ text[size] < 128 /\ \A j \in 1 .. size - 1 : text[j] >= 128
      <3>1. size \in 1 .. size
        BY <1>1
      <3>2. ASSUME NEW j \in 1 .. size - 1
            PROVE  text[j] >= 128
        <4>1. j \in 1 .. size /\ j # size /\ j \in 1 .. Len(text)
          BY <1>1, <1>2
        <4>2. ~(text[j] < 128) /\ text[j] \in Int
          BY <1>5, <2>2, <4>1
        <4> QED
          BY <4>2
      <3> QED
        BY <1>2, <1>5, <3>1, <3>2
    <2>4. ASSUME NEW i \in 1 .. Len(text), text[i] < 128, \A j \in 1 .. i - 1 : text[j] >= 128
          PROVE  i = size
      <3>1. ~(i < size)
        BY <1>1, <1>5, <2>4
      <3>2. ~(size < i)
        <4>1. size < i => size \in 1 .. i - 1
          BY <1>1
        <4>2. text[size] \in Int
          BY <2>2, <2>3
        <4> QED
          BY <2>3, <2>4, <4>1, <4>2
      <3> QED
        BY <1>1, <3>1, <3>2
    <2>5. VarintEnd(text) = CHOOSE i \in 1 .. Len(text) :
                                text[i] < 128 /\ \A j \in 1 .. i - 1 : text[j] >= 128
      BY <2>1 DEF VarintEnd
    <2> QED
      BY <2>3, <2>4, <2>5
  <1>7. HeadOf(text) = [ends |-> size > 0, value |-> n, rest |-> rest]
    BY <1>3, <1>4, <1>6 DEF HeadOf, HeadTo
  <1>8. (size > 0) = TRUE
    BY <1>1
  <1>9. HeadOf(text) = [ends |-> TRUE, value |-> n, rest |-> rest]
    BY <1>7, <1>8
  <1> QED
    BY <1>9 DEF text, v

\* Only the varint of 0 has a zero byte.
LEMMA VarintZero ==
    ASSUME NEW n \in Value
    PROVE  (0 \in ToSet(Varint(n))) = (n = 0)
  <1> DEFINE v == Varint(n)
             size == VarintSize(n)
  <1>1. /\ size \in 1 .. 5 /\ v \in Text /\ Len(v) = size
        /\ \A i \in 1 .. size :
              /\ v[i] = ((n \div Power128[i]) % 128) + (IF i < size THEN 128 ELSE 0)
              /\ (n \div Power128[i]) % 128 \in 0 .. 127
    BY VarintBytes
  <1>2. ToSet(v) = { v[i] : i \in 1 .. size }
    BY <1>1, ToSetFacts DEF Text
  <1>3. n \in Nat /\ n <= 2147483647
    BY ValueFacts
  <1>4. size = IF n < 128 THEN 1 ELSE IF n < 16384 THEN 2
               ELSE IF n < 2097152 THEN 3 ELSE IF n < 268435456 THEN 4 ELSE 5
    BY VarintSizes, SMT
  <1> HIDE DEF v, size
  <1>5. ((n \div Power128[size]) % 128 = 0) = (n = 0)
    <2>1. CASE n < 128
      BY <1>3, <1>4, <2>1, PowerFacts, SMT
    <2>2. CASE ~(n < 128) /\ n < 16384
      BY <1>3, <1>4, <2>2, PowerFacts, SMT
    <2>3. CASE ~(n < 16384) /\ n < 2097152
      BY <1>3, <1>4, <2>3, PowerFacts, SMT
    <2>4. CASE ~(n < 2097152) /\ n < 268435456
      BY <1>3, <1>4, <2>4, PowerFacts, SMT
    <2>5. CASE ~(n < 268435456)
      BY <1>3, <1>4, <2>5, PowerFacts, SMT
    <2> QED
      BY <1>3, <2>1, <2>2, <2>3, <2>4, <2>5, SMT
  <1>6. size \in 1 .. size /\ v[size] = (n \div Power128[size]) % 128
    <2>1. size \in 1 .. size /\ ~(size < size)
      BY <1>1
    <2>2. PICK g \in Nat : g = (n \div Power128[size]) % 128
      BY <1>1, <2>1
    <2>3. v[size] = g + 0
      BY <1>1, <2>1, <2>2
    <2> QED
      BY <2>1, <2>2, <2>3
  <1>7. \A i \in 1 .. size : i # size => v[i] # 0
    <2> SUFFICES ASSUME NEW i \in 1 .. size, i # size
                 PROVE  v[i] # 0
      OBVIOUS
    <2>1. PICK g \in Nat : g = (n \div Power128[i]) % 128
      BY <1>1
    <2>2. i < size
      BY <1>1
    <2>3. v[i] = g + 128
      BY <1>1, <2>1, <2>2
    <2> QED
      BY <2>3
  <1>8. (0 \in ToSet(v)) = (n = 0)
    BY <1>2, <1>5, <1>6, <1>7
  <1> QED
    BY <1>8 DEF v

----------------------------------------------------------------------------
(* Reading the varints and the fields of a text, one after the other. *)

\* Texts have lengths, and only the empty one has length 0.
LEMMA TextFacts ==
    /\ <<>> \in Text /\ Len(<<>>) = 0
    /\ \A t \in Text : Len(t) \in Nat /\ (Len(t) = 0) = (t = <<>>)
  <1>1. \A t \in Text : Len(t) \in Nat
    BY LenProperties DEF Text
  <1>2. \A t \in Text : (Len(t) = 0) = (t = <<>>)
    BY EmptySeq DEF Text
  <1> QED
    BY <1>1, <1>2, EmptySeq DEF Text

\* The equation that defines Varints: its recursion ends, for the rest is
\* shorter.
LEMMA VarintsEquation ==
    \A text \in Text :
        Varints[text] = IF HeadOf(text).ends
                        THEN <<HeadOf(text).value>> \o Varints[HeadOf(text).rest]
                        ELSE <<>>
  <1> DEFINE Rec(g) == [text \in Text |-> IF HeadOf(text).ends
                             THEN <<HeadOf(text).value>> \o g[HeadOf(text).rest] ELSE <<>>]
             size == [text \in Text |-> IF HeadOf(text).ends THEN Len(text) ELSE 0]
             head == [text \in Text |-> <<HeadOf(text).value>>]
             next == [text \in Text |-> HeadOf(text).rest]
  <1>1. Reader(Text, Int, size, head, next)
    <2>1. \A t \in Text : size[t] \in Nat
      BY TextFacts
    <2>2. \A t \in Text : head[t] \in Seq(Int)
      BY HeadFacts, SingletonAppend
    <2>3. \A t \in Text : next[t] \in Text
      BY HeadFacts
    <2>4. ASSUME NEW t \in Text, size[t] # 0
          PROVE  size[next[t]] < size[t]
      <3>1. HeadOf(t).ends /\ size[t] = Len(t)
        BY <2>4
      <3>2. next[t] \in Text /\ Len(next[t]) < Len(t)
        BY <3>1, HeadFacts
      <3>3. size[next[t]] = Len(next[t]) \/ size[next[t]] = 0
        BY <3>2
      <3>4. Len(next[t]) \in Nat /\ Len(t) \in Nat
        BY <3>2, TextFacts
      <3> HIDE DEF size, next
      <3> QED
        BY <3>1, <3>2, <3>3, <3>4
    <2> QED
      BY <2>1, <2>2, <2>3, <2>4 DEF Reader
  <1>2. PICK f : f \in Readings(Text, Int, size, head, next)
    BY <1>1, ReadingExists
  <1>3. \A t \in Text : (size[t] = 0) = ~HeadOf(t).ends
    <2> SUFFICES ASSUME NEW t \in Text
                 PROVE  (size[t] = 0) = ~HeadOf(t).ends
      OBVIOUS
    <2>1. CASE HeadOf(t).ends
      <3>1. Len(HeadOf(t).rest) < Len(t) /\ Len(HeadOf(t).rest) \in Nat /\ Len(t) \in Nat
        BY <2>1, HeadFacts, TextFacts
      <3>2. Len(t) # 0
        BY <3>1
      <3> QED
        BY <2>1, <3>2
    <2>2. CASE ~HeadOf(t).ends
      BY <2>2
    <2> QED
      BY <2>1, <2>2
  <1>4. f = Rec(f)
    <2>1. f \in [Text -> Seq(Int)]
      BY <1>2 DEF Readings
    <2>2. ASSUME NEW t \in Text
          PROVE  f[t] = Rec(f)[t]
      <3>1. f[t] = IF size[t] = 0 THEN <<>> ELSE head[t] \o f[next[t]]
        BY <1>2 DEF Readings
      <3>2. head[t] = <<HeadOf(t).value>> /\ next[t] = HeadOf(t).rest
        OBVIOUS
      <3> HIDE DEF size, head, next
      <3> QED
        BY <1>3, <3>1, <3>2
    <2>3. DOMAIN Rec(f) = Text /\ Rec(f) = [t \in Text |-> Rec(f)[t]]
      OBVIOUS
    <2> HIDE DEF Rec
    <2>4. f = [t \in Text |-> f[t]]
      BY <2>1
    <2>5. [t \in Text |-> f[t]] = [t \in Text |-> Rec(f)[t]]
      BY <2>2
    <2> QED
      BY <2>3, <2>4, <2>5
  <1>5. Varints = CHOOSE g : g = Rec(g)
    BY DEF Varints
  <1>6. Varints = Rec(Varints)
    <2> HIDE DEF Rec
    <2> QED
      BY <1>4, <1>5
  <1> QED
    <2>1. \A text \in Text : Rec(Varints)[text] = IF HeadOf(text).ends
                        THEN <<HeadOf(text).value>> \o Varints[HeadOf(text).rest] ELSE <<>>
      OBVIOUS
    <2> HIDE DEF Rec
    <2> QED
      BY <1>6, <2>1

\* Varints reads what was written, varint by varint.
LEMMA VarintsFacts ==
    /\ Varints[<<>>] = <<>>
    /\ \A n \in Value, rest \in Text : Varints[Varint(n) \o rest] = <<n>> \o Varints[rest]
  <1>1. ~HeadOf(<<>>).ends
    <2>1. HeadOf(<<>>).ends => Len(HeadOf(<<>>).rest) < Len(<<>>) /\ Len(HeadOf(<<>>).rest) \in Nat
      BY TextFacts, HeadFacts
    <2>2. Len(<<>>) = 0
      BY TextFacts
    <2> QED
      BY <2>1, <2>2
  <1>2. Varints[<<>>] = <<>>
    BY <1>1, TextFacts, VarintsEquation
  <1>3. ASSUME NEW n \in Value, NEW rest \in Text
        PROVE  Varints[Varint(n) \o rest] = <<n>> \o Varints[rest]
    <2>1. Varint(n) \o rest \in Text
      BY VarintBytes, ConcatProperties DEF Text
    <2>2. HeadOf(Varint(n) \o rest) = [ends |-> TRUE, value |-> n, rest |-> rest]
      BY HeadOfVarint
    <2>3. /\ HeadOf(Varint(n) \o rest).ends /\ HeadOf(Varint(n) \o rest).value = n
          /\ HeadOf(Varint(n) \o rest).rest = rest
      BY <2>2
    <2> QED
      BY <2>1, <2>3, VarintsEquation
  <1> QED
    BY <1>2, <1>3

FieldSet == [number : Nat, wire : Nat, value : Nat, bytes : Text, whole : BOOLEAN]

\* What Field makes is a field.
LEMMA FieldInSet ==
    ASSUME NEW number \in Nat, NEW wire \in Nat, NEW value \in Nat, NEW bytes \in Text,
           NEW whole \in BOOLEAN
    PROVE  /\ Field(number, wire, value, bytes, whole) \in FieldSet
           /\ <<Field(number, wire, value, bytes, whole)>> \in Seq(FieldSet)
  <1>1. Field(number, wire, value, bytes, whole) \in FieldSet
    BY DEF Field, FieldSet
  <1> QED
    BY <1>1, SingletonAppend

\* What the first field of any text is, and that reading it shortens the text.
GoodRead(read, length) ==
    /\ read.fields \in Seq(FieldSet) /\ read.rest \in Text
    /\ Len(read.rest) < length

\* Reading some fields leaves a shorter text.
LEMMA ReadFacts ==
    ASSUME NEW fields \in Seq(FieldSet), NEW rest \in Text, NEW n, Len(rest) < n
    PROVE  GoodRead(Read(fields, rest), n)
  BY DEF GoodRead, Read

\* Reading a run of bytes leaves a shorter text, whether or not the run is
\* whole.
LEMMA RunFacts ==
    ASSUME NEW number \in Nat, NEW length \in Nat, NEW rest \in Text,
           NEW n \in Nat, Len(rest) < n
    PROVE  GoodRead(Run(number, length, rest), n)
  <1>1. Len(rest) \in Nat
    BY TextFacts
  <1>2. CASE length <= Len(rest)
    <2>1. Behind(rest, length) \in Text /\ Len(Behind(rest, length)) = Len(rest) - length
      BY <1>1, <1>2, BehindFacts DEF Text
    <2>2. SubSeq(rest, 1, length) \in Text
      <3>1. \A i \in 1 .. length : rest[i] \in Byte
        BY <1>1, <1>2, ElementOfSeq DEF Text
      <3> QED
        BY <3>1, SubSeqProperties DEF Text
    <2>3. <<Field(number, 2, length, SubSeq(rest, 1, length), TRUE)>> \in Seq(FieldSet)
      BY <2>2, FieldInSet
    <2>4. Len(Behind(rest, length)) < n
      BY <1>1, <2>1
    <2> QED
      BY <1>2, <2>1, <2>3, <2>4 DEF GoodRead, Run, Read
  <1>3. CASE ~(length <= Len(rest))
    <2>1. <<Field(number, 2, length, rest, FALSE)>> \in Seq(FieldSet)
      BY FieldInSet
    <2>2. <<>> \in Text /\ Len(<<>>) < n
      BY <1>1, TextFacts
    <2> QED
      BY <1>3, <2>1, <2>2 DEF GoodRead, Run, Read
  <1> QED
    BY <1>2, <1>3

\* Reading one field leaves a shorter text: every loop over the fields ends.
LEMMA FieldOfFacts ==
    ASSUME NEW text \in Text, text # <<>>
    PROVE  GoodRead(FieldOf(HeadOf(text)), Len(text))
  <1> DEFINE tag == HeadOf(text)
             number == tag.value \div 8
             wire == tag.value % 8
             value == HeadOf(tag.rest)
  <1>1. Len(text) \in Nat /\ Len(text) > 0
    BY TextFacts
  <1>2. tag.value \in Nat /\ tag.rest \in Text /\ Len(tag.rest) \in Nat
        /\ (tag.ends => Len(tag.rest) < Len(text))
    BY HeadFacts, TextFacts
  <1>3. number \in Nat /\ wire \in Nat
    <2>1. PICK v \in Nat : v = tag.value
      BY <1>2
    <2>2. v \div 8 \in Nat /\ v % 8 \in Nat
      BY <2>1
    <2> QED
      BY <2>1, <2>2
  <1>4. value.value \in Nat /\ value.rest \in Text /\ Len(value.rest) \in Nat
        /\ (value.ends => Len(value.rest) < Len(tag.rest))
    BY <1>2, HeadFacts, TextFacts
  <1>5. FieldOf(HeadOf(text)) = FieldIn(tag, number, wire, value)
    BY DEF FieldOf
  <1> HIDE DEF tag, number, wire, value
  <1>6. CASE tag.ends /\ number > 0 /\ wire = 0 /\ value.ends
    <2>1. FieldIn(tag, number, wire, value) =
            Read(<<Field(number, 0, value.value, <<>>, TRUE)>>, value.rest)
      BY <1>6 DEF FieldIn
    <2>2. <<Field(number, 0, value.value, <<>>, TRUE)>> \in Seq(FieldSet)
      BY <1>3, <1>4, FieldInSet, TextFacts
    <2>3. Len(value.rest) < Len(text)
      BY <1>1, <1>2, <1>4, <1>6
    <2> QED
      BY <1>4, <1>5, <2>1, <2>2, <2>3, ReadFacts
  <1>7. CASE tag.ends /\ number > 0 /\ wire = 2 /\ value.ends
    <2>1. FieldIn(tag, number, wire, value) = Run(number, value.value, value.rest)
      BY <1>7 DEF FieldIn
    <2>2. Len(value.rest) < Len(text)
      BY <1>1, <1>2, <1>4, <1>7
    <2>3. GoodRead(Run(number, value.value, value.rest), Len(text))
      BY <1>1, <1>3, <1>4, <2>2, RunFacts
    <2> QED
      BY <1>5, <2>1, <2>3
  <1>8. CASE tag.ends /\ number > 0 /\ wire = 1 /\ Len(tag.rest) >= 8
    <2>1. FieldIn(tag, number, wire, value) = Read(<<>>, Behind(tag.rest, 8))
      BY <1>8 DEF FieldIn
    <2>2. 8 \in 0 .. Len(tag.rest)
      BY <1>2, <1>8
    <2>3. Behind(tag.rest, 8) \in Text /\ Len(Behind(tag.rest, 8)) = Len(tag.rest) - 8
      BY <1>2, <2>2, BehindFacts DEF Text
    <2>4. Len(Behind(tag.rest, 8)) < Len(text)
      BY <1>1, <1>2, <1>8, <2>3
    <2>5. <<>> \in Seq(FieldSet)
      BY EmptySeq
    <2> QED
      BY <1>5, <2>1, <2>3, <2>4, <2>5, ReadFacts
  <1>9. CASE tag.ends /\ number > 0 /\ wire = 5 /\ Len(tag.rest) >= 4
    <2>1. FieldIn(tag, number, wire, value) = Read(<<>>, Behind(tag.rest, 4))
      BY <1>9 DEF FieldIn
    <2>2. 4 \in 0 .. Len(tag.rest)
      BY <1>2, <1>9
    <2>3. Behind(tag.rest, 4) \in Text /\ Len(Behind(tag.rest, 4)) = Len(tag.rest) - 4
      BY <1>2, <2>2, BehindFacts DEF Text
    <2>4. Len(Behind(tag.rest, 4)) < Len(text)
      BY <1>1, <1>2, <1>9, <2>3
    <2>5. <<>> \in Seq(FieldSet)
      BY EmptySeq
    <2> QED
      BY <1>5, <2>1, <2>3, <2>4, <2>5, ReadFacts
  <1>10. CASE /\ ~(tag.ends /\ number > 0 /\ wire = 0 /\ value.ends)
             /\ ~(tag.ends /\ number > 0 /\ wire = 2 /\ value.ends)
             /\ ~(tag.ends /\ number > 0 /\ wire = 1 /\ Len(tag.rest) >= 8)
             /\ ~(tag.ends /\ number > 0 /\ wire = 5 /\ Len(tag.rest) >= 4)
    <2>1. FieldIn(tag, number, wire, value) = Read(<<Field(0, 0, 0, <<>>, FALSE)>>, <<>>)
      BY <1>10 DEF FieldIn
    <2>2. <<Field(0, 0, 0, <<>>, FALSE)>> \in Seq(FieldSet)
      BY FieldInSet, TextFacts
    <2>3. <<>> \in Text /\ Len(<<>>) < Len(text)
      BY <1>1, TextFacts
    <2> QED
      BY <1>5, <2>1, <2>2, <2>3, ReadFacts
  <1> QED
    BY <1>6, <1>7, <1>8, <1>9, <1>10

\* The equation that defines FieldsOf.
LEMMA FieldsEquation ==
    /\ FieldsOf[<<>>] = <<>>
    /\ \A text \in Text : text # <<>> =>
          FieldsOf[text] = FieldOf(HeadOf(text)).fields \o FieldsOf[FieldOf(HeadOf(text)).rest]
  <1> DEFINE Rec(g) == [text \in Text |-> IF text = <<>> THEN <<>>
                             ELSE FieldOf(HeadOf(text)).fields \o g[FieldOf(HeadOf(text)).rest]]
             size == [text \in Text |-> Len(text)]
             head == [text \in Text |-> IF text = <<>> THEN <<>> ELSE FieldOf(HeadOf(text)).fields]
             next == [text \in Text |-> IF text = <<>> THEN <<>> ELSE FieldOf(HeadOf(text)).rest]
  <1>1. \A t \in Text : t # <<>> => /\ FieldOf(HeadOf(t)).fields \in Seq(FieldSet)
                                    /\ FieldOf(HeadOf(t)).rest \in Text
                                    /\ Len(FieldOf(HeadOf(t)).rest) < Len(t)
    BY FieldOfFacts DEF GoodRead
  <1>2. Reader(Text, FieldSet, size, head, next)
    <2>1. \A t \in Text : size[t] \in Nat
      BY TextFacts
    <2>2. \A t \in Text : head[t] \in Seq(FieldSet)
      BY <1>1, EmptySeq
    <2>3. \A t \in Text : next[t] \in Text
      BY <1>1, TextFacts
    <2>4. ASSUME NEW t \in Text, size[t] # 0
          PROVE  size[next[t]] < size[t]
      <3>1. t # <<>> /\ size[t] = Len(t)
        BY <2>4, TextFacts
      <3>2. next[t] \in Text /\ Len(next[t]) < Len(t)
        BY <1>1, <3>1
      <3>3. size[next[t]] = Len(next[t])
        BY <3>2
      <3> QED
        BY <3>1, <3>2, <3>3
    <2> QED
      BY <2>1, <2>2, <2>3, <2>4 DEF Reader
  <1>3. PICK f : f \in Readings(Text, FieldSet, size, head, next)
    BY <1>2, ReadingExists
  <1>4. f = Rec(f)
    <2>1. f \in [Text -> Seq(FieldSet)]
      BY <1>3 DEF Readings
    <2>2. ASSUME NEW t \in Text
          PROVE  f[t] = Rec(f)[t]
      <3>1. f[t] = IF size[t] = 0 THEN <<>> ELSE head[t] \o f[next[t]]
        BY <1>3 DEF Readings
      <3>2. t # <<>> => head[t] = FieldOf(HeadOf(t)).fields /\ next[t] = FieldOf(HeadOf(t)).rest
        OBVIOUS
      <3>3. (size[t] = 0) = (t = <<>>)
        BY TextFacts
      <3> HIDE DEF size, head, next
      <3> QED
        BY <3>1, <3>2, <3>3
    <2>3. DOMAIN Rec(f) = Text /\ Rec(f) = [t \in Text |-> Rec(f)[t]]
      OBVIOUS
    <2> HIDE DEF Rec
    <2>4. f = [t \in Text |-> f[t]]
      BY <2>1
    <2>5. [t \in Text |-> f[t]] = [t \in Text |-> Rec(f)[t]]
      BY <2>2
    <2> QED
      BY <2>3, <2>4, <2>5
  <1>5. FieldsOf = CHOOSE g : g = Rec(g)
    BY DEF FieldsOf
  <1>6. FieldsOf = Rec(FieldsOf)
    <2> HIDE DEF Rec
    <2> QED
      BY <1>4, <1>5
  <1> QED
    <2>1. \A text \in Text : Rec(FieldsOf)[text] = IF text = <<>> THEN <<>>
                    ELSE FieldOf(HeadOf(text)).fields \o FieldsOf[FieldOf(HeadOf(text)).rest]
      OBVIOUS
    <2> HIDE DEF Rec
    <2> QED
      BY <1>6, <2>1, TextFacts

\* The fields of any text are fields.
LEMMA FieldsTyped == \A text \in Text : FieldsOf[text] \in Seq(FieldSet)
  <1> DEFINE P == { n \in Nat : \A text \in Text : Len(text) <= n => FieldsOf[text] \in Seq(FieldSet) }
  <1>1. 0 \in P
    <2> SUFFICES ASSUME NEW text \in Text, Len(text) <= 0
                 PROVE  FieldsOf[text] \in Seq(FieldSet)
      OBVIOUS
    <2>1. Len(text) = 0
      BY TextFacts
    <2>2. text = <<>>
      BY <2>1, TextFacts
    <2> QED
      BY <2>2, FieldsEquation, EmptySeq
  <1>2. ASSUME NEW n \in Nat, n \in P
        PROVE  n + 1 \in P
    <2> SUFFICES ASSUME NEW text \in Text, Len(text) <= n + 1
                 PROVE  FieldsOf[text] \in Seq(FieldSet)
      OBVIOUS
    <2>1. CASE text = <<>>
      BY <2>1, FieldsEquation, EmptySeq
    <2>2. CASE text # <<>>
      <3> DEFINE read == FieldOf(HeadOf(text))
      <3>1. /\ read.fields \in Seq(FieldSet) /\ read.rest \in Text
            /\ Len(read.rest) < Len(text)
        BY <2>2, FieldOfFacts DEF GoodRead
      <3> HIDE DEF read
      <3>2. Len(read.rest) \in Nat /\ Len(text) \in Nat
        BY <3>1, TextFacts
      <3>3. Len(read.rest) <= n
        BY <3>1, <3>2
      <3>4. FieldsOf[read.rest] \in Seq(FieldSet)
        BY <1>2, <3>1, <3>3
      <3>5. FieldsOf[text] = read.fields \o FieldsOf[read.rest]
        BY <2>2, FieldsEquation DEF read
      <3> QED
        BY <3>1, <3>4, <3>5, ConcatProperties
    <2> QED
      BY <2>1, <2>2
  <1>3. Nat \subseteq P
    <2> HIDE DEF P
    <2> QED
      BY <1>1, <1>2, CountingUp
  <1>4. ASSUME NEW text \in Text
        PROVE  FieldsOf[text] \in Seq(FieldSet)
    <2>1. Len(text) \in Nat
      BY TextFacts
    <2>2. Len(text) \in P /\ Len(text) <= Len(text)
      BY <1>3, <2>1
    <2> QED
      BY <2>2
  <1> QED
    BY <1>4

----------------------------------------------------------------------------
(* Fields as the messages have them, and what is written of each.          *)

Number == 1 .. 15

ShortText == { t \in Text : Len(t) \in Value }

VarintField(number, v)  == Field(number, 0, v, <<>>, TRUE)
RunField(number, bytes) == Field(number, 2, Len(bytes), bytes, TRUE)

GoodFields == { VarintField(number, v) : number \in Number, v \in Value }
                \cup { RunField(number, bytes) : number \in Number, bytes \in ShortText }

\* The fields a writer makes are fields, and whole.
LEMMA GoodFieldFacts ==
    /\ GoodFields \subseteq FieldSet
    /\ \A f \in GoodFields : f.whole
    /\ \A number \in Number, v \in Value : VarintField(number, v) \in GoodFields
    /\ \A number \in Number, bytes \in ShortText : RunField(number, bytes) \in GoodFields
  <1>1. ASSUME NEW f \in GoodFields
        PROVE  f \in FieldSet /\ f.whole
    <2>1. CASE \E number \in Number, v \in Value : f = VarintField(number, v)
      <3>1. PICK number \in Number, v \in Value : f = VarintField(number, v)
        BY <2>1
      <3>2. number \in Nat /\ v \in Nat
        BY ValueNat DEF Number
      <3>3. f \in FieldSet
        BY <3>1, <3>2, FieldInSet, TextFacts DEF VarintField
      <3> QED
        BY <3>1, <3>3 DEF VarintField, Field
    <2>2. CASE \E number \in Number, bytes \in ShortText : f = RunField(number, bytes)
      <3>1. PICK number \in Number, bytes \in ShortText : f = RunField(number, bytes)
        BY <2>2
      <3>2. number \in Nat /\ bytes \in Text /\ Len(bytes) \in Nat
        BY TextFacts DEF Number, ShortText
      <3>3. f \in FieldSet
        BY <3>1, <3>2, FieldInSet DEF RunField
      <3> QED
        BY <3>1, <3>3 DEF RunField, Field
    <2> QED
      BY <2>1, <2>2 DEF GoodFields
  <1> QED
    BY <1>1 DEF GoodFields

\* A number below 128 is its own varint.
LEMMA SmallVarint ==
    ASSUME NEW n \in Nat, n < 128
    PROVE  n \in Value /\ Varint(n) = <<n>> /\ VarintSize(n) = 1
  <1>1. n \in Value
    BY ValueFacts, SMT
  <1>2. VarintSize(n) = 1
    BY <1>1, VarintSizes, SMT
  <1>3. /\ Varint(n) \in Text /\ Len(Varint(n)) = 1
        /\ Varint(n)[1] = ((n \div Power128[1]) % 128) + (IF 1 < 1 THEN 128 ELSE 0)
    <2>1. \A i \in 1 .. VarintSize(n) :
              Varint(n)[i] = ((n \div Power128[i]) % 128) + (IF i < VarintSize(n) THEN 128 ELSE 0)
      BY <1>1, VarintBytes
    <2>2. Varint(n) \in Text /\ Len(Varint(n)) = VarintSize(n)
      BY <1>1, VarintBytes
    <2> QED
      BY <1>2, <2>1, <2>2
  <1>4. Varint(n)[1] = n
    BY <1>3, PowerFacts, SMT
  <1> QED
    BY <1>1, <1>2, <1>3, <1>4 DEF Text

\* A field is read as it was written, and what follows it is left.
LEMMA VarintFieldRead ==
    ASSUME NEW number \in Number, NEW v \in Value, NEW rest \in Text
    PROVE  FieldsOf[(<<8 * number>> \o Varint(v)) \o rest]
             = <<VarintField(number, v)>> \o FieldsOf[rest]
  <1> DEFINE text == (<<8 * number>> \o Varint(v)) \o rest
             after == Varint(v) \o rest
  <1>1. /\ 8 * number \in Nat /\ 8 * number < 128 /\ number > 0
        /\ (8 * number) \div 8 = number /\ (8 * number) % 8 = 0
    BY SMT DEF Number
  <1>2. Varint(8 * number) = <<8 * number>> /\ 8 * number \in Value
    BY <1>1, SmallVarint
  <1>3. Varint(8 * number) \in Text /\ Varint(v) \in Text
    BY <1>2, VarintBytes
  <1>4. after \in Text
    BY <1>3, ConcatProperties DEF Text
  <1>5. text = Varint(8 * number) \o after
    <2> DEFINE tag == Varint(8 * number)
               value == Varint(v)
    <2>1. tag \in Seq(Byte) /\ value \in Seq(Byte) /\ rest \in Seq(Byte)
      BY <1>3 DEF Text
    <2>2. text = (tag \o value) \o rest
      BY <1>2
    <2> HIDE DEF tag, value
    <2>3. (tag \o value) \o rest = tag \o (value \o rest)
      BY <2>1, ConcatAssociative, SMTT(40)
    <2> QED
      BY <2>2, <2>3 DEF tag, value
  <1>6. text \in Text /\ text # <<>>
    <2>1. Len(text) = 1 + Len(after) /\ Len(after) \in Nat /\ text \in Text
      BY <1>2, <1>3, <1>4, <1>5, ConcatProperties, TextFacts DEF Text
    <2> QED
      BY <2>1, TextFacts
  <1>7. HeadOf(text) = [ends |-> TRUE, value |-> 8 * number, rest |-> after]
    BY <1>2, <1>4, <1>5, HeadOfVarint
  <1>8. HeadOf(after) = [ends |-> TRUE, value |-> v, rest |-> rest]
    BY HeadOfVarint
  <1> HIDE DEF text, after
  <1>9. FieldOf(HeadOf(text)) = Read(<<VarintField(number, v)>>, rest)
    <2>1. FieldOf(HeadOf(text)) = FieldIn(HeadOf(text), number, 0, HeadOf(after))
      BY <1>1, <1>7 DEF FieldOf
    <2> QED
      BY <1>1, <1>7, <1>8, <2>1 DEF FieldIn, VarintField
  <1>10. FieldsOf[text] = <<VarintField(number, v)>> \o FieldsOf[rest]
    <2>1. FieldOf(HeadOf(text)).fields = <<VarintField(number, v)>>
          /\ FieldOf(HeadOf(text)).rest = rest
      BY <1>9 DEF Read
    <2> QED
      BY <1>6, <2>1, FieldsEquation
  <1> QED
    BY <1>10 DEF text

\* A run of bytes is read as the field that was written, whatever follows it.
LEMMA RunFieldRead ==
    ASSUME NEW number \in Number, NEW bytes \in ShortText, NEW rest \in Text
    PROVE  FieldsOf[(<<8 * number + 2>> \o Varint(Len(bytes)) \o bytes) \o rest]
             = <<RunField(number, bytes)>> \o FieldsOf[rest]
  <1> DEFINE length == Len(bytes)
             text == (<<8 * number + 2>> \o Varint(length) \o bytes) \o rest
             behind == bytes \o rest
             after == Varint(length) \o behind
  <1>1. /\ 8 * number + 2 \in Nat /\ 8 * number + 2 < 128 /\ number > 0
        /\ (8 * number + 2) \div 8 = number /\ (8 * number + 2) % 8 = 2
    BY SMT DEF Number
  <1>2. Varint(8 * number + 2) = <<8 * number + 2>> /\ 8 * number + 2 \in Value
    BY <1>1, SmallVarint
  <1>3. bytes \in Text /\ length \in Value /\ length \in Nat
    BY TextFacts DEF ShortText
  <1>4. Varint(8 * number + 2) \in Text /\ Varint(length) \in Text
    BY <1>2, <1>3, VarintBytes
  <1>5. behind \in Text /\ after \in Text
    BY <1>3, <1>4, ConcatProperties DEF Text
  <1>6. text = Varint(8 * number + 2) \o after
    <2> DEFINE tag == Varint(8 * number + 2)
               size == Varint(length)
    <2>1. tag \in Seq(Byte) /\ size \in Seq(Byte) /\ bytes \in Seq(Byte) /\ rest \in Seq(Byte)
          /\ tag \o size \in Seq(Byte) /\ bytes \o rest \in Seq(Byte)
      BY <1>3, <1>4, <1>5, ConcatProperties DEF Text
    <2>2. text = ((tag \o size) \o bytes) \o rest
      BY <1>2
    <2> HIDE DEF tag, size
    <2>3. ((tag \o size) \o bytes) \o rest = (tag \o size) \o (bytes \o rest)
      BY <2>1, ConcatAssociative, SMTT(40)
    <2>4. (tag \o size) \o (bytes \o rest) = tag \o (size \o (bytes \o rest))
      <3> DEFINE tail == bytes \o rest
      <3>1. tail \in Seq(Byte) /\ tag \in Seq(Byte) /\ size \in Seq(Byte)
        BY <2>1
      <3> HIDE DEF tail
      <3>2. (tag \o size) \o tail = tag \o (size \o tail)
        BY <3>1, ConcatAssociative, SMTT(40)
      <3> QED
        BY <3>2, Zenon DEF tail
    <2> HIDE DEF text
    <2>5. text = tag \o (size \o (bytes \o rest))
      BY <2>2, <2>3, <2>4, Zenon
    <2> QED
      BY <2>5, Zenon DEF tag, size
  <1>7. text \in Text /\ text # <<>>
    <2>1. Len(text) = 1 + Len(after) /\ Len(after) \in Nat /\ text \in Text
      BY <1>2, <1>4, <1>5, <1>6, ConcatProperties, TextFacts DEF Text
    <2> QED
      BY <2>1, TextFacts
  <1>8. HeadOf(text) = [ends |-> TRUE, value |-> 8 * number + 2, rest |-> after]
    BY <1>2, <1>5, <1>6, HeadOfVarint
  <1>9. HeadOf(after) = [ends |-> TRUE, value |-> length, rest |-> behind]
    BY <1>3, <1>5, HeadOfVarint
  <1>10. /\ Behind(behind, length) = rest /\ SubSeq(behind, 1, length) = bytes
         /\ length <= Len(behind)
    <2>1. Len(behind) = length + Len(rest) /\ Len(rest) \in Nat
      BY <1>3, ConcatProperties, TextFacts DEF Text
    <2> QED
      BY <1>3, <2>1, BehindConcat DEF Text
  <1> HIDE DEF text, after, behind, length
  <1>11. FieldOf(HeadOf(text)) = Read(<<RunField(number, bytes)>>, rest)
    <2>1. FieldOf(HeadOf(text)) = FieldIn(HeadOf(text), number, 2, HeadOf(after))
      BY <1>1, <1>8 DEF FieldOf
    <2>2. FieldIn(HeadOf(text), number, 2, HeadOf(after)) = Run(number, length, behind)
      BY <1>1, <1>8, <1>9, <2>1 DEF FieldIn
    <2>3. Run(number, length, behind) = Read(<<Field(number, 2, length, bytes, TRUE)>>, rest)
      BY <1>10 DEF Run
    <2> QED
      BY <2>1, <2>2, <2>3 DEF RunField, length
  <1>12. FieldsOf[text] = <<RunField(number, bytes)>> \o FieldsOf[rest]
    <2>1. FieldOf(HeadOf(text)).fields = <<RunField(number, bytes)>>
          /\ FieldOf(HeadOf(text)).rest = rest
      BY <1>11 DEF Read
    <2> QED
      BY <1>7, <2>1, FieldsEquation
  <1> QED
    BY <1>12 DEF text, length

----------------------------------------------------------------------------
(* What a piece of a message writes: a text of a size, with or without a   *)
(* zero byte, that is read as its fields whatever follows it.              *)

WrittenAs(text, size, zero, fields) ==
    /\ text \in Text /\ Len(text) = size
    /\ (0 \in ToSet(text)) <=> zero
    /\ fields \in Seq(GoodFields)
    /\ \A rest \in Text : FieldsOf[text \o rest] = fields \o FieldsOf[rest]

\* Two texts, one behind the other.
LEMMA TextConcat ==
    ASSUME NEW s \in Text, NEW t \in Text
    PROVE  /\ s \o t \in Text /\ Len(s \o t) = Len(s) + Len(t)
           /\ ToSet(s \o t) = ToSet(s) \cup ToSet(t)
  <1>1. s \in Seq(Byte) /\ t \in Seq(Byte)
    BY DEF Text
  <1>2. s \o t \in Seq(Byte) /\ Len(s \o t) = Len(s) + Len(t)
    BY <1>1, ConcatProperties
  <1>3. \A q, r \in Seq(Byte) : ToSet(q \o r) = ToSet(q) \cup ToSet(r)
    BY ToSetFacts
  <1>4. ToSet(s \o t) = ToSet(s) \cup ToSet(t)
    BY <1>1, <1>3, Zenon
  <1> QED
    BY <1>2, <1>4 DEF Text

\* Nothing is written as no fields.
LEMMA WrittenNothing == WrittenAs(<<>>, 0, FALSE, <<>>)
  <1>1. <<>> \in Text /\ Len(<<>>) = 0
    BY TextFacts
  <1>2. ~(0 \in ToSet(<<>>))
    BY ToSetFacts
  <1>3. <<>> \in Seq(GoodFields)
    BY EmptySeq
  <1>4. ASSUME NEW rest \in Text
        PROVE  FieldsOf[<<>> \o rest] = <<>> \o FieldsOf[rest]
    <2>1. <<>> \o rest = rest
      BY ConcatEmptySeq DEF Text
    <2>2. <<>> \o FieldsOf[rest] = FieldsOf[rest]
      BY FieldsTyped, ConcatEmptySeq
    <2> QED
      BY <2>1, <2>2
  <1> QED
    BY <1>1, <1>2, <1>3, <1>4 DEF WrittenAs

\* Fields a writer makes are fields.
LEMMA GoodFieldSeq == \A fields \in Seq(GoodFields) : fields \in Seq(FieldSet)
  BY GoodFieldFacts

\* Two written texts, one behind the other, are written as the fields of both.
LEMMA WrittenConcat ==
    ASSUME NEW s, NEW m \in Nat, NEW y, NEW f, WrittenAs(s, m, y, f),
           NEW t, NEW n \in Nat, NEW z, NEW g, WrittenAs(t, n, z, g)
    PROVE  WrittenAs(s \o t, m + n, y \/ z, f \o g)
  <1>1. /\ s \in Seq(Byte) /\ t \in Seq(Byte) /\ Len(s) = m /\ Len(t) = n
        /\ f \in Seq(GoodFields) /\ g \in Seq(GoodFields)
    BY DEF WrittenAs, Text
  <1>2. s \o t \in Text /\ Len(s \o t) = m + n
    BY <1>1, ConcatProperties DEF Text
  <1>3. 0 \in ToSet(s \o t) <=> (y \/ z)
    <2>1. (0 \in ToSet(s) <=> y) /\ (0 \in ToSet(t) <=> z)
      BY DEF WrittenAs
    <2>2. ToSet(s \o t) = ToSet(s) \cup ToSet(t)
      BY <1>1, ToSetFacts
    <2> QED
      BY <2>1, <2>2
  <1>4. f \o g \in Seq(GoodFields)
    BY <1>1, ConcatProperties
  <1>5. ASSUME NEW rest \in Text
        PROVE  FieldsOf[(s \o t) \o rest] = (f \o g) \o FieldsOf[rest]
    <2>1. rest \in Seq(Byte) /\ t \o rest \in Text
      BY <1>1, ConcatProperties DEF Text
    <2>2. (s \o t) \o rest = s \o (t \o rest)
      BY <1>1, <2>1, ConcatAssociative, SMTT(40)
    <2>3. FieldsOf[s \o (t \o rest)] = f \o FieldsOf[t \o rest]
      BY <2>1 DEF WrittenAs
    <2>4. FieldsOf[t \o rest] = g \o FieldsOf[rest]
      BY DEF WrittenAs
    <2>5. f \in Seq(FieldSet) /\ g \in Seq(FieldSet) /\ FieldsOf[rest] \in Seq(FieldSet)
      BY <1>1, GoodFieldSeq, FieldsTyped
    <2>6. (f \o g) \o FieldsOf[rest] = f \o (g \o FieldsOf[rest])
      <3> DEFINE tail == FieldsOf[rest]
      <3>1. tail \in Seq(FieldSet)
        BY <2>5
      <3> HIDE DEF tail
      <3>2. (f \o g) \o tail = f \o (g \o tail)
        BY <2>5, <3>1, ConcatAssociative, SMTT(40)
      <3> QED
        BY <3>2 DEF tail
    <2> QED
      BY <2>2, <2>3, <2>4, <2>6
  <1> QED
    BY <1>2, <1>3, <1>4, <1>5 DEF WrittenAs

\* The fields a text is made of are the fields read of it.
LEMMA WrittenRead ==
    ASSUME NEW text, NEW size, NEW zero, NEW fields, WrittenAs(text, size, zero, fields)
    PROVE  FieldsOf[text] = fields
  <1>1. text \in Seq(Byte) /\ fields \in Seq(GoodFields)
    BY DEF WrittenAs, Text
  <1>2. FieldsOf[text \o <<>>] = fields \o FieldsOf[<<>>]
    BY TextFacts DEF WrittenAs
  <1>3. text \o <<>> = text
    BY <1>1, ConcatEmptySeq
  <1>4. fields \o <<>> = fields
    BY <1>1, ConcatEmptySeq
  <1> QED
    BY <1>2, <1>3, <1>4, FieldsEquation

\* The size of a varint is a positive number.
LEMMA VarintSizeNat ==
    ASSUME NEW n
    PROVE  VarintSize(n) \in Nat /\ VarintSize(n) > 0
  <1> DEFINE groups == { i \in 2 .. 5 : n >= Power128[i] }
  <1>1. IsFiniteSet(2 .. 5)
    <2>1. 2 \in Int /\ 5 \in Int
      OBVIOUS
    <2> QED
      BY <2>1, FS_Interval, Zenon
  <1>2. IsFiniteSet(groups)
    BY <1>1, FS_Subset
  <1>3. Cardinality(groups) \in Nat
    BY <1>2, FS_CardinalityType
  <1>4. VarintSize(n) = 1 + Cardinality(groups)
    BY DEF VarintSize
  <1> HIDE DEF groups
  <1> QED
    BY <1>3, <1>4

----------------------------------------------------------------------------
(* The fields of a message. *)

UInt32Fields(number, v) == IF v = 0 THEN <<>> ELSE <<VarintField(number, v)>>

\* A text of one byte.
LEMMA OneByte ==
    ASSUME NEW b \in Byte
    PROVE  <<b>> \in Text /\ Len(<<b>>) = 1 /\ ToSet(<<b>>) = {b}
  <1>1. <<b>> \in Text /\ Len(<<b>>) = 1
    BY DEF Text
  <1>2. ToSet(<<b>>) = {b}
    BY ToSetFacts
  <1> QED
    BY <1>1, <1>2

\* A number is written as one varint field, and as nothing when it is 0.
LEMMA UInt32Written ==
    ASSUME NEW number \in Number, NEW v \in Value
    PROVE  WrittenAs(UInt32(number, v), UInt32Size(v), FALSE, UInt32Fields(number, v))
           /\ UInt32Size(v) \in Nat /\ (UInt32Size(v) = 0 <=> v = 0)
  <1>1. CASE v = 0
    BY <1>1, WrittenNothing DEF UInt32, UInt32Size, UInt32Fields
  <1>2. CASE v # 0
    <2> DEFINE tag == <<8 * number>>
               value == Varint(v)
    <2>1. 8 * number \in Byte /\ 8 * number # 0
      <3>1. 8 * number \in Nat /\ 8 * number <= 255 /\ 8 * number # 0
        BY SMT DEF Number
      <3> QED
        BY <3>1, ByteFacts
    <2>2. tag \in Text /\ Len(tag) = 1 /\ ToSet(tag) = {8 * number}
      BY <2>1, OneByte
    <2>3. value \in Text /\ Len(value) = VarintSize(v) /\ ~(0 \in ToSet(value))
      BY <1>2, VarintBytes, VarintZero
    <2>4. UInt32(number, v) = tag \o value
      BY <1>2 DEF UInt32
    <2>5. UInt32Size(v) = 1 + VarintSize(v) /\ UInt32Fields(number, v) = <<VarintField(number, v)>>
      BY <1>2 DEF UInt32Size, UInt32Fields
    <2>6. VarintSize(v) \in Nat /\ VarintSize(v) > 0
      BY VarintSizeNat
    <2>7. \A rest \in Text : FieldsOf[(tag \o value) \o rest]
                               = <<VarintField(number, v)>> \o FieldsOf[rest]
      BY VarintFieldRead
    <2>8. <<VarintField(number, v)>> \in Seq(GoodFields)
      BY GoodFieldFacts, SingletonAppend
    <2> HIDE DEF tag, value
    <2>9. tag \o value \in Text /\ Len(tag \o value) = 1 + VarintSize(v)
      BY <2>2, <2>3, TextConcat
    <2>10. ToSet(tag \o value) = {8 * number} \cup ToSet(value)
      BY <2>2, <2>3, TextConcat
    <2>11. ~(0 \in ToSet(tag \o value))
      BY <2>1, <2>3, <2>10
    <2>12. WrittenAs(tag \o value, 1 + VarintSize(v), FALSE, <<VarintField(number, v)>>)
      BY <2>7, <2>8, <2>9, <2>11 DEF WrittenAs
    <2>13. 1 + VarintSize(v) \in Nat /\ 1 + VarintSize(v) # 0
      BY <2>6
    <2> QED
      BY <1>2, <2>4, <2>5, <2>12, <2>13
  <1> QED
    BY <1>1, <1>2

\* A run of bytes has a zero byte in it, or in front of it if it is empty.
RunText(number, bytes) == <<8 * number + 2>> \o Varint(Len(bytes)) \o bytes

\* A run of bytes is written as its field, of the size that is computed for
\* it.
LEMMA RunWritten ==
    ASSUME NEW number \in Number, NEW bytes \in ShortText
    PROVE  WrittenAs(RunText(number, bytes), RunSize(Len(bytes)), bytes = <<>> \/ 0 \in ToSet(bytes),
                   <<RunField(number, bytes)>>)
           /\ RunSize(Len(bytes)) \in Nat /\ RunSize(Len(bytes)) > Len(bytes)
  <1> DEFINE length == Len(bytes)
             tag == <<8 * number + 2>>
             value == Varint(length)
  <1>1. 8 * number + 2 \in Byte /\ 8 * number + 2 # 0
    <2>1. 8 * number + 2 \in Nat /\ 8 * number + 2 <= 255 /\ 8 * number + 2 # 0
      BY SMT DEF Number
    <2> QED
      BY <2>1, ByteFacts
  <1>2. tag \in Text /\ Len(tag) = 1 /\ ToSet(tag) = {8 * number + 2}
    BY <1>1, OneByte
  <1>3. bytes \in Text /\ length \in Value /\ length \in Nat /\ (length = 0 <=> bytes = <<>>)
    BY TextFacts DEF ShortText
  <1>4. value \in Text /\ Len(value) = VarintSize(length) /\ (0 \in ToSet(value) <=> length = 0)
    BY <1>3, VarintBytes, VarintZero
  <1>5. VarintSize(length) \in Nat
    BY VarintSizeNat
  <1>6. \A rest \in Text : FieldsOf[(tag \o value \o bytes) \o rest]
                             = <<RunField(number, bytes)>> \o FieldsOf[rest]
    BY RunFieldRead
  <1>7. <<RunField(number, bytes)>> \in Seq(GoodFields)
    BY GoodFieldFacts, SingletonAppend
  <1>8. RunText(number, bytes) = (tag \o value) \o bytes /\ RunSize(length) = 1 + VarintSize(length) + length
    BY DEF RunText, RunSize
  <1> HIDE DEF tag, value, length
  <1>9. tag \o value \in Text /\ Len(tag \o value) = 1 + VarintSize(length)
    BY <1>2, <1>4, TextConcat
  <1>10. ToSet(tag \o value) = {8 * number + 2} \cup ToSet(value)
    BY <1>2, <1>4, TextConcat
  <1>11. /\ (tag \o value) \o bytes \in Text
         /\ Len((tag \o value) \o bytes) = Len(tag \o value) + Len(bytes)
    BY <1>3, <1>9, TextConcat
  <1>12. ToSet((tag \o value) \o bytes) = ToSet(tag \o value) \cup ToSet(bytes)
    BY <1>3, <1>9, TextConcat
  <1>13. 0 \in ToSet((tag \o value) \o bytes) <=> (bytes = <<>> \/ 0 \in ToSet(bytes))
    BY <1>1, <1>3, <1>4, <1>10, <1>12
  <1>14. Len(bytes) = length
    BY DEF length
  <1>15. Len((tag \o value) \o bytes) = RunSize(length)
    BY <1>3, <1>5, <1>8, <1>9, <1>11, <1>14
  <1>16. WrittenAs((tag \o value) \o bytes, RunSize(length), bytes = <<>> \/ 0 \in ToSet(bytes),
                 <<RunField(number, bytes)>>)
    BY <1>6, <1>7, <1>11, <1>13, <1>15 DEF WrittenAs
  <1>17. RunSize(length) \in Nat /\ RunSize(length) > length
    BY <1>3, <1>5, <1>8, VarintSizeNat
  <1> QED
    BY <1>8, <1>14, <1>16, <1>17

StringFields(number, chars) == IF chars = <<>> THEN <<>> ELSE <<RunField(number, chars)>>

\* A string is written as its field, and as nothing when it is empty.
LEMMA StringWritten ==
    ASSUME NEW number \in Number, NEW chars \in ShortText
    PROVE  WrittenAs(String(number, chars), StringSize(chars), 0 \in ToSet(chars),
                   StringFields(number, chars))
           /\ StringSize(chars) \in Nat
  <1>1. CASE chars = <<>>
    <2>1. ~(0 \in ToSet(chars))
      BY <1>1, ToSetFacts
    <2>2. WrittenAs(<<>>, 0, 0 \in ToSet(chars), <<>>)
      BY <2>1, WrittenNothing DEF WrittenAs
    <2>3. String(number, chars) = <<>> /\ StringSize(chars) = 0 /\ StringFields(number, chars) = <<>>
      BY <1>1 DEF String, StringSize, StringFields
    <2> QED
      BY <2>2, <2>3
  <1>2. CASE chars # <<>>
    <2>1. String(number, chars) = RunText(number, chars)
      BY <1>2 DEF String, RunText
    <2>2. StringSize(chars) = RunSize(Len(chars)) /\ StringFields(number, chars) = <<RunField(number, chars)>>
      BY <1>2 DEF StringSize, StringFields
    <2>3. (chars = <<>> \/ 0 \in ToSet(chars)) <=> 0 \in ToSet(chars)
      BY <1>2
    <2>4. WrittenAs(RunText(number, chars), RunSize(Len(chars)), chars = <<>> \/ 0 \in ToSet(chars),
                  <<RunField(number, chars)>>) /\ RunSize(Len(chars)) \in Nat
      BY RunWritten
    <2>5. WrittenAs(RunText(number, chars), RunSize(Len(chars)), 0 \in ToSet(chars),
                  <<RunField(number, chars)>>)
      BY <2>3, <2>4 DEF WrittenAs
    <2> QED
      BY <2>1, <2>2, <2>4, <2>5
  <1> QED
    BY <1>1, <1>2

----------------------------------------------------------------------------
(* Sequences made of sequences, element by element. *)

Into(g, S, Y) == \A e \in S : g[e] \in Y

Map(g, s) == [i \in DOMAIN s |-> g[s[i]]]

\* Map applies a function to every member.
LEMMA MapFacts ==
    ASSUME NEW S, NEW Y, NEW g, Into(g, S, Y)
    PROVE  /\ Map(g, <<>>) = <<>>
           /\ \A e \in S : Map(g, <<e>>) = <<g[e]>>
           /\ \A s \in Seq(S) : Map(g, s) \in Seq(Y) /\ Len(Map(g, s)) = Len(s)
                                  /\ \A i \in 1 .. Len(s) : Map(g, s)[i] = g[s[i]]
  <1>1. Map(g, <<>>) = <<>>
    BY DEF Map
  <1>2. ASSUME NEW e \in S
        PROVE  Map(g, <<e>>) = <<g[e]>>
    BY DEF Map
  <1>3. ASSUME NEW s \in Seq(S)
        PROVE  Map(g, s) \in Seq(Y) /\ Len(Map(g, s)) = Len(s)
                 /\ \A i \in 1 .. Len(s) : Map(g, s)[i] = g[s[i]]
    <2>1. DOMAIN s = 1 .. Len(s) /\ Len(s) \in Nat
      BY LenProperties
    <2>2. \A i \in 1 .. Len(s) : g[s[i]] \in Y
      BY ElementOfSeq DEF Into
    <2>3. Map(g, s) = [i \in 1 .. Len(s) |-> g[s[i]]]
      BY <2>1 DEF Map
    <2> QED
      BY <2>1, <2>2, <2>3
  <1> QED
    BY <1>1, <1>2, <1>3

\* Mapping two sequences together.
LEMMA MapConcat ==
    ASSUME NEW S, NEW Y, NEW g, Into(g, S, Y), NEW s \in Seq(S), NEW t \in Seq(S)
    PROVE  Map(g, s \o t) = Map(g, s) \o Map(g, t)
  <1>1. Len(s) \in Nat /\ Len(t) \in Nat
    BY LenProperties
  <1>2. /\ s \o t \in Seq(S) /\ Len(s \o t) = Len(s) + Len(t)
        /\ \A i \in 1 .. Len(s) + Len(t) :
              (s \o t)[i] = IF i <= Len(s) THEN s[i] ELSE t[i - Len(s)]
    BY ConcatProperties
  <1>3. /\ Map(g, s) \in Seq(Y) /\ Len(Map(g, s)) = Len(s)
        /\ \A i \in 1 .. Len(s) : Map(g, s)[i] = g[s[i]]
    BY MapFacts
  <1>4. /\ Map(g, t) \in Seq(Y) /\ Len(Map(g, t)) = Len(t)
        /\ \A i \in 1 .. Len(t) : Map(g, t)[i] = g[t[i]]
    BY MapFacts
  <1>5. /\ Map(g, s \o t) \in Seq(Y) /\ Len(Map(g, s \o t)) = Len(s) + Len(t)
        /\ \A i \in 1 .. Len(s) + Len(t) : Map(g, s \o t)[i] = g[(s \o t)[i]]
    <2>1. PICK u \in Seq(S) : u = s \o t
      BY <1>2
    <2>2. /\ Map(g, u) \in Seq(Y) /\ Len(Map(g, u)) = Len(u)
          /\ \A i \in 1 .. Len(u) : Map(g, u)[i] = g[u[i]]
      BY MapFacts
    <2>3. Len(u) = Len(s) + Len(t)
      BY <1>2, <2>1
    <2> QED
      BY <2>1, <2>2, <2>3
  <1>6. /\ Map(g, s) \o Map(g, t) \in Seq(Y)
        /\ Len(Map(g, s) \o Map(g, t)) = Len(s) + Len(t)
        /\ \A i \in 1 .. Len(s) + Len(t) :
              (Map(g, s) \o Map(g, t))[i] = IF i <= Len(s) THEN Map(g, s)[i] ELSE Map(g, t)[i - Len(s)]
    <2> DEFINE a == Map(g, s)
               b == Map(g, t)
    <2>1. a \in Seq(Y) /\ b \in Seq(Y) /\ Len(a) = Len(s) /\ Len(b) = Len(t)
      BY <1>3, <1>4
    <2> HIDE DEF a, b
    <2>2. /\ a \o b \in Seq(Y) /\ Len(a \o b) = Len(a) + Len(b)
          /\ \A i \in 1 .. Len(a) + Len(b) :
                (a \o b)[i] = IF i <= Len(a) THEN a[i] ELSE b[i - Len(a)]
      BY <2>1, ConcatProperties
    <2> QED
      BY <2>1, <2>2 DEF a, b
  <1>7. ASSUME NEW i \in 1 .. Len(s) + Len(t)
        PROVE  Map(g, s \o t)[i] = (Map(g, s) \o Map(g, t))[i]
    <2>1. CASE i <= Len(s)
      <3>1. i \in 1 .. Len(s)
        BY <1>1, <2>1
      <3> QED
        BY <1>2, <1>3, <1>5, <1>6, <2>1, <3>1, SMTT(40)
    <2>2. CASE ~(i <= Len(s))
      <3>1. i - Len(s) \in 1 .. Len(t)
        BY <1>1, <2>2
      <3> QED
        BY <1>2, <1>4, <1>5, <1>6, <2>2, <3>1, ZenonT(60)
    <2> QED
      BY <2>1, <2>2
  <1> DEFINE left == Map(g, s \o t)
             right == Map(g, s) \o Map(g, t)
  <1>8. /\ left \in Seq(Y) /\ right \in Seq(Y) /\ Len(left) = Len(right)
        /\ \A i \in 1 .. Len(left) : left[i] = right[i]
    BY <1>5, <1>6, <1>7
  <1> HIDE DEF left, right
  <1>9. left = right
    BY <1>8, SeqEqual
  <1> QED
    BY <1>9 DEF left, right

\* The same, for all sequences.
LEMMA MapConcats ==
    ASSUME NEW S, NEW Y, NEW g, Into(g, S, Y)
    PROVE  \A s, t \in Seq(S) : Map(g, s \o t) = Map(g, s) \o Map(g, t)
  <1> TAKE s, t \in Seq(S)
  <1> QED
    BY MapConcat

\* Each element stands for a sequence.
Flat(g, s) == FlattenSeq(Map(g, s))

\* Flat joins what a function makes of every member.
LEMMA FlatFacts ==
    ASSUME NEW S, NEW Y, NEW g, Into(g, S, Seq(Y))
    PROVE  /\ Flat(g, <<>>) = <<>>
           /\ \A e \in S : Flat(g, <<e>>) = g[e]
           /\ \A s \in Seq(S) : Flat(g, s) \in Seq(Y)
           /\ \A s, t \in Seq(S) : Flat(g, s \o t) = Flat(g, s) \o Flat(g, t)
  <1>1. Flat(g, <<>>) = <<>>
    <2>1. Map(g, <<>>) = <<>>
      BY DEF Map
    <2> QED
      BY <2>1, FlattenFacts DEF Flat
  <1>2. ASSUME NEW e \in S
        PROVE  Flat(g, <<e>>) = g[e]
    <2>1. Map(g, <<e>>) = <<g[e]>>
      BY MapFacts
    <2>2. PICK x \in Seq(Y) : x = g[e]
      BY DEF Into
    <2>3. FlattenSeq(<<x>>) = x
      BY FlattenOne
    <2> QED
      BY <2>1, <2>2, <2>3 DEF Flat
  <1>3. ASSUME NEW s \in Seq(S)
        PROVE  Flat(g, s) \in Seq(Y)
    <2>1. Map(g, s) \in Seq(Seq(Y))
      BY MapFacts
    <2> QED
      BY <2>1, FlattenFacts DEF Flat
  <1>4. ASSUME NEW s \in Seq(S), NEW t \in Seq(S)
        PROVE  Flat(g, s \o t) = Flat(g, s) \o Flat(g, t)
    <2> DEFINE a == Map(g, s)
               b == Map(g, t)
    <2>1. a \in Seq(Seq(Y)) /\ b \in Seq(Seq(Y))
      BY MapFacts
    <2>2. Map(g, s \o t) = a \o b
      BY MapConcat
    <2> HIDE DEF a, b
    <2>3. FlattenSeq(a \o b) = FlattenSeq(a) \o FlattenSeq(b)
      BY <2>1, FlattenConcat
    <2> QED
      BY <2>2, <2>3 DEF Flat, a, b
  <1> QED
    BY <1>1, <1>2, <1>3, <1>4

----------------------------------------------------------------------------
(* Repeated fields. *)

VarintMap     == [v \in Value |-> Varint(v)]
VarintSizeMap == [v \in Value |-> VarintSize(v)]
PackedText(values) == Flat(VarintMap, values)

PackedGood(values) ==
    /\ PackedText(values) \in Text /\ Len(PackedText(values)) = PackedSize(values)
    /\ PackedSize(values) \in Nat
    /\ 0 \in ToSet(PackedText(values)) <=> 0 \in ToSet(values)
    /\ Varints[PackedText(values)] = values
    /\ (PackedText(values) = <<>>) <=> (values = <<>>)

\* The sizes and the bytes of packed values, as a Map and as a Flat.
LEMMA PackedMaps ==
    /\ Into(VarintMap, Value, Seq(Byte)) /\ Into(VarintSizeMap, Value, Int)
    /\ \A values \in Seq(Value) : PackedSize(values) = SumOf(Map(VarintSizeMap, values))
    /\ \A values \in Seq(Value) :
          FlattenSeq([i \in DOMAIN values |-> Varint(values[i])]) = PackedText(values)
  <1>1. Into(VarintMap, Value, Seq(Byte))
    BY VarintBytes DEF Into, VarintMap, Text
  <1>2. Into(VarintSizeMap, Value, Int)
    BY VarintSizeNat DEF Into, VarintSizeMap
  <1>3. ASSUME NEW values \in Seq(Value)
        PROVE  /\ [i \in DOMAIN values |-> VarintSize(values[i])] = Map(VarintSizeMap, values)
               /\ [i \in DOMAIN values |-> Varint(values[i])] = Map(VarintMap, values)
    <2>1. DOMAIN values = 1 .. Len(values)
      BY LenProperties
    <2>2. \A i \in DOMAIN values : values[i] \in Value
      BY <2>1, ElementOfSeq
    <2>3. \A i \in DOMAIN values : /\ VarintSizeMap[values[i]] = VarintSize(values[i])
                                   /\ VarintMap[values[i]] = Varint(values[i])
      BY <2>2 DEF VarintSizeMap, VarintMap
    <2> QED
      BY <2>3 DEF Map
  <1> QED
    BY <1>1, <1>2, <1>3 DEF PackedSize, PackedText, Flat

\* Packed values have the size computed for them, and are read as they were.
LEMMA PackedFacts ==
    ASSUME NEW values \in Seq(Value)
    PROVE  PackedGood(values)
  <1> DEFINE P == { vs \in Seq(Value) : PackedGood(vs) }
  <1>1. <<>> \in P
    <2>1. PackedText(<<>>) = <<>>
      BY PackedMaps, FlatFacts DEF PackedText
    <2>2. PackedSize(<<>>) = 0
      <3>1. Map(VarintSizeMap, <<>>) = <<>> /\ <<>> \in Seq(Value)
        BY EmptySeq DEF Map
      <3> QED
        BY <3>1, PackedMaps, SumFacts
    <2>3. <<>> \in Seq(Value) /\ ~(0 \in ToSet(<<>>))
      BY EmptySeq, ToSetFacts
    <2>4. PackedGood(<<>>)
      BY <2>1, <2>2, <2>3, TextFacts, VarintsFacts DEF PackedGood
    <2> QED
      BY <2>3, <2>4
  <1>2. ASSUME NEW vs \in Seq(Value), NEW v \in Value, vs \in P
        PROVE  <<v>> \o vs \in P
    <2>1. PackedGood(vs)
      BY <1>2
    <2>2. <<v>> \in Seq(Value) /\ <<v>> \o vs \in Seq(Value) /\ Len(<<v>> \o vs) = 1 + Len(vs)
          /\ Len(vs) \in Nat
      BY SingletonAppend, ConcatProperties, LenProperties
    <2>3. PackedText(<<v>> \o vs) = Varint(v) \o PackedText(vs)
      <3>1. Flat(VarintMap, <<v>> \o vs) = Flat(VarintMap, <<v>>) \o Flat(VarintMap, vs)
        <4>1. \A q, r \in Seq(Value) :
                  Flat(VarintMap, q \o r) = Flat(VarintMap, q) \o Flat(VarintMap, r)
          BY PackedMaps, FlatFacts, SMTT(40)
        <4> QED
          BY <2>2, <4>1, Zenon
      <3>2. Flat(VarintMap, <<v>>) = Varint(v)
        BY PackedMaps, FlatFacts DEF VarintMap
      <3> QED
        BY <3>1, <3>2 DEF PackedText
    <2>4. PackedSize(<<v>> \o vs) = VarintSize(v) + PackedSize(vs)
      <3> DEFINE a == Map(VarintSizeMap, <<v>>)
                 b == Map(VarintSizeMap, vs)
      <3>1. Map(VarintSizeMap, <<v>> \o vs) = a \o b
        <4>1. \A q, r \in Seq(Value) :
                  Map(VarintSizeMap, q \o r) = Map(VarintSizeMap, q) \o Map(VarintSizeMap, r)
          <5>1. Into(VarintSizeMap, Value, Int)
            BY PackedMaps
          <5> QED
            BY <5>1, MapConcats, SMTT(40)
        <4> QED
          BY <2>2, <4>1, Zenon
      <3>2. a = <<VarintSize(v)>> /\ a \in Seq(Int) /\ b \in Seq(Int)
        <4>1. a = <<VarintSize(v)>>
          BY PackedMaps, MapFacts DEF VarintSizeMap
        <4>2. a \in Seq(Int) /\ b \in Seq(Int)
          BY <2>2, PackedMaps, MapFacts
        <4> QED
          BY <4>1, <4>2
      <3>3. PackedSize(<<v>> \o vs) = SumOf(a \o b) /\ PackedSize(vs) = SumOf(b)
        BY <2>2, <3>1, PackedMaps
      <3>4. VarintSize(v) \in Int
        BY VarintSizeNat
      <3>5. SumOf(a) = VarintSize(v)
        BY <3>2, <3>4, SumOfOne
      <3> HIDE DEF a, b
      <3>6. SumOf(a \o b) = SumOf(a) + SumOf(b)
        BY <3>2, SumConcat
      <3> QED
        BY <3>3, <3>5, <3>6
    <2>5. Varint(v) \in Text /\ Len(Varint(v)) = VarintSize(v)
          /\ VarintSize(v) \in Nat /\ VarintSize(v) > 0 /\ (0 \in ToSet(Varint(v)) <=> v = 0)
      BY VarintBytes, VarintZero, VarintSizeNat
    <2>6. /\ PackedText(vs) \in Text /\ Len(PackedText(vs)) = PackedSize(vs)
          /\ PackedSize(vs) \in Nat
          /\ 0 \in ToSet(PackedText(vs)) <=> 0 \in ToSet(vs)
          /\ Varints[PackedText(vs)] = vs
      BY <2>1 DEF PackedGood
    <2>7. /\ Varint(v) \o PackedText(vs) \in Text
          /\ Len(Varint(v) \o PackedText(vs)) = VarintSize(v) + PackedSize(vs)
          /\ ToSet(Varint(v) \o PackedText(vs)) = ToSet(Varint(v)) \cup ToSet(PackedText(vs))
      BY <2>5, <2>6, TextConcat
    <2>8. ToSet(<<v>> \o vs) = {v} \cup ToSet(vs)
      <3>1. \A q, r \in Seq(Value) : ToSet(q \o r) = ToSet(q) \cup ToSet(r)
        BY ToSetFacts
      <3>2. ToSet(<<v>>) = {v}
        BY ToSetFacts
      <3>3. ToSet(<<v>> \o vs) = ToSet(<<v>>) \cup ToSet(vs)
        BY <2>2, <3>1, Zenon
      <3> QED
        BY <3>2, <3>3
    <2>9. 0 \in ToSet(PackedText(<<v>> \o vs)) <=> 0 \in ToSet(<<v>> \o vs)
      BY <2>3, <2>5, <2>6, <2>7, <2>8
    <2>10. Varints[PackedText(<<v>> \o vs)] = <<v>> \o vs
      BY <2>3, <2>6, VarintsFacts
    <2>11. VarintSize(v) + PackedSize(vs) \in Nat /\ VarintSize(v) + PackedSize(vs) # 0
      BY <2>5, <2>6
    <2>12. PackedText(<<v>> \o vs) # <<>>
      BY <2>3, <2>7, <2>11, TextFacts
    <2>13. <<v>> \o vs # <<>>
      BY <2>2, EmptySeq
    <2>14. PackedGood(<<v>> \o vs)
      BY <2>3, <2>4, <2>7, <2>9, <2>10, <2>11, <2>12, <2>13 DEF PackedGood
    <2> QED
      BY <2>2, <2>14
  <1>3. values \in P
    <2> HIDE DEF P
    <2> QED
      BY <1>1, <1>2, PrependingOn
  <1> QED
    BY <1>3

\* Whether a written text has a 0 may be said in other words.
LEMMA WrittenZero ==
    ASSUME NEW text, NEW size, NEW y, NEW z, NEW fields, WrittenAs(text, size, y, fields), y <=> z
    PROVE  WrittenAs(text, size, z, fields)
  BY DEF WrittenAs

PackedFields(number, values) ==
    IF values = <<>> THEN <<>> ELSE <<RunField(number, PackedText(values))>>

\* Packed values are written as one run, and as nothing when there are none.
LEMMA PackedWritten ==
    ASSUME NEW number \in Number, NEW values \in Seq(Value), PackedSize(values) \in Value
    PROVE  WrittenAs(Packed(number, values), PackedFieldSize(values), 0 \in ToSet(values),
                   PackedFields(number, values))
           /\ PackedFieldSize(values) \in Nat
  <1>1. PackedGood(values)
    BY PackedFacts
  <1>2. CASE values = <<>>
    <2>1. ~(0 \in ToSet(values))
      BY <1>2, ToSetFacts
    <2>2. WrittenAs(<<>>, 0, 0 \in ToSet(values), <<>>)
      BY <2>1, WrittenNothing DEF WrittenAs
    <2>3. /\ Packed(number, values) = <<>> /\ PackedFieldSize(values) = 0
          /\ PackedFields(number, values) = <<>>
      BY <1>2 DEF Packed, PackedFieldSize, PackedFields
    <2> QED
      BY <2>2, <2>3
  <1>3. CASE values # <<>>
    <2> DEFINE bytes == PackedText(values)
    <2>1. /\ bytes \in ShortText /\ Len(bytes) = PackedSize(values) /\ bytes # <<>>
          /\ 0 \in ToSet(bytes) <=> 0 \in ToSet(values)
      BY <1>1, <1>3 DEF PackedGood, ShortText
    <2>2. Packed(number, values) = RunText(number, bytes)
      BY <1>3, <2>1, PackedMaps DEF Packed, RunText
    <2>3. /\ PackedFieldSize(values) = RunSize(Len(bytes))
          /\ PackedFields(number, values) = <<RunField(number, bytes)>>
      BY <1>3, <2>1 DEF PackedFieldSize, PackedFields
    <2> HIDE DEF bytes
    <2>4. WrittenAs(RunText(number, bytes), RunSize(Len(bytes)), bytes = <<>> \/ 0 \in ToSet(bytes),
                  <<RunField(number, bytes)>>) /\ RunSize(Len(bytes)) \in Nat
      BY <2>1, RunWritten
    <2>5. (bytes = <<>> \/ 0 \in ToSet(bytes)) <=> 0 \in ToSet(values)
      BY <2>1
    <2>6. WrittenAs(RunText(number, bytes), RunSize(Len(bytes)), 0 \in ToSet(values),
                  <<RunField(number, bytes)>>)
      BY <2>4, <2>5 DEF WrittenAs
    <2> QED
      BY <2>2, <2>3, <2>4, <2>6
  <1> QED
    BY <1>2, <1>3

\* Submessages, given the text of each.
RunTextMap(number)  == [bytes \in ShortText |-> RunText(number, bytes)]
RunSizeMap          == [bytes \in ShortText |-> RunSize(Len(bytes))]
RunFieldMap(number) == [bytes \in ShortText |-> RunField(number, bytes)]

ZeroIn(texts) == \E t \in ToSet(texts) : t = <<>> \/ 0 \in ToSet(t)

MessagesGood(number, texts) ==
    /\ WrittenAs(Flat(RunTextMap(number), texts), SumOf(Map(RunSizeMap, texts)), ZeroIn(texts),
               Map(RunFieldMap(number), texts))
    /\ SumOf(Map(RunSizeMap, texts)) \in Nat

\* The text, the size and the field of a submessage, as functions.
LEMMA RunMaps ==
    ASSUME NEW number \in Number
    PROVE  /\ Into(RunTextMap(number), ShortText, Seq(Byte))
           /\ Into(RunSizeMap, ShortText, Int) /\ Into(RunSizeMap, ShortText, Nat)
           /\ Into(RunFieldMap(number), ShortText, GoodFields)
  <1>1. ASSUME NEW bytes \in ShortText
        PROVE  RunText(number, bytes) \in Seq(Byte) /\ RunSize(Len(bytes)) \in Nat
                 /\ RunField(number, bytes) \in GoodFields
    BY RunWritten, GoodFieldFacts DEF WrittenAs, Text
  <1>2. Into(RunTextMap(number), ShortText, Seq(Byte))
    BY <1>1 DEF Into, RunTextMap
  <1>3. Into(RunSizeMap, ShortText, Int) /\ Into(RunSizeMap, ShortText, Nat)
    BY <1>1 DEF Into, RunSizeMap
  <1>4. Into(RunFieldMap(number), ShortText, GoodFields)
    BY <1>1 DEF Into, RunFieldMap
  <1> QED
    BY <1>2, <1>3, <1>4

\* A list of submessages is written as one run for each.
LEMMA MessagesWritten ==
    ASSUME NEW number \in Number, NEW texts \in Seq(ShortText)
    PROVE  MessagesGood(number, texts)
  <1> DEFINE T == RunTextMap(number)
             F == RunFieldMap(number)
             P == { ts \in Seq(ShortText) : MessagesGood(number, ts) }
  <1>0. Into(T, ShortText, Seq(Byte)) /\ Into(RunSizeMap, ShortText, Int) /\ Into(F, ShortText, GoodFields)
    BY RunMaps
  <1>1. <<>> \in P
    <2>1. Flat(T, <<>>) = <<>> /\ Map(F, <<>>) = <<>> /\ SumOf(Map(RunSizeMap, <<>>)) = 0
      <3>1. Flat(T, <<>>) = <<>>
        BY <1>0, FlatFacts
      <3>2. Map(F, <<>>) = <<>> /\ Map(RunSizeMap, <<>>) = <<>>
        BY DEF Map
      <3> QED
        BY <3>1, <3>2, SumFacts
    <2>2. <<>> \in Seq(ShortText) /\ ~ZeroIn(<<>>)
      BY EmptySeq, ToSetFacts DEF ZeroIn
    <2>3. WrittenAs(<<>>, 0, ZeroIn(<<>>), <<>>)
      BY <2>2, WrittenNothing DEF WrittenAs
    <2>4. MessagesGood(number, <<>>)
      BY <2>1, <2>3 DEF MessagesGood
    <2> QED
      BY <2>2, <2>4
  <1>2. ASSUME NEW ts \in Seq(ShortText), NEW t \in ShortText, ts \in P
        PROVE  Append(ts, t) \in P
    <2> DEFINE a == Flat(T, ts)
               m == SumOf(Map(RunSizeMap, ts))
               f == Map(F, ts)
               n == RunSize(Len(t))
    <2>1. WrittenAs(a, m, ZeroIn(ts), f) /\ m \in Nat
      BY <1>2 DEF MessagesGood
    <2>2. WrittenAs(RunText(number, t), n, t = <<>> \/ 0 \in ToSet(t), <<RunField(number, t)>>)
          /\ n \in Nat
      BY RunWritten
    <2>3. Append(ts, t) = ts \o <<t>> /\ <<t>> \in Seq(ShortText) /\ Append(ts, t) \in Seq(ShortText)
      BY AppendIsConcat, SingletonAppend, AppendProperties
    <2>4. Flat(T, Append(ts, t)) = a \o RunText(number, t)
      <3>1. \A q, r \in Seq(ShortText) : Flat(T, q \o r) = Flat(T, q) \o Flat(T, r)
        BY <1>0, FlatFacts, SMTT(40)
      <3>2. Flat(T, <<t>>) = T[t]
        BY <1>0, FlatFacts
      <3>3. T[t] = RunText(number, t)
        BY DEF RunTextMap
      <3>4. Flat(T, ts \o <<t>>) = Flat(T, ts) \o Flat(T, <<t>>)
        BY <2>3, <3>1, Zenon
      <3> QED
        BY <2>3, <3>2, <3>3, <3>4
    <2>5. Map(F, Append(ts, t)) = f \o <<RunField(number, t)>>
      <3>1. \A q, r \in Seq(ShortText) : Map(F, q \o r) = Map(F, q) \o Map(F, r)
        <4>1. Into(F, ShortText, GoodFields)
          BY <1>0
        <4> HIDE DEF F
        <4> QED
          BY <4>1, MapConcats, SMTT(40)
      <3>2. Map(F, <<t>>) = <<F[t]>>
        BY <1>0, MapFacts
      <3>3. F[t] = RunField(number, t)
        BY DEF RunFieldMap
      <3>4. Map(F, ts \o <<t>>) = Map(F, ts) \o Map(F, <<t>>)
        BY <2>3, <3>1, Zenon
      <3> QED
        BY <2>3, <3>2, <3>3, <3>4
    <2>6. SumOf(Map(RunSizeMap, Append(ts, t))) = m + n
      <3>1. \A q, r \in Seq(ShortText) : Map(RunSizeMap, q \o r) = Map(RunSizeMap, q) \o Map(RunSizeMap, r)
        <4>1. Into(RunSizeMap, ShortText, Int)
          BY <1>0
        <4> QED
          BY <4>1, MapConcats, SMTT(40)
      <3>2. Map(RunSizeMap, <<t>>) = <<RunSizeMap[t]>>
        BY <1>0, MapFacts
      <3>3. RunSizeMap[t] = n
        BY DEF RunSizeMap
      <3>4. Map(RunSizeMap, ts \o <<t>>) = Map(RunSizeMap, ts) \o Map(RunSizeMap, <<t>>)
        BY <2>3, <3>1, Zenon
      <3>5. PICK q \in Seq(Int) : q = Map(RunSizeMap, ts)
        BY <1>0, MapFacts
      <3> HIDE DEF n
      <3>6. <<n>> \in Seq(Int) /\ SumOf(<<n>>) = n
        <4>1. n \in Int
          BY <2>2
        <4> QED
          BY <4>1, SumOfOne, SingletonAppend
      <3>7. SumOf(q \o <<n>>) = SumOf(q) + SumOf(<<n>>)
        BY <3>5, <3>6, SumConcat
      <3> QED
        BY <2>3, <3>2, <3>3, <3>4, <3>5, <3>6, <3>7
    <2>7. ZeroIn(Append(ts, t)) <=> (ZeroIn(ts) \/ (t = <<>> \/ 0 \in ToSet(t)))
      <3>1. ToSet(Append(ts, t)) = ToSet(ts) \cup {t}
        BY ToSetAppend
      <3> QED
        BY <3>1 DEF ZeroIn
    <2> HIDE DEF a, m, f, n
    <2>8. WrittenAs(a \o RunText(number, t), m + n, ZeroIn(ts) \/ (t = <<>> \/ 0 \in ToSet(t)),
                  f \o <<RunField(number, t)>>)
      BY <2>1, <2>2, WrittenConcat
    <2>9. WrittenAs(a \o RunText(number, t), m + n, ZeroIn(Append(ts, t)),
                  f \o <<RunField(number, t)>>)
      <3> DEFINE whole == a \o RunText(number, t)
                 size == m + n
                 fields == f \o <<RunField(number, t)>>
                 y == ZeroIn(ts) \/ (t = <<>> \/ 0 \in ToSet(t))
                 z == ZeroIn(Append(ts, t))
      <3>1. WrittenAs(whole, size, y, fields) /\ (y <=> z)
        BY <2>7, <2>8
      <3> HIDE DEF whole, size, fields, y, z
      <3>2. WrittenAs(whole, size, z, fields)
        BY <3>1, WrittenZero
      <3> QED
        BY <3>2 DEF whole, size, fields, z
    <2>10. m + n \in Nat
      BY <2>1, <2>2
    <2>11. MessagesGood(number, Append(ts, t))
      BY <2>4, <2>5, <2>6, <2>9, <2>10 DEF MessagesGood
    <2> QED
      BY <2>3, <2>11
  <1>3. texts \in P
    <2> HIDE DEF P
    <2> QED
      BY <1>1, <1>2, AppendingOn
  <1> QED
    BY <1>3

----------------------------------------------------------------------------
(* What a parse makes of fields. *)

\* The largest member of a set of positions.
LEMMA LargestIs ==
    ASSUME NEW n \in Nat, NEW S \in SUBSET (1 .. n), S # {}
    PROVE  Max(S) \in S /\ \A k \in S : k <= Max(S)
  <1> DEFINE T == { n - k : k \in S }
  <1>1. T \in SUBSET Nat /\ T # {}
    <2>1. \A k \in S : k \in 1 .. n /\ n - k \in Nat
      OBVIOUS
    <2>2. T \subseteq Nat
      BY <2>1
    <2>3. T # {}
      OBVIOUS
    <2> HIDE DEF T
    <2> QED
      BY <2>2, <2>3
  <1>2. PICK m \in T : \A k \in T : m <= k
    <2> HIDE DEF T
    <2> QED
      BY <1>1, SmallestExists
  <1>3. PICK x \in S : m = n - x
    BY <1>2
  <1>4. \A k \in S : x >= k
    <2> SUFFICES ASSUME NEW k \in S
                 PROVE  x >= k
      OBVIOUS
    <2>1. n - x <= n - k
      BY <1>2, <1>3
    <2>2. x \in Int /\ k \in Int
      OBVIOUS
    <2> QED
      BY <2>1, <2>2
  <1>5. Max(S) \in S /\ \A k \in S : Max(S) >= k
    BY <1>4 DEF Max
  <1>6. \A k \in S : k \in Int
    OBVIOUS
  <1> QED
    BY <1>5, <1>6

\* The smallest member of a set of positions.
LEMMA SmallestIs ==
    ASSUME NEW n \in Nat, NEW S \in SUBSET (1 .. n), S # {}
    PROVE  Min(S) \in S /\ \A k \in S : Min(S) <= k
  <1>1. S \in SUBSET Nat
    OBVIOUS
  <1>2. PICK m \in S : \A k \in S : m <= k
    BY <1>1, SmallestExists
  <1> QED
    BY <1>2 DEF Min

\* The varints, and the runs of bytes, among fields have one value, the default
\* if there are none.
HoldsVarint(fields, number, v) ==
    /\ \A f \in ToSet(fields) : IsVarint(f, number) => f.value = v
    /\ v # 0 => \E f \in ToSet(fields) : IsVarint(f, number)
HoldsRun(fields, number, chars) ==
    /\ \A f \in ToSet(fields) : IsRun(f, number) => f.bytes = chars /\ f.whole
    /\ chars # <<>> => \E f \in ToSet(fields) : IsRun(f, number)

\* A number is read from fields that hold it.
LEMMA UInt32InHeld ==
    ASSUME NEW fields \in Seq(FieldSet), NEW number, NEW v, HoldsVarint(fields, number, v)
    PROVE  UInt32In(fields, number) = v
  <1> DEFINE I == { i \in 1 .. Len(fields) : IsVarint(fields[i], number) }
             last == IF I # {} THEN Max(I) ELSE 0
  <1>1. UInt32In(fields, number) = IF last = 0 THEN 0 ELSE fields[last].value
    BY DEF UInt32In, At, SelectLastInSeq
  <1>2. ToSet(fields) = { fields[i] : i \in 1 .. Len(fields) } /\ Len(fields) \in Nat
    BY ToSetFacts, LenProperties
  <1>3. CASE I = {}
    <2>1. v = 0
      BY <1>2, <1>3 DEF HoldsVarint
    <2> QED
      BY <1>1, <1>3, <2>1
  <1>4. CASE I # {}
    <2>1. last = Max(I)
      BY <1>4
    <2>2. I \in SUBSET (1 .. Len(fields))
      OBVIOUS
    <2>3. Max(I) \in I
      <3> HIDE DEF I
      <3> QED
        BY <1>2, <1>4, <2>2, LargestIs
    <2>4. last \in 1 .. Len(fields) /\ IsVarint(fields[last], number)
      BY <2>1, <2>3
    <2> HIDE DEF last
    <2>5. fields[last].value = v
      BY <1>2, <2>4 DEF HoldsVarint
    <2>6. last # 0
      BY <1>2, <2>4
    <2> QED
      BY <1>1, <2>5, <2>6
  <1> QED
    BY <1>3, <1>4

\* A string is read from fields that hold it.
LEMMA StringInHeld ==
    ASSUME NEW fields \in Seq(FieldSet), NEW number, NEW chars, HoldsRun(fields, number, chars)
    PROVE  StringIn(fields, number) = chars
  <1> DEFINE I == { i \in 1 .. Len(fields) : IsRun(fields[i], number) /\ fields[i].whole }
             last == IF I # {} THEN Max(I) ELSE 0
  <1>1. StringIn(fields, number) = IF last = 0 THEN <<>> ELSE fields[last].bytes
    BY DEF StringIn, At, SelectLastInSeq
  <1>2. ToSet(fields) = { fields[i] : i \in 1 .. Len(fields) } /\ Len(fields) \in Nat
    BY ToSetFacts, LenProperties
  <1>3. CASE I = {}
    <2>1. chars = <<>>
      BY <1>2, <1>3 DEF HoldsRun
    <2> QED
      BY <1>1, <1>3, <2>1
  <1>4. CASE I # {}
    <2>1. last = Max(I)
      BY <1>4
    <2>2. I \in SUBSET (1 .. Len(fields))
      OBVIOUS
    <2>3. Max(I) \in I
      <3> HIDE DEF I
      <3> QED
        BY <1>2, <1>4, <2>2, LargestIs
    <2>4. last \in 1 .. Len(fields) /\ IsRun(fields[last], number)
      BY <2>1, <2>3
    <2> HIDE DEF last
    <2>5. fields[last].bytes = chars
      BY <1>2, <2>4 DEF HoldsRun
    <2>6. last # 0
      BY <1>2, <2>4
    <2> QED
      BY <1>1, <2>5, <2>6
  <1> QED
    BY <1>3, <1>4

\* Repeated fields are gathered field by field.
RunsMap(number) == [f \in FieldSet |-> IF IsRun(f, number) THEN <<f.bytes>> ELSE <<>>]

\* The runs under a number, as a Flat.
LEMMA RunsInFlat ==
    ASSUME NEW number
    PROVE  /\ Into(RunsMap(number), FieldSet, Seq(Text))
           /\ \A fields \in Seq(FieldSet) : RunsIn(fields, number) = Flat(RunsMap(number), fields)
  <1>1. \A f \in FieldSet : f.bytes \in Text
    BY DEF FieldSet
  <1>2. \A f \in FieldSet : <<f.bytes>> \in Seq(Text) /\ <<>> \in Seq(Text)
    BY <1>1, SingletonAppend
  <1>3. Into(RunsMap(number), FieldSet, Seq(Text))
    BY <1>2 DEF Into, RunsMap
  <1>4. ASSUME NEW fields \in Seq(FieldSet)
        PROVE  RunsIn(fields, number) = Flat(RunsMap(number), fields)
    <2>1. \A i \in DOMAIN fields : fields[i] \in FieldSet
      BY LenProperties, ElementOfSeq
    <2>2. Map(RunsMap(number), fields)
            = [i \in DOMAIN fields |-> IF IsRun(fields[i], number) THEN <<fields[i].bytes>> ELSE <<>>]
      BY <2>1 DEF Map, RunsMap
    <2> QED
      BY <2>2 DEF RunsIn, Flat
  <1> QED
    BY <1>3, <1>4

\* Varints reads numbers from any text.
LEMMA VarintsTyped == \A text \in Text : Varints[text] \in Seq(Nat)
  <1> DEFINE P == { n \in Nat : \A text \in Text : Len(text) <= n => Varints[text] \in Seq(Nat) }
  <1>1. ASSUME NEW n \in Nat, NEW text \in Text, Len(text) <= n,
               \A t \in Text : Len(t) < Len(text) => Varints[t] \in Seq(Nat)
        PROVE  Varints[text] \in Seq(Nat)
    <2>1. CASE ~HeadOf(text).ends
      BY <2>1, VarintsEquation, EmptySeq
    <2>2. CASE HeadOf(text).ends
      <3> DEFINE v == HeadOf(text).value
                 rest == HeadOf(text).rest
      <3>1. v \in Nat /\ rest \in Text /\ Len(rest) < Len(text)
        BY <2>2, HeadFacts
      <3>2. Varints[text] = <<v>> \o Varints[rest]
        BY <2>2, VarintsEquation
      <3> HIDE DEF v, rest
      <3>3. <<v>> \in Seq(Nat) /\ Varints[rest] \in Seq(Nat)
        BY <1>1, <3>1, SingletonAppend
      <3> QED
        BY <3>2, <3>3, ConcatProperties
    <2> QED
      BY <2>1, <2>2
  <1>2. 0 \in P
    <2> SUFFICES ASSUME NEW text \in Text, Len(text) <= 0
                 PROVE  Varints[text] \in Seq(Nat)
      OBVIOUS
    <2>1. \A t \in Text : ~(Len(t) < Len(text))
      BY TextFacts
    <2> QED
      BY <1>1, <2>1
  <1>3. ASSUME NEW n \in Nat, n \in P
        PROVE  n + 1 \in P
    <2> SUFFICES ASSUME NEW text \in Text, Len(text) <= n + 1
                 PROVE  Varints[text] \in Seq(Nat)
      OBVIOUS
    <2>1. \A t \in Text : Len(t) < Len(text) => Len(t) <= n
      BY TextFacts
    <2>2. \A t \in Text : Len(t) < Len(text) => Varints[t] \in Seq(Nat)
      BY <1>3, <2>1
    <2>3. n + 1 \in Nat
      OBVIOUS
    <2> QED
      BY <1>1, <2>2, <2>3
  <1>4. Nat \subseteq P
    <2> HIDE DEF P
    <2> QED
      BY <1>2, <1>3, CountingUp
  <1>5. ASSUME NEW text \in Text
        PROVE  Varints[text] \in Seq(Nat)
    <2>1. Len(text) \in Nat
      BY TextFacts
    <2>2. Len(text) \in P /\ Len(text) <= Len(text)
      BY <1>4, <2>1
    <2> QED
      BY <2>2
  <1> QED
    BY <1>5

UInt32sMap(number) ==
    [f \in FieldSet |-> IF IsVarint(f, number) THEN <<f.value>>
                        ELSE IF IsRun(f, number) THEN Varints[f.bytes] ELSE <<>>]

\* The packed numbers under a number, as a Flat.
LEMMA UInt32sInFlat ==
    ASSUME NEW number
    PROVE  /\ Into(UInt32sMap(number), FieldSet, Seq(Nat))
           /\ \A fields \in Seq(FieldSet) :
                  UInt32sIn(fields, number) = Flat(UInt32sMap(number), fields)
  <1>1. \A f \in FieldSet : f.bytes \in Text /\ f.value \in Nat
    BY DEF FieldSet
  <1>2. \A f \in FieldSet : <<f.value>> \in Seq(Nat) /\ <<>> \in Seq(Nat) /\ Varints[f.bytes] \in Seq(Nat)
    BY <1>1, SingletonAppend, VarintsTyped
  <1>3. Into(UInt32sMap(number), FieldSet, Seq(Nat))
    BY <1>2 DEF Into, UInt32sMap
  <1>4. ASSUME NEW fields \in Seq(FieldSet)
        PROVE  UInt32sIn(fields, number) = Flat(UInt32sMap(number), fields)
    <2>1. \A i \in DOMAIN fields : fields[i] \in FieldSet
      BY LenProperties, ElementOfSeq
    <2>2. Map(UInt32sMap(number), fields)
            = [i \in DOMAIN fields |->
                IF IsVarint(fields[i], number) THEN <<fields[i].value>>
                ELSE IF IsRun(fields[i], number) THEN Varints[fields[i].bytes]
                ELSE <<>>]
      BY <2>1 DEF Map, UInt32sMap
    <2> QED
      BY <2>2 DEF UInt32sIn, Flat
  <1> QED
    BY <1>3, <1>4

\* Fields that are whole, with no submessage that fails, are all taken in.
LEMMA UntilNoSubmessage ==
    ASSUME NEW fields \in Seq(GoodFields)
    PROVE  Until(fields, NoSubmessage) = fields
  <1>1. \A i \in 1 .. Len(fields) : fields[i].whole
    BY ElementOfSeq, GoodFieldFacts
  <1>2. { i \in 1 .. Len(fields) : ~fields[i].whole \/ NoSubmessage(fields[i]) } = {}
    BY <1>1 DEF NoSubmessage
  <1> QED
    BY <1>2 DEF Until, UpTo, SelectInSeq

\* Pieces of fields, one after the other.
LEMMA FieldsConcat ==
    ASSUME NEW a \in Seq(FieldSet), NEW b \in Seq(FieldSet)
    PROVE  /\ a \o b \in Seq(FieldSet) /\ ToSet(a \o b) = ToSet(a) \cup ToSet(b)
           /\ \A number : RunsIn(a \o b, number) = RunsIn(a, number) \o RunsIn(b, number)
           /\ \A number : UInt32sIn(a \o b, number) = UInt32sIn(a, number) \o UInt32sIn(b, number)
  <1>1. a \o b \in Seq(FieldSet)
    BY ConcatProperties
  <1>2. ToSet(a \o b) = ToSet(a) \cup ToSet(b)
    <2>1. \A q, r \in Seq(FieldSet) : ToSet(q \o r) = ToSet(q) \cup ToSet(r)
      BY ToSetFacts
    <2> QED
      BY <2>1
  <1>3. ASSUME NEW number
        PROVE  RunsIn(a \o b, number) = RunsIn(a, number) \o RunsIn(b, number)
    <2>1. \A q, r \in Seq(FieldSet) :
              Flat(RunsMap(number), q \o r) = Flat(RunsMap(number), q) \o Flat(RunsMap(number), r)
      <3>1. Into(RunsMap(number), FieldSet, Seq(Text))
        BY RunsInFlat
      <3> QED
        BY <3>1, FlatFacts, SMTT(40)
    <2>2. \A q \in Seq(FieldSet) : RunsIn(q, number) = Flat(RunsMap(number), q)
      BY RunsInFlat
    <2> QED
      BY <1>1, <2>1, <2>2, Zenon
  <1>4. ASSUME NEW number
        PROVE  UInt32sIn(a \o b, number) = UInt32sIn(a, number) \o UInt32sIn(b, number)
    <2>1. \A q, r \in Seq(FieldSet) :
              Flat(UInt32sMap(number), q \o r)
                = Flat(UInt32sMap(number), q) \o Flat(UInt32sMap(number), r)
      <3>1. Into(UInt32sMap(number), FieldSet, Seq(Nat))
        BY UInt32sInFlat
      <3> QED
        BY <3>1, FlatFacts, SMTT(40)
    <2>2. \A q \in Seq(FieldSet) : UInt32sIn(q, number) = Flat(UInt32sMap(number), q)
      BY UInt32sInFlat
    <2> QED
      BY <1>1, <2>1, <2>2, Zenon
  <1> QED
    BY <1>1, <1>2, <1>3, <1>4

\* Nothing is read from no fields.
LEMMA NoFields ==
    /\ <<>> \in Seq(FieldSet) /\ ToSet(<<>>) = {}
    /\ \A number : RunsIn(<<>>, number) = <<>> /\ UInt32sIn(<<>>, number) = <<>>
  <1>1. <<>> \in Seq(FieldSet) /\ ToSet(<<>>) = {}
    BY EmptySeq, ToSetFacts
  <1>2. ASSUME NEW number
        PROVE  RunsIn(<<>>, number) = <<>> /\ UInt32sIn(<<>>, number) = <<>>
    <2>1. Flat(RunsMap(number), <<>>) = <<>> /\ Flat(UInt32sMap(number), <<>>) = <<>>
      BY RunsInFlat, UInt32sInFlat, FlatFacts
    <2> QED
      BY <1>1, <2>1, RunsInFlat, UInt32sInFlat
  <1> QED
    BY <1>1, <1>2

\* What is read from one field.
LEMMA OneField ==
    ASSUME NEW f \in FieldSet
    PROVE  /\ <<f>> \in Seq(FieldSet) /\ ToSet(<<f>>) = {f}
           /\ \A number :
                /\ RunsIn(<<f>>, number) = IF IsRun(f, number) THEN <<f.bytes>> ELSE <<>>
                /\ UInt32sIn(<<f>>, number) = IF IsVarint(f, number) THEN <<f.value>>
                                              ELSE IF IsRun(f, number) THEN Varints[f.bytes] ELSE <<>>
  <1>1. <<f>> \in Seq(FieldSet) /\ ToSet(<<f>>) = {f}
    BY SingletonAppend, ToSetFacts
  <1>2. ASSUME NEW number
        PROVE  /\ RunsIn(<<f>>, number) = RunsMap(number)[f]
               /\ UInt32sIn(<<f>>, number) = UInt32sMap(number)[f]
    <2>1. Flat(RunsMap(number), <<f>>) = RunsMap(number)[f]
      <3>1. Into(RunsMap(number), FieldSet, Seq(Text))
        BY RunsInFlat
      <3> QED
        BY <3>1, FlatFacts
    <2>2. Flat(UInt32sMap(number), <<f>>) = UInt32sMap(number)[f]
      <3>1. Into(UInt32sMap(number), FieldSet, Seq(Nat))
        BY UInt32sInFlat
      <3> QED
        BY <3>1, FlatFacts
    <2> QED
      BY <1>1, <2>1, <2>2, RunsInFlat, UInt32sInFlat
  <1>3. ASSUME NEW number
        PROVE  /\ RunsMap(number)[f] = IF IsRun(f, number) THEN <<f.bytes>> ELSE <<>>
               /\ UInt32sMap(number)[f] = IF IsVarint(f, number) THEN <<f.value>>
                                              ELSE IF IsRun(f, number) THEN Varints[f.bytes] ELSE <<>>
    BY DEF RunsMap, UInt32sMap
  <1> QED
    BY <1>1, <1>2, <1>3

\* What a number writes is read under its own number only.
LEMMA UInt32FieldsAre ==
    ASSUME NEW number \in Number, NEW v \in Value
    PROVE  /\ UInt32Fields(number, v) \in Seq(FieldSet)
           /\ \A f \in ToSet(UInt32Fields(number, v)) :
                 f.number = number /\ f.wire = 0 /\ f.value = v
           /\ v # 0 => \E f \in ToSet(UInt32Fields(number, v)) : IsVarint(f, number)
           /\ \A k : RunsIn(UInt32Fields(number, v), k) = <<>>
           /\ \A k : k # number => UInt32sIn(UInt32Fields(number, v), k) = <<>>
  <1> DEFINE f == VarintField(number, v)
  <1>1. f \in FieldSet /\ f.number = number /\ f.wire = 0 /\ f.value = v
    <2>1. f \in FieldSet
      BY GoodFieldFacts
    <2> QED
      BY <2>1 DEF VarintField, Field
  <1>2. CASE v = 0
    BY <1>2, NoFields DEF UInt32Fields
  <1>3. CASE v # 0
    <2>1. UInt32Fields(number, v) = <<f>>
      BY <1>3 DEF UInt32Fields
    <2> HIDE DEF f
    <2>2. IsVarint(f, number) /\ \A k : ~IsRun(f, k) /\ (k # number => ~IsVarint(f, k))
      BY <1>1 DEF IsVarint, IsRun
    <2>3. <<f>> \in Seq(FieldSet) /\ ToSet(<<f>>) = {f}
      BY <1>1, OneField
    <2>4. \A k : RunsIn(<<f>>, k) = <<>> /\ (k # number => UInt32sIn(<<f>>, k) = <<>>)
      BY <1>1, <2>2, OneField
    <2> QED
      BY <1>1, <2>1, <2>2, <2>3, <2>4
  <1> QED
    BY <1>2, <1>3

\* The field of a run of bytes.
LEMMA RunFieldIs ==
    ASSUME NEW number \in Number, NEW bytes \in ShortText
    PROVE  /\ RunField(number, bytes) \in FieldSet
           /\ RunField(number, bytes).number = number /\ RunField(number, bytes).wire = 2
           /\ RunField(number, bytes).bytes = bytes /\ RunField(number, bytes).whole
           /\ IsRun(RunField(number, bytes), number)
           /\ \A k : ~IsVarint(RunField(number, bytes), k)
           /\ \A k : k # number => ~IsRun(RunField(number, bytes), k)
  <1>1. RunField(number, bytes) \in FieldSet
    BY GoodFieldFacts
  <1>2. /\ RunField(number, bytes).number = number /\ RunField(number, bytes).wire = 2
        /\ RunField(number, bytes).bytes = bytes /\ RunField(number, bytes).whole
    BY DEF RunField, Field
  <1> QED
    BY <1>1, <1>2 DEF IsRun, IsVarint

\* What a string writes is read under its own number only.
LEMMA StringFieldsAre ==
    ASSUME NEW number \in Number, NEW chars \in ShortText
    PROVE  /\ StringFields(number, chars) \in Seq(FieldSet)
           /\ \A f \in ToSet(StringFields(number, chars)) :
                 f.number = number /\ f.wire = 2 /\ f.bytes = chars /\ f.whole
           /\ chars # <<>> => \E f \in ToSet(StringFields(number, chars)) : IsRun(f, number)
           /\ \A k : k # number => RunsIn(StringFields(number, chars), k) = <<>>
  <1> DEFINE f == RunField(number, chars)
  <1>1. /\ f \in FieldSet /\ f.number = number /\ f.wire = 2 /\ f.bytes = chars /\ f.whole
        /\ IsRun(f, number) /\ \A k : k # number => ~IsRun(f, k)
    BY RunFieldIs
  <1>2. CASE chars = <<>>
    BY <1>2, NoFields DEF StringFields
  <1>3. CASE chars # <<>>
    <2>1. StringFields(number, chars) = <<f>>
      BY <1>3 DEF StringFields
    <2> HIDE DEF f
    <2>2. <<f>> \in Seq(FieldSet) /\ ToSet(<<f>>) = {f}
      BY <1>1, OneField
    <2>3. \A k : k # number => RunsIn(<<f>>, k) = <<>>
      BY <1>1, OneField
    <2> QED
      BY <1>1, <2>1, <2>2, <2>3
  <1> QED
    BY <1>2, <1>3

\* What packed values write is read under their own number only.
LEMMA PackedFieldsAre ==
    ASSUME NEW number \in Number, NEW values \in Seq(Value), PackedSize(values) \in Value
    PROVE  /\ PackedFields(number, values) \in Seq(FieldSet)
           /\ \A f \in ToSet(PackedFields(number, values)) : f.number = number /\ f.wire = 2
           /\ \A k : UInt32sIn(PackedFields(number, values), k) = IF k = number THEN values ELSE <<>>
           /\ \A k : k # number => RunsIn(PackedFields(number, values), k) = <<>>
  <1> DEFINE bytes == PackedText(values)
             f == RunField(number, bytes)
  <1>1. bytes \in ShortText /\ Varints[bytes] = values
    BY PackedFacts DEF PackedGood, ShortText
  <1>2. CASE values = <<>>
    BY <1>2, NoFields DEF PackedFields
  <1>3. CASE values # <<>>
    <2>1. PackedFields(number, values) = <<f>>
      BY <1>3 DEF PackedFields
    <2>2. /\ f \in FieldSet /\ f.number = number /\ f.wire = 2 /\ f.bytes = bytes
          /\ IsRun(f, number) /\ \A k : ~IsVarint(f, k)
          /\ \A k : k # number => ~IsRun(f, k)
      <3> HIDE DEF bytes
      <3> QED
        BY <1>1, RunFieldIs
    <2> HIDE DEF f, bytes
    <2>3. \A k : UInt32sIn(<<f>>, k) = IF k = number THEN values ELSE <<>>
      BY <1>1, <2>2, OneField
    <2>4. \A k : k # number => RunsIn(<<f>>, k) = <<>>
      BY <2>2, OneField
    <2> QED
      BY <2>1, <2>2, <2>3, <2>4, OneField
  <1> QED
    BY <1>2, <1>3

\* What a list of submessages writes is read under their own number only.
LEMMA MessageFieldsAre ==
    ASSUME NEW number \in Number, NEW texts \in Seq(ShortText)
    PROVE  /\ Map(RunFieldMap(number), texts) \in Seq(FieldSet)
           /\ \A f \in ToSet(Map(RunFieldMap(number), texts)) :
                f.number = number /\ f.wire = 2 /\ f.whole /\ f.bytes \in ToSet(texts)
           /\ \A k : RunsIn(Map(RunFieldMap(number), texts), k) = IF k = number THEN texts ELSE <<>>
           /\ \A k : k # number => UInt32sIn(Map(RunFieldMap(number), texts), k) = <<>>
  <1> DEFINE F == RunFieldMap(number)
             P == { ts \in Seq(ShortText) :
                     /\ \A k : RunsIn(Map(F, ts), k) = IF k = number THEN ts ELSE <<>>
                     /\ \A k : k # number => UInt32sIn(Map(F, ts), k) = <<>> }
  <1>1. Into(F, ShortText, FieldSet) /\ \A t \in ShortText : F[t] = RunField(number, t)
    BY RunMaps, GoodFieldFacts DEF Into, RunFieldMap
  <1> HIDE DEF F
  <1>2. \A ts \in Seq(ShortText) : Map(F, ts) \in Seq(FieldSet)
    BY <1>1, MapFacts
  <1>3. \A f \in ToSet(Map(F, texts)) :
            f.number = number /\ f.wire = 2 /\ f.whole /\ f.bytes \in ToSet(texts)
    <2>1. /\ Len(Map(F, texts)) = Len(texts)
          /\ \A i \in 1 .. Len(texts) : Map(F, texts)[i] = F[texts[i]]
      BY <1>1, MapFacts
    <2>2. ToSet(Map(F, texts)) = { Map(F, texts)[i] : i \in 1 .. Len(Map(F, texts)) }
      <3>1. PICK m \in Seq(FieldSet) : m = Map(F, texts)
        BY <1>2
      <3> QED
        BY <3>1, ToSetFacts
    <2>3. \A i \in 1 .. Len(texts) : texts[i] \in ShortText /\ texts[i] \in ToSet(texts)
      BY ElementOfSeq, ToSetFacts
    <2>4. ASSUME NEW f \in ToSet(Map(F, texts))
          PROVE  f.number = number /\ f.wire = 2 /\ f.whole /\ f.bytes \in ToSet(texts)
      <3>1. PICK i \in 1 .. Len(texts) : f = F[texts[i]]
        BY <2>1, <2>2
      <3>2. f = RunField(number, texts[i]) /\ texts[i] \in ShortText /\ texts[i] \in ToSet(texts)
        BY <1>1, <2>3, <3>1
      <3> QED
        BY <3>2, RunFieldIs
    <2> QED
      BY <2>4
  <1>4. <<>> \in P
    <2>1. Map(F, <<>>) = <<>> /\ <<>> \in Seq(ShortText)
      BY EmptySeq DEF Map
    <2> QED
      BY <2>1, NoFields
  <1>5. ASSUME NEW ts \in Seq(ShortText), NEW t \in ShortText, ts \in P
        PROVE  Append(ts, t) \in P
    <2>1. Append(ts, t) = ts \o <<t>> /\ <<t>> \in Seq(ShortText) /\ Append(ts, t) \in Seq(ShortText)
      BY AppendIsConcat, SingletonAppend, AppendProperties
    <2> DEFINE f == RunField(number, t)
               fs == Map(F, ts)
    <2>2. Map(F, Append(ts, t)) = fs \o <<f>>
      <3>1. \A q, r \in Seq(ShortText) : Map(F, q \o r) = Map(F, q) \o Map(F, r)
        BY <1>1, MapConcats, SMTT(40)
      <3>2. Map(F, <<t>>) = <<f>>
        BY <1>1, MapFacts
      <3>3. Map(F, ts \o <<t>>) = Map(F, ts) \o Map(F, <<t>>)
        BY <2>1, <3>1, Zenon
      <3> QED
        BY <2>1, <3>2, <3>3
    <2>3. /\ f \in FieldSet /\ f.number = number /\ f.bytes = t
          /\ IsRun(f, number) /\ \A k : ~IsVarint(f, k)
          /\ \A k : k # number => ~IsRun(f, k)
      BY RunFieldIs
    <2>4. fs \in Seq(FieldSet)
      BY <1>2
    <2>5. /\ \A k : RunsIn(fs, k) = IF k = number THEN ts ELSE <<>>
          /\ \A k : k # number => UInt32sIn(fs, k) = <<>>
      BY <1>5
    <2> HIDE DEF f, fs
    <2>6. /\ <<f>> \in Seq(FieldSet)
          /\ \A k : RunsIn(<<f>>, k) = IF k = number THEN <<t>> ELSE <<>>
          /\ \A k : k # number => UInt32sIn(<<f>>, k) = <<>>
      BY <2>3, OneField
    <2>7. /\ \A k : RunsIn(fs \o <<f>>, k) = RunsIn(fs, k) \o RunsIn(<<f>>, k)
          /\ \A k : UInt32sIn(fs \o <<f>>, k) = UInt32sIn(fs, k) \o UInt32sIn(<<f>>, k)
      BY <2>4, <2>6, FieldsConcat
    <2>8. <<>> \o <<>> = <<>>
      OBVIOUS
    <2>9. \A k : RunsIn(fs \o <<f>>, k) = IF k = number THEN Append(ts, t) ELSE <<>>
      BY <2>1, <2>5, <2>6, <2>7, <2>8
    <2>10. \A k : k # number => UInt32sIn(fs \o <<f>>, k) = <<>>
      BY <2>5, <2>6, <2>7, <2>8
    <2>11. /\ \A k : RunsIn(Map(F, Append(ts, t)), k) = IF k = number THEN Append(ts, t) ELSE <<>>
           /\ \A k : k # number => UInt32sIn(Map(F, Append(ts, t)), k) = <<>>
      BY <2>2, <2>9, <2>10
    <2>12. Append(ts, t) \in Seq(ShortText)
      BY <2>1
    <2> QED
      BY <2>11, <2>12
  <1>6. texts \in P
    <2> HIDE DEF P
    <2> QED
      BY <1>4, <1>5, AppendingOn
  <1> QED
    BY <1>2, <1>3, <1>6 DEF F
=============================================================================
