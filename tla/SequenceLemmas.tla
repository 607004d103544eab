--------------------------- MODULE SequenceLemmas ---------------------------
(***************************************************************************)
(* Induction over the naturals in a form that can be cited, and what it    *)
(* gives for Among.                                                        *)
(***************************************************************************)
EXTENDS Subsequences, SequencesExt, FiniteSetsExt, FiniteSetTheorems, SequenceTheorems, TLAPS

(* A set of naturals that is not empty has a least element. *)
LEMMA LeastNatural ==
  ASSUME NEW S \in SUBSET Nat, S # {}
  PROVE  \E n \in S : \A m \in S : n <= m
<1>1. IsWellFoundedOn(OpToRel(<, Nat), Nat)
  BY NatLessThanWellFounded
<1>2. PICK n \in S : \A m \in S : <<m, n>> \notin OpToRel(<, Nat)
  BY <1>1, WFMin
<1>3. \A m \in S : ~ (m < n)
  <2> TAKE m \in S
  <2>1. <<m, n>> \notin OpToRel(<, Nat)
    BY <1>2
  <2>2. <<m, n>> \notin {p \in Nat \X Nat : p[1] < p[2]}
    BY <2>1, Zenon DEF OpToRel
  <2>3. QED
    BY <2>2
<1>4. QED
  BY <1>3

LEMMA MinIsLeast ==
  ASSUME NEW S \in SUBSET Nat, S # {}
  PROVE  Min(S) \in S /\ \A m \in S : Min(S) <= m
BY LeastNatural DEF Min

LEMMA MaxIsGreatest ==
  ASSUME NEW n \in Nat, NEW S \in SUBSET (0 .. n), S # {}
  PROVE  Max(S) \in S /\ \A m \in S : m <= Max(S)
<1> DEFINE B == {b \in Nat : \A m \in S : m <= b}
<1>1. n \in B
  OBVIOUS
<1>2. PICK b \in B : \A a \in B : b <= a
  BY <1>1, LeastNatural
<1>3. b \in S
  <2>1. SUFFICES ASSUME b \notin S PROVE FALSE
    OBVIOUS
  <2>2. \A m \in S : m <= b /\ m # b /\ m \in Nat
    BY <1>2, <2>1
  <2>3. b - 1 \in B
    <3>1. PICK m \in S : TRUE
      OBVIOUS
    <3>2. b # 0
      BY <2>2, <3>1
    <3>3. QED
      BY <2>2, <3>2
  <2>4. QED
    BY <1>2, <2>3
<1>4. QED
  BY <1>2, <1>3 DEF Max

(* Induction: a set that has 0, and with a number the next, has them all.  *)
(* It speaks of a set where the library's NatInduction speaks of an        *)
(* operator, and so it can be cited.                                       *)
LEMMA SetInduction ==
  ASSUME NEW S, 0 \in S, \A n \in Nat : n \in S => n + 1 \in S
  PROVE  \A n \in Nat : n \in S
<1>1. SUFFICES ASSUME Nat \ S # {} PROVE FALSE
  OBVIOUS
<1>2. PICK n \in Nat \ S : \A m \in Nat \ S : n <= m
  BY <1>1, LeastNatural
<1>3. n # 0 /\ n - 1 \in Nat /\ n - 1 \in S
  BY <1>2
<1>4. QED
  BY <1>2, <1>3

(* Finitely many naturals have a greatest.                                 *)
LEMMA HasGreatest ==
  ASSUME NEW n \in Nat \ {0}, NEW F \in [1 .. n -> Nat]
  PROVE  \E k \in 1 .. n : \A j \in 1 .. n : F[j] <= F[k]
<1> DEFINE Great(G, m) == \E k \in 1 .. m : \A j \in 1 .. m : G[j] <= G[k]
           A == {m \in Nat : m + 1 <= n => Great(F, m + 1)}
<1>1. 0 \in A
  <2>1. F[1] \in Nat /\ 1 .. (0 + 1) = {1}
    OBVIOUS
  <2>2. Great(F, 0 + 1)
    BY <2>1
  <2>3. QED
    BY <2>2
<1>2. ASSUME NEW m \in Nat, m \in A PROVE m + 1 \in A
  <2>1. SUFFICES ASSUME m + 2 <= n PROVE Great(F, m + 2)
    OBVIOUS
  <2>2. PICK k \in 1 .. m + 1 : \A j \in 1 .. m + 1 : F[j] <= F[k]
    BY <1>2, <2>1
  <2>3. F[k] \in Nat /\ F[m + 2] \in Nat /\ \A j \in 1 .. m + 1 : F[j] \in Nat
    BY <2>1
  <2>4. 1 .. m + 2 = (1 .. m + 1) \union {m + 2}
    OBVIOUS
  <2>5. CASE F[m + 2] <= F[k]
    BY <2>2, <2>4, <2>5
  <2>6. CASE F[k] < F[m + 2]
    <3>1. \A j \in 1 .. m + 2 : F[j] <= F[m + 2]
      BY <2>2, <2>3, <2>4, <2>6
    <3>2. m + 2 \in 1 .. m + 2
      OBVIOUS
    <3>3. QED
      BY <3>1, <3>2
  <2>7. QED
    BY <2>3, <2>5, <2>6
<1> HIDE DEF A
<1>3. \A m \in Nat : m \in A
  BY <1>1, <1>2, SetInduction
<1>4. n - 1 \in A /\ n - 1 \in Nat
  BY <1>3
<1>5. QED
  BY <1>4 DEF A

(* A function defined by recursion over 0 .. n, step[i][x] giving its     *)
(* value at i from its value x at i - 1, exists and keeps to a type.       *)
Iterates(f, n, T, b, step) ==
  /\ f \in [0 .. n -> T]
  /\ f[0] = b
  /\ \A i \in 1 .. n : f[i] = step[i][f[i - 1]]

LEMMA Iterated ==
  ASSUME NEW T, NEW b \in T, NEW n \in Nat, NEW step \in [1 .. n -> [T -> T]]
  PROVE  \E f : Iterates(f, n, T, b, step)
<1> DEFINE Solves(f, m) == f[0] = b /\ \A i \in 1 .. m : f[i] = step[i][f[i - 1]]
           Upto == {m \in Nat : m <= n => \E f \in [0 .. m -> T] : Solves(f, m)}
<1>1. 0 \in Upto
  <2>1. [i \in 0 .. 0 |-> b] \in [0 .. 0 -> T] /\ Solves([i \in 0 .. 0 |-> b], 0)
    OBVIOUS
  <2>2. QED
    BY <2>1
<1>2. ASSUME NEW m \in Nat, m \in Upto PROVE m + 1 \in Upto
  <2>1. SUFFICES ASSUME m + 1 <= n PROVE \E f \in [0 .. m + 1 -> T] : Solves(f, m + 1)
    OBVIOUS
  <2>2. PICK g \in [0 .. m -> T] : Solves(g, m)
    <3>1. m <= n
      BY <2>1
    <3>2. QED
      BY <1>2, <3>1
  <2> DEFINE f == [i \in 0 .. m + 1 |-> IF i <= m THEN g[i] ELSE step[m + 1][g[m]]]
  <2>3. step[m + 1][g[m]] \in T
    <3>1. m + 1 \in 1 .. n /\ g[m] \in T
      BY <2>1
    <3>2. QED
      BY <3>1
  <2>4. f \in [0 .. m + 1 -> T]
    BY <2>3
  <2>5. ASSUME NEW i \in 1 .. m + 1 PROVE f[i] = step[i][f[i - 1]]
    <3>1. f[i - 1] = g[i - 1] /\ i - 1 \in 0 .. m
      OBVIOUS
    <3>2. CASE i <= m
      <4>1. f[i] = g[i] /\ i \in 1 .. m
        BY <3>2
      <4>2. QED
        BY <2>2, <3>1, <4>1
    <3>3. CASE i = m + 1
      BY <3>1, <3>3
    <3>4. QED
      BY <3>2, <3>3
  <2>6. f[0] = b
    BY <2>2
  <2>7. QED
    BY <2>4, <2>5, <2>6
<1>3. \A m \in Nat : m \in Upto
  <2> HIDE DEF Upto
  <2> QED BY <1>1, <1>2, SetInduction
<1>4. PICK f \in [0 .. n -> T] : Solves(f, n)
  <2>1. n \in Upto /\ n <= n
    BY <1>3
  <2>2. QED
    BY <2>1
<1>5. QED
  BY <1>4 DEF Iterates

LEMMA IterationType ==
  ASSUME NEW T, NEW n \in Nat, NEW f, f[0] \in T,
         \A i \in 1 .. n : f[i - 1] \in T => f[i] \in T
  PROVE  \A i \in 0 .. n : f[i] \in T
<1> DEFINE A == {m \in Nat : m <= n => f[m] \in T}
<1>1. 0 \in A
  OBVIOUS
<1>2. ASSUME NEW m \in Nat, m \in A PROVE m + 1 \in A
  <2>1. SUFFICES ASSUME m + 1 <= n PROVE f[m + 1] \in T
    OBVIOUS
  <2>2. f[m] \in T /\ m + 1 \in 1 .. n /\ (m + 1) - 1 = m
    BY <1>2, <2>1
  <2>3. QED
    BY <2>2
<1> HIDE DEF A
<1>3. \A m \in Nat : m \in A
  BY <1>1, <1>2, SetInduction
<1>4. QED
  BY <1>3 DEF A

LEMMA ConcatPrefix ==
  ASSUME NEW T, NEW s \in Seq(T), NEW t \in Seq(T)
  PROVE  IsPrefix(s, s \o t)
<1> DEFINE u == s \o t
           n == Len(s)
<1>1. /\ u \in Seq(T) /\ n \in Nat /\ n <= Len(u)
      /\ \A i \in 1 .. n : u[i] = s[i]
  OBVIOUS
<1> HIDE DEF u
<1>2. SubSeq(u, 1, n) = SubSeq(s, 1, n)
  BY <1>1
<1>3. QED
  BY <1>1, <1>2 DEF IsPrefix, u

(* A sequence is its first n elements, then the others.                    *)
LEMMA SplitAt ==
  ASSUME NEW T, NEW s \in Seq(T), NEW n \in 0 .. Len(s)
  PROVE  /\ SubSeq(s, 1, n) \in Seq(T) /\ Len(SubSeq(s, 1, n)) = n
         /\ SubSeq(s, n + 1, Len(s)) \in Seq(T)
         /\ Len(SubSeq(s, n + 1, Len(s))) = Len(s) - n
         /\ s = SubSeq(s, 1, n) \o SubSeq(s, n + 1, Len(s))
<1> DEFINE c == SubSeq(s, 1, n)
           d == SubSeq(s, n + 1, Len(s))
<1>1. /\ c \in Seq(T) /\ d \in Seq(T)
      /\ Len(c) = n /\ Len(d) = Len(s) - n
      /\ \A i \in 1 .. n : c[i] = s[i]
      /\ \A i \in 1 .. Len(s) - n : d[i] = s[n + i]
  BY SubSeqProperties
<1> HIDE DEF c, d
<1>2. c \o d \in Seq(T) /\ Len(c \o d) = Len(s)
  BY <1>1, SMTT(20)
<1>3. ASSUME NEW i \in 1 .. Len(s) PROVE (c \o d)[i] = s[i]
  <2>1. CASE i <= n
    BY <1>1, <2>1
  <2>2. CASE i > n
    <3>1. i - n \in 1 .. Len(s) - n /\ n + (i - n) = i
      BY <2>2
    <3>2. (c \o d)[i] = d[i - n]
      BY <1>1, <2>2
    <3>3. d[i - n] = s[n + (i - n)]
      BY <1>1, <3>1
    <3>4. QED
      BY <3>1, <3>2, <3>3
  <2>3. i \in Int /\ n \in Int
    OBVIOUS
  <2>4. i <= n \/ i > n
    BY <2>3
  <2>5. QED
    BY <2>1, <2>2, <2>4
<1>4. \A i \in 1 .. Len(c \o d) : (c \o d)[i] = s[i]
  BY <1>2, <1>3
<1>5. c \o d = s
  BY <1>2, <1>4, SeqEqual
<1>6. QED
  BY <1>1, <1>5 DEF c, d

(* The two parts of a concatenation are found in it again.                 *)
LEMMA ConcatSplits ==
  ASSUME NEW U, NEW d \in Seq(U), NEW c \in Seq(U)
  PROVE  /\ SubSeq(d \o c, 1, Len(d)) = d
         /\ SubSeq(d \o c, Len(d) + 1, Len(d \o c)) = c
<1> DEFINE s == d \o c
           n == Len(d)
           p == SubSeq(s, 1, n)
           q == SubSeq(s, n + 1, Len(s))
<1>1. /\ s \in Seq(U) /\ n \in Nat /\ Len(c) \in Nat /\ Len(s) = n + Len(c)
      /\ \A i \in 1 .. n : s[i] = d[i]
      /\ \A i \in 1 .. Len(c) : s[n + i] = c[i]
  OBVIOUS
<1> HIDE DEF s
<1>2. p = d
  <2>1. /\ p \in Seq(U) /\ Len(p) = n
        /\ \A i \in 1 .. n : p[i] = s[i]
    BY <1>1, SplitAt, SubSeqProperties
  <2> HIDE DEF p
  <2>2. QED
    BY <1>1, <2>1, SeqEqual
<1>3. q = c
  <2>1. n \in 0 .. Len(s)
    BY <1>1
  <2>2. q \in Seq(U) /\ Len(q) = Len(s) - n
    BY <1>1, <2>1, SplitAt
  <2>3. \A i \in 1 .. Len(c) : q[i] = s[n + i]
    <3> HIDE DEF n
    <3>1. \A i \in n + 1 .. Len(s) : s[i] \in U
      BY <1>1
    <3>2. \A i \in 1 .. Len(s) - (n + 1) + 1 : q[i] = s[(n + 1) + i - 1]
      BY <1>1, <3>1, SubSeqProperties
    <3>3. QED
      BY <1>1, <3>2
  <2> HIDE DEF q, n
  <2>4. QED
    BY <1>1, <2>2, <2>3, SeqEqual
<1>4. QED
  BY <1>2, <1>3 DEF s

(* The recursion of Among. *)
AmongStep(f, s, S) ==
  [i \in 0 .. Len(s) |->
     IF i = 0 THEN <<>>
     ELSE IF s[i] \in S THEN Append(f[i - 1], s[i]) ELSE f[i - 1]]

(* It has a solution. *)
LEMMA AmongSolved ==
  ASSUME NEW T, NEW s \in Seq(T), NEW S
  PROVE  \E f \in [0 .. Len(s) -> Seq(T)] : f = AmongStep(f, s, S)
<1> DEFINE Solves(f, n) ==
      \A i \in 0 .. n : f[i] = IF i = 0 THEN <<>>
                               ELSE IF s[i] \in S THEN Append(f[i - 1], s[i]) ELSE f[i - 1]
           Upto == {n \in Nat : n <= Len(s) => \E f \in [0 .. n -> Seq(T)] : Solves(f, n)}
<1>1. 0 \in Upto
  <2>1. [i \in 0 .. 0 |-> <<>>] \in [0 .. 0 -> Seq(T)]
    OBVIOUS
  <2>2. Solves([i \in 0 .. 0 |-> <<>>], 0)
    OBVIOUS
  <2>3. QED
    BY <2>1, <2>2
<1>2. ASSUME NEW n \in Nat, n \in Upto PROVE n + 1 \in Upto
  <2>1. SUFFICES ASSUME n + 1 <= Len(s)
                 PROVE  \E f \in [0 .. n + 1 -> Seq(T)] : Solves(f, n + 1)
    BY SMTT(20)
  <2>2. PICK g \in [0 .. n -> Seq(T)] : Solves(g, n)
    <3>1. n <= Len(s)
      BY <2>1
    <3>2. QED
      BY <1>2, <3>1
  <2> DEFINE f == [i \in 0 .. n + 1 |->
                     IF i <= n THEN g[i]
                     ELSE IF s[i] \in S THEN Append(g[n], s[i]) ELSE g[n]]
  <2>3. f \in [0 .. n + 1 -> Seq(T)]
    <3>1. s[n + 1] \in T /\ g[n] \in Seq(T)
      BY <2>1
    <3>2. Append(g[n], s[n + 1]) \in Seq(T)
      BY <3>1
    <3>3. QED
      BY <3>1, <3>2
  <2>4. ASSUME NEW i \in 0 .. n + 1
        PROVE  f[i] = IF i = 0 THEN <<>>
                      ELSE IF s[i] \in S THEN Append(f[i - 1], s[i]) ELSE f[i - 1]
    <3>1. CASE i <= n
      <4>1. f[i] = g[i] /\ (i # 0 => f[i - 1] = g[i - 1])
        BY <3>1
      <4>2. g[i] = IF i = 0 THEN <<>>
                   ELSE IF s[i] \in S THEN Append(g[i - 1], s[i]) ELSE g[i - 1]
        <5>1. i \in 0 .. n
          BY <3>1
        <5>2. QED
          BY <2>2, <5>1, Zenon
      <4>3. QED
        BY <4>1, <4>2
    <3>2. CASE i = n + 1
      <4>1. f[i] = (IF s[i] \in S THEN Append(g[n], s[i]) ELSE g[n])
        BY <3>2
      <4>2. i # 0 /\ f[i - 1] = g[n]
        BY <3>2
      <4>3. QED
        BY <4>1, <4>2
    <3>3. QED
      BY <3>1, <3>2
  <2>5. QED
    BY <2>3, <2>4
<1>3. \A n \in Nat : n \in Upto
  <2> HIDE DEF Upto
  <2> QED BY <1>1, <1>2, SetInduction
<1>4. PICK f \in [0 .. Len(s) -> Seq(T)] : Solves(f, Len(s))
  <2>1. Len(s) \in Nat /\ Len(s) <= Len(s)
    OBVIOUS
  <2>2. Len(s) \in Upto
    BY <1>3, <2>1, Zenon
  <2>3. QED
    BY <2>1, <2>2
<1>5. f = AmongStep(f, s, S)
  BY <1>4 DEF AmongStep
<1>6. QED
  BY <1>4, <1>5

(* Only one: solutions for sequences that begin alike agree there. *)
LEMMA AmongAgree ==
  ASSUME NEW s, NEW t, NEW S, NEW n \in Nat, Len(s) \in Nat, Len(t) \in Nat,
         n <= Len(s), n <= Len(t), \A i \in 1 .. n : s[i] = t[i],
         NEW f, f = AmongStep(f, s, S), NEW g, g = AmongStep(g, t, S)
  PROVE  f[n] = g[n]
<1> DEFINE A == {j \in Nat : j <= n => f[j] = g[j]}
<1>1. 0 \in A
  BY DEF AmongStep
<1>2. ASSUME NEW j \in Nat, j \in A PROVE j + 1 \in A
  <2>1. SUFFICES ASSUME j + 1 <= n PROVE f[j + 1] = g[j + 1]
    OBVIOUS
  <2>2. f[j] = g[j] /\ s[j + 1] = t[j + 1]
    BY <1>2, <2>1
  <2>3. j + 1 \in 0 .. Len(s) /\ j + 1 \in 0 .. Len(t) /\ j + 1 # 0 /\ (j + 1) - 1 = j
    BY <2>1
  <2>4. f[j + 1] = (IF s[j + 1] \in S THEN Append(f[j], s[j + 1]) ELSE f[j])
    BY <2>3 DEF AmongStep
  <2>5. g[j + 1] = (IF t[j + 1] \in S THEN Append(g[j], t[j + 1]) ELSE g[j])
    BY <2>3 DEF AmongStep
  <2>6. QED
    BY <2>2, <2>4, <2>5
<1> HIDE DEF A
<1>3. \A j \in Nat : j \in A
  BY <1>1, <1>2, SetInduction
<1>4. QED
  BY <1>3 DEF A

LEMMA AmongUpTo ==
  ASSUME NEW T, NEW s \in Seq(T), NEW S
  PROVE  \E f \in [0 .. Len(s) -> Seq(T)] :
           f = AmongStep(f, s, S) /\ Among(s, S) = f[Len(s)]
<1> DEFINE f == CHOOSE f : f = AmongStep(f, s, S)
<1>1. PICK g \in [0 .. Len(s) -> Seq(T)] : g = AmongStep(g, s, S)
  BY AmongSolved
<1>2. f = AmongStep(f, s, S)
  BY <1>1
<1>3. Among(s, S) = f[Len(s)]
  BY DEF Among, AmongStep
<1> HIDE DEF f
<1>4. f[Len(s)] = g[Len(s)]
  BY <1>1, <1>2, AmongAgree
<1>5. QED
  BY <1>1, <1>3, <1>4

(* What Among computes: nothing of nothing, and of a longer sequence what  *)
(* it computes of the shorter one and the last element, if it is in S.     *)
LEMMA AmongEmpty ==
  ASSUME NEW S
  PROVE  Among(<<>>, S) = <<>>
<1>1. <<>> \in Seq({}) /\ Len(<<>>) = 0
  OBVIOUS
<1>2. PICK f : f = AmongStep(f, <<>>, S) /\ Among(<<>>, S) = f[0]
  BY <1>1, AmongUpTo
<1>3. QED
  BY <1>2 DEF AmongStep

LEMMA AmongAppend ==
  ASSUME NEW T, NEW s \in Seq(T), NEW e \in T, NEW S
  PROVE  Among(Append(s, e), S) =
           IF e \in S THEN Append(Among(s, S), e) ELSE Among(s, S)
<1> DEFINE t == Append(s, e)
           n == Len(s)
<1>1. /\ t \in Seq(T) /\ Len(t) = n + 1 /\ n \in Nat
      /\ \A i \in 1 .. n : t[i] = s[i]
      /\ t[n + 1] = e
  OBVIOUS
<1> HIDE DEF t, n
<1>2. PICK f : f = AmongStep(f, s, S) /\ Among(s, S) = f[n]
  BY AmongUpTo DEF n
<1>3. PICK g : g = AmongStep(g, t, S) /\ Among(t, S) = g[n + 1]
  <2>1. t \in Seq(T)
    BY <1>1
  <2>2. \E g \in [0 .. Len(t) -> Seq(T)] : g = AmongStep(g, t, S) /\ Among(t, S) = g[Len(t)]
    BY <2>1, AmongUpTo
  <2>3. QED
    BY <1>1, <2>2
<1>4. f[n] = g[n]
  <2>1. Len(s) \in Nat /\ Len(t) \in Nat /\ n <= Len(s) /\ n <= Len(t) /\ n \in Nat
    BY <1>1 DEF n
  <2>2. \A i \in 1 .. n : s[i] = t[i]
    BY <1>1
  <2>3. QED
    BY <1>2, <1>3, <2>1, <2>2, AmongAgree
<1>5. g[n + 1] = IF t[n + 1] \in S THEN Append(g[n], t[n + 1]) ELSE g[n]
  <2>1. n + 1 \in 0 .. Len(t) /\ n + 1 # 0 /\ (n + 1) - 1 = n
    BY <1>1
  <2>2. QED
    BY <1>3, <2>1 DEF AmongStep
<1>6. QED
  BY <1>1, <1>2, <1>3, <1>4, <1>5 DEF t

(* It is a sequence of elements of S. *)
LEMMA AmongType ==
  ASSUME NEW T, NEW s \in Seq(T), NEW S
  PROVE  Among(s, S) \in Seq(T)
<1>1. PICK f \in [0 .. Len(s) -> Seq(T)] : Among(s, S) = f[Len(s)]
  BY AmongUpTo
<1>2. Len(s) \in 0 .. Len(s)
  OBVIOUS
<1>3. QED
  BY <1>1, <1>2

-----------------------------------------------------------------------------
(* Induction over sequences, again with a set.                             *)
LEMMA SeqInduction ==
  ASSUME NEW T, NEW A, <<>> \in A,
         \A s \in Seq(T), e \in T : s \in A => Append(s, e) \in A
  PROVE  \A s \in Seq(T) : s \in A
<1> DEFINE N == {n \in Nat : \A s \in Seq(T) : Len(s) = n => s \in A}
<1>1. 0 \in N
  <2>1. \A s \in Seq(T) : Len(s) = 0 => s = <<>>
    OBVIOUS
  <2>2. QED
    BY <2>1
<1>2. ASSUME NEW n \in Nat, n \in N PROVE n + 1 \in N
  <2>1. SUFFICES ASSUME NEW s \in Seq(T), Len(s) = n + 1 PROVE s \in A
    OBVIOUS
  <2>2. s # <<>>
    BY <2>1
  <2>3. PICK r \in Seq(T), e \in T : s = Append(r, e)
    BY <2>2, SequenceEmptyOrAppend
  <2>4. Len(r) = n
    BY <2>1, <2>3
  <2>5. QED
    BY <1>2, <2>3, <2>4
<1>3. \A n \in Nat : n \in N
  <2> HIDE DEF N
  <2> QED BY <1>1, <1>2, SetInduction
<1>4. QED
  BY <1>3

LEMMA AmongConcat ==
  ASSUME NEW T, NEW s \in Seq(T), NEW S, NEW t \in Seq(T)
  PROVE  Among(s \o t, S) = Among(s, S) \o Among(t, S)
<1> DEFINE A == {u \in Seq(T) : Among(s \o u, S) = Among(s, S) \o Among(u, S)}
<1>1. <<>> \in A
  <2>1. s \o <<>> = s /\ Among(s, S) \o <<>> = Among(s, S)
    BY AmongType
  <2>2. Among(s \o <<>>, S) = Among(s, S) \o Among(<<>>, S)
    BY <2>1, AmongEmpty, Zenon
  <2>3. QED
    BY <2>2
<1>2. ASSUME NEW u \in Seq(T), NEW e \in T, u \in A PROVE Append(u, e) \in A
  <2>1. s \o Append(u, e) = Append(s \o u, e) /\ s \o u \in Seq(T)
    OBVIOUS
  <2>2. Among(s \o Append(u, e), S) =
          IF e \in S THEN Append(Among(s \o u, S), e) ELSE Among(s \o u, S)
    BY <2>1, AmongAppend
  <2>3. Among(Append(u, e), S) = IF e \in S THEN Append(Among(u, S), e) ELSE Among(u, S)
    BY AmongAppend
  <2>4. Among(s, S) \in Seq(T) /\ Among(u, S) \in Seq(T)
    BY AmongType
  <2>5. Among(s, S) \o Append(Among(u, S), e) = Append(Among(s, S) \o Among(u, S), e)
    BY <2>4
  <2>6. Append(u, e) \in Seq(T)
    OBVIOUS
  <2>7. QED
    BY <1>2, <2>2, <2>3, <2>5, <2>6
<1> HIDE DEF A
<1>3. \A u \in Seq(T) : u \in A
  BY <1>1, <1>2, SeqInduction
<1>4. QED
  BY <1>3 DEF A

LEMMA RangeAppend ==
  ASSUME NEW T, NEW s \in Seq(T), NEW e \in T
  PROVE  Range(Append(s, e)) = Range(s) \union {e}
<1>1. Append(s, e) = s \o <<e>> /\ <<e>> \in Seq(T)
  BY AppendIsConcat
<1>2. Range(<<e>>) = {e}
  BY DEF Range
<1>3. Range(s \o <<e>>) = Range(s) \union Range(<<e>>)
  BY <1>1, RangeConcatenation
<1>4. QED
  BY <1>1, <1>2, <1>3

(* It has the elements of s that are in S. *)
LEMMA AmongRange ==
  ASSUME NEW T, NEW s \in Seq(T), NEW S
  PROVE  Range(Among(s, S)) = Range(s) \intersect S
<1> DEFINE A == {u \in Seq(T) : Range(Among(u, S)) = Range(u) \intersect S}
<1>1. <<>> \in A
  BY AmongEmpty DEF Range
<1>2. ASSUME NEW u \in Seq(T), NEW e \in T, u \in A PROVE Append(u, e) \in A
  <2>1. ASSUME NEW v \in Seq(T) PROVE Range(Append(v, e)) = Range(v) \union {e}
    BY RangeAppend
  <2>2. Among(Append(u, e), S) = IF e \in S THEN Append(Among(u, S), e) ELSE Among(u, S)
    BY AmongAppend
  <2>3. Among(u, S) \in Seq(T) /\ Append(u, e) \in Seq(T)
    BY AmongType
  <2>4. QED
    BY <1>2, <2>1, <2>2, <2>3
<1> HIDE DEF A
<1>3. \A u \in Seq(T) : u \in A
  BY <1>1, <1>2, SeqInduction
<1>4. QED
  BY <1>3 DEF A

(* It is s itself if all of s is in S, and nothing if none of it is.       *)
LEMMA AmongAll ==
  ASSUME NEW T, NEW s \in Seq(T), NEW S, T \subseteq S
  PROVE  Among(s, S) = s
<1> DEFINE A == {u \in Seq(T) : Among(u, S) = u}
<1>1. <<>> \in A
  BY AmongEmpty
<1>2. ASSUME NEW u \in Seq(T), NEW e \in T, u \in A PROVE Append(u, e) \in A
  <2>1. Append(u, e) \in Seq(T)
    OBVIOUS
  <2>2. QED
    BY <1>2, <2>1, AmongAppend
<1> HIDE DEF A
<1>3. \A u \in Seq(T) : u \in A
  BY <1>1, <1>2, SeqInduction
<1>4. QED
  BY <1>3 DEF A

LEMMA AmongNone ==
  ASSUME NEW T, NEW s \in Seq(T), NEW S, T \intersect S = {}
  PROVE  Among(s, S) = <<>>
<1>1. Range(Among(s, S)) = {}
  BY AmongRange, RangeOfSeq
<1>2. QED
  BY <1>1, AmongType DEF Range

(* Of the set, only its elements that s has matter.                        *)
LEMMA AmongSame ==
  ASSUME NEW T, NEW s \in Seq(T), NEW S, NEW R, Range(s) \intersect S = Range(s) \intersect R
  PROVE  Among(s, S) = Among(s, R)
<1> DEFINE A == {u \in Seq(T) : Range(u) \intersect S = Range(u) \intersect R =>
                                 Among(u, S) = Among(u, R)}
<1>1. <<>> \in A
  BY AmongEmpty
<1>2. ASSUME NEW u \in Seq(T), NEW e \in T, u \in A PROVE Append(u, e) \in A
  <2>1. Range(Append(u, e)) = Range(u) \union {e} /\ Append(u, e) \in Seq(T)
    BY RangeAppend
  <2>2. /\ Among(Append(u, e), S) = IF e \in S THEN Append(Among(u, S), e) ELSE Among(u, S)
        /\ Among(Append(u, e), R) = IF e \in R THEN Append(Among(u, R), e) ELSE Among(u, R)
    BY AmongAppend
  <2>3. ASSUME Range(Append(u, e)) \intersect S = Range(Append(u, e)) \intersect R
        PROVE  Range(u) \intersect S = Range(u) \intersect R /\ (e \in S <=> e \in R)
    <3>1. \A x \in Range(u) \union {e} : x \in S <=> x \in R
      BY <2>1, <2>3
    <3>2. QED
      BY <3>1
  <2>4. QED
    BY <1>2, <2>1, <2>2, <2>3
<1> HIDE DEF A
<1>3. \A u \in Seq(T) : u \in A
  BY <1>1, <1>2, SeqInduction
<1>4. QED
  BY <1>3 DEF A

LEMMA AmongOutside ==
  ASSUME NEW T, NEW s \in Seq(T), NEW S, Range(s) \intersect S = {}
  PROVE  Among(s, S) = <<>>
<1>1. Range(Among(s, S)) = {}
  BY AmongRange
<1>2. Among(s, S) \in Seq(T)
  BY AmongType
<1> DEFINE a == Among(s, S)
<1> HIDE DEF a
<1>3. a \in Seq(T) /\ Range(a) = {}
  BY <1>1, <1>2 DEF a
<1>4. Len(a) = 0
  <2>1. 1 \notin DOMAIN a
    BY <1>3 DEF Range
  <2>2. QED
    BY <1>3, <2>1
<1>5. a = <<>>
  BY <1>3, <1>4
<1>6. QED
  BY <1>5 DEF a

(* Its elements keep the order they have in s. *)
Embeds(at, r, s) ==
  /\ at \in [1 .. Len(r) -> 1 .. Len(s)]
  /\ \A i \in 1 .. Len(r) : r[i] = s[at[i]]
  /\ \A i, j \in 1 .. Len(r) : i < j => at[i] < at[j]

LEMMA AmongOrder ==
  ASSUME NEW T, NEW s \in Seq(T), NEW S
  PROVE  \E at : Embeds(at, Among(s, S), s)
<1> DEFINE A == {u \in Seq(T) : \E at : Embeds(at, Among(u, S), u)}
<1>1. <<>> \in A
  <2>1. <<>> \in Seq(T) /\ Among(<<>>, S) = <<>> /\ Len(<<>>) = 0
    BY AmongEmpty
  <2>2. Embeds([i \in 1 .. 0 |-> 0], <<>>, <<>>)
    BY <2>1 DEF Embeds
  <2>3. QED
    BY <2>1, <2>2
<1>2. ASSUME NEW u \in Seq(T), NEW e \in T, u \in A PROVE Append(u, e) \in A
  <2>1. PICK at : Embeds(at, Among(u, S), u)
    BY <1>2
  <2>2. Among(u, S) \in Seq(T) /\ Append(u, e) \in Seq(T)
    BY AmongType
  <2>3. Among(Append(u, e), S) = IF e \in S THEN Append(Among(u, S), e) ELSE Among(u, S)
    BY AmongAppend
  <2>4. ASSUME NEW m \in Seq(T), Embeds(at, m, u)
        PROVE  /\ Embeds(at, m, Append(u, e))
               /\ \E to : Embeds(to, Append(m, e), Append(u, e))
    <3> DEFINE v == Append(u, e)
               r == Append(m, e)
               k == Len(m)
               to == [i \in 1 .. k + 1 |-> IF i <= k THEN at[i] ELSE Len(u) + 1]
    <3>1. /\ Len(v) = Len(u) + 1 /\ v[Len(u) + 1] = e
          /\ \A i \in 1 .. Len(u) : v[i] = u[i]
          /\ Len(u) \in Nat
      OBVIOUS
    <3>2. /\ Len(r) = k + 1 /\ r[k + 1] = e
          /\ \A i \in 1 .. k : r[i] = m[i]
          /\ k \in Nat
      OBVIOUS
    <3>3. /\ at \in [1 .. k -> 1 .. Len(u)]
          /\ \A i \in 1 .. k : m[i] = u[at[i]]
          /\ \A i, j \in 1 .. k : i < j => at[i] < at[j]
      BY <2>4 DEF Embeds
    <3>4. to \in [1 .. k + 1 -> 1 .. Len(v)]
      <4> HIDE DEF v, r, k
      <4> QED BY <3>1, <3>2, <3>3
    <3>5. \A i \in 1 .. k + 1 : r[i] = v[to[i]]
      <4> HIDE DEF v, r, k
      <4> QED BY <3>1, <3>2, <3>3, SMTT(20)
    <3>6. \A i, j \in 1 .. k + 1 : i < j => to[i] < to[j]
      <4> HIDE DEF v, r, k
      <4> QED BY <3>1, <3>2, <3>3
    <3>7. at \in [1 .. k -> 1 .. Len(v)] /\ \A i \in 1 .. k : m[i] = v[at[i]]
      <4> HIDE DEF v, r, k
      <4>1. \A i \in 1 .. k : at[i] \in 1 .. Len(u) /\ at[i] \in 1 .. Len(v)
        BY <3>1, <3>3
      <4>2. \A i \in 1 .. k : m[i] = v[at[i]]
        BY <3>1, <3>3, <4>1
      <4>3. QED
        BY <3>3, <4>1, <4>2
    <3> HIDE DEF v, r, to
    <3>8. Embeds(at, m, v)
      BY <3>3, <3>7 DEF Embeds
    <3>9. Embeds(to, r, v)
      <4> HIDE DEF k
      <4> QED BY <3>2, <3>4, <3>5, <3>6 DEF Embeds
    <3>10. QED
      BY <3>8, <3>9 DEF v, r
  <2>5. QED
    BY <2>1, <2>2, <2>3, <2>4
<1> HIDE DEF A
<1>3. \A u \in Seq(T) : u \in A
  BY <1>1, <1>2, SeqInduction
<1>4. QED
  BY <1>3 DEF A

=============================================================================
