------------------------- MODULE DisplayCallsProofs -------------------------
(***************************************************************************)
(* What the calls of DisplayCalls compute, for any input: select chooses   *)
(* as documented, cards_in lists what stays once and sorted, parse_events  *)
(* returns the completions among the events, and the two renderers draw    *)
(* the same picture wherever the display has room for it.                  *)
(***************************************************************************)
EXTENDS DisplayCalls, SequenceLemmas, TLAPS

Mode == [w : Nat, h : Nat, refresh : Nat, preferred : BOOLEAN]

(* The instances' copies of the operators on sequences.                    *)
LEMMA AmongIn ==
  ASSUME NEW s, NEW S
  PROVE  M!Among(s, S) = Among(s, S)
BY DEF M!Among, Among

LEMMA ToSetIn ==
  ASSUME NEW s
  PROVE  M!ToSet(s) = Range(s)
BY DEF M!ToSet, Range

(* max_by_key returns an element that no other exceeds, if there is one,   *)
(* and there is: the largest area, and the greatest rate, in case of a tie *)
(* preferred.                                                              *)
LEMMA LastMaxSmaller ==
  ASSUME NEW s \in Seq(Mode), s # <<>>
  PROVE  \E i \in DOMAIN s :
           M!LastMax(s, M!Smaller) = s[i] /\ \A j \in DOMAIN s : M!Area(s[j]) <= M!Area(s[i])
<1> DEFINE I == {i \in DOMAIN s : \A j \in DOMAIN s : ~ M!Smaller(s[i], s[j])}
           F == [i \in 1 .. Len(s) |-> M!Area(s[i])]
<1>1. DOMAIN s = 1 .. Len(s) /\ Len(s) \in Nat \ {0}
  OBVIOUS
<1>2. \A i \in DOMAIN s : M!Area(s[i]) \in Nat
  <2>1. ASSUME NEW m \in Mode PROVE M!Area(m) \in Nat
    BY DEF Mode, M!Area
  <2>2. \A i \in DOMAIN s : s[i] \in Mode
    BY <1>1
  <2>3. QED
    BY <2>1, <2>2
<1>3. PICK k \in 1 .. Len(s) : \A j \in 1 .. Len(s) : F[j] <= F[k]
  <2>1. F \in [1 .. Len(s) -> Nat]
    BY <1>1, <1>2
  <2> HIDE DEF F
  <2>2. QED
    BY <1>1, <2>1, HasGreatest
<1>4. k \in I
  BY <1>1, <1>2, <1>3 DEF M!Smaller
<1>5. Max(I) \in I
  <2>1. I \in SUBSET (0 .. Len(s)) /\ I # {} /\ Len(s) \in Nat
    BY <1>1, <1>4
  <2> HIDE DEF I
  <2>2. QED
    BY <2>1, MaxIsGreatest
<1>6. M!LastMax(s, M!Smaller) = s[Max(I)]
  BY DEF M!LastMax, M!Max, Max
<1>7. \A j \in DOMAIN s : M!Area(s[j]) <= M!Area(s[Max(I)])
  <2>1. \A j \in DOMAIN s : ~ M!Smaller(s[Max(I)], s[j])
    BY <1>5
  <2>2. QED
    BY <1>2, <1>5, <2>1 DEF M!Smaller
<1>8. QED
  BY <1>5, <1>6, <1>7

LEMMA LastMaxSlower ==
  ASSUME NEW s \in Seq(Mode), s # <<>>
  PROVE  \E i \in DOMAIN s :
           M!LastMax(s, M!Slower) = s[i] /\ \A j \in DOMAIN s : s[j].refresh <= s[i].refresh
<1> DEFINE I == {i \in DOMAIN s : \A j \in DOMAIN s : ~ M!Slower(s[i], s[j])}
           F == [i \in 1 .. Len(s) |-> 2 * s[i].refresh + (IF s[i].preferred THEN 1 ELSE 0)]
<1>1. DOMAIN s = 1 .. Len(s) /\ Len(s) \in Nat \ {0}
  OBVIOUS
<1>2. \A i \in DOMAIN s : s[i].refresh \in Nat
  <2>1. \A i \in DOMAIN s : s[i] \in Mode
    BY <1>1
  <2>2. QED
    BY <2>1 DEF Mode
<1>3. PICK k \in 1 .. Len(s) : \A j \in 1 .. Len(s) : F[j] <= F[k]
  <2>1. F \in [1 .. Len(s) -> Nat]
    BY <1>1, <1>2
  <2> HIDE DEF F
  <2>2. QED
    BY <1>1, <2>1, HasGreatest
<1>4. k \in I
  <2>1. ASSUME NEW j \in DOMAIN s PROVE ~ M!Slower(s[k], s[j])
    <3>1. /\ F[j] = 2 * s[j].refresh + (IF s[j].preferred THEN 1 ELSE 0)
          /\ F[k] = 2 * s[k].refresh + (IF s[k].preferred THEN 1 ELSE 0)
          /\ F[j] <= F[k]
      <4>1. j \in 1 .. Len(s) /\ k \in 1 .. Len(s)
        BY <1>1, <2>1
      <4>2. F[j] <= F[k]
        BY <1>3, <4>1
      <4>3. QED
        BY <4>1, <4>2
    <3>2. s[j].refresh \in Nat /\ s[k].refresh \in Nat
      BY <1>1, <1>2, <2>1
    <3> HIDE DEF F
    <3>3. CASE s[k].refresh < s[j].refresh
      BY <3>1, <3>2, <3>3
    <3>4. CASE s[k].refresh = s[j].refresh /\ ~ s[k].preferred /\ s[j].preferred
      BY <3>1, <3>2, <3>4
    <3>5. QED
      BY <3>3, <3>4, Zenon DEF M!Slower
  <2>2. QED
    BY <1>1, <2>1
<1>5. Max(I) \in I
  <2>1. I \in SUBSET (0 .. Len(s)) /\ I # {} /\ Len(s) \in Nat
    BY <1>1, <1>4
  <2> HIDE DEF I
  <2>2. QED
    BY <2>1, MaxIsGreatest
<1>6. M!LastMax(s, M!Slower) = s[Max(I)]
  BY DEF M!LastMax, M!Max, Max
<1>7. \A j \in DOMAIN s : s[j].refresh <= s[Max(I)].refresh
  <2>1. \A j \in DOMAIN s : ~ M!Slower(s[Max(I)], s[j])
    BY <1>5
  <2>2. QED
    BY <1>2, <1>5, <2>1 DEF M!Slower
<1>8. QED
  BY <1>5, <1>6, <1>7

(* The resolution comes from the first preferred mode, else from one of    *)
(* the largest.                                                            *)
LEMMA SizeIs ==
  ASSUME NEW s \in Seq(Mode), s # <<>>
  PROVE  /\ M!Size(s) \in Range(s)
         /\ (\E m \in Range(s) : m.preferred) => M!Size(s).preferred
         /\ (\A m \in Range(s) : ~ m.preferred) =>
              \A m \in Range(s) : M!Area(m) <= M!Area(M!Size(s))
<1> DEFINE P == {m \in Range(s) : m.preferred}
           t == Among(s, P)
<1>1. t \in Seq(Mode) /\ Range(t) = Range(s) \intersect P
  BY AmongType, AmongRange
<1>2. M!Size(s) = IF t # <<>> THEN Head(t) ELSE M!LastMax(s, M!Smaller)
  BY AmongIn, ToSetIn DEF M!Size
<1>3. CASE t # <<>>
  <2> HIDE DEF t
  <2>1. Head(t) \in Range(t)
    BY <1>1, <1>3 DEF Range
  <2>2. QED
    BY <1>1, <1>2, <1>3, <2>1
<1>4. CASE t = <<>>
  <2>1. Range(t) = {}
    BY <1>4 DEF Range
  <2>2. \A m \in Range(s) : ~ m.preferred
    BY <1>1, <2>1
  <2>3. PICK i \in DOMAIN s :
          M!LastMax(s, M!Smaller) = s[i] /\ \A j \in DOMAIN s : M!Area(s[j]) <= M!Area(s[i])
    BY LastMaxSmaller
  <2>4. M!Size(s) = s[i]
    BY <1>2, <1>4, <2>3
  <2>5. QED
    BY <2>2, <2>3, <2>4 DEF Range
<1>5. QED
  BY <1>3, <1>4

LEMMA SelectDocumented ==
  ASSUME NEW s \in Seq(Mode), s # <<>>, NEW m, m = M!Select(s)
  PROVE  /\ m \in Range(s)
         /\ \A k \in Range(s) : M!SameSize(k, m) => k.refresh <= m.refresh
         /\ IF \E p \in Range(s) : p.preferred
              THEN \E p \in Range(s) : p.preferred /\ M!SameSize(p, m)
              ELSE \A k \in Range(s) : M!Area(k) <= M!Area(m)
<1> DEFINE z == M!Size(s)
           S == {k \in Range(s) : M!SameSize(k, z)}
           t == Among(s, S)
<1>1. z \in Range(s)
  BY SizeIs
<1>2. t \in Seq(Mode) /\ Range(t) = S
  BY AmongType, AmongRange
<1>3. z \in S
  BY <1>1 DEF M!SameSize
<1>4. t # <<>>
  BY <1>2, <1>3 DEF Range
<1>5. m = M!LastMax(t, M!Slower)
  BY AmongIn, ToSetIn DEF M!Select
<1>6. PICK i \in DOMAIN t : m = t[i] /\ \A j \in DOMAIN t : t[j].refresh <= t[i].refresh
  <2> HIDE DEF t
  <2> QED BY <1>2, <1>4, <1>5, LastMaxSlower
<1>7. m \in S /\ \A k \in S : k.refresh <= m.refresh
  <2>1. Range(t) = {t[j] : j \in DOMAIN t}
    BY DEF Range
  <2> HIDE DEF t, S
  <2>2. QED
    BY <1>2, <1>6, <2>1
<1>8. M!SameSize(z, m) /\ \A k : M!SameSize(k, m) <=> M!SameSize(k, z)
  BY <1>7 DEF M!SameSize
<1>9. M!Area(m) = M!Area(z)
  BY <1>8 DEF M!SameSize, M!Area
<1> HIDE DEF t
<1>10. QED
  BY <1>1, <1>7, <1>8, <1>9, SizeIs

-----------------------------------------------------------------------------
(* The number read from digits, digit by digit.                            *)
Reads(v, c) ==
  /\ v \in [0 .. Len(c) -> Nat]
  /\ v[0] = 0
  /\ \A i \in 1 .. Len(c) : v[i] = 10 * v[i - 1] + c[i]

LEMMA IndexReads ==
  ASSUME NEW c \in Seq(0 .. 9)
  PROVE  \E v : Reads(v, c) /\ D!Index(c) = v[Len(c)]
<1> DEFINE n == Len(c)
           Step(v) == [i \in 0 .. n |-> IF i = 0 THEN 0 ELSE 10 * v[i - 1] + c[i]]
           v == CHOOSE w : w = Step(w)
<1>1. n \in Nat /\ \A i \in 1 .. n : c[i] \in Nat
  OBVIOUS
<1>2. \E w : w = Step(w)
  <2> DEFINE step == [i \in 1 .. n |-> [x \in Nat |-> 10 * x + c[i]]]
  <2>1. step \in [1 .. n -> [Nat -> Nat]]
    BY <1>1
  <2>2. PICK f : Iterates(f, n, Nat, 0, step)
    <3>1. 0 \in Nat /\ n \in Nat
      BY <1>1
    <3> HIDE DEF step, n, v, Step
    <3>2. QED
      BY <2>1, <3>1, Iterated
  <2>3. ASSUME NEW i \in 1 .. n PROVE f[i] = 10 * f[i - 1] + c[i]
    <3>1. i - 1 \in 0 .. n
      BY <1>1
    <3>2. f[i] = step[i][f[i - 1]] /\ f[i - 1] \in Nat
      BY <2>2, <3>1 DEF Iterates
    <3>3. QED
      BY <3>2
  <2>4. f = Step(f)
    <3>1. \A i \in 0 .. n : i # 0 => i \in 1 .. n
      BY <1>1
    <3> HIDE DEF step
    <3>2. QED
      BY <2>2, <2>3, <3>1 DEF Iterates
  <2>5. QED
    BY <2>4
<1>3. v = Step(v)
  BY <1>2
<1>4. D!Index(c) = v[n]
  BY DEF D!Index
<1> HIDE DEF v
<1>5. v[0] = 0 /\ \A i \in 1 .. n : v[i] = 10 * v[i - 1] + c[i]
  BY <1>1, <1>3
<1>6. \A i \in 0 .. n : v[i] \in Nat
  <2>1. \A i \in 1 .. n : v[i - 1] \in Nat => v[i] \in Nat
    BY <1>1, <1>5
  <2>2. v[0] \in Nat
    BY <1>5
  <2>3. QED
    BY <1>1, <2>1, <2>2, IterationType
<1>7. v \in [0 .. n -> Nat]
  BY <1>3, <1>6
<1>8. QED
  BY <1>4, <1>5, <1>7 DEF Reads

(* A number that does not begin with a zero is read as more than zero.     *)
LEMMA ReadsPositive ==
  ASSUME NEW c \in Seq(0 .. 9), c # <<>>, c[1] # 0, NEW v, Reads(v, c)
  PROVE  \A i \in 1 .. Len(c) : v[i] > 0
<1> DEFINE A == {m \in Nat : m + 1 <= Len(c) => v[m + 1] > 0}
<1>1. Len(c) \in Nat \ {0} /\ (\A i \in 1 .. Len(c) : c[i] \in 0 .. 9)
  OBVIOUS
<1>2. 0 \in A
  <2>1. c[1] \in 1 .. 9 /\ 1 \in 1 .. Len(c)
    BY <1>1
  <2>2. v[1] = 10 * v[0] + c[1] /\ v[0] = 0
    BY <2>1 DEF Reads
  <2>3. QED
    BY <2>1, <2>2
<1>3. ASSUME NEW m \in Nat, m \in A PROVE m + 1 \in A
  <2>1. SUFFICES ASSUME m + 2 <= Len(c) PROVE v[m + 2] > 0
    OBVIOUS
  <2>2. v[m + 1] > 0 /\ v[m + 1] \in Nat
    BY <1>3, <2>1 DEF Reads
  <2>3. m + 2 \in 1 .. Len(c) /\ (m + 2) - 1 = m + 1
    BY <2>1
  <2>4. v[m + 2] = 10 * v[m + 1] + c[m + 2] /\ c[m + 2] \in 0 .. 9
    BY <1>1, <2>3 DEF Reads
  <2> DEFINE before == v[m + 1]
             digit == c[m + 2]
  <2>5. before \in Nat /\ before > 0 /\ digit \in Nat /\ v[m + 2] = 10 * before + digit
    BY <2>2, <2>4
  <2> HIDE DEF before, digit
  <2>6. QED
    BY <2>5
<1> HIDE DEF A
<1>4. \A m \in Nat : m \in A
  BY <1>2, <1>3, SetInduction
<1>5. ASSUME NEW i \in 1 .. Len(c) PROVE v[i] > 0
  <2>1. i - 1 \in A /\ (i - 1) + 1 = i
    BY <1>4
  <2>2. QED
    BY <2>1 DEF A
<1>6. QED
  BY <1>5

(* Two numbers that begin with no zero are read alike only when they are   *)
(* the same digits: the last digit is the remainder by ten.                *)
LEMMA ReadsInjective ==
  ASSUME NEW c \in Seq(0 .. 9), c # <<>>, c[1] # 0, NEW v, Reads(v, c),
         NEW d \in Seq(0 .. 9), d # <<>>, d[1] # 0, NEW w, Reads(w, d)
  PROVE  \A n \in 0 .. Len(c), m \in 0 .. Len(d) :
           v[n] = w[m] => n = m /\ \A i \in 1 .. n : c[i] = d[i]
<1> DEFINE Same(n) == \A m \in 0 .. Len(d) : v[n] = w[m] => n = m /\ \A i \in 1 .. n : c[i] = d[i]
           A == {n \in Nat : n <= Len(c) => Same(n)}
<1>1. /\ \A i \in 1 .. Len(c) : v[i] > 0 /\ c[i] \in 0 .. 9
      /\ \A i \in 1 .. Len(d) : w[i] > 0 /\ d[i] \in 0 .. 9
      /\ (\A i \in 0 .. Len(c) : v[i] \in Nat) /\ (\A i \in 0 .. Len(d) : w[i] \in Nat)
      /\ v[0] = 0 /\ w[0] = 0 /\ Len(c) \in Nat /\ Len(d) \in Nat
  <2>1. (\A i \in 1 .. Len(c) : v[i] > 0) /\ (\A i \in 1 .. Len(d) : w[i] > 0)
    BY ReadsPositive
  <2>2. (\A i \in 1 .. Len(c) : c[i] \in 0 .. 9) /\ (\A i \in 1 .. Len(d) : d[i] \in 0 .. 9)
    OBVIOUS
  <2>3. v \in [0 .. Len(c) -> Nat] /\ v[0] = 0 /\ w \in [0 .. Len(d) -> Nat] /\ w[0] = 0
    BY Zenon DEF Reads
  <2>4. Len(c) \in Nat /\ Len(d) \in Nat
    OBVIOUS
  <2>5. (\A i \in 0 .. Len(c) : v[i] \in Nat) /\ (\A i \in 0 .. Len(d) : w[i] \in Nat)
    BY <2>3, Zenon
  <2>6. QED
    BY <2>1, <2>2, <2>3, <2>4, <2>5, Zenon
<1>2. 0 \in A
  <2>1. Same(0)
    BY <1>1
  <2>2. QED
    BY <2>1
<1>3. ASSUME NEW n \in Nat, n \in A PROVE n + 1 \in A
  <2>1. SUFFICES ASSUME n + 1 <= Len(c), NEW m \in 0 .. Len(d), v[n + 1] = w[m]
                 PROVE  n + 1 = m /\ \A i \in 1 .. n + 1 : c[i] = d[i]
    OBVIOUS
  <2>2. n + 1 \in 1 .. Len(c) /\ m \in 1 .. Len(d) /\ (n + 1) - 1 = n
    BY <1>1, <2>1
  <2>3. v[n + 1] = 10 * v[n] + c[n + 1] /\ w[m] = 10 * w[m - 1] + d[m]
    BY <2>2 DEF Reads
  <2>4. v[n] \in Nat /\ w[m - 1] \in Nat /\ c[n + 1] \in 0 .. 9 /\ d[m] \in 0 .. 9
    <3>1. n \in 0 .. Len(c) /\ m - 1 \in 0 .. Len(d)
      BY <1>1, <2>1, <2>2
    <3>2. QED
      BY <1>1, <2>2, <3>1, Zenon
  <2>5. v[n] = w[m - 1] /\ c[n + 1] = d[m]
    <3>1. PICK x, z, a, b :
            /\ x = v[n] /\ z = w[m - 1] /\ a = c[n + 1] /\ b = d[m]
            /\ 10 * x + a = 10 * z + b
      BY <2>1, <2>3
    <3>2. x \in Nat /\ z \in Nat /\ a \in 0 .. 9 /\ b \in 0 .. 9
      BY <2>4, <3>1, Zenon
    <3>3. x = z /\ a = b
      <4>1. a >= 0 /\ a <= 9 /\ b >= 0 /\ b <= 9 /\ a \in Int /\ b \in Int
        BY <3>2
      <4>2. 10 * x + a = 10 * z + b
        BY <3>1, Zenon
      <4> HIDE <3>1
      <4>3. QED
        BY <3>2, <4>1, <4>2
    <3>4. QED
      BY <3>1, <3>3, Zenon
  <2>6. Same(n) /\ m - 1 \in 0 .. Len(d)
    BY <1>3, <2>1, <2>2
  <2>7. n = m - 1 /\ \A i \in 1 .. n : c[i] = d[i]
    BY <2>5, <2>6
  <2>8. QED
    BY <2>2, <2>5, <2>7
<1> HIDE DEF A
<1>4. \A n \in Nat : n \in A
  BY <1>2, <1>3, SetInduction
<1>5. QED
  BY <1>4 DEF A

(* No two cards have the same number.                                      *)
LEMMA IndexInjective ==
  ASSUME NEW c \in Cards, NEW d \in Cards, D!Index(c) = D!Index(d)
  PROVE  c = d
<1>1. /\ c \in Seq(0 .. 9) /\ c # <<>> /\ (c[1] = 0 => Len(c) = 1)
      /\ d \in Seq(0 .. 9) /\ d # <<>> /\ (d[1] = 0 => Len(d) = 1)
  BY CardsAssumption
<1>2. PICK v : Reads(v, c) /\ D!Index(c) = v[Len(c)]
  BY <1>1, IndexReads
<1>3. PICK w : Reads(w, d) /\ D!Index(d) = w[Len(d)]
  BY <1>1, IndexReads
<1>4. ASSUME NEW a \in Seq(0 .. 9), a # <<>>, a[1] = 0, Len(a) = 1, NEW x, Reads(x, a)
      PROVE  x[Len(a)] = 0
  <2>1. 1 \in 1 .. Len(a)
    BY <1>4
  <2>2. x[1] = 10 * x[0] + a[1] /\ x[0] = 0
    BY <1>4, <2>1 DEF Reads
  <2>3. QED
    BY <1>4, <2>2
<1>5. ASSUME NEW a \in Seq(0 .. 9), a # <<>>, a[1] # 0, NEW x, Reads(x, a)
      PROVE  x[Len(a)] # 0
  <2>1. Len(a) \in 1 .. Len(a)
    BY <1>5
  <2>2. x[Len(a)] > 0
    BY <1>5, <2>1, ReadsPositive
  <2>3. QED
    BY <2>2
<1>6. CASE c[1] = 0 /\ d[1] = 0
  <2>1. Len(c) = 1 /\ Len(d) = 1 /\ c[1] = d[1]
    BY <1>1, <1>6
  <2>2. Len(c) = Len(d) /\ \A i \in 1 .. Len(c) : c[i] = d[i]
    BY <2>1
  <2>3. QED
    BY <1>1, <2>2, SeqEqual
<1>7. CASE c[1] # 0 /\ d[1] # 0
  <2>1. Len(c) \in 0 .. Len(c) /\ Len(d) \in 0 .. Len(d)
    BY <1>1
  <2>2. v[Len(c)] = w[Len(d)]
    BY <1>2, <1>3
  <2>3. Len(c) = Len(d) /\ \A i \in 1 .. Len(c) : c[i] = d[i]
    BY <1>1, <1>2, <1>3, <1>7, <2>1, <2>2, ReadsInjective
  <2>4. QED
    BY <1>1, <2>3, SeqEqual
<1>8. QED
  BY <1>1, <1>2, <1>3, <1>4, <1>5, <1>6, <1>7


-----------------------------------------------------------------------------
(* A card of the class directory has its number for a name, and is not one *)
(* of the connectors.                                                      *)
LEMMA CardEntry ==
  ASSUME NEW e \in D!Entries, D!IsCard(e)
  PROVE  e.digits \in Cards /\ e = D!Card(e.digits)
<1>1. CASE e \in {D!Card(c) : c \in Cards}
  <2>1. PICK c \in Cards : e = D!Card(c)
    BY <1>1
  <2>2. QED
    BY <2>1 DEF D!Card
<1>2. CASE e \in {D!Connector(c, n) : c \in Cards, n \in Connectors}
  <2>1. PICK c \in Cards, n \in Connectors : e = D!Connector(c, n)
    BY <1>2
  <2>2. e.tail \in Connectors
    BY <2>1 DEF D!Connector
  <2>3. QED
    BY <2>2, ConnectorsAssumption DEF D!IsCard
<1>3. CASE e = D!Other
  BY <1>3 DEF D!Other, D!IsCard
<1>4. QED
  BY <1>1, <1>2, <1>3 DEF D!Entries

LEMMA CardsAreEntries ==
  ASSUME NEW c \in Cards
  PROVE  D!Card(c) \in D!Entries /\ D!IsCard(D!Card(c)) /\ D!Card(c).digits = c
<1>1. D!Card(c).digits = c /\ D!Card(c).tail = ""
  BY DEF D!Card
<1>2. D!IsCard(D!Card(c))
  BY <1>1, CardsAssumption DEF D!IsCard
<1>3. D!Card(c) \in {D!Card(d) : d \in Cards}
  OBVIOUS
<1>4. D!Card(c) \in D!Entries
  BY <1>3 DEF D!Entries
<1>5. QED
  BY <1>1, <1>2, <1>4

(* What the listing has of the names: each card among them, once.          *)
ListsCards(s, t) ==
  /\ \A k \in 1 .. Len(t) : t[k].digits \in Cards
  /\ \A i, j \in 1 .. Len(t) : t[i].digits = t[j].digits => i = j
  /\ \A c \in Cards : D!Card(c) \in Range(s) => \E k \in 1 .. Len(t) : t[k].digits = c

Distinct(s) == \A i, j \in 1 .. Len(s) : s[i] = s[j] => i = j

LEMMA ListedIs ==
  D!Listed = Among(names, {e \in Range(names) : D!IsCard(e)})
BY DEF D!Listed, D!ToSet, D!Among, Among, Range

LEMMA ListedCards ==
  ASSUME NEW s \in Seq(D!Entries), Distinct(s)
  PROVE  LET t == Among(s, {e \in Range(s) : D!IsCard(e)})
         IN  t \in Seq(D!Entries) /\ ListsCards(s, t)
<1> DEFINE S == {e \in Range(s) : D!IsCard(e)}
           t == Among(s, S)
<1>1. t \in Seq(D!Entries)
  BY AmongType
<1>2. Range(t) = Range(s) \intersect S /\ Range(s) \subseteq D!Entries
  BY AmongRange, RangeOfSeq
<1>3. PICK at : Embeds(at, t, s)
  BY AmongOrder
<1> HIDE DEF t
<1>4. Len(t) \in Nat /\ DOMAIN t = 1 .. Len(t)
  BY <1>1
<1>5. \A k \in 1 .. Len(t) : t[k].digits \in Cards /\ t[k] = D!Card(t[k].digits)
  <2> TAKE k \in 1 .. Len(t)
  <2>1. t[k] \in S /\ t[k] \in D!Entries
    BY <1>2, <1>4 DEF Range
  <2>2. D!IsCard(t[k])
    BY <2>1
  <2>3. QED
    BY <2>1, <2>2, CardEntry
<1>6. ASSUME NEW i \in 1 .. Len(t), NEW j \in 1 .. Len(t), t[i].digits = t[j].digits
      PROVE  i = j
  <2>1. t[i] = t[j]
    BY <1>5, <1>6
  <2>2. at[i] \in 1 .. Len(s) /\ at[j] \in 1 .. Len(s) /\ s[at[i]] = s[at[j]]
    BY <1>3, <2>1 DEF Embeds
  <2>3. at[i] = at[j]
    BY <2>2 DEF Distinct
  <2>4. ~ (at[i] < at[j]) /\ ~ (at[j] < at[i])
    BY <2>2, <2>3
  <2>5. ~ (i < j) /\ ~ (j < i)
    BY <1>3, <2>4 DEF Embeds
  <2>6. QED
    BY <1>4, <2>5
<1>7. ASSUME NEW c \in Cards, D!Card(c) \in Range(s)
      PROVE  \E k \in 1 .. Len(t) : t[k].digits = c
  <2>1. D!IsCard(D!Card(c)) /\ D!Card(c).digits = c
    BY CardsAreEntries
  <2>2. D!Card(c) \in Range(t)
    BY <1>2, <1>7, <2>1
  <2>3. PICK k \in 1 .. Len(t) : t[k] = D!Card(c)
    BY <1>4, <2>2 DEF Range
  <2>4. QED
    BY <2>1, <2>3
<1>8. ListsCards(s, t)
  BY <1>5, <1>6, <1>7 DEF ListsCards
<1>9. QED
  BY <1>1, <1>8 DEF t

-----------------------------------------------------------------------------
(* The invariant of cards_in: the names are entries, each read once; once  *)
(* they are all read, none that stayed is missing; and each CardInfo made  *)
(* of them stands where its card stands among the names and has the        *)
(* connectors that are named after it.                                     *)
Info == [digits : Cards, driver : BOOLEAN, connectors : SUBSET Connectors]

NamedAfter(c, s) == {e.tail : e \in {f \in Range(s) : D!IsConnectorOf(f, c)}}

CardsRead(k, s, t) ==
  /\ k \in Seq(Info) /\ Len(k) <= Len(t)
  /\ \A i \in 1 .. Len(k) : k[i].digits = t[i].digits /\ k[i].connectors = NamedAfter(k[i].digits, s)

Listing ==
  /\ dir \subseteq D!Entries /\ stayed \subseteq dir
  /\ names \in Seq(D!Entries) /\ Distinct(names)
  /\ listing = "read" => cards = <<>>
  /\ listing = "link" => stayed \subseteq Range(names) /\ CardsRead(cards, names, D!Listed)

ListInv ==
  /\ listing \in {"read", "link", "done"}
  /\ listing # "done" => Listing
  /\ listing = "done" => D!CardsListed

LEMMA NamedAreConnectors ==
  ASSUME NEW s \in Seq(D!Entries), NEW c \in Cards
  PROVE  NamedAfter(c, s) \subseteq Connectors
<1>1. SUFFICES ASSUME NEW e \in Range(s), D!IsConnectorOf(e, c) PROVE e.tail \in Connectors
  BY DEF NamedAfter
<1>2. e \in D!Entries
  BY <1>1, RangeOfSeq
<1>3. e.tail # "" /\ e.digits = c /\ c # <<>>
  BY <1>1, CardsAssumption DEF D!IsConnectorOf
<1>4. CASE e \in {D!Card(d) : d \in Cards}
  <2>1. PICK d \in Cards : e = D!Card(d)
    BY <1>4
  <2>2. e.tail = ""
    BY <2>1 DEF D!Card
  <2>3. QED
    BY <1>3, <2>2
<1>5. CASE e \in {D!Connector(d, n) : d \in Cards, n \in Connectors}
  <2>1. PICK d \in Cards, n \in Connectors : e = D!Connector(d, n)
    BY <1>5
  <2>2. e.tail = n
    BY <2>1 DEF D!Connector
  <2>3. QED
    BY <2>2
<1>6. CASE e = D!Other
  BY <1>3, <1>6 DEF D!Other
<1>7. QED
  BY <1>2, <1>4, <1>5, <1>6 DEF D!Entries

LEMMA ListInit == D!Init => ListInv
<1>1. SUFFICES ASSUME D!Init PROVE ListInv
  OBVIOUS
<1>2. dir \subseteq D!Entries /\ stayed = dir /\ listing = "read" /\ names = <<>> /\ cards = <<>>
  BY <1>1 DEF D!Init
<1>3. names \in Seq(D!Entries) /\ Distinct(names)
  BY <1>2 DEF Distinct
<1>4. QED
  BY <1>2, <1>3 DEF ListInv, Listing

(* What the sort leaves: each card that was among the names once, with its *)
(* connectors, and the numbers in strictly ascending order.                *)
Result(r, s) ==
  /\ \A i, j \in DOMAIN r : i < j => D!Index(r[i].digits) < D!Index(r[j].digits)
  /\ \A i, j \in DOMAIN r : r[i].digits = r[j].digits => i = j
  /\ \A i \in DOMAIN r : r[i].connectors = NamedAfter(r[i].digits, s)
  /\ \A c \in Cards : D!Card(c) \in Range(s) => \E i \in DOMAIN r : r[i].digits = c

Stably(k, order) ==
  \A i, j \in DOMAIN k :
    i < j => \/ D!Index(k[order[i]].digits) < D!Index(k[order[j]].digits)
             \/ /\ D!Index(k[order[i]].digits) = D!Index(k[order[j]].digits)
                /\ order[i] < order[j]

LEMMA SortResult ==
  ASSUME NEW s, NEW t, ListsCards(s, t), NEW k, CardsRead(k, s, t), Len(k) = Len(t),
         NEW order \in Bijection(DOMAIN k, DOMAIN k), Stably(k, order),
         NEW r, r = [i \in DOMAIN k |-> k[order[i]]]
  PROVE  Result(r, s)
<1>1. /\ k \in Seq(Info) /\ DOMAIN k = 1 .. Len(t) /\ Len(t) \in Nat
      /\ \A i \in 1 .. Len(t) : k[i].digits = t[i].digits /\ k[i].connectors = NamedAfter(k[i].digits, s)
  BY DEF CardsRead
<1>2. /\ \A i \in DOMAIN k : order[i] \in DOMAIN k
      /\ \A i, j \in DOMAIN k : order[i] = order[j] => i = j
      /\ \A i \in DOMAIN k : \E j \in DOMAIN k : order[j] = i
  BY DEF Bijection, Injection, Surjection, IsInjective
<1>3. \A i \in DOMAIN k : k[i].digits \in Cards
  BY <1>1 DEF ListsCards
<1>4. \A i, j \in DOMAIN k : k[i].digits = k[j].digits => i = j
  BY <1>1 DEF ListsCards
<1>5. DOMAIN r = DOMAIN k /\ \A i \in DOMAIN k : r[i] = k[order[i]]
  OBVIOUS
<1>6. ASSUME NEW i \in DOMAIN r, NEW j \in DOMAIN r, r[i].digits = r[j].digits PROVE i = j
  <2>1. i \in DOMAIN k /\ j \in DOMAIN k /\ k[order[i]].digits = k[order[j]].digits
    BY <1>5, <1>6, Zenon
  <2>2. order[i] \in DOMAIN k /\ order[j] \in DOMAIN k
    BY <1>2, <2>1, Zenon
  <2>3. order[i] = order[j]
    BY <1>4, <2>1, <2>2, Zenon
  <2>4. QED
    BY <1>2, <2>1, <2>3, Zenon
<1>7. ASSUME NEW i \in DOMAIN r, NEW j \in DOMAIN r, i < j
      PROVE  D!Index(r[i].digits) < D!Index(r[j].digits)
  <2>1. i # j
    BY <1>1, <1>5, <1>7
  <2>2. k[order[i]].digits # k[order[j]].digits
    BY <1>5, <1>6, <2>1
  <2>3. D!Index(k[order[i]].digits) # D!Index(k[order[j]].digits)
    BY <1>2, <1>3, <1>5, <2>2, IndexInjective
  <2>4. D!Index(k[order[i]].digits) < D!Index(k[order[j]].digits)
    BY <1>5, <1>7, <2>3 DEF Stably
  <2>5. QED
    BY <1>5, <2>4
<1>8. \A i \in DOMAIN r : r[i].connectors = NamedAfter(r[i].digits, s)
  BY <1>1, <1>2, <1>5
<1>9. ASSUME NEW c \in Cards, D!Card(c) \in Range(s)
      PROVE  \E i \in DOMAIN r : r[i].digits = c
  <2>1. PICK n \in 1 .. Len(t) : t[n].digits = c
    BY <1>9 DEF ListsCards
  <2>2. PICK i \in DOMAIN k : order[i] = n
    BY <1>1, <1>2
  <2>3. r[i].digits = c
    BY <1>1, <1>5, <2>1, <2>2
  <2>4. QED
    BY <1>5, <2>3
<1>10. QED
  BY <1>6, <1>7, <1>8, <1>9 DEF Result

LEMMA NamedConnector ==
  ASSUME NEW s \in Seq(D!Entries), NEW c, NEW n \in NamedAfter(c, s)
  PROVE  D!Connector(c, n) \in Range(s)
<1>1. PICK f \in Range(s) : D!IsConnectorOf(f, c) /\ n = f.tail
  BY DEF NamedAfter
<1>2. f = [digits |-> f.digits, tail |-> f.tail]
  <2>1. f \in D!Entries
    BY RangeOfSeq
  <2>2. CASE \E d \in Cards : f = D!Card(d)
    BY <2>2 DEF D!Card
  <2>3. CASE \E d \in Cards, m \in Connectors : f = D!Connector(d, m)
    BY <2>3 DEF D!Connector
  <2>4. CASE f = D!Other
    BY <2>4 DEF D!Other
  <2>5. QED
    BY <2>1, <2>2, <2>3, <2>4 DEF D!Entries
<1>3. f = D!Connector(c, n)
  BY <1>1, <1>2 DEF D!Connector, D!IsConnectorOf
<1>4. QED
  BY <1>1, <1>3

LEMMA ResultListed ==
  ASSUME names \in Seq(D!Entries), stayed \subseteq Range(names), Result(cards', names),
         UNCHANGED <<names, stayed>>
  PROVE  D!CardsListed'
<1>1. D!ToSet(names)' = Range(names)
  BY DEF D!ToSet, Range
<1>2. D!StayedListed'
  <2>1. SUFFICES ASSUME NEW c \in Cards, D!Card(c) \in stayed
                 PROVE  \E i \in DOMAIN cards' :
                          /\ cards'[i].digits = c
                          /\ \A j \in DOMAIN cards' \ {i} : cards'[j].digits # c
                          /\ \A e \in stayed : e.tail \in Connectors /\ e.digits = c =>
                               e.tail \in cards'[i].connectors
    BY DEF D!StayedListed
  <2>2. PICK i \in DOMAIN cards' : cards'[i].digits = c
    BY <2>1 DEF Result
  <2>3. \A j \in DOMAIN cards' \ {i} : cards'[j].digits # c
    BY <2>2 DEF Result
  <2>4. ASSUME NEW e \in stayed, e.tail \in Connectors, e.digits = c
        PROVE  e.tail \in cards'[i].connectors
    <3>1. e \in Range(names) /\ D!IsConnectorOf(e, c)
      BY <2>4, ConnectorsAssumption DEF D!IsConnectorOf
    <3>2. e.tail \in NamedAfter(c, names)
      BY <3>1 DEF NamedAfter
    <3>3. QED
      BY <2>2, <3>2 DEF Result
  <2>5. QED
    BY <2>2, <2>3, <2>4
<1>3. D!ConnectorsOwn'
  <2>1. SUFFICES ASSUME NEW i \in DOMAIN cards', NEW n \in cards'[i].connectors
                 PROVE  D!Connector(cards'[i].digits, n) \in Range(names)
    BY <1>1 DEF D!ConnectorsOwn
  <2>2. n \in NamedAfter(cards'[i].digits, names)
    BY DEF Result
  <2>3. QED
    BY <2>2, NamedConnector
<1>4. D!SortedByIndex'
  BY DEF D!SortedByIndex, Result
<1>5. QED
  BY <1>2, <1>3, <1>4 DEF D!CardsListed

-----------------------------------------------------------------------------
LEMMA ListHotplug ==
  ASSUME ListInv, D!Hotplug
  PROVE  ListInv'
<1>1. Listing /\ listing # "done" /\ UNCHANGED <<listing, names, cards>>
  BY DEF ListInv, D!Hotplug
<1>2. dir' \subseteq D!Entries /\ stayed' = stayed \intersect dir'
  <2>1. PICK e \in D!Entries \ {D!Other} :
          dir' = IF e \notin dir THEN dir \union {e}
                 ELSE IF D!IsCard(e) THEN {f \in dir : f.digits # e.digits} ELSE dir \ {e}
    BY DEF D!Hotplug
  <2>2. QED
    BY <1>1, <2>1 DEF Listing, D!Hotplug
<1>3. D!Listed' = D!Listed
  BY <1>1, ListedIs DEF D!Listed, D!ToSet
<1>4. Listing'
  BY <1>1, <1>2, <1>3 DEF Listing
<1>5. QED
  BY <1>1, <1>4 DEF ListInv

LEMMA ListReadEntry ==
  ASSUME ListInv, D!ReadEntry
  PROVE  ListInv'
<1>1. Listing /\ listing = "read" /\ UNCHANGED <<dir, stayed, listing, cards>>
  BY DEF ListInv, D!ReadEntry
<1>2. PICK e \in dir \ Range(names) : names' = Append(names, e)
  BY DEF D!ReadEntry, D!ToSet, Range
<1>3. e \in D!Entries /\ names \in Seq(D!Entries) /\ Len(names) \in Nat
  BY <1>1, <1>2 DEF Listing
<1>4. /\ names' \in Seq(D!Entries) /\ Len(names') = Len(names) + 1
      /\ names'[Len(names) + 1] = e
      /\ \A i \in 1 .. Len(names) : names'[i] = names[i] /\ names[i] # e
  BY <1>2, <1>3 DEF Range
<1>5. Distinct(names')
  BY <1>1, <1>3, <1>4 DEF Distinct, Listing
<1>6. Listing'
  BY <1>1, <1>4, <1>5 DEF Listing
<1>7. QED
  BY <1>1, <1>6 DEF ListInv

LEMMA ListReadDone ==
  ASSUME ListInv, D!ReadDone
  PROVE  ListInv'
<1>1. /\ Listing /\ listing = "read" /\ listing' = "link" /\ UNCHANGED <<dir, stayed, names, cards>>
      /\ stayed \subseteq Range(names)
  BY DEF ListInv, D!ReadDone, D!ToSet, Range
<1>2. CardsRead(cards, names, D!Listed)
  <2>1. D!Listed \in Seq(D!Entries)
    BY <1>1, ListedIs, AmongType DEF Listing
  <2>2. cards = <<>> /\ Len(cards) = 0 /\ cards \in Seq(Info)
    BY <1>1 DEF Listing
  <2>3. QED
    BY <2>1, <2>2 DEF CardsRead
<1>3. D!Listed' = D!Listed
  BY <1>1 DEF D!Listed, D!ToSet
<1>4. Listing'
  BY <1>1, <1>2, <1>3 DEF Listing
<1>5. QED
  BY <1>1, <1>4 DEF ListInv

LEMMA ListNextCard ==
  ASSUME ListInv, D!NextCard
  PROVE  ListInv'
<1> DEFINE L == D!Listed
           k == cards
<1>1. /\ Listing /\ listing = "link" /\ UNCHANGED <<dir, stayed, listing, names>>
      /\ Len(cards) < Len(L)
  BY DEF ListInv, D!NextCard
<1>2. L \in Seq(D!Entries) /\ ListsCards(names, L)
  BY <1>1, ListedIs, ListedCards DEF Listing
<1> DEFINE c == L[Len(cards) + 1].digits
<1>3. PICK bound \in BOOLEAN :
        cards' = Append(cards, [digits |-> c, driver |-> bound, connectors |-> NamedAfter(c, names)])
  <2>1. {e.tail : e \in {f \in D!ToSet(names) : D!IsConnectorOf(f, c)}} = NamedAfter(c, names)
    BY DEF NamedAfter, D!ToSet, Range
  <2>2. PICK bound \in {FALSE, D!Card(c) \in dir} :
          cards' = Append(cards, [digits |-> c, driver |-> bound, connectors |->
                     {e.tail : e \in {f \in D!ToSet(names) : D!IsConnectorOf(f, c)}}])
    BY Zenon DEF D!NextCard
  <2>3. bound \in BOOLEAN
    <3>1. CASE D!Card(c) \in dir
      <4>1. (D!Card(c) \in dir) = TRUE
        BY <3>1, Zenon
      <4>2. bound \in {FALSE, TRUE}
        BY <4>1, Zenon
      <4>3. QED
        BY <4>2, Zenon
    <3>2. CASE D!Card(c) \notin dir
      <4>1. (D!Card(c) \in dir) = FALSE
        BY <3>2, SMT
      <4>2. bound \in {FALSE}
        BY <4>1, Zenon
      <4>3. QED
        BY <4>2, Zenon
    <3>3. QED
      BY <3>1, <3>2
  <2>4. QED
    BY <2>1, <2>2, <2>3, Zenon
<1> DEFINE new == [digits |-> c, driver |-> bound, connectors |-> NamedAfter(c, names)]
<1>4. CardsRead(k, names, L)
  BY <1>1 DEF Listing
<1>5. c \in Cards
  BY <1>1, <1>2, <1>4 DEF ListsCards, CardsRead
<1>6. new \in Info
  BY <1>1, <1>5, NamedAreConnectors DEF Info, Listing
<1>7. CardsRead(cards', names, L)
  <2> HIDE DEF L
  <2>1. Len(k) \in Nat /\ Len(L) \in Nat /\ k \in Seq(Info) /\ Len(k) + 1 <= Len(L)
    BY <1>1, <1>2, <1>4 DEF CardsRead
  <2>2. new.digits = c /\ new.connectors = NamedAfter(c, names)
    OBVIOUS
  <2>3. /\ cards' \in Seq(Info) /\ Len(cards') = Len(k) + 1 /\ cards'[Len(k) + 1] = new
        /\ \A i \in 1 .. Len(k) : cards'[i] = k[i]
    <3> HIDE DEF new
    <3>1. QED
      BY <1>3, <1>6, <2>1 DEF new
  <2>4. ASSUME NEW i \in 1 .. Len(cards')
        PROVE  cards'[i].digits = L[i].digits /\ cards'[i].connectors = NamedAfter(cards'[i].digits, names)
    <3>1. CASE i \in 1 .. Len(k)
      BY <1>4, <2>3, <3>1 DEF CardsRead
    <3>2. CASE i = Len(k) + 1
      BY <2>2, <2>3, <3>2
    <3>3. QED
      BY <2>1, <2>3, <3>1, <3>2
  <2>5. QED
    BY <2>1, <2>3, <2>4 DEF CardsRead
<1>8. D!Listed' = L
  BY <1>1 DEF D!Listed, D!ToSet
<1>9. Listing'
  BY <1>1, <1>7, <1>8 DEF Listing
<1>10. QED
  BY <1>1, <1>9 DEF ListInv

LEMMA ListSort ==
  ASSUME ListInv, D!SortCards
  PROVE  ListInv'
<1>1. /\ Listing /\ listing = "link" /\ listing' = "done" /\ UNCHANGED <<dir, stayed, names>>
      /\ Len(cards) = Len(D!Listed)
  BY DEF ListInv, D!SortCards
<1>2. PICK order \in Bijection(DOMAIN cards, DOMAIN cards) :
        Stably(cards, order) /\ cards' = [i \in DOMAIN cards |-> cards[order[i]]]
  BY DEF D!SortCards, Stably, D!Bijection, D!Injection, D!Surjection, D!IsInjective,
         Bijection, Injection, Surjection, IsInjective
<1>3. ListsCards(names, D!Listed)
  BY <1>1, ListedIs, ListedCards DEF Listing
<1>4. Result(cards', names)
  BY <1>1, <1>2, <1>3, SortResult DEF Listing
<1>5. D!CardsListed'
  <2>1. names' = names /\ stayed' = stayed /\ stayed \subseteq Range(names)
        /\ names \in Seq(D!Entries)
    BY <1>1 DEF Listing
  <2>2. QED
    BY <1>4, <2>1, ResultListed
<1>6. QED
  BY <1>1, <1>5 DEF ListInv

-----------------------------------------------------------------------------
(* An event: its second word is its length, and a completion has all its   *)
(* fields.  A quiet byte string is one no completion begins in.            *)
Event(e) == e \in Seq(Nat) /\ Len(e) >= 2 /\ e[2] = Len(e) /\ (e[1] = 2 => Len(e) >= 8)

Quiet(b) ==
  /\ b \in Seq(Nat)
  /\ \A i \in 1 .. Len(b) - 1 : b[i] = 2 => b[i + 1] < 8 \/ b[i + 1] > Len(b) - i + 1

Zeros(m) == [i \in 1 .. m |-> 0]

LEMMA ZeroPadded ==
  ASSUME NEW h \in Seq(Nat), Len(h) >= 2, NEW n \in Nat, n >= Len(h), NEW e, e = h \o Zeros(n - Len(h))
  PROVE  e \in Seq(Nat) /\ Len(e) = n /\ e[1] = h[1] /\ e[2] = h[2]
<1> DEFINE z == Zeros(n - Len(h))
<1>1. n - Len(h) \in Nat /\ z \in Seq(Nat) /\ Len(z) = n - Len(h)
  BY DEF Zeros
<1> HIDE DEF z
<1>2. e = h \o z /\ Len(h) \in Nat
  BY DEF z
<1>3. e \in Seq(Nat) /\ Len(e) = Len(h) + Len(z) /\ \A i \in 1 .. Len(h) : e[i] = h[i]
  <2>1. h \o z \in Seq(Nat) /\ Len(h \o z) = Len(h) + Len(z)
    BY <1>1
  <2>2. \A i \in 1 .. Len(h) : (h \o z)[i] = h[i]
    BY <1>1
  <2>3. QED
    BY <1>2, <2>1, <2>2, Zenon
<1>4. Len(e) = n /\ 1 \in 1 .. Len(h) /\ 2 \in 1 .. Len(h)
  BY <1>1, <1>2, <1>3
<1>5. QED
  BY <1>3, <1>4

LEMMA EventsWhole ==
  ASSUME NEW e \in B!Events
  PROVE  Event(e)
<1>1. ASSUME NEW n \in FlipLengths, NEW u \in 1 .. 2, e = B!FlipWords(u, n)
      PROVE  Event(e)
  <2> DEFINE h == <<2, n, u, 0, u, u, u, 1>>
  <2>1. n \in Nat /\ n >= 8
    BY LengthsAssumption
  <2>2. h \in Seq(Nat) /\ Len(h) = 8 /\ h[1] = 2 /\ h[2] = n
    <3>1. h \in Seq({2, n, u, 0, 1})
      OBVIOUS
    <3>2. {2, n, u, 0, 1} \subseteq Nat
      BY <2>1
    <3>3. Len(h) = 8 /\ h[1] = 2 /\ h[2] = n
      OBVIOUS
    <3> HIDE DEF h
    <3>4. h \in Seq(Nat)
      BY <3>1, <3>2
    <3>5. QED
      BY <3>3, <3>4
  <2>3. e = h \o Zeros(n - 8)
    BY <1>1 DEF Zeros, B!FlipWords, B!FLIP_COMPLETE, B!VBLANK_EVENT
  <2> HIDE DEF h
  <2>4. e = h \o Zeros(n - Len(h)) /\ n >= Len(h) /\ Len(h) >= 2
    BY <2>1, <2>2, <2>3
  <2>5. e \in Seq(Nat) /\ Len(e) = n /\ e[1] = h[1] /\ e[2] = h[2]
    BY <2>1, <2>2, <2>4, ZeroPadded
  <2>6. QED
    BY <2>1, <2>2, <2>5 DEF Event
<1>2. ASSUME NEW n \in Lengths, e = B!OtherWords(n)
      PROVE  Event(e)
  <2> DEFINE h == <<1, n>>
  <2>1. n \in Nat /\ n >= 2
    BY LengthsAssumption
  <2>2. h \in Seq(Nat) /\ Len(h) = 2 /\ h[1] = 1 /\ h[2] = n
    BY <2>1
  <2>3. e = h \o Zeros(n - 2)
    BY <1>2 DEF Zeros, B!OtherWords, B!HEADER
  <2> HIDE DEF h
  <2>4. e = h \o Zeros(n - Len(h)) /\ n >= Len(h) /\ Len(h) >= 2
    BY <2>1, <2>2, <2>3
  <2>5. e \in Seq(Nat) /\ Len(e) = n /\ e[1] = h[1] /\ e[2] = h[2]
    BY <2>1, <2>2, <2>4, ZeroPadded
  <2>6. QED
    BY <2>1, <2>2, <2>5 DEF Event
<1>3. \/ \E u \in 1 .. 2, n \in FlipLengths : e = B!FlipWords(u, n)
      \/ \E n \in Lengths : e = B!OtherWords(n)
  BY DEF B!Events
<1>4. QED
  BY <1>1, <1>2, <1>3

-----------------------------------------------------------------------------
(* f[i] is the byte string from the last i events on.                      *)
Joins(f, es, t) ==
  /\ f \in [0 .. Len(es) -> Seq(Nat)]
  /\ f[0] = t
  /\ \A i \in 1 .. Len(es) : f[i] = es[Len(es) + 1 - i] \o f[i - 1]

LEMMA WrittenJoins ==
  ASSUME NEW es \in Seq(Seq(Nat)), NEW t \in Seq(Nat)
  PROVE  \E f : Joins(f, es, t) /\ B!Written(es, t) = f[Len(es)]
<1> DEFINE n == Len(es)
           Step(f) == [i \in 0 .. n |-> IF i = 0 THEN t ELSE es[n + 1 - i] \o f[i - 1]]
           v == CHOOSE f : f = Step(f)
           T == Seq(Nat)
<1>1. n \in Nat /\ \A i \in 1 .. n : es[n + 1 - i] \in T
  OBVIOUS
<1>2. \A a, b \in T : a \o b \in T
  BY ConcatProperties
<1>3. \E f : f = Step(f)
  <2> DEFINE step == [i \in 1 .. n |-> [x \in T |-> es[n + 1 - i] \o x]]
  <2>1. step \in [1 .. n -> [T -> T]]
    BY <1>1, <1>2
  <2>2. PICK f : Iterates(f, n, T, t, step)
    <3>1. t \in T /\ n \in Nat
      BY <1>1
    <3> HIDE DEF step, n, v, Step, T
    <3>2. QED
      BY <2>1, <3>1, Iterated
  <2>3. ASSUME NEW i \in 1 .. n PROVE f[i] = es[n + 1 - i] \o f[i - 1]
    <3>1. i - 1 \in 0 .. n
      BY <1>1
    <3>2. f[i] = step[i][f[i - 1]] /\ f[i - 1] \in T
      BY <2>2, <3>1 DEF Iterates
    <3> HIDE DEF T
    <3>3. QED
      BY <3>2
  <2>4. f = Step(f)
    <3>1. \A i \in 0 .. n : i # 0 => i \in 1 .. n
      BY <1>1
    <3> HIDE DEF step, T
    <3>2. QED
      BY <2>2, <2>3, <3>1 DEF Iterates
  <2>5. QED
    BY <2>4
<1>4. v = Step(v)
  BY <1>3
<1>5. B!Written(es, t) = v[n]
  BY DEF B!Written
<1> HIDE DEF v, T
<1>6. v[0] = t /\ \A i \in 1 .. n : v[i] = es[n + 1 - i] \o v[i - 1]
  <2>1. v[0] = t
    BY <1>1, <1>4
  <2>2. ASSUME NEW i \in 1 .. n PROVE v[i] = es[n + 1 - i] \o v[i - 1]
    <3>1. i \in 0 .. n /\ i # 0
      BY <1>1
    <3>2. v[i] = Step(v)[i]
      BY <1>4, Zenon
    <3>3. QED
      BY <3>1, <3>2, Zenon
  <2>3. QED
    BY <2>1, <2>2
<1>7. \A i \in 0 .. n : v[i] \in T
  <2>1. ASSUME NEW i \in 1 .. n, v[i - 1] \in T PROVE v[i] \in T
    BY <1>1, <1>2, <1>6, <2>1
  <2>2. v[0] \in T
    BY <1>6 DEF T
  <2>3. QED
    BY <1>1, <2>1, <2>2, IterationType
<1>8. v \in [0 .. n -> T]
  BY <1>4, <1>7
<1>9. QED
  BY <1>5, <1>6, <1>8 DEF Joins, T

-----------------------------------------------------------------------------
(* The completions among some events, as parse_events returns them.        *)
Flips == {e \in B!Events : e[1] = 2}
Returns == {B!FlipEvent(e) : e \in B!Events}
Returned(es) == [i \in DOMAIN Among(es, Flips) |-> B!FlipEvent(Among(es, Flips)[i])]

LEMMA CompletionsReturned ==
  ASSUME events \in Seq(B!Events)
  PROVE  B!Completions = Returned(events)
<1> DEFINE S == {e \in Range(events) : e[1] = 2}
<1>1. B!Completions = [i \in DOMAIN Among(events, S) |-> B!FlipEvent(Among(events, S)[i])]
  BY DEF B!Completions, B!Among, Among, B!ToSet, Range, B!FLIP_COMPLETE
<1>2. Range(events) \intersect S = Range(events) \intersect Flips
  BY RangeOfSeq DEF Flips
<1>3. Among(events, S) = Among(events, Flips)
  BY <1>2, AmongSame
<1>4. QED
  BY <1>1, <1>3 DEF Returned

LEMMA ReturnedType ==
  ASSUME NEW es \in Seq(B!Events)
  PROVE  Returned(es) \in Seq(Returns)
<1>1. Among(es, Flips) \in Seq(B!Events)
  BY AmongType
<1>2. QED
  BY <1>1 DEF Returned, Returns

LEMMA ReturnedEmpty ==
  Returned(<<>>) = <<>>
BY AmongEmpty DEF Returned

LEMMA ReturnedAppend ==
  ASSUME NEW es \in Seq(B!Events), NEW e \in B!Events
  PROVE  Returned(Append(es, e)) =
           Returned(es) \o (IF e[1] = 2 THEN <<B!FlipEvent(e)>> ELSE <<>>)
<1> DEFINE a == Among(es, Flips)
           b == Among(Append(es, e), Flips)
           r == Returned(es)
           x == B!FlipEvent(e)
<1>1. a \in Seq(B!Events) /\ b = IF e \in Flips THEN Append(a, e) ELSE a
  BY AmongType, AmongAppend
<1>2. /\ r = [i \in DOMAIN a |-> B!FlipEvent(a[i])]
      /\ Returned(Append(es, e)) = [i \in DOMAIN b |-> B!FlipEvent(b[i])]
      /\ r \in Seq(Returns) /\ x \in Returns
  BY ReturnedType DEF Returned, Returns
<1> HIDE DEF a, b, r, x
<1>3. CASE e[1] = 2
  <2>1. b = Append(a, e)
    BY <1>1, <1>3 DEF Flips
  <2>2. Returned(Append(es, e)) = Append(r, x)
    <3> DEFINE p == Returned(Append(es, e))
               q == Append(r, x)
    <3>1. p \in Seq(Returns) /\ q \in Seq(Returns)
      <4>1. Append(es, e) \in Seq(B!Events)
        OBVIOUS
      <4>2. q \in Seq(Returns)
        BY <1>2
      <4>3. QED
        BY <4>1, <4>2, ReturnedType
    <3>2. Len(a) \in Nat /\ Len(b) = Len(a) + 1 /\ b[Len(a) + 1] = e /\ Len(r) = Len(a)
          /\ \A i \in 1 .. Len(a) : b[i] = a[i]
      BY <1>1, <1>2, <2>1
    <3>3. Len(p) = Len(a) + 1 /\ Len(q) = Len(a) + 1
      BY <1>1, <1>2, <2>1, <3>2
    <3>4. ASSUME NEW i \in 1 .. Len(a) + 1 PROVE p[i] = q[i]
      <4>1. CASE i = Len(a) + 1
        <5>1. i \in DOMAIN b /\ b[i] = e
          BY <1>1, <2>1, <3>2, <4>1
        <5>2. p[i] = B!FlipEvent(e)
          BY <1>2, <5>1
        <5>3. q[i] = x
          BY <1>2, <3>2, <4>1
        <5>4. QED
          BY <5>2, <5>3 DEF x
      <4>2. CASE i \in 1 .. Len(a)
        BY <1>1, <1>2, <2>1, <3>2, <4>2
      <4>3. QED
        BY <3>2, <4>1, <4>2
    <3> HIDE DEF p, q
    <3>5. p = q
      BY <3>1, <3>3, <3>4, SeqEqual
    <3>6. QED
      BY <3>5 DEF p, q
  <2>3. Append(r, x) = r \o <<x>>
    BY <1>2, AppendIsConcat
  <2>4. QED
    BY <1>3, <2>2, <2>3 DEF r, x
<1>4. CASE e[1] # 2
  <2>1. b = a
    BY <1>1, <1>4 DEF Flips
  <2>2. r \o <<>> = r
    BY <1>2
  <2>3. QED
    BY <1>2, <1>4, <2>1, <2>2 DEF r
<1>5. QED
  BY <1>3, <1>4

-----------------------------------------------------------------------------
(* The invariant of parse_events: between two turns of the loop the whole  *)
(* events from some number on are left, with what follows them, and the    *)
(* completions among those before are found; or they are all passed, and   *)
(* no completion begins in what is left.                                   *)
Between(k) ==
  \E f, t : /\ Quiet(t) /\ Joins(f, events, t)
            /\ bytes = f[k]
            /\ out = Returned(SubSeq(events, 1, Len(events) - k))

ParseInv ==
  /\ parsing \in {"parse", "idle"}
  /\ parsing = "idle" => out = B!Completions
  /\ parsing = "parse" =>
       /\ events \in Seq(B!Events)
       /\ \/ Quiet(bytes) /\ out = Returned(events)
          \/ \E k \in 1 .. Len(events) : Between(k)

LEMMA EventsAreWords == B!Events \subseteq Seq(Nat)
BY EventsWhole DEF Event

LEMMA ParseInit == B!Init => ParseInv
<1>1. SUFFICES ASSUME B!Init PROVE ParseInv
  OBVIOUS
<1>2. events \in Seq(B!Events) /\ parsing = "parse" /\ out = <<>>
  <2>1. PICK n \in 0 .. 3 : events \in [1 .. n -> B!Events]
    BY <1>1 DEF B!Init
  <2>2. n \in Nat
    OBVIOUS
  <2>3. events \in Seq(B!Events)
    BY <2>1, <2>2
  <2>4. QED
    BY <1>1, <2>3 DEF B!Init
<1>3. PICK t \in Tails : bytes = B!Written(events, t)
  BY <1>1 DEF B!Init
<1>4. Quiet(t) /\ t \in Seq(Nat) /\ events \in Seq(Seq(Nat))
  BY <1>2, EventsAreWords, TailsAssumption DEF Quiet
<1>5. PICK f : Joins(f, events, t) /\ bytes = f[Len(events)]
  BY <1>3, <1>4, WrittenJoins
<1>6. CASE events = <<>>
  <2>1. Len(events) = 0 /\ bytes = t
    BY <1>5, <1>6 DEF Joins
  <2>2. out = Returned(events)
    BY <1>2, <1>6, ReturnedEmpty
  <2>3. QED
    BY <1>2, <1>4, <2>1, <2>2 DEF ParseInv
<1>7. CASE events # <<>>
  <2>1. Len(events) \in 1 .. Len(events)
    BY <1>2, <1>7
  <2>2. SubSeq(events, 1, Len(events) - Len(events)) = <<>>
    BY <1>2, <2>1
  <2>3. out = Returned(SubSeq(events, 1, Len(events) - Len(events)))
    BY <1>2, <2>2, ReturnedEmpty
  <2>4. Between(Len(events))
    BY <1>4, <1>5, <2>3 DEF Between
  <2>5. QED
    BY <1>2, <2>1, <2>4 DEF ParseInv
<1>8. QED
  BY <1>6, <1>7

(* What a turn of the loop takes off the front of a byte string.           *)
LEMMA TurnOnEvent ==
  ASSUME NEW e, Event(e), NEW r \in Seq(Nat), NEW b, b = e \o r
  PROVE  /\ B!WellFormed(b) /\ B!SlicesFit(b) /\ Len(b) >= 2
         /\ B!Found(b) = IF e[1] = 2 THEN <<B!FlipEvent(e)>> ELSE <<>>
         /\ SubSeq(b, b[2] + 1, Len(b)) = r
<1>1. e \in Seq(Nat) /\ Len(e) \in Nat /\ Len(e) >= 2 /\ e[2] = Len(e) /\ (e[1] = 2 => Len(e) >= 8)
  BY DEF Event
<1>2. /\ b \in Seq(Nat) /\ Len(b) = Len(e) + Len(r) /\ Len(r) \in Nat
      /\ \A i \in 1 .. Len(e) : b[i] = e[i]
      /\ \A i \in 1 .. Len(r) : b[Len(e) + i] = r[i]
  BY <1>1
<1>3. b[1] = e[1] /\ b[2] = Len(e)
  BY <1>1, <1>2
<1>4. B!WellFormed(b) /\ Len(b) >= 2
  BY <1>1, <1>2, <1>3 DEF B!WellFormed, B!HEADER
<1>5. B!IsFlip(b) <=> e[1] = 2
  BY <1>1, <1>3 DEF B!IsFlip, B!FLIP_COMPLETE, B!VBLANK_EVENT
<1>6. B!SlicesFit(b)
  BY <1>1, <1>2, <1>3, <1>5 DEF B!SlicesFit, B!VBLANK_EVENT
<1>7. e[1] = 2 => B!FlipEvent(b) = B!FlipEvent(e)
  <2>1. SUFFICES ASSUME e[1] = 2 PROVE B!FlipEvent(b) = B!FlipEvent(e)
    OBVIOUS
  <2>2. b[3] = e[3] /\ b[5] = e[5] /\ b[6] = e[6] /\ b[7] = e[7] /\ b[8] = e[8]
    BY <1>1, <1>2, <2>1
  <2>3. QED
    BY <2>2 DEF B!FlipEvent
<1>8. B!Found(b) = IF e[1] = 2 THEN <<B!FlipEvent(e)>> ELSE <<>>
  BY <1>5, <1>6, <1>7, Zenon DEF B!Found
<1>9. SubSeq(b, Len(e) + 1, Len(b)) = r
  BY <1>1, ConcatSplits, Zenon
<1>10. QED
  BY <1>3, <1>4, <1>6, <1>8, <1>9

LEMMA TurnOnQuiet ==
  ASSUME NEW b, Quiet(b), Len(b) >= 2, B!WellFormed(b)
  PROVE  /\ B!SlicesFit(b) /\ B!Found(b) = <<>>
         /\ Quiet(SubSeq(b, b[2] + 1, Len(b)))
<1> DEFINE n == b[2]
           c == SubSeq(b, n + 1, Len(b))
<1>1. b \in Seq(Nat) /\ Len(b) \in Nat /\ n \in Nat /\ n >= 2 /\ n <= Len(b)
  BY DEF Quiet, B!WellFormed, B!HEADER
<1>2. b[1] = 2 => n < 8
  <2>1. 1 \in 1 .. Len(b) - 1 /\ 1 + 1 = 2 /\ Len(b) - 1 + 1 = Len(b)
    BY <1>1
  <2>2. b[1] = 2 => b[1 + 1] < 8 \/ b[1 + 1] > Len(b) - 1 + 1
    BY <2>1 DEF Quiet
  <2>3. b[1] = 2 => n < 8 \/ n > Len(b)
    BY <2>1, <2>2
  <2>4. QED
    BY <1>1, <2>3
<1>3. ~ B!IsFlip(b)
  BY <1>1, <1>2 DEF B!IsFlip, B!FLIP_COMPLETE, B!VBLANK_EVENT
<1>4. B!SlicesFit(b) /\ B!Found(b) = <<>>
  BY <1>1, <1>3 DEF B!SlicesFit, B!Found
<1>5. /\ c \in Seq(Nat) /\ Len(c) = Len(b) - n
      /\ \A i \in 1 .. Len(b) - n : c[i] = b[n + i]
  <2> HIDE DEF n
  <2>1. c \in Seq(Nat) /\ Len(c) = Len(b) - (n + 1) + 1
    BY <1>1, SubSeqProperties
  <2>2. \A i \in 1 .. Len(b) - n : c[i] = b[(n + 1) + i - 1] /\ (n + 1) + i - 1 = n + i
    BY <1>1, SubSeqProperties
  <2>3. QED
    BY <1>1, <2>1, <2>2
<1> HIDE DEF c
<1>6. ASSUME NEW i \in 1 .. Len(c) - 1, c[i] = 2
      PROVE  c[i + 1] < 8 \/ c[i + 1] > Len(c) - i + 1
  <2>1. /\ n + i \in 1 .. Len(b) - 1 /\ c[i] = b[n + i] /\ c[i + 1] = b[n + (i + 1)]
        /\ n + (i + 1) = (n + i) + 1 /\ Len(b) - (n + i) + 1 = Len(c) - i + 1
    <3> HIDE DEF n
    <3>1. Len(b) \in Nat /\ n \in Nat /\ n <= Len(b) /\ Len(c) = Len(b) - n
      BY <1>1, <1>5
    <3>2. i \in 1 .. Len(b) - n /\ i + 1 \in 1 .. Len(b) - n /\ i \in Nat
      BY <3>1
    <3>3. c[i] = b[n + i] /\ c[i + 1] = b[n + (i + 1)]
      BY <1>5, <3>2
    <3>4. n + i \in 1 .. Len(b) - 1 /\ n + (i + 1) = (n + i) + 1 /\ Len(b) - (n + i) + 1 = Len(c) - i + 1
      BY <3>1, <3>2
    <3>5. QED
      BY <3>3, <3>4
  <2>2. b[n + i] = 2 => b[(n + i) + 1] < 8 \/ b[(n + i) + 1] > Len(b) - (n + i) + 1
    BY <2>1 DEF Quiet
  <2>3. QED
    BY <1>6, <2>1, <2>2
<1>7. Quiet(c)
  BY <1>5, <1>6 DEF Quiet
<1>8. QED
  BY <1>4, <1>7 DEF c

LEMMA BetweenIs ==
  ASSUME events \in Seq(B!Events), NEW k \in 1 .. Len(events), Between(k)
  PROVE  \E e \in B!Events, r \in Seq(Nat) :
           /\ bytes = e \o r
           /\ out \o (IF e[1] = 2 THEN <<B!FlipEvent(e)>> ELSE <<>>) =
                Returned(SubSeq(events, 1, Len(events) - (k - 1)))
           /\ k = 1 => Quiet(r)
           /\ k > 1 => \E f, t : Quiet(t) /\ Joins(f, events, t) /\ r = f[k - 1]
<1> DEFINE n == Len(events)
           pre == SubSeq(events, 1, n - k)
           e == events[n + 1 - k]
<1>1. PICK f, t : Quiet(t) /\ Joins(f, events, t) /\ bytes = f[k] /\ out = Returned(pre)
  BY DEF Between
<1>2. n \in Nat /\ k \in 1 .. n /\ n + 1 - k \in 1 .. n /\ k - 1 \in 0 .. n
  OBVIOUS
<1>3. e \in B!Events /\ f[k - 1] \in Seq(Nat) /\ bytes = e \o f[k - 1]
  <2>1. e \in B!Events
    BY <1>2
  <2>2. f \in [0 .. n -> Seq(Nat)] /\ f[k] = e \o f[k - 1]
    BY <1>1, <1>2, Zenon DEF Joins
  <2> HIDE DEF n, e
  <2>3. f[k - 1] \in Seq(Nat)
    BY <1>2, <2>2
  <2>4. QED
    BY <1>1, <2>1, <2>2, <2>3, Zenon
<1>4. pre \in Seq(B!Events) /\ SubSeq(events, 1, n - (k - 1)) = Append(pre, e)
  <2> DEFINE post == SubSeq(events, 1, n - (k - 1))
             m == n - k
  <2>1. m \in Nat /\ n - (k - 1) = m + 1 /\ n + 1 - k = m + 1 /\ m + 1 <= n
    BY <1>2
  <2>2. /\ pre \in Seq(B!Events) /\ Len(pre) = m
        /\ \A i \in 1 .. m : pre[i] = events[i]
    <3>1. \A i \in 1 .. m : events[i] \in B!Events /\ 1 + i - 1 = i
      BY <1>2, <2>1
    <3>2. pre \in Seq(B!Events) /\ Len(pre) = IF 1 <= m THEN m - 1 + 1 ELSE 0
      BY <2>1, <3>1, SubSeqProperties
    <3>3. \A i \in 1 .. m - 1 + 1 : pre[i] = events[1 + i - 1]
      BY <2>1, <3>1, SubSeqProperties
    <3> HIDE DEF m, pre
    <3>4. QED
      BY <2>1, <3>1, <3>2, <3>3
  <2>3. /\ post \in Seq(B!Events) /\ Len(post) = m + 1
        /\ \A i \in 1 .. m + 1 : post[i] = events[i]
    <3>1. \A i \in 1 .. m + 1 : events[i] \in B!Events /\ 1 + i - 1 = i
      BY <1>2, <2>1
    <3>2. /\ post \in Seq(B!Events) /\ Len(post) = IF 1 <= m + 1 THEN m + 1 - 1 + 1 ELSE 0
          /\ \A i \in 1 .. m + 1 - 1 + 1 : post[i] = events[1 + i - 1]
      BY <2>1, <3>1, SubSeqProperties
    <3> HIDE DEF m, post
    <3>3. QED
      BY <2>1, <3>1, <3>2
  <2> HIDE DEF pre, post, m
  <2>4. e = events[m + 1]
    BY <2>1
  <2>5. post = Append(pre, e)
    <3> DEFINE a == Append(pre, e)
    <3> HIDE DEF e
    <3>1. /\ a \in Seq(B!Events) /\ Len(a) = m + 1 /\ a[m + 1] = e
          /\ \A i \in 1 .. m : a[i] = pre[i]
      BY <1>3, <2>1, <2>2
    <3> HIDE DEF a
    <3>2. ASSUME NEW i \in 1 .. m + 1 PROVE post[i] = a[i]
      <4>1. i = m + 1 \/ i \in 1 .. m
        BY <2>1
      <4>2. QED
        BY <2>2, <2>3, <2>4, <3>1, <4>1
    <3>3. post = a
      BY <2>3, <3>1, <3>2, SeqEqual
    <3>4. QED
      BY <3>3 DEF a
  <2>6. QED
    BY <2>2, <2>5 DEF post
<1>5. Returned(Append(pre, e)) = Returned(pre) \o (IF e[1] = 2 THEN <<B!FlipEvent(e)>> ELSE <<>>)
  BY <1>3, <1>4, ReturnedAppend
<1>6. k = 1 => Quiet(f[k - 1])
  BY <1>1, <1>2 DEF Joins
<1> HIDE DEF e, pre
<1>7. QED
  BY <1>1, <1>3, <1>4, <1>5, <1>6

LEMMA ParseTurn ==
  ASSUME ParseInv, B!OneEvent, UNCHANGED events
  PROVE  ParseInv'
<1>1. /\ parsing = "parse" /\ Len(bytes) >= 2 /\ B!WellFormed(bytes)
      /\ parsing' = IF B!SlicesFit(bytes) THEN "parse" ELSE "panic"
      /\ out' = out \o B!Found(bytes)
      /\ bytes' = SubSeq(bytes, bytes[2] + 1, Len(bytes))
  BY DEF B!OneEvent, B!Parsing, B!HEADER
<1>2. events \in Seq(B!Events) /\ events' = events
  BY <1>1 DEF ParseInv
<1>3. CASE Quiet(bytes) /\ out = Returned(events)
  <2>1. B!SlicesFit(bytes) /\ B!Found(bytes) = <<>> /\ Quiet(bytes')
    BY <1>1, <1>3, TurnOnQuiet
  <2>2. out' = Returned(events)
    BY <1>1, <1>2, <1>3, <2>1, ReturnedType, ConcatEmptySeq
  <2>3. parsing' = "parse"
    BY <1>1, <2>1
  <2>4. QED
    BY <1>2, <2>1, <2>2, <2>3 DEF ParseInv
<1>4. ASSUME NEW k \in 1 .. Len(events), Between(k)
      PROVE  ParseInv'
  <2>1. PICK e \in B!Events, r \in Seq(Nat) :
          /\ bytes = e \o r
          /\ out \o (IF e[1] = 2 THEN <<B!FlipEvent(e)>> ELSE <<>>) =
               Returned(SubSeq(events, 1, Len(events) - (k - 1)))
          /\ k = 1 => Quiet(r)
          /\ k > 1 => \E f, t : Quiet(t) /\ Joins(f, events, t) /\ r = f[k - 1]
    BY <1>2, <1>4, BetweenIs
  <2>2. /\ B!SlicesFit(bytes) /\ bytes' = r
        /\ out' = Returned(SubSeq(events, 1, Len(events) - (k - 1)))
    <3>1. Event(e)
      BY EventsWhole
    <3>2. /\ B!SlicesFit(bytes)
          /\ B!Found(bytes) = IF e[1] = 2 THEN <<B!FlipEvent(e)>> ELSE <<>>
          /\ SubSeq(bytes, bytes[2] + 1, Len(bytes)) = r
      BY <2>1, <3>1, TurnOnEvent
    <3>3. QED
      BY <1>1, <2>1, <3>2, Zenon
  <2>3. parsing' = "parse"
    BY <1>1, <2>2
  <2>4. CASE k = 1
    <3>1. SubSeq(events, 1, Len(events) - (k - 1)) = events
      <4>1. Len(events) - (k - 1) = Len(events)
        BY <1>2, <2>4
      <4>2. SubSeq(events, 1, Len(events)) = events
        BY <1>2
      <4>3. QED
        BY <4>1, <4>2, Zenon
    <3>2. Quiet(bytes') /\ out' = Returned(events)
      BY <2>1, <2>2, <2>4, <3>1
    <3>3. QED
      BY <1>2, <2>3, <3>2 DEF ParseInv
  <2>5. CASE k > 1
    <3>1. k - 1 \in 1 .. Len(events)
      BY <1>2, <2>5
    <3>2. PICK f, t : Quiet(t) /\ Joins(f, events, t) /\ r = f[k - 1]
      BY <2>1, <2>5
    <3>3. Between(k - 1)'
      BY <1>2, <2>2, <3>2 DEF Between
    <3>4. QED
      BY <1>2, <2>3, <3>1, <3>3 DEF ParseInv
  <2>6. QED
    BY <1>2, <2>4, <2>5
<1>5. QED
  BY <1>1, <1>3, <1>4 DEF ParseInv

LEMMA ParseReturn ==
  ASSUME ParseInv, B!Return
  PROVE  ParseInv'
<1>1. /\ parsing = "parse" /\ ~ (Len(bytes) >= 2 /\ B!WellFormed(bytes)) /\ parsing' = "idle"
      /\ UNCHANGED <<bytes, out, events>>
  BY DEF B!Return, B!LoopOver, B!HEADER
<1>2. events \in Seq(B!Events)
  BY <1>1 DEF ParseInv
<1>3. ASSUME NEW k \in 1 .. Len(events), Between(k)
      PROVE  FALSE
  <2>1. PICK e \in B!Events, r \in Seq(Nat) : bytes = e \o r
    BY <1>2, <1>3, BetweenIs
  <2>2. Event(e)
    BY EventsWhole
  <2>3. Len(bytes) >= 2 /\ B!WellFormed(bytes)
    BY <2>1, <2>2, TurnOnEvent
  <2>4. QED
    BY <1>1, <2>3
<1>4. out = B!Completions
  BY <1>1, <1>2, <1>3, CompletionsReturned DEF ParseInv
<1>5. B!Completions' = B!Completions
  BY <1>1 DEF B!Completions
<1>6. QED
  BY <1>1, <1>4, <1>5 DEF ParseInv

-----------------------------------------------------------------------------
(* The two renderers agree on modes of any size a DRM mode can have (16    *)
(* bits each way), pixel by pixel.                                         *)

(* What paint has put into the row above y. *)
RowPainted ==
  row = <<>> \/ (y > 0 /\ row = [px \in Columns(W, H) |-> Paint(W, H, px, y - 1)])

PaintInv ==
  /\ size \in Sizes
  /\ progress \in Progress
  /\ y \in 0 .. H
  /\ RowPainted

(* No u32 difference of these sizes reaches a coordinate by wrapping. *)
LEMMA SizeFits ==
  ASSUME size \in Sizes
  PROVE  W \in Nat \ {0} /\ 2 * W < Word /\ H \in Nat \ {0} /\ 2 * H < Word /\ Word \in Nat
<1>1. 1 \in 1 .. 2 /\ 2 \in 1 .. 2
  OBVIOUS
<1>2. \A i \in 1 .. 2 : size[i] \in Nat \ {0} /\ 2 * size[i] < Word
  BY SizesAssumption
<1>3. QED
  BY <1>1, <1>2, SizesAssumption DEF W, H

LEMMA PaintStarts == Init => PaintInv
<1>1. SUFFICES ASSUME Init PROVE PaintInv
  OBVIOUS
<1>2. H \in Nat
  BY <1>1, SizeFits DEF Init
<1>3. QED
  BY <1>1, <1>2 DEF Init, PaintInv, RowPainted

LEMMA PaintStep == PaintInv /\ [Next]_vars => PaintInv'
<1>1. SUFFICES ASSUME PaintInv, [Next]_vars PROVE PaintInv'
  OBVIOUS
<1>2. H \in Nat /\ y \in Nat
  BY <1>1, SizeFits DEF PaintInv
<1>3. CASE PaintRow
  <2>1. y' - 1 = y /\ y' \in 0 .. H /\ H' = H /\ W' = W
    BY <1>2, <1>3 DEF PaintRow, H, W
  <2>2. RowPainted'
    <3>1. y' > 0 /\ row' = [px \in Columns(W', H') |-> Paint(W', H', px, y' - 1)]
      BY <1>2, <1>3, <2>1 DEF PaintRow
    <3>2. QED
      BY <3>1 DEF RowPainted
  <2>3. QED
    BY <1>1, <1>3, <2>1, <2>2 DEF PaintInv, PaintRow
<1>4. CASE Painted \/ UNCHANGED vars
  BY <1>1, <1>4 DEF Painted, vars, PaintInv, RowPainted, W, H
<1>5. QED
  BY <1>1, <1>3, <1>4 DEF Next

LEMMA PixelPainted ==
  ASSUME PaintInv, NEW px \in DOMAIN row
  PROVE  px \in Columns(W, H) /\ row[px] = Paint(W, H, px, y - 1)
<1>1. row # <<>>
  OBVIOUS
<1>2. QED
  BY <1>1 DEF PaintInv, RowPainted

-----------------------------------------------------------------------------
(* One pixel of the border, for any size. *)
LEMMA BorderPixel ==
  ASSUME NEW w \in Nat \ {0}, NEW h \in Nat \ {0},
         Word \in Nat, 2 * w < Word, 2 * h < Word,
         NEW px \in 0 .. w - 1, NEW py \in 0 .. h - 1
  PROVE  OnBorder(w, h, px, py) <=> OnShaderBorder(w, h, px, py)
BY DEF OnBorder, OnShaderBorder, Minus, BORDER_PX, FragX, FragY

LEMMA ShadeBorder ==
  ASSUME NEW w, NEW h, NEW px, NEW py, NEW t
  PROVE  (Shade(w, h, px, py, t) = "border") <=> OnShaderBorder(w, h, px, py)
BY DEF Shade

LEMMA PaintBorder ==
  ASSUME NEW w, NEW h, NEW px, NEW py
  PROVE  (Paint(w, h, px, py) = "border") <=> OnBorder(w, h, px, py)
BY DEF Paint

(* The borders of the two paths are the same to the pixel on every mode,   *)
(* those narrower than the border included, where w - 8 wraps around.      *)
LEMMA BordersHold == PaintInv => BordersAgree
<1>1. SUFFICES ASSUME PaintInv, y > 0, NEW px \in DOMAIN row
               PROVE  row[px] = "border" <=> Shader(px) = "border"
  BY DEF BordersAgree
<1>2. W \in Nat \ {0} /\ 2 * W < Word /\ H \in Nat \ {0} /\ 2 * H < Word /\ Word \in Nat
  BY <1>1, SizeFits DEF PaintInv
<1>3. px \in 0 .. W - 1 /\ row[px] = Paint(W, H, px, y - 1)
  BY <1>1, PixelPainted DEF Columns
<1>4. y - 1 \in 0 .. H - 1
  BY <1>1, <1>2 DEF PaintInv
<1>5. QED
  BY <1>2, <1>3, <1>4, BorderPixel, ShadeBorder, PaintBorder DEF Shader

-----------------------------------------------------------------------------
(* A pixel painted as part of the square is at most half a pixel outside   *)
(* the shader's square, and one painted outside is not fully inside it.    *)
LEMMA SquarePixel ==
  ASSUME NEW w \in Nat \ {0}, NEW h \in Nat \ {0}, Word \in Nat, Side(h) <= w,
         NEW px \in 0 .. w - 1, NEW py \in 0 .. h - 1
  PROVE  /\ InSquare(w, h, px, py) =>
              QX(w, h, px) <= 18 * h + 149 /\ QY(h, py) <= 18 * h + 149
         /\ (QX(w, h, px) <= 18 * h - 150 /\ QY(h, py) <= 18 * h - 150) =>
              InSquare(w, h, px, py)
<1>1. /\ w \in Nat /\ h \in Nat /\ px \in Int /\ py \in Int
      /\ Side(h) \in Nat /\ 3 * Side(h) <= h /\ h <= 3 * Side(h) + 2
  BY DEF Side
<1> DEFINE a == w - Side(h)
           b == h - Side(h)
           sx == a \div 2
           sy == b \div 2
<1>2. /\ sx \in Int /\ 2 * sx <= a /\ a <= 2 * sx + 1
      /\ sy \in Int /\ 2 * sy <= b /\ b <= 2 * sy + 1
  <2>1. a \in Int /\ b \in Int
    BY <1>1
  <2>2. QED
    BY <2>1
<1>3. InSquare(w, h, px, py) <=>
        /\ sx <= px /\ px <= sx + Side(h) - 1
        /\ sy <= py /\ py <= sy + Side(h) - 1
  <2>1. Minus(w, Side(h)) = a /\ Minus(h, Side(h)) = b
    BY <1>1 DEF Minus
  <2>2. QED
    BY <1>1, <1>2, <2>1 DEF InSquare
<1>4. QED
  BY <1>1, <1>2, <1>3 DEF QX, QY, Abs, FragX, FragY

(* Wherever the display is as wide as the square, the two paths differ     *)
(* only under the bar, in the half pixel the shader blends, and where the  *)
(* painted square has corners and the shader's is rounded.                 *)
LEMMA SquaresHold == PaintInv => SquaresAgree
<1>1. SUFFICES ASSUME PaintInv, y > 0, Side(H) <= W, NEW px \in DOMAIN row,
                      Shader(px) \notin {"bar", "blend"}
               PROVE  row[px] = Shader(px) \/ (OffCorner(px) /\ row[px] = "accent")
  BY DEF SquaresAgree
<1>2. W \in Nat \ {0} /\ 2 * W < Word /\ H \in Nat \ {0} /\ 2 * H < Word /\ Word \in Nat
  BY <1>1, SizeFits DEF PaintInv
<1>3. px \in 0 .. W - 1 /\ row[px] = Paint(W, H, px, y - 1)
  BY <1>1, PixelPainted DEF Columns
<1>4. y - 1 \in 0 .. H - 1
  BY <1>1, <1>2 DEF PaintInv
<1>5. OnBorder(W, H, px, y - 1) <=> OnShaderBorder(W, H, px, y - 1)
  BY <1>2, <1>3, <1>4, BorderPixel
<1> DEFINE qx == QX(W, H, px)
           qy == QY(H, y - 1)
<1>6. qx \in Int /\ qy \in Int /\ 18 * H \in Int
  BY <1>2, <1>3, <1>4 DEF QX, QY, Abs, FragX, FragY
<1>7. /\ InSquare(W, H, px, y - 1) => qx <= 18 * H + 149 /\ qy <= 18 * H + 149
      /\ (qx <= 18 * H - 150 /\ qy <= 18 * H - 150) => InSquare(W, H, px, y - 1)
  BY <1>1, <1>2, <1>3, <1>4, SquarePixel
<1>8. CASE OnBorder(W, H, px, y - 1)
  BY <1>3, <1>5, <1>8 DEF Paint, Shader, Shade
<1>9. CASE ~ OnBorder(W, H, px, y - 1) /\ InSquare(W, H, px, y - 1)
  <2>1. row[px] = "accent"
    BY <1>3, <1>9 DEF Paint
  <2>2. CASE qx > 0 /\ qy > 0
    BY <2>1, <2>2 DEF OffCorner
  <2>3. CASE ~ (qx > 0 /\ qy > 0)
    <3>1. Within(W, H, px, y - 1, 149)
      BY <1>7, <1>9, <2>3 DEF Within
    <3>2. QED
      BY <1>1, <1>5, <1>9, <2>1, <3>1 DEF Shader, Shade
  <2>4. QED
    BY <2>2, <2>3
<1>10. CASE ~ OnBorder(W, H, px, y - 1) /\ ~ InSquare(W, H, px, y - 1)
  <2>1. row[px] = "background"
    BY <1>3, <1>10 DEF Paint
  <2>2. ~ Within(W, H, px, y - 1, -150)
    <3>1. SUFFICES ASSUME qx <= 18 * H + -150, qy <= 18 * H + -150 PROVE FALSE
      BY DEF Within
    <3>2. QED
      BY <1>6, <1>7, <1>10, <3>1
  <2>3. QED
    BY <1>1, <1>5, <1>10, <2>1, <2>2 DEF Shader, Shade
<1>11. QED
  BY <1>8, <1>9, <1>10

-----------------------------------------------------------------------------
(* The pixel in the middle is inside the square on both paths, and the one *)
(* a tenth from the left outside it, the bar and the border.               *)
LEMMA MiddlePixel ==
  ASSUME NEW w \in Nat, NEW h \in Nat, Word \in Nat, 2 * w < Word, 2 * h < Word,
         w >= 80, h >= 24, h <= 2 * w
  PROVE  /\ InSquare(w, h, w \div 2, h \div 2) /\ ~ OnBorder(w, h, w \div 2, h \div 2)
         /\ \A t \in Progress : Shade(w, h, w \div 2, h \div 2, t) = "accent"
<1> DEFINE px == w \div 2
           py == h \div 2
<1>1. /\ px \in Nat /\ 2 * px <= w /\ w <= 2 * px + 1
      /\ py \in Nat /\ 2 * py <= h /\ h <= 2 * py + 1
  OBVIOUS
<1>2. /\ Side(h) \in Nat /\ 3 * Side(h) <= h /\ h <= 3 * Side(h) + 2
  BY DEF Side
<1> HIDE DEF px, py
<1>3. ~ OnBorder(w, h, px, py) /\ ~ OnShaderBorder(w, h, px, py)
  BY <1>1 DEF OnBorder, OnShaderBorder, Minus, BORDER_PX, FragX, FragY
<1>4. InSquare(w, h, px, py)
  <2> DEFINE sx == (w - Side(h)) \div 2
             sy == (h - Side(h)) \div 2
  <2>1. Minus(w, Side(h)) = w - Side(h) /\ Minus(h, Side(h)) = h - Side(h)
    BY <1>2 DEF Minus
  <2>2. /\ sx \in Int /\ 2 * sx <= w - Side(h) /\ w - Side(h) <= 2 * sx + 1
        /\ sy \in Int /\ 2 * sy <= h - Side(h) /\ h - Side(h) <= 2 * sy + 1
    <3>1. w - Side(h) \in Int /\ h - Side(h) \in Int
      BY <1>2
    <3>2. QED
      BY <3>1
  <2>3. sx <= px /\ px <= sx + Side(h) - 1 /\ sy <= py /\ py <= sy + Side(h) - 1
    BY <1>1, <1>2, <2>2
  <2>4. QED
    BY <1>1, <1>2, <2>1, <2>2, <2>3 DEF InSquare
<1>5. QX(w, h, px) <= 0 /\ QX(w, h, px) <= 18 * h - 150 /\ QY(h, py) <= 18 * h - 150
  BY <1>1 DEF QX, QY, Abs, FragX, FragY
<1>6. Within(w, h, px, py, -150)
  BY <1>1, <1>5 DEF Within, QX, QY, Abs, FragX, FragY
<1>7. \A t \in Progress : ~ InBar(w, h, px, py, t)
  BY <1>1 DEF InBar, Abs, FragY
<1>8. QED
  BY <1>3, <1>4, <1>6, <1>7 DEF Shade, px, py

LEMMA LeftPixel ==
  ASSUME NEW w \in Nat, NEW h \in Nat, Word \in Nat, 2 * w < Word, 2 * h < Word,
         w >= 80, h >= 24, h <= 2 * w
  PROVE  /\ ~ InSquare(w, h, w \div 10, h \div 2) /\ ~ OnBorder(w, h, w \div 10, h \div 2)
         /\ \A t \in Progress : Shade(w, h, w \div 10, h \div 2, t) = "background"
<1> DEFINE px == w \div 10
           py == h \div 2
<1>1. /\ px \in Nat /\ 10 * px <= w /\ w <= 10 * px + 9
      /\ py \in Nat /\ 2 * py <= h /\ h <= 2 * py + 1
  OBVIOUS
<1>2. /\ Side(h) \in Nat /\ 3 * Side(h) <= h /\ h <= 3 * Side(h) + 2
  BY DEF Side
<1> HIDE DEF px, py
<1>3. ~ OnBorder(w, h, px, py) /\ ~ OnShaderBorder(w, h, px, py)
  BY <1>1 DEF OnBorder, OnShaderBorder, Minus, BORDER_PX, FragX, FragY
<1>4. ~ InSquare(w, h, px, py)
  <2> DEFINE sx == (w - Side(h)) \div 2
  <2>1. Minus(w, Side(h)) = w - Side(h)
    BY <1>2 DEF Minus
  <2>2. sx \in Int /\ 2 * sx <= w - Side(h) /\ w - Side(h) <= 2 * sx + 1
    <3>1. w - Side(h) \in Int
      BY <1>2
    <3>2. QED
      BY <3>1
  <2>3. px < sx
    BY <1>1, <1>2, <2>2
  <2>4. QED
    BY <1>1, <1>2, <2>1, <2>2, <2>3 DEF InSquare
<1>5. QX(w, h, px) > 18 * h + 149
  BY <1>1 DEF QX, Abs, FragX
<1>6. ~ Within(w, h, px, py, -150) /\ ~ Within(w, h, px, py, 149)
  BY <1>1, <1>5 DEF Within, QX, Abs, FragX
<1>7. \A t \in Progress : ~ InBar(w, h, px, py, t)
  BY <1>1 DEF InBar, Abs, FragY
<1>8. QED
  BY <1>3, <1>4, <1>6, <1>7 DEF Shade, px, py

LEMMA CornerPixel ==
  ASSUME NEW w \in Nat \ {0}, NEW h \in Nat \ {0}, Word \in Nat
  PROVE  OnBorder(w, h, 0, 0) /\ OnShaderBorder(w, h, 0, 0)
BY DEF OnBorder, OnShaderBorder, BORDER_PX, FragX, FragY

(* The boot tests' three probes see the palette on both paths on every     *)
(* display of at least 80 by 24 pixels at most twice as high as wide.      *)
LEMMA ProbesHold == PaintInv => ProbesRight
<1>1. SUFFICES ASSUME PaintInv, y > 0, W >= 80, H >= 24, H <= 2 * W,
                      NEW px \in DOMAIN row, <<px, y - 1>> \in Probes(W, H)
               PROVE  /\ row[px] = Wanted(W, H, <<px, y - 1>>)
                      /\ Shader(px) = Wanted(W, H, <<px, y - 1>>)
  BY DEF ProbesRight
<1>2. W \in Nat \ {0} /\ 2 * W < Word /\ H \in Nat \ {0} /\ 2 * H < Word /\ Word \in Nat
  BY <1>1, SizeFits DEF PaintInv
<1>3. row[px] = Paint(W, H, px, y - 1) /\ progress \in Progress
  BY <1>1, PixelPainted DEF PaintInv
<1>4. CASE px = 0 /\ y - 1 = 0
  BY <1>2, <1>3, <1>4, CornerPixel, ShadeBorder, PaintBorder DEF Wanted, Shader
<1>5. CASE px = W \div 2 /\ y - 1 = H \div 2
  <2>1. <<px, y - 1>> # <<0, 0>>
    BY <1>1, <1>2, <1>5
  <2>2. Wanted(W, H, <<px, y - 1>>) = "accent"
    BY <1>5, <2>1 DEF Wanted
  <2>3. QED
    BY <1>1, <1>2, <1>3, <1>5, <2>2, MiddlePixel DEF Paint, Shader
<1>6. CASE px = W \div 10 /\ y - 1 = H \div 2
  <2>1. <<px, y - 1>> # <<0, 0>> /\ <<px, y - 1>> # <<W \div 2, H \div 2>>
    BY <1>1, <1>2, <1>6
  <2>2. Wanted(W, H, <<px, y - 1>>) = "background"
    BY <2>1 DEF Wanted
  <2>3. QED
    BY <1>1, <1>2, <1>3, <1>6, <2>2, LeftPixel DEF Paint, Shader
<1>7. QED
  BY <1>1, <1>4, <1>5, <1>6 DEF Probes

(* With h below half of u32, the wrapped start of the square is beyond any *)
(* column of a display narrower than the square.                           *)
LEMMA LostHolds == PaintInv => SquareLost
<1>1. SUFFICES ASSUME PaintInv, y > 0, Side(H) > W, NEW px \in DOMAIN row
               PROVE  row[px] # "accent"
  BY DEF SquareLost
<1>2. W \in Nat \ {0} /\ 2 * W < Word /\ H \in Nat \ {0} /\ 2 * H < Word /\ Word \in Nat
  BY <1>1, SizeFits DEF PaintInv
<1>3. px \in 0 .. W - 1 /\ row[px] = Paint(W, H, px, y - 1)
  BY <1>1, PixelPainted DEF Columns
<1> DEFINE side == Side(H)
           far == W - side + Word
<1>4. side \in Nat /\ 3 * side <= H
  BY <1>2 DEF Side
<1>5. Minus(W, side) = far
  BY <1>1, <1>2, <1>4 DEF Minus
<1>6. far \in Nat /\ far > 2 * W
  BY <1>1, <1>2, <1>4
<1> HIDE DEF side, far
<1>7. far \div 2 >= W
  BY <1>2, <1>6
<1>8. ~ InSquare(W, H, px, y - 1)
  <2>1. px < far \div 2
    BY <1>2, <1>3, <1>6, <1>7
  <2>2. Minus(W, Side(H)) \div 2 = far \div 2
    BY <1>5 DEF side
  <2>3. px \notin (far \div 2) .. (far \div 2) + Side(H) - 1
    BY <1>2, <1>3, <1>6, <2>1
  <2>4. QED
    BY <2>2, <2>3 DEF InSquare
<1>9. QED
  BY <1>3, <1>8 DEF Paint

LEMMA PicturesHold == PaintInv => PicturesAgree
BY BordersHold, SquaresHold, LostHolds, ProbesHold DEF PicturesAgree

-----------------------------------------------------------------------------
(* The invariant of select: the list it is given is one a connector has,   *)
(* and what it chose is what its documentation says.                       *)
SelectInv == modes \in Seq(Mode) /\ M!DocumentedChoice

LEMMA SelectStep ==
  ASSUME SelectInv, M!Next
  PROVE  SelectInv'
<1>1. CASE M!Choose
  <2>1. modes \in Seq(Mode) /\ modes' = modes /\ mode' = M!Select(modes)
    BY <1>1 DEF SelectInv, M!Choose
  <2>2. CASE modes = <<>>
    <3>1. mode' = NoMode
      BY <2>1, <2>2 DEF M!Select
    <3>2. QED
      BY <2>1, <2>2, <3>1 DEF SelectInv, M!DocumentedChoice
  <2>3. CASE modes # <<>>
    <3>1. /\ mode' \in Range(modes)
          /\ \A k \in Range(modes) : M!SameSize(k, mode') => k.refresh <= mode'.refresh
          /\ IF \E p \in Range(modes) : p.preferred
               THEN \E p \in Range(modes) : p.preferred /\ M!SameSize(p, mode')
               ELSE \A k \in Range(modes) : M!Area(k) <= M!Area(mode')
      BY <2>1, <2>3, SelectDocumented
    <3>2. M!ToSet(modes') = Range(modes)
      BY <2>1, ToSetIn
    <3>3. M!DocumentedChoice'
      BY <2>1, <2>3, <3>1, <3>2 DEF M!DocumentedChoice, M!Preferred, M!ToSet, Range
    <3>4. QED
      BY <2>1, <3>3 DEF SelectInv
  <2>4. QED
    BY <2>2, <2>3
<1>2. CASE M!Chosen
  BY <1>2 DEF M!Chosen, M!vars, SelectInv, M!DocumentedChoice, M!Preferred, M!ToSet
<1>3. QED
  BY <1>1, <1>2 DEF M!Next

-----------------------------------------------------------------------------
(* One call is under way and the others are idle; the invariant of each    *)
(* holds then too.                                                         *)
CallInv == SelectInv /\ ListInv /\ ParseInv /\ PaintInv

LEMMA IdleInv ==
  /\ NotSelecting => SelectInv
  /\ NotListing => ListInv
  /\ NotParsing => ParseInv
  /\ NotPainting => PaintInv
<1>1. ASSUME NotSelecting PROVE SelectInv
  BY <1>1 DEF NotSelecting, SelectInv, M!DocumentedChoice
<1>2. ASSUME NotListing PROVE ListInv
  BY <1>2 DEF NotListing, ListInv, D!CardsListed, D!StayedListed, D!ConnectorsOwn, D!SortedByIndex
<1>3. ASSUME NotParsing PROVE ParseInv
  <2>1. events \in Seq(B!Events) /\ out = <<>> /\ parsing = "idle" /\ events = <<>>
    BY <1>3 DEF NotParsing
  <2>2. out = B!Completions
    BY <2>1, CompletionsReturned, ReturnedEmpty
  <2>3. QED
    BY <2>1, <2>2 DEF ParseInv
<1>4. ASSUME NotPainting PROVE PaintInv
  <2>1. size \in Sizes /\ progress \in Progress /\ y = H /\ row = <<>>
    BY <1>4, DisplayAssumption DEF NotPainting
  <2>2. H \in Nat
    BY <2>1, SizeFits
  <2>3. QED
    BY <2>1, <2>2 DEF PaintInv, RowPainted
<1>5. QED
  BY <1>1, <1>2, <1>3, <1>4

LEMMA SelectInit == M!Init => SelectInv
BY ListsAssumption DEF M!Init, SelectInv, M!DocumentedChoice, Mode

LEMMA CallStarts == CallInit => CallInv
BY SelectInit, ListInit, ParseInit, PaintStarts, IdleInv DEF CallInit, CallInv

LEMMA SelectKept == SelectInv /\ UNCHANGED selectVars => SelectInv'
BY DEF SelectInv, selectVars, M!DocumentedChoice, M!Preferred, M!ToSet

LEMMA ListKept == ListInv /\ UNCHANGED listVars => ListInv'
BY DEF ListInv, Listing, listVars, D!Listed, D!ToSet, D!CardsListed, D!StayedListed,
       D!ConnectorsOwn, D!SortedByIndex

LEMMA ParseKept == ParseInv /\ UNCHANGED parseVars => ParseInv'
BY DEF ParseInv, Between, parseVars, B!Completions

LEMMA CallStep == CallInv /\ [CallNext]_<<selectVars, listVars, parseVars, vars>> => CallInv'
<1>1. SUFFICES ASSUME CallInv, [CallNext]_<<selectVars, listVars, parseVars, vars>> PROVE CallInv'
  OBVIOUS
<1>2. SelectInv /\ ListInv /\ ParseInv /\ PaintInv
  BY <1>1 DEF CallInv
<1>3. SelectInv'
  <2>1. M!Next \/ UNCHANGED selectVars
    BY <1>1 DEF CallNext
  <2>2. QED
    BY <1>2, <2>1, SelectStep, SelectKept
<1>4. ListInv'
  <2>1. D!Next \/ UNCHANGED listVars
    BY <1>1 DEF CallNext
  <2>2. CASE D!Next
    <3>1. CASE D!Done
      BY <1>2, <3>1, ListKept DEF D!Done, D!vars, listVars
    <3>2. QED
      BY <1>2, <2>2, <3>1, ListHotplug, ListReadEntry, ListReadDone, ListNextCard, ListSort DEF D!Next
  <2>3. QED
    BY <1>2, <2>1, <2>2, ListKept
<1>5. ParseInv'
  <2>1. B!Next \/ UNCHANGED parseVars
    BY <1>1 DEF CallNext
  <2>2. CASE B!Next
    <3>1. CASE UNCHANGED B!vars
      BY <1>2, <3>1, ParseKept DEF B!vars, B!parser, parseVars
    <3>2. QED
      BY <1>2, <2>2, <3>1, ParseTurn, ParseReturn DEF B!Next
  <2>3. QED
    BY <1>2, <2>1, <2>2, ParseKept
<1>6. PaintInv'
  <2>1. [Next]_vars
    BY <1>1 DEF CallNext
  <2>2. QED
    BY <1>2, <2>1, PaintStep
<1>7. QED
  BY <1>3, <1>4, <1>5, <1>6 DEF CallInv

LEMMA CallInvariance == CallSpec => []CallInv
<1>1. QED
  BY CallStarts, CallStep, PTL DEF CallSpec

(* select chooses the mode its documentation promises, for every finite    *)
(* list of modes, in whatever order they come.                             *)
THEOREM ChoosesAsDocumented == CallSpec => []DocumentedChoice
<1>1. CallInv => DocumentedChoice
  BY DEF CallInv, SelectInv, DocumentedChoice
<1>2. QED
  BY <1>1, CallInvariance, PTL

(* cards_in lists each card that stays once, under its own connectors and  *)
(* in the order of the numbers, with any cards and any number of changes.  *)
THEOREM ListsAll == CallSpec => []CardsListed
<1>1. ListInv => D!CardsListed
  <2>1. SUFFICES ASSUME Listing, listing \in {"read", "link"} PROVE D!CardsListed
    BY DEF ListInv
  <2>2. D!StayedListed /\ D!SortedByIndex
    BY <2>1 DEF D!StayedListed, D!SortedByIndex
  <2>3. CASE listing = "read"
    <3>1. cards = <<>>
      BY <2>1, <2>3 DEF Listing
    <3>2. QED
      BY <2>2, <3>1 DEF D!ConnectorsOwn, D!CardsListed
  <2>4. CASE listing = "link"
    <3>1. CardsRead(cards, names, D!Listed) /\ names \in Seq(D!Entries)
      BY <2>1, <2>4 DEF Listing
    <3>2. ASSUME NEW i \in DOMAIN cards, NEW n \in cards[i].connectors
          PROVE  D!Connector(cards[i].digits, n) \in D!ToSet(names)
      <4>1. n \in NamedAfter(cards[i].digits, names)
        BY <3>1, <3>2 DEF CardsRead
      <4>2. QED
        BY <3>1, <4>1, NamedConnector DEF D!ToSet, Range
    <3>3. QED
      BY <2>2, <3>2 DEF D!ConnectorsOwn, D!CardsListed
  <2>5. QED
    BY <2>1, <2>3, <2>4
<1>2. CallInv => CardsListed
  BY <1>1 DEF CallInv, CardsListed
<1>3. QED
  BY <1>2, CallInvariance, PTL

(* parse_events returns the completions of any whole events, of any        *)
(* lengths, past whatever follows them that no completion begins in, and   *)
(* reads nothing outside the bytes.                                        *)
THEOREM ReturnsWholeEvents == CallSpec => []WholeEventsReturned
<1>1. CallInv => WholeEventsReturned
  BY DEF CallInv, ParseInv, WholeEventsReturned, B!WholeEventsReturned
<1>2. QED
  BY <1>1, CallInvariance, PTL

(* The borders of the two paths are the same to the pixel on every mode,   *)
(* those narrower than the border included, where w - 8 wraps around.      *)
THEOREM SameBorders == CallSpec => []BordersAgree
<1>1. CallInv => BordersAgree
  BY BordersHold DEF CallInv
<1>2. QED
  BY <1>1, CallInvariance, PTL

(* Wherever the display is as wide as the square, the two paths differ     *)
(* only under the bar, in the half pixel the shader blends, and where the  *)
(* painted square has corners and the shader's is rounded.                 *)
THEOREM SameSquares == CallSpec => []SquaresAgree
<1>1. CallInv => SquaresAgree
  BY SquaresHold DEF CallInv
<1>2. QED
  BY <1>1, CallInvariance, PTL

(* The same picture as far as a mode has room for it, any mode: with the   *)
(* above, the boot tests' probes see the palette on both paths where the   *)
(* display is at most twice as high as wide; where it is too narrow for    *)
(* the square, the painted picture has none.                               *)
THEOREM SamePictureWhereItFits == CallSpec => []PicturesAgree
<1>1. CallInv => PicturesAgree
  BY PicturesHold DEF CallInv
<1>2. QED
  BY <1>1, CallInvariance, PTL

=============================================================================
