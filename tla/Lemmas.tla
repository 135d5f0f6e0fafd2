------------------------------- MODULE Lemmas -------------------------------
(* Lemmas about queues, and about the remainders ring indices and the      *)
(* round-robin counter are made of.                                        *)
EXTENDS Queues, SequenceTheorems, TLAPS

(* What the queue operations do to the set of a queue's elements. *)
LEMMA ElementsAppend ==
  ASSUME NEW S, NEW s \in Seq(S), NEW e \in S
  PROVE  /\ Append(s, e) \in Seq(S)
         /\ Elements(Append(s, e)) = Elements(s) \cup {e}
BY DEF Elements

LEMMA ElementsTail ==
  ASSUME NEW S, NEW s \in Seq(S), s # <<>>
  PROVE  /\ Head(s) \in S /\ Tail(s) \in Seq(S) /\ Len(Tail(s)) = Len(s) - 1
         /\ Elements(s) = {Head(s)} \cup Elements(Tail(s))
<1>1. /\ Len(s) \in Nat /\ Len(s) > 0 /\ Head(s) = s[1] /\ Head(s) \in S
      /\ Tail(s) \in Seq(S) /\ Len(Tail(s)) = Len(s) - 1
      /\ \A i \in 1 .. Len(Tail(s)) : Tail(s)[i] = s[i + 1]
  OBVIOUS
<1>2. ASSUME NEW i \in 1 .. Len(s) PROVE s[i] \in {Head(s)} \cup Elements(Tail(s))
  <2>1. CASE i = 1 BY <2>1, <1>1
  <2>2. CASE i > 1
    <3>1. i - 1 \in 1 .. Len(Tail(s)) /\ s[i] = Tail(s)[i - 1] BY <2>2, <1>1
    <3> QED BY <3>1 DEF Elements
  <2> QED BY <2>1, <2>2
<1>3. ASSUME NEW i \in 1 .. Len(Tail(s)) PROVE Tail(s)[i] \in Elements(s)
  <2>1. i + 1 \in 1 .. Len(s) /\ Tail(s)[i] = s[i + 1] BY <1>1
  <2> QED BY <2>1 DEF Elements
<1>4. Head(s) \in Elements(s) BY <1>1 DEF Elements
<1> QED BY <1>1, <1>2, <1>3, <1>4 DEF Elements

LEMMA ElementsConcat ==
  ASSUME NEW S, NEW s \in Seq(S), NEW t \in Seq(S)
  PROVE  /\ s \o t \in Seq(S)
         /\ Elements(s \o t) = Elements(s) \cup Elements(t)
<1>1. /\ s \o t \in Seq(S) /\ Len(s \o t) = Len(s) + Len(t)
      /\ \A i \in 1 .. Len(s) + Len(t) :
           (s \o t)[i] = IF i <= Len(s) THEN s[i] ELSE t[i - Len(s)]
  BY ConcatProperties
<1>2. ASSUME NEW i \in 1 .. Len(s \o t) PROVE (s \o t)[i] \in Elements(s) \cup Elements(t)
  <2>1. CASE i <= Len(s) BY <2>1, <1>1 DEF Elements
  <2>2. CASE i > Len(s)
    <3>1. i - Len(s) \in 1 .. Len(t) /\ (s \o t)[i] = t[i - Len(s)] BY <2>2, <1>1
    <3> QED BY <3>1 DEF Elements
  <2> QED BY <2>1, <2>2
<1>3. ASSUME NEW i \in 1 .. Len(s) PROVE s[i] \in Elements(s \o t)
  BY <1>1 DEF Elements
<1>4. ASSUME NEW i \in 1 .. Len(t) PROVE t[i] \in Elements(s \o t)
  <2>1. i + Len(s) \in 1 .. Len(s \o t) /\ (s \o t)[i + Len(s)] = t[i] BY <1>1
  <2> QED BY <2>1 DEF Elements
<1> QED BY ZenonT(30), <1>1, <1>2, <1>3, <1>4 DEF Elements

(* A queue stays free of repetitions. *)
LEMMA UniqueAppend ==
  ASSUME NEW S, NEW q \in Seq(S), NEW j \in S, Unique(q), j \notin Elements(q)
  PROVE  Unique(Append(q, j))
BY DEF Unique, Elements

LEMMA UniqueTail ==
  ASSUME NEW S, NEW q \in Seq(S), q # <<>>, Unique(q)
  PROVE  Unique(Tail(q)) /\ Head(q) \notin Elements(Tail(q))
<1>1. /\ Len(q) \in Nat /\ Len(q) > 0 /\ Head(q) = q[1] /\ Len(Tail(q)) = Len(q) - 1
      /\ \A i \in 1 .. Len(Tail(q)) : i + 1 \in 1 .. Len(q) /\ Tail(q)[i] = q[i + 1]
  OBVIOUS
<1>2. Head(q) \notin Elements(Tail(q))
  BY <1>1 DEF Unique, Elements
<1>3. ASSUME NEW m \in 1 .. Len(Tail(q)), NEW n \in 1 .. Len(Tail(q)), Tail(q)[m] = Tail(q)[n]
      PROVE  m = n
  <2>1. m + 1 = n + 1 BY <1>1, <1>3 DEF Unique
  <2> QED BY <1>1, <2>1
<1> QED BY <1>2, <1>3 DEF Unique

(* Two queues, one behind the other: head, tail and what is appended. *)
LEMMA QueueParts ==
  ASSUME NEW S, NEW s \in Seq(S), NEW t \in Seq(S)
  PROVE  /\ s \o t \in Seq(S)
         /\ \A j \in S : s \o Append(t, j) = Append(s \o t, j)
         /\ s # <<>> => s \o t # <<>> /\ Head(s \o t) = Head(s) /\ Tail(s \o t) = Tail(s) \o t
         /\ s = <<>> => s \o t = t
         /\ t = <<>> => s \o t = s
OBVIOUS

-----------------------------------------------------------------------------
(* Quotient and remainder. *)
LEMMA DivMod == ASSUME NEW a \in Int, NEW e \in Nat \ {0}
  PROVE a \div e \in Int /\ a % e \in Int /\ 0 <= a % e /\ a % e < e /\ a = e * (a \div e) + (a % e)
  OBVIOUS

LEMMA Quotient == ASSUME NEW e \in Nat \ {0}, NEW q \in Int, NEW r \in Int, NEW q2 \in Int, NEW r2 \in Int,
   0 <= r, r < e, 0 <= r2, r2 < e, e * q + r = e * q2 + r2
  PROVE q = q2
  <1>1. CASE q < q2
    <2>1. e * (q2 - q) >= e BY <1>1
    <2> QED BY <2>1
  <1>2. CASE q2 < q
    <2>1. e * (q - q2) >= e BY <1>2
    <2> QED BY <2>1
  <1> QED BY <1>1, <1>2

LEMMA ModIs == ASSUME NEW e \in Nat \ {0}, NEW q \in Int, NEW r \in Int, 0 <= r, r < e
  PROVE (e * q + r) % e = r
  <1> DEFINE a == e * q + r
             d == a \div e
             m == a % e
  <1>1. a \in Int OBVIOUS
  <1>2. d \in Int /\ m \in Int /\ 0 <= m /\ m < e /\ a = e * d + m BY <1>1, DivMod
  <1> HIDE DEF d, m
  <1>3. e * q + r = e * d + m BY <1>2
  <1>4. q = d BY <1>2, <1>3, Quotient
  <1>5. e * q = e * d /\ e * q \in Int BY <1>4, <1>2
  <1>6. m = r BY <1>2, <1>3, <1>5
  <1> QED BY <1>6 DEF m

LEMMA ModMod == ASSUME NEW m \in Nat \ {0}, NEW e \in Nat \ {0}, m % e = 0, NEW x \in Int
  PROVE (x % m) % e = x % e
  <1> DEFINE k == m \div e
             q == x \div m
             r == x % m
             q2 == r \div e
             r2 == r % e
  <1>1. k \in Int /\ m = e * k BY DivMod
  <1>2. q \in Int /\ r \in Int /\ x = m * q + r BY DivMod
  <1>3. q2 \in Int /\ r2 \in Int /\ 0 <= r2 /\ r2 < e /\ r = e * q2 + r2 BY <1>2, DivMod
  <1> HIDE DEF k, q, r, q2, r2
  <1>4. x = (e * k) * q + (e * q2 + r2) BY <1>1, <1>2, <1>3
  <1>5. (e * k) * q + (e * q2 + r2) = e * (k * q + q2) + r2 BY <1>1, <1>2, <1>3
  <1>6. k * q + q2 \in Int BY <1>1, <1>2, <1>3
  <1>7. (e * (k * q + q2) + r2) % e = r2 BY SMTT(30), <1>6, <1>3, ModIs
  <1> QED BY <1>4, <1>5, <1>7 DEF r2, r

LEMMA ModDiff == ASSUME NEW e \in Nat \ {0}, NEW a \in Int, NEW b \in Int
  PROVE a % e = b % e <=> (b - a) % e = 0
  <1> DEFINE qa == a \div e
             ra == a % e
             qb == b \div e
             rb == b % e
  <1>1. qa \in Int /\ ra \in Int /\ 0 <= ra /\ ra < e /\ a = e * qa + ra BY DivMod
  <1>2. qb \in Int /\ rb \in Int /\ 0 <= rb /\ rb < e /\ b = e * qb + rb BY DivMod
  <1>3. ASSUME ra = rb PROVE (b - a) % e = 0
    <2> HIDE DEF qa, qb, ra, rb
    <2>1. b - a = e * (qb - qa) + 0 BY <1>1, <1>2, <1>3
    <2>2. qb - qa \in Int BY <1>1, <1>2
    <2>3. (e * (qb - qa) + 0) % e = 0 BY <2>2, ModIs
    <2> QED BY <2>1, <2>3
  <1>4. ASSUME (b - a) % e = 0 PROVE ra = rb
    <2> DEFINE k == (b - a) \div e
    <2>1. k \in Int /\ b - a = e * k BY <1>4, DivMod
    <2> HIDE DEF k, qa, qb, ra, rb
    <2>2. b = e * (qa + k) + ra BY <2>1, <1>1
    <2>3. qa + k \in Int BY <2>1, <1>1
    <2>4. (e * (qa + k) + ra) % e = ra BY <2>3, <1>1, ModIs
    <2> QED BY <2>2, <2>4 DEF rb
  <1> QED BY <1>3, <1>4

(* Reducing a term first changes nothing. *)
LEMMA ModAdd == ASSUME NEW m \in Nat \ {0}, NEW x \in Int, NEW y \in Int
  PROVE ((x % m) + y) % m = (x + y) % m
  <1> DEFINE d == x \div m
             r == x % m
             a == r + y
             b == x + y
  <1>1. d \in Int /\ r \in Int /\ x = m * d + r BY DivMod
  <1>2. a \in Int /\ b \in Int BY <1>1
  <1> HIDE DEF d, r
  <1>3. b - a = m * d + 0 BY <1>1
  <1>4. (m * d + 0) % m = 0 BY <1>1, ModIs
  <1>5. (b - a) % m = 0 BY <1>3, <1>4
  <1> HIDE DEF a, b
  <1>6. a % m = b % m BY Zenon, <1>2, <1>5, ModDiff
  <1> QED BY <1>6 DEF a, b, r

LEMMA ModSmall == ASSUME NEW m \in Nat \ {0}, NEW x \in Nat, x < m
  PROVE x % m = x
  <1>1. x = m * 0 + x OBVIOUS
  <1>2. (m * 0 + x) % m = x BY ModIs
  <1> QED BY <1>1, <1>2
=============================================================================
