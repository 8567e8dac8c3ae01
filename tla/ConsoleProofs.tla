--------------------------- MODULE ConsoleProofs ---------------------------
(***************************************************************************)
(* Theorems about Console, for every size of its queues and every text     *)
(* typed: what the guest gets, shows and has set up is right, and a byte   *)
(* is lost only where a queue is full.                                     *)
(***************************************************************************)
EXTENDS Console, TLAPS, SequenceTheorems

Of(src) == [src : {src}, n : Nat, k : Meanings]
Bytes == [src : {"window", "stdin"}, n : Nat, k : Meanings]

LEMMA OfIsBytes ==
  /\ Of("window") \subseteq Bytes /\ Of("stdin") \subseteq Bytes
  /\ \A b \in Of("window") : b.src = "window"
  /\ \A b \in Of("stdin") : b.src = "stdin"
BY DEF Of, Bytes

-----------------------------------------------------------------------------
(* Order.  The bytes of a source in a queue rise, to m at most.              *)
RisesTo(q, src, m) ==
  /\ Ordered(q, src)
  /\ \A i \in DOMAIN q : q[i].src = src => q[i].n <= m

(* A queue whose bytes of a source are bytes of another queue, in    *)
(* the places that an increasing function picks, is as ordered as that one.  *)
LEMMA OrderedPicked ==
  ASSUME NEW q \in Seq(Bytes), NEW r \in Seq(Bytes), NEW src, NEW m \in Nat,
         NEW f \in [1 .. Len(q) -> Int],
         RisesTo(r, src, m),
         \A i \in 1 .. Len(q) : q[i].src = src => f[i] \in 1 .. Len(r) /\ q[i] = r[f[i]],
         \A i, j \in 1 .. Len(q) :
            i < j /\ q[i].src = src /\ q[j].src = src => f[i] < f[j]
  PROVE  RisesTo(q, src, m)
<1>1. DOMAIN q = 1 .. Len(q) /\ DOMAIN r = 1 .. Len(r)
  BY LenProperties
<1>2. \A i, j \in 1 .. Len(q) : i < j /\ q[i].src = src /\ q[j].src = src => q[i].n < q[j].n
  <2>1. TAKE i, j \in 1 .. Len(q)
  <2>2. HAVE i < j /\ q[i].src = src /\ q[j].src = src
  <2>3. f[i] < f[j] /\ f[i] \in 1 .. Len(r) /\ f[j] \in 1 .. Len(r)
    BY <2>2
  <2>4. r[f[i]].n < r[f[j]].n
    BY <1>1, <2>2, <2>3 DEF RisesTo, Ordered
  <2> QED BY <2>2, <2>4
<1>3. \A i \in 1 .. Len(q) : q[i].src = src => q[i].n <= m
  BY <1>1 DEF RisesTo
<1> QED BY <1>1, <1>2, <1>3 DEF RisesTo, Ordered

(* Taking a stretch out of a queue leaves it in order.                      *)
LEMMA OrderedCut ==
  ASSUME NEW s \in Seq(Bytes), NEW t \in Seq(Bytes), NEW src, NEW m \in Nat,
         NEW a \in 0 .. Len(t), NEW b \in Nat, a < b,
         RisesTo(s \o t, src, m)
  PROVE  RisesTo((s \o SubSeq(t, 1, a)) \o SubSeq(t, b, Len(t)), src, m)
<1> DEFINE u == SubSeq(t, 1, a)
           v == SubSeq(t, b, Len(t))
           q == (s \o u) \o v
           r == s \o t
           f == [i \in 1 .. Len(q) |-> IF i <= Len(s) + a THEN i ELSE i - a + b - 1]
<1>1. /\ Len(s) \in Nat /\ Len(t) \in Nat
      /\ \A i \in 1 .. Len(t) : t[i] \in Bytes
  BY LenProperties, ElementOfSeq
<1>2. u \in Seq(Bytes) /\ Len(u) = a /\ \A i \in 1 .. a : u[i] = t[i]
  <2>1. \A i \in 1 .. a : t[i] \in Bytes
    BY <1>1
  <2>2. /\ u \in Seq(Bytes) /\ Len(u) = IF 1 <= a THEN a - 1 + 1 ELSE 0
        /\ \A i \in 1 .. a - 1 + 1 : u[i] = t[1 + i - 1]
    BY <2>1, <1>1, SubSeqProperties DEF u
  <2> QED BY <2>2, <1>1
<1>3. /\ v \in Seq(Bytes) /\ Len(v) = IF b <= Len(t) THEN Len(t) - b + 1 ELSE 0
      /\ \A i \in 1 .. Len(v) : v[i] = t[b + i - 1]
  <2>1. \A i \in b .. Len(t) : t[i] \in Bytes
    BY <1>1
  <2>2. /\ v \in Seq(Bytes) /\ Len(v) = IF b <= Len(t) THEN Len(t) - b + 1 ELSE 0
        /\ \A i \in 1 .. Len(t) - b + 1 : v[i] = t[b + i - 1]
    BY <2>1, <1>1, SubSeqProperties DEF v
  <2> QED BY <2>2, <1>1
<1> HIDE DEF u, v
<1>31. Len(v) \in Nat
  BY <1>3, LenProperties
<1>4. /\ s \o u \in Seq(Bytes) /\ Len(s \o u) = Len(s) + a
      /\ \A i \in 1 .. Len(s) + a : (s \o u)[i] = IF i <= Len(s) THEN s[i] ELSE u[i - Len(s)]
  BY <1>2, ConcatProperties
<1>5. /\ q \in Seq(Bytes) /\ Len(q) = Len(s) + a + Len(v)
      /\ \A i \in 1 .. Len(q) : q[i] = IF i <= Len(s) + a THEN (s \o u)[i] ELSE v[i - (Len(s) + a)]
  <2>1. /\ q \in Seq(Bytes) /\ Len(q) = Len(s \o u) + Len(v)
        /\ \A i \in 1 .. Len(s \o u) + Len(v) :
             q[i] = IF i <= Len(s \o u) THEN (s \o u)[i] ELSE v[i - Len(s \o u)]
    BY <1>3, <1>4, ConcatProperties
  <2> QED BY <2>1, <1>4
<1>6. /\ r \in Seq(Bytes) /\ Len(r) = Len(s) + Len(t)
      /\ \A i \in 1 .. Len(r) : r[i] = IF i <= Len(s) THEN s[i] ELSE t[i - Len(s)]
  BY ConcatProperties
<1> HIDE DEF q, r
<1>7. /\ f \in [1 .. Len(q) -> Int]
      /\ \A i \in 1 .. Len(q) : f[i] = IF i <= Len(s) + a THEN i ELSE i - a + b - 1
  BY <1>1
<1> HIDE DEF f
<1>8. \A i \in 1 .. Len(q) : f[i] \in 1 .. Len(r) /\ q[i] = r[f[i]]
  <2>1. TAKE i \in 1 .. Len(q)
  <2>2. CASE i <= Len(s)
    <3>1. i \in 1 .. Len(r) /\ f[i] = i /\ i \in 1 .. Len(s) + a
      BY <2>2, <1>1, <1>6, <1>7
    <3>2. q[i] = s[i]
      BY <2>2, <3>1, <1>1, <1>4, <1>5
    <3> QED BY <2>2, <3>1, <3>2, <1>6
  <2>3. CASE i > Len(s) /\ i <= Len(s) + a
    <3>1. q[i] = u[i - Len(s)] /\ i - Len(s) \in 1 .. a
      BY <2>3, <1>1, <1>4, <1>5
    <3>2. q[i] = t[i - Len(s)]
      BY <3>1, <1>2
    <3>3. f[i] = i /\ i \in 1 .. Len(r)
      BY <2>3, <1>1, <1>6, <1>7
    <3>4. r[i] = t[i - Len(s)]
      BY <2>3, <3>3, <1>1, <1>6
    <3> QED BY <3>2, <3>3, <3>4
  <2>4. CASE i > Len(s) + a
    <3>0. PICK k \in 1 .. Len(v) : i = Len(s) + a + k /\ i - (Len(s) + a) = k
      <4>1. i - (Len(s) + a) \in 1 .. Len(v)
        BY <2>4, <1>1, <1>31, <1>5
      <4>2. i = Len(s) + a + (i - (Len(s) + a))
        BY <4>1, <1>1, <1>31
      <4> WITNESS i - (Len(s) + a) \in 1 .. Len(v)
      <4> QED BY <4>1, <4>2
    <3>1. q[i] = v[k]
      BY <3>0, <2>4, <1>5
    <3>2. q[i] = t[b + k - 1] /\ b <= Len(t) /\ k <= Len(t) - b + 1
      BY <3>1, <1>1, <1>3
    <3>3. b + k - 1 = f[i] - Len(s) /\ f[i] > Len(s) /\ f[i] \in 1 .. Len(r)
      <4>1. f[i] = i - a + b - 1
        BY <2>4, <1>7
      <4>2. Len(r) = Len(s) + Len(t)
        BY <1>6
      <4>3. k \in Nat /\ k > 0 /\ a \in Nat
        BY <1>1, <1>31
      <4> QED BY <4>1, <4>2, <4>3, <3>0, <3>2, <1>1
    <3> QED BY <3>2, <3>3, <1>1, <1>6
  <2> QED BY <2>2, <2>3, <2>4, <1>1
<1>9. \A i, j \in 1 .. Len(q) :
         i < j /\ q[i].src = src /\ q[j].src = src => f[i] < f[j]
  BY <1>1, <1>5, <1>7
<1>10. RisesTo(r, src, m)
  BY DEF r
<1>11. \A i \in 1 .. Len(q) : q[i].src = src => f[i] \in 1 .. Len(r) /\ q[i] = r[f[i]]
  BY <1>8
<1>12. RisesTo(q, src, m)
  BY <1>5, <1>6, <1>7, <1>11, <1>9, <1>10, OrderedPicked
<1> QED BY <1>12 DEF q, u, v

(* Bytes of another source may come between.                                *)
LEMMA OrderedInsert ==
  ASSUME NEW s \in Seq(Bytes), NEW t \in Seq(Bytes), NEW u \in Seq(Bytes), NEW src, NEW m \in Nat,
         \A i \in 1 .. Len(u) : u[i].src # src,
         RisesTo(s \o t, src, m)
  PROVE  RisesTo((s \o u) \o t, src, m)
<1> DEFINE q == (s \o u) \o t
           r == s \o t
           f == [i \in 1 .. Len(q) |-> IF i <= Len(s) THEN i ELSE i - Len(u)]
<1>1. Len(s) \in Nat /\ Len(t) \in Nat /\ Len(u) \in Nat
  BY LenProperties
<1>2. /\ s \o u \in Seq(Bytes) /\ Len(s \o u) = Len(s) + Len(u)
      /\ \A i \in 1 .. Len(s) + Len(u) : (s \o u)[i] = IF i <= Len(s) THEN s[i] ELSE u[i - Len(s)]
  BY ConcatProperties
<1>3. /\ q \in Seq(Bytes) /\ Len(q) = Len(s) + Len(u) + Len(t)
      /\ \A i \in 1 .. Len(q) : q[i] = IF i <= Len(s) + Len(u) THEN (s \o u)[i]
                                       ELSE t[i - (Len(s) + Len(u))]
  BY <1>2, ConcatProperties
<1>4. /\ r \in Seq(Bytes) /\ Len(r) = Len(s) + Len(t)
      /\ \A i \in 1 .. Len(r) : r[i] = IF i <= Len(s) THEN s[i] ELSE t[i - Len(s)]
  BY ConcatProperties
<1> HIDE DEF q, r
<1>5. /\ f \in [1 .. Len(q) -> Int]
      /\ \A i \in 1 .. Len(q) : f[i] = IF i <= Len(s) THEN i ELSE i - Len(u)
  BY <1>1
<1> HIDE DEF f
<1>6. \A i \in 1 .. Len(q) : q[i].src = src => i <= Len(s) \/ i > Len(s) + Len(u)
  <2>1. TAKE i \in 1 .. Len(q)
  <2>2. ASSUME i > Len(s), i <= Len(s) + Len(u) PROVE q[i].src # src
    <3>1. q[i] = (s \o u)[i] /\ i \in 1 .. Len(s) + Len(u)
      BY <2>2, <1>1, <1>3
    <3>2. q[i] = u[i - Len(s)] /\ i - Len(s) \in 1 .. Len(u)
      BY <2>2, <3>1, <1>1, <1>2
    <3> QED BY <3>2
  <2>3. i \in Int
    OBVIOUS
  <2> QED BY <2>2, <2>3, <1>1
<1>7. \A i \in 1 .. Len(q) : q[i].src = src => f[i] \in 1 .. Len(r) /\ q[i] = r[f[i]]
  <2>1. SUFFICES ASSUME NEW i \in 1 .. Len(q), q[i].src = src
                 PROVE  f[i] \in 1 .. Len(r) /\ q[i] = r[f[i]]
    OBVIOUS
  <2>2. CASE i <= Len(s)
    <3>1. q[i] = s[i] /\ f[i] = i /\ i \in 1 .. Len(r)
      <4>1. q[i] = (s \o u)[i]
        BY <2>2, <1>1, <1>3
      <4>2. (s \o u)[i] = s[i]
        BY <2>2, <1>1, <1>2
      <4> QED BY <2>2, <4>1, <4>2, <1>1, <1>4, <1>5
    <3> QED BY <2>2, <3>1, <1>1, <1>4
  <2>3. CASE i > Len(s) + Len(u)
    <3>1. q[i] = t[i - (Len(s) + Len(u))] /\ f[i] = i - Len(u) /\ f[i] \in 1 .. Len(r)
      <4>1. q[i] = t[i - (Len(s) + Len(u))]
        BY <2>3, <1>1, <1>3
      <4>2. f[i] = i - Len(u) /\ f[i] \in 1 .. Len(r)
        <5>1. f[i] = i - Len(u)
          BY <2>3, <1>1, <1>5
        <5>2. Len(q) = Len(s) + Len(u) + Len(t) /\ Len(r) = Len(s) + Len(t)
          BY <1>3, <1>4
        <5> QED BY <5>1, <5>2, <2>3, <1>1
      <4> QED BY <4>1, <4>2
    <3>2. f[i] - Len(s) = i - (Len(s) + Len(u)) /\ f[i] > Len(s)
      <4>1. f[i] = i - Len(u) /\ i \in Int
        BY <3>1
      <4> QED BY <4>1, <2>3, <1>1
    <3>3. r[f[i]] = t[f[i] - Len(s)]
      <4>1. f[i] \in 1 .. Len(r) /\ ~ (f[i] <= Len(s))
        BY <3>1, <3>2, <1>1
      <4> QED BY <4>1, <1>4
    <3> QED BY <3>1, <3>2, <3>3
  <2> QED BY <1>6, <2>1, <2>2, <2>3
<1>8. \A i, j \in 1 .. Len(q) :
         i < j /\ q[i].src = src /\ q[j].src = src => f[i] < f[j]
  <2>1. TAKE i, j \in 1 .. Len(q)
  <2>2. HAVE i < j /\ q[i].src = src /\ q[j].src = src
  <2>3. (i <= Len(s) \/ i > Len(s) + Len(u)) /\ (j <= Len(s) \/ j > Len(s) + Len(u))
    BY <1>6, <2>2
  <2>4. /\ f[i] = IF i <= Len(s) THEN i ELSE i - Len(u)
        /\ f[j] = IF j <= Len(s) THEN j ELSE j - Len(u)
    BY <1>5
  <2>5. i \in Nat /\ j \in Nat
    BY <1>1, <1>3
  <2> QED BY <2>2, <2>3, <2>4, <2>5, <1>1
<1>9. RisesTo(r, src, m)
  BY DEF r
<1>10. RisesTo(q, src, m)
  BY <1>3, <1>4, <1>5, <1>7, <1>8, <1>9, OrderedPicked
<1> QED BY <1>10 DEF q

(* A byte typed next comes after all others of its source.                 *)
LEMMA OrderedAppend ==
  ASSUME NEW q \in Seq(Bytes), NEW b \in Bytes, NEW src, NEW m \in Nat, RisesTo(q, src, m),
         b.src = src => b.n = m + 1
  PROVE  RisesTo(Append(q, b), src, m + 1)
<1> DEFINE r == Append(q, b)
<1>1. Len(q) \in Nat /\ DOMAIN q = 1 .. Len(q) /\ \A i \in 1 .. Len(q) : q[i].n \in Nat
  <2>1. \A i \in 1 .. Len(q) : q[i] \in Bytes
    BY ElementOfSeq
  <2>2. \A c \in Bytes : c.n \in Nat
    BY DEF Bytes
  <2> QED BY <2>1, <2>2, LenProperties
<1>2. /\ r \in Seq(Bytes) /\ Len(r) = Len(q) + 1 /\ DOMAIN r = 1 .. Len(q) + 1
      /\ \A i \in 1 .. Len(q) : r[i] = q[i]
      /\ r[Len(q) + 1] = b
  BY <1>1
<1> HIDE DEF r
<1>3. \A i, j \in 1 .. Len(q) + 1 : i < j /\ r[i].src = src /\ r[j].src = src => r[i].n < r[j].n
  <2>1. TAKE i, j \in 1 .. Len(q) + 1
  <2>2. HAVE i < j /\ r[i].src = src /\ r[j].src = src
  <2>3. i \in 1 .. Len(q) /\ r[i] = q[i]
    BY <1>1, <1>2, <2>2
  <2>4. CASE j = Len(q) + 1
    <3>1. q[i].n <= m
      BY <1>1, <2>2, <2>3 DEF RisesTo
    <3> QED BY <1>1, <1>2, <2>2, <2>3, <2>4, <3>1
  <2>5. CASE j # Len(q) + 1
    <3>1. j \in 1 .. Len(q) /\ r[j] = q[j]
      BY <1>1, <1>2, <2>5
    <3> QED BY <1>1, <2>2, <2>3, <3>1 DEF RisesTo, Ordered
  <2> QED BY <2>4, <2>5
<1>4. \A i \in 1 .. Len(q) + 1 : r[i].src = src => r[i].n <= m + 1
  <2>1. TAKE i \in 1 .. Len(q) + 1
  <2>2. HAVE r[i].src = src
  <2>3. CASE i = Len(q) + 1
    BY <1>2, <2>2, <2>3
  <2>4. CASE i # Len(q) + 1
    <3>1. i \in 1 .. Len(q) /\ r[i] = q[i]
      BY <1>1, <1>2, <2>4
    <3>2. q[i].n <= m
      BY <1>1, <2>2, <3>1 DEF RisesTo
    <3> QED BY <1>1, <3>1, <3>2
  <2> QED BY <2>3, <2>4
<1>5. RisesTo(r, src, m + 1)
  BY <1>2, <1>3, <1>4 DEF RisesTo, Ordered
<1> QED BY <1>5 DEF r

-----------------------------------------------------------------------------
(* The pieces that the queues are cut into.                                 *)
LEMMA NatFacts ==
  /\ {KbdSize, BufSize, RxSize, Burst} \subseteq Nat /\ LineMax \in Nat /\ MaxCalls \in Nat
  /\ KbdSize > 1 /\ BufSize > 1 /\ RxSize > 1 /\ Burst > 1
BY ConsoleAssumption

LEMMA FirstIs ==
  ASSUME NEW S, NEW s \in Seq(S), NEW n \in Nat
  PROVE  /\ First(s, n) \in Seq(S)
         /\ Len(First(s, n)) = Min2(n, Len(s))
         /\ Min2(n, Len(s)) \in 0 .. Len(s) /\ Min2(n, Len(s)) <= n
         /\ \A i \in 1 .. Min2(n, Len(s)) : First(s, n)[i] = s[i]
<1>1. Len(s) \in Nat /\ \A i \in 1 .. Len(s) : s[i] \in S
  BY LenProperties, ElementOfSeq
<1>2. PICK h : h = Min2(n, Len(s))
  OBVIOUS
<1>3. h \in 0 .. Len(s) /\ h <= n
  BY <1>1, <1>2 DEF Min2
<1>4. /\ SubSeq(s, 1, h) \in Seq(S)
      /\ Len(SubSeq(s, 1, h)) = IF 1 <= h THEN h - 1 + 1 ELSE 0
      /\ \A i \in 1 .. h - 1 + 1 : SubSeq(s, 1, h)[i] = s[1 + i - 1]
  <2>1. \A i \in 1 .. h : s[i] \in S
    BY <1>1, <1>3
  <2> QED BY <2>1, <1>3, SubSeqProperties
<1> QED BY <1>1, <1>2, <1>3, <1>4 DEF First

LEMMA RestIs ==
  ASSUME NEW S, NEW s \in Seq(S), NEW n \in Nat, n > 0
  PROVE  /\ SubSeq(s, n, Len(s)) \in Seq(S)
         /\ Len(SubSeq(s, n, Len(s))) = IF n <= Len(s) THEN Len(s) - n + 1 ELSE 0
<1>1. Len(s) \in Nat /\ \A i \in 1 .. Len(s) : s[i] \in S
  BY LenProperties, ElementOfSeq
<1>2. \A i \in n .. Len(s) : s[i] \in S
  BY <1>1
<1> QED BY <1>1, <1>2, SubSeqProperties

LEMMA Assoc == \A s, t, u \in Seq(Bytes) : (s \o t) \o u = s \o (t \o u)
BY ConcatAssociative

LEMMA Larger ==
  ASSUME NEW S, NEW T, S \subseteq T, NEW s \in Seq(S)
  PROVE  s \in Seq(T)
BY SeqMonotonic

(* A byte that goes from the head of one queue to the end of the one before  *)
(* it stays where it is in the order.                                       *)
LEMMA HandOver ==
  ASSUME NEW p \in Seq(Bytes), NEW q \in Seq(Bytes), q # <<>>
  PROVE  /\ Append(p, Head(q)) \o Tail(q) = p \o q
         /\ Append(p, Head(q)) \in Seq(Bytes) /\ Tail(q) \in Seq(Bytes)
<1>1. /\ Head(q) \in Bytes /\ Tail(q) \in Seq(Bytes) /\ Len(Tail(q)) = Len(q) - 1
      /\ \A i \in 1 .. Len(Tail(q)) : Tail(q)[i] = q[i + 1]
  BY HeadTailProperties
<1>2. Append(p, Head(q)) \in Seq(Bytes) /\ <<Head(q)>> \in Seq(Bytes)
  BY <1>1
<1>3. Append(p, Head(q)) = p \o <<Head(q)>>
  BY <1>1
<1>4. <<Head(q)>> \o Tail(q) = q
  BY <1>1
<1>5. (p \o <<Head(q)>>) \o Tail(q) = p \o (<<Head(q)>> \o Tail(q))
  BY <1>1, <1>2, ConcatAssociative
<1> QED BY <1>1, <1>2, <1>3, <1>4, <1>5

-----------------------------------------------------------------------------
(* The inductive invariant.                                                 *)
Modes == [reg : [{0, 1} -> {"monitor", "8N1", "1 stop"}], ptr : {0, 1}]
Progs == [call : Calls \cup {"none", "boot"}, pc : {"look", "take"}, line : Seq(Bytes), calls : Nat]

Types ==
  /\ events \in Seq(Of("window")) /\ kbd \in Seq(Of("window")) /\ pipe \in Seq(Of("stdin"))
  /\ buf \in Seq(Bytes) /\ rx \in Seq(Bytes) /\ taken \in Seq(Bytes) /\ screen \in Seq(Bytes)
  /\ quit \in BOOLEAN /\ escape \in BOOLEAN
  /\ typed \in [window : Nat, stdin : Nat]
  /\ prog \in Progs
  /\ modes \in [{"A", "B"} -> Modes]

(* The path of a byte from the main loop's buffer to the guest is one queue, *)
(* before it is the keyboard's or the pipe of stdin, and along both the      *)
(* bytes of the source rise to the last that was typed.                     *)
Inside == (taken \o rx) \o buf
Ahead  == kbd \o events
Rising ==
  /\ RisesTo(Inside \o Ahead, "window", typed.window)
  /\ RisesTo(Inside \o pipe, "stdin", typed.stdin)

(* Nobody but the guest takes bytes out of the DUART: what it saw at the     *)
(* look is there when it takes.                                             *)
Ready == prog.call \in Calls /\ prog.pc = "take" => rx # <<>>

ConsoleInv == Types /\ Fits /\ Rising /\ Ready /\ LineShown /\ ConsoleSet

LEMMA InsideIs ==
  ASSUME Types
  PROVE  /\ Inside \in Seq(Bytes) /\ Ahead \in Seq(Bytes) /\ taken \o rx \in Seq(Bytes)
         /\ pipe \in Seq(Bytes) /\ kbd \in Seq(Bytes) /\ events \in Seq(Bytes)
         /\ typed.window \in Nat /\ typed.stdin \in Nat
         /\ OnTheWay = Inside \o Ahead /\ AtStdin = Inside \o pipe
<1>1. /\ pipe \in Seq(Bytes) /\ kbd \in Seq(Bytes) /\ events \in Seq(Bytes)
      /\ taken \in Seq(Bytes) /\ rx \in Seq(Bytes) /\ buf \in Seq(Bytes)
  BY OfIsBytes, Larger DEF Types
<1>2. taken \o rx \in Seq(Bytes)
  BY <1>1, ConcatProperties
<1>3. Inside \in Seq(Bytes) /\ Ahead \in Seq(Bytes)
  BY <1>1, <1>2, ConcatProperties DEF Inside, Ahead
<1>4. (Inside \o kbd) \o events = Inside \o (kbd \o events)
  <2>1. Inside \in Seq(Bytes) /\ kbd \in Seq(Bytes) /\ events \in Seq(Bytes)
    BY <1>1, <1>3
  <2> QED BY <2>1, Assoc, Zenon
<1> QED BY <1>1, <1>2, <1>3, <1>4 DEF Types, OnTheWay, AtStdin, Inside, Ahead

LEMMA RisesOn ==
  ASSUME NEW q \in Seq(Bytes), NEW src, NEW m \in Nat, RisesTo(q, src, m)
  PROVE  RisesTo(q, src, m + 1)
<1>1. DOMAIN q = 1 .. Len(q) /\ \A i \in 1 .. Len(q) : q[i].n \in Nat
  <2>1. \A i \in 1 .. Len(q) : q[i] \in Bytes
    BY ElementOfSeq
  <2>2. \A c \in Bytes : c.n \in Nat
    BY DEF Bytes
  <2> QED BY <2>1, <2>2, LenProperties
<1> QED BY <1>1 DEF RisesTo

LEMMA InitInv == Init => ConsoleInv
<1> SUFFICES ASSUME Init PROVE ConsoleInv
  OBVIOUS
<1>1. Types
  <2>1. modes \in [{"A", "B"} -> Modes]
    <3>1. \A p \in {0, 1} : [Idle EXCEPT !.ptr = p] \in Modes
      BY DEF Idle, Modes
    <3> QED BY <3>1 DEF Init
  <2>2. prog \in Progs
    BY DEF Init, NoProg, Progs, Calls
  <2>3. <<>> \in Seq(Of("window")) /\ <<>> \in Seq(Of("stdin")) /\ <<>> \in Seq(Bytes)
    BY EmptySeq
  <2> QED BY <2>1, <2>2, <2>3 DEF Init, Types
<1>2. Fits
  BY NatFacts DEF Init, Fits, NoProg
<1>3. Rising
  <2>1. Inside \o Ahead = <<>> /\ Inside \o pipe = <<>>
    BY DEF Init, Inside, Ahead
  <2> QED BY <2>1 DEF Rising, RisesTo, Ordered
<1>4. Ready /\ LineShown /\ ConsoleSet
  BY DEF Init, NoProg, Ready, LineShown, ConsoleSet, Calls
<1> QED BY <1>1, <1>2, <1>3, <1>4 DEF ConsoleInv

LEMMA InvInOrder == ConsoleInv => Faithful
<1> SUFFICES ASSUME ConsoleInv PROVE InOrder
  BY DEF ConsoleInv, Faithful
<1>1. Ordered(OnTheWay, "window") /\ Ordered(AtStdin, "stdin")
  BY InsideIs DEF ConsoleInv, Rising, RisesTo
<1>2. Nul \notin ToSet(taken)
  <2>1. \A i \in DOMAIN taken : taken[i] \in Bytes
    BY LenProperties, ElementOfSeq DEF ConsoleInv, Types
  <2>2. Nul \notin Bytes
    BY DEF Nul, Byte, Bytes
  <2> QED BY <2>1, <2>2 DEF ToSet
<1> QED BY <1>1, <1>2 DEF InOrder

LEMMA PressStep == ConsoleInv /\ Press => ConsoleInv'
<1> SUFFICES ASSUME ConsoleInv, Press PROVE ConsoleInv'
  OBVIOUS
<1> USE DEF ConsoleInv
<1> DEFINE n == typed.window + 1
           b == Byte("window", n, Window[n])
<1>1. /\ typed' = [typed EXCEPT !.window = n] /\ n \in Nat /\ n <= Len(Window)
      /\ events' = IF Window[n] \in Meanings THEN Append(events, b) ELSE events
      /\ escape' = (escape \/ Window[n] = "esc")
      /\ UNCHANGED <<pipe, kbd, quit, buf, rx, guest>>
  <2>1. n \in Nat
    BY InsideIs
  <2> QED BY <2>1 DEF Press
<1>2. Window[n] \in Meanings => b \in Of("window") /\ b \in Bytes /\ b.src = "window" /\ b.n = n
  BY <1>1 DEF Byte, Of, Bytes
<1> HIDE DEF n, b
<1>3. Types'
  <2>1. events' \in Seq(Of("window"))
    BY <1>1, <1>2 DEF Types
  <2>2. typed' \in [window : Nat, stdin : Nat] /\ escape' \in BOOLEAN
    BY <1>1 DEF Types
  <2> QED BY <1>1, <2>1, <2>2 DEF Types, guest
<1>4. Rising'
  <2>1. typed'.window = n /\ typed'.stdin = typed.stdin /\ n = typed.window + 1
    BY <1>1 DEF Types, n
  <2>2. Inside' = Inside /\ pipe' = pipe
    BY <1>1 DEF Inside, guest
  <2>3. RisesTo(Inside \o Ahead', "window", n)
    <3>1. CASE Window[n] \in Meanings
      <4>1. Ahead' = kbd \o Append(events, b)
        BY <1>1, <3>1 DEF Ahead
      <4>2. Inside \o Ahead' = Append(Inside \o Ahead, b)
        <5>1. events \in Seq(Bytes) /\ kbd \in Seq(Bytes) /\ <<b>> \in Seq(Bytes)
          BY InsideIs, <1>2, <3>1
        <5>2. Append(events, b) = events \o <<b>>
          BY <5>1, <1>2, <3>1
        <5>3. kbd \o (events \o <<b>>) = Ahead \o <<b>>
          BY <5>1, ConcatAssociative DEF Ahead
        <5>4. Inside \o (Ahead \o <<b>>) = (Inside \o Ahead) \o <<b>>
          <6>1. Inside \in Seq(Bytes) /\ Ahead \in Seq(Bytes)
            BY InsideIs
          <6> QED BY <5>1, <6>1, Assoc, Zenon
        <5>5. Inside \o Ahead \in Seq(Bytes)
          BY InsideIs, ConcatProperties
        <5>6. (Inside \o Ahead) \o <<b>> = Append(Inside \o Ahead, b)
          BY <5>5, <1>2, <3>1
        <5> QED BY <4>1, <5>2, <5>3, <5>4, <5>6
      <4>3. Inside \o Ahead \in Seq(Bytes)
        BY InsideIs, ConcatProperties
      <4>4. RisesTo(Append(Inside \o Ahead, b), "window", typed.window + 1)
        BY <4>3, <1>2, <2>1, <3>1, InsideIs, OrderedAppend DEF Rising
      <4> QED BY <4>2, <4>4, <2>1
    <3>2. CASE Window[n] \notin Meanings
      <4>1. Ahead' = Ahead
        BY <1>1, <3>2 DEF Ahead
      <4>2. Inside \o Ahead \in Seq(Bytes)
        BY InsideIs, ConcatProperties
      <4> QED BY <4>1, <4>2, <2>1, InsideIs, RisesOn DEF Rising
    <3> QED BY <3>1, <3>2
  <2> QED BY <2>1, <2>2, <2>3 DEF Rising
<1>5. Fits' /\ Ready' /\ LineShown' /\ ConsoleSet'
  BY <1>1 DEF Fits, Ready, LineShown, ConsoleSet, guest
<1> QED BY <1>3, <1>4, <1>5

LEMMA ArriveStep == ConsoleInv /\ Arrive => ConsoleInv'
<1> SUFFICES ASSUME ConsoleInv, Arrive PROVE ConsoleInv'
  OBVIOUS
<1> USE DEF ConsoleInv
<1> DEFINE n == typed.stdin + 1
           b == Byte("stdin", n, Stdin[n])
<1>1. /\ typed' = [typed EXCEPT !.stdin = n] /\ n \in Nat /\ n <= Len(Stdin) /\ n > 0
      /\ pipe' = Append(pipe, b)
      /\ UNCHANGED <<events, escape, kbd, quit, buf, rx, guest>>
  <2>1. n \in Nat /\ n > 0
    BY InsideIs
  <2> QED BY <2>1 DEF Arrive
<1>2. b \in Of("stdin") /\ b \in Bytes /\ b.src = "stdin" /\ b.n = n
  <2>1. Stdin[n] \in Meanings
    BY <1>1, ConsoleAssumption, ElementOfSeq
  <2> QED BY <1>1, <2>1 DEF Byte, Of, Bytes
<1> HIDE DEF n, b
<1>3. Types'
  <2>1. pipe' \in Seq(Of("stdin"))
    BY <1>1, <1>2 DEF Types
  <2>2. typed' \in [window : Nat, stdin : Nat]
    BY <1>1 DEF Types
  <2> QED BY <1>1, <2>1, <2>2 DEF Types, guest
<1>4. Rising'
  <2>1. typed'.stdin = n /\ typed'.window = typed.window /\ n = typed.stdin + 1
    BY <1>1 DEF Types, n
  <2>2. Inside' = Inside /\ Ahead' = Ahead
    BY <1>1 DEF Inside, Ahead, guest
  <2>3. RisesTo(Inside \o pipe', "stdin", n)
    <3>1. pipe \in Seq(Bytes) /\ <<b>> \in Seq(Bytes)
      BY InsideIs, <1>2
    <3>2. Append(pipe, b) = pipe \o <<b>>
      BY <3>1, <1>2
    <3>3. Inside \o (pipe \o <<b>>) = (Inside \o pipe) \o <<b>>
      <4>1. Inside \in Seq(Bytes)
        BY InsideIs
      <4> QED BY <3>1, <4>1, Assoc, Zenon
    <3>4. Inside \o pipe \in Seq(Bytes)
      BY InsideIs, ConcatProperties
    <3>5. (Inside \o pipe) \o <<b>> = Append(Inside \o pipe, b)
      BY <3>4, <1>2
    <3>6. RisesTo(Append(Inside \o pipe, b), "stdin", typed.stdin + 1)
      BY <3>4, <1>2, <2>1, InsideIs, OrderedAppend DEF Rising
    <3> QED BY <1>1, <3>2, <3>3, <3>5, <3>6, <2>1
  <2> QED BY <2>1, <2>2, <2>3 DEF Rising
<1>5. Fits' /\ Ready' /\ LineShown' /\ ConsoleSet'
  BY <1>1 DEF Fits, Ready, LineShown, ConsoleSet, guest
<1> QED BY <1>3, <1>4, <1>5

(* What fb_tick puts into the keyboard's FIFO, and what main then takes out. *)
LEMMA RoomIs ==
  ASSUME Types, Fits
  PROVE  /\ Room \in Nat /\ Room = BufSize - 1 - Len(buf)
         /\ KbdSize - 1 - Len(kbd) \in Nat
         /\ Len(buf) \in Nat /\ Len(kbd) \in Nat /\ Len(pipe) \in Nat
<1>1. Len(buf) \in Nat /\ Len(kbd) \in Nat /\ Len(pipe) \in Nat
  BY LenProperties DEF Types
<1>2. Len(buf) < BufSize /\ Len(kbd) < KbdSize
  BY DEF Fits
<1>3. BufSize \in Nat /\ KbdSize \in Nat
  BY NatFacts
<1> QED BY <1>1, <1>2, <1>3 DEF Room

LEMMA PumpedIs ==
  ASSUME Types, Fits
  PROVE  /\ Pumped \in Seq(Of("window")) /\ Pumped \in Seq(Bytes)
         /\ Len(Pumped) < KbdSize /\ Len(Pumped) \in Nat
         /\ First(Pumped, Room) \in Seq(Of("window")) /\ First(Pumped, Room) \in Seq(Bytes)
         /\ Len(First(Pumped, Room)) <= Room
         /\ SubSeq(Pumped, Room + 2, Len(Pumped)) \in Seq(Of("window"))
         /\ Len(SubSeq(Pumped, Room + 2, Len(Pumped))) < KbdSize
<1>1. Room \in Nat /\ KbdSize - 1 - Len(kbd) \in Nat /\ Len(kbd) \in Nat
  BY RoomIs
<1>2. PICK e \in Nat : e = KbdSize - 1 - Len(kbd)
  BY <1>1
<1>3. /\ First(events, e) \in Seq(Of("window")) /\ Len(First(events, e)) <= e
      /\ Len(First(events, e)) \in Nat
  <2>1. events \in Seq(Of("window"))
    BY DEF Types
  <2> QED BY <2>1, FirstIs, LenProperties
<1>4. Pumped = kbd \o First(events, e) /\ kbd \in Seq(Of("window"))
  BY <1>2 DEF Pumped, Types
<1>5. Pumped \in Seq(Of("window")) /\ Len(Pumped) = Len(kbd) + Len(First(events, e))
  BY <1>3, <1>4, ConcatProperties
<1>6. Len(Pumped) < KbdSize /\ Len(Pumped) \in Nat
  BY <1>1, <1>2, <1>3, <1>5, NatFacts
<1> HIDE DEF Pumped
<1>7. /\ First(Pumped, Room) \in Seq(Of("window"))
      /\ Len(First(Pumped, Room)) <= Room
  BY <1>1, <1>5, FirstIs
<1>8. /\ SubSeq(Pumped, Room + 2, Len(Pumped)) \in Seq(Of("window"))
      /\ Len(SubSeq(Pumped, Room + 2, Len(Pumped))) =
           IF Room + 2 <= Len(Pumped) THEN Len(Pumped) - (Room + 2) + 1 ELSE 0
  <2>1. PICK n \in Nat : n = Room + 2 /\ n > 0
    BY <1>1
  <2> QED BY <2>1, <1>5, RestIs
<1>9. Len(SubSeq(Pumped, Room + 2, Len(Pumped))) < KbdSize
  BY <1>1, <1>6, <1>8, NatFacts
<1> QED BY <1>5, <1>6, <1>7, <1>8, <1>9, OfIsBytes, Larger

LEMMA PumpRises ==
  ASSUME ConsoleInv
  PROVE  RisesTo(Inside \o Pumped, "window", typed.window)
<1> USE DEF ConsoleInv
<1>1. PICK e \in Nat : e = KbdSize - 1 - Len(kbd)
  BY RoomIs
<1>2. PICK a : a = Min2(e, Len(events))
  OBVIOUS
<1>3. a \in 0 .. Len(events) /\ First(events, e) = SubSeq(events, 1, a) /\ Len(events) \in Nat
  <2>1. events \in Seq(Bytes)
    BY InsideIs
  <2> QED BY <1>2, <2>1, FirstIs, LenProperties DEF First
<1>4. /\ Inside \in Seq(Bytes) /\ kbd \in Seq(Bytes) /\ events \in Seq(Bytes)
      /\ First(events, e) \in Seq(Bytes)
  BY InsideIs, FirstIs
<1>5. Inside \o kbd \in Seq(Bytes)
  BY <1>4, ConcatProperties
<1>6. RisesTo((Inside \o kbd) \o events, "window", typed.window)
  BY <1>4, Assoc DEF Rising, Ahead
<1>7. SubSeq(events, Len(events) + 1, Len(events)) = <<>>
  BY <1>3, SubSeqEmpty
<1>8. RisesTo(((Inside \o kbd) \o SubSeq(events, 1, a)) \o SubSeq(events, Len(events) + 1, Len(events)),
              "window", typed.window)
  <2>1. PICK z \in Nat : z = Len(events) + 1 /\ a < z
    BY <1>3
  <2>2. RisesTo(((Inside \o kbd) \o SubSeq(events, 1, a)) \o SubSeq(events, z, Len(events)),
                "window", typed.window)
    BY <1>3, <1>4, <1>5, <1>6, <2>1, InsideIs, OrderedCut
  <2> QED BY <2>1, <2>2
<1>9. (Inside \o kbd) \o First(events, e) = Inside \o Pumped
  BY <1>1, <1>4, Assoc DEF Pumped
<1>10. (Inside \o kbd) \o First(events, e) \in Seq(Bytes)
  BY <1>4, <1>5, ConcatProperties
<1>11. ((Inside \o kbd) \o First(events, e)) \o <<>> = (Inside \o kbd) \o First(events, e)
  BY <1>10, ConcatEmptySeq
<1> QED BY <1>3, <1>7, <1>8, <1>9, <1>11

LEMMA FbTickIs ==
  ASSUME ConsoleInv, FbTick
  PROVE  /\ Inside' = Inside \o First(Pumped, Room)
         /\ Ahead' = SubSeq(Pumped, Room + 2, Len(Pumped))
         /\ buf' = buf \o First(Pumped, Room)
         /\ pipe' = pipe /\ typed' = typed
<1> USE DEF ConsoleInv
<1> DEFINE f == First(Pumped, Room)
           z == SubSeq(Pumped, Room + 2, Len(Pumped))
<1>1. /\ events' = <<>> /\ buf' = buf \o f /\ kbd' = z
      /\ UNCHANGED <<pipe, typed, rx, guest>>
  BY DEF FbTick, Drained
<1>2. f \in Seq(Bytes) /\ z \in Seq(Of("window"))
  BY PumpedIs
<1> HIDE DEF f, z
<1>3. Inside' = Inside \o f
  <2>1. taken \o rx \in Seq(Bytes) /\ buf \in Seq(Bytes)
    BY InsideIs DEF Types
  <2>2. ((taken \o rx) \o buf) \o f = (taken \o rx) \o (buf \o f)
    BY <2>1, <1>2, Assoc
  <2> QED BY <1>1, <2>2 DEF Inside, guest
<1>4. Ahead' = z
  <2>1. z \o <<>> = z
    BY <1>2, ConcatEmptySeq
  <2> QED BY <1>1, <2>1 DEF Ahead
<1> QED BY <1>1, <1>3, <1>4 DEF f, z

LEMMA FbTickStep == ConsoleInv /\ FbTick => ConsoleInv'
<1> SUFFICES ASSUME ConsoleInv, FbTick PROVE ConsoleInv'
  OBVIOUS
<1> USE DEF ConsoleInv
<1> DEFINE p == Pumped
           f == First(p, Room)
           z == SubSeq(p, Room + 2, Len(p))
<1>1. /\ events' = <<>> /\ quit' = escape /\ escape' = FALSE
      /\ buf' = buf \o f /\ kbd' = z
      /\ UNCHANGED <<pipe, typed, rx, guest>>
  BY DEF FbTick, Drained
<1>2. /\ p \in Seq(Bytes) /\ f \in Seq(Of("window")) /\ f \in Seq(Bytes) /\ Len(f) <= Room
      /\ z \in Seq(Of("window")) /\ Len(z) < KbdSize
  BY PumpedIs
<1>3. buf' \in Seq(Bytes) /\ Len(buf') = Len(buf) + Len(f) /\ Len(f) \in Nat
  BY <1>1, <1>2, ConcatProperties, LenProperties DEF Types
<1>4. /\ RisesTo(Inside \o p, "window", typed.window)
      /\ f = SubSeq(p, 1, Min2(Room, Len(p))) /\ Min2(Room, Len(p)) \in 0 .. Len(p)
      /\ Min2(Room, Len(p)) <= Room
  <2>1. Min2(Room, Len(p)) \in 0 .. Len(p) /\ Min2(Room, Len(p)) <= Room
    BY <1>2, RoomIs, FirstIs
  <2> QED BY <2>1, PumpRises DEF First
<1> HIDE DEF p, f, z
<1>5. Types'
  <2>1. <<>> \in Seq(Of("window"))
    BY EmptySeq
  <2> QED BY <1>1, <1>2, <1>3, <2>1 DEF Types, guest
<1>6. Fits' /\ Ready' /\ LineShown' /\ ConsoleSet'
  <2>1. Len(buf') < BufSize
    BY <1>2, <1>3, RoomIs, NatFacts
  <2>2. Len(kbd') < KbdSize
    BY <1>1, <1>2
  <2>3. Fits'
    BY <2>1, <2>2, <1>1 DEF Fits, guest
  <2> QED BY <1>1, <2>3 DEF Ready, LineShown, ConsoleSet, guest
<1>7. Inside' = Inside \o f /\ Ahead' = z
  BY FbTickIs DEF p, f, z
<1>9. RisesTo((Inside \o f) \o z, "window", typed.window)
  <2>1. PICK b \in Nat : b = Room + 2 /\ Min2(Room, Len(p)) < b
    BY <1>4, RoomIs
  <2>2. RisesTo((Inside \o SubSeq(p, 1, Min2(Room, Len(p)))) \o SubSeq(p, b, Len(p)), "window", typed.window)
    BY <1>2, <1>4, <2>1, InsideIs, OrderedCut
  <2> QED BY <1>4, <2>1, <2>2 DEF z
<1>10. RisesTo((Inside \o f) \o pipe, "stdin", typed.stdin)
  <2>1. \A i \in 1 .. Len(f) : f[i].src # "stdin"
    <3>1. \A i \in 1 .. Len(f) : f[i] \in Of("window")
      BY <1>2, ElementOfSeq
    <3> QED BY <3>1, OfIsBytes
  <2> QED BY <2>1, <1>2, InsideIs, OrderedInsert DEF Rising
<1> QED BY <1>1, <1>5, <1>6, <1>7, <1>9, <1>10 DEF Rising

(* What the main loop reads from stdin, and what it hands to the DUART.      *)
LEMMA SlurpIs ==
  ASSUME Types, Fits
  PROVE  \E n \in Nat : \E a \in 0 .. Len(pipe) :
            /\ n = Slurp /\ a <= n /\ a <= Room
            /\ Slurped = buf \o SubSeq(pipe, 1, a)
            /\ SubSeq(pipe, 1, a) \in Seq(Of("stdin")) /\ SubSeq(pipe, 1, a) \in Seq(Bytes)
            /\ Len(SubSeq(pipe, 1, a)) = a
            /\ (a = n \/ a = Room)
<1>1. Room \in Nat /\ Len(pipe) \in Nat /\ Burst \in Nat /\ pipe \in Seq(Of("stdin"))
  BY RoomIs, NatFacts DEF Types
<1>2. PICK n \in Nat : n = Slurp /\ n <= Len(pipe)
  BY <1>1 DEF Slurp, Min2
<1>3. PICK h \in Nat : h = Min2(n, Room) /\ h <= n /\ h <= Room /\ (h = n \/ h = Room)
  BY <1>1, <1>2 DEF Min2
<1>4. Min2(h, Len(pipe)) = h
  BY <1>1, <1>2, <1>3 DEF Min2
<1>5. First(pipe, h) = SubSeq(pipe, 1, h)
  BY <1>4 DEF First
<1>6. First(pipe, h) \in Seq(Of("stdin")) /\ Len(First(pipe, h)) = h
  BY <1>1, <1>3, <1>4, FirstIs
<1>7. Slurped = buf \o SubSeq(pipe, 1, h)
  BY <1>2, <1>3, <1>5 DEF Slurped
<1>8. h \in 0 .. Len(pipe)
  BY <1>1, <1>2, <1>3
<1>9. SubSeq(pipe, 1, h) \in Seq(Bytes)
  BY <1>5, <1>6, OfIsBytes, Larger
<1> WITNESS n \in Nat
<1> WITNESS h \in 0 .. Len(pipe)
<1> QED BY <1>2, <1>3, <1>5, <1>6, <1>7, <1>9

LEMMA FeedIs ==
  ASSUME Types, NEW q \in Seq(Bytes)
  PROVE  /\ FeedInput(q) \in Seq(Bytes) /\ Fed(q) \in Seq(Bytes)
         /\ (taken \o FeedInput(q)) \o Fed(q) = (taken \o rx) \o q
         /\ Len(FeedInput(q)) < RxSize \/ FeedInput(q) = rx
         /\ Len(Fed(q)) <= Len(q)
         /\ rx # <<>> => FeedInput(q) # <<>>
<1>1. taken \in Seq(Bytes) /\ rx \in Seq(Bytes) /\ Len(q) \in Nat
  BY LenProperties DEF Types
<1>2. CASE ~ Feeds(q)
  BY <1>1, <1>2 DEF FeedInput, Fed
<1>3. CASE Feeds(q)
  <2>1. q # <<>> /\ rx = <<>>
    BY <1>3 DEF Feeds
  <2>2. Head(q) \in Bytes /\ Tail(q) \in Seq(Bytes) /\ Len(Tail(q)) = Len(q) - 1
    BY <2>1, HeadTailProperties
  <2>3. ~ Full(rx, RxSize)
    BY <2>1, NatFacts DEF Full
  <2>4. FeedInput(q) = Append(<<>>, Head(q)) /\ Fed(q) = Tail(q)
    BY <1>3, <2>1, <2>3 DEF FeedInput, Fed, Push
  <2>5. Append(<<>>, Head(q)) = <<Head(q)>> /\ <<Head(q)>> \in Seq(Bytes) /\ Len(<<Head(q)>>) = 1
    BY <2>2
  <2>6. taken \o <<Head(q)>> = Append(taken, Head(q))
    BY <1>1, <2>2
  <2>7. Append(taken, Head(q)) \o Tail(q) = taken \o q
    BY <1>1, <2>1, HandOver
  <2>8. taken \o rx = taken
    BY <1>1, <2>1, ConcatEmptySeq
  <2> QED BY <1>1, <2>1, <2>2, <2>4, <2>5, <2>6, <2>7, <2>8, NatFacts
<1> QED BY <1>2, <1>3

LEMMA PollIs ==
  ASSUME ConsoleInv, Poll
  PROVE  \E n \in Nat : \E a \in 0 .. Len(pipe) :
            /\ a <= n /\ a <= Room /\ (a = n \/ a = Room)
            /\ Slurped = buf \o SubSeq(pipe, 1, a)
            /\ Slurped \in Seq(Bytes) /\ Len(Slurped) = Len(buf) + a
            /\ SubSeq(pipe, 1, a) \in Seq(Of("stdin")) /\ SubSeq(pipe, 1, a) \in Seq(Bytes)
            /\ Len(SubSeq(pipe, 1, a)) = a
            /\ pipe' = SubSeq(pipe, n + 1, Len(pipe)) /\ pipe' \in Seq(Of("stdin"))
            /\ Inside' = Inside \o SubSeq(pipe, 1, a)
            /\ rx' \in Seq(Bytes) /\ buf' \in Seq(Bytes)
            /\ Len(rx') < RxSize \/ rx' = rx
            /\ Len(buf') <= Len(Slurped)
            /\ rx # <<>> => rx' # <<>>
            /\ UNCHANGED <<events, escape, typed, kbd, quit, guest>>
<1> USE DEF ConsoleInv
<1>1. /\ pipe' = SubSeq(pipe, Slurp + 1, Len(pipe))
      /\ rx' = FeedInput(Slurped) /\ buf' = Fed(Slurped)
      /\ UNCHANGED <<events, escape, typed, kbd, quit, guest>>
  BY DEF Poll
<1>2. PICK n \in Nat, a \in 0 .. Len(pipe) :
            /\ n = Slurp /\ a <= n /\ a <= Room /\ (a = n \/ a = Room)
            /\ Slurped = buf \o SubSeq(pipe, 1, a)
            /\ SubSeq(pipe, 1, a) \in Seq(Of("stdin")) /\ SubSeq(pipe, 1, a) \in Seq(Bytes)
            /\ Len(SubSeq(pipe, 1, a)) = a
  BY SlurpIs
<1> DEFINE x == SubSeq(pipe, 1, a)
           y == SubSeq(pipe, n + 1, Len(pipe))
<1>3. y \in Seq(Of("stdin"))
  <2>1. PICK b \in Nat : b = n + 1 /\ b > 0
    OBVIOUS
  <2>2. pipe \in Seq(Of("stdin"))
    BY DEF Types
  <2> QED BY <2>1, <2>2, RestIs
<1>4. x \in Seq(Bytes) /\ Len(x) = a
  BY <1>2
<1> HIDE DEF x, y
<1>7. Slurped \in Seq(Bytes) /\ Len(Slurped) = Len(buf) + a
  BY <1>2, <1>4, ConcatProperties DEF Types, x
<1>8. /\ rx' \in Seq(Bytes) /\ buf' \in Seq(Bytes)
      /\ (taken \o rx') \o buf' = (taken \o rx) \o Slurped
      /\ Len(rx') < RxSize \/ rx' = rx
      /\ Len(buf') <= Len(Slurped)
      /\ rx # <<>> => rx' # <<>>
  BY <1>1, <1>7, FeedIs
<1>9. Inside' = Inside \o x
  <2>1. taken \o rx \in Seq(Bytes) /\ buf \in Seq(Bytes)
    BY InsideIs DEF Types
  <2>2. ((taken \o rx) \o buf) \o x = (taken \o rx) \o (buf \o x)
    BY <2>1, <1>4, Assoc
  <2> QED BY <1>1, <1>2, <1>8, <2>2 DEF Inside, guest, x
<1>10. pipe' = y
  BY <1>1, <1>2 DEF y
<1> WITNESS n \in Nat
<1> WITNESS a \in 0 .. Len(pipe)
<1> QED BY <1>1, <1>2, <1>3, <1>7, <1>8, <1>9, <1>10 DEF x, y

LEMMA PollStep == ConsoleInv /\ Poll => ConsoleInv'
<1> SUFFICES ASSUME ConsoleInv, Poll PROVE ConsoleInv'
  OBVIOUS
<1> USE DEF ConsoleInv
<1>1. PICK n \in Nat, a \in 0 .. Len(pipe) :
            /\ a <= n /\ a <= Room
            /\ Slurped \in Seq(Bytes) /\ Len(Slurped) = Len(buf) + a
            /\ SubSeq(pipe, 1, a) \in Seq(Of("stdin")) /\ SubSeq(pipe, 1, a) \in Seq(Bytes)
            /\ Len(SubSeq(pipe, 1, a)) = a
            /\ pipe' = SubSeq(pipe, n + 1, Len(pipe)) /\ pipe' \in Seq(Of("stdin"))
            /\ Inside' = Inside \o SubSeq(pipe, 1, a)
            /\ rx' \in Seq(Bytes) /\ buf' \in Seq(Bytes)
            /\ Len(rx') < RxSize \/ rx' = rx
            /\ Len(buf') <= Len(Slurped)
            /\ rx # <<>> => rx' # <<>>
            /\ UNCHANGED <<events, escape, typed, kbd, quit, guest>>
  BY PollIs
<1> DEFINE x == SubSeq(pipe, 1, a)
           y == SubSeq(pipe, n + 1, Len(pipe))
<1>2. x \in Seq(Bytes) /\ Len(x) = a /\ \A i \in 1 .. Len(x) : x[i].src # "window"
  <2>1. \A i \in 1 .. Len(x) : x[i] \in Of("stdin")
    BY <1>1, ElementOfSeq
  <2> QED BY <1>1, <2>1, OfIsBytes
<1>3. RisesTo((Inside \o x) \o y, "stdin", typed.stdin)
  <2>1. PICK b \in Nat : b = n + 1 /\ a < b
    BY <1>1
  <2> QED BY <2>1, InsideIs, OrderedCut DEF Rising
<1>4. RisesTo((Inside \o x) \o Ahead, "window", typed.window)
  BY <1>2, InsideIs, OrderedInsert DEF Rising
<1> HIDE DEF x, y
<1>5. Types'
  BY <1>1 DEF Types, guest
<1>6. Fits'
  <2>1. Len(buf') < BufSize
    <3>1. Len(buf') \in Nat
      BY <1>1, LenProperties
    <3>2. Len(buf') <= Len(buf) + a /\ a <= Room /\ a \in Nat
      BY <1>1, RoomIs
    <3>3. Room = BufSize - 1 - Len(buf) /\ Len(buf) \in Nat /\ BufSize \in Nat
      BY RoomIs, NatFacts
    <3> QED BY <3>1, <3>2, <3>3
  <2> QED BY <1>1, <2>1 DEF Fits, guest
<1>7. Ready' /\ LineShown' /\ ConsoleSet'
  BY <1>1 DEF Ready, LineShown, ConsoleSet, guest
<1>8. Rising'
  <2>1. Ahead' = Ahead
    BY <1>1 DEF Ahead
  <2> QED BY <1>1, <1>3, <1>4, <2>1 DEF Rising, x, y
<1> QED BY <1>5, <1>6, <1>7, <1>8

-----------------------------------------------------------------------------
(* The guest.                                                               *)
LEMMA SecondSet ==
  ASSUME NEW S, NEW f \in [{0, 1} -> S], NEW v
  PROVE  [f EXCEPT ![1] = v][1] = v /\ [f EXCEPT ![1] = v][0] = f[0]
<1>1. 1 \in DOMAIN f /\ 0 \in DOMAIN f /\ 0 # 1
  OBVIOUS
<1> QED BY <1>1

LEMMA InitChannelIs ==
  ASSUME NEW md \in Modes, NEW ch \in {"A", "B"}
  PROVE  /\ InitChannel(md, CommandsOf(ch)) \in Modes
         /\ ch = "B" => InitChannel(md, CommandsOf(ch)).reg
                          = [i \in {0, 1} |-> IF i = 0 THEN "8N1" ELSE "1 stop"]
<1>1. PICK c : c = Commanded(md, CommandsOf(ch))
  OBVIOUS
<1>2. c \in Modes /\ (ch = "B" => c.ptr = 0)
  BY <1>1 DEF Commanded, CommandsOf, Modes
<1>3. \A d \in Modes, v \in {"8N1", "1 stop"} :
         /\ WriteMode(d, v) \in Modes /\ WriteMode(d, v).ptr = 1
         /\ WriteMode(d, v).reg = [d.reg EXCEPT ![d.ptr] = v]
  BY DEF WriteMode, Modes
<1>4. PICK d \in Modes : d = WriteMode(c, "8N1") /\ d.ptr = 1 /\ d.reg = [c.reg EXCEPT ![c.ptr] = "8N1"]
  BY <1>2, <1>3
<1>5. PICK e \in Modes : e = WriteMode(d, "1 stop") /\ e.reg = [d.reg EXCEPT ![1] = "1 stop"]
  <2>1. WriteMode(d, "1 stop") \in Modes /\ WriteMode(d, "1 stop").reg = [d.reg EXCEPT ![d.ptr] = "1 stop"]
    BY <1>3
  <2> QED BY <1>4, <2>1
<1>6. InitChannel(md, CommandsOf(ch)) = e
  BY <1>1, <1>4, <1>5 DEF InitChannel
<1>7. ASSUME ch = "B" PROVE e.reg = [i \in {0, 1} |-> IF i = 0 THEN "8N1" ELSE "1 stop"]
  <2>1. d.reg = [c.reg EXCEPT ![0] = "8N1"]
    BY <1>2, <1>4, <1>7
  <2>2. c.reg \in [{0, 1} -> {"monitor", "8N1", "1 stop"}]
    BY <1>2 DEF Modes
  <2>3. d.reg \in [{0, 1} -> {"monitor", "8N1", "1 stop"}] /\ d.reg[0] = "8N1"
    BY <2>1, <2>2
  <2>4. /\ e.reg \in [{0, 1} -> {"monitor", "8N1", "1 stop"}]
        /\ e.reg[0] = "8N1" /\ e.reg[1] = "1 stop"
    <3>1. e.reg[1] = "1 stop" /\ e.reg[0] = d.reg[0]
      <4>1. PICK f \in [{0, 1} -> {"monitor", "8N1", "1 stop"}] : f = d.reg
        BY <2>3
      <4>2. e.reg = [f EXCEPT ![1] = "1 stop"]
        BY <1>5, <4>1
      <4>3. [f EXCEPT ![1] = "1 stop"][1] = "1 stop" /\ [f EXCEPT ![1] = "1 stop"][0] = f[0]
        BY <4>1, SecondSet
      <4> QED BY <4>1, <4>2, <4>3, Zenon
    <3>2. e.reg \in [{0, 1} -> {"monitor", "8N1", "1 stop"}]
      BY DEF Modes
    <3> QED BY <2>3, <3>1, <3>2
  <2> QED BY <2>4
<1> QED BY <1>6, <1>7

LEMMA BootStep == ConsoleInv /\ Boot => ConsoleInv'
<1> SUFFICES ASSUME ConsoleInv, Boot PROVE ConsoleInv'
  OBVIOUS
<1> USE DEF ConsoleInv
<1>1. /\ prog.call = "boot"
      /\ modes' = [ch \in {"A", "B"} |-> InitChannel(modes[ch], CommandsOf(ch))]
      /\ prog' = [prog EXCEPT !.call = "none"]
      /\ UNCHANGED <<host, rx, screen, taken>>
  BY DEF Boot
<1>2. \A ch \in {"A", "B"} : modes[ch] \in Modes
  BY DEF Types
<1>3. modes' \in [{"A", "B"} -> Modes] /\ modes'["B"].reg = [i \in {0, 1} |-> IF i = 0 THEN "8N1" ELSE "1 stop"]
  BY <1>1, <1>2, InitChannelIs
<1>4. prog' \in Progs /\ prog'.call = "none" /\ prog'.line = prog.line
  BY <1>1 DEF Types, Progs
<1>5. Types'
  BY <1>1, <1>3, <1>4 DEF Types, host
<1>6. Rising'
  BY <1>1 DEF Rising, Inside, Ahead, host
<1>7. Fits' /\ Ready' /\ LineShown' /\ ConsoleSet'
  BY <1>1, <1>3, <1>4 DEF Fits, Ready, LineShown, ConsoleSet, host, Calls
<1> QED BY <1>5, <1>6, <1>7

LEMMA CallStep == ASSUME NEW c \in Calls PROVE ConsoleInv /\ Call(c) => ConsoleInv'
<1> SUFFICES ASSUME ConsoleInv, Call(c) PROVE ConsoleInv'
  OBVIOUS
<1> USE DEF ConsoleInv
<1>1. /\ prog.call = "none"
      /\ prog' = [call |-> c, pc |-> "look", line |-> <<>>, calls |-> prog.calls + 1]
      /\ screen' = <<>>
      /\ UNCHANGED <<host, rx, modes, taken>>
  BY DEF Call
<1>2. prog' \in Progs /\ prog'.pc = "look" /\ prog'.line = <<>> /\ prog'.call = c
  <2>1. prog.calls \in Nat /\ <<>> \in Seq(Bytes)
    BY EmptySeq DEF Types, Progs
  <2> QED BY <1>1, <2>1 DEF Progs
<1>3. Types'
  BY <1>1, <1>2, EmptySeq DEF Types, host
<1>4. Rising'
  BY <1>1 DEF Rising, Inside, Ahead, host
<1>5. Fits' /\ Ready' /\ LineShown' /\ ConsoleSet'
  <2>1. Len(prog'.line) = 0
    BY <1>2
  <2>2. Fits'
    BY <1>1, <2>1, NatFacts DEF Fits, host
  <2>3. Ready' /\ LineShown'
    BY <1>1, <1>2 DEF Ready, LineShown
  <2> QED BY <1>1, <2>2, <2>3 DEF ConsoleSet
<1> QED BY <1>3, <1>4, <1>5

LEMMA LookStep == ConsoleInv /\ Look => ConsoleInv'
<1> SUFFICES ASSUME ConsoleInv, Look PROVE ConsoleInv'
  OBVIOUS
<1> USE DEF ConsoleInv
<1>1. /\ prog.call \in Calls /\ prog.pc = "look"
      /\ prog' = IF RxReady THEN [prog EXCEPT !.pc = "take"] ELSE [prog EXCEPT !.call = "none"]
      /\ UNCHANGED <<host, rx, modes, screen, taken>>
  BY DEF Look
<1>2. /\ prog' \in Progs /\ prog'.line = prog.line
      /\ prog'.call = prog.call \/ prog'.call = "none"
      /\ prog'.pc = "take" => RxReady
  BY <1>1 DEF Types, Progs
<1>3. Types'
  BY <1>1, <1>2 DEF Types, host
<1>4. Rising'
  BY <1>1 DEF Rising, Inside, Ahead, host
<1>5. Fits' /\ Ready' /\ LineShown' /\ ConsoleSet'
  BY <1>1, <1>2 DEF Fits, Ready, LineShown, ConsoleSet, host, Calls, RxReady
<1> QED BY <1>3, <1>4, <1>5

(* One byte of d_readline does to the screen what it does to the line.      *)
LEMMA EditIs ==
  ASSUME Types, Fits, screen = prog.line, NEW b \in Bytes, ~ LineEnds(b)
  PROVE  Edit(b) \in Seq(Bytes) /\ Len(Edit(b)) <= LineMax /\ Shown(b) = Edit(b)
<1>1. PICK s \in Seq(Bytes) : s = prog.line /\ s = screen /\ Len(s) \in Nat /\ Len(s) <= LineMax
  <2>1. prog.line \in Seq(Bytes)
    BY DEF Types, Progs
  <2> QED BY <2>1, LenProperties DEF Fits
<1>2. /\ Erase(s, Len(s)) = <<>>
      /\ s = <<>> => Erase(s, Min2(1, Len(s))) = <<>>
      /\ s # <<>> => /\ Erase(s, Min2(1, Len(s))) = Front(s)
                     /\ Front(s) \in Seq(Bytes) /\ Len(Front(s)) = Len(s) - 1
  <2>1. Erase(s, Len(s)) = <<>>
    BY <1>1, SubSeqEmpty DEF Erase
  <2>2. s = <<>> => Erase(s, Min2(1, Len(s))) = <<>>
    <3>1. SUFFICES ASSUME s = <<>> PROVE Erase(s, Min2(1, Len(s))) = <<>>
      OBVIOUS
    <3>2. Len(s) = 0 /\ Min2(1, Len(s)) = 0
      BY <3>1 DEF Min2
    <3> QED BY <3>2, <2>1
  <2>3. ASSUME s # <<>>
        PROVE  /\ Erase(s, Min2(1, Len(s))) = Front(s)
               /\ Front(s) \in Seq(Bytes) /\ Len(Front(s)) = Len(s) - 1
    <3>1. PICK n \in Nat \ {0} : n = Len(s)
      BY <2>3, EmptySeq
    <3>2. Min2(1, Len(s)) = 1
      <4>1. (IF 1 < n THEN 1 ELSE n) = 1
        OBVIOUS
      <4> QED BY <3>1, <4>1 DEF Min2
    <3>3. \A i \in 1 .. Len(s) - 1 : s[i] \in Bytes
      BY <1>1, ElementOfSeq
    <3>4. /\ SubSeq(s, 1, Len(s) - 1) \in Seq(Bytes)
          /\ Len(SubSeq(s, 1, Len(s) - 1)) = IF 1 <= Len(s) - 1 THEN (Len(s) - 1) - 1 + 1 ELSE 0
      BY <3>1, <3>3, SubSeqProperties
    <3>5. Erase(s, Min2(1, Len(s))) = SubSeq(s, 1, Len(s) - 1)
      BY <3>2 DEF Erase
    <3>6. Front(s) = SubSeq(s, 1, Len(s) - 1)
      BY DEF Front
    <3>7. Len(SubSeq(s, 1, Len(s) - 1)) = Len(s) - 1
      <4>1. (IF 1 <= n - 1 THEN (n - 1) - 1 + 1 ELSE 0) = n - 1
        OBVIOUS
      <4> QED BY <3>1, <3>4, <4>1
    <3> QED BY <3>4, <3>5, <3>6, <3>7
  <2> QED BY <2>1, <2>2, <2>3
<1>3. b.k \in Meanings
  BY DEF Bytes
<1>4. CASE b.k = "bs"
  BY <1>1, <1>2, <1>4, EmptySeq, NatFacts DEF Edit, Shown
<1>5. CASE b.k = "kill"
  BY <1>1, <1>2, <1>5, EmptySeq, NatFacts DEF Edit, Shown
<1>6. CASE b.k = "char"
  BY <1>1, <1>6, NatFacts DEF Edit, Shown, HasPlace
<1>7. b.k \notin {"cr", "break"}
  BY DEF LineEnds
<1> QED BY <1>3, <1>4, <1>5, <1>6, <1>7 DEF Meanings

LEMMA TakeStep == ConsoleInv /\ Take => ConsoleInv'
<1> SUFFICES ASSUME ConsoleInv, Take PROVE ConsoleInv'
  OBVIOUS
<1> USE DEF ConsoleInv
<1>1. rx # <<>> /\ prog.call \in Calls
  BY DEF Take, Ready
<1>2. PICK b \in Bytes : b = Head(rx) /\ RxHead = b
  BY <1>1, HeadTailProperties DEF RxHead, RxReady, Types
<1>3. /\ rx' = Tail(rx) /\ taken' = Append(taken, Head(rx))
      /\ UNCHANGED <<host, modes>>
      /\ IF prog.call = "line" /\ ~ LineEnds(b)
         THEN /\ prog' = [prog EXCEPT !.pc = "look", !.line = Edit(b)]
              /\ screen' = Shown(b)
         ELSE /\ prog' = [prog EXCEPT !.call = "none"]
              /\ UNCHANGED screen
  BY <1>1, <1>2 DEF Take, RxPopped, RxReady
<1>4. /\ taken' \o rx' = taken \o rx
      /\ taken' \in Seq(Bytes) /\ rx' \in Seq(Bytes) /\ Len(rx') = Len(rx) - 1 /\ Len(rx) \in Nat
  BY <1>1, <1>3, HandOver, HeadTailProperties, LenProperties DEF Types
<1>5. /\ prog' \in Progs /\ screen' \in Seq(Bytes)
      /\ Len(prog'.line) <= LineMax /\ prog'.calls = prog.calls
      /\ prog'.pc = "look" \/ prog'.call = "none"
      /\ prog'.call # "boot"
      /\ prog'.call = "line" => screen' = prog'.line
  <2>1. CASE prog.call = "line" /\ ~ LineEnds(b)
    <3>1. Edit(b) \in Seq(Bytes) /\ Len(Edit(b)) <= LineMax /\ Shown(b) = Edit(b)
      BY <2>1, EditIs DEF LineShown
    <3>2. prog' = [prog EXCEPT !.pc = "look", !.line = Edit(b)] /\ screen' = Shown(b)
      BY <1>3, <2>1
    <3> HIDE DEF Edit
    <3> QED BY <2>1, <3>1, <3>2 DEF Types, Progs
  <2>2. CASE ~ (prog.call = "line" /\ ~ LineEnds(b))
    <3>1. prog' = [prog EXCEPT !.call = "none"] /\ screen' = screen
      BY <1>3, <2>2
    <3> QED BY <3>1 DEF Types, Progs, Fits
  <2> QED BY <2>1, <2>2
<1>6. Types'
  BY <1>3, <1>4, <1>5 DEF Types, host
<1>7. Rising'
  BY <1>3, <1>4 DEF Rising, Inside, Ahead, host
<1>8. Fits' /\ Ready' /\ LineShown' /\ ConsoleSet'
  <2>1. Fits'
    <3>1. Len(rx') < RxSize
      BY <1>4, NatFacts DEF Fits
    <3> QED BY <1>3, <1>5, <3>1 DEF Fits, host
  <2>2. Ready' /\ LineShown'
    BY <1>5 DEF Ready, LineShown, Calls
  <2>3. prog.call # "boot"
    BY <1>1 DEF Calls
  <2> QED BY <1>3, <2>1, <2>2, <2>3 DEF ConsoleSet
<1> QED BY <1>6, <1>7, <1>8

-----------------------------------------------------------------------------
LEMMA ConsoleNext == ConsoleInv /\ [Next]_vars => ConsoleInv'
<1> SUFFICES ASSUME ConsoleInv, [Next]_vars PROVE ConsoleInv'
  OBVIOUS
<1>1. CASE UNCHANGED vars
  BY <1>1 DEF vars, ConsoleInv, Types, Fits, Rising, Ready, LineShown, ConsoleSet, Inside, Ahead
<1>2. CASE Next
  BY <1>2, PressStep, ArriveStep, FbTickStep, PollStep, BootStep, CallStep, LookStep, TakeStep
     DEF Next, Host, Guest
<1> QED BY <1>1, <1>2

(* Every byte that reaches the guest comes in the order of its source and    *)
(* once, on a terminal that shows the line as it is, through queues that     *)
(* stay in their arrays (fb.c, main.c, duart.c, bdos.c).                    *)
THEOREM AlwaysFaithful == Spec => []Faithful
<1>1. Spec => []ConsoleInv
  BY InitInv, ConsoleNext, PTL DEF Spec
<1> QED BY <1>1, InvInOrder, PTL

-----------------------------------------------------------------------------
(* Loss.  Where bytes can be, as sets.                                      *)
LEMMA ToSetJoined ==
  ASSUME NEW s \in Seq(Bytes), NEW t \in Seq(Bytes)
  PROVE  ToSet(s \o t) = ToSet(s) \cup ToSet(t)
<1>1. /\ DOMAIN s = 1 .. Len(s) /\ DOMAIN t = 1 .. Len(t)
      /\ Len(s) \in Nat /\ Len(t) \in Nat
  BY LenProperties
<1>2. /\ DOMAIN (s \o t) = 1 .. Len(s) + Len(t)
      /\ \A i \in 1 .. Len(s) + Len(t) : (s \o t)[i] = IF i <= Len(s) THEN s[i] ELSE t[i - Len(s)]
  BY ConcatProperties, LenProperties
<1>3. ToSet(s \o t) \subseteq ToSet(s) \cup ToSet(t)
  <2>1. SUFFICES ASSUME NEW i \in 1 .. Len(s) + Len(t)
                 PROVE  (s \o t)[i] \in ToSet(s) \cup ToSet(t)
    BY <1>2 DEF ToSet
  <2>2. CASE i <= Len(s)
    BY <1>1, <1>2, <2>2 DEF ToSet
  <2>3. CASE i > Len(s)
    <3>1. (s \o t)[i] = t[i - Len(s)] /\ i - Len(s) \in 1 .. Len(t)
      BY <1>1, <1>2, <2>3
    <3> QED BY <1>1, <3>1 DEF ToSet
  <2> QED BY <1>1, <2>2, <2>3
<1>4. ToSet(s) \subseteq ToSet(s \o t)
  <2>1. SUFFICES ASSUME NEW i \in 1 .. Len(s) PROVE s[i] \in ToSet(s \o t)
    BY <1>1 DEF ToSet
  <2>2. i \in 1 .. Len(s) + Len(t) /\ (s \o t)[i] = s[i]
    BY <1>1, <1>2
  <2> QED BY <1>2, <2>2 DEF ToSet
<1>5. ToSet(t) \subseteq ToSet(s \o t)
  <2>1. SUFFICES ASSUME NEW i \in 1 .. Len(t) PROVE t[i] \in ToSet(s \o t)
    BY <1>1 DEF ToSet
  <2>2. /\ Len(s) + i \in 1 .. Len(s) + Len(t) /\ ~ (Len(s) + i <= Len(s))
        /\ (Len(s) + i) - Len(s) = i
    BY <1>1
  <2>3. (s \o t)[Len(s) + i] = t[i]
    BY <1>2, <2>2
  <2> QED BY <1>2, <2>2, <2>3 DEF ToSet
<1> QED BY <1>3, <1>4, <1>5

Places == Here = (ToSet(Inside) \cup ToSet(Ahead)) \cup ToSet(pipe)

LEMMA HereIs == Types => Places
<1> SUFFICES ASSUME Types PROVE Places
  OBVIOUS
<1>1. /\ OnTheWay = Inside \o Ahead
      /\ Inside \in Seq(Bytes) /\ Ahead \in Seq(Bytes)
  BY InsideIs
<1>2. ToSet(Inside \o Ahead) = ToSet(Inside) \cup ToSet(Ahead)
  BY <1>1, ToSetJoined
<1> QED BY <1>1, <1>2 DEF Here, Places

LEMMA HereIsNext == Types' => Places'
BY HereIs, PTL

LEMMA SourceOf ==
  /\ \A s \in Seq(Of("window")) : \A n, k : Byte("stdin", n, k) \notin ToSet(s)
  /\ \A s \in Seq(Of("stdin")) : \A n, k : Byte("window", n, k) \notin ToSet(s)
<1>1. ASSUME NEW s \in Seq(Of("window")), NEW n, NEW k PROVE Byte("stdin", n, k) \notin ToSet(s)
  <2>1. \A i \in DOMAIN s : s[i] \in Of("window")
    BY ElementOfSeq, LenProperties
  <2>2. \A i \in DOMAIN s : s[i].src = "window"
    BY <2>1, OfIsBytes
  <2>3. Byte("stdin", n, k).src = "stdin"
    BY DEF Byte
  <2> QED BY <2>2, <2>3 DEF ToSet
<1>2. ASSUME NEW s \in Seq(Of("stdin")), NEW n, NEW k PROVE Byte("window", n, k) \notin ToSet(s)
  <2>1. \A i \in DOMAIN s : s[i] \in Of("stdin")
    BY ElementOfSeq, LenProperties
  <2>2. \A i \in DOMAIN s : s[i].src = "stdin"
    BY <2>1, OfIsBytes
  <2>3. Byte("window", n, k).src = "window"
    BY DEF Byte
  <2> QED BY <2>2, <2>3 DEF ToSet
<1> QED BY <1>1, <1>2

(* Two states with the same bytes of a source in them have lost the same.    *)
LEMMA SameKeys ==
  ASSUME typed' = typed, \A n, k : Byte("window", n, k) \in Here' <=> Byte("window", n, k) \in Here
  PROVE  LostKeys' = LostKeys
BY DEF LostKeys

LEMMA SameBytes ==
  ASSUME typed' = typed, \A n, k : Byte("stdin", n, k) \in Here' <=> Byte("stdin", n, k) \in Here
  PROVE  LostBytes' = LostBytes
BY DEF LostBytes

LEMMA ByteIs ==
  \A src, n, k, r, m, j : Byte(src, n, k) = Byte(r, m, j) => src = r /\ n = m /\ k = j
BY DEF Byte

LEMMA AppendSet ==
  ASSUME NEW s \in Seq(Bytes), NEW b \in Bytes
  PROVE  ToSet(Append(s, b)) = ToSet(s) \cup {b}
<1>1. Append(s, b) = s \o <<b>> /\ <<b>> \in Seq(Bytes)
  OBVIOUS
<1>2. ToSet(<<b>>) = {b}
  <2>1. DOMAIN <<b>> = {1} /\ <<b>>[1] = b
    OBVIOUS
  <2> QED BY <2>1 DEF ToSet
<1> QED BY <1>1, <1>2, ToSetJoined

LEMMA PressLoses ==
  ASSUME ConsoleInv, Press
  PROVE  LostKeys' = LostKeys /\ LostBytes' = LostBytes
<1> USE DEF ConsoleInv
<1> DEFINE n == typed.window + 1
           b == Byte("window", n, Window[n])
<1>1. /\ typed' = [typed EXCEPT !.window = n] /\ n \in Nat /\ n <= Len(Window)
      /\ events' = IF Window[n] \in Meanings THEN Append(events, b) ELSE events
      /\ UNCHANGED <<pipe, kbd, quit, buf, rx, guest>>
  <2>1. n \in Nat
    BY InsideIs
  <2> QED BY <2>1 DEF Press
<1>2. Window[n] \in Meanings => b \in Bytes
  BY <1>1 DEF Byte, Bytes
<1>3. typed'.window = n /\ typed'.stdin = typed.stdin /\ typed.window \in Nat /\ n = typed.window + 1
  BY <1>1 DEF Types
<1>4. b = Byte("window", n, Window[n])
  OBVIOUS
<1> HIDE DEF n, b
<1>5. Here' = Here \cup (IF Window[n] \in Meanings THEN {b} ELSE {})
  <2>1. OnTheWay' = ((taken \o rx) \o buf) \o kbd \o events'
    BY <1>1 DEF OnTheWay, guest
  <2>2. Here' = ToSet((Inside \o kbd) \o events') \cup ToSet(pipe)
    BY <1>1, <2>1 DEF Here, Inside
  <2>3. Here = ToSet((Inside \o kbd) \o events) \cup ToSet(pipe)
    BY DEF Here, OnTheWay, Inside
  <2>4. Inside \o kbd \in Seq(Bytes) /\ events \in Seq(Bytes)
    BY InsideIs, ConcatProperties
  <2>5. CASE Window[n] \in Meanings
    <3>1. events' = Append(events, b) /\ Append(events, b) \in Seq(Bytes)
      BY <1>1, <1>2, <2>4, <2>5
    <3>2. ToSet(events') = ToSet(events) \cup {b}
      BY <3>1, <1>2, <2>4, <2>5, AppendSet
    <3>3. /\ ToSet((Inside \o kbd) \o events') = ToSet(Inside \o kbd) \cup ToSet(events')
          /\ ToSet((Inside \o kbd) \o events) = ToSet(Inside \o kbd) \cup ToSet(events)
      BY <2>4, <3>1, ToSetJoined
    <3> QED BY <2>2, <2>3, <2>5, <3>2, <3>3
  <2>6. CASE Window[n] \notin Meanings
    BY <1>1, <2>2, <2>3, <2>6
  <2> QED BY <2>5, <2>6
<1>6. LostBytes' = LostBytes
  <2>1. \A m, k : Byte("stdin", m, k) # b
    BY <1>4, ByteIs
  <2>2. \A m, k : Byte("stdin", m, k) \in Here' <=> Byte("stdin", m, k) \in Here
    BY <1>5, <2>1
  <2> QED BY <1>3, <2>2 DEF LostBytes
<1>7. LostKeys' = LostKeys
  <2>1. \A m \in 1 .. typed.window : Byte("window", m, Window[m]) \in Here'
                                       <=> Byte("window", m, Window[m]) \in Here
    <3>1. SUFFICES ASSUME NEW m \in 1 .. typed.window PROVE Byte("window", m, Window[m]) # b
      BY <1>5
    <3>2. m # n
      BY <1>3
    <3> QED BY <1>4, <3>2, ByteIs
  <2>2. Window[n] \in Meanings => Byte("window", n, Window[n]) \in Here'
    BY <1>4, <1>5
  <2>3. 1 .. typed'.window = (1 .. typed.window) \cup {n}
    BY <1>3
  <2>4. \A m : m \in LostKeys' <=> m \in LostKeys
    BY <2>1, <2>2, <2>3 DEF LostKeys
  <2> QED BY <2>4 DEF LostKeys
<1> QED BY <1>6, <1>7

LEMMA ArriveLoses ==
  ASSUME ConsoleInv, Arrive
  PROVE  LostKeys' = LostKeys /\ LostBytes' = LostBytes
<1> USE DEF ConsoleInv
<1> DEFINE n == typed.stdin + 1
           b == Byte("stdin", n, Stdin[n])
<1>1. /\ typed' = [typed EXCEPT !.stdin = n] /\ n \in Nat /\ n <= Len(Stdin) /\ n > 0
      /\ pipe' = Append(pipe, b)
      /\ UNCHANGED <<events, kbd, quit, buf, rx, guest>>
  <2>1. n \in Nat /\ n > 0
    BY InsideIs
  <2> QED BY <2>1 DEF Arrive
<1>2. b \in Bytes
  <2>1. Stdin[n] \in Meanings
    BY <1>1, ConsoleAssumption, ElementOfSeq
  <2> QED BY <1>1, <2>1 DEF Byte, Bytes
<1>3. typed'.stdin = n /\ typed'.window = typed.window /\ typed.stdin \in Nat /\ n = typed.stdin + 1
  BY <1>1 DEF Types
<1>4. b = Byte("stdin", n, Stdin[n])
  OBVIOUS
<1> HIDE DEF n, b
<1>5. Here' = Here \cup {b}
  <2>1. OnTheWay' = OnTheWay
    BY <1>1 DEF OnTheWay, guest
  <2>2. ToSet(pipe') = ToSet(pipe) \cup {b}
    BY <1>1, <1>2, InsideIs, AppendSet
  <2> QED BY <2>1, <2>2 DEF Here
<1>6. LostKeys' = LostKeys
  <2>1. \A m, k : Byte("window", m, k) # b
    BY <1>4, ByteIs
  <2>2. \A m, k : Byte("window", m, k) \in Here' <=> Byte("window", m, k) \in Here
    BY <1>5, <2>1
  <2> QED BY <1>3, <2>2 DEF LostKeys
<1>7. LostBytes' = LostBytes
  <2>1. \A m \in 1 .. typed.stdin : Byte("stdin", m, Stdin[m]) \in Here'
                                       <=> Byte("stdin", m, Stdin[m]) \in Here
    <3>1. SUFFICES ASSUME NEW m \in 1 .. typed.stdin PROVE Byte("stdin", m, Stdin[m]) # b
      BY <1>5
    <3>2. m # n
      BY <1>3
    <3> QED BY <1>4, <3>2, ByteIs
  <2>2. Byte("stdin", n, Stdin[n]) \in Here'
    BY <1>4, <1>5
  <2>3. 1 .. typed'.stdin = (1 .. typed.stdin) \cup {n}
    BY <1>3
  <2>4. \A m : m \in LostBytes' <=> m \in LostBytes
    BY <2>1, <2>2, <2>3 DEF LostBytes
  <2> QED BY <2>4 DEF LostBytes
<1> QED BY <1>6, <1>7

LEMMA AllOfIt ==
  ASSUME NEW S, NEW s \in Seq(S), NEW n \in Nat, First(s, n) # s
  PROVE  n < Len(s) /\ Len(First(s, n)) = n
<1>1. Len(s) \in Nat /\ SubSeq(s, 1, Len(s)) = s
  BY LenProperties, SubSeqFull
<1>2. CASE n < Len(s)
  <2>1. Min2(n, Len(s)) = n
    BY <1>2 DEF Min2
  <2> QED BY <1>2, <2>1, FirstIs
<1>3. CASE ~ (n < Len(s))
  <2>1. Min2(n, Len(s)) = Len(s)
    BY <1>3 DEF Min2
  <2> QED BY <1>1, <2>1 DEF First
<1> QED BY <1>2, <1>3

LEMMA FbTickLoses ==
  ASSUME ConsoleInv, FbTick
  PROVE  /\ LostBytes' = LostBytes
         /\ LostKeys' # LostKeys => Full(buf', BufSize) \/ Full(Pumped, KbdSize)
<1> USE DEF ConsoleInv
<1> DEFINE f == First(Pumped, Room)
           z == SubSeq(Pumped, Room + 2, Len(Pumped))
<1>1. /\ Inside' = Inside \o f /\ Ahead' = z /\ buf' = buf \o f
      /\ pipe' = pipe /\ typed' = typed
  BY FbTickIs
<1>2. /\ f \in Seq(Of("window")) /\ f \in Seq(Bytes) /\ z \in Seq(Of("window"))
      /\ Pumped \in Seq(Bytes) /\ Len(Pumped) \in Nat
  BY PumpedIs
<1>3. Ahead \in Seq(Of("window"))
  BY ConcatProperties DEF Ahead, Types
<1>4. Types'
  BY FbTickStep
<1>5. /\ Here' = ((ToSet(Inside) \cup ToSet(f)) \cup ToSet(z)) \cup ToSet(pipe)
      /\ Here = (ToSet(Inside) \cup ToSet(Ahead)) \cup ToSet(pipe)
  <2>1. Here' = (ToSet(Inside') \cup ToSet(Ahead')) \cup ToSet(pipe')
    BY <1>4, HereIsNext DEF Places
  <2>2. ToSet(Inside \o f) = ToSet(Inside) \cup ToSet(f)
    BY <1>2, InsideIs, ToSetJoined
  <2> QED BY <1>1, <2>1, <2>2, HereIs DEF Places
<1> HIDE DEF f, z
<1>6. LostBytes' = LostBytes
  <2>1. \A n, k : Byte("stdin", n, k) \notin ToSet(f) /\ Byte("stdin", n, k) \notin ToSet(z)
                  /\ Byte("stdin", n, k) \notin ToSet(Ahead)
    BY <1>2, <1>3, SourceOf
  <2>2. \A n, k : Byte("stdin", n, k) \in Here' <=> Byte("stdin", n, k) \in Here
    BY <1>5, <2>1
  <2> QED BY <1>1, <2>2, SameBytes
<1>7. ASSUME ~ Full(buf', BufSize), ~ Full(Pumped, KbdSize) PROVE LostKeys' = LostKeys
  <2>1. PICK e \in Nat : e = KbdSize - 1 - Len(kbd)
    BY RoomIs
  <2>2. First(events, e) = events
    <3>1. SUFFICES ASSUME First(events, e) # events PROVE FALSE
      OBVIOUS
    <3>2. events \in Seq(Bytes) /\ kbd \in Seq(Bytes)
      BY InsideIs
    <3>3. Len(First(events, e)) = e /\ First(events, e) \in Seq(Bytes)
      BY <3>1, <3>2, AllOfIt, FirstIs
    <3>4. Len(Pumped) = Len(kbd) + e
      BY <2>1, <3>2, <3>3, ConcatProperties DEF Pumped
    <3>5. Len(Pumped) = KbdSize - 1
      BY <2>1, <3>4, RoomIs, NatFacts
    <3> QED BY <1>7, <3>5 DEF Full
  <2>3. Pumped = Ahead
    BY <2>1, <2>2 DEF Pumped, Ahead
  <2>4. Len(Pumped) <= Room /\ f = Pumped
    <3>1. Len(buf') = Len(buf) + Len(f) /\ Len(f) \in Nat
      BY <1>1, <1>2, ConcatProperties, LenProperties DEF Types
    <3>2. Len(f) # Room
      BY <1>7, <3>1, RoomIs, NatFacts DEF Full
    <3>3. f = Pumped
      BY <1>2, <3>2, RoomIs, AllOfIt DEF f
    <3>4. Len(f) <= Room
      BY PumpedIs DEF f
    <3> QED BY <3>3, <3>4
  <2>5. z = <<>>
    BY <1>2, <2>4, RoomIs, SubSeqEmpty DEF z
  <2>6. ToSet(<<>>) = {}
    BY DEF ToSet
  <2>7. Here' = Here
    BY <1>5, <2>3, <2>4, <2>5, <2>6
  <2> QED BY <1>1, <2>7, SameKeys
<1> QED BY <1>6, <1>7

LEMMA PollLoses ==
  ASSUME ConsoleInv, Poll
  PROVE  /\ LostKeys' = LostKeys
         /\ LostBytes' # LostBytes => Full(Slurped, BufSize)
<1> USE DEF ConsoleInv
<1>1. PICK n \in Nat, a \in 0 .. Len(pipe) :
            /\ a <= n /\ a <= Room /\ (a = n \/ a = Room)
            /\ Slurped \in Seq(Bytes) /\ Len(Slurped) = Len(buf) + a
            /\ SubSeq(pipe, 1, a) \in Seq(Of("stdin")) /\ SubSeq(pipe, 1, a) \in Seq(Bytes)
            /\ pipe' = SubSeq(pipe, n + 1, Len(pipe)) /\ pipe' \in Seq(Of("stdin"))
            /\ Inside' = Inside \o SubSeq(pipe, 1, a)
            /\ UNCHANGED <<events, escape, typed, kbd, quit, guest>>
  BY PollIs
<1> DEFINE x == SubSeq(pipe, 1, a)
           y == SubSeq(pipe, n + 1, Len(pipe))
<1>2. x \in Seq(Bytes) /\ x \in Seq(Of("stdin")) /\ y \in Seq(Of("stdin"))
      /\ pipe \in Seq(Of("stdin"))
  BY <1>1 DEF Types
<1>3. Types'
  BY PollStep
<1>4. /\ Here' = ((ToSet(Inside) \cup ToSet(x)) \cup ToSet(Ahead)) \cup ToSet(y)
      /\ Here = (ToSet(Inside) \cup ToSet(Ahead)) \cup ToSet(pipe)
  <2>1. Here' = (ToSet(Inside') \cup ToSet(Ahead')) \cup ToSet(pipe')
    BY <1>3, HereIsNext DEF Places
  <2>2. ToSet(Inside \o x) = ToSet(Inside) \cup ToSet(x)
    BY <1>2, InsideIs, ToSetJoined
  <2>3. Ahead' = Ahead
    BY <1>1 DEF Ahead
  <2> QED BY <1>1, <2>1, <2>2, <2>3, HereIs DEF Places
<1> HIDE DEF x, y
<1>5. LostKeys' = LostKeys
  <2>1. \A m, k : Byte("window", m, k) \notin ToSet(x) /\ Byte("window", m, k) \notin ToSet(y)
                  /\ Byte("window", m, k) \notin ToSet(pipe)
    BY <1>2, SourceOf
  <2>2. \A m, k : Byte("window", m, k) \in Here' <=> Byte("window", m, k) \in Here
    BY <1>4, <2>1
  <2> QED BY <1>1, <2>2, SameKeys
<1>6. ASSUME ~ Full(Slurped, BufSize) PROVE LostBytes' = LostBytes
  <2>1. a = n
    <3>1. a # Room
      BY <1>1, <1>6, RoomIs, NatFacts DEF Full
    <3> QED BY <1>1, <3>1
  <2>2. x \o y = pipe
    <3>1. PICK l \in Nat : l = Len(pipe) /\ a \in 0 .. l
      BY RoomIs
    <3>2. 1 \in 1 .. Len(pipe) + 1 /\ a \in 1 - 1 .. Len(pipe) /\ Len(pipe) \in a .. Len(pipe)
      BY <3>1
    <3>3. SubSeq(pipe, 1, a) \o SubSeq(pipe, a + 1, Len(pipe)) = SubSeq(pipe, 1, Len(pipe))
      BY <1>2, <3>2, ConcatAdjacentSubSeq
    <3>4. SubSeq(pipe, 1, Len(pipe)) = pipe
      BY <1>2, SubSeqFull
    <3> QED BY <2>1, <3>3, <3>4 DEF x, y
  <2>3. y \in Seq(Bytes)
    BY <1>2, OfIsBytes, Larger
  <2>4. ToSet(pipe) = ToSet(x) \cup ToSet(y)
    BY <1>2, <2>2, <2>3, ToSetJoined
  <2>5. Here' = Here
    BY <1>4, <2>4
  <2> QED BY <1>1, <2>5, SameBytes
<1> QED BY <1>5, <1>6

LEMMA GuestLoses ==
  ASSUME ConsoleInv, Guest
  PROVE  LostKeys' = LostKeys /\ LostBytes' = LostBytes
<1> USE DEF ConsoleInv
<1>1. UNCHANGED host /\ taken' \o rx' = taken \o rx
  <2>1. CASE Boot
    BY <2>1 DEF Boot
  <2>2. ASSUME NEW c \in Calls, Call(c) PROVE UNCHANGED host /\ taken' \o rx' = taken \o rx
    BY <2>2 DEF Call
  <2>3. CASE Look
    BY <2>3 DEF Look
  <2>4. CASE Take
    <3>1. rx # <<>>
      BY <2>4 DEF Take, Ready
    <3>2. rx' = Tail(rx) /\ taken' = Append(taken, Head(rx)) /\ UNCHANGED host
      BY <2>4, <3>1 DEF Take, RxPopped, RxHead, RxReady
    <3> QED BY <3>1, <3>2, HandOver DEF Types
  <2> QED BY <2>1, <2>2, <2>3, <2>4 DEF Guest
<1>2. Here' = Here /\ typed' = typed
  BY <1>1 DEF Here, OnTheWay, host
<1> QED BY <1>2, SameKeys, SameBytes

(* What is typed is lost only where a queue is full: a key in the keyboard's *)
(* FIFO or on its way out of it, a byte of stdin in the main loop's buffer   *)
(* (kbd_push, main); the DUART is never handed a byte it has no room for     *)
(* (duart_feed_input).                                                      *)
THEOREM LossOnlyWhenFull == Spec => LostOnlyWhenFull
<1> DEFINE Lost == /\ LostKeys' # LostKeys => Full(buf', BufSize) \/ Full(Pumped, KbdSize)
                   /\ LostBytes' # LostBytes => Full(Slurped, BufSize)
<1>1. ConsoleInv /\ [Next]_vars => [Lost]_vars
  <2>1. SUFFICES ASSUME ConsoleInv, Next PROVE Lost
    OBVIOUS
  <2> QED BY <2>1, PressLoses, ArriveLoses, FbTickLoses, PollLoses, GuestLoses DEF Next, Host
<1>2. Spec => []ConsoleInv
  BY InitInv, ConsoleNext, PTL DEF Spec
<1> QED BY <1>1, <1>2, PTL DEF Spec, LostOnlyWhenFull

=============================================================================
