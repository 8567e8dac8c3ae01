----------------------------- MODULE FcbProofs -----------------------------
(***************************************************************************)
(* Theorems about file control blocks and handles, for any number of        *)
(* blocks, handles, names, generations, and records in a cluster or an      *)
(* extent.                                                                  *)
(***************************************************************************)
EXTENDS Fcb, TLAPS, FiniteSetTheorems, SequenceTheorems, WellFoundedInduction

\* What records hold.
Rec == Data \cup UNION {Range(Files[n]) : n \in DOMAIN Files}

BlockType  == [name: Names \cup {None}, magic: BOOLEAN, idx: Nat, gen: Nat, rec: Nat,
               serial: Nat, made: BOOLEAN, inSeq: BOOLEAN, read: Nat]
HandleType == [used: BOOLEAN, gen: Nat, slot: Slots \cup {NoSlot}, chain: Chains \cup {0},
               size: Nat, serial: Nat]
EntryType  == [name: Names \cup {None}, chain: Chains \cup {0}, size: Nat]

TypeOK ==
    /\ dir \in [Slots -> EntryType]
    /\ chain \in [Chains -> Seq(Rec)]
    /\ handle \in [Handles -> HandleType]
    /\ gen \in Nat /\ opens \in Nat
    /\ fcb \in [Blocks -> BlockType]
    /\ \A f \in Blocks : fcb[f].magic => fcb[f].idx \in Handles /\ fcb[f].name \in Names

\* Opens are counted, and the generation of each is its number modulo Gens.
Generations ==
    /\ gen = (opens % Gens) + 1
    /\ \A f \in Blocks : fcb[f].magic =>
          /\ fcb[f].serial \in 1 .. opens
          /\ fcb[f].gen = ((fcb[f].serial - 1) % Gens) + 1
    /\ \A h \in Handles : handle[h].used =>
          /\ handle[h].serial \in 1 .. opens
          /\ handle[h].gen = ((handle[h].serial - 1) % Gens) + 1

\* A handle is never of an earlier open than a block that names it.
NotOlder ==
    \A f \in Blocks : fcb[f].magic /\ HandleOf(f).used => fcb[f].serial <= HandleOf(f).serial

\* Blocks of one open are copies of one block.
Copies ==
    \A f, g \in Blocks :
       fcb[f].magic /\ fcb[g].magic /\ fcb[f].serial = fcb[g].serial =>
          fcb[f].name = fcb[g].name /\ fcb[f].made = fcb[g].made /\ fcb[f].idx = fcb[g].idx

GenInv == TypeOK /\ Generations /\ NotOlder /\ Copies

\* The entries: a name and a chain are in one of them, and the chain is as long
\* as the entry says.
OneEntry == \A s, t \in Slots : dir[s].name # None /\ dir[s].name = dir[t].name => s = t
OneChain == \A s, t \in Slots : dir[s].chain # 0 /\ dir[s].chain = dir[t].chain => s = t
WholeChain ==
    \A s \in Slots : /\ dir[s].name = None => dir[s].chain = 0
                     /\ dir[s].chain = 0 => dir[s].size = 0
                     /\ dir[s].chain # 0 => Len(chain[dir[s].chain]) = dir[s].size

\* The handle a block gets is of a file that is there; that of a file made is
\* its entry as it stands.
Entry(f, s) ==
    /\ dir[s].name = fcb[f].name
    /\ HandleOf(f).chain # 0 => HandleOf(f).chain = dir[s].chain
    /\ HandleOf(f).chain = 0 => HandleOf(f).size = 0
    /\ HandleOf(f).size <= dir[s].size
    /\ fcb[f].made => /\ HandleOf(f).slot = s
                      /\ HandleOf(f).chain = dir[s].chain /\ HandleOf(f).size = dir[s].size
HasEntry == \A f \in Blocks : Resolves(f) => \E s \in Slots : Entry(f, s)
MadeOnce ==
    \A f, g \in Blocks :
       Resolves(f) /\ Resolves(g) /\ fcb[f].made /\ fcb[g].made /\ fcb[f].name = fcb[g].name =>
          fcb[f].idx = fcb[g].idx

\* A block read in sequence is at the record that comes next.
InStep ==
    \A f \in Blocks :
       Resolves(f) /\ fcb[f].inSeq /\ (fcb[f].made \/ HandleOf(f).size < ExtentRecs) =>
          fcb[f].rec = fcb[f].read

Linked == OneEntry /\ OneChain /\ WholeChain /\ HasEntry /\ MadeOnce /\ InStep

\* While the generations have not all been given out.
Young == opens <= Gens
IInv  == GenInv /\ (Young => Linked)
-----------------------------------------------------------------------------
LEMMA Params ==
    /\ Gens \in Nat /\ Gens > 0 /\ ClusterRecs \in Nat /\ ClusterRecs > 0
    /\ ExtentRecs \in Nat /\ ExtentRecs > 0
    /\ Handles \subseteq Nat \ {0} /\ Chains \subseteq Nat \ {0} /\ Slots \subseteq Nat \ {0}
    /\ NoSlot \notin Slots /\ 0 \notin Chains /\ None \notin Names
<1>1. Cardinality(Handles) \in Nat /\ Cardinality(Chains) \in Nat /\ Cardinality(Slots) \in Nat
  BY FcbAssumption, FS_CardinalityType
<1>2. \A k \in Nat : 1 .. k \subseteq Nat \ {0}
  OBVIOUS
<1>3. /\ Handles = 1 .. Cardinality(Handles)
      /\ Chains = 1 .. Cardinality(Chains) /\ Slots = 1 .. Cardinality(Slots)
  BY FcbAssumption
<1>4. Handles \subseteq Nat \ {0} /\ Chains \subseteq Nat \ {0} /\ Slots \subseteq Nat \ {0}
  <2> DEFINE n == Cardinality(Handles)
             c == Cardinality(Chains)
             k == Cardinality(Slots)
  <2>1. 1 .. n \subseteq Nat \ {0} /\ 1 .. c \subseteq Nat \ {0} /\ 1 .. k \subseteq Nat \ {0}
    BY <1>1, <1>2
  <2> QED BY <2>1, <1>3
<1>5. /\ Gens \in Nat /\ Gens > 0 /\ ClusterRecs \in Nat /\ ClusterRecs > 0
      /\ ExtentRecs \in Nat /\ ExtentRecs > 0 /\ None \notin Names
  <2>1. /\ Gens \in Nat \ {0} /\ ClusterRecs \in Nat \ {0} /\ ExtentRecs \in Nat \ {0}
        /\ "none" \notin Names
    BY FcbAssumption
  <2> QED BY <2>1 DEF None
<1>6. NoSlot \notin Slots /\ 0 \notin Chains
  BY <1>4 DEF NoSlot
<1> QED BY <1>4, <1>5, <1>6

\* A non-empty set of numbers has a least one, and Min is it.
LEMMA LeastElement ==
  ASSUME NEW S \in SUBSET Nat, S # {}
  PROVE  \E m \in S : \A k \in S : m <= k
<1> DEFINE Below(m) == {k \in S : k < m}
           T == {Below(m) : m \in S}
<1>1. \A m \in S : Below(m) \in SUBSET Nat /\ IsFiniteSet(Below(m))
  <2>1. SUFFICES ASSUME NEW m \in S PROVE IsFiniteSet(Below(m))
    OBVIOUS
  <2>2. \A s \in Below(m) : s <= m
    OBVIOUS
  <2>3. Below(m) \in SUBSET Nat /\ m \in Nat
    OBVIOUS
  <2> HIDE DEF Below
  <2>4. QED BY <2>2, <2>3, FS_BoundedSetOfNaturals
<1>2. T \subseteq FiniteSubsetsOf(Nat) /\ T # {}
  BY <1>1 DEF FiniteSubsetsOf
<1>3. \E x \in T : \A y \in T : ~ (<<y, x>> \in StrictSubsetOrdering(Nat))
  <2> HIDE DEF T
  <2> QED BY <1>2, FS_StrictSubsetOrderingWellFounded, WFMin
<1>4. PICK m \in S : \A k \in S : ~ (<<Below(k), Below(m)>> \in StrictSubsetOrdering(Nat))
  BY <1>3
<1>5. ASSUME NEW k \in S, k < m PROVE FALSE
  <2>1. Below(k) \subseteq Below(m)
    <3>1. \A j \in S : j < k => j < m
      BY <1>5
    <3> QED BY <3>1
  <2>2. k \in Below(m) /\ k \notin Below(k)
    BY <1>5
  <2>3. Below(k) \in SUBSET Nat /\ Below(m) \in SUBSET Nat
    OBVIOUS
  <2> HIDE DEF Below
  <2> QED BY <2>1, <2>2, <2>3, <1>4, <1>5 DEF StrictSubsetOrdering
<1>6. QED BY <1>5

LEMMA MinOf ==
    ASSUME NEW S \in SUBSET Nat, S # {}
    PROVE  Min(S) \in S
BY LeastElement DEF Min

LEMMA NewIdxIsFree == ~IsFull => NewIdx \in Handles /\ ~handle[NewIdx].used
<1> DEFINE S == {h \in Handles : ~handle[h].used}
<1>1. S \in SUBSET Nat
  BY Params
<1>2. ~IsFull => S # {}
  BY DEF IsFull
<1> HIDE DEF S
<1>3. ~IsFull => Min(S) \in S
  BY <1>1, <1>2, MinOf
<1> QED BY <1>3 DEF NewIdx, S

LEMMA SlotOfName ==
    ASSUME NEW n
    PROVE  /\ SlotOf(n) = NoSlot => \A s \in Slots : dir[s].name # n
           /\ SlotOf(n) # NoSlot => SlotOf(n) \in Slots /\ dir[SlotOf(n)].name = n
<1> DEFINE S == {i \in Slots : dir[i].name = n}
<1>1. S \in SUBSET Nat /\ NoSlot \notin S
  BY Params
<1>2. S # {} => Min(S) \in S
  <2> HIDE DEF S
  <2> QED BY <1>1, MinOf
<1>3. SlotOf(n) = IF S = {} THEN NoSlot ELSE Min(S)
  BY DEF SlotOf
<1> QED BY <1>1, <1>2, <1>3

(***************************************************************************)
(* Counting modulo Gens.                                                    *)
(***************************************************************************)
LEMMA Remainder ==
    ASSUME NEW N \in Nat \ {0}, NEW q \in Int, NEW m \in 0 .. N - 1
    PROVE  (N * q + m) % N = m
<1> DEFINE x == N * q + m
           p == x \div N
           k == x % N
<1>1. x \in Int /\ p \in Int /\ k \in 0 .. N - 1 /\ x = N * p + k
  OBVIOUS
<1>2. N * (q - p) = k - m
  BY <1>1
<1> HIDE DEF x, p, k
<1>3. q - p \in Int /\ (q - p >= 1 => N * (q - p) >= N) /\ (q - p <= -1 => N * (q - p) <= -N)
  BY <1>1
<1>4. k - m < N /\ k - m > -N
  BY <1>1
<1>5. q - p = 0
  BY <1>2, <1>3, <1>4
<1>6. k = m
  BY <1>1, <1>2, <1>5
<1> QED BY <1>6 DEF x, k

LEMMA NextRemainder ==
    ASSUME NEW N \in Nat \ {0}, NEW a \in Nat
    PROVE  ((a % N) + 1) % N = (a + 1) % N
<1> DEFINE q == a \div N
           k == a % N
<1>1. q \in Int /\ k \in 0 .. N - 1 /\ a = N * q + k
  OBVIOUS
<1> HIDE DEF q, k
<1>2. CASE k + 1 < N
  <2>1. a + 1 = N * q + (k + 1) /\ k + 1 = N * 0 + (k + 1) /\ k + 1 \in 0 .. N - 1
    BY <1>1, <1>2
  <2>2. (a + 1) % N = k + 1 /\ (k + 1) % N = k + 1
    BY <2>1, <1>1, Remainder
  <2> QED BY <2>2 DEF k
<1>3. CASE k + 1 = N
  <2>1. a + 1 = N * (q + 1) + 0 /\ k + 1 = N * 1 + 0 /\ 0 \in 0 .. N - 1 /\ q + 1 \in Int
    BY <1>1, <1>3
  <2>2. (a + 1) % N = 0 /\ (k + 1) % N = 0
    BY <2>1, <1>1, Remainder
  <2> QED BY <2>2 DEF k
<1> QED BY <1>1, <1>2, <1>3

LEMMA SameRemainder ==
    ASSUME NEW N \in Nat \ {0}, NEW a \in Nat, NEW b \in Nat, a % N = b % N, b < a
    PROVE  a - b >= N
<1> DEFINE q == a \div N
           r == b \div N
<1>1. a = N * q + (a % N) /\ b = N * r + (b % N) /\ q \in Int /\ r \in Int
  OBVIOUS
<1>2. a - b = N * (q - r) /\ q - r \in Int
  BY <1>1
<1> HIDE DEF q, r
<1>3. q - r >= 1
  BY <1>2
<1> QED BY <1>2, <1>3

LEMMA GenCounts ==
    ASSUME opens \in Nat, gen = (opens % Gens) + 1
    PROVE  NextGen(gen) = ((opens + 1) % Gens) + 1
<1>1. Gens \in Nat \ {0}
  BY Params
<1>2. ((opens % Gens) + 1) % Gens = (opens + 1) % Gens
  BY <1>1, NextRemainder
<1> QED BY <1>2 DEF NextGen
-----------------------------------------------------------------------------
\* A block that gets through resolve_fcb gets a handle of its own open, unless
\* Gens opens lie between.
LEMMA OwnOpen ==
    ASSUME GenInv, NEW f \in Blocks, Resolves(f)
    PROVE  \/ HandleOf(f).serial = fcb[f].serial
           \/ /\ HandleOf(f).serial - fcb[f].serial >= Gens
              /\ HandleOf(f).serial <= opens /\ fcb[f].serial >= 1
<1> DEFINE h == handle[fcb[f].idx]
<1>1. fcb[f].magic /\ h.used /\ h.gen = fcb[f].gen /\ fcb[f].idx \in Handles
  BY DEF Resolves, GenInv, TypeOK
<1>2. fcb[f].serial \in 1 .. opens /\ h.serial \in 1 .. opens /\ opens \in Nat
  BY <1>1 DEF GenInv, Generations, TypeOK
<1>3. fcb[f].gen = ((fcb[f].serial - 1) % Gens) + 1 /\ h.gen = ((h.serial - 1) % Gens) + 1
  BY <1>1 DEF GenInv, Generations
<1>4. fcb[f].serial <= h.serial
  BY <1>1 DEF GenInv, NotOlder, HandleOf
<1> DEFINE a == h.serial - 1
           b == fcb[f].serial - 1
<1>5. a \in Nat /\ b \in Nat /\ b <= a /\ a - b = h.serial - fcb[f].serial
  BY <1>2, <1>4
<1>6. a % Gens = b % Gens
  <2>1. a % Gens \in Int /\ b % Gens \in Int
    BY <1>5, Params
  <2> QED BY <2>1, <1>1, <1>3
<1> HIDE DEF a, b
<1>7. a = b \/ a - b >= Gens
  <2>1. Gens \in Nat \ {0}
    BY Params
  <2>2. b < a => a - b >= Gens
    BY <1>5, <1>6, <2>1, SameRemainder
  <2> QED BY <1>5, <2>2
<1> QED BY <1>2, <1>5, <1>7 DEF HandleOf, a, b

LEMMA InvReaches == GenInv => Reaches
BY OwnOpen DEF Reaches

LEMMA Current ==
    ASSUME GenInv, Young, NEW f \in Blocks, Resolves(f)
    PROVE  HandleOf(f).serial = fcb[f].serial
<1>1. fcb[f].serial \in Nat /\ opens \in Nat /\ Gens \in Nat
  BY Params DEF GenInv, TypeOK, BlockType
<1>2. HandleOf(f).serial \in Nat
  BY DEF GenInv, TypeOK, HandleType, HandleOf, Resolves
<1> QED BY <1>1, <1>2, OwnOpen DEF Young
-----------------------------------------------------------------------------
(***************************************************************************)
(* The types and the generations, step by step.                            *)
(***************************************************************************)
FilesOK == dir \in [Slots -> EntryType] /\ chain \in [Chains -> Seq(Rec)]
BlocksOK ==
    /\ handle \in [Handles -> HandleType] /\ gen \in Nat /\ opens \in Nat
    /\ fcb \in [Blocks -> BlockType]
    /\ \A f \in Blocks : fcb[f].magic => fcb[f].idx \in Handles /\ fcb[f].name \in Names

LEMMA Types == (FilesOK /\ BlocksOK)' => TypeOK'
BY DEF TypeOK, FilesOK, BlocksOK

\* What alloc_handle and stash_handle do together.
LEMMA OpenedInv ==
    ASSUME GenInv, NEW f \in Blocks, NEW n \in Names, NEW h \in Handles, NEW rec \in Nat,
           NEW made \in BOOLEAN, NEW file \in HandleType, ~handle[h].used,
           file.used, file.gen = gen, file.serial = opens + 1,
           Taken(h, file), Stash(f, n, h, rec, made)
    PROVE  BlocksOK' /\ Generations' /\ NotOlder' /\ Copies'
<1> DEFINE b == [name |-> n, magic |-> TRUE, idx |-> h, gen |-> gen, rec |-> rec,
                 serial |-> opens + 1, made |-> made, inSeq |-> TRUE, read |-> 0]
<1>1. gen \in Nat /\ opens \in Nat /\ opens + 1 \in Nat /\ h \in Nat
  BY Params DEF GenInv, TypeOK
<1>2. b \in BlockType
  BY <1>1 DEF BlockType
<1>3. /\ b.name = n /\ b.magic /\ b.idx = h /\ b.gen = gen /\ b.serial = opens + 1
      /\ b.made = made
  OBVIOUS
<1>4. fcb' = [fcb EXCEPT ![f] = b]
  BY DEF Stash
<1> HIDE DEF b
<1>5. handle' = [handle EXCEPT ![h] = file] /\ gen' = NextGen(gen) /\ opens' = opens + 1
  BY DEF Taken
<1>6. /\ handle \in [Handles -> HandleType] /\ fcb \in [Blocks -> BlockType]
      /\ \A g \in Blocks : fcb[g].magic => fcb[g].idx \in Handles /\ fcb[g].name \in Names
  BY DEF GenInv, TypeOK
<1>7. /\ fcb'[f] = b /\ \A g \in Blocks \ {f} : fcb'[g] = fcb[g]
      /\ handle'[h] = file /\ \A k \in Handles \ {h} : handle'[k] = handle[k]
  BY <1>4, <1>5, <1>6
<1>8. gen = (opens % Gens) + 1 /\ gen' = ((opens + 1) % Gens) + 1
  BY <1>1, <1>5, GenCounts DEF GenInv, Generations
<1>9. gen' \in Nat
  BY <1>1, <1>8, Params
<1>10. BlocksOK'
  <2>1. handle' \in [Handles -> HandleType] /\ fcb' \in [Blocks -> BlockType]
    BY <1>2, <1>4, <1>5, <1>6
  <2> QED BY <2>1, <1>1, <1>3, <1>5, <1>6, <1>7, <1>9 DEF BlocksOK
<1>11. \A g \in Blocks \ {f} : fcb'[g].magic =>
          /\ fcb[g].serial \in 1 .. opens /\ fcb[g].gen = ((fcb[g].serial - 1) % Gens) + 1
          /\ fcb'[g] = fcb[g] /\ fcb[g].magic /\ fcb[g].idx \in Handles
  BY <1>6, <1>7 DEF GenInv, Generations
<1>12. \A k \in Handles \ {h} : handle'[k].used =>
          /\ handle[k].serial \in 1 .. opens
          /\ handle[k].gen = ((handle[k].serial - 1) % Gens) + 1
          /\ handle'[k] = handle[k] /\ handle[k].used
  BY <1>6, <1>7 DEF GenInv, Generations
<1>13. (opens + 1) - 1 = opens /\ opens + 1 \in 1 .. opens + 1 /\ 1 .. opens \subseteq 1 .. opens + 1
  BY <1>1
<1>14. Generations'
  <2>1. \A g \in Blocks : fcb'[g].magic =>
           fcb'[g].serial \in 1 .. opens + 1 /\ fcb'[g].gen = ((fcb'[g].serial - 1) % Gens) + 1
    BY <1>3, <1>7, <1>8, <1>11, <1>13
  <2>2. \A k \in Handles : handle'[k].used =>
           handle'[k].serial \in 1 .. opens + 1
           /\ handle'[k].gen = ((handle'[k].serial - 1) % Gens) + 1
    BY <1>7, <1>8, <1>12, <1>13
  <2> QED BY <2>1, <2>2, <1>5, <1>8 DEF Generations
<1>15. NotOlder'
  <2>1. \A g \in Blocks \ {f} : fcb'[g].magic /\ handle'[fcb'[g].idx].used =>
           fcb'[g].serial <= handle'[fcb'[g].idx].serial
    <3>1. SUFFICES ASSUME NEW g \in Blocks \ {f}, fcb'[g].magic, handle'[fcb'[g].idx].used
                   PROVE  fcb'[g].serial <= handle'[fcb'[g].idx].serial
      OBVIOUS
    <3>2. CASE fcb[g].idx = h
      BY <1>1, <1>7, <1>11, <3>1, <3>2
    <3>3. CASE fcb[g].idx # h
      BY <1>7, <1>11, <3>1, <3>3 DEF GenInv, NotOlder, HandleOf
    <3> QED BY <3>2, <3>3
  <2>2. fcb'[f].serial <= handle'[fcb'[f].idx].serial
    BY <1>1, <1>3, <1>7
  <2> QED BY <2>1, <2>2 DEF NotOlder, HandleOf
<1>16. Copies'
  <2>1. \A g \in Blocks \ {f} : fcb'[g].magic => fcb'[g].serial # opens + 1
    BY <1>1, <1>11
  <2> QED BY <2>1, <1>3, <1>7 DEF GenInv, Copies
<1> QED BY <1>10, <1>14, <1>15, <1>16

\* A call that took a handle and then failed has only used up a generation.
LEMMA FailedInv ==
    ASSUME GenInv, NEW h \in Handles, Taken(h, handle[h]), fcb' = fcb
    PROVE  BlocksOK' /\ Generations' /\ NotOlder' /\ Copies'
<1>1. handle' = handle /\ opens' = opens + 1 /\ opens \in Nat
  BY DEF Taken, GenInv, TypeOK
<1>2. gen = (opens % Gens) + 1 /\ gen' = ((opens + 1) % Gens) + 1
  BY <1>1, GenCounts DEF GenInv, Generations, Taken
<1>3. gen' \in Nat
  BY <1>1, <1>2, Params
<1>4. 1 .. opens \subseteq 1 .. opens + 1
  BY <1>1
<1>5. BlocksOK'
  BY <1>1, <1>3 DEF GenInv, TypeOK, BlocksOK
<1>6. Generations'
  BY <1>1, <1>2, <1>4 DEF GenInv, Generations
<1>7. NotOlder' /\ Copies'
  BY <1>1 DEF GenInv, NotOlder, Copies, HandleOf
<1> QED BY <1>5, <1>6, <1>7

\* A block g that says what block f says of its open.
Like(g, f) ==
    /\ g.magic /\ f.magic /\ g.name = f.name /\ g.idx = f.idx /\ g.gen = f.gen
    /\ g.serial = f.serial /\ g.made = f.made

\* Every other call: no handle is given out, and a block that was not there
\* before is a copy.
LEMMA KeptInv ==
    ASSUME GenInv, BlocksOK', gen' = gen, opens' = opens,
           \A g \in Blocks : fcb'[g].magic => \E f \in Blocks : Like(fcb'[g], fcb[f]),
           \A h \in Handles : handle'[h].used =>
              handle[h].used /\ handle'[h].gen = handle[h].gen /\ handle'[h].serial = handle[h].serial
    PROVE  Generations' /\ NotOlder' /\ Copies'
<1>1. Generations'
  BY DEF GenInv, Generations, Like
<1>2. NotOlder'
  BY DEF GenInv, TypeOK, BlocksOK, NotOlder, HandleOf, Like
<1>3. Copies'
  BY DEF GenInv, Copies, Like
<1> QED BY <1>1, <1>2, <1>3
-----------------------------------------------------------------------------
LEMMA HandleTypes ==
    ASSUME TypeOK, NEW f \in Blocks, Resolves(f)
    PROVE  /\ fcb[f].magic /\ fcb[f].idx \in Handles /\ fcb[f].name \in Names
           /\ HandleOf(f) = handle[fcb[f].idx] /\ HandleOf(f) \in HandleType /\ HandleOf(f).used
           /\ fcb[f] \in BlockType
BY DEF TypeOK, Resolves, HandleOf

LEMMA ExtentIsRecord == ASSUME NEW n \in Nat PROVE OpenExtent(n) \in Nat
<1>1. n \div ExtentRecs \in Nat
  BY Params
<1> QED BY <1>1, Params DEF OpenExtent

LEMMA GenOpen ==
    ASSUME GenInv, NEW f \in Blocks, NEW n \in Names, Open(f, n)
    PROVE  GenInv'
<1> DEFINE h == NewIdx
           s == SlotOf(n)
           file == [used |-> TRUE, gen |-> gen, slot |-> handle[h].slot, chain |-> dir[s].chain,
                    size |-> dir[s].size, serial |-> opens + 1]
<1>1. h \in Handles /\ ~handle[h].used
  BY NewIdxIsFree DEF Open
<1>2. FilesOK'
  BY DEF Open, FilesOK, GenInv, TypeOK
<1>3. CASE s = NoSlot
  <2>1. Taken(h, handle[h]) /\ fcb' = fcb
    BY <1>3 DEF Open
  <2> QED BY <1>1, <1>2, <2>1, FailedInv, Types DEF GenInv
<1>4. CASE s # NoSlot
  <2>1. s \in Slots
    BY <1>4, SlotOfName
  <2>2. file \in HandleType /\ dir[s].size \in Nat
    BY <1>1, <2>1 DEF GenInv, TypeOK, HandleType, EntryType
  <2>3. OpenExtent(dir[s].size) \in Nat
    BY <2>2, ExtentIsRecord
  <2>4. file.used /\ file.gen = gen /\ file.serial = opens + 1
    OBVIOUS
  <2>5. Taken(h, file) /\ Stash(f, n, h, OpenExtent(dir[s].size), FALSE)
    BY <1>4 DEF Open
  <2> HIDE DEF file, s, h
  <2>6. BlocksOK' /\ Generations' /\ NotOlder' /\ Copies'
    BY <1>1, <2>2, <2>3, <2>4, <2>5, OpenedInv
  <2> QED BY <1>2, <2>6, Types DEF GenInv
<1> QED BY <1>3, <1>4

\* Where fat_fcreate puts a file: in its entry or in a free one.
MakeSlot(n) ==
    LET free == {s \in Slots : dir[s].name = None}
    IN  IF SlotOf(n) # NoSlot THEN SlotOf(n) ELSE IF free = {} THEN NoSlot ELSE Min(free)

LEMMA MakeSlotIs ==
    ASSUME NEW n
    PROVE  MakeSlot(n) # NoSlot =>
              /\ MakeSlot(n) \in Slots /\ dir[MakeSlot(n)].name \in {n, None}
              /\ dir[MakeSlot(n)].name = None => \A s \in Slots : dir[s].name # n \/ n = None
<1> DEFINE free == {s \in Slots : dir[s].name = None}
<1>1. free \in SUBSET Nat
  BY Params
<1>2. free # {} => Min(free) \in free
  <2> HIDE DEF free
  <2> QED BY <1>1, MinOf
<1> QED BY <1>2, SlotOfName DEF MakeSlot

\* Make, its cases apart.
LEMMA MakeIs ==
    ASSUME NEW f \in Blocks, NEW n \in Names, Make(f, n)
    PROVE  /\ ~IsFull /\ ~IsOpen(n)
           /\ MakeSlot(n) = NoSlot =>
                 Taken(NewIdx, handle[NewIdx]) /\ UNCHANGED <<fcb, dir, chain>>
           /\ MakeSlot(n) # NoSlot =>
                 /\ Taken(NewIdx, [used |-> TRUE, gen |-> gen, slot |-> MakeSlot(n), chain |-> 0,
                                   size |-> 0, serial |-> opens + 1])
                 /\ dir' = [dir EXCEPT ![MakeSlot(n)] = [name |-> n, chain |-> 0, size |-> 0]]
                 /\ chain' = Freed(dir[MakeSlot(n)].chain)
                 /\ Stash(f, n, NewIdx, 0, TRUE)
<1>1. [NoEntry EXCEPT !.name = n] = [name |-> n, chain |-> 0, size |-> 0]
  BY DEF NoEntry
<1> QED BY <1>1 DEF Make, MakeSlot

LEMMA FreedType ==
    ASSUME chain \in [Chains -> Seq(Rec)], NEW c
    PROVE  Freed(c) \in [Chains -> Seq(Rec)]
BY DEF Freed

LEMMA GenMake ==
    ASSUME GenInv, NEW f \in Blocks, NEW n \in Names, Make(f, n)
    PROVE  GenInv'
<1> DEFINE h == NewIdx
           s == MakeSlot(n)
           file == [used |-> TRUE, gen |-> gen, slot |-> s, chain |-> 0, size |-> 0,
                    serial |-> opens + 1]
<1>1. h \in Handles /\ ~handle[h].used
  BY NewIdxIsFree, MakeIs
<1>2. CASE s = NoSlot
  <2>1. Taken(h, handle[h]) /\ fcb' = fcb /\ dir' = dir /\ chain' = chain
    BY <1>2, MakeIs
  <2>2. FilesOK'
    BY <2>1 DEF FilesOK, GenInv, TypeOK
  <2> QED BY <1>1, <2>1, <2>2, FailedInv, Types DEF GenInv
<1>3. CASE s # NoSlot
  <2>1. s \in Slots
    BY <1>3, MakeSlotIs
  <2>2. /\ Taken(h, file) /\ Stash(f, n, h, 0, TRUE)
        /\ dir' = [dir EXCEPT ![s] = [name |-> n, chain |-> 0, size |-> 0]]
        /\ chain' = Freed(dir[s].chain)
    BY <1>3, MakeIs
  <2>3. file \in HandleType
    BY <2>1 DEF GenInv, TypeOK, HandleType
  <2>4. FilesOK'
    <3>1. [name |-> n, chain |-> 0, size |-> 0] \in EntryType
      BY DEF EntryType
    <3>2. dir' \in [Slots -> EntryType]
      BY <2>2, <3>1 DEF GenInv, TypeOK
    <3> QED BY <2>2, <3>2, FreedType DEF FilesOK, GenInv, TypeOK
  <2>5. file.used /\ file.gen = gen /\ file.serial = opens + 1
    OBVIOUS
  <2> HIDE DEF file, s, h
  <2>6. BlocksOK' /\ Generations' /\ NotOlder' /\ Copies'
    BY <1>1, <2>2, <2>3, <2>5, OpenedInv
  <2> QED BY <2>4, <2>6, Types DEF GenInv
<1> QED BY <1>2, <1>3

LEMMA GenClose ==
    ASSUME GenInv, NEW f \in Blocks, Close(f)
    PROVE  GenInv'
<1> DEFINE h == fcb[f].idx
           free == [NoHandle EXCEPT !.slot = HandleOf(f).slot]
<1>1. h \in Handles /\ HandleOf(f) \in HandleType
  BY HandleTypes DEF GenInv, Close
<1>2. free \in HandleType /\ ~free.used
  BY <1>1 DEF NoHandle, HandleType
<1>3. handle' = [handle EXCEPT ![h] = free] /\ fcb' = [fcb EXCEPT ![f] = NoBlock]
      /\ dir' = dir /\ chain' = chain /\ gen' = gen /\ opens' = opens
  BY DEF Close
<1>4. NoBlock \in BlockType /\ ~NoBlock.magic
  BY DEF NoBlock, BlockType
<1> HIDE DEF h, free
<1>5. FilesOK'
  BY <1>3 DEF GenInv, TypeOK, FilesOK
<1>6. BlocksOK'
  <2>1. handle' \in [Handles -> HandleType] /\ fcb' \in [Blocks -> BlockType]
    BY <1>1, <1>2, <1>3, <1>4 DEF GenInv, TypeOK
  <2> QED BY <2>1, <1>3, <1>4 DEF GenInv, TypeOK, BlocksOK
<1>7. \A g \in Blocks : fcb'[g].magic => Like(fcb'[g], fcb[g])
  BY <1>3, <1>4 DEF Like, GenInv, TypeOK
<1>8. \A k \in Handles : handle'[k].used => handle'[k] = handle[k]
  BY <1>1, <1>2, <1>3 DEF GenInv, TypeOK
<1>9. Generations' /\ NotOlder' /\ Copies'
  BY <1>3, <1>6, <1>7, <1>8, KeptInv
<1> QED BY <1>5, <1>6, <1>9, Types DEF GenInv

LEMMA GenBlocks ==
    ASSUME GenInv, UNCHANGED <<dir, chain, handle, gen, opens>>, fcb' \in [Blocks -> BlockType],
           \A g \in Blocks : fcb'[g].magic => \E f \in Blocks : Like(fcb'[g], fcb[f])
    PROVE  GenInv'
<1>1. FilesOK'
  BY DEF GenInv, TypeOK, FilesOK
<1>2. BlocksOK'
  BY DEF GenInv, TypeOK, BlocksOK, Like
<1>3. Generations' /\ NotOlder' /\ Copies'
  BY <1>2, KeptInv
<1> QED BY <1>1, <1>2, <1>3, Types DEF GenInv

LEMMA GenCopy ==
    ASSUME GenInv, NEW f \in Blocks, NEW g \in Blocks, CopyBlock(f, g)
    PROVE  GenInv'
<1>1. fcb' = [fcb EXCEPT ![g] = fcb[f]] /\ UNCHANGED <<dir, chain, handle, gen, opens>>
  BY DEF CopyBlock
<1>2. fcb' \in [Blocks -> BlockType]
  BY <1>1 DEF GenInv, TypeOK
<1>3. \A k \in Blocks : fcb'[k].magic => \E j \in Blocks : Like(fcb'[k], fcb[j])
  BY <1>1 DEF Like, GenInv, TypeOK
<1> QED BY <1>1, <1>2, <1>3, GenBlocks

LEMMA GenForget ==
    ASSUME GenInv, NEW f \in Blocks, Forget(f)
    PROVE  GenInv'
<1>1. fcb' = [fcb EXCEPT ![f] = NoBlock] /\ UNCHANGED <<dir, chain, handle, gen, opens>>
  BY DEF Forget
<1>2. NoBlock \in BlockType /\ ~NoBlock.magic
  BY DEF NoBlock, BlockType
<1>3. fcb' \in [Blocks -> BlockType]
  BY <1>1, <1>2 DEF GenInv, TypeOK
<1>4. \A k \in Blocks : fcb'[k].magic => Like(fcb'[k], fcb[k])
  BY <1>1, <1>2 DEF Like, GenInv, TypeOK
<1> QED BY <1>1, <1>3, <1>4, GenBlocks

\* A record call moves its block on and leaves what it says of its open.
LEMMA AdvanceIs ==
    ASSUME GenInv, NEW f \in Blocks, fcb[f].magic, NEW r \in Nat, NEW inSeq \in BOOLEAN,
           Advance(f, r, inSeq)
    PROVE  /\ fcb' \in [Blocks -> BlockType]
           /\ \A g \in Blocks \ {f} : fcb'[g] = fcb[g]
           /\ \A g \in Blocks : fcb[g].magic => Like(fcb'[g], fcb[g])
           /\ \A g \in Blocks : fcb'[g].magic => Like(fcb'[g], fcb[g])
           /\ fcb'[f].rec = r /\ fcb'[f].inSeq = inSeq
           /\ inSeq => fcb'[f].read = fcb[f].read + 1
<1>1. fcb \in [Blocks -> BlockType]
  BY DEF GenInv, TypeOK
<1>2. (IF inSeq THEN fcb[f].read + 1 ELSE 0) \in Nat
  BY <1>1 DEF BlockType
<1>3. fcb' = [fcb EXCEPT ![f].rec = r, ![f].inSeq = inSeq,
                         ![f].read = IF inSeq THEN fcb[f].read + 1 ELSE 0]
  BY DEF Advance
<1>4. fcb' \in [Blocks -> BlockType]
  <2> DEFINE x == IF inSeq THEN fcb[f].read + 1 ELSE 0
             A == [fcb EXCEPT ![f].rec = r]
             B == [A EXCEPT ![f].inSeq = inSeq]
  <2>1. A \in [Blocks -> BlockType]
    BY <1>1 DEF BlockType
  <2>2. B \in [Blocks -> BlockType]
    <3> HIDE DEF A
    <3> QED BY <2>1 DEF BlockType
  <2>3. [B EXCEPT ![f].read = x] \in [Blocks -> BlockType]
    <3> HIDE DEF B, x
    <3>1. x \in Nat
      BY <1>2 DEF x
    <3> QED BY <2>2, <3>1 DEF BlockType
  <2> QED BY <1>3, <2>3
<1>5. \A g \in Blocks \ {f} : fcb'[g] = fcb[g]
  BY <1>1, <1>3
<1>6. /\ fcb'[f].name = fcb[f].name /\ fcb'[f].magic = fcb[f].magic /\ fcb'[f].idx = fcb[f].idx
      /\ fcb'[f].gen = fcb[f].gen /\ fcb'[f].serial = fcb[f].serial /\ fcb'[f].made = fcb[f].made
      /\ fcb'[f].rec = r /\ fcb'[f].inSeq = inSeq
      /\ fcb'[f].read = IF inSeq THEN fcb[f].read + 1 ELSE 0
  BY <1>1, <1>3 DEF BlockType
<1>7. \A g \in Blocks : fcb[g].magic => Like(fcb'[g], fcb[g])
  BY <1>5, <1>6 DEF Like
<1>8. \A g \in Blocks : fcb'[g].magic => Like(fcb'[g], fcb[g])
  BY <1>5, <1>6 DEF Like
<1> QED BY <1>4, <1>5, <1>6, <1>7, <1>8

LEMMA RandomRecord ==
    ASSUME GenInv, NEW f \in Blocks, Resolves(f), NEW r \in RandomRecords(f)
    PROVE  r \in Nat
BY HandleTypes, FcbAssumption DEF GenInv, RandomRecords, HandleType, BlockType

LEMMA GenReadSeq ==
    ASSUME GenInv, NEW f \in Blocks, ReadSeq(f)
    PROVE  GenInv'
<1>1. Resolves(f) /\ Advance(f, fcb[f].rec + 1, fcb[f].inSeq)
      /\ UNCHANGED <<dir, chain, handle, gen, opens>>
  BY DEF ReadSeq, CanRead
<1>2. fcb[f].magic /\ fcb[f].rec + 1 \in Nat /\ fcb[f].inSeq \in BOOLEAN
  BY <1>1, HandleTypes DEF GenInv, BlockType
<1> QED BY <1>1, <1>2, AdvanceIs, GenBlocks

LEMMA GenReadRandom ==
    ASSUME GenInv, NEW f \in Blocks, NEW r \in RandomRecords(f), ReadRandom(f, r)
    PROVE  GenInv'
<1>1. Resolves(f) /\ Advance(f, r, FALSE) /\ UNCHANGED <<dir, chain, handle, gen, opens>>
  BY DEF ReadRandom, CanRead
<1>2. fcb[f].magic /\ r \in Nat
  BY <1>1, HandleTypes, RandomRecord DEF GenInv
<1> QED BY <1>1, <1>2, AdvanceIs, GenBlocks

\* fat_fseek and fat_fwrite.
WriteChain(f) == LET h == HandleOf(f)
                 IN  IF h.chain # 0 THEN h.chain ELSE IF Free = {} THEN 0 ELSE Min(Free)

LEMMA WriteChainIs ==
    ASSUME TypeOK, NEW f \in Blocks, Resolves(f), WriteChain(f) # 0
    PROVE  /\ WriteChain(f) \in Chains
           /\ HandleOf(f).chain # 0 => WriteChain(f) = HandleOf(f).chain
           /\ HandleOf(f).chain = 0 => \A s \in Slots : dir[s].chain # WriteChain(f)
<1>1. Free \in SUBSET Nat
  BY Params DEF Free
<1>2. Free # {} => Min(Free) \in Free
  BY <1>1, MinOf
<1>3. HandleOf(f).chain \in Chains \cup {0}
  BY HandleTypes DEF HandleType
<1> QED BY <1>2, <1>3 DEF WriteChain, Free

LEMMA ClampedType ==
    ASSUME TypeOK, NEW f \in Blocks, Resolves(f), NEW r \in Nat
    PROVE  /\ Clamped(HandleOf(f), r) \in Nat /\ Clamped(HandleOf(f), r) <= HandleOf(f).size
           /\ HandleOf(f).size \in Nat
           /\ GrownTo(HandleOf(f).size, Clamped(HandleOf(f), r)) \in Nat
           /\ GrownTo(HandleOf(f).size, Clamped(HandleOf(f), r)) >= HandleOf(f).size
<1>1. HandleOf(f).size \in Nat
  BY HandleTypes DEF HandleType
<1> QED BY <1>1 DEF Clamped, GrownTo

\* A record write, its assignments one by one.
LEMMA WriteIs ==
    ASSUME TypeOK, NEW f \in Blocks, NEW r \in Nat, NEW u \in Data, WriteAt(f, r, u)
    PROVE  LET h == HandleOf(f)
               p == Clamped(h, r)
               c == WriteChain(f)
               n == GrownTo(h.size, p)
           IN  /\ Resolves(f) /\ (fcb[f].made \/ WriteOpened) /\ c \in Chains
               /\ chain' = IF h.chain = 0 THEN [chain EXCEPT ![c] = <<u>>] ELSE Written(c, p, u)
               /\ handle' \in [Handles -> HandleType]
               /\ \A k \in Handles \ {fcb[f].idx} : handle'[k] = handle[k]
               /\ handle'[fcb[f].idx].chain = c /\ handle'[fcb[f].idx].size = n
               /\ handle'[fcb[f].idx].slot = h.slot /\ handle'[fcb[f].idx].used = h.used
               /\ handle'[fcb[f].idx].gen = h.gen /\ handle'[fcb[f].idx].serial = h.serial
               /\ dir' \in [Slots -> EntryType]
               /\ \A s \in Slots : dir'[s].name = dir[s].name
               /\ \A s \in Slots \ {h.slot} : dir'[s] = dir[s]
               /\ h.slot \in Slots => dir'[h.slot].chain = c /\ dir'[h.slot].size = n
               /\ gen' = gen /\ opens' = opens
<1> DEFINE h == HandleOf(f)
           p == Clamped(h, r)
           c == WriteChain(f)
           n == GrownTo(h.size, p)
           k == fcb[f].idx
<1>1. /\ Resolves(f) /\ (fcb[f].made \/ WriteOpened) /\ c # 0
      /\ chain' = IF h.chain = 0 THEN [chain EXCEPT ![c] = <<u>>] ELSE Written(c, p, u)
      /\ handle' = [handle EXCEPT ![k].chain = c, ![k].size = n]
      /\ dir' = [s \in Slots |-> IF s = h.slot THEN [dir[s] EXCEPT !.size = n, !.chain = c]
                                 ELSE dir[s]]
      /\ gen' = gen /\ opens' = opens
  BY DEF WriteAt, WriteChain
<1>2. c \in Chains
  BY <1>1, WriteChainIs
<1>3. h = handle[k] /\ h \in HandleType /\ k \in Handles
  BY <1>1, HandleTypes
<1>4. n \in Nat
  BY <1>1, ClampedType
<1>5. handle \in [Handles -> HandleType] /\ dir \in [Slots -> EntryType]
  BY DEF TypeOK
<1> HIDE DEF h, p, c, n, k
<1>6. handle' \in [Handles -> HandleType]
  <2> DEFINE A == [handle EXCEPT ![k].chain = c]
  <2>1. A \in [Handles -> HandleType]
    BY <1>2, <1>5 DEF HandleType
  <2>2. [A EXCEPT ![k].size = n] \in [Handles -> HandleType]
    <3> HIDE DEF A
    <3> QED BY <1>4, <2>1 DEF HandleType
  <2> QED BY <1>1, <2>2
<1>7. /\ \A j \in Handles \ {k} : handle'[j] = handle[j]
      /\ handle'[k].chain = c /\ handle'[k].size = n
      /\ handle'[k].slot = handle[k].slot /\ handle'[k].used = handle[k].used
      /\ handle'[k].gen = handle[k].gen /\ handle'[k].serial = handle[k].serial
  BY <1>1, <1>3, <1>5 DEF HandleType
<1>8. \A s \in Slots : /\ [dir[s] EXCEPT !.size = n, !.chain = c] \in EntryType
                       /\ [dir[s] EXCEPT !.size = n, !.chain = c].name = dir[s].name
                       /\ [dir[s] EXCEPT !.size = n, !.chain = c].size = n
                       /\ [dir[s] EXCEPT !.size = n, !.chain = c].chain = c
  BY <1>2, <1>4, <1>5 DEF EntryType
<1>9. dir' \in [Slots -> EntryType]
  BY <1>1, <1>5, <1>8
<1>10. /\ \A s \in Slots : dir'[s].name = dir[s].name
       /\ \A s \in Slots \ {h.slot} : dir'[s] = dir[s]
       /\ h.slot \in Slots => dir'[h.slot].chain = c /\ dir'[h.slot].size = n
  BY <1>1, <1>8
<1>11. /\ handle'[k].slot = h.slot /\ handle'[k].used = h.used
       /\ handle'[k].gen = h.gen /\ handle'[k].serial = h.serial
  BY <1>3, <1>7
<1> QED BY <1>1, <1>2, <1>6, <1>7, <1>9, <1>10, <1>11 DEF h, p, c, n, k

LEMMA WrittenType ==
    ASSUME chain \in [Chains -> Seq(Rec)], NEW c \in Chains, NEW p \in Nat, NEW u \in Data
    PROVE  Written(c, p, u) \in [Chains -> Seq(Rec)] /\ [chain EXCEPT ![c] = <<u>>] \in [Chains -> Seq(Rec)]
<1>1. chain[c] \in Seq(Rec) /\ u \in Rec
  BY DEF Rec
<1>2. <<u>> \in Seq(Rec) /\ Append(chain[c], u) \in Seq(Rec)
  BY <1>1
<1>3. p < Len(chain[c]) => ReplaceAt(chain[c], p + 1, u) \in Seq(Rec)
  <2>1. SUFFICES ASSUME p < Len(chain[c]) PROVE ReplaceAt(chain[c], p + 1, u) \in Seq(Rec)
    OBVIOUS
  <2>2. [chain[c] EXCEPT ![p + 1] = u] \in Seq(Rec)
    BY <1>1, <2>1, ExceptSeq
  <2> QED BY <2>2 DEF ReplaceAt
<1> QED BY <1>2, <1>3 DEF Written

LEMMA GenWrite ==
    ASSUME GenInv, NEW f \in Blocks, NEW r \in Nat, NEW q \in Nat, NEW u \in Data,
           WriteAt(f, r, u), Advance(f, q, FALSE)
    PROVE  GenInv'
<1>1. TypeOK /\ Resolves(f)
  BY DEF GenInv, WriteAt
<1>2. Clamped(HandleOf(f), r) \in Nat
  BY <1>1, ClampedType
<1>3. FilesOK'
  <2>1. chain \in [Chains -> Seq(Rec)] /\ WriteChain(f) \in Chains
    BY <1>1, WriteIs DEF TypeOK
  <2>2. chain' \in [Chains -> Seq(Rec)]
    <3>1. chain' = IF HandleOf(f).chain = 0 THEN [chain EXCEPT ![WriteChain(f)] = <<u>>]
                   ELSE Written(WriteChain(f), Clamped(HandleOf(f), r), u)
      BY <1>1, WriteIs
    <3>2. /\ Written(WriteChain(f), Clamped(HandleOf(f), r), u) \in [Chains -> Seq(Rec)]
          /\ [chain EXCEPT ![WriteChain(f)] = <<u>>] \in [Chains -> Seq(Rec)]
      BY <1>2, <2>1, WrittenType
    <3> QED BY <3>1, <3>2
  <2> QED BY <1>1, <2>2, WriteIs DEF FilesOK
<1>4. fcb[f].magic /\ gen' = gen /\ opens' = opens
  BY <1>1, WriteIs, HandleTypes
<1>5. fcb' \in [Blocks -> BlockType] /\ \A g \in Blocks : fcb'[g].magic => Like(fcb'[g], fcb[g])
  BY <1>4, AdvanceIs
<1>6. BlocksOK'
  <2>1. handle' \in [Handles -> HandleType]
    BY <1>1, WriteIs
  <2> QED BY <1>4, <1>5, <2>1 DEF BlocksOK, GenInv, TypeOK, Like
<1>7. \A k \in Handles : handle'[k].used =>
         handle[k].used /\ handle'[k].gen = handle[k].gen /\ handle'[k].serial = handle[k].serial
  BY <1>1, WriteIs, HandleTypes
<1>8. Generations' /\ NotOlder' /\ Copies'
  BY <1>4, <1>5, <1>6, <1>7, KeptInv
<1> QED BY <1>3, <1>6, <1>8, Types DEF GenInv

LEMMA GenDelete ==
    ASSUME GenInv, NEW n \in Names, Delete(n)
    PROVE  GenInv'
<1>1. /\ SlotOf(n) \in Slots /\ dir' = [dir EXCEPT ![SlotOf(n)] = NoEntry]
      /\ chain' = Freed(dir[SlotOf(n)].chain) /\ UNCHANGED <<handle, gen, fcb, opens>>
  BY SlotOfName DEF Delete
<1>2. FilesOK'
  <2>1. NoEntry \in EntryType
    BY DEF NoEntry, EntryType
  <2>2. dir' \in [Slots -> EntryType]
    BY <1>1, <2>1 DEF GenInv, TypeOK
  <2> QED BY <1>1, <2>2, FreedType DEF GenInv, TypeOK, FilesOK
<1>3. BlocksOK' /\ Generations' /\ NotOlder' /\ Copies'
  BY <1>1 DEF GenInv, TypeOK, BlocksOK, Generations, NotOlder, Copies, HandleOf
<1> QED BY <1>2, <1>3, Types DEF GenInv

LEMMA GenStep == GenInv /\ [Next]_vars => GenInv'
<1> SUFFICES ASSUME GenInv, [Next]_vars PROVE GenInv'
  OBVIOUS
<1>1. ASSUME NEW f \in Blocks, NEW n \in Names, Open(f, n) \/ Make(f, n) PROVE GenInv'
  BY <1>1, GenOpen, GenMake
<1>2. ASSUME NEW f \in Blocks, NEW g \in Blocks, CopyBlock(f, g) PROVE GenInv'
  BY <1>2, GenCopy
<1>3. ASSUME NEW f \in Blocks, Close(f) \/ Forget(f) \/ ReadSeq(f) PROVE GenInv'
  BY <1>3, GenClose, GenForget, GenReadSeq
<1>4. ASSUME NEW f \in Blocks, NEW r \in RandomRecords(f), ReadRandom(f, r) PROVE GenInv'
  BY <1>4, GenReadRandom
<1>5. ASSUME NEW f \in Blocks, NEW r \in RandomRecords(f), NEW u \in Data, WriteRandom(f, r, u)
      PROVE GenInv'
  <2>1. WriteAt(f, r, u) /\ Advance(f, r, FALSE) /\ r \in Nat
    BY <1>5, RandomRecord DEF WriteRandom, WriteAt
  <2> QED BY <2>1, GenWrite
<1>6. ASSUME NEW f \in Blocks, NEW u \in Data, WriteSeq(f, u) PROVE GenInv'
  <2>1. WriteAt(f, fcb[f].rec, u) /\ Advance(f, fcb[f].rec + 1, FALSE) /\ fcb[f].rec \in Nat
    BY <1>6 DEF WriteSeq, GenInv, TypeOK, BlockType
  <2>2. fcb[f].rec + 1 \in Nat
    BY <2>1
  <2> QED BY <2>1, <2>2, GenWrite
<1>7. ASSUME NEW n \in Names, Delete(n) PROVE GenInv'
  BY <1>7, GenDelete
<1>8. CASE UNCHANGED vars
  BY <1>8 DEF vars, GenInv, TypeOK, Generations, NotOlder, Copies, HandleOf
<1> QED BY <1>1, <1>2, <1>3, <1>4, <1>5, <1>6, <1>7, <1>8 DEF Next
-----------------------------------------------------------------------------
(***************************************************************************)
(* The beginning: files one behind the other, no block and no handle.      *)
(***************************************************************************)
LEMMA OrderOfFiles ==
    LET order == SetToSeq(DOMAIN Files)
        n     == Cardinality(DOMAIN Files)
    IN  /\ n \in Nat /\ order \in [1 .. n -> DOMAIN Files] /\ Len(order) = n
        /\ \A i, j \in 1 .. n : order[i] = order[j] => i = j
<1> DEFINE S == DOMAIN Files
           n == Cardinality(S)
           order == SetToSeq(S)
<1>1. n \in Nat /\ ExistsBijection(1 .. n, S)
  BY FcbAssumption, FS_CardinalityType
<1>2. \E g \in [1 .. n -> S] : IsInjective(g)
  <2>1. PICK g : g \in Bijection(1 .. n, S)
    BY <1>1 DEF ExistsBijection
  <2>2. g \in [1 .. n -> S] /\ IsInjective(g)
    BY <2>1 DEF Bijection, Injection, IsInjective
  <2> QED BY <2>2
<1>3. order \in [1 .. n -> S] /\ IsInjective(order)
  BY <1>2 DEF SetToSeq
<1> HIDE DEF order, n, S
<1>4. Len(order) = n
  <2>1. order \in Seq(S)
    BY <1>1, <1>3
  <2> QED BY <1>1, <1>3, <2>1
<1>5. \A i, j \in 1 .. n : order[i] = order[j] => i = j
  BY <1>3 DEF IsInjective
<1> QED BY <1>1, <1>3, <1>4, <1>5 DEF order, n, S

LEMMA FileType ==
    ASSUME NEW n \in DOMAIN Files
    PROVE  Files[n] \in Seq(Rec) /\ Len(Files[n]) \in Nat
<1>1. Files[n] \in Seq(Range(Files[n]))
  BY FcbAssumption
<1>2. Range(Files[n]) \subseteq Rec
  BY DEF Rec
<1>3. Files[n] \in Seq(Rec)
  BY <1>1, <1>2, SeqMonotonic
<1> QED BY <1>3

LEMMA InitInv == Init => IInv
<1> SUFFICES ASSUME Init PROVE IInv
  OBVIOUS
<1> DEFINE order == SetToSeq(DOMAIN Files)
           n == Cardinality(DOMAIN Files)
<1>1. /\ n \in Nat /\ order \in [1 .. n -> DOMAIN Files] /\ Len(order) = n
      /\ \A i, j \in 1 .. n : order[i] = order[j] => i = j
  BY OrderOfFiles
<1>2. /\ dir = [s \in Slots |->
                  IF s <= Len(order)
                  THEN [name |-> order[s], chain |-> s, size |-> Len(Files[order[s]])]
                  ELSE NoEntry]
      /\ chain = [c \in Chains |-> IF c <= Len(order) THEN Files[order[c]] ELSE <<>>]
      /\ handle = [h \in Handles |-> NoHandle]
      /\ gen = 1
      /\ fcb = [f \in Blocks |-> NoBlock]
      /\ opens = 0
  BY DEF Init
<1>3. \A i \in 1 .. n : i \in Chains
  <2>1. Cardinality(Chains) \in Nat /\ n <= Cardinality(Chains) /\ Chains = 1 .. Cardinality(Chains)
    BY FcbAssumption, FS_CardinalityType
  <2> QED BY <1>1, <2>1
<1> HIDE DEF order, n
<1>4. \A s \in Slots : s <= n =>
         /\ s \in 1 .. n /\ order[s] \in DOMAIN Files /\ s \in Chains
         /\ dir[s].name = order[s] /\ dir[s].chain = s /\ dir[s].size = Len(Files[order[s]])
  <2>1. SUFFICES ASSUME NEW s \in Slots, s <= n
                 PROVE  /\ s \in 1 .. n /\ order[s] \in DOMAIN Files /\ s \in Chains
                        /\ dir[s].name = order[s] /\ dir[s].chain = s
                        /\ dir[s].size = Len(Files[order[s]])
    OBVIOUS
  <2>2. s \in 1 .. n
    BY <1>1, <2>1, Params
  <2>3. order[s] \in DOMAIN Files /\ s \in Chains
    BY <1>1, <1>3, <2>2
  <2>4. dir[s] = [name |-> order[s], chain |-> s, size |-> Len(Files[order[s]])]
    BY <1>1, <1>2, <2>1
  <2> QED BY <2>2, <2>3, <2>4
<1>5. \A s \in Slots : ~(s <= n) => dir[s] = NoEntry
  BY <1>1, <1>2
<1>6. FilesOK
  <2>1. DOMAIN Files \subseteq Names
    BY FcbAssumption
  <2>2. \A s \in Slots : dir[s] \in EntryType
    <3>1. NoEntry \in EntryType
      BY DEF EntryType, NoEntry
    <3>2. ASSUME NEW s \in Slots, s <= n PROVE dir[s] \in EntryType
      <4>1. dir[s] = [name |-> order[s], chain |-> s, size |-> Len(Files[order[s]])]
        BY <1>1, <1>2, <3>2
      <4>2. order[s] \in Names /\ s \in Chains /\ Len(Files[order[s]]) \in Nat
        BY <1>4, <2>1, <3>2, FileType
      <4> QED BY <4>1, <4>2 DEF EntryType
    <3> QED BY <1>5, <3>1, <3>2
  <2>3. \A c \in Chains : chain[c] \in Seq(Rec)
    <3>1. ASSUME NEW c \in Chains, c <= n PROVE Files[order[c]] \in Seq(Rec)
      <4>1. c \in 1 .. n
        BY <1>1, <3>1, Params
      <4>2. order[c] \in DOMAIN Files
        BY <1>1, <4>1
      <4> QED BY <4>2, FileType
    <3>2. <<>> \in Seq(Rec)
      OBVIOUS
    <3> QED BY <1>1, <1>2, <3>1, <3>2
  <2> QED BY <1>2, <2>2, <2>3 DEF FilesOK
<1>7. NoBlock \in BlockType /\ ~NoBlock.magic
  BY DEF NoBlock, BlockType
<1>8. NoHandle \in HandleType /\ ~NoHandle.used
  BY DEF NoHandle, HandleType
<1>9. TypeOK
  BY <1>2, <1>6, <1>7, <1>8 DEF TypeOK, FilesOK
<1>10. Generations
  <2>1. 0 % Gens = 0
    BY Params
  <2> QED BY <1>2, <1>7, <1>8, <2>1 DEF Generations
<1>11. NotOlder /\ Copies /\ HasEntry /\ MadeOnce /\ InStep
  BY <1>2, <1>7 DEF NotOlder, Copies, HasEntry, MadeOnce, InStep, Resolves
<1>12. OneEntry
  BY <1>1, <1>4, <1>5 DEF OneEntry, NoEntry
<1>13. OneChain
  BY <1>4, <1>5 DEF OneChain, NoEntry
<1>14. WholeChain
  <2>1. SUFFICES ASSUME NEW s \in Slots
                 PROVE  /\ dir[s].name = None => dir[s].chain = 0
                        /\ dir[s].chain = 0 => dir[s].size = 0
                        /\ dir[s].chain # 0 => Len(chain[dir[s].chain]) = dir[s].size
    BY DEF WholeChain
  <2>2. CASE s <= n
    <3>1. dir[s].name # None
      <4>1. order[s] \in DOMAIN Files /\ dir[s].name = order[s]
        BY <1>4, <2>2
      <4>2. DOMAIN Files \subseteq Names
        BY FcbAssumption
      <4> QED BY <4>1, <4>2, Params
    <3>2. dir[s].chain = s /\ s # 0 /\ s \in Chains /\ dir[s].size = Len(Files[order[s]])
      BY <1>4, <2>2, Params
    <3>3. chain[s] = Files[order[s]]
      BY <1>1, <1>2, <2>2, <3>2
    <3> QED BY <3>1, <3>2, <3>3
  <2>3. CASE ~(s <= n)
    BY <1>5, <2>3 DEF NoEntry
  <2> QED BY <2>2, <2>3
<1> QED BY <1>9, <1>10, <1>11, <1>12, <1>13, <1>14 DEF IInv, GenInv, Linked
-----------------------------------------------------------------------------
\* "generation counter (catches reuse after warm-boot)": whatever blocks a
\* program has copied, kept and forgotten, resolve_fcb gives a block a handle
\* of its own open or one Gens opens later.
THEOREM BlocksReachTheirFile == Spec => []Reaches
<1>1. Init => GenInv
  BY InitInv DEF IInv
<1>2. GenInv /\ [Next]_vars => GenInv'
  BY GenStep
<1> QED BY <1>1, <1>2, InvReaches, PTL DEF Spec
-----------------------------------------------------------------------------
(***************************************************************************)
(* While a generation is given out only once, a block and its handle are   *)
(* tied to one entry.                                                       *)
(***************************************************************************)
Currents == \A f \in Blocks : Resolves(f) => HandleOf(f).serial = fcb[f].serial

LEMMA AllCurrent == GenInv /\ Young => Currents
BY Current DEF Currents

LEMMA AllCurrentNext == GenInv' /\ Young' => Currents'
BY AllCurrent, PTL

LEMMA SameEntry ==
    ASSUME OneEntry, TypeOK, NEW f \in Blocks, fcb[f].name \in Names,
           NEW s \in Slots, NEW t \in Slots, dir[s].name = fcb[f].name, dir[t].name = fcb[f].name
    PROVE  s = t
BY Params DEF OneEntry

\* After an open, the blocks that resolve resolve to what they did before.
LEMMA OthersKept ==
    ASSUME GenInv, GenInv', Young', NEW f \in Blocks, NEW h \in Handles, opens' = opens + 1,
           \A g \in Blocks \ {f} : fcb'[g] = fcb[g],
           \A k \in Handles \ {h} : handle'[k] = handle[k], handle'[h].serial = opens + 1
    PROVE  \A g \in Blocks \ {f} : Resolves(g)' =>
              /\ Resolves(g) /\ fcb[g].idx # h /\ HandleOf(g)' = HandleOf(g)
              /\ fcb'[g] = fcb[g] /\ fcb[g].name \in Names
<1> SUFFICES ASSUME NEW g \in Blocks \ {f}, Resolves(g)'
             PROVE  /\ Resolves(g) /\ fcb[g].idx # h /\ HandleOf(g)' = HandleOf(g)
                    /\ fcb'[g] = fcb[g] /\ fcb[g].name \in Names
  OBVIOUS
<1>1. fcb'[g] = fcb[g] /\ fcb[g].magic /\ handle'[fcb[g].idx].serial = fcb[g].serial
  BY AllCurrentNext DEF Currents, Resolves, HandleOf
<1>2. fcb[g].serial \in 1 .. opens /\ fcb[g].idx \in Handles /\ fcb[g].name \in Names
  BY <1>1 DEF GenInv, TypeOK, Generations
<1>3. fcb[g].idx # h
  BY <1>1, <1>2 DEF GenInv, TypeOK
<1> QED BY <1>1, <1>2, <1>3 DEF Resolves, HandleOf

\* A call that gives out no handle and changes no file.
LEMMA LinkKept ==
    ASSUME Linked, dir' = dir, chain' = chain,
           \A g \in Blocks : Resolves(g)' => \E f \in Blocks :
              Resolves(f) /\ Like(fcb'[g], fcb[f]) /\ HandleOf(g)' = HandleOf(f)
    PROVE  OneEntry' /\ OneChain' /\ WholeChain' /\ HasEntry' /\ MadeOnce'
<1>1. OneEntry' /\ OneChain' /\ WholeChain'
  BY DEF Linked, OneEntry, OneChain, WholeChain
<1>2. HasEntry'
  <2>1. SUFFICES ASSUME NEW g \in Blocks, Resolves(g)'
                 PROVE  \E s \in Slots : Entry(g, s)'
    BY DEF HasEntry
  <2>2. PICK f \in Blocks : Resolves(f) /\ Like(fcb'[g], fcb[f]) /\ HandleOf(g)' = HandleOf(f)
    BY <2>1
  <2>3. PICK s \in Slots : Entry(f, s)
    BY <2>2 DEF Linked, HasEntry
  <2>4. Entry(g, s)'
    BY <2>2, <2>3 DEF Entry, Like
  <2> QED BY <2>4
<1>3. MadeOnce'
  BY DEF Linked, MadeOnce, Like
<1> QED BY <1>1, <1>2, <1>3

LEMMA ShortFile ==
    ASSUME NEW n \in Nat, n < ExtentRecs
    PROVE  OpenExtent(n) = 0
<1>1. n \div ExtentRecs = 0
  BY Params
<1> QED BY <1>1, Params DEF OpenExtent

LEMMA LinkFailed ==
    ASSUME GenInv, Linked, NEW h \in Handles, Taken(h, handle[h]), fcb' = fcb, dir' = dir,
           chain' = chain
    PROVE  Linked'
<1>1. handle' = handle
  BY DEF GenInv, TypeOK, Taken
<1> QED BY <1>1 DEF Linked, OneEntry, OneChain, WholeChain, HasEntry, MadeOnce, InStep, Entry,
                    Resolves, HandleOf

LEMMA LinkOpen ==
    ASSUME GenInv, GenInv', Young', Linked, NEW f \in Blocks, NEW n \in Names, Open(f, n)
    PROVE  Linked'
<1> DEFINE h == NewIdx
<1>1. h \in Handles /\ ~handle[h].used /\ dir' = dir /\ chain' = chain
  BY NewIdxIsFree DEF Open
<1>2. CASE SlotOf(n) = NoSlot
  <2>1. Taken(h, handle[h]) /\ fcb' = fcb
    BY <1>2 DEF Open
  <2> QED BY <1>1, <2>1, LinkFailed
<1>3. CASE SlotOf(n) # NoSlot
  <2>1. PICK s \in Slots : s = SlotOf(n) /\ dir[s].name = n
    BY <1>3, SlotOfName
  <2> DEFINE file == [used |-> TRUE, gen |-> gen, slot |-> handle[h].slot,
                      chain |-> dir[s].chain, size |-> dir[s].size, serial |-> opens + 1]
             b == [name |-> n, magic |-> TRUE, idx |-> h, gen |-> gen,
                   rec |-> OpenExtent(dir[s].size), serial |-> opens + 1, made |-> FALSE,
                   inSeq |-> TRUE, read |-> 0]
  <2>2. handle' = [handle EXCEPT ![h] = file] /\ opens' = opens + 1 /\ fcb' = [fcb EXCEPT ![f] = b]
    BY <1>3, <2>1 DEF Open, Taken, Stash
  <2>3. /\ fcb'[f] = b /\ \A g \in Blocks \ {f} : fcb'[g] = fcb[g]
        /\ handle'[h] = file /\ \A k \in Handles \ {h} : handle'[k] = handle[k]
    BY <1>1, <2>2 DEF GenInv, TypeOK
  <2>4. /\ file.chain = dir[s].chain /\ file.size = dir[s].size /\ file.serial = opens + 1
        /\ b.name = n /\ b.idx = h /\ ~b.made /\ b.rec = OpenExtent(dir[s].size) /\ b.read = 0
    OBVIOUS
  <2> HIDE DEF file, b, h
  <2>5. \A g \in Blocks \ {f} : Resolves(g)' =>
              /\ Resolves(g) /\ fcb[g].idx # h /\ HandleOf(g)' = HandleOf(g)
              /\ fcb'[g] = fcb[g] /\ fcb[g].name \in Names
    BY <1>1, <2>2, <2>3, <2>4, OthersKept
  <2>6. HandleOf(f)' = file
    BY <2>3, <2>4 DEF HandleOf
  <2>7. OneEntry' /\ OneChain' /\ WholeChain'
    BY <1>1 DEF Linked, OneEntry, OneChain, WholeChain
  <2>8. Entry(f, s)'
    <3>1. dir[s].size \in Nat /\ (dir[s].chain = 0 => dir[s].size = 0)
      BY <2>1 DEF GenInv, TypeOK, EntryType, Linked, WholeChain
    <3> QED BY <1>1, <2>1, <2>3, <2>4, <2>6, <3>1 DEF Entry
  <2>9. HasEntry'
    <3>1. SUFFICES ASSUME NEW g \in Blocks \ {f}, Resolves(g)'
                   PROVE  \E t \in Slots : Entry(g, t)'
      BY <2>1, <2>8 DEF HasEntry
    <3>2. PICK t \in Slots : Entry(g, t)
      BY <2>5, <3>1 DEF Linked, HasEntry
    <3>3. Entry(g, t)'
      BY <1>1, <2>5, <3>1, <3>2 DEF Entry
    <3> QED BY <3>3
  <2>10. MadeOnce'
    BY <2>3, <2>4, <2>5 DEF Linked, MadeOnce
  <2>11. InStep'
    <3>1. dir[s].size \in Nat
      BY <2>1 DEF GenInv, TypeOK, EntryType
    <3>2. dir[s].size < ExtentRecs => fcb'[f].rec = fcb'[f].read
      BY <2>3, <2>4, <3>1, ShortFile
    <3> QED BY <2>3, <2>4, <2>5, <2>6, <3>2 DEF Linked, InStep
  <2> QED BY <2>7, <2>9, <2>10, <2>11 DEF Linked
<1> QED BY <1>2, <1>3

\* The chain of an entry that is emptied is no other entry's.
LEMMA OthersUnfreed ==
    ASSUME TypeOK, OneChain, NEW s \in Slots, NEW t \in Slots \ {s}, dir[t].chain # 0
    PROVE  Freed(dir[s].chain)[dir[t].chain] = chain[dir[t].chain]
BY DEF TypeOK, EntryType, OneChain, Freed

LEMMA LinkMake ==
    ASSUME GenInv, GenInv', Young', Linked, NEW f \in Blocks, NEW n \in Names, Make(f, n)
    PROVE  Linked'
<1> DEFINE h == NewIdx
<1>1. h \in Handles /\ ~handle[h].used
  BY NewIdxIsFree, MakeIs
<1>2. CASE MakeSlot(n) = NoSlot
  <2>1. Taken(h, handle[h]) /\ fcb' = fcb /\ dir' = dir /\ chain' = chain
    BY <1>2, MakeIs
  <2> QED BY <1>1, <2>1, LinkFailed
<1>3. CASE MakeSlot(n) # NoSlot
  <2>1. PICK s \in Slots : /\ s = MakeSlot(n) /\ dir[s].name \in {n, None}
                           /\ dir[s].name = None => \A t \in Slots : dir[t].name # n
    BY <1>3, MakeSlotIs, Params
  <2> DEFINE file == [used |-> TRUE, gen |-> gen, slot |-> s, chain |-> 0, size |-> 0,
                      serial |-> opens + 1]
             b == [name |-> n, magic |-> TRUE, idx |-> h, gen |-> gen, rec |-> 0,
                   serial |-> opens + 1, made |-> TRUE, inSeq |-> TRUE, read |-> 0]
             e == [name |-> n, chain |-> 0, size |-> 0]
  <2>2. /\ handle' = [handle EXCEPT ![h] = file] /\ opens' = opens + 1
        /\ fcb' = [fcb EXCEPT ![f] = b] /\ dir' = [dir EXCEPT ![s] = e]
        /\ chain' = Freed(dir[s].chain)
    BY <1>3, <2>1, MakeIs DEF Taken, Stash
  <2>3. /\ fcb'[f] = b /\ \A g \in Blocks \ {f} : fcb'[g] = fcb[g]
        /\ handle'[h] = file /\ \A k \in Handles \ {h} : handle'[k] = handle[k]
        /\ dir'[s] = e /\ \A t \in Slots \ {s} : dir'[t] = dir[t]
    BY <1>1, <2>1, <2>2 DEF GenInv, TypeOK
  <2>4. /\ file.chain = 0 /\ file.size = 0 /\ file.serial = opens + 1 /\ file.slot = s
        /\ b.name = n /\ b.idx = h /\ b.made /\ b.rec = 0 /\ b.read = 0
        /\ e.name = n /\ e.chain = 0 /\ e.size = 0
    OBVIOUS
  <2> HIDE DEF file, b, h, e
  <2>5. \A g \in Blocks \ {f} : Resolves(g)' =>
              /\ Resolves(g) /\ fcb[g].idx # h /\ HandleOf(g)' = HandleOf(g)
              /\ fcb'[g] = fcb[g] /\ fcb[g].name \in Names
    BY <1>1, <2>2, <2>3, <2>4, OthersKept
  <2>6. \A g \in Blocks \ {f} : Resolves(g)' => fcb[g].name # n
    BY <2>5, MakeIs DEF IsOpen
  <2>7. HandleOf(f)' = file
    BY <2>3, <2>4 DEF HandleOf
  <2>8. \A t \in Slots \ {s} : dir[t].name # n
    BY <2>1, Params DEF Linked, OneEntry
  <2>9. OneEntry'
    BY <2>3, <2>4, <2>8 DEF Linked, OneEntry
  <2>10. OneChain'
    BY <2>3, <2>4 DEF Linked, OneChain
  <2>11. WholeChain'
    <3>1. \A t \in Slots \ {s} : dir[t].chain # 0 => chain'[dir[t].chain] = chain[dir[t].chain]
      BY <2>1, <2>2, OthersUnfreed DEF GenInv, Linked
    <3>2. SUFFICES ASSUME NEW t \in Slots
                   PROVE  /\ dir'[t].name = None => dir'[t].chain = 0
                          /\ dir'[t].chain = 0 => dir'[t].size = 0
                          /\ dir'[t].chain # 0 => Len(chain'[dir'[t].chain]) = dir'[t].size
      BY DEF WholeChain
    <3>3. CASE t = s
      BY <2>3, <2>4, <3>3
    <3>4. CASE t # s
      BY <2>3, <3>1, <3>4 DEF Linked, WholeChain
    <3> QED BY <3>3, <3>4
  <2>12. Entry(f, s)'
    BY <2>3, <2>4, <2>7 DEF Entry
  <2>13. HasEntry'
    <3>1. SUFFICES ASSUME NEW g \in Blocks \ {f}, Resolves(g)'
                   PROVE  \E t \in Slots : Entry(g, t)'
      BY <2>1, <2>12 DEF HasEntry
    <3>2. PICK t \in Slots : Entry(g, t)
      BY <2>5, <3>1 DEF Linked, HasEntry
    <3>3. t # s
      BY <2>1, <2>5, <2>6, <3>1, <3>2, Params DEF Entry
    <3>4. Entry(g, t)'
      BY <2>3, <2>5, <3>1, <3>2, <3>3 DEF Entry
    <3> QED BY <3>4
  <2>14. MadeOnce'
    BY <2>3, <2>4, <2>5, <2>6 DEF Linked, MadeOnce
  <2>15. InStep'
    BY <2>3, <2>4, <2>5 DEF Linked, InStep
  <2> QED BY <2>9, <2>10, <2>11, <2>13, <2>14, <2>15 DEF Linked
<1> QED BY <1>2, <1>3

\* The calls that only take blocks away or copy them.
LEMMA LinkBlocks ==
    ASSUME Linked, dir' = dir, chain' = chain,
           \A g \in Blocks : Resolves(g)' => \E f \in Blocks :
              Resolves(f) /\ fcb'[g] = fcb[f] /\ HandleOf(g)' = HandleOf(f)
    PROVE  Linked'
<1>1. \A g \in Blocks : Resolves(g)' => \E f \in Blocks :
              Resolves(f) /\ Like(fcb'[g], fcb[f]) /\ HandleOf(g)' = HandleOf(f)
  BY DEF Like, Resolves
<1>2. OneEntry' /\ OneChain' /\ WholeChain' /\ HasEntry' /\ MadeOnce'
  BY <1>1, LinkKept
<1>3. InStep'
  BY DEF Linked, InStep
<1> QED BY <1>2, <1>3 DEF Linked

LEMMA LinkClose ==
    ASSUME GenInv, Linked, NEW f \in Blocks, Close(f)
    PROVE  Linked'
<1> DEFINE h == fcb[f].idx
           free == [NoHandle EXCEPT !.slot = HandleOf(f).slot]
<1>1. handle' = [handle EXCEPT ![h] = free] /\ fcb' = [fcb EXCEPT ![f] = NoBlock]
      /\ dir' = dir /\ chain' = chain /\ h \in Handles
  BY HandleTypes DEF Close, GenInv
<1>2. ~free.used /\ ~NoBlock.magic
  BY DEF NoHandle, NoBlock
<1>3. /\ fcb'[f] = NoBlock /\ \A g \in Blocks \ {f} : fcb'[g] = fcb[g]
      /\ handle'[h] = free /\ \A k \in Handles \ {h} : handle'[k] = handle[k]
  BY <1>1 DEF GenInv, TypeOK
<1> HIDE DEF h, free
<1>4. \A g \in Blocks : Resolves(g)' =>
         Resolves(g) /\ fcb'[g] = fcb[g] /\ HandleOf(g)' = HandleOf(g)
  BY <1>2, <1>3 DEF Resolves, HandleOf, GenInv, TypeOK
<1> QED BY <1>1, <1>4, LinkBlocks

LEMMA LinkCopy ==
    ASSUME GenInv, Linked, NEW f \in Blocks, NEW g \in Blocks, CopyBlock(f, g)
    PROVE  Linked'
<1>1. fcb' = [fcb EXCEPT ![g] = fcb[f]] /\ dir' = dir /\ chain' = chain /\ handle' = handle
  BY DEF CopyBlock
<1>2. fcb'[g] = fcb[f] /\ \A k \in Blocks \ {g} : fcb'[k] = fcb[k]
  BY <1>1 DEF GenInv, TypeOK
<1>3. \A k \in Blocks : Resolves(k)' => \E j \in Blocks :
              Resolves(j) /\ fcb'[k] = fcb[j] /\ HandleOf(k)' = HandleOf(j)
  BY <1>1, <1>2 DEF Resolves, HandleOf
<1> QED BY <1>1, <1>3, LinkBlocks

LEMMA LinkForget ==
    ASSUME GenInv, Linked, NEW f \in Blocks, Forget(f)
    PROVE  Linked'
<1>1. fcb' = [fcb EXCEPT ![f] = NoBlock] /\ dir' = dir /\ chain' = chain /\ handle' = handle
  BY DEF Forget
<1>2. ~NoBlock.magic
  BY DEF NoBlock
<1>3. fcb'[f] = NoBlock /\ \A k \in Blocks \ {f} : fcb'[k] = fcb[k]
  BY <1>1 DEF GenInv, TypeOK
<1>4. \A k \in Blocks : Resolves(k)' =>
         Resolves(k) /\ fcb'[k] = fcb[k] /\ HandleOf(k)' = HandleOf(k)
  BY <1>1, <1>2, <1>3 DEF Resolves, HandleOf
<1> QED BY <1>1, <1>4, LinkBlocks

\* The calls that only move a block on.
LEMMA LinkRead ==
    ASSUME GenInv, Linked, NEW f \in Blocks, Resolves(f), NEW r \in Nat, NEW inSeq \in BOOLEAN,
           Advance(f, r, inSeq), dir' = dir, chain' = chain, handle' = handle,
           inSeq => fcb[f].inSeq /\ r = fcb[f].rec + 1
    PROVE  Linked'
<1>1. fcb[f].magic
  BY DEF Resolves
<1>2. /\ \A g \in Blocks \ {f} : fcb'[g] = fcb[g]
      /\ \A g \in Blocks : fcb'[g].magic => Like(fcb'[g], fcb[g])
      /\ fcb'[f].rec = r /\ fcb'[f].inSeq = inSeq
      /\ inSeq => fcb'[f].read = fcb[f].read + 1
  BY <1>1, AdvanceIs
<1>3. \A g \in Blocks : Resolves(g)' =>
         Resolves(g) /\ Like(fcb'[g], fcb[g]) /\ HandleOf(g)' = HandleOf(g)
  BY <1>2 DEF Resolves, HandleOf, Like
<1>4. OneEntry' /\ OneChain' /\ WholeChain' /\ HasEntry' /\ MadeOnce'
  BY <1>3, LinkKept
<1>5. InStep'
  BY <1>2, <1>3 DEF Linked, InStep, Like
<1> QED BY <1>4, <1>5 DEF Linked

LEMMA LinkReadSeq ==
    ASSUME GenInv, Linked, NEW f \in Blocks, ReadSeq(f)
    PROVE  Linked'
<1>1. Resolves(f) /\ Advance(f, fcb[f].rec + 1, fcb[f].inSeq)
      /\ dir' = dir /\ chain' = chain /\ handle' = handle
  BY DEF ReadSeq, CanRead
<1>2. fcb[f].rec + 1 \in Nat /\ fcb[f].inSeq \in BOOLEAN
  BY <1>1, HandleTypes DEF GenInv, BlockType
<1> QED BY <1>1, <1>2, LinkRead

LEMMA LinkReadRandom ==
    ASSUME GenInv, Linked, NEW f \in Blocks, NEW r \in RandomRecords(f), ReadRandom(f, r)
    PROVE  Linked'
<1>1. Resolves(f) /\ Advance(f, r, FALSE) /\ dir' = dir /\ chain' = chain /\ handle' = handle
  BY DEF ReadRandom, CanRead
<1>2. r \in Nat
  BY <1>1, RandomRecord
<1> QED BY <1>1, <1>2, LinkRead

LEMMA LinkDelete ==
    ASSUME GenInv, Linked, NEW n \in Names, Delete(n)
    PROVE  Linked'
<1>1. PICK s \in Slots : s = SlotOf(n) /\ dir[s].name = n
  BY SlotOfName DEF Delete
<1>2. /\ dir' = [dir EXCEPT ![s] = NoEntry] /\ chain' = Freed(dir[s].chain) /\ ~IsOpen(n)
      /\ handle' = handle /\ fcb' = fcb
  BY <1>1 DEF Delete
<1>3. /\ dir'[s] = NoEntry /\ \A t \in Slots \ {s} : dir'[t] = dir[t]
      /\ NoEntry.name = None /\ NoEntry.chain = 0 /\ NoEntry.size = 0
  BY <1>2 DEF GenInv, TypeOK, NoEntry
<1>4. \A t \in Slots \ {s} : dir[t].chain # 0 => chain'[dir[t].chain] = chain[dir[t].chain]
  BY <1>2, OthersUnfreed DEF GenInv, Linked
<1>5. OneEntry' /\ OneChain'
  BY <1>3 DEF Linked, OneEntry, OneChain
<1>6. WholeChain'
  <2>1. SUFFICES ASSUME NEW t \in Slots
                 PROVE  /\ dir'[t].name = None => dir'[t].chain = 0
                        /\ dir'[t].chain = 0 => dir'[t].size = 0
                        /\ dir'[t].chain # 0 => Len(chain'[dir'[t].chain]) = dir'[t].size
    BY DEF WholeChain
  <2>2. CASE t = s
    BY <1>3, <2>2
  <2>3. CASE t # s
    BY <1>3, <1>4, <2>3 DEF Linked, WholeChain
  <2> QED BY <2>2, <2>3
<1>7. \A g \in Blocks : Resolves(g)' = Resolves(g) /\ HandleOf(g)' = HandleOf(g)
  BY <1>2 DEF Resolves, HandleOf
<1>8. HasEntry'
  <2>1. SUFFICES ASSUME NEW g \in Blocks, Resolves(g)'
                 PROVE  \E t \in Slots : Entry(g, t)'
    BY DEF HasEntry
  <2>2. Resolves(g) /\ fcb[g].name # n
    BY <1>2, <1>7, <2>1 DEF IsOpen
  <2>3. PICK t \in Slots : Entry(g, t)
    BY <2>2 DEF Linked, HasEntry
  <2>4. t # s
    BY <1>1, <2>2, <2>3 DEF Entry
  <2>5. Entry(g, t)'
    BY <1>2, <1>3, <1>7, <2>3, <2>4 DEF Entry
  <2> QED BY <2>5
<1>9. MadeOnce' /\ InStep'
  BY <1>2, <1>7 DEF Linked, MadeOnce, InStep
<1> QED BY <1>5, <1>6, <1>8, <1>9 DEF Linked
-----------------------------------------------------------------------------
(***************************************************************************)
(* Writing a record.                                                        *)
(***************************************************************************)
Held(s) == IF dir[s].chain = 0 THEN <<>> ELSE chain[dir[s].chain]

\* The text of a file is its chain, and its entry says how long that is.
Texts ==
    \A s \in Slots : dir[s].name \in Names =>
       Text(dir, dir[s].name) = Held(s) /\ Held(s) \in Seq(Rec) /\ Len(Held(s)) = dir[s].size

LEMMA TextIs == TypeOK /\ Linked => Texts
<1> SUFFICES ASSUME TypeOK, Linked, NEW s \in Slots, dir[s].name \in Names
             PROVE  /\ Text(dir, dir[s].name) = Held(s)
                    /\ Held(s) \in Seq(Rec) /\ Len(Held(s)) = dir[s].size
  BY DEF Texts
<1> DEFINE t == CHOOSE i \in Slots : dir[i].name = dir[s].name
<1>1. t \in Slots /\ dir[t].name = dir[s].name
  OBVIOUS
<1>2. t = s
  <2> HIDE DEF t
  <2> QED BY <1>1, Params DEF Linked, OneEntry
<1>3. Held(s) \in Seq(Rec) /\ Len(Held(s)) = dir[s].size
  <2>1. CASE dir[s].chain = 0
    BY <2>1 DEF Held, Linked, WholeChain
  <2>2. CASE dir[s].chain # 0
    <3>1. dir[s].chain \in Chains
      BY <2>2 DEF TypeOK, EntryType
    <3> QED BY <2>2, <3>1 DEF Held, Linked, WholeChain, TypeOK
  <2> QED BY <2>1, <2>2
<1>4. SubSeq(Held(s), 1, Len(Held(s))) = Held(s)
  BY <1>3
<1>5. dir[s].chain # 0 => SubSeq(chain[dir[s].chain], 1, dir[s].size) = Held(s)
  BY <1>3, <1>4 DEF Held
<1>6. Text(dir, dir[s].name) = IF dir[s].chain = 0 THEN <<>>
                               ELSE SubSeq(chain[dir[s].chain], 1, dir[s].size)
  BY <1>2 DEF Text
<1> QED BY <1>3, <1>5, <1>6 DEF Held

LEMMA TextIsNext == TypeOK' /\ Linked' => Texts'
BY TextIs, PTL

\* What fat_fwrite makes of a chain.
LEMMA PlacedIs ==
    ASSUME NEW t \in Seq(Rec), NEW r \in Nat, NEW u \in Rec
    PROVE  LET p == IF r > Len(t) THEN Len(t) ELSE r
           IN  /\ Placed(t, r, u) = IF p < Len(t) THEN ReplaceAt(t, p + 1, u) ELSE Append(t, u)
               /\ Placed(t, r, u) \in Seq(Rec)
               /\ Len(Placed(t, r, u)) = GrownTo(Len(t), p)
<1> DEFINE p == IF r > Len(t) THEN Len(t) ELSE r
           Is == /\ Placed(t, r, u) = IF p < Len(t) THEN ReplaceAt(t, p + 1, u) ELSE Append(t, u)
                 /\ Placed(t, r, u) \in Seq(Rec)
                 /\ Len(Placed(t, r, u)) = GrownTo(Len(t), p)
<1>1. Len(t) \in Nat
  OBVIOUS
<1>2. ASSUME r < Len(t) PROVE Is
  <2>1. r + 1 \in 1 .. Len(t)
    BY <1>1, <1>2
  <2>2. [t EXCEPT ![r + 1] = u] \in Seq(Rec) /\ Len([t EXCEPT ![r + 1] = u]) = Len(t)
    BY <2>1, ExceptSeq
  <2>3. GrownTo(Len(t), r) = Len(t)
    BY <1>1, <1>2 DEF GrownTo
  <2>4. p = r
    BY <1>1, <1>2
  <2>5. Placed(t, r, u) = [t EXCEPT ![r + 1] = u] /\ ReplaceAt(t, r + 1, u) = [t EXCEPT ![r + 1] = u]
    BY <1>2 DEF Placed, ReplaceAt
  <2> HIDE DEF p
  <2> QED BY <1>2, <2>2, <2>3, <2>4, <2>5
<1>3. ASSUME ~(r < Len(t)) PROVE Is
  <2>1. p = Len(t) /\ ~(p < Len(t))
    BY <1>1, <1>3
  <2>2. GrownTo(Len(t), Len(t)) = Len(t) + 1
    BY <1>1 DEF GrownTo
  <2>3. Append(t, u) \in Seq(Rec) /\ Len(Append(t, u)) = Len(t) + 1
    OBVIOUS
  <2>4. Placed(t, r, u) = Append(t, u)
    BY <1>3 DEF Placed
  <2> HIDE DEF p
  <2> QED BY <2>1, <2>2, <2>3, <2>4
<1> QED BY <1>2, <1>3

\* A write to a file made: its entry gets the chain and the size, its chain the
\* record, and nothing else changes.
Wrote(f, s, r, u) ==
    /\ Entry(f, s) /\ fcb[f].made /\ HandleOf(f).slot = s
    /\ WriteChain(f) \in Chains
    /\ dir'[s].name = dir[s].name /\ dir'[s].chain = WriteChain(f)
    /\ dir'[s].size = Len(chain'[WriteChain(f)])
    /\ HandleOf(f).size <= dir'[s].size
    /\ handle'[fcb[f].idx].chain = WriteChain(f) /\ handle'[fcb[f].idx].size = dir'[s].size
    /\ handle'[fcb[f].idx].slot = s
    /\ \A t \in Slots \ {s} : dir'[t] = dir[t] /\ dir[t].chain # WriteChain(f)
    /\ chain'[WriteChain(f)] = Placed(Held(s), r, u)
    /\ \A c \in Chains \ {WriteChain(f)} : chain'[c] = chain[c]

LEMMA WriteMade ==
    ASSUME ~WriteOpened, GenInv, Linked, NEW f \in Blocks, NEW r \in Nat, NEW u \in Data,
           WriteAt(f, r, u)
    PROVE  \E s \in Slots : Wrote(f, s, r, u)
<1> DEFINE h == HandleOf(f)
           p == Clamped(h, r)
           c == WriteChain(f)
           n == GrownTo(h.size, p)
<1>1. TypeOK
  BY DEF GenInv
<1>2. /\ Resolves(f) /\ fcb[f].made /\ c \in Chains
      /\ chain' = IF h.chain = 0 THEN [chain EXCEPT ![c] = <<u>>] ELSE Written(c, p, u)
      /\ handle'[fcb[f].idx].chain = c /\ handle'[fcb[f].idx].size = n
      /\ handle'[fcb[f].idx].slot = h.slot
      /\ \A t \in Slots : dir'[t].name = dir[t].name
      /\ \A t \in Slots \ {h.slot} : dir'[t] = dir[t]
      /\ h.slot \in Slots => dir'[h.slot].chain = c /\ dir'[h.slot].size = n
  BY <1>1, WriteIs
<1>3. PICK s \in Slots : Entry(f, s)
  BY <1>2 DEF Linked, HasEntry
<1>4. h.slot = s /\ h.chain = dir[s].chain /\ h.size = dir[s].size
  BY <1>2, <1>3 DEF Entry
<1>5. dir[s].name \in Names
  BY <1>1, <1>2, <1>3, HandleTypes DEF Entry
<1>6. Held(s) \in Seq(Rec) /\ Len(Held(s)) = h.size
  BY <1>1, <1>4, <1>5, TextIs DEF Texts
<1>7. /\ h.chain # 0 => c = h.chain
      /\ h.chain = 0 => \A t \in Slots : dir[t].chain # c
  BY <1>1, <1>2, WriteChainIs, Params
<1>8. c # 0 /\ \A t \in Slots \ {s} : dir[t].chain # c
  BY <1>2, <1>4, <1>7, Params DEF Linked, OneChain
<1>9. p = IF r > Len(Held(s)) THEN Len(Held(s)) ELSE r
  BY <1>6 DEF Clamped
<1>10. n \in Nat /\ n >= h.size
  BY <1>1, <1>2, ClampedType
<1>11. u \in Rec
  BY DEF Rec
<1> HIDE DEF h, p, c, n
<1>12. /\ Placed(Held(s), r, u) = IF p < Len(Held(s)) THEN ReplaceAt(Held(s), p + 1, u)
                                  ELSE Append(Held(s), u)
       /\ Len(Placed(Held(s), r, u)) = GrownTo(Len(Held(s)), p)
  BY <1>6, <1>9, <1>11, PlacedIs
<1>13. chain \in [Chains -> Seq(Rec)]
  BY <1>1 DEF TypeOK
<1>14. /\ chain'[c] = Placed(Held(s), r, u)
       /\ \A d \in Chains \ {c} : chain'[d] = chain[d]
  <2>1. CASE h.chain = 0
    <3>1. Held(s) = <<>>
      BY <1>4, <2>1 DEF Held
    <3>2. Placed(<<>>, r, u) = <<u>>
      BY DEF Placed
    <3> QED BY <1>2, <1>13, <2>1, <3>1, <3>2
  <2>2. CASE h.chain # 0
    <3>1. Held(s) = chain[c]
      BY <1>4, <1>7, <2>2 DEF Held
    <3>2. chain' = IF p < Len(chain[c]) THEN [chain EXCEPT ![c] = ReplaceAt(chain[c], p + 1, u)]
                   ELSE [chain EXCEPT ![c] = Append(chain[c], u)]
      BY <1>2, <2>2 DEF Written
    <3> DEFINE w == IF p < Len(chain[c]) THEN ReplaceAt(chain[c], p + 1, u)
                    ELSE Append(chain[c], u)
    <3>3. w = Placed(Held(s), r, u)
      BY <1>12, <3>1
    <3>4. chain' = [chain EXCEPT ![c] = w]
      BY <3>2
    <3> HIDE DEF w
    <3> QED BY <1>2, <1>13, <3>3, <3>4
  <2> QED BY <2>1, <2>2
<1>15. n = Len(chain'[c])
  BY <1>6, <1>12, <1>14 DEF n
<1>16. WriteChain(f) = c /\ HandleOf(f) = h
  BY DEF c, h
<1>17. Wrote(f, s, r, u)
  BY <1>2, <1>3, <1>4, <1>8, <1>10, <1>14, <1>15, <1>16 DEF Wrote
<1> QED BY <1>17

LEMMA LinkWrite ==
    ASSUME ~WriteOpened, GenInv, Young, Linked, NEW f \in Blocks, NEW r \in Nat, NEW q \in Nat,
           NEW u \in Data, WriteAt(f, r, u), Advance(f, q, FALSE)
    PROVE  Linked'
<1> DEFINE c == WriteChain(f)
<1>1. PICK s \in Slots : Wrote(f, s, r, u)
  BY WriteMade
<1>2. /\ Entry(f, s) /\ fcb[f].made /\ c \in Chains
      /\ dir'[s].name = dir[s].name /\ dir'[s].chain = c /\ dir'[s].size = Len(chain'[c])
      /\ HandleOf(f).size <= dir'[s].size
      /\ handle'[fcb[f].idx].chain = c /\ handle'[fcb[f].idx].size = dir'[s].size
      /\ handle'[fcb[f].idx].slot = s
      /\ \A t \in Slots \ {s} : dir'[t] = dir[t] /\ dir[t].chain # c
      /\ \A d \in Chains \ {c} : chain'[d] = chain[d]
  BY <1>1 DEF Wrote
<1>3. c # 0
  BY <1>2, Params
<1>4. Resolves(f) /\ fcb[f].magic /\ fcb[f].name \in Names /\ fcb[f].idx \in Handles
  BY HandleTypes DEF WriteAt, GenInv
<1>5. /\ \A k \in Handles \ {fcb[f].idx} : handle'[k] = handle[k]
      /\ handle'[fcb[f].idx].used = HandleOf(f).used /\ handle'[fcb[f].idx].gen = HandleOf(f).gen
      /\ handle' \in [Handles -> HandleType] /\ dir' \in [Slots -> EntryType]
  BY WriteIs DEF GenInv
<1>6. /\ \A g \in Blocks \ {f} : fcb'[g] = fcb[g]
      /\ \A g \in Blocks : fcb'[g].magic => Like(fcb'[g], fcb[g])
      /\ ~fcb'[f].inSeq
  BY <1>4, AdvanceIs
<1> HIDE DEF c
<1>7. \A g \in Blocks : Resolves(g)' => Resolves(g) /\ Like(fcb'[g], fcb[g])
  <2>1. SUFFICES ASSUME NEW g \in Blocks, Resolves(g)'
                 PROVE  Resolves(g) /\ Like(fcb'[g], fcb[g])
    OBVIOUS
  <2>2. /\ fcb'[g].magic /\ handle'[fcb'[g].idx].used
        /\ handle'[fcb'[g].idx].gen = fcb'[g].gen
    BY <2>1 DEF Resolves
  <2>3. Like(fcb'[g], fcb[g])
    BY <1>6, <2>2
  <2>4. fcb[g].magic /\ fcb'[g].idx = fcb[g].idx /\ fcb'[g].gen = fcb[g].gen
    BY <2>3 DEF Like
  <2>5. fcb[g].idx \in Handles
    BY <2>4 DEF GenInv, TypeOK
  <2>6. /\ handle'[fcb[g].idx].used = handle[fcb[g].idx].used
        /\ handle'[fcb[g].idx].gen = handle[fcb[g].idx].gen
    BY <1>5, <2>5 DEF HandleOf
  <2> QED BY <2>2, <2>3, <2>4, <2>6 DEF Resolves
\* Two blocks of one handle are of one open, and so copies.
<1>8. \A g \in Blocks : Resolves(g) /\ fcb[g].idx = fcb[f].idx =>
         fcb[g].name = fcb[f].name /\ fcb[g].made
  BY <1>2, <1>4, AllCurrent DEF Currents, GenInv, Copies, HandleOf, Resolves
<1>9. \A g \in Blocks : Resolves(g) /\ fcb[g].idx # fcb[f].idx =>
         HandleOf(g)' = handle[fcb[g].idx] \/ ~Resolves(g)'
  BY <1>5, <1>7 DEF HandleOf, Like, GenInv, TypeOK, Resolves
<1>10. OneEntry' /\ OneChain'
  <2>1. OneEntry'
    BY <1>2 DEF Linked, OneEntry
  <2>2. OneChain'
    BY <1>2 DEF Linked, OneChain
  <2> QED BY <2>1, <2>2
<1>11. WholeChain'
  <2>1. SUFFICES ASSUME NEW t \in Slots
                 PROVE  /\ dir'[t].name = None => dir'[t].chain = 0
                        /\ dir'[t].chain = 0 => dir'[t].size = 0
                        /\ dir'[t].chain # 0 => Len(chain'[dir'[t].chain]) = dir'[t].size
    BY DEF WholeChain
  <2>2. CASE t = s
    BY <1>2, <1>3, <1>4, <2>2, Params DEF Entry
  <2>3. CASE t # s
    <3>1. dir'[t] = dir[t] /\ dir[t].chain # c /\ dir[t].chain \in Chains \cup {0}
      BY <1>2, <2>3 DEF GenInv, TypeOK, EntryType
    <3>2. dir[t].chain # 0 => chain'[dir[t].chain] = chain[dir[t].chain]
      BY <1>2, <3>1
    <3> QED BY <3>1, <3>2 DEF Linked, WholeChain
  <2> QED BY <2>2, <2>3
<1>12. HasEntry'
  <2>1. SUFFICES ASSUME NEW g \in Blocks, Resolves(g)'
                 PROVE  \E t \in Slots : Entry(g, t)'
    BY DEF HasEntry
  <2>2. Resolves(g) /\ Like(fcb'[g], fcb[g])
    BY <1>7, <2>1
  <2>3. PICK t \in Slots : Entry(g, t)
    BY <2>2 DEF Linked, HasEntry
  <2>4. HandleOf(g)' = handle'[fcb[g].idx] /\ fcb'[g].name = fcb[g].name /\ fcb'[g].made = fcb[g].made
    BY <2>2 DEF HandleOf, Like
  <2>5. CASE fcb[g].idx = fcb[f].idx
    <3>1. fcb[g].name = fcb[f].name
      BY <1>8, <2>2, <2>5
    <3>2. dir'[s].size \in Nat
      BY <1>5 DEF EntryType
    <3>3. Entry(g, s)'
      BY <1>2, <1>3, <2>4, <2>5, <3>1, <3>2 DEF Entry
    <3> QED BY <3>3
  <2>6. CASE fcb[g].idx # fcb[f].idx
    <3>1. HandleOf(g)' = HandleOf(g) /\ HandleOf(g) \in HandleType
      BY <1>9, <2>1, <2>2, <2>6, HandleTypes DEF HandleOf, GenInv
    <3>2. CASE t = s
      <4>1. fcb[g].name = fcb[f].name
        BY <1>2, <2>3, <3>2 DEF Entry
      <4>2. ~fcb[g].made
        BY <1>2, <1>4, <2>2, <2>6, <4>1 DEF Linked, MadeOnce
      <4>3. /\ HandleOf(f).chain = dir[s].chain /\ HandleOf(f).size = dir[s].size
            /\ HandleOf(g).size <= dir[s].size
            /\ HandleOf(g).chain # 0 => HandleOf(g).chain = dir[s].chain
            /\ HandleOf(g).chain = 0 => HandleOf(g).size = 0
            /\ dir[s].name = fcb[g].name
        BY <1>2, <2>3, <3>2 DEF Entry
      <4>4. HandleOf(g).chain # 0 => c = HandleOf(g).chain
        <5>1. HandleOf(f).chain # 0 => c = HandleOf(f).chain
          BY DEF c, WriteChain
        <5> QED BY <4>3, <5>1
      <4>5. HandleOf(g).size <= dir'[s].size
        <5>1. HandleOf(g).size \in Nat /\ HandleOf(f).size \in Nat /\ dir'[s].size \in Nat
          BY <1>4, <1>5, <3>1, HandleTypes DEF HandleType, EntryType, GenInv
        <5> QED BY <1>2, <4>3, <5>1
      <4>6. Entry(g, s)'
        BY <1>2, <2>4, <3>1, <4>2, <4>3, <4>4, <4>5 DEF Entry
      <4> QED BY <4>6
    <3>3. CASE t # s
      <4>1. Entry(g, t)'
        BY <1>2, <2>3, <2>4, <3>1, <3>3 DEF Entry
      <4> QED BY <4>1
    <3> QED BY <3>2, <3>3
  <2> QED BY <2>5, <2>6
<1>13. MadeOnce'
  BY <1>7 DEF Linked, MadeOnce, Like
<1>14. InStep'
  <2>1. SUFFICES ASSUME NEW g \in Blocks, Resolves(g)', fcb'[g].inSeq,
                        fcb'[g].made \/ HandleOf(g)'.size < ExtentRecs
                 PROVE  fcb'[g].rec = fcb'[g].read
    BY DEF InStep
  <2>2. g # f /\ fcb'[g] = fcb[g] /\ Resolves(g)
    BY <1>6, <1>7, <2>1
  <2>3. fcb[g].made \/ HandleOf(g).size < ExtentRecs
    <3>1. CASE fcb[g].idx = fcb[f].idx
      BY <1>8, <2>2, <3>1
    <3>2. CASE fcb[g].idx # fcb[f].idx
      BY <1>9, <2>1, <2>2, <3>2 DEF HandleOf
    <3> QED BY <3>1, <3>2
  <2> QED BY <2>1, <2>2, <2>3 DEF Linked, InStep
<1> QED BY <1>10, <1>11, <1>12, <1>13, <1>14 DEF Linked

LEMMA LinkStep == ~WriteOpened /\ IInv /\ [Next]_vars => IInv'
<1> SUFFICES ASSUME ~WriteOpened, IInv, [Next]_vars PROVE IInv'
  OBVIOUS
<1>1. GenInv /\ GenInv'
  BY GenStep DEF IInv
<1>2. SUFFICES ASSUME Young' PROVE Linked'
  BY <1>1 DEF IInv
<1>3. opens' = opens \/ opens' = opens + 1
  <2>1. ASSUME NEW f \in Blocks, NEW n \in Names, Open(f, n) \/ Make(f, n)
        PROVE  opens' = opens + 1
    BY <2>1, MakeIs DEF Open, Taken
  <2>2. ASSUME NEW f \in Blocks, NEW r, NEW u, WriteAt(f, r, u) PROVE opens' = opens
    BY <2>2 DEF WriteAt
  <2> QED BY <2>1, <2>2 DEF Next, vars, CopyBlock, Close, Forget, ReadSeq, ReadRandom,
                            WriteSeq, WriteRandom, Delete
<1>4. Young /\ Linked
  BY <1>1, <1>2, <1>3, Params DEF IInv, Young, GenInv, TypeOK
<1>5. ASSUME NEW f \in Blocks, NEW n \in Names, Open(f, n) \/ Make(f, n) PROVE Linked'
  BY <1>1, <1>2, <1>4, <1>5, LinkOpen, LinkMake
<1>6. ASSUME NEW f \in Blocks, NEW g \in Blocks, CopyBlock(f, g) PROVE Linked'
  BY <1>1, <1>4, <1>6, LinkCopy
<1>7. ASSUME NEW f \in Blocks, Close(f) \/ Forget(f) \/ ReadSeq(f) PROVE Linked'
  BY <1>1, <1>4, <1>7, LinkClose, LinkForget, LinkReadSeq
<1>8. ASSUME NEW f \in Blocks, NEW r \in RandomRecords(f), ReadRandom(f, r) PROVE Linked'
  BY <1>1, <1>4, <1>8, LinkReadRandom
<1>9. ASSUME NEW f \in Blocks, NEW r \in RandomRecords(f), NEW u \in Data, WriteRandom(f, r, u)
      PROVE Linked'
  <2>1. WriteAt(f, r, u) /\ Advance(f, r, FALSE) /\ r \in Nat
    BY <1>1, <1>9, RandomRecord DEF WriteRandom, WriteAt
  <2> QED BY <1>1, <1>4, <2>1, LinkWrite
<1>10. ASSUME NEW f \in Blocks, NEW u \in Data, WriteSeq(f, u) PROVE Linked'
  <2>1. WriteAt(f, fcb[f].rec, u) /\ Advance(f, fcb[f].rec + 1, FALSE) /\ fcb[f].rec \in Nat
    BY <1>1, <1>10 DEF WriteSeq, GenInv, TypeOK, BlockType
  <2>2. fcb[f].rec + 1 \in Nat
    BY <2>1
  <2> QED BY <1>1, <1>4, <2>1, <2>2, LinkWrite
<1>11. ASSUME NEW n \in Names, Delete(n) PROVE Linked'
  BY <1>1, <1>4, <1>11, LinkDelete
<1>12. CASE UNCHANGED vars
  BY <1>4, <1>12 DEF vars, Linked, OneEntry, OneChain, WholeChain, HasEntry, MadeOnce, InStep,
                     Entry, Resolves, HandleOf
<1> QED BY <1>5, <1>6, <1>7, <1>8, <1>9, <1>10, <1>11, <1>12 DEF Next

LEMMA WriteLands ==
    ASSUME ~WriteOpened, IInv, Young, NEW f \in Blocks, NEW r \in Nat, NEW q \in Nat,
           NEW u \in Data, WriteAt(f, r, u), Advance(f, q, FALSE)
    PROVE  Lands(fcb[f].name, r, u)
<1> DEFINE c == WriteChain(f)
<1>1. GenInv /\ Linked /\ TypeOK
  BY DEF IInv, GenInv
<1>2. TypeOK' /\ Linked'
  BY <1>1, LinkWrite, GenWrite DEF GenInv
<1>3. Texts /\ Texts'
  BY <1>1, <1>2, TextIs, TextIsNext
<1>4. PICK s \in Slots : Wrote(f, s, r, u)
  BY <1>1, WriteMade
<1>5. /\ Entry(f, s) /\ c \in Chains /\ dir'[s].name = dir[s].name /\ dir'[s].chain = c
      /\ \A t \in Slots \ {s} : dir'[t] = dir[t] /\ dir[t].chain # c
      /\ chain'[c] = Placed(Held(s), r, u)
      /\ \A d \in Chains \ {c} : chain'[d] = chain[d]
  BY <1>4 DEF Wrote
<1>6. Resolves(f) /\ fcb[f].magic /\ fcb[f].name \in Names /\ dir[s].name = fcb[f].name
  BY <1>1, <1>5, HandleTypes DEF WriteAt, Entry
<1>7. fcb'[f].name = fcb[f].name
  BY <1>1, <1>6, AdvanceIs DEF Like
<1>8. c # 0
  BY <1>5, Params
<1> HIDE DEF c
<1>9. Text(dir, fcb[f].name)' = Placed(Text(dir, fcb[f].name), r, u)
  <2>1. Text(dir, fcb[f].name) = Held(s)
    BY <1>3, <1>6 DEF Texts
  <2>2. Text(dir, dir[s].name)' = Held(s)'
    BY <1>3, <1>5, <1>6 DEF Texts
  <2>3. Text(dir, fcb[f].name)' = Text(dir, dir[s].name)'
    BY <1>5, <1>6, <1>7 DEF Text
  <2>4. Held(s)' = chain'[c]
    BY <1>5, <1>8 DEF Held
  <2> QED BY <1>5, <2>1, <2>2, <2>3, <2>4
<1>10. ASSUME NEW m \in Others(fcb[f].name) PROVE Text(dir, m)' = Text(dir, m)
  <2>1. m \in Names /\ m # fcb[f].name /\ SlotOf(m) # NoSlot
    BY <1>10 DEF Others
  <2>2. PICK t \in Slots : dir[t].name = m
    BY <2>1, SlotOfName
  <2>3. t # s /\ dir'[t] = dir[t] /\ dir[t].chain # c
    BY <1>5, <1>6, <2>1, <2>2
  <2>4. Text(dir, m) = Held(t)
    BY <1>3, <2>1, <2>2 DEF Texts
  <2>5. Text(dir, m)' = Held(t)'
    <3>1. Text(dir, dir[t].name)' = Held(t)'
      BY <1>3, <2>1, <2>2, <2>3 DEF Texts
    <3>2. dir'[t].name = m
      BY <2>2, <2>3
    <3> QED BY <3>1, <3>2 DEF Text
  <2>6. dir[t].chain \in Chains \cup {0}
    BY <1>1 DEF TypeOK, EntryType
  <2>7. Held(t)' = Held(t)
    BY <1>5, <2>3, <2>6 DEF Held
  <2> QED BY <2>4, <2>5, <2>7
<1> QED BY <1>9, <1>10 DEF Lands

LEMMA InvReads == IInv => ReadsInOrder
<1> SUFFICES ASSUME IInv, Young, NEW f \in Blocks, CanRead(f, fcb[f].rec), fcb[f].inSeq,
                    fcb[f].made \/ HandleOf(f).size < ExtentRecs
             PROVE  Given(f, fcb[f].rec) = Text(dir, fcb[f].name)[fcb[f].read + 1]
  BY DEF ReadsInOrder, Young
<1>1. TypeOK /\ Linked /\ Resolves(f)
  BY DEF IInv, GenInv, CanRead
<1>2. fcb[f].rec = fcb[f].read /\ fcb[f].rec < HandleOf(f).size
  BY <1>1 DEF Linked, InStep, CanRead
<1>3. PICK s \in Slots : Entry(f, s)
  BY <1>1 DEF Linked, HasEntry
<1>4. fcb[f].name \in Names /\ fcb[f].rec \in Nat
  BY <1>1, HandleTypes DEF BlockType
<1>5. HandleOf(f).chain # 0 /\ HandleOf(f).chain = dir[s].chain
  BY <1>2, <1>3, <1>4 DEF Entry
<1>6. Text(dir, fcb[f].name) = Held(s)
  BY <1>1, <1>3, <1>4, TextIs DEF Texts, Entry
<1>7. Held(s) = chain[HandleOf(f).chain]
  BY <1>5 DEF Held
<1> QED BY <1>2, <1>6, <1>7 DEF Given
-----------------------------------------------------------------------------
\* As long as programs write only to files they have made, a record goes where
\* the program asked for it or to the end, and into no other file, whatever
\* handles and copies of blocks are about.  Of files that were opened it is
\* false: fat_fopen leaves the handle's note of its entry as it was.
THEOREM RecordsLand ==
    ASSUME ~WriteOpened
    PROVE  Spec => WritesLand
<1> DEFINE W == opens <= Gens /\ <<chain, handle>>' # <<chain, handle>> =>
                   \A f \in Blocks, u \in Data :
                     /\ WriteSeq(f, u) => Lands(fcb[f].name, fcb[f].rec, u)
                     /\ \A r \in RandomRecords(f) :
                           WriteRandom(f, r, u) => Lands(fcb[f].name, r, u)
<1>1. ~WriteOpened /\ IInv /\ [Next]_vars => IInv'
  BY LinkStep
<1>2. IInv => W
  <2>1. SUFFICES ASSUME IInv, opens <= Gens, NEW f \in Blocks, NEW u \in Data
                 PROVE  /\ WriteSeq(f, u) => Lands(fcb[f].name, fcb[f].rec, u)
                        /\ \A r \in RandomRecords(f) :
                              WriteRandom(f, r, u) => Lands(fcb[f].name, r, u)
    OBVIOUS
  <2>2. Young /\ GenInv
    BY <2>1 DEF Young, IInv
  <2>3. ASSUME WriteSeq(f, u) PROVE Lands(fcb[f].name, fcb[f].rec, u)
    <3>1. WriteAt(f, fcb[f].rec, u) /\ Advance(f, fcb[f].rec + 1, FALSE) /\ fcb[f].rec \in Nat
      BY <2>2, <2>3 DEF WriteSeq, GenInv, TypeOK, BlockType
    <3>2. fcb[f].rec + 1 \in Nat
      BY <3>1
    <3> QED BY <2>1, <2>2, <3>1, <3>2, WriteLands
  <2>4. ASSUME NEW r \in RandomRecords(f), WriteRandom(f, r, u)
        PROVE  Lands(fcb[f].name, r, u)
    <3>1. WriteAt(f, r, u) /\ Advance(f, r, FALSE) /\ r \in Nat
      BY <2>2, <2>4, RandomRecord DEF WriteRandom, WriteAt
    <3> QED BY <2>1, <2>2, <3>1, WriteLands
  <2> QED BY <2>3, <2>4
<1>3. Init => IInv
  BY InitInv
<1>4. Spec => []IInv
  BY <1>1, <1>3, PTL DEF Spec
<1> HIDE DEF W
<1>5. Spec => [][W]_vars
  BY <1>2, <1>4, PTL
<1> QED BY <1>5 DEF WritesLand, W

\* Read one after the other, the records of a file are those of its text, also
\* while other blocks, copies among them, read it, and while one writes it.
THEOREM RecordsInOrder ==
    ASSUME ~WriteOpened
    PROVE  Spec => []ReadsInOrder
<1>1. ~WriteOpened /\ IInv /\ [Next]_vars => IInv'
  BY LinkStep
<1> QED BY <1>1, InitInv, InvReads, PTL DEF Spec
=============================================================================
