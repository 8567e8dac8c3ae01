----------------------------- MODULE FatProofs -----------------------------
(***************************************************************************)
(* Proofs about FatFiles, for any number of clusters, entries and names:    *)
(* the types, that the driver's buffers are never believed wrongly, that no *)
(* cluster is ever in two files or in none, and that a write comes back     *)
(* short only on a full volume.                                             *)
(***************************************************************************)
EXTENDS FatFiles, FiniteSetTheorems, WellFoundedInduction, TLAPS

-----------------------------------------------------------------------------
(***************************************************************************)
(* Constants.                                                               *)
(***************************************************************************)
LEMMA Numbers == /\ Clusters \subseteq Nat /\ Free \notin Clusters /\ Eoc \notin Clusters
                 /\ Free # Eoc /\ Slots \subseteq Nat /\ 0 \notin Slots
BY FatAssumption, SMT DEF Clusters, Free, Eoc, Slots

\* A position falls on a sector of its cluster and a unit of its sector.
LEMMA Positions == \A p \in Nat : Sec(p) \in Sectors /\ Off(p) \in Offsets
<1> SUFFICES ASSUME NEW p \in Nat PROVE Sec(p) \in Sectors /\ Off(p) \in Offsets
  OBVIOUS
<1>1. \A m \in Nat, n \in Nat \ {0} : m % n \in 0 .. n - 1
  OBVIOUS
<1>2. p \div SectorUnits \in Nat
  <2>1. \A n \in Nat \ {0} : p \div n \in Nat
    OBVIOUS
  <2>2. QED
    BY <2>1, FatAssumption
<1>3. QED
  BY <1>1, <1>2, FatAssumption DEF Sec, Off, Sectors, Offsets

LEMMA LeastIn == \A S : Least(S) # 0 => Least(S) \in S
BY DEF Least

\* A non-empty set of numbers has a least one: below each of its members
\* there are finitely many.
LEMMA HasLeast ==
    ASSUME NEW S \in SUBSET Nat, S # {}
    PROVE  \E m \in S : IsLeast(m, S)
<1> DEFINE Below(m) == {k \in S : k < m}
           T == {Below(m) : m \in S}
<1>1. \A m \in S : Below(m) \in SUBSET Nat /\ IsFiniteSet(Below(m))
  <2> SUFFICES ASSUME NEW m \in S PROVE IsFiniteSet(Below(m))
    OBVIOUS
  <2>1. \A s \in Below(m) : s <= m
    OBVIOUS
  <2>2. Below(m) \in SUBSET Nat /\ m \in Nat
    OBVIOUS
  <2> HIDE DEF Below
  <2>3. QED
    BY <2>1, <2>2, FS_BoundedSetOfNaturals
<1>2. T \subseteq FiniteSubsetsOf(Nat) /\ T # {}
  BY <1>1 DEF FiniteSubsetsOf
<1>3. \E x \in T : \A y \in T : <<y, x>> \notin StrictSubsetOrdering(Nat)
  <2> HIDE DEF T
  <2> QED
    BY <1>2, FS_StrictSubsetOrderingWellFounded, WFMin
<1>4. PICK m \in S : \A k \in S : <<Below(k), Below(m)>> \notin StrictSubsetOrdering(Nat)
  BY <1>3
<1>5. ASSUME NEW k \in S, k < m PROVE FALSE
  <2>1. Below(k) \subseteq Below(m)
    <3>1. \A j \in S : j < k => j < m
      BY <1>5
    <3>2. QED
      BY <3>1
  <2>2. k \in Below(m) /\ k \notin Below(k)
    BY <1>5
  <2>3. Below(k) \in SUBSET Nat /\ Below(m) \in SUBSET Nat
    OBVIOUS
  <2> HIDE DEF Below
  <2>4. QED
    BY <1>4, <1>5, <2>1, <2>2, <2>3 DEF StrictSubsetOrdering
<1>6. QED
  BY <1>5 DEF IsLeast

LEMMA NoSectorType == /\ NoSector \in Cached /\ NoSector.clus = Free
                       /\ Empty \in Bytes
BY FatAssumption DEF NoSector, Cached, Empty, Bytes, Sectors

-----------------------------------------------------------------------------
(***************************************************************************)
(* The FAT sector and the allocation of a cluster.                          *)
(***************************************************************************)
\* Whether Apart holds is a matter of the FAT and the directory alone.
LEMMA ApartFrame ==
    ASSUME NEW v, NEW w, v.fat = w.fat, v.dir = w.dir, Apart(v)
    PROVE  Apart(w)
BY DEF Apart, LinksApart, HeadsApart, HeadsFirst, LinksInUse, HeadsInUse, Live

LEMMA LoadFatSound ==
    ASSUME NEW v \in Volume, Honest(v)
    PROVE  LET w == LoadFat(v)
           IN  /\ w \in Volume /\ Honest(w) /\ w.buf = v.fat
               /\ w.fat = v.fat /\ w.dir = v.dir /\ w.data = v.data /\ w.sec = v.sec
BY DEF Volume, Honest, LoadFat

\* fat_alloc_cluster gives away only a cluster the FAT says is free.
LEMMA AllocFree ==
    ASSUME NEW v \in Volume, Honest(v)
    PROVE  /\ Alloc(v) \in Clusters \cup {Free}
           /\ Alloc(v) # Free => Alloc(v) \in Clusters /\ v.fat[Alloc(v)] = Free
<1>1. FreeClusters(v) = {c \in Clusters : v.fat[c] = Free}
  BY LoadFatSound, Numbers DEF FreeClusters, NextClus
<1>2. QED
  BY <1>1, LeastIn DEF Alloc, Free

\* fat_alloc_cluster comes back with nothing only when nothing is free.
LEMMA AllocNone ==
    ASSUME NEW v \in Volume, Honest(v), Alloc(v) = Free
    PROVE  \A c \in Clusters : v.fat[c] # Free
<1> DEFINE S == {c \in Clusters : v.fat[c] = Free}
<1>1. FreeClusters(v) = S
  BY LoadFatSound, Numbers DEF FreeClusters, NextClus
<1>2. S \in SUBSET Nat /\ 0 \notin S
  BY Numbers DEF Free
<1>3. Least(S) = 0
  BY <1>1 DEF Alloc, Free
<1> HIDE DEF S
<1>4. S = {}
  BY <1>2, <1>3, HasLeast DEF Least
<1>5. QED
  BY <1>4 DEF S

\* fat_set_entry keeps the buffers honest, whatever it writes.
LEMMA SetEntrySound ==
    ASSUME NEW v \in Volume, Honest(v), NEW c \in Clusters \cup {Free}, NEW x \in Links
    PROVE  LET w == SetEntry(v, c, x)
           IN  /\ w \in Volume /\ Honest(w) /\ w.valid = FALSE
               /\ w.fat = [v.fat EXCEPT ![c] = x]
               /\ w.dir = v.dir /\ w.data = v.data /\ w.sec = v.sec
BY DEF Volume, Honest, SetEntry

LEMMA AfterAllocSound ==
    ASSUME NEW v \in Volume, Honest(v)
    PROVE  LET w == AfterAlloc(v)
           IN  /\ w \in Volume /\ Honest(w)
               /\ w.dir = v.dir /\ w.data = v.data /\ w.sec = v.sec
               /\ Alloc(v) = Free => w.fat = v.fat
               /\ Alloc(v) # Free => w.fat = [v.fat EXCEPT ![Alloc(v)] = Eoc] /\ w.valid = FALSE
<1>1. Eoc \in Links
  BY DEF Links
<1>2. /\ LoadFat(v) \in Volume /\ Honest(LoadFat(v)) /\ LoadFat(v).fat = v.fat
      /\ LoadFat(v).dir = v.dir /\ LoadFat(v).data = v.data /\ LoadFat(v).sec = v.sec
  BY LoadFatSound
<1>3. CASE Alloc(v) = Free
  BY <1>2, <1>3 DEF AfterAlloc
<1>4. CASE Alloc(v) # Free
  <2> DEFINE x == LoadFat(v)
             c == Alloc(v)
             w == SetEntry(x, c, Eoc)
  <2>1. c \in Clusters \cup {Free}
    BY <1>4, AllocFree
  <2>2. AfterAlloc(v) = w
    BY <1>4 DEF AfterAlloc
  <2>3. x \in Volume /\ Honest(x) /\ x.fat = v.fat
        /\ x.dir = v.dir /\ x.data = v.data /\ x.sec = v.sec
    BY <1>2
  <2> HIDE DEF x, c
  <2>4. /\ w \in Volume /\ Honest(w) /\ w.valid = FALSE
        /\ w.fat = [x.fat EXCEPT ![c] = Eoc]
        /\ w.dir = x.dir /\ w.data = x.data /\ w.sec = x.sec
    BY <1>1, <2>1, <2>3, SetEntrySound
  <2> HIDE DEF w
  <2>5. /\ w \in Volume /\ Honest(w) /\ w.valid = FALSE
        /\ w.fat = [v.fat EXCEPT ![c] = Eoc]
        /\ w.dir = v.dir /\ w.data = v.data /\ w.sec = v.sec
    BY <2>3, <2>4
  <2>6. QED
    BY <1>4, <2>2, <2>5 DEF c
<1>5. QED
  BY <1>3, <1>4

-----------------------------------------------------------------------------
(***************************************************************************)
(* Links.                                                                   *)
(***************************************************************************)
\* A cluster that is in use and that nothing refers to.
Fresh(v, c) == /\ c \in Clusters /\ v.fat[c] # Free
               /\ \A d \in Clusters : v.fat[d] # c
               /\ \A s \in Live(v) : v.dir[s].first # c

\* Marking a free cluster as the end of a chain gives a fresh one.
LEMMA MarkApart ==
    ASSUME NEW v \in Volume, NEW w \in Volume, Apart(v), NEW c \in Clusters, v.fat[c] = Free,
           w.fat = [v.fat EXCEPT ![c] = Eoc], w.dir = v.dir
    PROVE  Apart(w) /\ Fresh(w, c) /\ w.fat[c] = Eoc
<1> USE Numbers DEF Volume, Live
<1>1. w.fat[c] = Eoc /\ \A d \in Clusters : d # c => w.fat[d] = v.fat[d]
  OBVIOUS
<1>2. (\A d \in Clusters : v.fat[d] # c) /\ (\A s \in Live(v) : v.dir[s].first # c)
  BY DEF Apart, LinksInUse, HeadsInUse
<1>3. Fresh(w, c)
  BY <1>1, <1>2 DEF Fresh
<1>4. LinksApart(w) /\ HeadsApart(w)
  BY <1>1 DEF Apart, LinksApart, HeadsApart
<1>5. HeadsFirst(w)
  BY <1>1 DEF Apart, HeadsFirst, Entry
<1>6. LinksInUse(w) /\ HeadsInUse(w)
  BY <1>1 DEF Apart, LinksInUse, HeadsInUse, Entry
<1>7. QED
  BY <1>1, <1>3, <1>4, <1>5, <1>6 DEF Apart

\* Linking a fresh cluster behind another one.
LEMMA LinkApart ==
    ASSUME NEW v \in Volume, NEW w \in Volume, Apart(v), NEW c, Fresh(v, c),
           NEW d \in Clusters \cup {Free}, d # c,
           w.fat = [v.fat EXCEPT ![d] = c], w.dir = v.dir
    PROVE  Apart(w)
<1> USE Numbers DEF Volume, Live, Fresh
<1>1. \A e \in Clusters : w.fat[e] = IF e = d THEN c ELSE v.fat[e]
  OBVIOUS
<1>2. LinksApart(w) /\ HeadsApart(w)
  BY <1>1 DEF Apart, LinksApart, HeadsApart
<1>3. HeadsFirst(w)
  BY <1>1 DEF Apart, HeadsFirst
<1>4. LinksInUse(w) /\ HeadsInUse(w)
  BY <1>1 DEF Apart, LinksInUse, HeadsInUse, Entry
<1>5. QED
  BY <1>2, <1>3, <1>4 DEF Apart

\* Making a fresh cluster the first one of a file.
LEMMA HeadApart ==
    ASSUME NEW v \in Volume, NEW w \in Volume, Apart(v), NEW c, Fresh(v, c), NEW s \in Slots,
           w.fat = v.fat, w.dir = [v.dir EXCEPT ![s] = [v.dir[s] EXCEPT !.first = c]]
    PROVE  Apart(w)
<1> USE Numbers DEF Volume, Fresh
<1>1. \A t \in Slots : /\ w.dir[t].name = v.dir[t].name
                       /\ w.dir[t].first = IF t = s THEN c ELSE v.dir[t].first
  BY DEF Entry
<1>2. Live(w) = Live(v)
  BY <1>1 DEF Live
<1>3. LinksApart(w) /\ LinksInUse(w)
  BY DEF Apart, LinksApart, LinksInUse
<1>4. HeadsApart(w)
  BY <1>1, <1>2 DEF Apart, HeadsApart, Live
<1>5. HeadsFirst(w) /\ HeadsInUse(w)
  BY <1>1, <1>2 DEF Apart, HeadsFirst, HeadsInUse, Live
<1>6. QED
  BY <1>3, <1>4, <1>5 DEF Apart

\* An entry whose beginning and being live are as they were.
LEMMA EntryApart ==
    ASSUME NEW v \in Volume, NEW w \in Volume, Apart(v), NEW s \in Slots, NEW e \in Entry,
           w.fat = v.fat, w.dir = [v.dir EXCEPT ![s] = e],
           e.name = NoName \/ e.first = Free \/ (s \in Live(v) /\ e.first = v.dir[s].first)
    PROVE  Apart(w)
<1>1. w.dir[s] = e /\ \A t \in Slots : t # s => w.dir[t] = v.dir[t]
  BY DEF Volume
<1>2. Live(w) \subseteq Live(v) \cup {s}
  BY <1>1 DEF Live
<1>3. \A t \in Live(w) : w.dir[t].first # Free =>
         t \in Live(v) /\ w.dir[t].first = v.dir[t].first
  BY <1>1, <1>2 DEF Live
<1>4. LinksApart(w) /\ LinksInUse(w)
  BY DEF Apart, LinksApart, LinksInUse
<1>5. HeadsApart(w) /\ HeadsFirst(w) /\ HeadsInUse(w)
  BY <1>3 DEF Apart, HeadsApart, HeadsFirst, HeadsInUse
<1>6. QED
  BY <1>4, <1>5 DEF Apart

-----------------------------------------------------------------------------
(***************************************************************************)
(* Chains.                                                                  *)
(***************************************************************************)
\* Every cluster of a chain but the first is linked to from the chain, and
\* what the chain links to belongs to it.
LEMMA ChainLinks ==
    ASSUME NEW f \in [Clusters -> Links], NEW first \in Clusters
    PROVE  /\ \A c \in Chain(f, first) : c # first => \E d \in Chain(f, first) : f[d] = c
           /\ Chain(f, first) \subseteq Clusters
           /\ Closed(f, Chain(f, first))
<1> DEFINE C == Chain(f, first)
<1>1. C \subseteq Clusters
  BY DEF Chain
<1>2. Closed(f, C)
  <2> SUFFICES ASSUME NEW c \in C, f[c] \in Clusters PROVE f[c] \in C
    BY DEF Closed
  <2>1. \A S \in SUBSET Clusters : first \in S /\ Closed(f, S) => f[c] \in S
    BY DEF Chain, Closed
  <2>2. QED
    BY <2>1 DEF Chain
<1>3. ASSUME NEW c \in C, c # first, \A d \in C : f[d] # c PROVE FALSE
  <2> DEFINE S == C \ {c}
  <2>1. first \in C
    BY DEF Chain
  <2>2. S \in SUBSET Clusters /\ first \in S /\ Closed(f, S)
    BY <1>1, <1>2, <1>3, <2>1 DEF Closed
  <2>3. c \in S
    BY <2>2 DEF Chain
  <2>4. QED
    BY <2>3
<1>4. QED
  BY <1>1, <1>2, <1>3

\* Freeing a file's chain, with its entry cleared or marked, leaves the other
\* files as they were.
LEMMA FreedApart ==
    ASSUME NEW v \in Volume, NEW w \in Volume, Apart(v), NEW s \in Live(v),
           v.dir[s].first # Free, NEW e \in Entry, e.name = NoName \/ e.first = Free,
           w.fat = [c \in Clusters |-> IF c \in Chain(v.fat, v.dir[s].first) THEN Free
                                                                            ELSE v.fat[c]],
           w.dir = [v.dir EXCEPT ![s] = e]
    PROVE  Apart(w)
<1> DEFINE first == v.dir[s].first
           C     == Chain(v.fat, first)
<1>1. first \in Clusters /\ v.fat \in [Clusters -> Links] /\ s \in Slots
  BY DEF Volume, Entry, Live
<1>2. /\ \A c \in C : c # first => \E d \in C : v.fat[d] = c
      /\ C \subseteq Clusters
  BY <1>1, ChainLinks
<1> HIDE DEF C
<1>3. \A c \in Clusters : w.fat[c] = IF c \in C THEN Free ELSE v.fat[c]
  BY DEF C
<1>4. \A c \in Clusters \ C : v.fat[c] \notin C
  <2> SUFFICES ASSUME NEW c \in Clusters \ C, v.fat[c] \in C PROVE FALSE
    OBVIOUS
  <2>1. v.fat[c] # first
    BY <1>1 DEF Apart, HeadsFirst
  <2>2. QED
    BY <1>2, <2>1 DEF Apart, LinksApart
<1>5. /\ Live(w) \subseteq Live(v) \cup {s}
      /\ \A t \in Live(w) : w.dir[t].first # Free => 
            t # s /\ t \in Live(v) /\ w.dir[t].first = v.dir[t].first
  <2>1. w.dir[s] = e /\ \A t \in Slots : t # s => w.dir[t] = v.dir[t]
    BY <1>1 DEF Volume
  <2>2. QED
    BY <2>1 DEF Live
<1>6. \A t \in Live(w) : w.dir[t].first # Free => w.dir[t].first \in Clusters \ C
  <2> SUFFICES ASSUME NEW t \in Live(w), w.dir[t].first # Free PROVE w.dir[t].first \in Clusters \ C
    OBVIOUS
  <2>1. t \in Live(v) /\ t # s /\ w.dir[t].first = v.dir[t].first
    BY <1>5
  <2>2. v.dir[t].first \in Clusters
    BY <2>1 DEF Volume, Entry, Live
  <2>3. v.dir[t].first # first
    BY <2>1, <2>2 DEF Apart, HeadsApart
  <2>4. \A d \in Clusters : v.fat[d] # v.dir[t].first
    BY <2>1 DEF Apart, HeadsFirst
  <2>5. QED
    BY <1>2, <2>1, <2>2, <2>3, <2>4
<1>7. LinksApart(w) /\ LinksInUse(w)
  <2>1. \A c \in Clusters : w.fat[c] \in Clusters => c \notin C /\ w.fat[c] = v.fat[c]
    BY <1>3, Numbers
  <2>2. LinksApart(w)
    BY <2>1 DEF Apart, LinksApart
  <2>3. LinksInUse(w)
    BY <1>3, <1>4, <2>1 DEF Apart, LinksInUse
  <2>4. QED
    BY <2>2, <2>3
<1>8. HeadsApart(w)
  BY <1>5 DEF Apart, HeadsApart
<1>9. HeadsFirst(w) /\ HeadsInUse(w)
  BY <1>3, <1>5, <1>6 DEF Apart, HeadsFirst, HeadsInUse
<1>10. QED
  BY <1>7, <1>8, <1>9 DEF Apart

\* What links reach: a set that has the beginning of every file and, with a
\* cluster, the one it links to has every cluster that is not free.
Covered(v) ==
    \A S \in SUBSET Clusters :
       (\A s \in Live(v) : v.dir[s].first # Free => v.dir[s].first \in S) /\ Closed(v.fat, S)
          => \A c \in Clusters : v.fat[c] # Free => c \in S

\* The beginnings of v are beginnings of w.
Begins(w, c) == \E t \in Live(w) : w.dir[t].first = c

LEMMA SameCovered ==
    ASSUME NEW v, NEW w, w.fat = v.fat, Covered(v),
           \A s \in Live(v) : v.dir[s].first # Free => Begins(w, v.dir[s].first)
    PROVE  Covered(w)
<1> SUFFICES ASSUME NEW S \in SUBSET Clusters,
                    \A s \in Live(w) : w.dir[s].first # Free => w.dir[s].first \in S,
                    Closed(w.fat, S), NEW c \in Clusters, w.fat[c] # Free
             PROVE  c \in S
  BY DEF Covered
<1>1. \A s \in Live(v) : v.dir[s].first # Free => v.dir[s].first \in S
  BY DEF Begins
<1>2. QED
  BY <1>1 DEF Covered

LEMMA KeptCovered ==
    ASSUME NEW v, NEW w, w.fat = v.fat, w.dir = v.dir, Covered(v)
    PROVE  Covered(w)
BY SameCovered DEF Begins, Live

\* A cluster given to a file that had none.
LEMMA MarkCovered ==
    ASSUME NEW v \in Volume, NEW w, NEW c \in Clusters, v.fat[c] = Free,
           w.fat = [v.fat EXCEPT ![c] = Eoc], Covered(v), Begins(w, c),
           \A s \in Live(v) : v.dir[s].first # Free => Begins(w, v.dir[s].first)
    PROVE  Covered(w)
<1>1. v.fat \in [Clusters -> Links] /\ c # Free
  BY Numbers DEF Volume
<1> SUFFICES ASSUME NEW S \in SUBSET Clusters,
                    \A s \in Live(w) : w.dir[s].first # Free => w.dir[s].first \in S,
                    Closed(w.fat, S), NEW d \in Clusters, w.fat[d] # Free
             PROVE  d \in S
  BY DEF Covered
<1>2. c \in S /\ \A s \in Live(v) : v.dir[s].first # Free => v.dir[s].first \in S
  BY <1>1 DEF Begins
<1>3. Closed(v.fat, S)
  <2> SUFFICES ASSUME NEW e \in S, v.fat[e] \in Clusters PROVE v.fat[e] \in S
    BY DEF Closed
  <2>1. e # c /\ e \in Clusters
    BY Numbers
  <2>2. w.fat[e] = v.fat[e]
    BY <1>1, <2>1
  <2>3. QED
    BY <2>2 DEF Closed
<1>4. CASE d = c
  BY <1>2, <1>4
<1>5. CASE d # c
  <2>1. v.fat[d] # Free
    BY <1>1, <1>5
  <2>2. QED
    BY <1>2, <1>3, <2>1 DEF Covered
<1>6. QED
  BY <1>4, <1>5

\* A cluster linked behind the last of a chain.
LEMMA LinkCovered ==
    ASSUME NEW v \in Volume, NEW w, NEW c \in Clusters, v.fat[c] = Free,
           NEW d \in Clusters, v.fat[d] = Eoc,
           w.fat = [[v.fat EXCEPT ![c] = Eoc] EXCEPT ![d] = c], w.dir = v.dir, Covered(v)
    PROVE  Covered(w)
<1>1. v.fat \in [Clusters -> Links] /\ c # d /\ Free # Eoc
  BY Numbers DEF Volume
<1>2. w.fat[d] = c /\ \A e \in Clusters : e # c /\ e # d => w.fat[e] = v.fat[e]
  BY <1>1
<1> SUFFICES ASSUME NEW S \in SUBSET Clusters,
                    \A s \in Live(w) : w.dir[s].first # Free => w.dir[s].first \in S,
                    Closed(w.fat, S), NEW e \in Clusters, w.fat[e] # Free
             PROVE  e \in S
  BY DEF Covered
<1>3. \A s \in Live(v) : v.dir[s].first # Free => v.dir[s].first \in S
  BY DEF Live
<1>4. Closed(v.fat, S)
  <2> SUFFICES ASSUME NEW k \in S, v.fat[k] \in Clusters PROVE v.fat[k] \in S
    BY DEF Closed
  <2>1. k # c /\ k # d /\ k \in Clusters
    BY Numbers
  <2>2. QED
    BY <1>2, <2>1 DEF Closed
<1>5. \A k \in Clusters : v.fat[k] # Free => k \in S
  BY <1>3, <1>4 DEF Covered
<1>6. d \in S
  BY <1>1, <1>5
<1>7. c \in S
  BY <1>2, <1>6 DEF Closed
<1>8. QED
  BY <1>2, <1>5, <1>6, <1>7

\* A chain freed, and its file's entry with it.
LEMMA FreedCovered ==
    ASSUME NEW v \in Volume, NEW w, NEW first \in Clusters, Covered(v),
           w.fat = [c \in Clusters |-> IF c \in Chain(v.fat, first) THEN Free ELSE v.fat[c]],
           \A s \in Live(v) : v.dir[s].first \notin {Free, first} => Begins(w, v.dir[s].first)
    PROVE  Covered(w)
<1> DEFINE C == Chain(v.fat, first)
<1>1. v.fat \in [Clusters -> Links]
  BY DEF Volume
<1>2. C \subseteq Clusters /\ Closed(v.fat, C) /\ first \in C
  BY <1>1, ChainLinks DEF Chain
<1>3. \A c \in Clusters : w.fat[c] = IF c \in C THEN Free ELSE v.fat[c]
  OBVIOUS
<1> HIDE DEF C
<1> SUFFICES ASSUME NEW S \in SUBSET Clusters,
                    \A s \in Live(w) : w.dir[s].first # Free => w.dir[s].first \in S,
                    Closed(w.fat, S), NEW e \in Clusters, w.fat[e] # Free
             PROVE  e \in S
  BY DEF Covered
<1>4. \A s \in Live(v) : v.dir[s].first # Free => v.dir[s].first \in S \cup C
  BY <1>2 DEF Begins
<1>5. Closed(v.fat, S \cup C)
  <2> SUFFICES ASSUME NEW k \in S \cup C, v.fat[k] \in Clusters PROVE v.fat[k] \in S \cup C
    BY DEF Closed
  <2>1. CASE k \in C
    BY <1>2, <2>1 DEF Closed
  <2>2. CASE k \notin C
    <3>1. w.fat[k] = v.fat[k] /\ k \in S
      BY <1>3, <2>2
    <3>2. QED
      BY <3>1 DEF Closed
  <2>3. QED
    BY <2>1, <2>2
<1>6. S \cup C \in SUBSET Clusters
  BY <1>2
<1>7. e \notin C /\ v.fat[e] # Free
  BY <1>3
<1>8. e \in S \cup C
  BY <1>4, <1>5, <1>6, <1>7 DEF Covered
<1>9. QED
  BY <1>7, <1>8

\* An entry written over one that begins no file, or that begins the same one.
LEMMA EntryCovered ==
    ASSUME NEW v \in Volume, NEW w, NEW s \in Slots, NEW e \in Entry,
           w.dir = [v.dir EXCEPT ![s] = e], w.fat = v.fat, Covered(v),
           s \notin Live(v) \/ v.dir[s].first = Free
              \/ (e.name # NoName /\ e.first = v.dir[s].first)
    PROVE  Covered(w)
<1>1. w.dir[s] = e /\ \A t \in Slots : t # s => w.dir[t] = v.dir[t]
  BY DEF Volume
<1>2. \A t \in Live(v) : v.dir[t].first # Free => Begins(w, v.dir[t].first)
  <2> SUFFICES ASSUME NEW t \in Live(v), v.dir[t].first # Free
               PROVE  Begins(w, v.dir[t].first)
    OBVIOUS
  <2>1. t \in Live(w) /\ w.dir[t].first = v.dir[t].first
    BY <1>1 DEF Live
  <2>2. QED
    BY <2>1 DEF Begins
<1>3. QED
  BY <1>2, SameCovered

\* An entry written over one whose chain has just been freed.
LEMMA FreedEntryCovered ==
    ASSUME NEW v \in Volume, NEW w, NEW s \in Slots, NEW e \in Entry,
           w.dir = [v.dir EXCEPT ![s] = e], Covered(v), v.dir[s].first # Free,
           w.fat = [c \in Clusters |->
                      IF c \in Chain(v.fat, v.dir[s].first) THEN Free ELSE v.fat[c]]
    PROVE  Covered(w)
<1> DEFINE first == v.dir[s].first
<1>1. \A t \in Slots : t # s => w.dir[t] = v.dir[t]
  BY DEF Volume
<1>2. first \in Clusters
  BY DEF Volume, Entry
<1>3. \A t \in Live(v) : v.dir[t].first \notin {Free, first} => Begins(w, v.dir[t].first)
  <2> SUFFICES ASSUME NEW t \in Live(v), v.dir[t].first \notin {Free, first}
               PROVE  Begins(w, v.dir[t].first)
    OBVIOUS
  <2>1. t \in Live(w) /\ w.dir[t].first = v.dir[t].first
    BY <1>1 DEF Live
  <2>2. QED
    BY <2>1 DEF Begins
<1> HIDE DEF first
<1>4. w.fat = [c \in Clusters |-> IF c \in Chain(v.fat, first) THEN Free ELSE v.fat[c]]
  BY DEF first
<1>5. QED
  BY <1>2, <1>3, <1>4, FreedCovered

\* Covered says what NothingLost does: the chains of all files are such a set.
LEMMA CoveredReaches ==
    ASSUME NEW v \in Volume, Covered(v), NEW c \in Clusters, v.fat[c] # Free
    PROVE  \E s \in Live(v) : v.dir[s].first # Free /\ c \in Chain(v.fat, v.dir[s].first)
<1> DEFINE In(d) == \E s \in Live(v) : v.dir[s].first # Free /\ d \in Chain(v.fat, v.dir[s].first)
           S == {d \in Clusters : In(d)}
<1>1. v.fat \in [Clusters -> Links] /\ \A s \in Live(v) : v.dir[s].first \in Clusters \cup {Free}
  BY DEF Volume, Entry, Live
<1>2. \A s \in Live(v) : v.dir[s].first # Free => v.dir[s].first \in S
  <2> SUFFICES ASSUME NEW s \in Live(v), v.dir[s].first # Free PROVE v.dir[s].first \in S
    OBVIOUS
  <2>1. v.dir[s].first \in Clusters
    BY <1>1
  <2>2. v.dir[s].first \in Chain(v.fat, v.dir[s].first)
    BY <2>1 DEF Chain
  <2>3. QED
    BY <2>1, <2>2
<1>3. Closed(v.fat, S)
  <2> SUFFICES ASSUME NEW d \in S, v.fat[d] \in Clusters PROVE v.fat[d] \in S
    BY DEF Closed
  <2>1. PICK s \in Live(v) : v.dir[s].first # Free /\ d \in Chain(v.fat, v.dir[s].first)
    OBVIOUS
  <2>2. Closed(v.fat, Chain(v.fat, v.dir[s].first))
    BY <1>1, <2>1, ChainLinks
  <2>3. v.fat[d] \in Chain(v.fat, v.dir[s].first)
    BY <2>1, <2>2 DEF Closed
  <2>4. QED
    BY <2>1, <2>3
<1> HIDE DEF S
<1>4. S \in SUBSET Clusters
  BY DEF S
<1>5. c \in S
  BY <1>2, <1>3, <1>4 DEF Covered
<1>6. QED
  BY <1>5 DEF S

-----------------------------------------------------------------------------
(***************************************************************************)
(* Writing entries: create, delete, rename, flush.                          *)
(***************************************************************************)
LEMMA ForgetSound ==
    ASSUME NEW v \in Volume, Honest(v)
    PROVE  LET w == Forget(v)
           IN  /\ w \in Volume /\ Honest(w) /\ w.valid = FALSE
               /\ w.fat = v.fat /\ w.dir = v.dir /\ w.data = v.data /\ w.sec = v.sec
BY DEF Volume, Honest, Forget

\* Foreign bytes in fat_wbuf do no harm while the flag is down.
LEMMA ScratchSound ==
    ASSUME NEW v \in Volume, Honest(v), v.valid = FALSE
    PROVE  LET w == Scratch(v)
           IN  /\ w \in Volume /\ Honest(w) /\ w.valid = FALSE
               /\ w.fat = v.fat /\ w.dir = v.dir /\ w.data = v.data /\ w.sec = v.sec
BY DEF Volume, Honest, Scratch

LEMMA WriteEntrySound ==
    ASSUME NEW v \in Volume, Honest(v), v.valid = FALSE, NEW s \in Slots, NEW e \in Entry
    PROVE  LET w == WriteEntry(v, s, e)
           IN  /\ w \in Volume /\ Honest(w) /\ w.valid = FALSE
               /\ w.dir = [v.dir EXCEPT ![s] = e]
               /\ w.fat = v.fat
BY DEF Volume, Honest, WriteEntry

LEMMA FreeFileSound ==
    ASSUME NEW v \in Volume, Honest(v), v.valid = FALSE, NEW s \in Slots
    PROVE  LET w == FreeFile(v, s)
           IN  /\ w \in Volume /\ Honest(w) /\ w.valid = FALSE /\ w.dir = v.dir
               /\ v.dir[s].first = Free => w.fat = v.fat
               /\ v.dir[s].first # Free =>
                     w.fat = [c \in Clusters |->
                                IF c \in Chain(v.fat, v.dir[s].first) THEN Free ELSE v.fat[c]]
<1> DEFINE x == Scratch(v)
<1>1. /\ x \in Volume /\ Honest(x) /\ x.valid = FALSE
      /\ x.fat = v.fat /\ x.dir = v.dir /\ x.data = v.data /\ x.sec = v.sec
  BY ScratchSound
<1>2. CASE v.dir[s].first = Free
  BY <1>1, <1>2 DEF FreeFile
<1>3. CASE v.dir[s].first # Free
  <2> DEFINE f == [c \in Clusters |->
                     IF c \in Chain(v.fat, v.dir[s].first) THEN Free ELSE v.fat[c]]
             w == [x EXCEPT !.fat = f, !.buf = f, !.valid = FALSE]
  <2>1. LoadFat(x).buf = v.fat
    BY <1>1, LoadFatSound
  <2>2. FreeFile(v, s) = w
    BY <1>1, <1>3, <2>1 DEF FreeFile, FreeChain
  <2>3. f \in [Clusters -> Links]
    BY DEF Volume, Links
  <2> HIDE DEF f, x
  <2>4. w \in Volume /\ Honest(w) /\ w.valid = FALSE /\ w.dir = v.dir /\ w.fat = f
    BY <1>1, <2>3 DEF Volume, Honest
  <2> HIDE DEF w
  <2>5. QED
    BY <1>3, <2>2, <2>4 DEF f
<1>4. QED
  BY <1>2, <1>3

LEMMA SlotFound ==
    \A v, n : SlotOf(v, n) # 0 => SlotOf(v, n) \in Live(v) /\ v.dir[SlotOf(v, n)].name = n
BY LeastIn DEF SlotOf

\* fat_fcreate takes the entry of that name, or one that is not in use.
LEMMA CreateSlotFound ==
    \A v, n : LET s == CreateSlot(v, n)
              IN  s # 0 => /\ s \in Slots /\ (s \in Live(v) => v.dir[s].name = n)
                           /\ SlotOf(v, n) = 0 => s \notin Live(v)
<1>1. \A v : EmptySlot(v) # 0 => EmptySlot(v) \in Slots \ Live(v)
  BY LeastIn DEF EmptySlot
<1>2. QED
  BY <1>1, SlotFound DEF CreateSlot, Live

LEMMA CreateSound ==
    ASSUME NEW v \in Volume, Honest(v), Apart(v), NEW n \in Names
    PROVE  LET w == AfterCreate(v, n)
               s == CreateSlot(v, n)
           IN  /\ w \in Volume /\ Honest(w) /\ Apart(w) /\ w.valid = FALSE
               /\ Covered(v) => Covered(w)
               /\ s = 0 => w.dir = v.dir
               /\ s # 0 => w.dir = [v.dir EXCEPT ![s] = [NoEntry EXCEPT !.name = n]]
<1> DEFINE s == CreateSlot(v, n)
           e == [NoEntry EXCEPT !.name = n]
           x == Forget(v)
           y == IF SlotOf(v, n) # 0 THEN FreeFile(x, SlotOf(v, n)) ELSE Scratch(x)
           w == WriteEntry(y, s, e)
<1>1. /\ x \in Volume /\ Honest(x) /\ x.valid = FALSE
      /\ x.fat = v.fat /\ x.dir = v.dir /\ x.data = v.data /\ x.sec = v.sec
  BY ForgetSound
<1>2. /\ Scratch(x) \in Volume /\ Honest(Scratch(x)) /\ Scratch(x).valid = FALSE
      /\ Scratch(x).fat = v.fat /\ Scratch(x).dir = v.dir
  <2> HIDE DEF x
  <2>1. QED
    BY <1>1, ScratchSound
<1>3. CASE s = 0
  <2>1. AfterCreate(v, n) = Scratch(x)
    BY <1>3 DEF AfterCreate
  <2>2. Apart(Scratch(x))
    BY <1>2, ApartFrame
  <2> HIDE DEF x
  <2>3. Covered(v) => Covered(Scratch(x))
    BY <1>2, KeptCovered
  <2>4. QED
    BY <1>2, <1>3, <2>1, <2>2, <2>3
<1>4. CASE s # 0
  <2>1. /\ s \in Slots /\ (s \in Live(v) => v.dir[s].name = n)
        /\ SlotOf(v, n) = 0 => s \notin Live(v)
    BY <1>4, CreateSlotFound
  <2>2. e \in Entry /\ e.first = Free
    BY DEF Entry, NoEntry
  <2>3. /\ y \in Volume /\ Honest(y) /\ y.valid = FALSE /\ y.dir = v.dir
        /\ SlotOf(v, n) = 0 \/ v.dir[s].first = Free => y.fat = v.fat
        /\ SlotOf(v, n) # 0 /\ v.dir[s].first # Free =>
             y.fat = [c \in Clusters |->
                        IF c \in Chain(v.fat, v.dir[s].first) THEN Free ELSE v.fat[c]]
    <3>1. CASE SlotOf(v, n) = 0
      BY <1>2, <3>1
    <3>2. CASE SlotOf(v, n) # 0
      <4>1. s = SlotOf(v, n)
        BY <3>2 DEF CreateSlot
      <4>2. y = FreeFile(x, s)
        BY <3>2, <4>1
      <4> HIDE DEF x, s
      <4>3. /\ FreeFile(x, s) \in Volume /\ Honest(FreeFile(x, s)) /\ FreeFile(x, s).valid = FALSE
            /\ FreeFile(x, s).dir = x.dir
            /\ x.dir[s].first = Free => FreeFile(x, s).fat = x.fat
            /\ x.dir[s].first # Free =>
                  FreeFile(x, s).fat =
                    [c \in Clusters |->
                       IF c \in Chain(x.fat, x.dir[s].first) THEN Free ELSE x.fat[c]]
        BY <1>1, <2>1, FreeFileSound
      <4>4. QED
        BY <1>1, <3>2, <4>2, <4>3
    <3>3. QED
      BY <3>1, <3>2
  <2>4. AfterCreate(v, n) = w
    BY <1>4 DEF AfterCreate
  <2>5. SlotOf(v, n) # 0 => s \in Live(v)
    BY SlotFound DEF CreateSlot
  <2> HIDE DEF s, e, y
  <2>6. /\ w \in Volume /\ Honest(w) /\ w.valid = FALSE
        /\ w.dir = [v.dir EXCEPT ![s] = e] /\ w.fat = y.fat
    <3>1. s \in Slots /\ e \in Entry
      BY <2>1, <2>2
    <3>2. y \in Volume /\ Honest(y) /\ y.valid = FALSE /\ y.dir = v.dir
      BY <2>3
    <3>3. /\ w \in Volume /\ Honest(w) /\ w.valid = FALSE
          /\ w.dir = [y.dir EXCEPT ![s] = e]
          /\ w.fat = y.fat
      BY <3>1, <3>2, WriteEntrySound, Zenon
    <3>4. QED
      BY <3>2, <3>3
  <2> HIDE DEF w
  <2>7. Apart(w)
    <3>1. CASE SlotOf(v, n) = 0 \/ v.dir[s].first = Free
      BY <2>1, <2>2, <2>3, <2>6, <3>1, EntryApart
    <3>2. CASE SlotOf(v, n) # 0 /\ v.dir[s].first # Free
      BY <2>2, <2>3, <2>5, <2>6, <3>2, FreedApart
    <3>3. QED
      BY <3>1, <3>2
  <2>8. ASSUME Covered(v) PROVE Covered(w)
    <3>1. s \in Slots /\ e \in Entry
      BY <2>1, <2>2
    <3>2. CASE SlotOf(v, n) = 0 \/ v.dir[s].first = Free
      <4>1. w.fat = v.fat /\ (s \notin Live(v) \/ v.dir[s].first = Free)
        BY <2>1, <2>3, <2>6, <3>2
      <4>2. QED
        BY <2>6, <2>8, <3>1, <4>1, EntryCovered
    <3>3. CASE SlotOf(v, n) # 0 /\ v.dir[s].first # Free
      BY <2>3, <2>6, <2>8, <3>1, <3>3, FreedEntryCovered
    <3>4. QED
      BY <3>2, <3>3
  <2>9. QED
    BY <1>4, <2>4, <2>6, <2>7, <2>8 DEF s, e
<1>5. QED
  BY <1>3, <1>4

LEMMA UnlinkSound ==
    ASSUME NEW v \in Volume, Honest(v), Apart(v), NEW s \in Live(v)
    PROVE  LET w == Unlink(v, s)
           IN  /\ w \in Volume /\ Honest(w) /\ Apart(w) /\ w.valid = FALSE
               /\ Covered(v) => Covered(w)
               /\ \A t \in Slots \ {s} : w.dir[t] = v.dir[t]
<1> DEFINE x == Forget(v)
           y == FreeFile(x, s)
           e == [y.dir[s] EXCEPT !.name = NoName]
           w == WriteEntry(y, s, e)
<1>1. x \in Volume /\ Honest(x) /\ x.valid = FALSE /\ x.fat = v.fat /\ x.dir = v.dir
  BY ForgetSound
<1>2. s \in Slots
  BY DEF Live
<1>3. Unlink(v, s) = w
  BY DEF Unlink
<1> HIDE DEF x
<1>4. /\ y \in Volume /\ Honest(y) /\ y.valid = FALSE /\ y.dir = v.dir
      /\ v.dir[s].first = Free => y.fat = v.fat
      /\ v.dir[s].first # Free =>
            y.fat = [c \in Clusters |->
                       IF c \in Chain(v.fat, v.dir[s].first) THEN Free ELSE v.fat[c]]
  <2>1. /\ y \in Volume /\ Honest(y) /\ y.valid = FALSE /\ y.dir = x.dir
        /\ x.dir[s].first = Free => y.fat = x.fat
        /\ x.dir[s].first # Free =>
              y.fat = [c \in Clusters |->
                         IF c \in Chain(x.fat, x.dir[s].first) THEN Free ELSE x.fat[c]]
    BY <1>1, <1>2, FreeFileSound
  <2>2. QED
    BY <1>1, <2>1
<1> HIDE DEF y
<1>5. e \in Entry /\ e.name = NoName
  <2>1. y.dir[s] \in Entry
    BY <1>2, <1>4 DEF Volume
  <2>2. QED
    BY <2>1 DEF Entry
<1> HIDE DEF e
<1>6. /\ w \in Volume /\ Honest(w) /\ w.valid = FALSE
      /\ w.dir = [v.dir EXCEPT ![s] = e] /\ w.fat = y.fat
  <2>1. y \in Volume /\ Honest(y) /\ y.valid = FALSE /\ y.dir = v.dir
    BY <1>4
  <2>2. /\ w \in Volume /\ Honest(w) /\ w.valid = FALSE
        /\ w.dir = [y.dir EXCEPT ![s] = e]
        /\ w.fat = y.fat
    BY <1>2, <1>5, <2>1, WriteEntrySound, Zenon
  <2>3. QED
    BY <2>1, <2>2
<1> HIDE DEF w
<1>7. Apart(w)
  <2>1. CASE v.dir[s].first = Free
    BY <1>2, <1>4, <1>5, <1>6, <2>1, EntryApart
  <2>2. CASE v.dir[s].first # Free
    BY <1>4, <1>5, <1>6, <2>2, FreedApart
  <2>3. QED
    BY <2>1, <2>2
<1>8. \A t \in Slots \ {s} : w.dir[t] = v.dir[t]
  BY <1>6 DEF Volume
<1>9. ASSUME Covered(v) PROVE Covered(w)
  <2>1. CASE v.dir[s].first = Free
    BY <1>2, <1>4, <1>5, <1>6, <1>9, <2>1, EntryCovered
  <2>2. CASE v.dir[s].first # Free
    BY <1>2, <1>4, <1>5, <1>6, <1>9, <2>2, FreedEntryCovered
  <2>3. QED
    BY <2>1, <2>2
<1>10. QED
  BY <1>3, <1>6, <1>7, <1>8, <1>9

LEMMA RenameSound ==
    ASSUME NEW v \in Volume, Honest(v), Apart(v), NEW s \in Live(v), NEW n \in Names
    PROVE  LET w == Rename(v, s, n)
           IN  /\ w \in Volume /\ Honest(w) /\ Apart(w) /\ w.valid = FALSE
               /\ Covered(v) => Covered(w)
               /\ Live(w) = Live(v)
               /\ \A t \in Slots : w.dir[t].first = v.dir[t].first
<1> DEFINE x == Forget(v)
           e == [v.dir[s] EXCEPT !.name = n]
           w == WriteEntry(x, s, e)
<1>1. x \in Volume /\ Honest(x) /\ x.valid = FALSE /\ x.fat = v.fat /\ x.dir = v.dir
  BY ForgetSound
<1>2. s \in Slots /\ n # NoName
  BY FatAssumption DEF Live
<1>3. e \in Entry /\ e.first = v.dir[s].first /\ e.name = n
  <2>1. v.dir[s] \in Entry
    BY <1>2 DEF Volume
  <2>2. QED
    BY <2>1 DEF Entry
<1>4. Rename(v, s, n) = w
  BY DEF Rename
<1> HIDE DEF x, e
<1>5. /\ w \in Volume /\ Honest(w) /\ w.valid = FALSE
      /\ w.dir = [v.dir EXCEPT ![s] = e] /\ w.fat = v.fat
  <2>1. /\ w \in Volume /\ Honest(w) /\ w.valid = FALSE
        /\ w.dir = [x.dir EXCEPT ![s] = e] /\ w.fat = x.fat
    BY <1>1, <1>2, <1>3, WriteEntrySound, Zenon
  <2>2. QED
    BY <1>1, <2>1
<1> HIDE DEF w
<1>6. w.dir[s] = e /\ \A t \in Slots : t # s => w.dir[t] = v.dir[t]
  BY <1>2, <1>5 DEF Volume
<1>7. Apart(w)
  BY <1>2, <1>3, <1>5, EntryApart
<1>8. Live(w) = Live(v) /\ \A t \in Slots : w.dir[t].first = v.dir[t].first
  BY <1>2, <1>3, <1>6 DEF Live
<1>9. ASSUME Covered(v) PROVE Covered(w)
  BY <1>2, <1>3, <1>5, <1>9, EntryCovered, FatAssumption DEF Live
<1>10. QED
  BY <1>4, <1>5, <1>7, <1>8, <1>9

\* fat_fflush repeats the first cluster that the entry already has.
LEMMA FlushSound ==
    ASSUME NEW v \in Volume, Honest(v), Apart(v),
           NEW h \in Handle, h.slot \in Live(v), h.first = v.dir[h.slot].first
    PROVE  LET w == Flush(v, h)
           IN  /\ w \in Volume /\ Honest(w) /\ Apart(w) /\ w.valid = FALSE
               /\ Covered(v) => Covered(w)
               /\ Live(w) = Live(v)
               /\ \A t \in Slots : w.dir[t].first = v.dir[t].first
<1> DEFINE x == Forget(v)
           s == h.slot
           e == [v.dir[s] EXCEPT !.size = h.size,
                                 !.first = IF h.first # Free THEN h.first ELSE @]
           w == WriteEntry(x, s, e)
<1>1. x \in Volume /\ Honest(x) /\ x.valid = FALSE /\ x.fat = v.fat /\ x.dir = v.dir
  BY ForgetSound
<1>2. s \in Slots
  BY DEF Live
<1>3. e \in Entry /\ e.first = v.dir[s].first /\ e.name = v.dir[s].name
  <2>1. v.dir[s] \in Entry /\ h.size \in Nat
    BY <1>2 DEF Volume, Handle
  <2>2. QED
    BY <2>1 DEF Entry
<1>4. Flush(v, h) = w
  BY DEF Flush
<1> HIDE DEF x, e
<1>5. /\ w \in Volume /\ Honest(w) /\ w.valid = FALSE
      /\ w.dir = [v.dir EXCEPT ![s] = e] /\ w.fat = v.fat
  <2>1. /\ w \in Volume /\ Honest(w) /\ w.valid = FALSE
        /\ w.dir = [x.dir EXCEPT ![s] = e] /\ w.fat = x.fat
    BY <1>1, <1>2, <1>3, WriteEntrySound, Zenon
  <2>2. QED
    BY <1>1, <2>1
<1> HIDE DEF w
<1>6. w.dir[s] = e /\ \A t \in Slots : t # s => w.dir[t] = v.dir[t]
  BY <1>2, <1>5 DEF Volume
<1>7. Apart(w)
  BY <1>2, <1>3, <1>5, EntryApart
<1>8. Live(w) = Live(v) /\ \A t \in Slots : w.dir[t].first = v.dir[t].first
  BY <1>2, <1>3, <1>6 DEF Live
<1>9. ASSUME Covered(v) PROVE Covered(w)
  BY <1>2, <1>3, <1>5, <1>9, EntryCovered, FatAssumption DEF Live
<1>10. QED
  BY <1>4, <1>5, <1>7, <1>8, <1>9

-----------------------------------------------------------------------------
(***************************************************************************)
(* Writing units.                                                           *)
(***************************************************************************)
\* The first cluster of a file, and its entry.
LEMMA AttachSound ==
    ASSUME NEW v \in Volume, Honest(v), Apart(v), v.valid = FALSE,
           NEW h \in Handle, h.slot \in Live(v), h.first = v.dir[h.slot].first
    PROVE  LET w == Attach(v, h)
               g == AttachHandle(v, h)
           IN  /\ w \in Volume /\ Honest(w) /\ Apart(w) /\ Live(w) = Live(v)
               /\ Covered(v) => Covered(w)
               /\ g \in Handle /\ g.slot = h.slot /\ w.dir[h.slot].first = g.first
               /\ \A t \in Slots \ {h.slot} : w.dir[t] = v.dir[t]
               /\ HasRoom(v, h) => w.valid = FALSE /\ g.first # Free
               /\ h.first # Free => w.fat = v.fat /\ g = h
               /\ HasRoom(v, h) /\ h.first = Free => g.cur \in Clusters /\ w.fat[g.cur] = Eoc
<1>1. h.slot \in Slots
  BY DEF Live
<1>2. CASE h.first # Free
  BY <1>2 DEF Attach, AttachHandle
<1>3. CASE h.first = Free /\ Alloc(v) = Free
  <2>1. Attach(v, h) = LoadFat(v) /\ AttachHandle(v, h) = [h EXCEPT !.first = Free, !.cur = Free]
    BY <1>3 DEF Attach, AttachHandle
  <2>2. /\ LoadFat(v) \in Volume /\ Honest(LoadFat(v))
        /\ LoadFat(v).fat = v.fat /\ LoadFat(v).dir = v.dir
    BY LoadFatSound
  <2>3. Apart(LoadFat(v)) /\ Live(LoadFat(v)) = Live(v)
    BY <2>2, ApartFrame DEF Live
  <2>4. [h EXCEPT !.first = Free, !.cur = Free] \in Handle
    BY DEF Handle
  <2>5. Covered(v) => Covered(LoadFat(v))
    BY <2>2, KeptCovered
  <2>6. QED
    BY <1>3, <2>1, <2>2, <2>3, <2>4, <2>5 DEF HasRoom, Handle
<1>4. CASE h.first = Free /\ Alloc(v) # Free
  <2> DEFINE c == Alloc(v)
             x == AfterAlloc(v)
             e == [x.dir[h.slot] EXCEPT !.first = c]
             w == WriteEntry(x, h.slot, e)
             g == [h EXCEPT !.first = c, !.cur = c]
  <2>1. Attach(v, h) = w /\ AttachHandle(v, h) = g
    BY <1>4 DEF Attach, AttachHandle
  <2>2. c \in Clusters /\ v.fat[c] = Free
    BY <1>4, AllocFree
  <2>3. /\ x \in Volume /\ Honest(x) /\ x.dir = v.dir /\ x.data = v.data /\ x.sec = v.sec
        /\ x.fat = [v.fat EXCEPT ![c] = Eoc] /\ x.valid = FALSE
    BY <1>4, AfterAllocSound
  <2> HIDE DEF x, c
  <2>4. Apart(x) /\ Fresh(x, c) /\ x.fat[c] = Eoc
    BY <2>2, <2>3, MarkApart
  <2>5. e \in Entry /\ e.first = c /\ e.name = v.dir[h.slot].name
    <3>1. x.dir[h.slot] \in Entry
      BY <1>1, <2>3 DEF Volume
    <3>2. QED
      BY <2>2, <2>3, <3>1 DEF Entry
  <2>6. /\ w \in Volume /\ Honest(w) /\ w.valid = FALSE
        /\ w.dir = [x.dir EXCEPT ![h.slot] = e] /\ w.fat = x.fat
    <3>1. h.slot \in Slots /\ e \in Entry
      BY <1>1, <2>5
    <3>2. x \in Volume /\ Honest(x) /\ x.valid = FALSE
      BY <2>3
    <3> HIDE DEF e
    <3>3. QED
      BY <3>1, <3>2, WriteEntrySound, Zenon
  <2> HIDE DEF w
  <2>7. Apart(w)
    BY <1>1, <2>3, <2>4, <2>6, HeadApart
  <2> HIDE DEF e
  <2>8. w.dir[h.slot] = e /\ \A t \in Slots \ {h.slot} : w.dir[t] = v.dir[t]
    BY <1>1, <2>3, <2>6 DEF Volume
  <2>9. Live(w) = Live(v)
    BY <1>1, <2>5, <2>8 DEF Live
  <2>10. g \in Handle /\ g.slot = h.slot /\ g.first = c /\ g.cur = c
    BY <2>2 DEF Handle
  <2>11. c # Free
    BY <1>4 DEF c
  <2> HIDE DEF g
  <2>12. ASSUME Covered(v) PROVE Covered(w)
    <3>1. Begins(w, c)
      BY <2>5, <2>8, <2>9 DEF Begins
    <3>2. \A t \in Live(v) : v.dir[t].first # Free => Begins(w, v.dir[t].first)
      <4> SUFFICES ASSUME NEW t \in Live(v), v.dir[t].first # Free
                   PROVE  Begins(w, v.dir[t].first)
        OBVIOUS
      <4>1. t # h.slot /\ t \in Slots
        BY <1>4 DEF Live
      <4>2. t \in Live(w) /\ w.dir[t] = v.dir[t]
        BY <2>8, <2>9, <4>1
      <4>3. QED
        BY <4>2 DEF Begins
    <3>3. w.fat = [v.fat EXCEPT ![c] = Eoc]
      BY <2>3, <2>6
    <3>4. QED
      BY <2>2, <2>12, <3>1, <3>2, <3>3, MarkCovered
  <2>13. QED
    BY <1>4, <2>1, <2>2, <2>4, <2>5, <2>6, <2>7, <2>8, <2>9, <2>10, <2>11, <2>12
<1>5. QED
  BY <1>2, <1>3, <1>4

\* A unit into a cluster, whichever it is.
LEMMA StoreSound ==
    ASSUME NEW v \in Volume, Honest(v), v.valid = FALSE,
           NEW h \in Handle, NEW u \in Units \cup {Blank}
    PROVE  LET w == Store(v, h, u)
           IN  /\ w \in Volume /\ Honest(w) /\ w.valid = FALSE
               /\ w.fat = v.fat /\ w.dir = v.dir
<1> DEFINE i == Sec(h.pos)
           o == Off(h.pos)
           d == [v.data EXCEPT ![h.cur][i][o] = u]
           k == IF Holds(v, h.cur, i) THEN NoSector ELSE v.sec
           w == [v EXCEPT !.data = d, !.buf = Junk, !.sec = k]
<1>1. Store(v, h, u) = w
  BY DEF Store, Volume
<1>2. d \in [Clusters -> [Sectors -> Bytes]]
  <2>1. v.data \in [Clusters -> [Sectors -> [Offsets -> Units \cup {Blank}]]]
    BY DEF Volume, Bytes
  <2> HIDE DEF i, o
  <2>2. d \in [Clusters -> [Sectors -> [Offsets -> Units \cup {Blank}]]]
    BY <2>1
  <2>3. QED
    BY <2>2 DEF Bytes
<1>3. k \in Cached
  BY NoSectorType DEF Volume
<1>4. \A c \in Clusters, j \in Sectors : c # h.cur \/ j # i => d[c][j] = v.data[c][j]
  BY DEF Volume
<1>5. k.clus # Free => k.data = d[k.clus][k.sec]
  <2>1. v.sec \in Cached /\ NoSector.clus = Free
    BY NoSectorType DEF Volume
  <2>2. v.sec.clus # Free => /\ v.sec.clus \in Clusters /\ v.sec.sec \in Sectors
                            /\ v.sec.data = v.data[v.sec.clus][v.sec.sec]
    BY <2>1 DEF Cached, Honest
  <2> HIDE DEF d
  <2>3. QED
    BY <1>4, <2>1, <2>2 DEF Holds
<1> HIDE DEF d, k
<1>6. w \in Volume /\ w.data = d /\ w.sec = k /\ w.valid = FALSE /\ w.fat = v.fat /\ w.dir = v.dir
  BY <1>2, <1>3 DEF Volume
<1> HIDE DEF w
<1>7. Honest(w)
  BY <1>5, <1>6 DEF Honest
<1>8. QED
  BY <1>1, <1>6, <1>7

\* The next cluster, behind one that ends its chain.
LEMMA ExtendSound ==
    ASSUME NEW v \in Volume, Honest(v), Apart(v),
           NEW h \in Handle, h.cur \in Clusters, v.fat[h.cur] = Eoc
    PROVE  LET w == Extend(v, h)
               g == ExtendHandle(v, h)
           IN  /\ w \in Volume /\ Honest(w) /\ Apart(w) /\ w.dir = v.dir
               /\ Covered(v) => Covered(w)
               /\ g \in Handle /\ g.slot = h.slot /\ g.first = h.first
               /\ ~Stuck(v, h) => w.valid = FALSE /\ g.cur \in Clusters /\ w.fat[g.cur] = Eoc
<1> DEFINE x == LoadFat(v)
           c == Alloc(x)
<1>1. /\ x \in Volume /\ Honest(x) /\ x.buf = v.fat
      /\ x.fat = v.fat /\ x.dir = v.dir /\ x.data = v.data /\ x.sec = v.sec
  BY LoadFatSound
<1>2. NextClus(v, h.cur) = Eoc
  BY <1>1, Numbers DEF NextClus
<1>3. Apart(x)
  BY <1>1, ApartFrame
<1>4. CASE c = Free
  <2>1. Extend(v, h) = x /\ ExtendHandle(v, h) = h /\ Stuck(v, h)
    BY <1>2, <1>4 DEF Extend, ExtendHandle, Stuck
  <2> HIDE DEF x
  <2>2. Covered(v) => Covered(x)
    BY <1>1, KeptCovered
  <2>3. QED
    BY <1>1, <1>3, <2>1, <2>2
<1>5. CASE c # Free
  <2> DEFINE y == AfterAlloc(x)
             d == h.cur
             w == SetEntry(y, d, c)
             g == [h EXCEPT !.cur = c]
  <2>1. Extend(v, h) = w /\ ExtendHandle(v, h) = g
    BY <1>2, <1>5 DEF Extend, ExtendHandle
  <2> HIDE DEF x
  <2>2. c \in Clusters /\ x.fat[c] = Free
    BY <1>1, <1>5, AllocFree
  <2>3. /\ y \in Volume /\ Honest(y) /\ y.dir = x.dir
        /\ y.fat = [x.fat EXCEPT ![c] = Eoc]
    BY <1>1, <1>5, AfterAllocSound
  <2> HIDE DEF c, y
  <2>4. Apart(y) /\ Fresh(y, c) /\ y.fat[c] = Eoc
    BY <1>1, <1>3, <2>2, <2>3, MarkApart
  <2>5. h.cur # c
    BY <1>1, <2>2, Numbers
  <2>6. d \in Clusters \cup {Free} /\ c \in Links /\ d # c
    BY <2>2, <2>5 DEF Links
  <2> HIDE DEF d
  <2>7. /\ w \in Volume /\ Honest(w) /\ w.valid = FALSE
        /\ w.fat = [y.fat EXCEPT ![d] = c] /\ w.dir = y.dir
    <3>1. y \in Volume /\ Honest(y)
      BY <2>3
    <3>2. d \in Clusters \cup {Free} /\ c \in Links
      BY <2>6
    <3>3. /\ w \in Volume /\ Honest(w) /\ w.valid = FALSE
          /\ w.fat = [y.fat EXCEPT ![d] = c]
          /\ w.dir = y.dir /\ w.data = y.data /\ w.sec = y.sec
      BY <3>1, <3>2, SetEntrySound
    <3>4. QED
      BY <3>3
  <2> HIDE DEF w
  <2>8. Apart(w)
    BY <2>3, <2>4, <2>6, <2>7, LinkApart
  <2>9. w.fat[c] = Eoc
    BY <2>2, <2>3, <2>4, <2>6, <2>7 DEF Volume
  <2>10. g \in Handle /\ g.slot = h.slot /\ g.first = h.first /\ g.cur = c
    BY <2>2 DEF Handle
  <2> HIDE DEF g
  <2>11. ASSUME Covered(v) PROVE Covered(w)
    <3>1. w.fat = [[v.fat EXCEPT ![c] = Eoc] EXCEPT ![d] = c] /\ w.dir = v.dir
      BY <1>1, <2>3, <2>7
    <3>2. d \in Clusters /\ v.fat[d] = Eoc /\ v.fat[c] = Free
      BY <1>1, <2>2 DEF d
    <3>3. QED
      BY <2>2, <2>11, <3>1, <3>2, LinkCovered
  <2>12. QED
    BY <1>1, <2>1, <2>2, <2>3, <2>7, <2>8, <2>9, <2>10, <2>11
<1>6. QED
  BY <1>4, <1>5

LEMMA GrowType ==
    ASSUME NEW h \in Handle
    PROVE  /\ Grow(h) \in Handle /\ Grow(h).slot = h.slot
           /\ Grow(h).first = h.first /\ Grow(h).cur = h.cur
<1>1. h.pos + 1 \in Nat /\ (IF h.pos + 1 > h.size THEN h.pos + 1 ELSE h.size) \in Nat
  BY DEF Handle
<1>2. QED
  BY <1>1 DEF Grow, Handle

\* One turn of fat_fwrite.  A call that will write on finds, and leaves, its
\* handle at the end of the chain and the flag of the FAT cache down.
LEMMA WriteSound ==
    ASSUME NEW v \in Volume, Honest(v), Apart(v), v.valid = FALSE,
           NEW h \in Handle, h.slot \in Live(v), h.first = v.dir[h.slot].first,
           NEW u \in Units \cup {Blank}, NEW more \in BOOLEAN,
           more /\ h.first # Free => h.cur \in Clusters /\ v.fat[h.cur] = Eoc
    PROVE  LET w == AfterWrite(v, h, u, more)
               g == WriteHandle(v, h, u, more)
           IN  /\ w \in Volume /\ Honest(w) /\ Apart(w) /\ Live(w) = Live(v)
               /\ Covered(v) => Covered(w)
               /\ g \in Handle /\ g.slot = h.slot /\ w.dir[h.slot].first = g.first
               /\ \A t \in Slots \ {h.slot} : w.dir[t] = v.dir[t]
               /\ ShortWrite(v, h, u, more) \in BOOLEAN
               /\ more /\ ~ShortWrite(v, h, u, more) =>
                    w.valid = FALSE /\ g.first # Free /\ g.cur \in Clusters /\ w.fat[g.cur] = Eoc
<1> DEFINE x == Attach(v, h)
           f == AttachHandle(v, h)
           y == Store(x, f, u)
           k == Grow(f)
<1>1. /\ x \in Volume /\ Honest(x) /\ Apart(x) /\ Live(x) = Live(v)
      /\ Covered(v) => Covered(x)
      /\ f \in Handle /\ f.slot = h.slot /\ x.dir[h.slot].first = f.first
      /\ \A t \in Slots \ {h.slot} : x.dir[t] = v.dir[t]
      /\ HasRoom(v, h) => x.valid = FALSE /\ f.first # Free
      /\ h.first # Free => x.fat = v.fat /\ f = h
      /\ HasRoom(v, h) /\ h.first = Free => f.cur \in Clusters /\ x.fat[f.cur] = Eoc
  BY AttachSound
<1>2. CASE ~HasRoom(v, h)
  <2>1. AfterWrite(v, h, u, more) = x /\ WriteHandle(v, h, u, more) = h
        /\ ShortWrite(v, h, u, more) = TRUE
    BY <1>2 DEF AfterWrite, WriteHandle, ShortWrite
  <2>2. f.first = h.first
    BY <1>2 DEF HasRoom, AttachHandle, Handle
  <2> HIDE DEF x, f
  <2>3. QED
    BY <1>1, <2>1, <2>2
<1>3. CASE HasRoom(v, h)
  <2>1. /\ AfterWrite(v, h, u, more) = IF Crosses(f, more) THEN Extend(y, f) ELSE y
        /\ WriteHandle(v, h, u, more) = IF Crosses(f, more) THEN ExtendHandle(y, k) ELSE k
        /\ ShortWrite(v, h, u, more) = (Crosses(f, more) /\ Stuck(y, f))
    BY <1>3 DEF AfterWrite, WriteHandle, ShortWrite
  <2>2. more => f.cur \in Clusters /\ x.fat[f.cur] = Eoc
    BY <1>1, <1>3
  <2> HIDE DEF x, f
  <2>3. /\ y \in Volume /\ Honest(y) /\ y.valid = FALSE /\ y.fat = x.fat /\ y.dir = x.dir
    BY <1>1, <1>3, StoreSound
  <2>4. /\ k \in Handle /\ k.slot = f.slot /\ k.first = f.first /\ k.cur = f.cur
    BY <1>1, GrowType
  <2> HIDE DEF y, k
  <2>5. Apart(y) /\ Live(y) = Live(v) /\ (Covered(v) => Covered(y))
    BY <1>1, <2>3, ApartFrame, KeptCovered DEF Live
  <2>6. CASE ~Crosses(f, more)
    BY <1>1, <1>3, <2>1, <2>2, <2>3, <2>4, <2>5, <2>6
  <2>7. CASE Crosses(f, more)
    <3>1. more
      BY <2>7 DEF Crosses
    <3>2. k.cur \in Clusters /\ y.fat[k.cur] = Eoc
      BY <2>2, <2>3, <2>4, <3>1
    <3>3. LET w == Extend(y, k)
              g == ExtendHandle(y, k)
          IN  /\ w \in Volume /\ Honest(w) /\ Apart(w) /\ w.dir = y.dir
              /\ Covered(y) => Covered(w)
              /\ g \in Handle /\ g.slot = k.slot /\ g.first = k.first
              /\ ~Stuck(y, k) => w.valid = FALSE /\ g.cur \in Clusters /\ w.fat[g.cur] = Eoc
      BY <2>3, <2>4, <2>5, <3>2, ExtendSound
    <3>4. Extend(y, f) = Extend(y, k) /\ (Stuck(y, f) <=> Stuck(y, k))
      BY <2>4 DEF Extend, Stuck
    <3>5. Live(Extend(y, k)) = Live(v)
      BY <2>5, <3>3 DEF Live
    <3>6. Stuck(y, k) \in BOOLEAN
      BY DEF Stuck
    <3>7. QED
      BY <1>1, <1>3, <2>1, <2>3, <2>4, <2>5, <2>7, <3>3, <3>4, <3>5, <3>6
  <2>8. QED
    BY <2>6, <2>7
<1>4. QED
  BY <1>2, <1>3

\* A turn that ends its call, or writes nothing at all, finds and leaves no
\* cluster free.
LEMMA ShortIsFull ==
    ASSUME NEW v \in Volume, Honest(v), Apart(v), v.valid = FALSE,
           NEW h \in Handle, h.slot \in Live(v), h.first = v.dir[h.slot].first,
           NEW u \in Units \cup {Blank}, NEW more \in BOOLEAN,
           ~HasRoom(v, h) \/ ShortWrite(v, h, u, more)
    PROVE  \A c \in Clusters : AfterWrite(v, h, u, more).fat[c] # Free
<1> DEFINE x == Attach(v, h)
           f == AttachHandle(v, h)
           y == Store(x, f, u)
<1>1. CASE ~HasRoom(v, h)
  <2>1. AfterWrite(v, h, u, more) = LoadFat(v) /\ Alloc(v) = Free
    BY <1>1 DEF AfterWrite, HasRoom, Attach
  <2>2. LoadFat(v).fat = v.fat
    BY LoadFatSound
  <2>3. QED
    BY <2>1, <2>2, AllocNone
<1>2. CASE HasRoom(v, h)
  <2>1. x \in Volume /\ Honest(x) /\ x.valid = FALSE /\ f \in Handle
    BY <1>2, AttachSound
  <2>2. Crosses(f, more) /\ Stuck(y, f) /\ AfterWrite(v, h, u, more) = Extend(y, f)
    BY <1>2 DEF ShortWrite, AfterWrite
  <2> HIDE DEF x, f
  <2>3. y \in Volume /\ Honest(y)
    BY <2>1, StoreSound
  <2> HIDE DEF y
  <2>4. Extend(y, f) = LoadFat(y) /\ Alloc(LoadFat(y)) = Free
    BY <2>2 DEF Stuck, Extend
  <2>5. LoadFat(y) \in Volume /\ Honest(LoadFat(y))
    BY <2>3, LoadFatSound
  <2>6. QED
    BY <2>2, <2>4, <2>5, AllocNone
<1>3. QED
  BY <1>1, <1>2

\* A call that writes one unit.
LEMMA PieceSound ==
    ASSUME NEW v \in Volume, Honest(v), Apart(v), v.valid = FALSE,
           NEW h \in Handle, h.slot \in Live(v), h.first = v.dir[h.slot].first,
           NEW u \in Units \cup {Blank}
    PROVE  LET w == AfterWrite(v, h, u, FALSE)
               g == WriteHandle(v, h, u, FALSE)
           IN  /\ w \in Volume /\ Honest(w) /\ Apart(w) /\ Live(w) = Live(v)
               /\ Covered(v) => Covered(w)
               /\ g \in Handle /\ g.slot = h.slot /\ w.dir[h.slot].first = g.first
               /\ \A t \in Slots \ {h.slot} : w.dir[t] = v.dir[t]
               /\ ShortWrite(v, h, u, FALSE) \in BOOLEAN
BY WriteSound

-----------------------------------------------------------------------------
(***************************************************************************)
(* Reading units.                                                           *)
(***************************************************************************)
LEMMA SectorSound ==
    ASSUME NEW v \in Volume, Honest(v), NEW c \in Clusters \cup {Free}, NEW i \in Sectors
    PROVE  LET k == Sector(v, c, i)
           IN  k \in Cached /\ (k.clus # Free => k.data = v.data[k.clus][k.sec])
<1>1. CASE c = Free
  BY <1>1, NoSectorType DEF Sector
<1>2. CASE c # Free /\ Holds(v, c, i)
  BY <1>2 DEF Sector, Volume, Honest
<1>3. CASE c # Free /\ ~Holds(v, c, i)
  BY <1>3 DEF Sector, Volume, Cached
<1>4. QED
  BY <1>1, <1>2, <1>3

\* One turn of fat_fread touches nothing but the buffers.
LEMMA ReadSound ==
    ASSUME NEW v \in Volume, Honest(v), Apart(v), NEW h \in Handle, NEW more \in BOOLEAN
    PROVE  LET w == AfterRead(v, h, more)
               g == ReadHandle(v, h, more)
           IN  /\ w \in Volume /\ Honest(w) /\ Apart(w) /\ w.dir = v.dir /\ w.fat = v.fat
               /\ g \in Handle /\ ReadUnit(v, h) \in Units \cup {Blank}
<1> DEFINE k == SectorOf(v, h)
           x == Forget(v)
           y == Scratch(x)
           w == [y EXCEPT !.sec = k]
<1>1. h.cur \in Clusters \cup {Free} /\ h.pos \in Nat
  BY DEF Handle
<1>2. k \in Cached /\ (k.clus # Free => k.data = v.data[k.clus][k.sec])
  BY <1>1, SectorSound, Positions DEF SectorOf
<1>3. ReadUnit(v, h) \in Units \cup {Blank}
  <2>1. Off(h.pos) \in Offsets
    BY <1>1, Positions
  <2>2. QED
    BY <1>2, <2>1 DEF ReadUnit, Cached, Bytes
<1>4. /\ x \in Volume /\ Honest(x) /\ x.valid = FALSE
      /\ x.fat = v.fat /\ x.dir = v.dir /\ x.data = v.data
  BY ForgetSound
<1>5. AfterRead(v, h, more) = IF Crosses(h, more) THEN LoadFat(w) ELSE w
  BY DEF AfterRead
<1>6. ReadHandle(v, h, more) \in Handle
  <2>1. Advance(h) \in Handle
    BY <1>1 DEF Advance, Handle
  <2>2. NextClus(x, h.cur) # Eoc => NextClus(x, h.cur) \in Clusters \cup {Free}
    <3>1. LoadFat(x).buf = x.fat
      BY <1>4, LoadFatSound
    <3>2. QED
      BY <1>1, <1>4, <3>1 DEF NextClus, Volume, Links
  <2> HIDE DEF x
  <2>3. QED
    BY <2>1, <2>2 DEF ReadHandle, Handle, x
<1> HIDE DEF x, k
<1>7. y \in Volume /\ Honest(y) /\ y.valid = FALSE /\ y.fat = v.fat /\ y.dir = v.dir /\ y.data = v.data
  BY <1>4, ScratchSound
<1> HIDE DEF y
<1>8. w \in Volume /\ Honest(w) /\ w.fat = v.fat /\ w.dir = v.dir
  BY <1>2, <1>7 DEF Volume, Honest
<1> HIDE DEF w
<1>9. /\ LoadFat(w) \in Volume /\ Honest(LoadFat(w))
      /\ LoadFat(w).fat = v.fat /\ LoadFat(w).dir = v.dir
  BY <1>8, LoadFatSound
<1>10. Apart(w) /\ Apart(LoadFat(w))
  BY <1>8, <1>9, ApartFrame
<1>11. QED
  BY <1>3, <1>5, <1>6, <1>8, <1>9, <1>10

-----------------------------------------------------------------------------
(***************************************************************************)
(* The inductive invariant.  A save in the middle of its fat_fwrite relies  *)
(* on more than the handles agreeing: the FAT cache is not trusted, and its *)
(* handle is at the end of its chain.                                       *)
(***************************************************************************)
SaveAtEnd ==
    job.call = "save" /\ ~job.full /\ job.todo # <<>> =>
       /\ vol.valid = FALSE
       /\ job.g.first # Free => job.g.cur \in Clusters /\ vol.fat[job.g.cur] = Eoc

IInv == TypeOK /\ CacheHonest /\ NoSharing /\ HandlesAgree /\ SaveAtEnd

LEMMA HandleTypes ==
    /\ NoHandle \in Handle /\ NoJob \in Job /\ NoRedir \in Redir
    /\ \A s \in Slots : NewHandle(s) \in Handle /\ NewHandle(s).slot = s /\ NewHandle(s).first = Free
<1>1. NoHandle \in Handle
  BY DEF NoHandle, Handle
<1>2. \A s \in Slots : NewHandle(s) \in Handle /\ NewHandle(s).slot = s /\ NewHandle(s).first = Free
  BY DEF NewHandle, NoHandle, Handle
<1>3. NoJob \in Job /\ NoRedir \in Redir
  BY <1>1 DEF NoJob, NoRedir, Job, Redir
<1>4. QED
  BY <1>1, <1>2, <1>3

LEMMA OpenType ==
    ASSUME NEW v \in Volume, NEW s \in Slots
    PROVE  OpenHandle(v, s) \in Handle
<1>1. v.dir[s] \in Entry
  BY DEF Volume
<1>2. QED
  BY <1>1 DEF OpenHandle, NoHandle, Handle, Entry

LEMMA InitSound == Init => IInv
<1> SUFFICES ASSUME Init PROVE IInv
  OBVIOUS
<1>1. vol = Mounted /\ job = NoJob /\ redir = NoRedir
  BY DEF Init
<1>2. Mounted \in Volume
  <2>1. NoEntry \in Entry /\ Free \in Links
    BY DEF NoEntry, Entry, Links
  <2>2. QED
    BY <2>1, NoSectorType DEF Mounted, Volume
<1>3. Honest(Mounted) /\ Apart(Mounted)
  BY NoSectorType, Numbers DEF Mounted, Honest, Apart, LinksApart, HeadsApart, HeadsFirst,
     LinksInUse, HeadsInUse, Live, NoEntry
<1>4. NoJob.call = "none" /\ NoRedir.active = FALSE
  BY DEF NoJob, NoRedir
<1>5. QED
  BY <1>1, <1>2, <1>3, <1>4, HandleTypes
     DEF IInv, TypeOK, CacheHonest, NoSharing, HandlesAgree, Writing, SaveAtEnd

\* After fat_fcreate the new handle agrees, and so does the redirection's, of
\* another name.
LEMMA CreateAgrees ==
    ASSUME IInv, NEW n \in Names, Spared(n), CreateSlot(vol, n) # 0
    PROVE  LET s == CreateSlot(vol, n)
               w == AfterCreate(vol, n)
           IN  /\ s \in Slots /\ s \in Live(w) /\ w.dir[s].first = Free
               /\ redir.active => redir.h.slot # s /\ redir.h.slot \in Live(w)
                                  /\ redir.h.first = w.dir[redir.h.slot].first
<1> DEFINE s == CreateSlot(vol, n)
           w == AfterCreate(vol, n)
           e == [NoEntry EXCEPT !.name = n]
<1>1. /\ vol \in Volume
      /\ redir.active => redir.h.slot \in Live(vol) /\ redir.h.first = vol.dir[redir.h.slot].first
  BY DEF IInv, TypeOK, HandlesAgree, Agrees
<1>2. s \in Slots /\ (s \in Live(vol) => vol.dir[s].name = n)
  BY CreateSlotFound
<1>3. w.dir = [vol.dir EXCEPT ![s] = e]
  BY CreateSound DEF IInv, TypeOK, CacheHonest, NoSharing
<1> HIDE DEF s, w
<1>4. e.name = n /\ e.first = Free /\ n # NoName
  BY FatAssumption DEF NoEntry
<1> HIDE DEF e
<1>5. w.dir[s] = e /\ \A t \in Slots : t # s => w.dir[t] = vol.dir[t]
  BY <1>1, <1>2, <1>3 DEF Volume
<1>6. redir.active => redir.h.slot # s
  BY <1>1, <1>2 DEF Spared, NameOf
<1>7. QED
  BY <1>1, <1>2, <1>4, <1>5, <1>6 DEF Live, s, w

LEMMA SaveStep ==
    ASSUME IInv, NEW n \in Names, NEW text \in Texts, Save(n, text)
    PROVE  IInv'
<1> DEFINE s == CreateSlot(vol, n)
           w == AfterCreate(vol, n)
           x == Forget(w)
<1>1. /\ vol \in Volume /\ Honest(vol) /\ Apart(vol) /\ redir \in Redir /\ job \in Job
      /\ Spared(n) /\ vol' = x /\ redir' = redir /\ HandlesAgree
  BY DEF IInv, TypeOK, CacheHonest, NoSharing, Save
<1>2. w \in Volume /\ Honest(w) /\ Apart(w) /\ (s = 0 => w.dir = vol.dir)
  BY <1>1, CreateSound
<1> HIDE DEF w
<1>3. x \in Volume /\ Honest(x) /\ x.valid = FALSE /\ x.fat = w.fat /\ x.dir = w.dir
  BY <1>2, ForgetSound
<1> HIDE DEF x
<1>4. Apart(x) /\ Live(x) = Live(w)
  BY <1>2, <1>3, ApartFrame DEF Live
<1>5. CASE s = 0
  <2>1. job' = job /\ job.call = "none"
    BY <1>5 DEF Save, IsIdle
  <2>2. Live(x) = Live(vol) /\ x.dir = vol.dir
    BY <1>2, <1>3, <1>5 DEF Live
  <2>3. QED
    BY <1>1, <1>3, <1>4, <2>1, <2>2
       DEF IInv, TypeOK, CacheHonest, NoSharing, HandlesAgree, Writing, Agrees, SaveAtEnd
<1>6. CASE s # 0
  <2> DEFINE j == [NoJob EXCEPT !.call = "save", !.g = NewHandle(s), !.todo = text]
  <2>1. job' = j
    BY <1>6 DEF Save
  <2>2. /\ s \in Slots /\ s \in Live(w) /\ w.dir[s].first = Free
        /\ redir.active => redir.h.slot # s /\ redir.h.slot \in Live(w)
                           /\ redir.h.first = w.dir[redir.h.slot].first
    BY <1>1, <1>6, CreateAgrees DEF w
  <2>3. text \in Seq(Units) /\ NewHandle(s) \in Handle
        /\ NewHandle(s).slot = s /\ NewHandle(s).first = Free
    BY <2>2, FilesAssumption, HandleTypes
  <2>4. j \in Job /\ j.g = NewHandle(s) /\ j.call = "save"
    BY <2>3, HandleTypes DEF Job, NoJob
  <2> HIDE DEF j, s
  <2>5. QED
    BY <1>1, <1>3, <1>4, <2>1, <2>2, <2>3, <2>4
       DEF IInv, TypeOK, CacheHonest, NoSharing, HandlesAgree, Writing, Agrees, SaveAtEnd
<1>7. QED
  BY <1>5, <1>6

LEMMA SaveTurnStep ==
    ASSUME IInv, SaveTurn
    PROVE  IInv'
<1> DEFINE u == Head(job.todo)
           more == Len(job.todo) > 1
           h == job.g
           w == AfterWrite(vol, h, u, more)
           g == WriteHandle(vol, h, u, more)
           f == ShortWrite(vol, h, u, more)
           j == [job EXCEPT !.g = g, !.full = f,
                            !.todo = IF HasRoom(vol, h) THEN Tail(@) ELSE @]
<1>1. /\ vol \in Volume /\ Honest(vol) /\ Apart(vol) /\ redir \in Redir /\ job \in Job
      /\ job.call = "save" /\ job.todo # <<>> /\ ~job.full
      /\ HandlesAgree /\ SaveAtEnd /\ vol' = w /\ job' = j /\ redir' = redir
  BY DEF IInv, TypeOK, CacheHonest, NoSharing, SaveTurn
<1>2. job.todo \in Seq(Units) /\ h \in Handle
  BY <1>1 DEF Job
<1>3. /\ u \in Units \cup {Blank} /\ more \in BOOLEAN
      /\ Tail(job.todo) \in Seq(Units) /\ (~more => Tail(job.todo) = <<>>)
  BY <1>1, <1>2
<1>4. h.slot \in Live(vol) /\ h.first = vol.dir[h.slot].first
  BY <1>1 DEF HandlesAgree, Writing, Agrees
<1>5. vol.valid = FALSE /\ (h.first # Free => h.cur \in Clusters /\ vol.fat[h.cur] = Eoc)
  BY <1>1 DEF SaveAtEnd
<1>6. ~HasRoom(vol, h) => f
  BY DEF ShortWrite
<1> HIDE DEF u, more, h
<1>7. /\ w \in Volume /\ Honest(w) /\ Apart(w) /\ Live(w) = Live(vol)
      /\ g \in Handle /\ g.slot = h.slot /\ w.dir[h.slot].first = g.first
      /\ \A t \in Slots \ {h.slot} : w.dir[t] = vol.dir[t]
      /\ f \in BOOLEAN
      /\ more /\ ~f => w.valid = FALSE /\ g.first # Free /\ g.cur \in Clusters /\ w.fat[g.cur] = Eoc
  <2>1. h.slot \in Live(vol) /\ h.first = vol.dir[h.slot].first
    BY <1>4
  <2>2. vol.valid = FALSE /\ (more /\ h.first # Free => h.cur \in Clusters /\ vol.fat[h.cur] = Eoc)
    BY <1>5
  <2>3. /\ w \in Volume /\ Honest(w) /\ Apart(w) /\ Live(w) = Live(vol)
        /\ g \in Handle /\ g.slot = h.slot /\ w.dir[h.slot].first = g.first
        /\ \A t \in Slots \ {h.slot} : w.dir[t] = vol.dir[t]
        /\ f \in BOOLEAN
        /\ more /\ ~f =>
             w.valid = FALSE /\ g.first # Free /\ g.cur \in Clusters /\ w.fat[g.cur] = Eoc
    BY <1>1, <1>2, <1>3, <2>1, <2>2, WriteSound, Zenon
  <2>4. QED
    BY <2>3
<1> HIDE DEF w, g, f
<1>8. /\ j \in Job /\ j.call = "save" /\ j.g = g /\ j.full = f
      /\ j.todo = IF HasRoom(vol, h) THEN Tail(job.todo) ELSE job.todo
  BY <1>1, <1>2, <1>3, <1>7 DEF Job
<1> HIDE DEF j
<1>9. TypeOK' /\ CacheHonest' /\ NoSharing'
  BY <1>1, <1>7, <1>8 DEF TypeOK, CacheHonest, NoSharing
<1>10. HandlesAgree'
  <2>1. redir.active => /\ redir.h.slot \in Live(vol) /\ redir.h.first = vol.dir[redir.h.slot].first
                        /\ redir.h.slot # h.slot
    BY <1>1 DEF HandlesAgree, Agrees, Writing, h
  <2>2. redir.active => redir.h.first = w.dir[redir.h.slot].first
    BY <1>7, <2>1 DEF Live
  <2>3. QED
    BY <1>1, <1>4, <1>7, <1>8, <2>1, <2>2 DEF HandlesAgree, Agrees, Writing
<1>11. SaveAtEnd'
  BY <1>1, <1>3, <1>6, <1>7, <1>8 DEF SaveAtEnd
<1>12. QED
  BY <1>9, <1>10, <1>11 DEF IInv

\* A flush, and the job that wrote through the handle is over.
LEMMA WriterEnd ==
    ASSUME IInv, Writing, vol' = Flush(vol, job.g), Return, UNCHANGED redir
    PROVE  IInv'
<1> DEFINE w == Flush(vol, job.g)
<1>1. /\ vol \in Volume /\ Honest(vol) /\ Apart(vol) /\ redir \in Redir /\ job \in Job
      /\ HandlesAgree /\ vol' = w /\ job' = NoJob /\ redir' = redir
  BY DEF IInv, TypeOK, CacheHonest, NoSharing, Return
<1>2. job.g \in Handle /\ job.g.slot \in Live(vol) /\ job.g.first = vol.dir[job.g.slot].first
  BY <1>1 DEF HandlesAgree, Agrees, Job
<1>3. /\ w \in Volume /\ Honest(w) /\ Apart(w) /\ Live(w) = Live(vol)
      /\ \A t \in Slots : w.dir[t].first = vol.dir[t].first
  BY <1>1, <1>2, FlushSound
<1> HIDE DEF w
<1>4. redir.active => redir.h.slot \in Live(w) /\ redir.h.first = w.dir[redir.h.slot].first
  BY <1>1, <1>3 DEF HandlesAgree, Agrees, Live
<1>5. NoJob.call = "none"
  BY DEF NoJob
<1>6. QED
  BY <1>1, <1>3, <1>4, <1>5, HandleTypes
     DEF IInv, TypeOK, CacheHonest, NoSharing, HandlesAgree, Writing, Agrees, SaveAtEnd

\* A step that moves no entry's beginning, and leaves no call that writes.
LEMMA QuietStep ==
    ASSUME IInv, vol' \in Volume, Honest(vol'), Apart(vol'), Live(vol') = Live(vol),
           \A t \in Slots : vol'.dir[t].first = vol.dir[t].first,
           redir' = redir, job' \in Job, job'.call \notin {"save", "copy"}
    PROVE  IInv'
<1>1. /\ redir \in Redir
      /\ redir.active => redir.h.slot \in Live(vol') /\ redir.h.first = vol'.dir[redir.h.slot].first
  BY DEF IInv, TypeOK, HandlesAgree, Agrees, Live
<1>2. QED
  BY <1>1 DEF IInv, TypeOK, CacheHonest, NoSharing, HandlesAgree, Writing, Agrees, SaveAtEnd

LEMMA LoadStep ==
    ASSUME IInv, NEW n \in Names, Load(n) \/ Cat(n)
    PROVE  IInv'
<1> DEFINE s == SlotOf(vol, n)
           h == OpenHandle(vol, s)
<1>1. vol \in Volume /\ vol' = vol /\ redir' = redir /\ s # 0
  BY DEF IInv, TypeOK, Load, Cat
<1>2. h \in Handle
  BY <1>1, OpenType, SlotFound DEF Live
<1>3. job' = Opened("load", n) \/ job' = Opened("cat", n)
  BY DEF Load, Cat
<1>4. \A c \in {"load", "cat"} : Opened(c, n) \in Job /\ Opened(c, n).call = c
  <2> HIDE DEF h
  <2>1. \A c \in {"load", "cat"} : [NoJob EXCEPT !.call = c, !.h = h] \in Job
    BY <1>2, HandleTypes DEF Job
  <2>2. \A c \in {"load", "cat"} : [NoJob EXCEPT !.call = c, !.h = h].call = c
    BY DEF NoJob
  <2>3. QED
    BY <2>1, <2>2 DEF Opened, h
<1>5. QED
  BY <1>1, <1>3, <1>4, QuietStep DEF IInv, CacheHonest, NoSharing

LEMMA LoadTurnStep ==
    ASSUME IInv, LoadTurn
    PROVE  IInv'
<1> DEFINE h == job.h
           more == h.pos + 1 < h.size
           w == AfterRead(vol, h, more)
           g == ReadHandle(vol, h, more)
           u == ReadUnit(vol, h)
           j == [job EXCEPT !.h = g, !.got = Append(@, u)]
<1>1. /\ vol \in Volume /\ Honest(vol) /\ Apart(vol) /\ job \in Job
      /\ job.call = "load" /\ vol' = w /\ job' = j /\ redir' = redir
  BY DEF IInv, TypeOK, CacheHonest, NoSharing, LoadTurn
<1>2. h \in Handle /\ job.got \in Seq(Units \cup {Blank}) /\ more \in BOOLEAN
  BY <1>1 DEF Job
<1> HIDE DEF more, h
<1>3. /\ w \in Volume /\ Honest(w) /\ Apart(w) /\ w.dir = vol.dir
      /\ g \in Handle /\ u \in Units \cup {Blank}
  BY <1>1, <1>2, ReadSound
<1> HIDE DEF w, g, u
<1>4. Append(job.got, u) \in Seq(Units \cup {Blank})
  BY <1>2, <1>3
<1>5. j \in Job /\ j.call = "load"
  BY <1>1, <1>3, <1>4 DEF Job
<1> HIDE DEF j
<1>6. QED
  BY <1>1, <1>3, <1>5, QuietStep DEF Live

LEMMA LoadEndStep ==
    ASSUME IInv, LoadEnd
    PROVE  IInv'
<1>1. vol' = vol /\ redir' = redir /\ job' = NoJob
  BY DEF LoadEnd, Return
<1>2. NoJob \in Job /\ NoJob.call = "none"
  BY HandleTypes DEF NoJob
<1>3. QED
  BY <1>1, <1>2, QuietStep DEF IInv, TypeOK, CacheHonest, NoSharing

LEMMA CopyStep ==
    ASSUME IInv, NEW n \in Names, NEW m \in Names, Copy(n, m)
    PROVE  IInv'
<1> DEFINE s == CreateSlot(vol, m)
           w == AfterCreate(vol, m)
           h == OpenHandle(vol, SlotOf(vol, n))
<1>1. /\ vol \in Volume /\ Honest(vol) /\ Apart(vol) /\ redir \in Redir /\ job \in Job
      /\ Spared(m) /\ vol' = w /\ redir' = redir /\ job.call = "none" /\ HandlesAgree
  BY DEF IInv, TypeOK, CacheHonest, NoSharing, Copy, IsIdle
<1>2. w \in Volume /\ Honest(w) /\ Apart(w) /\ (s = 0 => w.dir = vol.dir)
  BY <1>1, CreateSound
<1>3. CASE s = 0
  <2>1. job' = job
    BY <1>3 DEF Copy
  <2> HIDE DEF w
  <2>2. QED
    BY <1>1, <1>2, <1>3, <2>1, QuietStep DEF Live
<1>4. CASE s # 0
  <2> DEFINE j == [NoJob EXCEPT !.call = "copy", !.h = h, !.g = NewHandle(s)]
  <2>1. job' = j
    BY <1>4 DEF Copy, Opened, NoJob
  <2>2. /\ s \in Slots /\ s \in Live(w) /\ w.dir[s].first = Free
        /\ redir.active => redir.h.slot # s /\ redir.h.slot \in Live(w)
                           /\ redir.h.first = w.dir[redir.h.slot].first
    BY <1>1, <1>4, CreateAgrees
  <2>3. NewHandle(s) \in Handle /\ NewHandle(s).slot = s /\ NewHandle(s).first = Free
    BY <2>2, HandleTypes
  <2>4. h \in Handle
    <3>1. SlotOf(vol, n) \in Slots
      BY SlotFound DEF Copy, Live
    <3>2. QED
      BY <1>1, <3>1, OpenType
  <2> HIDE DEF h, s, w
  <2>5. j \in Job /\ j.g = NewHandle(s) /\ j.call = "copy"
    BY <2>3, <2>4, HandleTypes DEF Job, NoJob
  <2> HIDE DEF j
  <2>6. QED
    BY <1>1, <1>2, <2>1, <2>2, <2>3, <2>5
       DEF IInv, TypeOK, CacheHonest, NoSharing, HandlesAgree, Writing, Agrees, SaveAtEnd
<1>5. QED
  BY <1>3, <1>4

LEMMA CopyTurnStep ==
    ASSUME IInv, CopyTurn
    PROVE  IInv'
<1> DEFINE h == job.h
           k == job.g
           u == ReadUnit(vol, h)
           r == AfterRead(vol, h, FALSE)
           v == Forget(r)
           w == AfterWrite(v, k, u, FALSE)
           g == WriteHandle(v, k, u, FALSE)
           f == ShortWrite(v, k, u, FALSE)
           i == ReadHandle(vol, h, FALSE)
           j == [job EXCEPT !.h = i, !.g = g, !.full = f]
<1>1. /\ vol \in Volume /\ Honest(vol) /\ Apart(vol) /\ redir \in Redir /\ job \in Job
      /\ job.call = "copy" /\ HandlesAgree /\ vol' = w /\ job' = j /\ redir' = redir
  BY DEF IInv, TypeOK, CacheHonest, NoSharing, CopyTurn
<1>2. h \in Handle /\ k \in Handle
  BY <1>1 DEF Job
<1>3. k.slot \in Live(vol) /\ k.first = vol.dir[k.slot].first
  BY <1>1 DEF HandlesAgree, Writing, Agrees
<1> HIDE DEF h, k
<1>4. /\ r \in Volume /\ Honest(r) /\ Apart(r) /\ r.dir = vol.dir
      /\ i \in Handle /\ u \in Units \cup {Blank}
  BY <1>1, <1>2, ReadSound
<1> HIDE DEF r, i, u
<1>5. v \in Volume /\ Honest(v) /\ v.valid = FALSE /\ v.fat = r.fat /\ v.dir = r.dir
  BY <1>4, ForgetSound
<1> HIDE DEF v
<1>6. Apart(v) /\ Live(v) = Live(vol) /\ v.dir = vol.dir
  BY <1>4, <1>5, ApartFrame DEF Live
<1>7. /\ w \in Volume /\ Honest(w) /\ Apart(w) /\ Live(w) = Live(v)
      /\ g \in Handle /\ g.slot = k.slot /\ w.dir[k.slot].first = g.first
      /\ \A t \in Slots \ {k.slot} : w.dir[t] = v.dir[t]
      /\ f \in BOOLEAN
  BY <1>2, <1>3, <1>4, <1>5, <1>6, WriteSound
<1> HIDE DEF w, g, f
<1>8. j \in Job /\ j.call = "copy" /\ j.g = g
  BY <1>1, <1>4, <1>7 DEF Job
<1> HIDE DEF j
<1>9. redir.active => /\ redir.h.slot \in Live(vol) /\ redir.h.first = vol.dir[redir.h.slot].first
                      /\ redir.h.slot # k.slot
  BY <1>1 DEF HandlesAgree, Agrees, Writing, k
<1>10. redir.active => redir.h.first = w.dir[redir.h.slot].first
  BY <1>6, <1>7, <1>9 DEF Live
<1>11. QED
  BY <1>1, <1>3, <1>6, <1>7, <1>8, <1>9, <1>10
     DEF IInv, TypeOK, CacheHonest, NoSharing, HandlesAgree, Writing, Agrees, SaveAtEnd

LEMMA RedirBeginStep ==
    ASSUME IInv, NEW n \in Names, RedirBegin(n)
    PROVE  IInv'
<1> DEFINE s == CreateSlot(vol, n)
           w == AfterCreate(vol, n)
           r == [NoRedir EXCEPT !.active = TRUE, !.h = NewHandle(s)]
<1>1. /\ vol \in Volume /\ Honest(vol) /\ Apart(vol) /\ job \in Job
      /\ vol' = w /\ job' = job /\ job.call = "none" /\ ~redir.active /\ Spared(n)
  BY DEF IInv, TypeOK, CacheHonest, NoSharing, RedirBegin, IsIdle, Spared
<1>2. w \in Volume /\ Honest(w) /\ Apart(w) /\ (s = 0 => w.dir = vol.dir)
  BY <1>1, CreateSound
<1>3. CASE s = 0
  <2>1. redir' = redir
    BY <1>3 DEF RedirBegin
  <2> HIDE DEF w
  <2>2. QED
    BY <1>1, <1>2, <1>3, <2>1, QuietStep DEF Live
<1>4. CASE s # 0
  <2>1. redir' = r
    BY <1>4 DEF RedirBegin
  <2>2. s \in Slots /\ s \in Live(w) /\ w.dir[s].first = Free
    BY <1>1, <1>4, CreateAgrees
  <2>3. NewHandle(s) \in Handle /\ NewHandle(s).slot = s /\ NewHandle(s).first = Free
    BY <2>2, HandleTypes
  <2> HIDE DEF s, w
  <2>4. r \in Redir /\ r.h = NewHandle(s)
    BY <2>3, HandleTypes DEF Redir, NoRedir
  <2> HIDE DEF r
  <2>5. QED
    BY <1>1, <1>2, <2>1, <2>2, <2>3, <2>4
       DEF IInv, TypeOK, CacheHonest, NoSharing, HandlesAgree, Writing, Agrees, SaveAtEnd
<1>5. QED
  BY <1>3, <1>4

\* A piece of output, after whatever reads the command has made.
LEMMA RedirFlushStep ==
    ASSUME IInv, ~Writing, redir.active,
           NEW v \in Volume, Honest(v), Apart(v), v.dir = vol.dir, NEW u \in Units \cup {Blank},
           RedirFlush(v, u), job' \in Job, job'.call \notin {"save", "copy"}
    PROVE  IInv'
<1> DEFINE x == Forget(v)
           h == redir.h
           w == AfterWrite(x, h, u, FALSE)
           g == WriteHandle(x, h, u, FALSE)
           t == IF HasRoom(x, h) THEN Append(redir.text, u) ELSE redir.text
           r == [redir EXCEPT !.h = g, !.text = t]
<1>1. redir \in Redir /\ h.slot \in Live(vol) /\ h.first = vol.dir[h.slot].first
      /\ vol' = w /\ redir' = r
  BY DEF IInv, TypeOK, HandlesAgree, Agrees, RedirFlush
<1>2. h \in Handle /\ t \in Seq(Units \cup {Blank})
  BY <1>1 DEF Redir
<1>3. x \in Volume /\ Honest(x) /\ x.valid = FALSE /\ x.fat = v.fat /\ x.dir = v.dir
  BY ForgetSound
<1> HIDE DEF x, h, t
<1>4. Apart(x) /\ Live(x) = Live(vol) /\ x.dir = vol.dir
  BY <1>3, ApartFrame DEF Live
<1>5. h.slot \in Live(x) /\ h.first = x.dir[h.slot].first
  BY <1>1, <1>4
<1>6. /\ w \in Volume /\ Honest(w) /\ Apart(w) /\ Live(w) = Live(x)
      /\ g \in Handle /\ g.slot = h.slot /\ w.dir[h.slot].first = g.first
  BY <1>2, <1>3, <1>4, <1>5, PieceSound
<1> HIDE DEF w, g
<1>7. r \in Redir /\ r.h = g
  BY <1>1, <1>2, <1>6 DEF Redir
<1> HIDE DEF r
<1>8. QED
  BY <1>1, <1>4, <1>6, <1>7
     DEF IInv, TypeOK, CacheHonest, NoSharing, HandlesAgree, Writing, Agrees, SaveAtEnd

LEMMA EmitStep ==
    ASSUME IInv, NEW u \in Units, Emit(u)
    PROVE  IInv'
<1>1. /\ vol \in Volume /\ Honest(vol) /\ Apart(vol) /\ job \in Job /\ job.call = "none"
      /\ job' = job /\ redir.active /\ RedirFlush(vol, u)
  BY DEF IInv, TypeOK, CacheHonest, NoSharing, Emit, IsIdle
<1>2. ~Writing
  BY <1>1 DEF Writing
<1>3. QED
  BY <1>1, <1>2, RedirFlushStep

LEMMA RedirEndStep ==
    ASSUME IInv, RedirEnd
    PROVE  IInv'
<1> DEFINE w == Flush(vol, redir.h)
<1>1. /\ vol \in Volume /\ Honest(vol) /\ Apart(vol) /\ redir \in Redir /\ job \in Job
      /\ job.call = "none" /\ redir.h.slot \in Live(vol)
      /\ redir.h.first = vol.dir[redir.h.slot].first
      /\ vol' = w /\ job' = job /\ redir' = NoRedir
  BY DEF IInv, TypeOK, CacheHonest, NoSharing, RedirEnd, IsIdle, HandlesAgree, Agrees
<1>2. redir.h \in Handle
  BY <1>1 DEF Redir
<1>3. w \in Volume /\ Honest(w) /\ Apart(w)
  BY <1>1, <1>2, FlushSound
<1> HIDE DEF w
<1>4. NoRedir \in Redir /\ NoRedir.active = FALSE
  BY HandleTypes DEF NoRedir
<1>5. QED
  BY <1>1, <1>3, <1>4
     DEF IInv, TypeOK, CacheHonest, NoSharing, HandlesAgree, Writing, SaveAtEnd

LEMMA CatTurnStep ==
    ASSUME IInv, CatTurn
    PROVE  IInv'
<1> DEFINE h == job.h
           u == ReadUnit(vol, h)
           v == AfterRead(vol, h, FALSE)
           g == ReadHandle(vol, h, FALSE)
           j == [job EXCEPT !.h = g, !.got = Append(@, u)]
<1>1. /\ vol \in Volume /\ Honest(vol) /\ Apart(vol) /\ job \in Job
      /\ job.call = "cat" /\ job' = j
      /\ IF redir.active THEN RedirFlush(v, u) ELSE vol' = v /\ redir' = redir
  BY DEF IInv, TypeOK, CacheHonest, NoSharing, CatTurn
<1>2. h \in Handle /\ job.got \in Seq(Units \cup {Blank})
  BY <1>1 DEF Job
<1> HIDE DEF h
<1>3. /\ v \in Volume /\ Honest(v) /\ Apart(v) /\ v.dir = vol.dir
      /\ g \in Handle /\ u \in Units \cup {Blank}
  BY <1>1, <1>2, ReadSound
<1> HIDE DEF v, g, u
<1>4. Append(job.got, u) \in Seq(Units \cup {Blank})
  BY <1>2, <1>3
<1>5. j \in Job /\ j.call = "cat"
  BY <1>1, <1>3, <1>4 DEF Job
<1> HIDE DEF j
<1>6. CASE ~redir.active
  BY <1>1, <1>3, <1>5, <1>6, QuietStep DEF Live
<1>7. CASE redir.active
  <2>1. ~Writing
    BY <1>1 DEF Writing
  <2>2. RedirFlush(v, u)
    BY <1>1, <1>7
  <2>3. QED
    BY <1>1, <1>3, <1>5, <1>7, <2>1, <2>2, RedirFlushStep
<1>8. QED
  BY <1>6, <1>7

LEMMA DeleteStep ==
    ASSUME IInv, NEW n \in Names, Delete(n)
    PROVE  IInv'
<1> DEFINE s == SlotOf(vol, n)
           w == Unlink(vol, s)
<1>1. /\ vol \in Volume /\ Honest(vol) /\ Apart(vol) /\ redir \in Redir /\ job \in Job
      /\ job.call = "none" /\ vol' = w /\ job' = job /\ redir' = redir /\ Spared(n) /\ s # 0
      /\ redir.active => redir.h.slot \in Live(vol) /\ redir.h.first = vol.dir[redir.h.slot].first
  BY DEF IInv, TypeOK, CacheHonest, NoSharing, Delete, IsIdle, HandlesAgree, Agrees
<1>2. s \in Live(vol) /\ vol.dir[s].name = n
  BY <1>1, SlotFound
<1> HIDE DEF s
<1>3. w \in Volume /\ Honest(w) /\ Apart(w) /\ \A t \in Slots \ {s} : w.dir[t] = vol.dir[t]
  BY <1>1, <1>2, UnlinkSound
<1> HIDE DEF w
<1>4. redir.active => redir.h.slot # s
  BY <1>1, <1>2 DEF Spared, NameOf
<1>5. redir.active => redir.h.slot \in Live(w) /\ redir.h.first = w.dir[redir.h.slot].first
  BY <1>1, <1>3, <1>4 DEF Live
<1>6. QED
  BY <1>1, <1>3, <1>5
     DEF IInv, TypeOK, CacheHonest, NoSharing, HandlesAgree, Writing, Agrees, SaveAtEnd

LEMMA RenameStep ==
    ASSUME IInv, NEW n \in Names, NEW m \in Names, RenameFile(n, m)
    PROVE  IInv'
<1> DEFINE s == SlotOf(vol, n)
           w == Rename(vol, s, m)
<1>1. /\ vol \in Volume /\ Honest(vol) /\ Apart(vol) /\ job \in Job
      /\ job.call = "none" /\ vol' = w /\ job' = job /\ redir' = redir /\ s # 0
  BY DEF IInv, TypeOK, CacheHonest, NoSharing, RenameFile, IsIdle
<1>2. s \in Live(vol)
  BY <1>1, SlotFound
<1> HIDE DEF s
<1>3. /\ w \in Volume /\ Honest(w) /\ Apart(w) /\ Live(w) = Live(vol)
      /\ \A t \in Slots : w.dir[t].first = vol.dir[t].first
  BY <1>1, <1>2, RenameSound
<1> HIDE DEF w
<1>4. QED
  BY <1>1, <1>3, QuietStep

LEMMA NextSound == IInv /\ [Next]_vars => IInv'
<1> SUFFICES ASSUME IInv, [Next]_vars PROVE IInv'
  OBVIOUS
<1>1. ASSUME NEW n \in Names, NEW text \in Texts, Save(n, text) PROVE IInv'
  BY <1>1, SaveStep
<1>2. ASSUME NEW n \in Names, Load(n) \/ Cat(n) \/ Delete(n) \/ RedirBegin(n) PROVE IInv'
  BY <1>2, LoadStep, DeleteStep, RedirBeginStep
<1>3. ASSUME NEW n \in Names, NEW m \in Names, Copy(n, m) \/ RenameFile(n, m) PROVE IInv'
  BY <1>3, CopyStep, RenameStep
<1>4. ASSUME NEW u \in Units, Emit(u) PROVE IInv'
  BY <1>4, EmitStep
<1>5. CASE RedirEnd
  BY <1>5, RedirEndStep
<1>6. CASE SaveTurn \/ LoadTurn \/ LoadEnd \/ CopyTurn \/ CatTurn
  BY <1>6, SaveTurnStep, LoadTurnStep, LoadEndStep, CopyTurnStep, CatTurnStep
<1>7. CASE SaveEnd \/ CopyEnd
  BY <1>7, WriterEnd DEF SaveEnd, CopyEnd, Writing
<1>8. CASE UNCHANGED vars
  BY <1>8 DEF vars, IInv, TypeOK, CacheHonest, NoSharing, HandlesAgree, Agrees, Writing,
              SaveAtEnd, Live
<1>9. QED
  BY <1>1, <1>2, <1>3, <1>4, <1>5, <1>6, <1>7, <1>8 DEF Next, Turn

-----------------------------------------------------------------------------
(***************************************************************************)
(* Nothing lost.  That the chains cover the FAT is kept by every step, but  *)
(* only with the handles agreeing: a fat_fwrite through a handle that is    *)
(* not at the end of its chain would cut off what is behind it.             *)
(***************************************************************************)
LEMMA CreateCovers ==
    ASSUME IInv, Covered(vol), NEW n \in Names
    PROVE  Covered(AfterCreate(vol, n)) /\ Covered(Forget(AfterCreate(vol, n)))
<1> DEFINE w == AfterCreate(vol, n)
<1>1. vol \in Volume /\ Honest(vol) /\ Apart(vol)
  BY DEF IInv, TypeOK, CacheHonest, NoSharing
<1>2. w \in Volume /\ Honest(w) /\ Covered(w)
  BY <1>1, CreateSound
<1> HIDE DEF w
<1>3. Forget(w).fat = w.fat /\ Forget(w).dir = w.dir
  BY <1>2, ForgetSound
<1> HIDE DEF IInv
<1>4. Covered(Forget(w))
  BY <1>2, <1>3, KeptCovered
<1>5. QED
  BY <1>2, <1>4 DEF w

LEMMA FlushCovers ==
    ASSUME IInv, Covered(vol), NEW h \in Handle, Agrees(h)
    PROVE  Covered(Flush(vol, h))
BY FlushSound DEF IInv, TypeOK, CacheHonest, NoSharing, Agrees

LEMMA SaveTurnCovers ==
    ASSUME IInv, Covered(vol), SaveTurn
    PROVE  Covered(vol')
<1> DEFINE u == Head(job.todo)
           more == Len(job.todo) > 1
           h == job.g
           w == AfterWrite(vol, h, u, more)
<1>1. /\ vol \in Volume /\ Honest(vol) /\ Apart(vol) /\ job \in Job
      /\ job.call = "save" /\ job.todo # <<>> /\ ~job.full
      /\ HandlesAgree /\ SaveAtEnd /\ vol' = w
  BY DEF IInv, TypeOK, CacheHonest, NoSharing, SaveTurn
<1>2. job.todo \in Seq(Units) /\ h \in Handle
  BY <1>1 DEF Job
<1>3. u \in Units \cup {Blank} /\ more \in BOOLEAN
  BY <1>1, <1>2
<1>4. h.slot \in Live(vol) /\ h.first = vol.dir[h.slot].first
  BY <1>1 DEF HandlesAgree, Writing, Agrees
<1>5. vol.valid = FALSE /\ (more /\ h.first # Free => h.cur \in Clusters /\ vol.fat[h.cur] = Eoc)
  BY <1>1 DEF SaveAtEnd
<1> HIDE DEF u, more, h
<1>6. Covered(vol) => Covered(w)
  BY <1>1, <1>2, <1>3, <1>4, <1>5, WriteSound, Zenon
<1>7. QED
  BY <1>1, <1>6

\* A call that writes one unit, through a handle that agrees, after whatever
\* reads were made.
LEMMA PieceCovers ==
    ASSUME IInv, Covered(vol), NEW v \in Volume, Honest(v), v.dir = vol.dir, v.fat = vol.fat,
           NEW h \in Handle, Agrees(h), NEW u \in Units \cup {Blank}
    PROVE  Covered(AfterWrite(Forget(v), h, u, FALSE))
<1> DEFINE x == Forget(v)
<1>1. x \in Volume /\ Honest(x) /\ x.valid = FALSE /\ x.fat = vol.fat /\ x.dir = vol.dir
  BY ForgetSound
<1> HIDE DEF x
<1>2. Apart(vol) /\ h.slot \in Live(vol) /\ h.first = vol.dir[h.slot].first
  BY DEF IInv, NoSharing, Agrees
<1> HIDE DEF IInv
<1>3. Apart(x) /\ Covered(x) /\ h.slot \in Live(x) /\ h.first = x.dir[h.slot].first
  BY <1>1, <1>2, ApartFrame, KeptCovered DEF Live
<1>4. Covered(AfterWrite(x, h, u, FALSE))
  BY <1>1, <1>3, PieceSound, Zenon
<1>5. QED
  BY <1>4 DEF x

LEMMA ReadCovers ==
    ASSUME IInv, Covered(vol), NEW more \in BOOLEAN, job \in Job
    PROVE  /\ LET w == AfterRead(vol, job.h, more)
              IN  /\ w \in Volume /\ Honest(w) /\ w.dir = vol.dir /\ w.fat = vol.fat
                  /\ Covered(w)
           /\ ReadUnit(vol, job.h) \in Units \cup {Blank}
<1> DEFINE w == AfterRead(vol, job.h, more)
<1>1. vol \in Volume /\ Honest(vol) /\ Apart(vol) /\ job.h \in Handle
  BY DEF IInv, TypeOK, CacheHonest, NoSharing, Job
<1>2. /\ w \in Volume /\ Honest(w) /\ w.dir = vol.dir /\ w.fat = vol.fat
      /\ ReadUnit(vol, job.h) \in Units \cup {Blank}
  BY <1>1, ReadSound
<1> HIDE DEF w, IInv
<1>3. Covered(w)
  BY <1>2, KeptCovered
<1>4. QED
  BY <1>2, <1>3 DEF w

LEMMA CopyTurnCovers ==
    ASSUME IInv, Covered(vol), CopyTurn
    PROVE  Covered(vol')
<1> DEFINE v == AfterRead(vol, job.h, FALSE)
           u == ReadUnit(vol, job.h)
<1>1. /\ job \in Job /\ job.call = "copy" /\ HandlesAgree
      /\ vol' = AfterWrite(Forget(v), job.g, u, FALSE)
  BY DEF IInv, TypeOK, CopyTurn
<1>2. job.g \in Handle /\ Agrees(job.g)
  BY <1>1 DEF Job, HandlesAgree, Writing
<1>3. /\ v \in Volume /\ Honest(v) /\ v.dir = vol.dir /\ v.fat = vol.fat
      /\ u \in Units \cup {Blank}
  BY <1>1, ReadCovers
<1> HIDE DEF v, u
<1>4. QED
  BY <1>1, <1>2, <1>3, PieceCovers

LEMMA FlushOutCovers ==
    ASSUME IInv, Covered(vol), NEW v \in Volume, Honest(v), v.dir = vol.dir, v.fat = vol.fat,
           NEW u \in Units \cup {Blank}, redir.active, RedirFlush(v, u)
    PROVE  Covered(vol')
<1>1. redir.h \in Handle /\ Agrees(redir.h)
  BY DEF IInv, TypeOK, Redir, HandlesAgree
<1>2. vol' = AfterWrite(Forget(v), redir.h, u, FALSE)
  BY DEF RedirFlush
<1>3. QED
  BY <1>1, <1>2, PieceCovers

LEMMA CatTurnCovers ==
    ASSUME IInv, Covered(vol), CatTurn
    PROVE  Covered(vol')
<1> DEFINE v == AfterRead(vol, job.h, FALSE)
           u == ReadUnit(vol, job.h)
<1>1. job \in Job /\ IF redir.active THEN RedirFlush(v, u) ELSE vol' = v
  BY DEF IInv, TypeOK, CatTurn
<1>2. /\ v \in Volume /\ Honest(v) /\ v.dir = vol.dir /\ v.fat = vol.fat
      /\ Covered(v) /\ u \in Units \cup {Blank}
  BY <1>1, ReadCovers
<1> HIDE DEF v, u
<1>3. QED
  BY <1>1, <1>2, FlushOutCovers

LEMMA EmitCovers ==
    ASSUME IInv, Covered(vol), NEW u \in Units, Emit(u)
    PROVE  Covered(vol')
BY FlushOutCovers DEF IInv, TypeOK, CacheHonest, Emit

LEMMA DeleteCovers ==
    ASSUME IInv, Covered(vol), NEW n \in Names, Delete(n)
    PROVE  Covered(vol')
<1>1. SlotOf(vol, n) \in Live(vol) /\ vol' = Unlink(vol, SlotOf(vol, n))
  BY SlotFound DEF Delete
<1>2. vol \in Volume /\ Honest(vol) /\ Apart(vol)
  BY DEF IInv, TypeOK, CacheHonest, NoSharing
<1>3. QED
  BY <1>1, <1>2, UnlinkSound

LEMMA RenameCovers ==
    ASSUME IInv, Covered(vol), NEW n \in Names, NEW m \in Names, RenameFile(n, m)
    PROVE  Covered(vol')
<1>1. SlotOf(vol, n) \in Live(vol) /\ vol' = Rename(vol, SlotOf(vol, n), m)
  BY SlotFound DEF RenameFile
<1>2. vol \in Volume /\ Honest(vol) /\ Apart(vol)
  BY DEF IInv, TypeOK, CacheHonest, NoSharing
<1>3. QED
  BY <1>1, <1>2, RenameSound

LEMMA InitCovers == Init => Covered(vol)
BY DEF Init, Mounted, Covered

LEMMA NextCovers == IInv /\ Covered(vol) /\ [Next]_vars => Covered(vol)'
<1> SUFFICES ASSUME IInv, Covered(vol), [Next]_vars PROVE Covered(vol')
  OBVIOUS
<1>1. ASSUME NEW n \in Names, NEW text \in Texts, Save(n, text) PROVE Covered(vol')
  BY <1>1, CreateCovers DEF Save
<1>2. ASSUME NEW n \in Names, Load(n) \/ Cat(n) \/ Delete(n) \/ RedirBegin(n)
      PROVE  Covered(vol')
  BY <1>2, DeleteCovers, CreateCovers DEF Load, Cat, RedirBegin
<1>3. ASSUME NEW n \in Names, NEW m \in Names, Copy(n, m) \/ RenameFile(n, m)
      PROVE  Covered(vol')
  BY <1>3, CreateCovers, RenameCovers DEF Copy
<1>4. ASSUME NEW u \in Units, Emit(u) PROVE Covered(vol')
  BY <1>4, EmitCovers
<1>5. CASE RedirEnd
  <2>1. vol' = Flush(vol, redir.h) /\ redir.h \in Handle /\ Agrees(redir.h)
    BY <1>5 DEF RedirEnd, IInv, TypeOK, Redir, HandlesAgree
  <2>2. QED
    BY <2>1, FlushCovers
<1>6. CASE SaveTurn \/ LoadEnd \/ CopyTurn \/ CatTurn
  BY <1>6, SaveTurnCovers, CopyTurnCovers, CatTurnCovers DEF LoadEnd
<1>7. CASE LoadTurn
  <2>1. (job.h.pos + 1 < job.h.size) \in BOOLEAN /\ job \in Job
    BY DEF IInv, TypeOK
  <2>2. vol' = AfterRead(vol, job.h, job.h.pos + 1 < job.h.size)
    BY <1>7 DEF LoadTurn
  <2>3. QED
    BY <2>1, <2>2, ReadCovers
<1>8. CASE SaveEnd \/ CopyEnd
  <2>1. vol' = Flush(vol, job.g) /\ job.g \in Handle /\ Agrees(job.g)
    BY <1>8 DEF SaveEnd, CopyEnd, IInv, TypeOK, Job, HandlesAgree, Writing
  <2>2. QED
    BY <2>1, FlushCovers
<1>9. CASE UNCHANGED vars
  BY <1>9 DEF vars
<1>10. QED
  BY <1>1, <1>2, <1>3, <1>4, <1>5, <1>6, <1>7, <1>8, <1>9 DEF Next, Turn

-----------------------------------------------------------------------------
(***************************************************************************)
(* Cut only when full.                                                      *)
(***************************************************************************)
\* The steps that may end a call early.
LEMMA SaveCut ==
    ASSUME IInv, SaveTurn, job'.full
    PROVE  \A c \in Clusters : vol'.fat[c] # Free
<1> DEFINE u == Head(job.todo)
           more == Len(job.todo) > 1
           h == job.g
<1>1. /\ vol \in Volume /\ Honest(vol) /\ Apart(vol) /\ job \in Job
      /\ job.call = "save" /\ job.todo # <<>> /\ ~job.full /\ HandlesAgree /\ SaveAtEnd
      /\ vol' = AfterWrite(vol, h, u, more)
  BY DEF IInv, TypeOK, CacheHonest, NoSharing, SaveTurn
<1>2. job.todo \in Seq(Units) /\ h \in Handle
  BY <1>1 DEF Job
<1>3. u \in Units \cup {Blank} /\ more \in BOOLEAN
  BY <1>1, <1>2
<1>4. h.slot \in Live(vol) /\ h.first = vol.dir[h.slot].first
  BY <1>1 DEF HandlesAgree, Writing, Agrees
<1>5. vol.valid = FALSE
  BY <1>1 DEF SaveAtEnd
<1>6. ShortWrite(vol, h, u, more)
  <2>1. job'.full = ShortWrite(vol, h, u, more)
    BY <1>1 DEF SaveTurn, Job
  <2>2. QED
    BY <2>1
<1> HIDE DEF u, more, h
<1>7. QED
  BY <1>1, <1>2, <1>3, <1>4, <1>5, <1>6, ShortIsFull, Zenon

\* A piece of output or of a copy, after whatever reads were made.
LEMMA PieceCut ==
    ASSUME IInv, NEW v \in Volume, Honest(v), v.dir = vol.dir, v.fat = vol.fat,
           NEW h \in Handle, Agrees(h), NEW u \in Units \cup {Blank},
           ~HasRoom(Forget(v), h) \/ ShortWrite(Forget(v), h, u, FALSE)
    PROVE  \A c \in Clusters : AfterWrite(Forget(v), h, u, FALSE).fat[c] # Free
<1> DEFINE x == Forget(v)
<1>1. x \in Volume /\ Honest(x) /\ x.valid = FALSE /\ x.fat = vol.fat /\ x.dir = vol.dir
  BY ForgetSound
<1>2. ~HasRoom(x, h) \/ ShortWrite(x, h, u, FALSE)
  OBVIOUS
<1> HIDE DEF x
<1>3. Apart(x) /\ h.slot \in Live(x) /\ h.first = x.dir[h.slot].first
  BY <1>1, ApartFrame DEF Live, Agrees, IInv, NoSharing
<1>4. \A c \in Clusters : AfterWrite(x, h, u, FALSE).fat[c] # Free
  BY <1>1, <1>2, <1>3, ShortIsFull
<1>5. QED
  BY <1>4 DEF x

LEMMA CopyCut ==
    ASSUME IInv, CopyTurn, job'.full
    PROVE  \A c \in Clusters : vol'.fat[c] # Free
<1> DEFINE v == AfterRead(vol, job.h, FALSE)
           u == ReadUnit(vol, job.h)
<1>1. /\ vol \in Volume /\ Honest(vol) /\ Apart(vol) /\ job \in Job
      /\ job.call = "copy" /\ HandlesAgree
      /\ vol' = AfterWrite(Forget(v), job.g, u, FALSE)
  BY DEF IInv, TypeOK, CacheHonest, NoSharing, CopyTurn
<1>2. job.h \in Handle /\ job.g \in Handle /\ Agrees(job.g)
  BY <1>1 DEF Job, HandlesAgree, Writing
<1>3. /\ v \in Volume /\ Honest(v) /\ v.dir = vol.dir /\ v.fat = vol.fat
      /\ u \in Units \cup {Blank}
  BY <1>1, <1>2, ReadSound
<1>4. ShortWrite(Forget(v), job.g, u, FALSE)
  <2>1. job'.full = ShortWrite(Forget(v), job.g, u, FALSE)
    BY <1>1 DEF CopyTurn, Job
  <2>2. QED
    BY <2>1
<1> HIDE DEF v, u
<1>5. QED
  BY <1>1, <1>2, <1>3, <1>4, PieceCut

LEMMA OutputCut ==
    ASSUME IInv, NEW u \in Units, Emit(u), redir'.text = redir.text
    PROVE  \A c \in Clusters : vol'.fat[c] # Free
<1>1. /\ vol \in Volume /\ Honest(vol) /\ redir \in Redir /\ redir.h \in Handle
      /\ Agrees(redir.h) /\ redir.text \in Seq(Units \cup {Blank})
      /\ vol' = AfterWrite(Forget(vol), redir.h, u, FALSE)
  BY DEF IInv, TypeOK, CacheHonest, Emit, RedirFlush, HandlesAgree, Redir
<1>2. redir'.text = IF HasRoom(Forget(vol), redir.h) THEN Append(redir.text, u) ELSE redir.text
  BY <1>1 DEF Emit, RedirFlush, Redir
<1>3. Append(redir.text, u) # redir.text
  <2>1. Len(Append(redir.text, u)) = Len(redir.text) + 1 /\ Len(redir.text) \in Nat
    BY <1>1
  <2>2. QED
    BY <2>1
<1>4. ~HasRoom(Forget(vol), redir.h)
  BY <1>2, <1>3
<1>5. QED
  BY <1>1, <1>4, PieceCut

\* No other step ends a call early.
LEMMA OnlyTurnsCut ==
    ASSUME job \in Job, [Next]_vars, job'.full, ~job.full
    PROVE  SaveTurn \/ CopyTurn
<1>1. /\ ~NoJob.full
      /\ \A c, n : ~Opened(c, n).full
  BY DEF NoJob, Opened
<1>2. ASSUME NEW n \in Names, NEW text \in Texts, Save(n, text) PROVE FALSE
  BY <1>2 DEF Save, NoJob
<1>3. ASSUME NEW n \in Names, NEW m \in Names, Copy(n, m) PROVE FALSE
  BY <1>3 DEF Copy, Opened, NoJob
<1>4. CASE LoadTurn \/ CatTurn
  BY <1>4 DEF LoadTurn, CatTurn, Job
<1>5. QED
  BY <1>1, <1>2, <1>3, <1>4
     DEF Next, Turn, vars, Load, Cat, Delete, RedirBegin, RenameFile, Emit, RedirEnd, SaveEnd,
         LoadEnd, CopyEnd, Return

-----------------------------------------------------------------------------
(***************************************************************************)
(* Theorems.                                                                *)
(***************************************************************************)
LEMMA Invariance == Spec => []IInv
BY InitSound, NextSound, PTL DEF Spec

\* The state of the volume, the calls and the redirection is well formed,
\* whatever sequence of the calls of bdos.c leads to it.
THEOREM TypeCorrect == Spec => []TypeOK
<1>1. IInv => TypeOK
  BY DEF IInv
<1>2. QED
  BY <1>1, Invariance, PTL

\* The comment of fat.c on fat_wbuf, "the cache is invalidated on every write
\* so the buffer can safely be reused as scratch in between": on a volume of
\* one FAT sector and a fixed root the driver never believes a stale buffer.
THEOREM CacheIsHonest == Spec => []CacheHonest
<1>1. IInv => CacheHonest
  BY DEF IInv
<1>2. QED
  BY <1>1, Invariance, PTL

\* fat_alloc_cluster, fat_free_chain and the order in which fat_fwrite links
\* what it allocates never put a cluster into two files, or twice into one.
THEOREM NeverShared == Spec => []NoSharing
<1>1. IInv => NoSharing
  BY DEF IInv
<1>2. QED
  BY <1>1, Invariance, PTL

\* The handle of a redirection, kept across the calls of other commands, and
\* the one of the call in progress still say what their entries say.
THEOREM HandlesKeepUp == Spec => []HandlesAgree
<1>1. IInv => HandlesAgree
  BY DEF IInv
<1>2. QED
  BY <1>1, Invariance, PTL

\* A call that is cut short, a file created over an old one and the output
\* of a redirection leave no cluster in use that no file's chain passes: what
\* fat_alloc_cluster takes is linked, or in the entry, before the call ends.
THEOREM NothingIsLost == Spec => []NothingLost
<1>1. Spec => [](IInv /\ Covered(vol))
  BY InitSound, NextSound, InitCovers, NextCovers, PTL DEF Spec
<1>2. IInv /\ Covered(vol) => NothingLost
  BY CoveredReaches DEF IInv, TypeOK, NothingLost
<1>3. QED
  BY <1>1, <1>2, PTL

\* fat_fwrite gives up, and a piece of redirected output is dropped, only when
\* the scan of fat_alloc_cluster has found every cluster in use: never because
\* the buffer it scans is stale, or the scan stops early.
THEOREM CutsOnlyWhenFull == Spec => CutOnlyWhenFull
<1>1. IInv /\ [Next]_vars =>
        [/\ job'.full /\ ~job.full => IsFull'
         /\ \A u \in Units : Emit(u) /\ redir'.text = redir.text => IsFull']_vars
  <2> SUFFICES ASSUME IInv, [Next]_vars
               PROVE  /\ job'.full /\ ~job.full => IsFull'
                      /\ \A u \in Units : Emit(u) /\ redir'.text = redir.text => IsFull'
    OBVIOUS
  <2>1. ASSUME job'.full, ~job.full PROVE IsFull'
    <3>1. SaveTurn \/ CopyTurn
      BY <2>1, OnlyTurnsCut DEF IInv, TypeOK
    <3>2. QED
      BY <2>1, <3>1, SaveCut, CopyCut DEF IsFull
  <2>2. ASSUME NEW u \in Units, Emit(u), redir'.text = redir.text PROVE IsFull'
    BY <2>2, OutputCut DEF IsFull
  <2>3. QED
    BY <2>1, <2>2
<1>2. QED
  BY <1>1, Invariance, PTL DEF Spec, CutOnlyWhenFull
=============================================================================
