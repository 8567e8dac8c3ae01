-------------------------------- MODULE Fcb --------------------------------
(***************************************************************************)
(* The CP/M file calls of XCP/M, BDOS 15 to 36 of                           *)
(* src/xcpm-mips/src/bdos.c: programs keep file control blocks in their own *)
(* memory, the kernel a table of open handles, and all that ties one to the *)
(* other is an index and a generation written into the block.               *)
(*                                                                          *)
(* A program may copy a block, forget it, or keep it long after it closed   *)
(* the file; the handle it names may by then be another file's.  Under a    *)
(* handle is the FAT driver, of which this module keeps what the calls can  *)
(* tell: a file is an entry and a chain; a chain holds whole clusters, a    *)
(* seek goes no further than the size and fails at the end of a full        *)
(* chain; fat_fopen leaves the handle's note of its entry as it was.  A     *)
(* cell of data is a record of 128 bytes.                                   *)
(***************************************************************************)
EXTENDS Naturals, Sequences, SequencesExt, FiniteSets, FiniteSetsExt

CONSTANTS Blocks,       \* the file control blocks
          Names,        \* file names
          Data,         \* what a record may hold
          Handles,      \* FAT_MAX_OPEN, 1 .. a number
          Chains,       \* chains the volume has room for, 1 .. a number
          Slots,        \* directory entries, 1 .. a number
          Gens,         \* generations before they repeat: 255 in the source
          ClusterRecs,  \* records in a cluster
          ExtentRecs,   \* records in an extent: 128 in the source
          Files,        \* the files at the start: name -> sequence of records
          WriteOpened,  \* programs write to files they have opened, not made
          MaxOpens, MaxRecs

ASSUME FcbAssumption ==
    /\ Gens \in Nat \ {0} /\ ClusterRecs \in Nat \ {0} /\ ExtentRecs \in Nat \ {0}
    /\ MaxOpens \in Nat /\ MaxRecs \in Nat
    /\ IsFiniteSet(Handles) /\ Handles = 1 .. Cardinality(Handles)
    /\ IsFiniteSet(Chains) /\ Chains = 1 .. Cardinality(Chains)
    /\ IsFiniteSet(Slots) /\ Slots = 1 .. Cardinality(Slots)
    /\ "none" \notin Names /\ DOMAIN Files \subseteq Names
    /\ IsFiniteSet(DOMAIN Files) /\ Cardinality(DOMAIN Files) <= Cardinality(Chains)
    /\ \A n \in DOMAIN Files : Files[n] \in Seq(Range(Files[n]))
    /\ WriteOpened \in BOOLEAN

VARIABLES dir,       \* the entries
          chain,     \* what the chains hold
          handle,    \* fhandles
          gen,       \* next_generation
          fcb,       \* the blocks
          opens      \* for the properties: how many opens there have been

vars == <<dir, chain, handle, gen, fcb, opens>>

None   == "none"
NoSlot == 0
\* serial, made and read are there for the properties: which open the block
\* and the handle are of, whether by Make, and the records read in sequence.
NoBlock  == [name |-> None, magic |-> FALSE, idx |-> 1, gen |-> 0, rec |-> 0,
             serial |-> 0, made |-> FALSE, inSeq |-> FALSE, read |-> 0]
NoHandle == [used |-> FALSE, gen |-> 0, slot |-> NoSlot, chain |-> 0, size |-> 0, serial |-> 0]
NoEntry  == [name |-> None, chain |-> 0, size |-> 0]

SlotOf(n) == LET s == {i \in Slots : dir[i].name = n} IN IF s = {} THEN NoSlot ELSE Min(s)
Text(d, n) == LET s == CHOOSE i \in Slots : d[i].name = n
              IN  IF d[s].chain = 0 THEN <<>> ELSE SubSeq(chain[d[s].chain], 1, d[s].size)

Init ==
    LET order == SetToSeq(DOMAIN Files)
    IN  /\ dir = [s \in Slots |->
                    IF s <= Len(order)
                    THEN [name |-> order[s], chain |-> s, size |-> Len(Files[order[s]])]
                    ELSE NoEntry]
        /\ chain = [c \in Chains |-> IF c <= Len(order) THEN Files[order[c]] ELSE <<>>]
        /\ handle = [h \in Handles |-> NoHandle]
        /\ gen = 1
        /\ fcb = [f \in Blocks |-> NoBlock]
        /\ opens = 0
-----------------------------------------------------------------------------
(***************************************************************************)
(* Handles.                                                                 *)
(***************************************************************************)
\* resolve_fcb.
Resolves(f) == fcb[f].magic /\ handle[fcb[f].idx].used /\ handle[fcb[f].idx].gen = fcb[f].gen
HandleOf(f) == handle[fcb[f].idx]

IsFull  == \A h \in Handles : handle[h].used
NewIdx  == Min({h \in Handles : ~handle[h].used})
\* (Mutated: the generation is not counted.)
SameGen(g) == g
\* alloc_handle: next_generation++ in eight bits, and 0 is left out.
NextGen(g) == (g % Gens) + 1

\* (Mutated: the extent is counted in clusters.)
LastCluster(size) == (size \div ClusterRecs) * ClusterRecs
\* d_open: the extent, and so the first record read, is the last one of the file.
OpenExtent(size) == (size \div ExtentRecs) * ExtentRecs

\* stash_handle, and the block's position.
Stash(f, n, h, rec, made) ==
    fcb' = [fcb EXCEPT ![f] = [name |-> n, magic |-> TRUE, idx |-> h, gen |-> gen, rec |-> rec,
                               serial |-> opens + 1, made |-> made, inSeq |-> TRUE, read |-> 0]]

\* A call that takes a handle takes a generation, and keeps it if it fails.
Taken(h, file) ==
    /\ handle' = [handle EXCEPT ![h] = file]
    /\ gen' = NextGen(gen)
    /\ opens' = opens + 1

\* 15.  fat_fopen sets the chain and the size, not where the entry is.
Open(f, n) ==
    /\ opens < MaxOpens /\ ~IsFull
    /\ \E h \in {NewIdx}, s \in {SlotOf(n)} :
         IF s = NoSlot
         THEN Taken(h, handle[h]) /\ UNCHANGED fcb
         ELSE /\ Taken(h, [used |-> TRUE, gen |-> gen, slot |-> handle[h].slot,
                           chain |-> dir[s].chain, size |-> dir[s].size, serial |-> opens + 1])
              /\ Stash(f, n, h, OpenExtent(dir[s].size), FALSE)
    /\ UNCHANGED <<dir, chain>>

Freed(c) == [d \in Chains |-> IF d = c THEN <<>> ELSE chain[d]]

\* A program does not take away a file that it has open itself.
IsOpen(n) == \E f \in Blocks : Resolves(f) /\ fcb[f].name = n

\* 22.  fat_fcreate empties the entry, or takes a free one.
Make(f, n) ==
    LET free == {s \in Slots : dir[s].name = None}
        s    == IF SlotOf(n) # NoSlot THEN SlotOf(n)
                ELSE IF free = {} THEN NoSlot ELSE Min(free)
    IN  /\ opens < MaxOpens /\ ~IsFull /\ ~IsOpen(n)
        /\ \E h \in {NewIdx} :
             IF s = NoSlot
             THEN Taken(h, handle[h]) /\ UNCHANGED <<fcb, dir, chain>>
             ELSE /\ Taken(h, [used |-> TRUE, gen |-> gen, slot |-> s, chain |-> 0, size |-> 0,
                               serial |-> opens + 1])
                  /\ dir' = [dir EXCEPT ![s] = [NoEntry EXCEPT !.name = n]]
                  /\ chain' = Freed(dir[s].chain)
                  /\ Stash(f, n, h, 0, TRUE)

\* 16.
Close(f) ==
    /\ Resolves(f)
    /\ handle' = [handle EXCEPT ![fcb[f].idx] = [NoHandle EXCEPT !.slot = HandleOf(f).slot]]
    /\ fcb' = [fcb EXCEPT ![f] = NoBlock]
    /\ UNCHANGED <<dir, chain, gen, opens>>

\* What programs do with their memory: they copy a block to where none is, or
\* end and leave it to the next.  No warm boot closes a handle.
CopyBlock(f, g) ==
    /\ fcb[f].magic /\ ~fcb[g].magic
    /\ fcb' = [fcb EXCEPT ![g] = fcb[f]]
    /\ UNCHANGED <<dir, chain, handle, gen, opens>>

Forget(f) ==
    /\ fcb[f] # NoBlock
    /\ fcb' = [fcb EXCEPT ![f] = NoBlock]
    /\ UNCHANGED <<dir, chain, handle, gen, opens>>
-----------------------------------------------------------------------------
(***************************************************************************)
(* Records.                                                                 *)
(***************************************************************************)
\* fat_fseek: clamped to the size, and past a chain's last cluster it fails.
Clamped(h, r) == IF r > h.size THEN h.size ELSE r
Clusters(h)   == IF h.chain = 0 THEN 0
                 ELSE (Len(chain[h.chain]) + ClusterRecs - 1) \div ClusterRecs
Reachable(h, r) == Clamped(h, r) < ClusterRecs \/ Clamped(h, r) \div ClusterRecs < Clusters(h)

Advance(f, r, inSeq) ==
    fcb' = [fcb EXCEPT ![f].rec = r, ![f].inSeq = inSeq,
                       ![f].read = IF inSeq THEN @ + 1 ELSE 0]

\* 20 and 33.  A random read leaves the position at the record it has read.
CanRead(f, r) == Resolves(f) /\ r < HandleOf(f).size /\ Reachable(HandleOf(f), r)
Given(f, r)   == chain[HandleOf(f).chain][r + 1]
ReadSeq(f) ==
    /\ CanRead(f, fcb[f].rec)
    /\ Advance(f, fcb[f].rec + 1, fcb[f].inSeq)
    /\ UNCHANGED <<dir, chain, handle, gen, opens>>
ReadRandom(f, r) ==
    /\ CanRead(f, r)
    /\ Advance(f, r, FALSE)
    /\ UNCHANGED <<dir, chain, handle, gen, opens>>

\* fat_fwrite of one record: a file without a chain gets one, if there is one.
Free   == Chains \ {dir[s].chain : s \in Slots}
Written(c, r, u) ==
    IF r < Len(chain[c]) THEN [chain EXCEPT ![c] = ReplaceAt(@, r + 1, u)]
    ELSE [chain EXCEPT ![c] = Append(@, u)]

\* (Mutated: the size is the record written, not the furthest.)
LastRecord(size, r) == r + 1
GrownTo(size, r) == IF r + 1 > size THEN r + 1 ELSE size

\* The handle after it, and fat_fflush: the entry the handle notes gets its
\* size and chain.  Slot 0, a note never made, is the volume's first sector.
WriteAt(f, r, u) ==
    LET h == HandleOf(f)
        p == Clamped(h, r)
        c == IF h.chain # 0 THEN h.chain ELSE IF Free = {} THEN 0 ELSE Min(Free)
    IN  /\ Resolves(f) /\ (fcb[f].made \/ WriteOpened) /\ p < MaxRecs
        /\ Reachable(h, r) /\ c # 0
        /\ chain' = IF h.chain = 0 THEN [chain EXCEPT ![c] = <<u>>] ELSE Written(c, p, u)
        /\ handle' = [handle EXCEPT ![fcb[f].idx].chain = c,
                                    ![fcb[f].idx].size = GrownTo(h.size, p)]
        /\ dir' = [s \in Slots |-> IF s = h.slot
                                   THEN [dir[s] EXCEPT !.size = GrownTo(h.size, p), !.chain = c]
                                   ELSE dir[s]]
        /\ UNCHANGED <<gen, opens>>

\* 21 and 34.
WriteSeq(f, u)       == WriteAt(f, fcb[f].rec, u) /\ Advance(f, fcb[f].rec + 1, FALSE)
WriteRandom(f, r, u) == WriteAt(f, r, u) /\ Advance(f, r, FALSE)

\* The random record is the program's choice; 35 makes it the size, and 36 the
\* position.
RandomRecords(f) == 0 .. MaxRecs - 1 \cup {HandleOf(f).size, fcb[f].rec}
-----------------------------------------------------------------------------
(***************************************************************************)
(* The directory.                                                           *)
(***************************************************************************)
\* 19.
Delete(n) ==
    /\ SlotOf(n) # NoSlot /\ ~IsOpen(n)
    /\ dir' = [dir EXCEPT ![SlotOf(n)] = NoEntry]
    /\ chain' = Freed(dir[SlotOf(n)].chain)
    /\ UNCHANGED <<handle, gen, fcb, opens>>

Next == \/ \E f \in Blocks, n \in Names : Open(f, n) \/ Make(f, n)
        \/ \E f, g \in Blocks : CopyBlock(f, g)
        \/ \E f \in Blocks : Close(f) \/ Forget(f) \/ ReadSeq(f)
        \/ \E f \in Blocks : \E r \in RandomRecords(f) :
              ReadRandom(f, r) \/ \E u \in Data : WriteRandom(f, r, u)
        \/ \E f \in Blocks, u \in Data : WriteSeq(f, u)
        \/ \E n \in Names : Delete(n)

Spec == Init /\ [][Next]_vars
-----------------------------------------------------------------------------
(***************************************************************************)
(* Properties.                                                              *)
(***************************************************************************)
\* "generation counter (catches reuse after warm-boot)": a block that gets
\* through resolve_fcb gets the file of its own open, unless as many opens as
\* there are generations lie between.
Reaches ==
    \A f \in Blocks : Resolves(f) =>
       HandleOf(f).serial = fcb[f].serial \/ HandleOf(f).serial - fcb[f].serial >= Gens

\* Read one after the other, the records of a file are those of its text, from
\* the first, as long as it is shorter than an extent when it is opened.
ReadsInOrder ==
    opens <= Gens => \A f \in Blocks :
       /\ CanRead(f, fcb[f].rec) /\ fcb[f].inSeq
       /\ fcb[f].made \/ HandleOf(f).size < ExtentRecs
       => Given(f, fcb[f].rec) = Text(dir, fcb[f].name)[fcb[f].read + 1]

\* A record written is where the program asked for it, or at the end when that
\* is nearer; nothing else in that file changes, and nothing in any other.
Placed(text, r, u) == IF r < Len(text) THEN ReplaceAt(text, r + 1, u) ELSE Append(text, u)
Others(n) == {m \in Names \ {n} : SlotOf(m) # NoSlot}
Lands(n, r, u) ==
    /\ Text(dir, n)' = Placed(Text(dir, n), r, u)
    /\ \A m \in Others(n) : Text(dir, m)' = Text(dir, m)
WritesLand ==
    [][opens <= Gens /\ <<chain, handle>>' # <<chain, handle>> => \A f \in Blocks, u \in Data :
         /\ WriteSeq(f, u) => Lands(fcb[f].name, fcb[f].rec, u)
         /\ \A r \in RandomRecords(f) :
               WriteRandom(f, r, u) => Lands(fcb[f].name, r, u)]_vars
=============================================================================
