-------------------------------- MODULE Fat --------------------------------
(***************************************************************************)
(* The FAT driver under the XCP/M BDOS, src/xcpm-mips/src/fat.c, as         *)
(* operators on a volume: what each static helper does to the FAT, to the   *)
(* root directory, to the data clusters and to the one sector buffer.       *)
(*                                                                          *)
(* The volume is the one the build makes (mkfs.fat -F 12, 128 KB): a fixed  *)
(* root directory and a FAT small enough that the buffer holds all of it.   *)
(* What the buffer holds is one variable, what the driver believes it holds *)
(* (fat_buf_valid) another: fat_wbuf is both the FAT cache and the work     *)
(* buffer of every other path.                                              *)
(*                                                                          *)
(* A "unit" is what one turn of the loops of fat_fread and fat_fwrite       *)
(* moves, a sector or a part of it.  A turn of fat_fwrite reads the sector, *)
(* changes it and writes it back; the second buffer, sec_buf, keeps the     *)
(* sector that fat_fread read last.                                         *)
(***************************************************************************)
EXTENDS Integers, Sequences

CONSTANTS NumClusters,    \* M.cluster_count
          ClusterSectors, \* M.sec_per_clus
          SectorUnits,    \* units in a sector
          NumSlots,       \* entries in the root directory
          Names, NoName,  \* NoName: an entry never used or deleted (0x00, 0xE5)
          Units, Blank,   \* Blank: bytes that are no file's
          Junk            \* a buffer that holds anything but the FAT

Clusters == 2 .. NumClusters + 1
Slots    == 1 .. NumSlots
Sectors  == 0 .. ClusterSectors - 1
Offsets  == 0 .. SectorUnits - 1
Free     == 0                    \* also "no cluster" in an entry and a handle
Eoc      == NumClusters + 2      \* any end-of-chain mark
Links    == Clusters \cup {Free, Eoc}
ClusterUnits == ClusterSectors * SectorUnits

ASSUME FatAssumption ==
    /\ NumClusters \in Nat /\ NumSlots \in Nat
    /\ ClusterSectors \in Nat \ {0} /\ SectorUnits \in Nat \ {0}
    /\ NoName \notin Names /\ Blank \notin Units
    /\ Junk \notin [Clusters -> Links]

\* Where in its cluster a position falls: sec_in_clus and in_sec_pos.
Sec(pos) == (pos \div SectorUnits) % ClusterSectors
Off(pos) == pos % SectorUnits

Bytes == [Offsets -> Units \cup {Blank}]      \* one sector
Empty == [o \in Offsets |-> Blank]

Entry == [name : Names \cup {NoName}, first : Clusters \cup {Free}, size : Nat]

\* The data sector read last by fat_fread; clus = Free when there is none.
Cached == [clus : Clusters \cup {Free}, sec : Sectors, data : Bytes]
NoSector == [clus |-> Free, sec |-> 0, data |-> Empty]

Volume == [fat   : [Clusters -> Links],
           dir   : [Slots -> Entry],
           data  : [Clusters -> [Sectors -> Bytes]],
           buf   : [Clusters -> Links] \cup {Junk},     \* fat_wbuf
           valid : BOOLEAN,                             \* fat_buf_valid
           sec   : Cached]                              \* sec_buf and its flag

\* fat_file_t: in the order first_clus, cur_clus, cur_pos, file_size, dir_*
Handle == [first : Clusters \cup {Free}, cur : Clusters \cup {Free},
           pos : Nat, size : Nat, slot : Slots \cup {0}]

NoEntry  == [name |-> NoName, first |-> Free, size |-> 0]
NoHandle == [first |-> Free, cur |-> Free, pos |-> 0, size |-> 0, slot |-> 0]

\* A freshly mounted, empty volume.
Mounted == [fat   |-> [c \in Clusters |-> Free],
            dir   |-> [s \in Slots |-> NoEntry],
            data  |-> [c \in Clusters |-> [s \in Sectors |-> Empty]],
            buf   |-> Junk,
            valid |-> FALSE,
            sec   |-> NoSector]
-----------------------------------------------------------------------------
(***************************************************************************)
(* The sector buffer.                                                       *)
(***************************************************************************)
\* read_fat_sec: trust the flag, or read the FAT and set it.
LoadFat(v) == IF v.valid THEN v ELSE [v EXCEPT !.buf = v.fat, !.valid = TRUE]

\* (Mutated: the flag stays up.)
ForgetNothing(v) == v
\* "fat_buf_valid = 0"
Forget(v) == [v EXCEPT !.valid = FALSE]

\* blk_read of a directory or data sector straight into fat_wbuf.
Scratch(v) == [v EXCEPT !.buf = Junk]

\* fat_next_clus, on a buffer that LoadFat has filled.  Entry 0 of a FAT is
\* the media mark 0xFF8, which reads as an end of chain.
NextClus(v, c) == IF c = Free THEN Eoc ELSE LoadFat(v).buf[c]

(***************************************************************************)
(* The FAT.                                                                 *)
(***************************************************************************)
\* fat_set_entry: reads the FAT sector afresh; write_sec drops the flag.
SetEntry(v, c, x) ==
    [v EXCEPT !.fat[c] = x, !.buf = [v.fat EXCEPT ![c] = x], !.valid = FALSE]

\* What a scan from the first cluster or entry finds: 0 if S has none.
IsLeast(i, S) == \A j \in S : i <= j
Least(S) == IF \E i \in S : IsLeast(i, S) THEN CHOOSE i \in S : IsLeast(i, S) ELSE 0

\* (Mutated: the scan stops one short.)
FreeClustersButLast(v) == {c \in Clusters \ {NumClusters + 1} : NextClus(v, c) = Free}
FreeClusters(v) == {c \in Clusters : NextClus(v, c) = Free}

\* fat_alloc_cluster: the first free cluster, now an end of chain; Free if none.
Alloc(v) == Least(FreeClusters(v))

\* (Mutated: the cluster is not marked.)
AfterAllocUnmarked(v) == LoadFat(v)
AfterAlloc(v) == IF Alloc(v) = Free THEN LoadFat(v) ELSE SetEntry(LoadFat(v), Alloc(v), Eoc)

\* The clusters a walk of the FAT from f passes: those in every set that
\* holds f and, with a cluster, the one it links to.
Closed(f, S)  == \A c \in S : f[c] \in Clusters => f[c] \in S
Chain(f, first) ==
    {c \in Clusters : \A S \in SUBSET Clusters : first \in S /\ Closed(f, S) => c \in S}

\* fat_free_chain.  Every turn rereads the FAT after fat_set_entry.
FreeChain(v, first) ==
    LET f == [c \in Clusters |-> IF c \in Chain(LoadFat(v).buf, first) THEN Free ELSE v.fat[c]]
    IN  [v EXCEPT !.fat = f, !.buf = f, !.valid = FALSE]

(***************************************************************************)
(* The root directory.                                                      *)
(***************************************************************************)
Live(v) == {s \in Slots : v.dir[s].name # NoName}

\* fat_find_dirent and the walk of fat_fopen: the slot of a name, or 0.
SlotOf(v, n) == Least({s \in Live(v) : v.dir[s].name = n})

\* fat_find_empty_dirent: the first entry never used or deleted, or 0.
EmptySlot(v) == Least(Slots \ Live(v))

\* blk_read, change, write_sec of a directory sector.
WriteEntry(v, s, e) == [v EXCEPT !.dir[s] = e, !.buf = Junk]

\* (Mutated: the clusters are left.)
FreeFileNot(v, s) == Scratch(v)
\* fat_free_chain of an entry's clusters, when it has any.
FreeFile(v, s) == IF v.dir[s].first # Free THEN FreeChain(Scratch(v), v.dir[s].first)
                                           ELSE Scratch(v)
-----------------------------------------------------------------------------
(***************************************************************************)
(* The file routines.                                                       *)
(***************************************************************************)
\* fat_fcreate: the slot it will use (0: directory full), the volume after
\* it, the handle it fills in.
CreateSlot(v, n) == IF SlotOf(v, n) # 0 THEN SlotOf(v, n) ELSE EmptySlot(v)

AfterCreate(v, n) ==
    LET s == SlotOf(v, n)
        w == Forget(v)
    IN  IF CreateSlot(v, n) = 0 THEN Scratch(w)
        ELSE WriteEntry(IF s # 0 THEN FreeFile(w, s) ELSE Scratch(w),
                        CreateSlot(v, n), [NoEntry EXCEPT !.name = n])

NewHandle(s) == [NoHandle EXCEPT !.slot = s]

\* fat_fopen: position, size and chain from the entry.  dir_lba and dir_off
\* are left as they were; no caller modelled here flushes such a handle.
OpenHandle(v, s) ==
    [NoHandle EXCEPT !.first = v.dir[s].first, !.cur = v.dir[s].first, !.size = v.dir[s].size]

\* One turn of fat_fread's loop: the unit it produces, then the handle and
\* the volume after it.  more: the call wants units after this one.  A call
\* that the end of the chain cuts short is made again by its caller, so the
\* turn after it is the same.
AtBoundary(h) == h.pos % ClusterUnits = 0
Advance(h) == [h EXCEPT !.pos = @ + 1]
\* fat_clus_to_lba of no cluster is the boot sector: not a byte of any file.
Holds(v, c, i)  == v.sec.clus = c /\ v.sec.sec = i
Sector(v, c, i) == IF c = Free THEN NoSector
                   ELSE IF Holds(v, c, i) THEN v.sec
                   ELSE [clus |-> c, sec |-> i, data |-> v.data[c][i]]
SectorOf(v, h)  == Sector(v, h.cur, Sec(h.pos))
ReadUnit(v, h)  == SectorOf(v, h).data[Off(h.pos)]
Crosses(h, more) == AtBoundary(Advance(h)) /\ more
AfterRead(v, h, more) ==
    LET w == [Scratch(Forget(v)) EXCEPT !.sec = SectorOf(v, h)]
    IN  IF Crosses(h, more) THEN LoadFat(w) ELSE w
\* (Mutated: the chain is not followed.)
ReadHandleStays(v, h, more) == Advance(h)
ReadHandle(v, h, more) ==
    LET nxt == NextClus(Forget(v), h.cur)
    IN  IF Crosses(h, more) /\ nxt # Eoc THEN [Advance(h) EXCEPT !.cur = nxt] ELSE Advance(h)

\* fat_fwrite, first part of a turn: a file without a cluster gets one, and
\* its entry is written at once.  Without one left the call is over.
HasRoom(v, h) == h.first # Free \/ Alloc(v) # Free
\* (Mutated: the entry is left to fat_fflush.)
AttachLater(v, h) == IF h.first # Free THEN v ELSE AfterAlloc(v)
Attach(v, h) ==
    IF h.first # Free THEN v
    ELSE IF Alloc(v) = Free THEN LoadFat(v)
    ELSE LET w == AfterAlloc(v) IN WriteEntry(w, h.slot, [w.dir[h.slot] EXCEPT !.first = Alloc(v)])
AttachHandle(v, h) ==
    IF h.first # Free THEN h ELSE [h EXCEPT !.first = Alloc(v), !.cur = Alloc(v)]

\* Second part: the unit goes into the current cluster; write_sec drops the
\* copy that fat_fread may have of it.
Store(v, h, u) ==
    [v EXCEPT !.data[h.cur][Sec(h.pos)][Off(h.pos)] = u, !.buf = Junk,
              !.sec = IF Holds(v, h.cur, Sec(h.pos)) THEN NoSector ELSE @]
Grow(h) == [h EXCEPT !.pos = @ + 1, !.size = IF h.pos + 1 > @ THEN h.pos + 1 ELSE @]

\* Third part, at the end of a cluster with more to write: the next one of
\* the chain, or a new one linked to it.
\* (Mutated: the new cluster is linked behind the first.)
ExtendFirst(v, h) ==
    IF NextClus(v, h.cur) # Eoc \/ Alloc(LoadFat(v)) = Free THEN LoadFat(v)
    ELSE SetEntry(AfterAlloc(LoadFat(v)), h.first, Alloc(LoadFat(v)))
Extend(v, h) ==
    IF NextClus(v, h.cur) # Eoc \/ Alloc(LoadFat(v)) = Free THEN LoadFat(v)
    ELSE SetEntry(AfterAlloc(LoadFat(v)), h.cur, Alloc(LoadFat(v)))
ExtendHandle(v, h) ==
    LET nxt == NextClus(v, h.cur)
    IN  IF nxt # Eoc THEN [h EXCEPT !.cur = nxt]
        ELSE IF Alloc(LoadFat(v)) = Free THEN h
        ELSE [h EXCEPT !.cur = Alloc(LoadFat(v))]
Stuck(v, h) == NextClus(v, h.cur) = Eoc /\ Alloc(LoadFat(v)) = Free

\* One turn of fat_fwrite: the volume and the handle after it, and whether
\* the call ends here for want of a cluster.
AfterWrite(v, h, u, more) ==
    LET w == Attach(v, h)
        g == AttachHandle(v, h)
        x == Store(w, g, u)
    IN  IF ~HasRoom(v, h) THEN w ELSE IF Crosses(g, more) THEN Extend(x, g) ELSE x
WriteHandle(v, h, u, more) ==
    LET g == AttachHandle(v, h)
        x == Store(Attach(v, h), g, u)
    IN  IF ~HasRoom(v, h) THEN h
        ELSE IF Crosses(g, more) THEN ExtendHandle(x, Grow(g)) ELSE Grow(g)
ShortWrite(v, h, u, more) ==
    LET g == AttachHandle(v, h)
    IN  ~HasRoom(v, h) \/ (Crosses(g, more) /\ Stuck(Store(Attach(v, h), g, u), g))

\* fat_fflush: the size, and the first cluster if there is one.
Flush(v, h) ==
    WriteEntry(Forget(v), h.slot,
               [v.dir[h.slot] EXCEPT !.size = h.size,
                                     !.first = IF h.first # Free THEN h.first ELSE @])

\* fat_funlink: free the chain, then mark the entry; its other fields stay.
Unlink(v, s) == LET w == FreeFile(Forget(v), s)
                IN  WriteEntry(w, s, [w.dir[s] EXCEPT !.name = NoName])

\* fat_frename.
Rename(v, s, n) == WriteEntry(Forget(v), s, [v.dir[s] EXCEPT !.name = n])
-----------------------------------------------------------------------------
(***************************************************************************)
(* When a volume is sound.                                                  *)
(***************************************************************************)
\* What the driver would believe of its buffers is so.
Honest(v) == /\ v.valid => v.buf = v.fat
             /\ v.sec.clus # Free => v.sec.data = v.data[v.sec.clus][v.sec.sec]

\* No cluster is linked to twice, by a link and an entry, or by two entries,
\* and none that is linked to counts as free.
LinksApart(v) == \A c, d \in Clusters : v.fat[c] = v.fat[d] /\ v.fat[c] \in Clusters => c = d
HeadsApart(v) == \A s, t \in Live(v) :
                    v.dir[s].first = v.dir[t].first /\ v.dir[s].first # Free => s = t
HeadsFirst(v) == \A s \in Live(v), c \in Clusters :
                    v.dir[s].first # Free => v.fat[c] # v.dir[s].first
LinksInUse(v) == \A c \in Clusters : v.fat[c] \in Clusters => v.fat[v.fat[c]] # Free
HeadsInUse(v) == \A s \in Live(v) : v.dir[s].first # Free => v.fat[v.dir[s].first] # Free
Apart(v) == /\ LinksApart(v) /\ HeadsApart(v) /\ HeadsFirst(v)
            /\ LinksInUse(v) /\ HeadsInUse(v)
=============================================================================
