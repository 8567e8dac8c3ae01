------------------------------ MODULE FatFiles ------------------------------
(***************************************************************************)
(* The file calls of the XCP/M BDOS, src/xcpm-mips/src/bdos.c, over the FAT *)
(* driver: save, load, copy, cat, delete, rename, and the redirection of    *)
(* console output into a file.  A step is one turn of a call's loop over    *)
(* units, or the part of the call before or after the loop.                 *)
(*                                                                          *)
(* The kernel runs one call at a time, but an open redirection lives across *)
(* calls: its handle, and what it remembers of the volume, must still be    *)
(* right when the output of some other command is written through it.       *)
(*                                                                          *)
(* Copy, cat and redirection move one unit (128 bytes) per fat_fread or     *)
(* fat_fwrite call, save and load the whole text in one.  Pieces bounds the *)
(* size of a file that is moved in pieces.                                  *)
(***************************************************************************)
EXTENDS Fat

CONSTANTS Texts,     \* the texts a program may save
          Pieces     \* units in a file that is moved in pieces, at most

ASSUME FilesAssumption == Texts \subseteq Seq(Units) /\ Pieces \in Nat

VARIABLES vol,       \* the volume and the driver's buffers
          job,       \* the call in progress
          redir,     \* redir_file, redir_active
          asked      \* for the properties: the text the call is about

vars == <<vol, job, redir, asked>>

\* h reads, g writes; todo is still to be written and got has been read;
\* full: a write has come back short.  text is what the redirection took,
\* and is there for the properties only.
NoJob   == [call |-> "none", h |-> NoHandle, g |-> NoHandle,
            todo |-> <<>>, got |-> <<>>, full |-> FALSE]
NoRedir == [active |-> FALSE, h |-> NoHandle, text |-> <<>>]

Job   == [call : {"none", "save", "load", "copy", "cat"}, h : Handle, g : Handle,
          todo : Seq(Units), got : Seq(Units \cup {Blank}), full : BOOLEAN]
Redir == [active : BOOLEAN, h : Handle, text : Seq(Units \cup {Blank})]

(***************************************************************************)
(* What a name stands for: the units its entry and its chain give.          *)
(***************************************************************************)
Nth(v, s) == LET at[k \in 0 .. NumClusters] ==
                   IF k = 0 THEN v.dir[s].first
                   ELSE LET c == at[k - 1] IN IF c \in Clusters THEN v.fat[c] ELSE Eoc
             IN  at
Text(v, s) ==
    LET at == Nth(v, s)
    IN  [i \in {j \in 1 .. v.dir[s].size : at[(j - 1) \div ClusterUnits] \in Clusters} |->
           v.data[at[(i - 1) \div ClusterUnits]][Sec(i - 1)][Off(i - 1)]]

IsIdle == job.call = "none"
NameOf(h) == vol.dir[h.slot].name

\* No command deletes or overwrites the file its own output goes to.
Spared(n) == redir.active => NameOf(redir.h) # n

\* A file small enough to be moved in pieces.
Small(n) == vol.dir[SlotOf(vol, n)].size <= Pieces

Init == vol = Mounted /\ job = NoJob /\ redir = NoRedir /\ asked = <<>>

Return == job' = NoJob /\ asked' = <<>>
-----------------------------------------------------------------------------
(***************************************************************************)
(* BDOS 120, save: fat_fcreate, one fat_fwrite, fat_fflush.                 *)
(***************************************************************************)
Save(n, text) ==
    /\ IsIdle /\ Spared(n)
    /\ vol' = Forget(AfterCreate(vol, n))
    /\ job' = IF CreateSlot(vol, n) = 0 THEN job
              ELSE [NoJob EXCEPT !.call = "save", !.g = NewHandle(CreateSlot(vol, n)),
                                 !.todo = text]
    /\ asked' = IF CreateSlot(vol, n) = 0 THEN asked ELSE text
    /\ UNCHANGED redir

SaveTurn ==
    LET u    == Head(job.todo)
        more == Len(job.todo) > 1
    IN  /\ job.call = "save" /\ job.todo # <<>> /\ ~job.full
        /\ vol' = AfterWrite(vol, job.g, u, more)
        /\ job' = [job EXCEPT !.g = WriteHandle(vol, job.g, u, more),
                              !.full = ShortWrite(vol, job.g, u, more),
                              !.todo = IF HasRoom(vol, job.g) THEN Tail(@) ELSE @]
        /\ UNCHANGED <<redir, asked>>

SaveEnd ==
    /\ job.call = "save" /\ (job.todo = <<>> \/ job.full)
    /\ vol' = Flush(vol, job.g)
    /\ Return
    /\ UNCHANGED redir

(***************************************************************************)
(* BDOS 121, load: fat_fopen and one fat_fread for the whole file.  The     *)
(* program loader and input redirection read in the same way.               *)
(***************************************************************************)
Opened(call, n) == [NoJob EXCEPT !.call = call, !.h = OpenHandle(vol, SlotOf(vol, n))]

Load(n) ==
    /\ IsIdle /\ SlotOf(vol, n) # 0
    /\ job' = Opened("load", n)
    /\ asked' = Text(vol, SlotOf(vol, n))
    /\ UNCHANGED <<vol, redir>>

LoadTurn ==
    LET more == job.h.pos + 1 < job.h.size
    IN  /\ job.call = "load" /\ job.h.pos < job.h.size
        /\ vol' = AfterRead(vol, job.h, more)
        /\ job' = [job EXCEPT !.h = ReadHandle(vol, job.h, more),
                              !.got = Append(@, ReadUnit(vol, job.h))]
        /\ UNCHANGED <<redir, asked>>

LoadEnd ==
    /\ job.call \in {"load", "cat"} /\ job.h.pos >= job.h.size
    /\ Return
    /\ UNCHANGED <<vol, redir>>

(***************************************************************************)
(* BDOS 123, copy: a fat_fread and a fat_fwrite for every unit.             *)
(***************************************************************************)
Copy(n, m) ==
    /\ IsIdle /\ Spared(m) /\ SlotOf(vol, n) # 0 /\ Small(n)
    /\ vol' = AfterCreate(vol, m)
    /\ job' = IF CreateSlot(vol, m) = 0 THEN job
              ELSE [Opened("copy", n) EXCEPT !.g = NewHandle(CreateSlot(vol, m))]
    /\ asked' = IF CreateSlot(vol, m) = 0 THEN asked ELSE Text(vol, SlotOf(vol, n))
    /\ UNCHANGED redir

CopyTurn ==
    LET u == ReadUnit(vol, job.h)
        v == Forget(AfterRead(vol, job.h, FALSE))
    IN  /\ job.call = "copy" /\ job.h.pos < job.h.size /\ ~job.full
        /\ vol' = AfterWrite(v, job.g, u, FALSE)
        /\ job' = [job EXCEPT !.h = ReadHandle(vol, job.h, FALSE),
                              !.g = WriteHandle(v, job.g, u, FALSE),
                              !.full = ShortWrite(v, job.g, u, FALSE)]
        /\ UNCHANGED <<redir, asked>>

CopyEnd ==
    /\ job.call = "copy" /\ (job.h.pos >= job.h.size \/ job.full)
    /\ vol' = Flush(vol, job.g)
    /\ Return
    /\ UNCHANGED redir

(***************************************************************************)
(* BDOS 114 and 115, output redirection.  A full buffer is one unit, and is *)
(* written by a fat_fwrite of its own whose result nobody looks at.  The    *)
(* volume v is what the command's own work has left.                        *)
(***************************************************************************)
RedirBegin(n) ==
    /\ IsIdle /\ ~redir.active
    /\ vol' = AfterCreate(vol, n)
    /\ redir' = IF CreateSlot(vol, n) = 0 THEN redir
                ELSE [NoRedir EXCEPT !.active = TRUE, !.h = NewHandle(CreateSlot(vol, n))]
    /\ UNCHANGED <<job, asked>>

RedirFlush(v, u) ==
    /\ vol' = AfterWrite(Forget(v), redir.h, u, FALSE)
    /\ redir' = [redir EXCEPT !.h = WriteHandle(Forget(v), @, u, FALSE),
                              !.text = IF HasRoom(Forget(v), redir.h) THEN Append(@, u) ELSE @]

Emit(u) ==
    /\ IsIdle /\ redir.active /\ redir.h.pos < Pieces
    /\ RedirFlush(vol, u)
    /\ UNCHANGED <<job, asked>>

RedirEnd ==
    /\ IsIdle /\ redir.active
    /\ vol' = Flush(vol, redir.h)
    /\ redir' = NoRedir
    /\ UNCHANGED <<job, asked>>

(***************************************************************************)
(* BDOS 111, cat: a file to the console unit by unit, and so into the       *)
(* redirection when there is one.                                           *)
(***************************************************************************)
Cat(n) ==
    /\ IsIdle /\ SlotOf(vol, n) # 0 /\ Small(n)
    /\ redir.active => redir.h.pos + vol.dir[SlotOf(vol, n)].size <= Pieces
    /\ job' = Opened("cat", n)
    /\ asked' = Text(vol, SlotOf(vol, n))
    /\ UNCHANGED <<vol, redir>>

CatTurn ==
    LET u == ReadUnit(vol, job.h)
        v == AfterRead(vol, job.h, FALSE)
    IN  /\ job.call = "cat" /\ job.h.pos < job.h.size
        /\ job' = [job EXCEPT !.h = ReadHandle(vol, job.h, FALSE), !.got = Append(@, u)]
        /\ IF redir.active THEN RedirFlush(v, u) ELSE vol' = v /\ UNCHANGED redir
        /\ UNCHANGED asked

(***************************************************************************)
(* BDOS 19 and 23.                                                          *)
(***************************************************************************)
Delete(n) ==
    /\ IsIdle /\ Spared(n) /\ SlotOf(vol, n) # 0
    /\ vol' = Unlink(vol, SlotOf(vol, n))
    /\ UNCHANGED <<job, redir, asked>>

RenameFile(n, m) ==
    /\ IsIdle /\ SlotOf(vol, m) = 0 /\ SlotOf(vol, n) # 0
    /\ vol' = Rename(vol, SlotOf(vol, n), m)
    /\ UNCHANGED <<job, redir, asked>>

Turn == SaveTurn \/ SaveEnd \/ LoadTurn \/ LoadEnd \/ CopyTurn \/ CopyEnd \/ CatTurn

Next == \/ \E n \in Names, text \in Texts : Save(n, text)
        \/ \E n \in Names : Load(n) \/ Cat(n) \/ Delete(n) \/ RedirBegin(n)
        \/ \E n, m \in Names : Copy(n, m) \/ RenameFile(n, m)
        \/ \E u \in Units : Emit(u)
        \/ RedirEnd
        \/ Turn

Spec == Init /\ [][Next]_vars
-----------------------------------------------------------------------------
(***************************************************************************)
(* Properties.                                                              *)
(***************************************************************************)
\* Types: links, entries, handles and buffers hold what their declarations allow.
TypeOK == vol \in Volume /\ job \in Job /\ redir \in Redir

\* fat_wbuf is the FAT cache and everybody's work buffer, sec_buf a copy of a
\* sector that others write: whenever the driver would believe one of them,
\* it holds what is on the volume.
CacheHonest == Honest(vol)

\* No cluster is in two places: two links, two files, or a file's beginning
\* and another's middle; and none that is reachable counts as free, so that
\* fat_alloc_cluster could give it away again.
NoSharing == Apart(vol)

\* What a handle open for writing remembers of its entry is still so, however
\* many other calls were made since; and no two of them share an entry.
Writing == job.call \in {"save", "copy"}
Agrees(h) == h.slot \in Live(vol) /\ h.first = vol.dir[h.slot].first
HandlesAgree == /\ Writing => Agrees(job.g)
                /\ redir.active => Agrees(redir.h)
                /\ Writing /\ redir.active => job.g.slot # redir.h.slot

\* Every cluster that is not free is in the chain of a file: no call, cut
\* short or not, leaves clusters that nothing reaches.
NothingLost ==
    \A c \in Clusters : vol.fat[c] # Free =>
       \E s \in Live(vol) : vol.dir[s].first # Free /\ c \in Chain(vol.fat, vol.dir[s].first)

\* A load or a cat that has ended has read the file as it was when it began.
ReadsExact == job.call \in {"load", "cat"} /\ job.h.pos >= job.h.size => job.got = asked

\* A save is cut short, and a piece of output is dropped, only when not one
\* cluster is left.
IsFull == \A c \in Clusters : vol.fat[c] # Free
CutOnlyWhenFull ==
    [][/\ job'.full /\ ~job.full => IsFull'
       /\ \A u \in Units : Emit(u) /\ redir'.text = redir.text => IsFull']_vars

\* d_ext_copy, "byte-precise file copy": a copy that was not cut short leaves
\* the destination with the text of its source.
CopyExact ==
    [][CopyEnd /\ ~job.full =>
         \A s \in Live(vol) \ {job.g.slot} :
            vol.dir[s].first = job.h.first => Text(vol', job.g.slot) = Text(vol', s)]_vars

\* The calls do to the files what FileStore promises.
Files   == {vol.dir[s].name : s \in Live(vol)}
Promise  == INSTANCE FileStore WITH
             files   <- [n \in Files |-> Text(vol, SlotOf(vol, n))],
             writing <- IF Writing THEN [name |-> {NameOf(job.g)}, text |-> asked]
                        ELSE [name |-> {}, text |-> <<>>],
             output  <- IF redir.active THEN [name |-> {NameOf(redir.h)}, text |-> redir.text]
                        ELSE [name |-> {}, text |-> <<>>]
ImplementsStore == Promise!Spec
=============================================================================
