---------------------------- MODULE ShellProofs ----------------------------
(***************************************************************************)
(* Theorems about Shell, for every set of commands, lines and files: the    *)
(* users of the window keep out of each other's way, at the prompt the      *)
(* console is the console, and what is redirected lands in its file.  They  *)
(* are about sessions with ScriptsFit and ResetsPlain.                      *)
(***************************************************************************)
EXTENDS Shell, TLAPS, SequenceTheorems

-----------------------------------------------------------------------------
(* The inductive invariant.                                                 *)
Cell == Pieces \cup {Nothing}
        \cup {<<"left", c>> : c \in Commands} \cup {<<"right", c>> : c \in Commands}
        \cup {<<"args", c>> : c \in Commands}
Slots == {None} \cup {Cmd[c].out : c \in Commands}

WindowTypes ==
  /\ window \in [Cells -> Cell]
  /\ sub \in [active : BOOLEAN, pos : Nat, len : Nat]
  /\ inr \in [active : BOOLEAN, pos : Nat, len : Nat]
FileTypes ==
  /\ redir \in [active : BOOLEAN, slot : Slots, text : Seq(Pieces), buf : Seq(Pieces)]
  /\ None \notin DOMAIN disk
  /\ disk \in [DOMAIN disk -> Seq(Pieces)]
LineTypes ==
  /\ pc \in {"ask", "line", "run"}
  /\ cmd \in Commands \cup {None}
  /\ run \in [name : Commands \cup {None}, left : Nat, out : BOOLEAN, in : BOOLEAN]
  /\ pipe \in [half : 0 .. 2, right : Commands \cup {None}]
  /\ meant \in [script : Seq(OnDisk), input : Seq(Pieces), output : Seq(Pieces)]
Types == WindowTypes /\ FileTypes /\ LineTypes

(* The command being run is the one of the line, or what another text in    *)
(* its place reads as; only a redirected one has a file.                    *)
Current ==
  /\ pc # "ask" => cmd \in Commands
  /\ pc = "run" => /\ run.name \in {cmd, Garbage}
                   /\ run.out => Cmd[cmd].out # None
                   /\ run.in => Cmd[cmd].in # None

(* A redirection is the one of the command being run.                       *)
Closed ==
  /\ redir.active => pc = "run" /\ run.out
  /\ inr.active => pc = "run" /\ run.in

(* A script is as it was on the disk and in its part of the window.         *)
InPart ==
  /\ sub.active => sub.len = Len(meant.script) /\ sub.len <= Room
  /\ \A c \in Commands : Cmd[c].ends = "submit" /\ Cmd[c].script \in DOMAIN disk =>
        disk[Cmd[c].script] = Disk[Cmd[c].script]

(* Until the first half of a pipe is done, the cell of the second holds it,  *)
(* or a piece of the text that has run over it.                             *)
SecondHalf ==
  pipe.half = 1 => /\ pc # "ask" /\ pipe.right \in Commands
                   /\ window[RightAt] \in {<<"right", pipe.right>>} \cup Pieces
InputFits == pc = "run" /\ run.in => inr.len <= WinSize - InrdData

(* What has been printed is in the file's text or in the buffer.            *)
Printed == redir.active => meant.output = redir.text \o redir.buf

ShellInv ==
  /\ Types /\ Current /\ Closed /\ InPart /\ SecondHalf /\ InputFits /\ Printed
  /\ ScriptHeld /\ InputHeld /\ ArgsHeld /\ RightHeld

-----------------------------------------------------------------------------
(* The layout, and the names.                                               *)
LEMMA Layout ==
  /\ Cells = 0 .. 10 /\ WinSize = 11 /\ Room = 3 /\ SubmitData = 1 /\ InrdData = 5
  /\ LeftAt = 8 /\ RightAt = 9 /\ SafeAt = 10
BY DEF Cells, WinSize, Room, SubmitData, InrdAt, InrdData, LeftAt, RightAt, SafeAt

LEMMA LineIs ==
  ASSUME NEW l \in Lines
  PROVE  /\ l \in DOMAIN Line /\ Line[l] \in Seq(DOMAIN Cmd) /\ Len(Line[l]) \in 1 .. 2
         /\ Line[l][1] \in Commands /\ (Len(Line[l]) = 2 => Line[l][2] \in Commands)
<1>1. l \in DOMAIN Line /\ Line[l] \in Seq(DOMAIN Cmd) /\ Len(Line[l]) \in 1 .. 2
  BY ShellAssumption DEF Lines
<1>2. \A i \in 1 .. Len(Line[l]) : Line[l][i] \in ToSet(Line[l])
  BY <1>1, LenProperties DEF ToSet
<1>3. \A i \in 1 .. Len(Line[l]) : Line[l][i] \in Commands
  BY <1>2 DEF Commands
<1> QED BY <1>1, <1>3

LEMMA CommandIs ==
  ASSUME NEW c \in Commands
  PROVE  /\ c \in DOMAIN Cmd /\ Cmd[c].ends \in Ends /\ Cmd[c].print \in Nat
         /\ Cmd[c].script \in DOMAIN Disk \cup {None}
<1>1. PICK l \in Lines : c \in ToSet(Line[l])
  BY DEF Commands
<1>2. c \in DOMAIN Cmd
  <2>1. \A i \in DOMAIN Line[l] : Line[l][i] \in DOMAIN Cmd
    BY LineIs, LenProperties, ElementOfSeq
  <2> QED BY <1>1, <2>1 DEF ToSet
<1> QED BY <1>2, ShellAssumption

LEMMA GarbageIs ==
  /\ Garbage \in Lines /\ Garbage \in Commands
  /\ Cmd[Garbage].ends = "unknown"
<1>1. Garbage \in Lines /\ Cmd[Garbage].ends = "unknown" /\ Line[Garbage] = <<Garbage>>
  BY ShellAssumption DEF Lines
<1>2. Line[Garbage][1] \in Commands
  BY <1>1, LineIs
<1> QED BY <1>1, <1>2

LEMMA PieceIs ==
  /\ \A p \in Pieces : p[1] \in {"line", "out"}
  /\ \A p \in Pieces : \A c : p # <<"right", c>> /\ p # <<"args", c>>
<1>1. \A p \in Pieces : p[1] \in {"line", "out"}
  BY DEF Pieces
<1>2. \A c : <<"right", c>>[1] = "right" /\ <<"args", c>>[1] = "args"
  OBVIOUS
<1> QED BY <1>1, <1>2

LEMMA OnDiskIs ==
  /\ OnDisk \subseteq Pieces
  /\ \A f \in DOMAIN Disk : Disk[f] \in Seq(OnDisk)
  /\ \A p \in OnDisk : ReadAs("line", p) \in Lines
<1>1. \A f \in DOMAIN Disk : Disk[f] \in Seq(Pieces)
  BY ShellAssumption
<1>2. OnDisk \subseteq Pieces
  <2>1. SUFFICES ASSUME NEW f \in DOMAIN Disk, NEW p \in ToSet(Disk[f]) PROVE p \in Pieces
    BY DEF OnDisk
  <2>2. \A i \in DOMAIN Disk[f] : Disk[f][i] \in Pieces
    BY <1>1, LenProperties, ElementOfSeq
  <2> QED BY <2>1, <2>2 DEF ToSet
<1>3. ASSUME NEW f \in DOMAIN Disk PROVE Disk[f] \in Seq(OnDisk)
  <2>1. Disk[f] \in [1 .. Len(Disk[f]) -> Pieces] /\ Len(Disk[f]) \in Nat
    BY <1>1, LenProperties
  <2>2. \A i \in 1 .. Len(Disk[f]) : Disk[f][i] \in ToSet(Disk[f])
    BY <2>1 DEF ToSet
  <2>3. \A i \in 1 .. Len(Disk[f]) : Disk[f][i] \in OnDisk
    BY <2>2 DEF OnDisk
  <2>4. Disk[f] \in [1 .. Len(Disk[f]) -> OnDisk]
    BY <2>1, <2>3
  <2> QED BY <2>1, <2>4, SeqDef
<1>4. ASSUME NEW p \in OnDisk PROVE ReadAs("line", p) \in Lines
  <2>1. CASE p[1] = "line"
    <3>1. PICK l \in DOMAIN Line : p = <<"line", l>>
      BY <1>2, <2>1 DEF Pieces
    <3>2. l \in Lines
      BY <3>1 DEF Lines
    <3> QED BY <2>1, <3>1, <3>2 DEF ReadAs
  <2>2. CASE p[1] # "line"
    BY <2>2, GarbageIs DEF ReadAs
  <2> QED BY <2>1, <2>2
<1> QED BY <1>2, <1>3, <1>4

LEMMA ReadsAs ==
  ASSUME NEW kind \in {"right", "args"}, NEW c, NEW w \in {<<kind, c>>} \cup Pieces
  PROVE  ReadAs(kind, w) \in {c, Garbage} /\ (w = <<kind, c>> => ReadAs(kind, w) = c)
BY PieceIs DEF ReadAs

LEMMA CellIs ==
  /\ Pieces \subseteq Cell
  /\ \A c \in Commands : <<"left", c>> \in Cell /\ <<"right", c>> \in Cell /\ <<"args", c>> \in Cell
BY DEF Cell

(* Copying a text into the window.                                          *)
LEMMA PutIs ==
  ASSUME NEW w \in [Cells -> Cell], NEW at \in Nat, NEW s \in Seq(Cell)
  PROVE  /\ Put(w, at, s) \in [Cells -> Cell]
         /\ \A i \in Cells : i \notin at .. at + Len(s) - 1 => Put(w, at, s)[i] = w[i]
         /\ \A i \in Cells : i \in at .. at + Len(s) - 1 => Put(w, at, s)[i] = s[i - at + 1]
<1>1. Len(s) \in Nat /\ \A i \in 1 .. Len(s) : s[i] \in Cell
  BY LenProperties, ElementOfSeq
<1>2. \A i \in Cells : i \in at .. at + Len(s) - 1 => i - at + 1 \in 1 .. Len(s)
  BY <1>1 DEF Cells
<1>3. \A i \in Cells : (IF i \in at .. at + Len(s) - 1 THEN s[i - at + 1] ELSE w[i]) \in Cell
  BY <1>1, <1>2
<1> QED BY <1>3 DEF Put

LEMMA FirstIs ==
  ASSUME NEW S, NEW s \in Seq(S), NEW n \in Nat
  PROVE  /\ First(n, s) \in Seq(S)
         /\ Len(First(n, s)) \in Nat /\ Len(First(n, s)) <= n /\ Len(First(n, s)) <= Len(s)
         /\ \A i \in 1 .. Len(First(n, s)) : First(n, s)[i] = s[i]
         /\ Len(s) <= n => First(n, s) = s
<1>1. Len(s) \in Nat /\ \A i \in 1 .. Len(s) : s[i] \in S
  BY LenProperties, ElementOfSeq
<1>2. PICK h \in Nat : h = (IF n < Len(s) THEN n ELSE Len(s)) /\ h <= n /\ h <= Len(s)
  BY <1>1
<1>3. First(n, s) = SubSeq(s, 1, h)
  BY <1>2 DEF First
<1>4. /\ SubSeq(s, 1, h) \in Seq(S)
      /\ Len(SubSeq(s, 1, h)) = IF 1 <= h THEN h - 1 + 1 ELSE 0
      /\ \A i \in 1 .. h - 1 + 1 : SubSeq(s, 1, h)[i] = s[1 + i - 1]
  <2>1. \A i \in 1 .. h : s[i] \in S
    BY <1>1, <1>2
  <2> QED BY <2>1, SubSeqProperties
<1>5. Len(SubSeq(s, 1, h)) = h
  BY <1>4
<1>6. Len(s) <= n => First(n, s) = s
  <2>1. Len(s) <= n => h = Len(s)
    BY <1>1, <1>2
  <2>2. SubSeq(s, 1, Len(s)) = s
    BY SubSeqFull
  <2> QED BY <1>3, <2>1, <2>2
<1> QED BY <1>2, <1>3, <1>4, <1>5, <1>6

-----------------------------------------------------------------------------
(* The line.                                                                *)
LEMMA TakeHalvesIs ==
  ASSUME Types, NEW l \in Lines, TakeHalves(l)
  PROVE  /\ pc' = "line" /\ cmd' \in Commands
         /\ pipe' \in [half : 0 .. 2, right : Commands \cup {None}]
         /\ window' \in [Cells -> Cell]
         /\ \A i \in Cells : i < 8 => window'[i] = window[i]
         /\ pipe'.half = 1 => pipe'.right \in Commands /\ window'[RightAt] = <<"right", pipe'.right>>
<1>1. pc' = "line" /\ cmd' = Line[l][1] /\ cmd' \in Commands
  BY LineIs DEF TakeHalves
<1>2. CASE Len(Line[l]) = 1
  <2>1. pipe' = NoPipe /\ window' = window
    BY <1>2 DEF TakeHalves
  <2>2. pipe' \in [half : 0 .. 2, right : Commands \cup {None}] /\ pipe'.half = 0
    BY <2>1 DEF NoPipe
  <2> QED BY <1>1, <2>1, <2>2 DEF Types, WindowTypes
<1>3. CASE Len(Line[l]) # 1
  <2>1. PICK a \in Commands, b \in Commands : a = cmd' /\ b = Line[l][2]
    BY <1>1, <1>3, LineIs
  <2>2. pipe' = [half |-> 1, right |-> b] /\ window' = Put(window, LeftAt, << <<"left", a>>, <<"right", b>> >>)
    BY <1>3, <2>1 DEF TakeHalves
  <2>3. PICK x \in Cell, y \in Cell : x = <<"left", a>> /\ y = <<"right", b>>
    BY CellIs
  <2> DEFINE s == <<x, y>>
  <2>4. s \in Seq(Cell) /\ Len(s) = 2 /\ s[2] = y /\ window' = Put(window, LeftAt, s)
    BY <2>2, <2>3
  <2> HIDE DEF s
  <2>5. s[2] = <<"right", b>> /\ Len(s) = 2
    BY <2>3, <2>4
  <2>6. /\ window' \in [Cells -> Cell]
        /\ \A i \in Cells : i \notin 8 .. 8 + Len(s) - 1 => window'[i] = window[i]
        /\ \A i \in Cells : i \in 8 .. 8 + Len(s) - 1 => window'[i] = s[i - 8 + 1]
    <3>1. window \in [Cells -> Cell] /\ window' = Put(window, 8, s)
      BY <2>4, Layout DEF Types, WindowTypes
    <3>2. 8 \in Nat
      OBVIOUS
    <3>3. /\ Put(window, 8, s) \in [Cells -> Cell]
          /\ \A i \in Cells : i \notin 8 .. 8 + Len(s) - 1 => Put(window, 8, s)[i] = window[i]
          /\ \A i \in Cells : i \in 8 .. 8 + Len(s) - 1 => Put(window, 8, s)[i] = s[i - 8 + 1]
      BY <2>4, <3>1, <3>2, PutIs
    <3> QED BY <3>1, <3>3
  <2>7. \A i \in Cells : i < 8 => window'[i] = window[i]
    BY <2>5, <2>6, Layout
  <2>8. window'[9] = s[2]
    <3>1. 9 \in Cells /\ 9 \in 8 .. 8 + Len(s) - 1 /\ 9 - 8 + 1 = 2
      BY <2>5, Layout
    <3> QED BY <2>6, <3>1
  <2>9. /\ pipe' \in [half : 0 .. 2, right : Commands \cup {None}]
        /\ pipe'.right = b
    BY <2>2
  <2>10. window'[RightAt] = <<"right", pipe'.right>>
    BY <2>5, <2>8, <2>9, Layout
  <2> QED BY <1>1, <2>6, <2>7, <2>9, <2>10
<1> QED BY <1>2, <1>3

(* What begins a line keeps the script where it is.                         *)
LEMMA LineBegins ==
  ASSUME ShellInv, NEW l \in Lines, TakeHalves(l), pc = "ask",
         UNCHANGED <<redir, disk, run, meant>>,
         sub' \in [active : BOOLEAN, pos : Nat, len : Nat],
         inr' \in [active : BOOLEAN, pos : Nat, len : Nat],
         ~ inr'.active,
         sub'.active => sub.active /\ sub'.len = sub.len /\ sub'.pos >= sub.pos
  PROVE  ShellInv'
<1> USE DEF ShellInv
<1>1. /\ pc' = "line" /\ cmd' \in Commands
      /\ pipe' \in [half : 0 .. 2, right : Commands \cup {None}]
      /\ window' \in [Cells -> Cell]
      /\ \A i \in Cells : i < 8 => window'[i] = window[i]
      /\ pipe'.half = 1 => pipe'.right \in Commands /\ window'[RightAt] = <<"right", pipe'.right>>
  BY TakeHalvesIs
<1>2. Types'
  BY <1>1 DEF Types, WindowTypes, FileTypes, LineTypes
<1>3. ~ redir'.active
  BY DEF Closed
<1>4. Current' /\ Closed' /\ InPart' /\ SecondHalf' /\ InputFits' /\ Printed'
  BY <1>1, <1>3 DEF Current, Closed, InPart, SecondHalf, InputFits, Printed
<1>5. ScriptHeld'
  <2>1. SUFFICES ASSUME sub'.active, NEW i \in sub'.pos + 1 .. sub'.len
                 PROVE  window'[SubmitData + i - 1] = meant.script[i]
    BY DEF ScriptHeld
  <2>2. sub.active /\ i \in sub.pos + 1 .. sub.len /\ sub.len <= 3 /\ i \in Nat
    <3>1. sub.pos \in Nat /\ sub.len \in Nat /\ sub'.pos \in Nat
      BY DEF Types, WindowTypes
    <3> QED BY <2>1, <3>1, Layout DEF InPart
  <2>3. window[SubmitData + i - 1] = meant.script[i]
    BY <2>2 DEF ScriptHeld
  <2>4. SubmitData + i - 1 \in Cells /\ SubmitData + i - 1 < 8
    <3>1. sub.pos \in Nat /\ sub.len \in Nat
      BY DEF Types, WindowTypes
    <3> QED BY <2>2, <3>1, Layout
  <2> QED BY <1>1, <2>3, <2>4
<1>6. InputHeld' /\ ArgsHeld' /\ RightHeld'
  BY <1>1 DEF InputHeld, ArgsHeld, RightHeld
<1> QED BY <1>2, <1>4, <1>5, <1>6

LEMMA ReadLineStep ==
  ASSUME ShellInv, NEW l \in Typed, ReadLine(l)
  PROVE  ShellInv'
<1>1. l \in Lines /\ pc = "ask" /\ TakeHalves(l) /\ UNCHANGED <<sub, redir, disk, run, meant>>
  BY DEF ReadLine, Lines
<1>2. ~ inr.active /\ inr' = inr
  BY <1>1 DEF ReadLine, ShellInv, Closed
<1> QED BY <1>1, <1>2, LineBegins DEF ShellInv, Types, WindowTypes

LEMMA NextLineStep ==
  ASSUME ShellInv, NextLine
  PROVE  ShellInv'
<1> USE DEF ShellInv
<1>1. /\ pc = "ask" /\ sub.active /\ sub.pos < sub.len
      /\ sub' = [sub EXCEPT !.pos = @ + 1]
      /\ TakeHalves(ReadAs("line", window[SubmitData + sub.pos]))
      /\ UNCHANGED <<inr, redir, disk, run, typed, meant>>
  BY DEF NextLine
<1>2. PICK p \in Nat, n \in Nat : p = sub.pos /\ n = sub.len
  BY DEF Types, WindowTypes
<1>3. window[SubmitData + p] = meant.script[p + 1]
  <2>1. p + 1 \in sub.pos + 1 .. sub.len /\ SubmitData + (p + 1) - 1 = SubmitData + p
    BY <1>1, <1>2, Layout
  <2>2. window[SubmitData + (p + 1) - 1] = meant.script[p + 1]
    BY <1>1, <2>1 DEF ScriptHeld
  <2> QED BY <2>1, <2>2
<1>4. meant.script[p + 1] \in OnDisk
  <2>1. p + 1 \in 1 .. Len(meant.script)
    BY <1>1, <1>2 DEF InPart
  <2> QED BY <2>1, ElementOfSeq DEF Types, LineTypes
<1>5. PICK l \in Lines : l = ReadAs("line", window[SubmitData + sub.pos])
  BY <1>2, <1>3, <1>4, OnDiskIs
<1>6. TakeHalves(l)
  BY <1>1, <1>5
<1>7. /\ sub' \in [active : BOOLEAN, pos : Nat, len : Nat] /\ sub'.len = sub.len /\ sub'.pos = sub.pos + 1
      /\ inr' \in [active : BOOLEAN, pos : Nat, len : Nat]
  BY <1>1 DEF Types, WindowTypes
<1>8. ~ inr'.active
  BY <1>1 DEF Closed
<1> QED BY <1>1, <1>2, <1>6, <1>7, <1>8, LineBegins

LEMMA ScriptEndsStep ==
  ASSUME ShellInv, ScriptEnds
  PROVE  ShellInv'
<1> USE DEF ShellInv
<1>1. /\ sub' = [sub EXCEPT !.active = FALSE]
      /\ UNCHANGED <<window, inr, redir, disk, pc, cmd, run, pipe, typed, meant>>
  BY DEF ScriptEnds
<1>2. sub' \in [active : BOOLEAN, pos : Nat, len : Nat] /\ ~ sub'.active
  BY <1>1 DEF Types, WindowTypes
<1> QED BY <1>1, <1>2 DEF Types, WindowTypes, FileTypes, LineTypes, Current, Closed, InPart,
     SecondHalf, InputFits, Printed, ScriptHeld, InputHeld, ArgsHeld, RightHeld

LEMMA ReadStep ==
  ASSUME ShellInv, Read
  PROVE  ShellInv'
<1> USE DEF ShellInv
<1>1. /\ pc = "run" /\ inr.active /\ inr.pos < inr.len
      /\ inr' = [inr EXCEPT !.pos = @ + 1]
      /\ UNCHANGED <<window, sub, redir, disk, pc, cmd, run, pipe, typed, meant>>
  BY DEF Read
<1>2. /\ inr' \in [active : BOOLEAN, pos : Nat, len : Nat] /\ inr'.active = inr.active /\ inr'.len = inr.len
      /\ inr'.pos = inr.pos + 1 /\ inr.pos \in Nat /\ inr.len \in Nat
  <2>1. PICK h \in [active : BOOLEAN, pos : Nat, len : Nat] : h = inr
    BY DEF Types, WindowTypes
  <2>2. inr' = [h EXCEPT !.pos = h.pos + 1]
    BY <1>1, <2>1
  <2>3. h.pos \in Nat /\ h.pos + 1 \in Nat /\ h.len \in Nat
    OBVIOUS
  <2> QED BY <2>1, <2>2, <2>3
<1>3. Types' /\ Current' /\ Closed' /\ InPart' /\ SecondHalf' /\ InputFits' /\ Printed'
  BY <1>1, <1>2 DEF Types, WindowTypes, FileTypes, LineTypes, Current, Closed, InPart,
     SecondHalf, InputFits, Printed
<1>4. ScriptHeld' /\ ArgsHeld' /\ RightHeld'
  BY <1>1, <1>2 DEF ScriptHeld, ArgsHeld, RightHeld
<1>5. InputHeld'
  <2>1. \A i : i \in inr'.pos + 1 .. inr'.len => i \in inr.pos + 1 .. inr.len
    BY <1>2
  <2> QED BY <1>1, <2>1 DEF InputHeld
<1> QED BY <1>3, <1>4, <1>5

LEMMA SayStep ==
  ASSUME ShellInv, Say
  PROVE  ShellInv'
<1> USE DEF ShellInv
<1> DEFINE u == <<"out", run.name>>
<1>1. /\ pc = "run" /\ run.left > 0
      /\ run' = [run EXCEPT !.left = @ - 1]
      /\ IF redir.active
         THEN redir' = PutChar(redir, u) /\ meant' = [meant EXCEPT !.output = Append(@, u)]
         ELSE UNCHANGED <<redir, meant>>
      /\ UNCHANGED <<window, sub, inr, disk, pc, cmd, pipe, typed>>
  BY DEF Say
<1>2. u \in Pieces
  <2>1. run.name \in Commands
    BY <1>1, GarbageIs DEF Current
  <2> QED BY <2>1, CommandIs DEF Pieces
<1>3. /\ run' \in [name : Commands \cup {None}, left : Nat, out : BOOLEAN, in : BOOLEAN]
      /\ run'.name = run.name /\ run'.out = run.out /\ run'.in = run.in
  <2>1. PICK h \in [name : Commands \cup {None}, left : Nat, out : BOOLEAN, in : BOOLEAN] : h = run
    BY DEF Types, LineTypes
  <2>2. h.left > 0 /\ h.left - 1 \in Nat /\ run' = [h EXCEPT !.left = h.left - 1]
    BY <1>1, <2>1
  <2>3. /\ run' \in [name : Commands \cup {None}, left : Nat, out : BOOLEAN, in : BOOLEAN]
        /\ run'.name = h.name /\ run'.out = h.out /\ run'.in = h.in
    BY <2>2
  <2> QED BY <2>1, <2>3
<1> HIDE DEF u
<1>4. /\ redir' \in [active : BOOLEAN, slot : Slots, text : Seq(Pieces), buf : Seq(Pieces)]
      /\ meant' \in [script : Seq(OnDisk), input : Seq(Pieces), output : Seq(Pieces)]
      /\ redir'.active = redir.active
      /\ meant'.script = meant.script /\ meant'.input = meant.input
      /\ Printed'
  <2>1. CASE ~ redir.active
    BY <1>1, <2>1 DEF Types, FileTypes, LineTypes, Printed
  <2>2. CASE redir.active
    <3>1. PICK t \in Seq(Pieces), b \in Seq(Pieces) : t = redir.text /\ b = redir.buf
      BY DEF Types, FileTypes
    <3>2. PICK c \in Seq(Pieces) : c = Append(b, u)
      <4>1. Append(b, u) \in Seq(Pieces)
        BY <1>2, <3>1
      <4> QED BY <4>1
    <3>3. t \o b \in Seq(Pieces) /\ t \o c \in Seq(Pieces) /\ t \o c = Append(t \o b, u)
      <4>1. c = b \o <<u>> /\ <<u>> \in Seq(Pieces)
        BY <1>2, <3>2
      <4>2. t \o b \in Seq(Pieces) /\ t \o c \in Seq(Pieces)
        BY ConcatProperties
      <4>3. (t \o b) \o <<u>> = t \o (b \o <<u>>)
        BY <4>1, ConcatAssociative
      <4>4. (t \o b) \o <<u>> = Append(t \o b, u)
        BY <4>2, <1>2
      <4> QED BY <4>1, <4>2, <4>3, <4>4
    <3>4. PICK s : s = [redir EXCEPT !.buf = Append(@, u)]
      OBVIOUS
    <3>5. /\ s \in [active : BOOLEAN, slot : Slots, text : Seq(Pieces), buf : Seq(Pieces)]
          /\ s.active = redir.active /\ s.text = t /\ s.buf = c
      BY <3>1, <3>2, <3>4 DEF Types, FileTypes
    <3>6. redir' = IF Len(c) >= BufSize THEN [s EXCEPT !.text = t \o c, !.buf = <<>>] ELSE s
      BY <1>1, <2>2, <3>4, <3>5 DEF PutChar, Flushed
    <3>7. /\ redir' \in [active : BOOLEAN, slot : Slots, text : Seq(Pieces), buf : Seq(Pieces)]
          /\ redir'.active = redir.active
          /\ redir'.text \o redir'.buf = t \o c
      <4>1. CASE Len(c) >= BufSize
        <5>1. redir' = [s EXCEPT !.text = t \o c, !.buf = <<>>]
          BY <3>6, <4>1
        <5>2. (t \o c) \o <<>> = t \o c /\ <<>> \in Seq(Pieces)
          BY <3>3, ConcatEmptySeq, EmptySeq
        <5>3. /\ redir' \in [active : BOOLEAN, slot : Slots, text : Seq(Pieces), buf : Seq(Pieces)]
              /\ redir'.active = redir.active /\ redir'.text = t \o c /\ redir'.buf = <<>>
          BY <5>1, <5>2, <3>3, <3>5
        <5> QED BY <5>2, <5>3
      <4>2. CASE ~ (Len(c) >= BufSize)
        BY <3>5, <3>6, <4>2
      <4> QED BY <4>1, <4>2
    <3>8. meant.output = t \o b
      BY <2>2, <3>1 DEF Printed
    <3>9. /\ meant' \in [script : Seq(OnDisk), input : Seq(Pieces), output : Seq(Pieces)]
          /\ meant'.script = meant.script /\ meant'.input = meant.input
          /\ meant'.output = Append(t \o b, u)
      <4>1. meant' = [meant EXCEPT !.output = Append(@, u)]
        BY <1>1, <2>2
      <4>2. Append(meant.output, u) = Append(t \o b, u) /\ Append(t \o b, u) \in Seq(Pieces)
        BY <3>3, <3>8
      <4>3. meant' = [meant EXCEPT !.output = Append(t \o b, u)]
        BY <4>1, <4>2
      <4> QED BY <4>2, <4>3 DEF Types, LineTypes
    <3> QED BY <3>3, <3>7, <3>9 DEF Printed
  <2> QED BY <2>1, <2>2
<1>5. Types'
  BY <1>1, <1>3, <1>4 DEF Types, WindowTypes, FileTypes, LineTypes
<1>6. Current' /\ Closed' /\ InPart' /\ SecondHalf' /\ InputFits'
  BY <1>1, <1>3, <1>4 DEF Current, Closed, InPart, SecondHalf, InputFits
<1>7. ScriptHeld' /\ InputHeld' /\ ArgsHeld' /\ RightHeld'
  BY <1>1, <1>3, <1>4 DEF ScriptHeld, InputHeld, ArgsHeld, RightHeld
<1> QED BY <1>4, <1>5, <1>6, <1>7

-----------------------------------------------------------------------------
(* The start of a command: what the window holds after the arguments are     *)
(* saved and the input is read.                                             *)
LEMMA LoadedWindow ==
  ASSUME NEW v \in [Cells -> Cell], NEW c \in Commands, NEW text \in Seq(Pieces),
         NEW w, w = SaveThenLoad(v, c, text),
         NEW load, load = First(WinSize - InrdData, text)
  PROVE  /\ w \in [Cells -> Cell]
         /\ load \in Seq(Pieces) /\ Len(load) \in Nat /\ Len(load) <= 6
         /\ \A i \in Cells : i < 5 => w[i] = v[i]
         /\ \A i \in 1 .. Len(load) : w[InrdData + i - 1] = text[i]
         /\ Redirected(c) => /\ w[SafeAt] \in {<<"args", c>>} \cup Pieces
                             /\ Len(load) <= 5 => w[SafeAt] = <<"args", c>>
         /\ w[RightAt] = v[RightAt] \/ w[RightAt] \in Pieces
         /\ Len(load) <= 4 => w[RightAt] = v[RightAt]
<1>1. /\ load \in Seq(Pieces) /\ Len(load) \in Nat /\ Len(load) <= 6
      /\ \A i \in 1 .. Len(load) : load[i] = text[i]
  <2>1. load = First(6, text) /\ 6 \in Nat
    BY Layout
  <2> QED BY <2>1, FirstIs
<1>2. load \in Seq(Cell)
  BY <1>1, CellIs, SeqMonotonic
<1>3. PICK u : u = SaveArgs(v, c)
  OBVIOUS
<1>4. /\ u \in [Cells -> Cell]
      /\ \A i \in Cells : i < 10 => u[i] = v[i]
      /\ Redirected(c) => u[SafeAt] = <<"args", c>>
  <2>1. CASE ~ Redirected(c)
    BY <1>3, <2>1 DEF SaveArgs
  <2>2. CASE Redirected(c)
    <3>1. PICK x \in Cell : x = <<"args", c>>
      BY CellIs
    <3> DEFINE s == <<x>>
    <3>2. s \in Seq(Cell) /\ Len(s) = 1 /\ s[1] = x /\ u = Put(v, SafeAt, s)
      BY <1>3, <2>2, <3>1 DEF SaveArgs
    <3> HIDE DEF s
    <3>3. u = Put(v, 10, s) /\ 10 \in Nat
      BY <3>2, Layout
    <3>4. /\ Put(v, 10, s) \in [Cells -> Cell]
          /\ \A i \in Cells : i \notin 10 .. 10 + Len(s) - 1 => Put(v, 10, s)[i] = v[i]
          /\ \A i \in Cells : i \in 10 .. 10 + Len(s) - 1 => Put(v, 10, s)[i] = s[i - 10 + 1]
      BY <3>2, <3>3, PutIs
    <3>5. 10 \in Cells /\ 10 \in 10 .. 10 + Len(s) - 1 /\ 10 - 10 + 1 = 1
      BY <3>2, Layout
    <3>6. u[10] = <<"args", c>>
      BY <3>1, <3>2, <3>3, <3>4, <3>5
    <3>7. \A i \in Cells : i < 10 => u[i] = v[i]
      BY <3>3, <3>4, Layout
    <3> QED BY <3>3, <3>4, <3>6, <3>7, Layout
  <2> QED BY <2>1, <2>2
<1>5. w = Put(u, 5, load) /\ 5 \in Nat
  BY <1>3, Layout DEF SaveThenLoad
<1>6. /\ w \in [Cells -> Cell]
      /\ \A i \in Cells : i \notin 5 .. 5 + Len(load) - 1 => w[i] = u[i]
      /\ \A i \in Cells : i \in 5 .. 5 + Len(load) - 1 => w[i] = load[i - 5 + 1]
  <2>1. /\ Put(u, 5, load) \in [Cells -> Cell]
        /\ \A i \in Cells : i \notin 5 .. 5 + Len(load) - 1 => Put(u, 5, load)[i] = u[i]
        /\ \A i \in Cells : i \in 5 .. 5 + Len(load) - 1 => Put(u, 5, load)[i] = load[i - 5 + 1]
    <3>1. u \in [Cells -> Cell] /\ load \in Seq(Cell) /\ 5 \in Nat
      BY <1>2, <1>4
    <3> QED BY <3>1, PutIs
  <2> QED BY <1>5, <2>1
<1>7. \A i \in Cells : i < 5 => w[i] = v[i]
  BY <1>1, <1>4, <1>6, Layout
<1>8. \A i \in 1 .. Len(load) : w[InrdData + i - 1] = text[i]
  <2>1. TAKE i \in 1 .. Len(load)
  <2>2. /\ 5 + i - 1 \in Cells /\ 5 + i - 1 \in 5 .. 5 + Len(load) - 1
        /\ (5 + i - 1) - 5 + 1 = i
    BY <1>1, Layout
  <2>3. w[5 + i - 1] = load[(5 + i - 1) - 5 + 1]
    BY <1>6, <2>2
  <2> QED BY <1>1, <2>2, <2>3, Layout
<1>9. \A k \in {9, 10} : /\ w[k] = u[k] \/ w[k] \in Pieces
                         /\ Len(load) <= k - 5 => w[k] = u[k]
  <2>1. TAKE k \in {9, 10}
  <2>2. k \in Cells /\ k \in Nat
    BY Layout
  <2>3. CASE k \in 5 .. 5 + Len(load) - 1
    <3>1. w[k] = load[k - 5 + 1] /\ k - 5 + 1 \in 1 .. Len(load)
      BY <1>1, <1>6, <2>2, <2>3
    <3>2. w[k] \in Pieces
      BY <1>1, <3>1, ElementOfSeq
    <3> QED BY <1>1, <2>2, <2>3, <3>2
  <2>4. CASE k \notin 5 .. 5 + Len(load) - 1
    BY <1>6, <2>2, <2>4
  <2> QED BY <2>3, <2>4
<1>10. u[9] = v[9]
  BY <1>4, Layout
<1>11. SafeAt = 10 /\ RightAt = 9
  BY Layout
<1>12. /\ w[9] = u[9] \/ w[9] \in Pieces
       /\ Len(load) <= 4 => w[9] = u[9]
  BY <1>1, <1>9
<1>13. /\ w[10] = u[10] \/ w[10] \in Pieces
       /\ Len(load) <= 5 => w[10] = u[10]
  BY <1>1, <1>9
<1>14. Redirected(c) => /\ w[SafeAt] \in {<<"args", c>>} \cup Pieces
                        /\ Len(load) <= 5 => w[SafeAt] = <<"args", c>>
  BY <1>4, <1>11, <1>13
<1>15. /\ w[RightAt] = v[RightAt] \/ w[RightAt] \in Pieces
       /\ Len(load) <= 4 => w[RightAt] = v[RightAt]
  BY <1>10, <1>11, <1>12
<1> QED BY <1>1, <1>6, <1>7, <1>8, <1>14, <1>15

(* The files after the output is opened.                                    *)
LEMMA OutDiskIs ==
  ASSUME Types, NEW c \in Commands, Cmd[c].out # None, NEW d, d = OutDisk(c, disk)
  PROVE  /\ d \in [DOMAIN d -> Seq(Pieces)] /\ None \notin DOMAIN d
         /\ \A f \in DOMAIN d : f # Cmd[c].out => f \in DOMAIN disk /\ d[f] = disk[f]
         /\ OpenOut(c, disk) \in [active : BOOLEAN, slot : Slots, text : Seq(Pieces), buf : Seq(Pieces)]
         /\ OpenOut(c, disk).buf = <<>>
<1>1. disk \in [DOMAIN disk -> Seq(Pieces)] /\ None \notin DOMAIN disk /\ <<>> \in Seq(Pieces)
  BY EmptySeq DEF Types, FileTypes
<1>2. CASE Cmd[c].append /\ Cmd[c].out \in DOMAIN disk
  <2>1. d = disk
    BY <1>2 DEF OutDisk
  <2>2. OpenOut(c, disk) = [active |-> TRUE, buf |-> <<>>, slot |-> redir.slot, text |-> disk[Cmd[c].out]]
    BY <1>2 DEF OpenOut
  <2>3. redir.slot \in Slots /\ disk[Cmd[c].out] \in Seq(Pieces)
    BY <1>1, <1>2 DEF Types, FileTypes
  <2> QED BY <1>1, <2>1, <2>2, <2>3
<1>3. CASE ~ (Cmd[c].append /\ Cmd[c].out \in DOMAIN disk)
  <2>1. d = [f \in DOMAIN disk \cup {Cmd[c].out} |-> IF f = Cmd[c].out THEN <<>> ELSE disk[f]]
    BY <1>3 DEF OutDisk
  <2>2. OpenOut(c, disk) = [active |-> TRUE, buf |-> <<>>, slot |-> Cmd[c].out, text |-> <<>>]
    BY <1>3 DEF OpenOut
  <2>3. Cmd[c].out \in Slots
    BY DEF Slots
  <2>4. /\ DOMAIN d = DOMAIN disk \cup {Cmd[c].out}
        /\ \A f \in DOMAIN d : d[f] \in Seq(Pieces)
        /\ \A f \in DOMAIN d : f # Cmd[c].out => f \in DOMAIN disk /\ d[f] = disk[f]
    BY <1>1, <2>1
  <2>5. d \in [DOMAIN d -> Seq(Pieces)]
    BY <2>1, <2>4
  <2> QED BY <1>1, <2>2, <2>3, <2>4, <2>5
<1> QED BY <1>2, <1>3

LEMMA BeginStep ==
  ASSUME ScriptsFit, ShellInv, NEW opens \in BOOLEAN, Begin(opens)
  PROVE  ShellInv'
<1> USE DEF ShellInv
<1>1. PICK c \in Commands : c = cmd
  BY DEF Begin, Current
<1>2. PICK out \in BOOLEAN : out = (Cmd[c].out # None /\ opens)
  OBVIOUS
<1>3. PICK d : d = IF out THEN OutDisk(c, disk) ELSE disk
  OBVIOUS
<1>4. PICK in \in BOOLEAN : in = (Cmd[c].in \in DOMAIN d)
  <2>1. CASE Cmd[c].in \in DOMAIN d
    <3>1. TRUE = (Cmd[c].in \in DOMAIN d) /\ TRUE \in BOOLEAN
      BY <2>1
    <3> QED BY <3>1
  <2>2. CASE Cmd[c].in \notin DOMAIN d
    <3>1. FALSE = (Cmd[c].in \in DOMAIN d) /\ FALSE \in BOOLEAN
      BY <2>2
    <3> QED BY <3>1
  <2> QED BY <2>1, <2>2
<1>5. PICK text : text = IF in THEN d[Cmd[c].in] ELSE <<>>
  OBVIOUS
<1>6. PICK load : load = First(WinSize - InrdData, text)
  OBVIOUS
<1>7. PICK w : w = SaveThenLoad(window, c, text)
  OBVIOUS
<1>8. /\ pc = "line" /\ pc' = "run" /\ disk' = d /\ window' = w
      /\ redir' = IF out THEN OpenOut(c, disk) ELSE redir
      /\ inr' = IF in THEN [active |-> TRUE, pos |-> 0, len |-> Len(load)] ELSE inr
      /\ run' = [name |-> Found(w, c), left |-> Cmd[Found(w, c)].print, out |-> out, in |-> in]
      /\ meant' = [meant EXCEPT !.input = text, !.output = IF out THEN redir'.text ELSE <<>>]
      /\ UNCHANGED <<sub, cmd, pipe, typed>>
  BY <1>1, <1>2, <1>3, <1>4, <1>5, <1>6, <1>7 DEF Begin
<1>9. /\ d \in [DOMAIN d -> Seq(Pieces)] /\ None \notin DOMAIN d
      /\ \A f \in DOMAIN d : f # Cmd[c].out => f \in DOMAIN disk /\ d[f] = disk[f]
      /\ ~ out => d = disk
      /\ out => /\ OpenOut(c, disk) \in [active : BOOLEAN, slot : Slots, text : Seq(Pieces), buf : Seq(Pieces)]
                /\ OpenOut(c, disk).buf = <<>>
  <2>1. CASE out
    <3>1. Types /\ Cmd[c].out # None /\ d = OutDisk(c, disk)
      BY <1>2, <1>3, <2>1
    <3>2. /\ d \in [DOMAIN d -> Seq(Pieces)] /\ None \notin DOMAIN d
          /\ \A f \in DOMAIN d : f # Cmd[c].out => f \in DOMAIN disk /\ d[f] = disk[f]
          /\ OpenOut(c, disk) \in [active : BOOLEAN, slot : Slots, text : Seq(Pieces), buf : Seq(Pieces)]
          /\ OpenOut(c, disk).buf = <<>>
      BY <3>1, OutDiskIs
    <3> QED BY <2>1, <3>2
  <2>2. CASE ~ out
    BY <1>3, <2>2 DEF Types, FileTypes
  <2> QED BY <2>1, <2>2
<1>10. text \in Seq(Pieces) /\ (in => Cmd[c].in # None)
  <2>1. CASE in
    BY <1>4, <1>5, <1>9, <2>1
  <2>2. CASE ~ in
    BY <1>5, <2>2, EmptySeq
  <2> QED BY <2>1, <2>2
<1>11. /\ w \in [Cells -> Cell]
       /\ load \in Seq(Pieces) /\ Len(load) \in Nat /\ Len(load) <= 6
       /\ \A i \in Cells : i < 5 => w[i] = window[i]
       /\ \A i \in 1 .. Len(load) : w[InrdData + i - 1] = text[i]
       /\ Redirected(c) => /\ w[SafeAt] \in {<<"args", c>>} \cup Pieces
                           /\ Len(load) <= 5 => w[SafeAt] = <<"args", c>>
       /\ w[RightAt] = window[RightAt] \/ w[RightAt] \in Pieces
       /\ Len(load) <= 4 => w[RightAt] = window[RightAt]
  <2>1. window \in [Cells -> Cell]
    BY DEF Types, WindowTypes
  <2> QED BY <1>6, <1>7, <1>10, <2>1, LoadedWindow
<1>11a. Len(load) <= Len(text)
  <2>1. load = First(6, text) /\ 6 \in Nat
    BY <1>6, Layout
  <2> QED BY <1>10, <2>1, FirstIs
<1>12. Found(w, c) \in {c, Garbage} /\ Found(w, c) \in Commands
  <2>1. CASE Redirected(c)
    <3>1. Found(w, c) = ReadAs("args", w[SafeAt])
      BY <2>1 DEF Found
    <3> QED BY <1>11, <2>1, <3>1, ReadsAs, GarbageIs
  <2>2. CASE ~ Redirected(c)
    BY <2>2 DEF Found
  <2> QED BY <2>1, <2>2
<1>13. ~ redir.active /\ ~ inr.active
  BY <1>8 DEF Closed
<1>14. /\ run' \in [name : Commands \cup {None}, left : Nat, out : BOOLEAN, in : BOOLEAN]
       /\ run'.name = Found(w, c) /\ run'.out = out /\ run'.in = in
  BY <1>8, <1>12, CommandIs
<1>15. /\ redir' \in [active : BOOLEAN, slot : Slots, text : Seq(Pieces), buf : Seq(Pieces)]
       /\ redir'.active => out
       /\ out => redir'.buf = <<>>
  BY <1>8, <1>9, <1>13 DEF Types, FileTypes
<1>16. /\ inr' \in [active : BOOLEAN, pos : Nat, len : Nat]
       /\ in => inr'.len = Len(load) /\ inr'.pos = 0
       /\ inr'.active => in
  BY <1>8, <1>11, <1>13 DEF Types, WindowTypes
<1>17. /\ meant' \in [script : Seq(OnDisk), input : Seq(Pieces), output : Seq(Pieces)]
       /\ meant'.script = meant.script /\ meant'.input = text
       /\ out => meant'.output = redir'.text
  <2>1. PICK o \in Seq(Pieces) : o = IF out THEN redir'.text ELSE <<>>
    BY <1>15, EmptySeq
  <2>2. meant' = [meant EXCEPT !.input = text, !.output = o]
    BY <1>8, <2>1
  <2> QED BY <1>10, <2>1, <2>2 DEF Types, LineTypes
<1>18. Types'
  <2>1. WindowTypes'
    BY <1>8, <1>11, <1>16 DEF Types, WindowTypes
  <2>2. FileTypes'
    BY <1>8, <1>9, <1>15 DEF FileTypes
  <2>3. LineTypes'
    BY <1>8, <1>14, <1>17 DEF Types, LineTypes
  <2> QED BY <2>1, <2>2, <2>3 DEF Types
<1>19. Current' /\ Closed'
  BY <1>1, <1>2, <1>8, <1>10, <1>12, <1>14, <1>15, <1>16 DEF Current, Closed
<1>20. InPart'
  <2>1. ASSUME NEW k \in Commands, Cmd[k].ends = "submit", Cmd[k].script \in DOMAIN d
        PROVE  d[Cmd[k].script] = Disk[Cmd[k].script]
    <3>1. Cmd[k].script # None
      BY <1>9, <2>1
    <3>2. Cmd[k].script # Cmd[c].out
      BY <2>1, <3>1 DEF ScriptsFit
    <3>3. Cmd[k].script \in DOMAIN disk /\ d[Cmd[k].script] = disk[Cmd[k].script]
      BY <1>9, <2>1, <3>2
    <3> QED BY <2>1, <3>3 DEF InPart
  <2> QED BY <1>8, <1>17, <2>1 DEF InPart
<1>21. SecondHalf' /\ InputFits' /\ Printed'
  <2>1. SecondHalf'
    BY <1>8, <1>11 DEF SecondHalf
  <2>2. InputFits'
    BY <1>11, <1>14, <1>16, Layout DEF InputFits
  <2>3. Printed'
    <3>1. SUFFICES ASSUME out PROVE meant'.output = redir'.text \o redir'.buf
      BY <1>15 DEF Printed
    <3>2. redir'.text \in Seq(Pieces) /\ redir'.buf = <<>>
      BY <1>15, <3>1
    <3>3. redir'.text \o <<>> = redir'.text
      BY <3>2, ConcatEmptySeq
    <3> QED BY <1>17, <3>1, <3>2, <3>3
  <2> QED BY <2>1, <2>2, <2>3
<1>22. ScriptHeld'
  <2>1. SUFFICES ASSUME sub.active, NEW i \in sub.pos + 1 .. sub.len
                 PROVE  w[SubmitData + i - 1] = meant.script[i]
    BY <1>8, <1>17 DEF ScriptHeld
  <2>2. window[SubmitData + i - 1] = meant.script[i]
    BY <2>1 DEF ScriptHeld
  <2>3. SubmitData + i - 1 \in Cells /\ SubmitData + i - 1 < 5
    <3>1. sub.pos \in Nat /\ sub.len \in Nat /\ sub.len <= 3
      BY <2>1, Layout DEF Types, WindowTypes, InPart
    <3> QED BY <2>1, <3>1, Layout
  <2> QED BY <1>11, <2>2, <2>3
<1>23. InputHeld'
  <2>1. SUFFICES ASSUME in, NEW i \in inr'.pos + 1 .. inr'.len
                 PROVE  w[InrdData + i - 1] = text[i]
    BY <1>8, <1>14, <1>17 DEF InputHeld
  <2>2. i \in 1 .. Len(load)
    BY <1>11, <1>16, <2>1
  <2> QED BY <1>11, <2>2
<1>24. ArgsHeld'
  <2>1. SUFFICES ASSUME Redirected(c), in => inr'.len <= 5 PROVE w[SafeAt] = <<"args", c>>
    BY <1>1, <1>8, <1>14, Layout DEF ArgsHeld, Redirected
  <2>2. Len(load) <= 5
    <3>1. CASE in
      BY <1>16, <2>1, <3>1
    <3>2. CASE ~ in
      <4>1. load = <<>>
        <5>1. text = <<>> /\ text \in Seq(Pieces) /\ Len(text) = 0
          BY <1>5, <3>2, EmptySeq
        <5>2. Len(load) = 0
          BY <1>11, <1>11a, <5>1
        <5> QED BY <1>11, <5>2, EmptySeq
      <4> QED BY <4>1
    <3> QED BY <3>1, <3>2
  <2> QED BY <1>11, <2>1, <2>2
<1>25. RightHeld'
  <2>1. SUFFICES ASSUME pipe.half = 1, in => inr'.len <= 4 PROVE w[RightAt] = <<"right", pipe.right>>
    BY <1>8, <1>14, Layout DEF RightHeld
  <2>2. Len(load) <= 4
    <3>1. CASE in
      BY <1>16, <2>1, <3>1
    <3>2. CASE ~ in
      <4>1. text = <<>> /\ text \in Seq(Pieces) /\ Len(text) = 0
        BY <1>5, <3>2, EmptySeq
      <4> QED BY <1>11, <1>11a, <4>1
    <3> QED BY <3>1, <3>2
  <2>3. window[RightAt] = <<"right", pipe.right>>
    BY <1>8, <2>1 DEF RightHeld
  <2> QED BY <1>11, <2>2, <2>3
<1> QED BY <1>18, <1>19, <1>20, <1>21, <1>22, <1>23, <1>24, <1>25


-----------------------------------------------------------------------------
(* The end of a command: nothing stays redirected.                          *)
LEMMA NothingRuns ==
  /\ NoRun \in [name : Commands \cup {None}, left : Nat, out : BOOLEAN, in : BOOLEAN]
  /\ NoPipe \in [half : 0 .. 2, right : Commands \cup {None}] /\ NoPipe.half = 0
BY DEF NoRun, NoPipe

LEMMA CommandEnds ==
  ASSUME Types', pc' # "run", pc' # "ask" => cmd' \in Commands,
         ~ redir'.active, ~ inr'.active, pipe'.half # 1, InPart', ScriptHeld'
  PROVE  ShellInv'
<1>1. Current' /\ Closed' /\ SecondHalf' /\ InputFits' /\ Printed'
  BY DEF Current, Closed, SecondHalf, InputFits, Printed
<1>2. InputHeld' /\ ArgsHeld' /\ RightHeld'
  BY DEF InputHeld, ArgsHeld, RightHeld
<1> QED BY <1>1, <1>2 DEF ShellInv

(* What is closed is stored in the file its entry is noted for.             *)
LEMMA StoredIs ==
  ASSUME Types
  PROVE  /\ Close(redir) \in [active : BOOLEAN, slot : Slots, text : Seq(Pieces), buf : Seq(Pieces)]
         /\ ~ Close(redir).active
         /\ redir.active => Close(redir).text = redir.text \o redir.buf
         /\ Stored(disk, redir) \in [DOMAIN disk -> Seq(Pieces)]
         /\ \A f \in DOMAIN disk : Stored(disk, redir)[f] = IF f = redir.slot THEN Close(redir).text ELSE disk[f]
<1>1. PICK r \in [active : BOOLEAN, slot : Slots, text : Seq(Pieces), buf : Seq(Pieces)] : r = redir
  BY DEF Types, FileTypes
<1>2. PICK t \in Seq(Pieces) : t = IF r.active THEN r.text \o r.buf ELSE r.text
  <2>1. r.text \o r.buf \in Seq(Pieces) /\ r.text \in Seq(Pieces)
    BY ConcatProperties
  <2> QED BY <2>1
<1>3. Flushed(r).text = t
  BY <1>2 DEF Flushed
<1>4. Close(r) = [active |-> FALSE, slot |-> r.slot, text |-> t, buf |-> <<>>]
  <2>1. Close(r) = [NoRedir EXCEPT !.slot = r.slot, !.text = t]
    BY <1>3 DEF Close
  <2>2. NoRedir = [active |-> FALSE, slot |-> None, text |-> <<>>, buf |-> <<>>]
    BY DEF NoRedir
  <2> QED BY <2>1, <2>2
<1>5. disk \in [DOMAIN disk -> Seq(Pieces)]
  BY DEF Types, FileTypes
<1>6. <<>> \in Seq(Pieces) /\ r.slot \in Slots
  BY EmptySeq
<1>7. Close(r).text = t
  BY <1>4
<1>8. Stored(disk, r) = IF r.slot \in DOMAIN disk THEN [disk EXCEPT ![r.slot] = t] ELSE disk
  BY <1>7 DEF Stored
<1>9. /\ Stored(disk, r) \in [DOMAIN disk -> Seq(Pieces)]
      /\ \A f \in DOMAIN disk : Stored(disk, r)[f] = IF f = r.slot THEN t ELSE disk[f]
  BY <1>2, <1>5, <1>8
<1> QED BY <1>1, <1>2, <1>4, <1>6, <1>7, <1>9

(* The scripts are still as they were.                                      *)
LEMMA ScriptsKept ==
  ASSUME ScriptsFit, Types, InPart,
         NEW c \in Commands, Cmd[c].ends = "submit", Cmd[c].script \in DOMAIN disk
  PROVE  Stored(disk, redir)[Cmd[c].script] = Disk[Cmd[c].script]
<1>1. disk[Cmd[c].script] = Disk[Cmd[c].script]
  BY DEF InPart
<1>2. Cmd[c].script # None /\ redir.slot \in Slots
  BY DEF Types, FileTypes
<1>3. Cmd[c].script # redir.slot
  BY <1>2 DEF ScriptsFit, Slots
<1> QED BY <1>1, <1>3, StoredIs

(* A script fits.                                                           *)
LEMMA LoadedIs ==
  ASSUME ScriptsFit, Types, InPart, NEW c \in Commands
  PROVE  Loaded(c) \in Seq(OnDisk) /\ Len(Loaded(c)) \in Nat /\ Len(Loaded(c)) <= 3
<1>1. CASE Cmd[c].ends = "submit" /\ Cmd[c].script \in DOMAIN disk
  <2>1. Cmd[c].script # None
    BY <1>1 DEF Types, FileTypes
  <2>2. PICK s \in Seq(OnDisk) : s = disk[Cmd[c].script] /\ Len(s) <= 3
    <3>1. disk[Cmd[c].script] = Disk[Cmd[c].script] /\ Cmd[c].script \in DOMAIN Disk
      BY <1>1, <2>1, CommandIs DEF InPart
    <3>2. Disk[Cmd[c].script] \in Seq(OnDisk) /\ Len(Disk[Cmd[c].script]) <= 3
      BY <1>1, <2>1, <3>1, OnDiskIs, Layout DEF ScriptsFit
    <3> QED BY <3>1, <3>2
  <2>3. Loaded(c) = First(10, s) /\ 10 \in Nat
    BY <1>1, <2>2, Layout DEF Loaded
  <2>4. First(10, s) \in Seq(OnDisk) /\ Len(First(10, s)) \in Nat /\ Len(First(10, s)) <= Len(s)
    BY <2>3, FirstIs
  <2>5. Len(s) \in Nat
    BY LenProperties
  <2> QED BY <2>2, <2>3, <2>4, <2>5
<1>2. CASE ~ (Cmd[c].ends = "submit" /\ Cmd[c].script \in DOMAIN disk)
  <2>1. Loaded(c) = <<>>
    BY <1>2 DEF Loaded
  <2> QED BY <2>1, EmptySeq
<1> QED BY <1>1, <1>2

LEMMA FinishStep ==
  ASSUME ScriptsFit, ShellInv, NEW n \in 0 .. 1, Finish(n)
  PROVE  ShellInv'
<1> USE DEF ShellInv
<1>1. PICK c \in Commands : c = run.name
  BY GarbageIs DEF Finish, IsOver, Current
<1>2. PICK load \in Seq(OnDisk) : load = Loaded(c) /\ Len(load) \in Nat /\ Len(load) <= 3
  BY LoadedIs
<1>3. /\ pc = "run" /\ Submit(load)
      /\ redir' = IF run.out THEN Close(redir) ELSE redir
      /\ inr' = IF run.in THEN CloseInput(HeaderAfter(load, inr, n)) ELSE HeaderAfter(load, inr, n)
      /\ LineDone(IF run.out THEN Stored(disk, redir) ELSE disk)
      /\ run' = NoRun
  BY <1>1, <1>2 DEF Finish, IsOver
<1>4. HeaderAfter(load, inr, n) = inr
  BY <1>2, Layout DEF HeaderAfter
<1>5. inr' \in [active : BOOLEAN, pos : Nat, len : Nat] /\ ~ inr'.active
  BY <1>3, <1>4 DEF CloseInput, Types, WindowTypes, Closed
<1>6. /\ redir' \in [active : BOOLEAN, slot : Slots, text : Seq(Pieces), buf : Seq(Pieces)]
      /\ ~ redir'.active
  <2>1. CASE run.out
    BY <1>3, <2>1, StoredIs
  <2>2. CASE ~ run.out
    BY <1>3, <2>2 DEF Types, FileTypes, Closed
  <2> QED BY <2>1, <2>2
<1>7. /\ window' \in [Cells -> Cell]
      /\ \A i \in Cells : i >= 4 => window'[i] = window[i]
      /\ load = <<>> => window' = window
      /\ \A i \in 1 .. Len(load) : window'[SubmitData + i - 1] = load[i]
  <2>1. window \in [Cells -> Cell] /\ load \in Seq(Cell) /\ 1 \in Nat /\ window' = Put(window, 1, load)
    BY <1>3, OnDiskIs, CellIs, SeqMonotonic, Layout DEF Types, WindowTypes, Submit
  <2>2. /\ Put(window, 1, load) \in [Cells -> Cell]
        /\ \A i \in Cells : i \notin 1 .. 1 + Len(load) - 1 => Put(window, 1, load)[i] = window[i]
        /\ \A i \in Cells : i \in 1 .. 1 + Len(load) - 1 => Put(window, 1, load)[i] = load[i - 1 + 1]
    BY <2>1, PutIs
  <2>3. \A i \in Cells : i >= 4 => window'[i] = window[i]
    BY <1>2, <2>1, <2>2, Layout
  <2>4. ASSUME NEW i \in 1 .. Len(load) PROVE window'[SubmitData + i - 1] = load[i]
    <3>1. i \in Cells /\ i \in 1 .. 1 + Len(load) - 1 /\ i - 1 + 1 = i /\ SubmitData + i - 1 = i
      BY <1>2, Layout
    <3> QED BY <2>1, <2>2, <3>1
  <2>5. ASSUME load = <<>> PROVE window' = window
    <3>1. Len(load) = 0
      BY <2>5
    <3>2. \A i \in Cells : window'[i] = window[i]
      BY <2>1, <2>2, <3>1, Layout
    <3> QED BY <2>1, <2>2, <3>2
  <2> QED BY <2>1, <2>2, <2>3, <2>4, <2>5
<1>8. ~ IsTooBig(load)
  BY <1>2, Layout DEF IsTooBig
<1>9. /\ sub' \in [active : BOOLEAN, pos : Nat, len : Nat]
      /\ meant' \in [script : Seq(OnDisk), input : Seq(Pieces), output : Seq(Pieces)]
      /\ sub'.active => sub'.len = Len(meant'.script) /\ sub'.len <= Room
      /\ ScriptHeld'
  <2>1. CASE load = <<>>
    <3>1. sub' = sub /\ meant' = meant /\ window' = window
      BY <1>3, <1>7, <2>1 DEF Submit
    <3> QED BY <3>1 DEF Types, WindowTypes, LineTypes, InPart, ScriptHeld
  <2>2. CASE load # <<>>
    <3>1. sub' = [active |-> TRUE, pos |-> 0, len |-> Len(load)] /\ meant' = [meant EXCEPT !.script = load]
      BY <1>3, <1>8, <2>2 DEF Submit
    <3>2. /\ sub' \in [active : BOOLEAN, pos : Nat, len : Nat] /\ sub'.pos = 0 /\ sub'.len = Len(load)
          /\ meant' \in [script : Seq(OnDisk), input : Seq(Pieces), output : Seq(Pieces)]
          /\ meant'.script = load
      BY <1>2, <3>1 DEF Types, LineTypes
    <3>3. \A i \in sub'.pos + 1 .. sub'.len : window'[SubmitData + i - 1] = meant'.script[i]
      BY <1>2, <1>7, <3>2
    <3> QED BY <1>2, <3>2, <3>3, Layout DEF ScriptHeld
  <2> QED BY <2>1, <2>2
<1>10. PICK d : d = IF run.out THEN Stored(disk, redir) ELSE disk
  OBVIOUS
<1>11. /\ d \in [DOMAIN disk -> Seq(Pieces)] /\ None \notin DOMAIN disk
       /\ \A k \in Commands : Cmd[k].ends = "submit" /\ Cmd[k].script \in DOMAIN disk =>
            d[Cmd[k].script] = Disk[Cmd[k].script]
  <2>1. CASE run.out
    BY <1>10, <2>1, StoredIs, ScriptsKept DEF Types, FileTypes
  <2>2. CASE ~ run.out
    BY <1>10, <2>2 DEF Types, FileTypes, InPart
  <2> QED BY <2>1, <2>2
<1>12. /\ disk' \in [DOMAIN disk' -> Seq(Pieces)] /\ None \notin DOMAIN disk'
       /\ \A k \in Commands : Cmd[k].ends = "submit" /\ Cmd[k].script \in DOMAIN disk' =>
            disk'[Cmd[k].script] = Disk[Cmd[k].script]
  <2>1. disk' = IF pipe.half = 2 THEN [f \in DOMAIN d \ {Tmp} |-> d[f]] ELSE d
    BY <1>3, <1>10 DEF LineDone
  <2>2. CASE pipe.half = 2
    <3>1. DOMAIN disk' \subseteq DOMAIN disk /\ \A f \in DOMAIN disk' : disk'[f] = d[f] /\ d[f] \in Seq(Pieces)
      BY <1>11, <2>1, <2>2
    <3>2. disk' \in [DOMAIN disk' -> Seq(Pieces)]
      BY <2>1, <2>2, <3>1
    <3> QED BY <1>11, <3>1, <3>2
  <2>3. CASE pipe.half # 2
    BY <1>11, <2>1, <2>3
  <2> QED BY <2>2, <2>3
<1>13. /\ pc' \in {"ask", "line"} /\ (pc' # "ask" => cmd' \in Commands)
       /\ cmd' \in Commands \cup {None}
       /\ pipe' \in [half : 0 .. 2, right : Commands \cup {None}] /\ pipe'.half # 1
  <2>1. CASE pipe.half = 1
    <3>1. pc' = "line" /\ cmd' = ReadAs("right", window'[RightAt]) /\ pipe' = [pipe EXCEPT !.half = 2]
      BY <1>3, <2>1 DEF LineDone
    <3>2. window'[RightAt] = window[RightAt]
      BY <1>7, Layout
    <3>3. window[RightAt] \in {<<"right", pipe.right>>} \cup Pieces /\ pipe.right \in Commands
      BY <2>1 DEF SecondHalf
    <3>4. cmd' \in {pipe.right, Garbage}
      BY <3>1, <3>2, <3>3, ReadsAs
    <3>5. pipe' \in [half : 0 .. 2, right : Commands \cup {None}] /\ pipe'.half = 2
      <4>1. PICK h \in [half : 0 .. 2, right : Commands \cup {None}] : h = pipe
        BY DEF Types, LineTypes
      <4>2. pipe' = [half |-> 2, right |-> h.right]
        BY <3>1, <4>1
      <4> QED BY <4>2
    <3> QED BY <3>1, <3>3, <3>4, <3>5, GarbageIs
  <2>2. CASE pipe.half # 1
    BY <1>3, <2>2 DEF LineDone, NoPipe
  <2> QED BY <2>1, <2>2
<1>14. Types'
  <2>1. run' \in [name : Commands \cup {None}, left : Nat, out : BOOLEAN, in : BOOLEAN]
    BY <1>3 DEF NoRun
  <2> QED BY <1>5, <1>6, <1>7, <1>9, <1>12, <1>13, <2>1 DEF Types, WindowTypes, FileTypes, LineTypes
<1>15. InPart'
  BY <1>9, <1>12 DEF InPart
<1> QED BY <1>5, <1>6, <1>9, <1>13, <1>14, <1>15, CommandEnds

LEMMA ProgramReturnsStep ==
  ASSUME ScriptsFit, ShellInv, ProgramReturns
  PROVE  ShellInv'
<1> USE DEF ShellInv
<1>1. /\ disk' = (IF redir.active THEN Stored(disk, redir) ELSE disk)
      /\ redir' = (IF redir.active THEN Close(redir) ELSE redir)
      /\ inr' = [inr EXCEPT !.active = FALSE]
      /\ pc' = "ask" /\ cmd' = None /\ run' = NoRun /\ pipe' = NoPipe
      /\ UNCHANGED <<window, sub, typed, meant>>
  BY DEF ProgramReturns, WarmBoot, CloseInput
<1>2. /\ redir' \in [active : BOOLEAN, slot : Slots, text : Seq(Pieces), buf : Seq(Pieces)]
      /\ ~ redir'.active
  BY <1>1, StoredIs DEF Types, FileTypes
<1>3. inr' \in [active : BOOLEAN, pos : Nat, len : Nat] /\ ~ inr'.active
  BY <1>1 DEF Types, WindowTypes
<1>4. /\ disk' \in [DOMAIN disk' -> Seq(Pieces)] /\ None \notin DOMAIN disk' /\ DOMAIN disk' = DOMAIN disk
      /\ \A k \in Commands : Cmd[k].ends = "submit" /\ Cmd[k].script \in DOMAIN disk' =>
            disk'[Cmd[k].script] = Disk[Cmd[k].script]
  <2>1. CASE redir.active
    BY <1>1, <2>1, StoredIs, ScriptsKept DEF Types, FileTypes
  <2>2. CASE ~ redir.active
    BY <1>1, <2>2 DEF Types, FileTypes, InPart
  <2> QED BY <2>1, <2>2
<1>5. Types'
  <2>1. run' \in [name : Commands \cup {None}, left : Nat, out : BOOLEAN, in : BOOLEAN]
    BY <1>1, NothingRuns
  <2>2. pipe' \in [half : 0 .. 2, right : Commands \cup {None}]
    BY <1>1, NothingRuns
  <2> QED BY <1>1, <1>2, <1>3, <1>4, <2>1, <2>2 DEF Types, WindowTypes, FileTypes, LineTypes
<1>6. InPart'
  BY <1>1, <1>4 DEF InPart
<1>7. ScriptHeld'
  BY <1>1 DEF ScriptHeld
<1>8. pipe'.half # 1
  BY <1>1, NothingRuns
<1> QED BY <1>1, <1>2, <1>3, <1>5, <1>6, <1>7, <1>8, CommandEnds

(* BDOS 0 closes nothing, but ends only what is not redirected.             *)
LEMMA ResetStep ==
  ASSUME ResetsPlain, ShellInv, Reset
  PROVE  ShellInv'
<1> USE DEF ShellInv
<1>1. /\ pc = "run" /\ Cmd[run.name].ends = "reset"
      /\ pc' = "ask" /\ cmd' = None /\ run' = NoRun /\ pipe' = NoPipe
      /\ UNCHANGED <<window, sub, inr, redir, disk, typed, meant>>
  BY DEF Reset, WarmBoot, IsOver
<1>2. cmd \in Commands /\ run.name = cmd
  <2>1. run.name # Garbage
    BY <1>1, GarbageIs
  <2> QED BY <1>1, <2>1 DEF Current
<1>3. ~ Redirected(cmd)
  BY <1>1, <1>2 DEF ResetsPlain
<1>4. ~ redir.active /\ ~ inr.active
  BY <1>1, <1>3 DEF Redirected, Current, Closed
<1>5. Types'
  <2>1. run' \in [name : Commands \cup {None}, left : Nat, out : BOOLEAN, in : BOOLEAN]
    BY <1>1, NothingRuns
  <2>2. pipe' \in [half : 0 .. 2, right : Commands \cup {None}]
    BY <1>1, NothingRuns
  <2> QED BY <1>1, <2>1, <2>2 DEF Types, WindowTypes, FileTypes, LineTypes
<1>6. InPart' /\ ScriptHeld'
  BY <1>1 DEF InPart, ScriptHeld
<1>7. pipe'.half # 1
  BY <1>1, NothingRuns
<1> QED BY <1>1, <1>4, <1>5, <1>6, <1>7, CommandEnds

-----------------------------------------------------------------------------
(* Every step keeps the invariant.                                          *)
LEMMA InitInv ==
  ASSUME Init
  PROVE  ShellInv
<1> USE DEF Init
<1>1. WindowTypes
  BY DEF WindowTypes, Cell
<1>2. <<>> \in Seq(Pieces) /\ <<>> \in Seq(OnDisk) /\ None \in Slots
  BY EmptySeq DEF Slots
<1>3. redir \in [active : BOOLEAN, slot : Slots, text : Seq(Pieces), buf : Seq(Pieces)] /\ ~ redir.active
  BY <1>2 DEF NoRedir
<1>4. FileTypes
  BY <1>3, ShellAssumption DEF FileTypes
<1>5. LineTypes
  BY <1>2, NothingRuns DEF LineTypes
<1>6. Current /\ Closed /\ InPart /\ SecondHalf /\ InputFits /\ Printed
  BY <1>3, NothingRuns DEF Current, Closed, InPart, SecondHalf, InputFits, Printed
<1>7. ScriptHeld /\ InputHeld /\ ArgsHeld /\ RightHeld
  BY NothingRuns DEF ScriptHeld, InputHeld, ArgsHeld, RightHeld
<1> QED BY <1>1, <1>4, <1>5, <1>6, <1>7 DEF ShellInv, Types

THEOREM AlwaysShellInv == ASSUME ScriptsFit, ResetsPlain PROVE Spec => []ShellInv
<1>1. Init => ShellInv
  BY InitInv
<1>2. ShellInv /\ [Next]_vars => ShellInv'
  <2>1. ASSUME ShellInv, UNCHANGED vars PROVE ShellInv'
    BY <2>1 DEF vars, ShellInv, Types, WindowTypes, FileTypes, LineTypes, Current, Closed, InPart,
       SecondHalf, InputFits, Printed, ScriptHeld, InputHeld, ArgsHeld, RightHeld
  <2>2. ASSUME ShellInv, Next PROVE ShellInv'
    BY <2>2, ReadLineStep, NextLineStep, ScriptEndsStep, BeginStep, ReadStep, SayStep,
       FinishStep, ProgramReturnsStep, ResetStep DEF Next
  <2> QED BY <2>1, <2>2
<1> QED BY <1>1, <1>2, PTL DEF Spec

(* What the command processor, its script, its input, its arguments and     *)
(* its pipe have each put into the one buffer is there when it is read.     *)
THEOREM WindowIsHeld == ASSUME ScriptsFit, ResetsPlain PROVE Spec => []WindowHeld
<1>1. ShellInv => WindowHeld
  BY DEF ShellInv, WindowHeld
<1> QED BY <1>1, AlwaysShellInv, PTL

(* At the prompt nothing is redirected any more: d_ext_redir_end and        *)
(* d_ext_inrd_end have been called on every way back to it.                 *)
THEOREM ConsoleIsBack == ASSUME ScriptsFit, ResetsPlain PROVE Spec => []ConsoleBack
<1>1. ShellInv => ConsoleBack
  BY DEF ShellInv, Closed, ConsoleBack
<1> QED BY <1>1, AlwaysShellInv, PTL

(* Closing an output leaves its file with what was printed, and no other    *)
(* file is touched: only the end of a command closes one.                   *)
LEMMA OutputStep ==
  ASSUME ShellInv, Next, redir.active, ~ redir'.active, redir.slot = Cmd[cmd].out
  PROVE  /\ Cmd[cmd].out \in DOMAIN disk' => disk'[Cmd[cmd].out] = meant.output
         /\ \A f \in DOMAIN disk' \ {Cmd[cmd].out} : disk'[f] = disk[f]
<1> USE DEF ShellInv
<1>1. pc = "run" /\ run.out
  BY DEF Closed
<1>2. Stored(disk, redir) \in [DOMAIN disk -> Seq(Pieces)]
      /\ \A f \in DOMAIN disk : Stored(disk, redir)[f] = IF f = redir.slot THEN meant.output ELSE disk[f]
  BY StoredIs DEF Printed
<1>3. /\ DOMAIN disk' \subseteq DOMAIN disk
      /\ \A f \in DOMAIN disk' : disk'[f] = Stored(disk, redir)[f]
  <2>1. CASE ProgramReturns
    BY <1>2, <2>1 DEF ProgramReturns
  <2>2. CASE \E n \in 0 .. 1 : Finish(n)
    <3>1. LineDone(Stored(disk, redir))
      BY <1>1, <2>2 DEF Finish
    <3>2. PICK d \in [DOMAIN disk -> Seq(Pieces)] : d = Stored(disk, redir)
      BY <1>2
    <3>3. disk' = IF pipe.half = 2 THEN [f \in DOMAIN d \ {Tmp} |-> d[f]] ELSE d
      BY <3>1, <3>2 DEF LineDone
    <3> QED BY <3>2, <3>3
  <2>3. CASE ~ ProgramReturns /\ ~ \E n \in 0 .. 1 : Finish(n)
    <3>1. \A l \in Typed : ~ ReadLine(l)
      BY <1>1 DEF ReadLine
    <3>2. ~ NextLine /\ ~ ScriptEnds /\ \A opens \in BOOLEAN : ~ Begin(opens)
      BY <1>1 DEF NextLine, ScriptEnds, Begin
    <3>3. ~ Read /\ ~ Reset
      BY DEF Read, Reset
    <3>4. ~ Say
      <4>1. SUFFICES ASSUME Say PROVE FALSE
        OBVIOUS
      <4>2. PICK s : s = [redir EXCEPT !.buf = Append(@, <<"out", run.name>>)]
        OBVIOUS
      <4>3. s.active = redir.active
        BY <4>2 DEF Types, FileTypes
      <4>4. redir' = s \/ redir' = [s EXCEPT !.text = @ \o s.buf, !.buf = <<>>]
        BY <4>1, <4>2 DEF Say, PutChar, Flushed
      <4>5. redir'.active = s.active
        BY <4>2, <4>4 DEF Types, FileTypes
      <4> QED BY <4>3, <4>5
    <3> QED BY <2>3, <3>1, <3>2, <3>3, <3>4 DEF Next
  <2> QED BY <2>1, <2>2, <2>3
<1> QED BY <1>2, <1>3

THEOREM OutputHasLanded == ASSUME ScriptsFit, ResetsPlain PROVE Spec => OutputLands
<1> DEFINE Landed ==
      redir.active /\ ~redir'.active /\ redir.slot = Cmd[cmd].out =>
         /\ Cmd[cmd].out \in DOMAIN disk' => disk'[Cmd[cmd].out] = meant.output
         /\ \A f \in DOMAIN disk' \ {Cmd[cmd].out} : disk'[f] = disk[f]
<1>1. ShellInv /\ [Next]_vars => [Landed]_vars
  BY OutputStep
<1>2. OutputLands <=> [][Landed]_vars
  BY DEF OutputLands
<1> QED BY <1>1, <1>2, AlwaysShellInv, PTL DEF Spec
=============================================================================
