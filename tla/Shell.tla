------------------------------- MODULE Shell -------------------------------
(***************************************************************************)
(* The command processor of XCP/M, src/xcpm-mips/src_ccp/ccpmain.c: one     *)
(* line typed or taken from a script, its redirections and its pipe, and    *)
(* the command it runs; with the redirections and the program loader of     *)
(* bdos.c, and the warm boot of glue_ncd15.c.                               *)
(*                                                                          *)
(* All of it shares one buffer of 4 096 bytes, the window of the LZSS       *)
(* decompressor: the running script, the text that stands for console       *)
(* input, the two halves of a pipe and the arguments of a redirected        *)
(* command.  Nothing separates them but offsets, and what is read into it   *)
(* is as long as the file is.                                               *)
(*                                                                          *)
(* The window is cut into cells, kept in the order and with the relative    *)
(* room of the source: a script of Room cells fits, and of a redirected     *)
(* input the first three cells are the input's own.  A cell of a file's     *)
(* text is a pair: <<"line", l>> a script's line, <<"out", c>> a piece of   *)
(* what command c prints.  What fat_fwrite and fat_fread do with a text is  *)
(* FatFiles' matter: here they keep it.                                     *)
(***************************************************************************)
EXTENDS Naturals, Sequences, SequencesExt

CONSTANTS Cmd,       \* the commands: name -> what run_line finds in it
          Line,      \* the lines: name -> <<command>>, or <<left, right>> for a pipe
          Disk,      \* the files at the start: name -> sequence of cells
          Typed,     \* the lines a user may type
          MaxTyped,  \* lines typed in a session, at most
          None,      \* no file
          Garbage    \* the line, and the command, that another text reads as

Tmp  == "PIPE.TMP"
Ends == {"builtin", "submit", "unknown", "program", "reset"}

\* A piece of a text.
Pieces == {<<"line", l>> : l \in DOMAIN Line} \cup {<<"out", c>> : c \in DOMAIN Cmd}

\* out and in are the files of > and <, print the pieces the command prints,
\* script what it submits.  A program returns; reset is whatever ends in BDOS 0.
ASSUME ShellAssumption ==
    /\ \A c \in DOMAIN Cmd :
          /\ Cmd[c].ends \in Ends /\ Cmd[c].print \in Nat
          /\ Cmd[c].append \in BOOLEAN /\ Cmd[c].script \in DOMAIN Disk \cup {None}
    /\ \A l \in DOMAIN Line :
          /\ Line[l] \in Seq(DOMAIN Cmd) /\ Len(Line[l]) \in 1 .. 2
          /\ Len(Line[l]) = 2 => Cmd[Line[l][1]].out = Tmp /\ Cmd[Line[l][2]].in = Tmp
    /\ Typed \subseteq DOMAIN Line /\ MaxTyped \in Nat
    /\ Garbage \in DOMAIN Line /\ Line[Garbage] = <<Garbage>> /\ Cmd[Garbage].ends = "unknown"
    /\ None \notin DOMAIN Disk /\ Disk \in [DOMAIN Disk -> Seq(Pieces)]

\* The layout, ccpmain.c and bdos.c: the script from byte 16, the input's
\* header at 2 048 and its text from 2 064, the halves of a pipe at 3 616 and
\* 3 776, the arguments in the last 160 bytes.
SubmitData == 1
InrdAt     == 4
InrdData   == 5
LeftAt     == 8
RightAt    == 9
SafeAt     == 10
WinSize    == 11
Cells      == 0 .. WinSize - 1
Nothing    == <<"none", "none">>
Room       == InrdAt - SubmitData

VARIABLES window,    \* lzss_window
          sub,       \* struct submit_hdr
          inr,       \* struct inrd_hdr
          redir,     \* redir_file, redir_buf; slot is its directory entry
          disk,      \* the files, as their entries show them
          pc,        \* "ask", "line", "run": where the command processor is
          cmd,       \* the half of the line being run
          run,       \* the command found for it, and the pieces still to print
          pipe,      \* which half of a pipe it is, 0 for none, and the second half
          typed,     \* lines typed so far
          meant      \* for the properties: the script, the input and the output meant

vars == <<window, sub, inr, redir, disk, pc, cmd, run, pipe, typed, meant>>

NoRun   == [name |-> None, left |-> 0, out |-> FALSE, in |-> FALSE]
NoRedir == [active |-> FALSE, slot |-> None, text |-> <<>>, buf |-> <<>>]
NoPipe  == [half |-> 0, right |-> None]
BufSize == 2

\* Copy the cells of s into the window from an offset on.
Put(w, at, s) == [i \in Cells |-> IF i \in at .. at + Len(s) - 1 THEN s[i - at + 1] ELSE w[i]]
\* What a cell says to who looks for a line, a half or arguments in it.
ReadAs(kind, cell) == IF cell[1] = kind THEN cell[2] ELSE Garbage
First(n, s)   == SubSeq(s, 1, IF n < Len(s) THEN n ELSE Len(s))

Init ==
    /\ window = [i \in Cells |-> Nothing]
    /\ sub = [active |-> FALSE, pos |-> 0, len |-> 0]
    /\ inr = [active |-> FALSE, pos |-> 0, len |-> 0]
    /\ redir = NoRedir /\ disk = Disk
    /\ pc = "ask" /\ cmd = None /\ run = NoRun /\ pipe = NoPipe /\ typed = 0
    /\ meant = [script |-> <<>>, input |-> <<>>, output |-> <<>>]
-----------------------------------------------------------------------------
(***************************************************************************)
(* The line: handle_pipe puts both halves in the window, each with a        *)
(* redirection of its own, before the first is run.                         *)
(***************************************************************************)
TakeHalves(l) ==
    /\ pc' = "line" /\ cmd' = Line[l][1]
    /\ IF Len(Line[l]) = 1
       THEN pipe' = NoPipe /\ UNCHANGED window
       ELSE /\ pipe' = [half |-> 1, right |-> Line[l][2]]
            /\ window' = Put(window, LeftAt, << <<"left", cmd'>>, <<"right", Line[l][2]>> >>)

\* getc_raw goes through BIOS conin: an input that is still redirected is
\* typed instead of the user, and at its end nothing but end marks come.
ReadLine(l) ==
    /\ pc = "ask" /\ ~sub.active /\ typed < MaxTyped
    /\ inr.active => inr.pos < inr.len
    /\ inr' = IF inr.active THEN [inr EXCEPT !.pos = inr.len] ELSE inr
    /\ typed' = typed + 1
    /\ TakeHalves(l)
    /\ UNCHANGED <<sub, redir, disk, run, meant>>

\* submit_next_line.
NextLine ==
    /\ pc = "ask" /\ sub.active /\ sub.pos < sub.len
    /\ sub' = [sub EXCEPT !.pos = @ + 1]
    /\ TakeHalves(ReadAs("line", window[SubmitData + sub.pos]))
    /\ UNCHANGED <<inr, redir, disk, run, typed, meant>>

ScriptEnds ==
    /\ pc = "ask" /\ sub.active /\ sub.pos >= sub.len
    /\ sub' = [sub EXCEPT !.active = FALSE]
    /\ UNCHANGED <<window, inr, redir, disk, pc, cmd, run, pipe, typed, meant>>
-----------------------------------------------------------------------------
(***************************************************************************)
(* run_line up to the dispatch: the arguments of a redirected command are   *)
(* moved to the window's tail, then BDOS 114 opens the output, then BDOS    *)
(* 116 reads the input, as much as there is room up to the window's end.    *)
(***************************************************************************)
Redirected(c) == Cmd[c].out # None \/ Cmd[c].in # None
SaveArgs(w, c) == IF Redirected(c) THEN Put(w, SafeAt, << <<"args", c>> >>) ELSE w

\* redir_flush: a full buffer, or what is in it, goes to the file.
Flushed(r) == IF r.active THEN [r EXCEPT !.text = @ \o r.buf, !.buf = <<>>] ELSE r

\* fat_fcreate makes the file empty and notes its entry.  fat_fopen, for an
\* output that appends to an old file, leaves the entry noted before.
OpenOut(c, d) ==
    LET old == Cmd[c].append /\ Cmd[c].out \in DOMAIN d
    IN  [active |-> TRUE, buf |-> <<>>,
         slot |-> IF old THEN redir.slot ELSE Cmd[c].out,
         text |-> IF old THEN d[Cmd[c].out] ELSE <<>>]
OutDisk(c, d) ==
    IF Cmd[c].append /\ Cmd[c].out \in DOMAIN d THEN d
    ELSE [f \in DOMAIN d \cup {Cmd[c].out} |-> IF f = Cmd[c].out THEN <<>> ELSE d[f]]

\* (Mutated: the input is read before the arguments are moved.)
LoadThenSave(w, c, text) == SaveArgs(Put(w, InrdData, First(WinSize - InrdData, text)), c)
SaveThenLoad(w, c, text) == Put(SaveArgs(w, c), InrdData, First(WinSize - InrdData, text))

\* The name run_line looks up: another text may have run over it.
Found(w, c) == IF Redirected(c) THEN ReadAs("args", w[SafeAt]) ELSE c

\* An output that cannot be opened goes to the console.
Begin(opens) ==
    LET c    == cmd
        out  == Cmd[c].out # None /\ opens
        d    == IF out THEN OutDisk(c, disk) ELSE disk
        in   == Cmd[c].in \in DOMAIN d
        text == IF in THEN d[Cmd[c].in] ELSE <<>>
    IN  /\ pc = "line"
        /\ Cmd[c].out = None => opens
        /\ disk' = d
        /\ redir' = IF out THEN OpenOut(c, disk) ELSE redir
        /\ window' = SaveThenLoad(window, c, text)
        /\ inr' = IF in THEN [active |-> TRUE, pos |-> 0,
                              len |-> Len(First(WinSize - InrdData, text))]
                  ELSE inr
        /\ run' = [name |-> Found(window', c), left |-> Cmd[Found(window', c)].print,
                   out |-> out, in |-> in]
        /\ pc' = "run"
        /\ meant' = [meant EXCEPT !.input = text, !.output = IF out THEN redir'.text ELSE <<>>]
        /\ UNCHANGED <<sub, cmd, pipe, typed>>

(***************************************************************************)
(* The command: it reads its input to the end and prints.                   *)
(***************************************************************************)
Read ==
    /\ pc = "run" /\ inr.active /\ inr.pos < inr.len
    /\ inr' = [inr EXCEPT !.pos = @ + 1]
    /\ UNCHANGED <<window, sub, redir, disk, pc, cmd, run, pipe, typed, meant>>

\* bdos_redir_putc: a full buffer is written.
PutChar(r, u) ==
    LET s == [r EXCEPT !.buf = Append(@, u)]
    IN  IF Len(s.buf) >= BufSize THEN Flushed(s) ELSE s

Say ==
    /\ pc = "run" /\ run.left > 0
    /\ inr.active => inr.pos >= inr.len
    /\ run' = [run EXCEPT !.left = @ - 1]
    /\ IF redir.active
       THEN /\ redir' = PutChar(redir, <<"out", run.name>>)
            /\ meant' = [meant EXCEPT !.output = Append(@, <<"out", run.name>>)]
       ELSE UNCHANGED <<redir, meant>>
    /\ UNCHANGED <<window, sub, inr, disk, pc, cmd, pipe, typed>>

IsOver == pc = "run" /\ run.left = 0 /\ (inr.active => inr.pos >= inr.len)
-----------------------------------------------------------------------------
(***************************************************************************)
(* The end of a command.                                                    *)
(***************************************************************************)
\* (Mutated: the bytes still in the buffer are dropped.)
CloseUnflushed(r) == [NoRedir EXCEPT !.slot = r.slot, !.text = r.text]
\* d_ext_redir_end: flush, close.
Close(r) == [NoRedir EXCEPT !.slot = r.slot, !.text = Flushed(r).text]

\* fat_fflush writes the size, and where the text is, to the entry noted.
Stored(d, r) == IF r.slot \in DOMAIN d THEN [d EXCEPT ![r.slot] = Close(r).text] ELSE d

\* cmd_submit reads the script over whatever else is in the window; what is
\* too big for the window is refused after that.
Loaded(c) == IF Cmd[c].ends = "submit" /\ Cmd[c].script \in DOMAIN disk
             THEN First(WinSize - SubmitData, disk[Cmd[c].script])
             ELSE <<>>
IsTooBig(load) == Len(load) >= WinSize - SubmitData

Submit(load) ==
    /\ window' = Put(window, SubmitData, load)
    /\ IF load = <<>> \/ IsTooBig(load) THEN UNCHANGED <<sub, meant>>
       ELSE /\ sub' = [active |-> TRUE, pos |-> 0, len |-> Len(load)]
            /\ meant' = [meant EXCEPT !.script = load]

\* A script that reaches the input's header makes it look active, with
\* any two numbers in it.
HeaderAfter(load, h, n) ==
    IF Len(load) > Room THEN [active |-> TRUE, pos |-> 0, len |-> n] ELSE h

\* (Mutated: the input is left open.)
LeaveInput(h) == h
\* d_ext_inrd_end.
CloseInput(h) == [h EXCEPT !.active = FALSE]

\* run_line returns: the half after the bar is next, as it reads by now; after
\* that half the file between them is deleted.
LineDone(d) ==
    /\ disk' = IF pipe.half = 2 THEN [f \in DOMAIN d \ {Tmp} |-> d[f]] ELSE d
    /\ IF pipe.half = 1
       THEN cmd' = ReadAs("right", window'[RightAt]) /\ pc' = "line" /\ pipe' = [pipe EXCEPT !.half = 2]
       ELSE cmd' = None /\ pc' = "ask" /\ pipe' = NoPipe

\* A builtin has returned, or an unknown command has been reported: what this
\* line has opened is closed.
Finish(n) ==
    LET load == Loaded(run.name)
    IN  /\ IsOver /\ Cmd[run.name].ends \in {"builtin", "unknown", "submit"}
        /\ n = 0 \/ Len(load) > Room
        /\ Submit(load)
        /\ redir' = IF run.out THEN Close(redir) ELSE redir
        /\ inr' = IF run.in THEN CloseInput(HeaderAfter(load, inr, n)) ELSE HeaderAfter(load, inr, n)
        /\ LineDone(IF run.out THEN Stored(disk, redir) ELSE disk)
        /\ run' = NoRun
        /\ UNCHANGED typed

\* The warm boot drops the stack, and with it whatever the line had still to do.
WarmBoot == pc' = "ask" /\ cmd' = None /\ run' = NoRun /\ pipe' = NoPipe

\* d_ext_loadrun: the program has returned, and every redirection is closed.
ProgramReturns ==
    /\ IsOver /\ Cmd[run.name].ends = "program"
    /\ disk' = IF redir.active THEN Stored(disk, redir) ELSE disk
    /\ redir' = IF redir.active THEN Close(redir) ELSE redir
    /\ inr' = CloseInput(inr)
    /\ WarmBoot
    /\ UNCHANGED <<window, sub, typed, meant>>

\* d_reset: a program, `exit`, or an interrupted line of input.
Reset ==
    /\ IsOver /\ Cmd[run.name].ends = "reset"
    /\ WarmBoot
    /\ UNCHANGED <<window, sub, inr, redir, disk, typed, meant>>

Next == \/ \E l \in Typed : ReadLine(l)
        \/ NextLine \/ ScriptEnds
        \/ \E opens \in BOOLEAN : Begin(opens)
        \/ Read \/ Say
        \/ \E n \in 0 .. 1 : Finish(n)
        \/ ProgramReturns \/ Reset

Spec == Init /\ [][Next]_vars
-----------------------------------------------------------------------------
(***************************************************************************)
(* What a session may be like for the properties to hold: scripts that fit  *)
(* into their part of the window and that no command writes to, and no      *)
(* BDOS 0 under a redirection.                                              *)
(***************************************************************************)
OnDisk   == UNION {ToSet(Disk[f]) : f \in DOMAIN Disk}
Lines    == Typed \cup {Garbage} \cup {l \in DOMAIN Line : <<"line", l>> \in OnDisk}
Commands == UNION {ToSet(Line[l]) : l \in Lines}

ScriptsFit == \A c \in Commands : Cmd[c].ends = "submit" /\ Cmd[c].script # None =>
    Len(Disk[Cmd[c].script]) <= Room /\ \A o \in Commands : Cmd[o].out # Cmd[c].script
ResetsPlain == \A c \in Commands : Cmd[c].ends = "reset" => ~Redirected(c)
-----------------------------------------------------------------------------
(***************************************************************************)
(* Properties.                                                              *)
(***************************************************************************)
Holds(at, s) == \A i \in DOMAIN s : window[at + i - 1] = s[i]

\* What each user of the window put there is there when it is read, as long as
\* what was read into it keeps to its part: a script to Room cells, the input
\* to the parts after it that are free by then.
ScriptHeld == sub.active =>
    \A i \in sub.pos + 1 .. sub.len : window[SubmitData + i - 1] = meant.script[i]
InputHeld  == pc = "run" /\ run.in =>
    \A i \in inr.pos + 1 .. inr.len : window[InrdData + i - 1] = meant.input[i]
ArgsHeld   == pc = "run" /\ Redirected(cmd) /\ (run.in => inr.len <= SafeAt - InrdData) =>
    window[SafeAt] = <<"args", cmd>>
RightHeld  == pipe.half = 1 /\ (pc = "run" /\ run.in => inr.len <= RightAt - InrdData) =>
    window[RightAt] = <<"right", pipe.right>>
WindowHeld == ScriptHeld /\ InputHeld /\ ArgsHeld /\ RightHeld

\* Back at the prompt the console is the console again.
ConsoleBack == pc = "ask" => ~redir.active /\ ~inr.active

\* A redirection closed leaves its file with what the command printed, and
\* every other file as it was.  BDOS 114: 0 = truncate, 1 = append.  An append
\* whose handle still notes the entry of another file is the exception.
OutputLands ==
    [][redir.active /\ ~redir'.active /\ redir.slot = Cmd[cmd].out =>
         /\ Cmd[cmd].out \in DOMAIN disk' => disk'[Cmd[cmd].out] = meant.output
         /\ \A f \in DOMAIN disk' \ {Cmd[cmd].out} : disk'[f] = disk[f]]_vars
=============================================================================
