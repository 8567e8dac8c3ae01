------------------------------ MODULE Console ------------------------------
(***************************************************************************)
(* The console of XCP/M, from the keys to the program that reads them: the *)
(* window's keyboard (emulator/src/fb.c) and the emulator's stdin, the     *)
(* FIFO of its main loop (main.c), channel B of the DUART (duart.c), the   *)
(* polled UART driver (xcpm-mips/src/console_mc68681.c), the BIOS's three  *)
(* console entries (bios.c) and BDOS 1, 2, 6, 9, 10 and 11 (bdos.c).       *)
(*                                                                         *)
(* The emulator is one thread: keys are pumped, bytes moved and one byte   *)
(* fed to the DUART between two instructions of the guest.  Each access of *)
(* the guest to the DUART is a step.  A byte is a key and its place in the *)
(* order of typing; its source is the window or stdin.                     *)
(***************************************************************************)
EXTENDS Integers, Sequences, SequencesExt

CONSTANTS
  KbdSize,    \* sizeof(g_kbd): 64
  BufSize,    \* sizeof(in_buf): 4096
  RxSize,     \* bytes in a receive queue of the DUART: 16
  Burst,      \* what one read of stdin takes at most: 256
  Window,     \* the keys typed into the window, in order
  Stdin,      \* the bytes that arrive on stdin, in order
  LineMax,    \* the max field of a program's line buffer
  MaxCalls    \* bound: console calls of the guest

(* What a key means to the guest: CR ends a line, BS and DEL erase, ^U and  *)
(* ^C are commands, the rest are characters.  Escape and the keys outside   *)
(* ASCII exist only in the window.                                          *)
Meanings == {"char", "cr", "bs", "kill", "break"}

ASSUME ConsoleAssumption ==
  /\ {KbdSize, BufSize, RxSize, Burst} \subseteq Nat \ {0, 1}
  /\ {LineMax, MaxCalls} \subseteq Nat
  /\ Window \in Seq(Meanings \cup {"esc", "other"})
  /\ Stdin \in Seq(Meanings)

Byte(src, n, k) == [src |-> src, n |-> n, k |-> k]
Nul == Byte("none", 0, "char")

VARIABLES
  events,    \* keys with a meaning to the guest that SDL has queued
  escape,    \* whether there is an Escape among them
  pipe,      \* bytes waiting on stdin
  typed,     \* how many keys and bytes have come, per source
  kbd,       \* g_kbd
  quit,      \* g_quit
  buf,       \* in_buf
  rx,        \* rx_queue of channel B
  modes,     \* MR1, MR2 and the pointer to them, per channel
  prog,      \* the program's console call and its line buffer
  screen,    \* what the terminal shows of the line being read
  taken      \* bytes the guest has read from the DUART, in order

host  == <<events, escape, pipe, typed, kbd, quit, buf>>
guest == <<modes, prog, screen, taken>>
vars  == <<events, escape, pipe, typed, kbd, quit, buf, rx, modes, prog, screen, taken>>
-----------------------------------------------------------------------------
(* The DUART.                                                              *)

(* A ring of size n holds n - 1. *)
Full(q, size) == Len(q) = size - 1
Push(q, b, size) == IF Full(q, size) THEN q ELSE Append(q, b)

(* duart_read of SRB and RHRB. *)
RxReady == rx # <<>>
RxHead  == IF RxReady THEN Head(rx) ELSE Nul
RxPopped == IF RxReady THEN Tail(rx) ELSE rx

(* duart_write of MRx and CRx: the pointer moves on after MR1 and stays     *)
(* after MR2; command 1 moves it back.                                      *)
WriteMode(m, v) == [m EXCEPT !.reg[m.ptr] = v, !.ptr = 1]
Commanded(m, codes) == IF "reset mr" \in codes THEN [m EXCEPT !.ptr = 0] ELSE m

(* uart_init.  CR_RST_RX | CR_RST_MR_PTR is the code of CR_RST_TX: only     *)
(* channel B gets a command that resets the pointer.                        *)
InitChannel(m, cmds) == WriteMode(WriteMode(Commanded(m, cmds), "8N1"), "1 stop")
CommandsOf(ch) ==
  IF ch = "A" THEN {"reset tx", "reset err"}
  ELSE {"reset tx", "reset err", "reset brk", "reset mr"}
-----------------------------------------------------------------------------
(* The host: main.c between two instructions.                              *)

(* A key that means nothing to the guest is ignored when its event comes    *)
(* up, and might as well not be queued; Escape asks to quit.                *)
Press ==
  LET n == typed.window + 1
  IN  /\ n <= Len(Window)
      /\ typed' = [typed EXCEPT !.window = n]
      /\ events' = IF Window[n] \in Meanings
                   THEN Append(events, Byte("window", n, Window[n])) ELSE events
      /\ escape' = (escape \/ Window[n] = "esc")
      /\ UNCHANGED <<pipe, kbd, quit, buf, rx, guest>>

Arrive ==
  LET n == typed.stdin + 1
  IN  /\ n <= Len(Stdin)
      /\ typed' = [typed EXCEPT !.stdin = n]
      /\ pipe' = Append(pipe, Byte("stdin", n, Stdin[n]))
      /\ UNCHANGED <<events, escape, kbd, quit, buf, rx, guest>>

(* fb_tick's event loop: kbd_push drops what does not fit. *)
Min2(a, b) == IF a < b THEN a ELSE b
First(s, n) == SubSeq(s, 1, Min2(n, Len(s)))
Pumped == kbd \o First(events, KbdSize - 1 - Len(kbd))

(* The drain loop takes a byte out of the keyboard's FIFO before it looks   *)
(* for room: one byte is lost when there is none.                           *)
Room == BufSize - 1 - Len(buf)
Drained(q) ==
  [buf |-> buf \o First(q, Room), kbd |-> SubSeq(q, Room + 2, Len(q))]

FbTick ==
  /\ ~ quit
  /\ events' = <<>>
  /\ quit' = escape /\ escape' = FALSE
  /\ buf' = Drained(Pumped).buf
  /\ kbd' = Drained(Pumped).kbd
  /\ UNCHANGED <<pipe, typed, rx, guest>>

(* Every 10000 cycles: read stdin if there is room for one byte, dropping   *)
(* what is more than fits; then hand the DUART one byte if it has none.     *)
Slurp == IF Room = 0 THEN 0 ELSE Min2(Burst, Len(pipe))
Slurped == buf \o First(pipe, Min2(Slurp, Room))

(* (Mutated: whatever the DUART has; only right after new input.) *)
FeedsAlways(q) == q # <<>>
FeedsOnInput(q) == q # <<>> /\ rx = <<>> /\ pipe # <<>>
Feeds(q) == q # <<>> /\ rx = <<>>
FeedInput(q) == IF Feeds(q) THEN Push(rx, Head(q), RxSize) ELSE rx
Fed(q) == IF Feeds(q) THEN Tail(q) ELSE q

Poll ==
  /\ ~ quit
  /\ pipe' = SubSeq(pipe, Slurp + 1, Len(pipe))
  /\ rx' = FeedInput(Slurped)
  /\ buf' = Fed(Slurped)
  /\ UNCHANGED <<events, escape, typed, kbd, quit, guest>>
-----------------------------------------------------------------------------
(* The guest.  A console call is one of                                    *)
(*   conin    BDOS 1, BIOS 3           line   BDOS 10                      *)
(*   poll     BDOS 6 with 0xFF         status BDOS 11, BIOS 2, BDOS 6/0xFE *)
(* at "look" it reads the status register, at "take" the data register.    *)
Calls   == {"conin", "line", "poll", "status"}
Waiting == {"conin", "line"}
NoProg  == [call |-> "boot", pc |-> "look", line |-> <<>>, calls |-> 0]

Boot ==
  /\ ~ quit /\ prog.call = "boot"
  /\ modes' = [ch \in {"A", "B"} |-> InitChannel(modes[ch], CommandsOf(ch))]
  /\ prog' = [prog EXCEPT !.call = "none"]
  /\ UNCHANGED <<host, rx, screen, taken>>

Call(c) ==
  /\ ~ quit /\ prog.call = "none" /\ prog.calls < MaxCalls
  /\ prog' = [call |-> c, pc |-> "look", line |-> <<>>, calls |-> prog.calls + 1]
  /\ screen' = <<>>
  /\ UNCHANGED <<host, rx, modes, taken>>

(* uart_getc spins on RxRDY, uart_poll gives up. *)
Look ==
  /\ ~ quit /\ prog.call \in Calls /\ prog.pc = "look"
  /\ RxReady \/ prog.call \notin Waiting
  /\ prog' = IF RxReady THEN [prog EXCEPT !.pc = "take"] ELSE [prog EXCEPT !.call = "none"]
  /\ UNCHANGED <<host, rx, modes, screen, taken>>

(* d_readline: what a byte does to the line and to the screen.  Erasing is  *)
(* backspace, space, backspace, once per character.                         *)
HasPlace == Len(prog.line) < LineMax
Edit(b) ==
  CASE b.k = "bs"   -> IF prog.line = <<>> THEN <<>> ELSE Front(prog.line)
    [] b.k = "kill" -> <<>>
    [] b.k = "char" /\ HasPlace -> Append(prog.line, b)
    [] OTHER -> prog.line

Erase(s, n) == SubSeq(s, 1, Len(s) - n)
(* (Mutated: ^U erases one character.) *)
EraseOne(b) ==
  CASE b.k \in {"bs", "kill"} -> Erase(screen, Min2(1, Len(prog.line)))
    [] b.k = "char" /\ HasPlace -> Append(screen, b)
    [] OTHER -> screen
Shown(b) ==
  CASE b.k = "bs"   -> Erase(screen, Min2(1, Len(prog.line)))
    [] b.k = "kill" -> Erase(screen, Len(prog.line))
    [] b.k = "char" /\ HasPlace -> Append(screen, b)
    [] OTHER -> screen

(* ^C is a warm boot: the call never returns and the CCP starts afresh.     *)
LineEnds(b) == b.k \in {"cr", "break"}

Take ==
  LET b == RxHead
  IN  /\ ~ quit /\ prog.call \in Calls /\ prog.pc = "take"
      /\ rx' = RxPopped
      /\ taken' = Append(taken, b)
      /\ IF prog.call = "line" /\ ~ LineEnds(b)
         THEN /\ prog' = [prog EXCEPT !.pc = "look", !.line = Edit(b)]
              /\ screen' = Shown(b)
         ELSE /\ prog' = [prog EXCEPT !.call = "none"]
              /\ UNCHANGED screen
      /\ UNCHANGED <<host, modes>>
-----------------------------------------------------------------------------
Idle == [reg |-> [i \in {0, 1} |-> "monitor"], ptr |-> 0]

Init ==
  /\ events = <<>> /\ pipe = <<>> /\ kbd = <<>> /\ buf = <<>> /\ rx = <<>>
  /\ typed = [window |-> 0, stdin |-> 0]
  /\ quit = FALSE /\ escape = FALSE
  /\ modes \in [{"A", "B"} -> {[Idle EXCEPT !.ptr = p] : p \in {0, 1}}]
  /\ prog = NoProg
  /\ screen = <<>> /\ taken = <<>>

Host  == Press \/ Arrive \/ FbTick \/ Poll
Guest == Boot \/ Look \/ Take \/ \E c \in Calls : Call(c)
Next  == Host \/ Guest

(* The main loop runs for ever, and it is the guest's instructions it runs. *)
Spec == /\ Init /\ [][Next]_vars
        /\ WF_vars(FbTick) /\ WF_vars(Poll) /\ WF_vars(Look) /\ WF_vars(Take)
-----------------------------------------------------------------------------
(* Properties.                                                             *)
(* No queue outgrows its array: the FIFO of the window, the buffer of the    *)
(* main loop, the ring of the DUART and the line of the program.            *)
Fits ==
  /\ Len(kbd) < KbdSize /\ Len(buf) < BufSize /\ Len(rx) < RxSize
  /\ Len(prog.line) <= LineMax

(* Bytes of one source reach the guest in the order they were typed, none   *)
(* twice, wherever on the way they are; and a read of the data register     *)
(* that followed a look at the status never finds the queue empty.          *)
OnTheWay == taken \o rx \o buf \o kbd \o events
AtStdin  == taken \o rx \o buf \o pipe
Ordered(q, src) ==
  \A i, j \in DOMAIN q : i < j /\ q[i].src = src /\ q[j].src = src => q[i].n < q[j].n
InOrder == Ordered(OnTheWay, "window") /\ Ordered(AtStdin, "stdin") /\ Nul \notin ToSet(taken)

(* d_readline: the terminal shows the line as the program will get it,      *)
(* which is no longer than its buffer.                                      *)
LineShown == prog.call = "line" => screen = prog.line

(* Where a byte can be; what is typed and nowhere is lost. *)
Here == ToSet(OnTheWay) \cup ToSet(pipe)
LostKeys  == {n \in 1 .. typed.window :
                Window[n] \in Meanings /\ Byte("window", n, Window[n]) \notin Here}
LostBytes == {n \in 1 .. typed.stdin : Byte("stdin", n, Stdin[n]) \notin Here}

(* A key is dropped only by a FIFO of the emulator that is full, a byte of  *)
(* stdin only by a main loop that has no room: duart_feed_input, which      *)
(* drops without a word, never has to.                                      *)
LostOnlyWhenFull ==
  [][ /\ LostKeys' # LostKeys => Full(buf', BufSize) \/ Full(Pumped, KbdSize)
      /\ LostBytes' # LostBytes => Full(Slurped, BufSize) ]_vars

(* A guest that waits for a key gets one if the emulator has one for it,    *)
(* in its FIFO or in the DUART, unless the window is closed.                *)
Answered ==
  \A i \in 0 .. MaxCalls :
     prog.calls = i /\ prog.call \in Waiting /\ prog.pc = "look" /\ (buf # <<>> \/ rx # <<>>)
        ~> quit \/ prog.pc = "take" \/ prog.calls # i \/ prog.call = "none"

(* uart_init: the console's channel has its mode, wherever the monitor left *)
(* the pointer.                                                             *)
ConsoleSet == prog.call # "boot" => modes["B"].reg = [i \in {0, 1} |-> IF i = 0 THEN "8N1" ELSE "1 stop"]

(* What the guest gets, shows and has set up is right, and every queue      *)
(* holds (duart.c, fb.c, main.c and bdos.c as one path of a key).           *)
Faithful == Fits /\ InOrder /\ LineShown /\ ConsoleSet
=============================================================================
