----------------------------- MODULE FileStore -----------------------------
(***************************************************************************)
(* What the file calls of XCP/M promise, with no disk in sight: named       *)
(* sequences, at most one of them being written by a call in progress, and  *)
(* at most one being filled by the output of the commands that run.         *)
(*                                                                          *)
(* A file being written reads as empty until it is finished.  A full disk   *)
(* may cut short what is written and lose a piece of output, never change   *)
(* the order or the content of what is kept, and never touch another file.  *)
(***************************************************************************)
EXTENDS Naturals, Sequences, TLC
LOCAL INSTANCE Functions

CONSTANTS Names, Units,
          Texts        \* the texts a program may save

VARIABLES files,       \* the text of each file that exists
          writing,     \* the file a call is writing, and its whole text
          output       \* the file the output goes to, and what went there

vars == <<files, writing, output>>

Nobody == {}
IsIdle == writing.name = Nobody
IsShut == output.name = Nobody

With(n, text)  == n :> text @@ files
Without(n)     == Restrict(files, DOMAIN files \ {n})
Nothing        == [name |-> Nobody, text |-> <<>>]
Prefixes(text) == {SubSeq(text, 1, k) : k \in 0 .. Len(text)}

Init == /\ files = [n \in {} |-> <<>>]
        /\ writing = Nothing
        /\ output = Nothing

\* A call starts to write text under the name n, whatever was there.
Begin(n, text) ==
    /\ IsIdle /\ output.name # {n}
    /\ writing' = [name |-> {n}, text |-> text]
    /\ UNCHANGED output
    /\ files' = With(n, <<>>)

\* The call ends: the file holds the text, or as much of it as there was room for.
Finish ==
    \E n \in DOMAIN files, text \in Prefixes(writing.text) :
       /\ writing.name = {n}
       /\ writing' = Nothing
       /\ UNCHANGED output
       /\ files' = With(n, text)

Delete(n) ==
    /\ IsIdle /\ n \in DOMAIN files /\ output.name # {n}
    /\ UNCHANGED <<writing, output>>
    /\ files' = Without(n)

\* A file keeps its text, and its place as the output, under its new name.
Rename(n, m) ==
    /\ IsIdle /\ n \in DOMAIN files /\ m \notin DOMAIN files
    /\ output' = IF output.name = {n} THEN [output EXCEPT !.name = {m}] ELSE output
    /\ UNCHANGED writing
    /\ files' = m :> files[n] @@ Without(n)

OpenOutput(n) ==
    /\ IsIdle /\ IsShut
    /\ output' = [name |-> {n}, text |-> <<>>]
    /\ UNCHANGED writing
    /\ files' = With(n, <<>>)

Emit(u) ==
    /\ ~IsShut
    /\ output' = [output EXCEPT !.text = Append(@, u)]
    /\ UNCHANGED <<files, writing>>

ShutOutput ==
    \E n \in DOMAIN files :
       /\ IsIdle /\ output.name = {n}
       /\ output' = Nothing
       /\ UNCHANGED writing
       /\ files' = With(n, output.text)

Start == \/ \E n \in Names, text \in Texts : Begin(n, text)
         \/ \E n \in Names, m \in DOMAIN files : Begin(n, files[m])
         \/ \E n \in Names : Delete(n) \/ OpenOutput(n)
         \/ \E n, m \in Names : Rename(n, m)
         \/ ShutOutput

Next == \/ IsIdle /\ Start
        \/ ~IsIdle /\ Finish
        \/ \E u \in Units : Emit(u)

Spec == Init /\ [][Next]_vars
=============================================================================
