-------------------------------- MODULE Tftp --------------------------------
(***************************************************************************)
(* The TFTP server src/xncd15r-mini/tftpd.py: a thread and a port for every *)
(* request.  The terminal's boot monitor is the client; it is not in the    *)
(* repository and is taken to follow the protocol: it keeps to the first    *)
(* port that answers it, takes blocks in order and acknowledges each.       *)
(*                                                                          *)
(* The network loses, repeats and reorders: net holds every datagram ever   *)
(* sent, and each may be received any number of times, or never, so sending *)
(* again what was sent changes nothing in it.  A text is its blocks,        *)
(* 1 .. NumBlocks, the last one short; block numbers do not wrap.           *)
(***************************************************************************)
EXTENDS Naturals, Sequences, FiniteSets

CONSTANTS NumBlocks,  \* blocks in the text
          Tries,      \* retries, 5 in the source
          Threads     \* threads the server may start, 1 .. a number

ASSUME TftpAssumption ==
    /\ NumBlocks \in Nat \ {0} /\ Tries \in Nat \ {0}
    /\ Threads \in SUBSET (Nat \ {0}) /\ IsFiniteSet(Threads)

VARIABLES net,        \* the datagrams
          thread,     \* serve_rrq and serve_wrq
          store,      \* the file a write transfer creates
          client      \* external

vars == <<net, thread, store, client>>

\* A datagram: which way it goes, the server's port (0 for the known one), the
\* block it numbers and the block of text it carries.
Datagram(to, op, tid, b, c) == [to |-> to, op |-> op, tid |-> tid, blk |-> b, chunk |-> c]
Request(kind)        == Datagram("server", kind, 0, 0, 0)
Data(to, tid, b, c)  == Datagram(to, "DATA", tid, b, c)
Ack(to, tid, b)      == Datagram(to, "ACK", tid, b, 0)

\* blk is the block a reader sends, or the last one a writer stored.
NoThread == [is |-> "free", blk |-> 0, tries |-> 0]
Text == [i \in 1 .. NumBlocks |-> i]

Init ==
    /\ net = {}
    /\ thread = [t \in Threads |-> NoThread]
    /\ store = <<>>
    /\ client = [is |-> "idle", kind |-> "RRQ", tid |-> 0, blk |-> 0, got |-> <<>>]
-----------------------------------------------------------------------------
(***************************************************************************)
(* The server.                                                              *)
(***************************************************************************)
\* tftp_server_thread: a request, a repeated one too, gets a thread of its own.
Fresh == {t \in Threads : thread[t].is = "free" /\ \A u \in Threads : u < t => thread[u].is # "free"}

ServeRead ==
    /\ Request("RRQ") \in net
    /\ \E t \in Fresh :
         /\ thread' = [thread EXCEPT ![t] = [is |-> "RRQ", blk |-> 1, tries |-> 1]]
         /\ net' = net \cup {Data("client", t, 1, Text[1])}
    /\ UNCHANGED <<store, client>>

\* Opening the file for writing empties it.
ServeWrite ==
    /\ Request("WRQ") \in net
    /\ \E t \in Fresh :
         /\ thread' = [thread EXCEPT ![t] = [is |-> "WRQ", blk |-> 0, tries |-> 1]]
         /\ net' = net \cup {Ack("client", t, 0)}
    /\ store' = <<>>
    /\ UNCHANGED client

\* The next block of the file goes out as the n-th.
SendNext(t, n) ==
    /\ IF thread[t].blk = NumBlocks
       THEN thread' = [thread EXCEPT ![t].is = "done"] /\ UNCHANGED net
       ELSE /\ thread' = [thread EXCEPT ![t].blk = @ + 1, ![t].tries = 1]
            /\ net' = net \cup {Data("client", t, n, Text[thread[t].blk + 1])}
    /\ UNCHANGED <<store, client>>

\* (Mutated: every acknowledgement has the file read on, and the block numbered
\* after the acknowledged one: the rule of src/emulator/scripts/raw_tftpd.py.)
TakeAnyAck(t) ==
    /\ thread[t].is = "RRQ"
    /\ \E a \in 1 .. NumBlocks : Ack("server", t, a) \in net /\ SendNext(t, a + 1)

\* _send_await_ack waits through the acknowledgements of other blocks.
TakeAck(t) ==
    /\ thread[t].is = "RRQ" /\ Ack("server", t, thread[t].blk) \in net
    /\ SendNext(t, thread[t].blk + 1)

\* (Mutated: a block is written whatever its number.)
ExpectedAny(th, b) == TRUE
Expected(th, b) == b = th.blk + 1

\* A write at the place the thread's own open file has come to.
StoreAt(p, c) == [i \in 1 .. (IF p > Len(store) THEN p ELSE Len(store)) |->
                    IF i = p THEN c ELSE IF i <= Len(store) THEN store[i] ELSE 0]

\* A block out of turn has the last good one acknowledged again; either way the
\* tries are counted afresh.
TakeData(t) ==
    LET th == thread[t]
    IN  \E d \in net :
          /\ th.is = "WRQ" /\ d.to = "server" /\ d.op = "DATA" /\ d.tid = t
          /\ IF Expected(th, d.blk)
             THEN /\ store' = StoreAt(th.blk + 1, d.chunk)
                  /\ net' = net \cup {Ack("client", t, d.blk)}
                  /\ thread' = [thread EXCEPT ![t] =
                        [is |-> IF d.chunk = NumBlocks THEN "done" ELSE "WRQ",
                         blk |-> th.blk + 1, tries |-> 1]]
             ELSE /\ thread' = [thread EXCEPT ![t].tries = 1]
                  /\ UNCHANGED <<store, net>>
          /\ UNCHANGED client

\* A timeout sends the last datagram again, or gives up.
Timeout(t) ==
    /\ thread[t].is \in {"RRQ", "WRQ"}
    /\ thread' = IF thread[t].tries < Tries THEN [thread EXCEPT ![t].tries = @ + 1]
                 ELSE [thread EXCEPT ![t].is = "done"]
    /\ UNCHANGED <<net, store, client>>
-----------------------------------------------------------------------------
(***************************************************************************)
(* The client.                                                              *)
(***************************************************************************)
Ask(kind) ==
    /\ client.is = "idle"
    /\ client' = [client EXCEPT !.is = "asking", !.kind = kind]
    /\ net' = net \cup {Request(kind)}
    /\ UNCHANGED <<thread, store>>

\* The first answer settles the port.
From(d) == d.to = "client" /\ client.is = "asking" /\ client.tid \in {0, d.tid}

TakeBlock ==
    \E d \in net :
      /\ client.kind = "RRQ" /\ From(d) /\ d.blk = client.blk + 1
      /\ client' = [client EXCEPT !.tid = d.tid, !.blk = d.blk, !.got = Append(@, d.chunk),
                                  !.is = IF d.chunk = NumBlocks THEN "done" ELSE @]
      /\ net' = net \cup {Ack("server", d.tid, d.blk)}
      /\ UNCHANGED <<thread, store>>

\* The acknowledgement of block blk has the next one sent.
SendBlock ==
    \E d \in net :
      /\ client.kind = "WRQ" /\ From(d) /\ d.blk = client.blk
      /\ IF client.blk = NumBlocks
         THEN client' = [client EXCEPT !.is = "done"] /\ UNCHANGED net
         ELSE /\ client' = [client EXCEPT !.tid = d.tid, !.blk = @ + 1]
              /\ net' = net \cup {Data("server", d.tid, client.blk + 1, Text[client.blk + 1])}
      /\ UNCHANGED <<thread, store>>

Next ==
    \/ ServeRead \/ ServeWrite \/ TakeBlock \/ SendBlock
    \/ \E kind \in {"RRQ", "WRQ"} : Ask(kind)
    \/ \E t \in Threads : TakeAck(t) \/ TakeData(t) \/ Timeout(t)

Spec == Init /\ [][Next]_vars
-----------------------------------------------------------------------------
\* What a client has read is the text as far as it goes, and all of it when the
\* client is done, whatever the network loses, repeats or delays and however
\* many threads a repeated request starts.  (_send_await_ack: one block is out
\* at a time; each thread has a port.)
ReadExact == client.kind = "RRQ" =>
    /\ client.got = SubSeq(Text, 1, Len(client.got))
    /\ client.is = "done" => client.got = Text

\* A client told that its last block is stored has its text in the server's
\* file, if its request started one thread; a second thread would have emptied
\* the file behind the first.  (serve_wrq: a block is written once, in order.)
WriteExact ==
    (client.kind = "WRQ" /\ client.is = "done" /\
       Cardinality({t \in Threads : thread[t].is # "free"}) = 1) => store = Text
=============================================================================
