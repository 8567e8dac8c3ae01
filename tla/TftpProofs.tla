----------------------------- MODULE TftpProofs -----------------------------
(***************************************************************************)
(* Theorems about the TFTP server, for texts of every length, any number of *)
(* threads and tries.                                                       *)
(***************************************************************************)
EXTENDS Tftp, TLAPS, FiniteSetTheorems, SequenceTheorems

Kinds == {"RRQ", "WRQ"}

ThreadType == [is: {"free", "done"} \cup Kinds, blk: 0 .. NumBlocks, tries: Nat]

ClientType == [is: {"idle", "asking", "done"}, kind: Kinds, tid: Threads \cup {0},
               blk: 0 .. NumBlocks, got: Seq(1 .. NumBlocks)]

DatagramType == [to: {"server", "client"}, op: {"DATA", "ACK"} \cup Kinds,
                 tid: Threads \cup {0}, blk: 0 .. NumBlocks, chunk: 0 .. NumBlocks]

TypeOK ==
    /\ net \subseteq DatagramType
    /\ thread \in [Threads -> ThreadType]
    /\ client \in ClientType
    /\ store \in Seq(0 .. NumBlocks)

\* What may be in the network.  A block carries the part of the text that its
\* number says, in both directions.  Nothing of the other kind of transfer is
\* ever sent.  An acknowledgement of the server comes from a thread that has
\* come as far.
BlocksMatch == \A d \in net : d.op = "DATA" => d.chunk = d.blk /\ d.blk > 0
OnlyAsked ==
    /\ \A d \in net : client.kind = "RRQ" =>
          d.op # "WRQ" /\ (d.to = "client" => d.op = "DATA")
    /\ \A d \in net : client.kind = "WRQ" =>
          d.op # "RRQ" /\ (d.to = "client" => d.op = "ACK")
    /\ client.is = "idle" =>
          client.kind = "RRQ" /\ net = {} /\ \A t \in Threads : thread[t].is = "free"
    /\ \A t \in Threads : thread[t].is \in Kinds => thread[t].is = client.kind
AckedIsStored ==
    \A d \in net : d.to = "client" /\ d.op = "ACK" =>
       d.tid \in Threads /\ thread[d.tid].is # "free" /\ d.blk <= thread[d.tid].blk

\* The client has the blocks up to the one it has acknowledged; a client that
\* has written all of them has heard so from a thread.
GotInOrder ==
    client.kind = "RRQ" =>
       /\ Len(client.got) = client.blk
       /\ \A i \in 1 .. client.blk : client.got[i] = i
       /\ client.is = "done" => client.blk = NumBlocks
HeardOfLast ==
    client.kind = "WRQ" /\ client.is = "done" =>
       \E d \in net : d.to = "client" /\ d.op = "ACK" /\ d.blk = NumBlocks

\* The file is what the only thread has stored.
Alone(t) == thread[t].is # "free" /\ \A u \in Threads \ {t} : thread[u].is = "free"
StoreIsThreads ==
    client.kind = "WRQ" => \A t \in Threads : Alone(t) =>
       Len(store) = thread[t].blk /\ \A i \in 1 .. thread[t].blk : store[i] = i

IInv == /\ TypeOK /\ BlocksMatch /\ OnlyAsked /\ AckedIsStored
        /\ GotInOrder /\ HeardOfLast /\ StoreIsThreads
-----------------------------------------------------------------------------
LEMMA DatagramFields ==
    ASSUME NEW to, NEW op, NEW tid, NEW b, NEW c
    PROVE  /\ Datagram(to, op, tid, b, c).to = to
           /\ Datagram(to, op, tid, b, c).op = op
           /\ Datagram(to, op, tid, b, c).tid = tid
           /\ Datagram(to, op, tid, b, c).blk = b
           /\ Datagram(to, op, tid, b, c).chunk = c
BY DEF Datagram

LEMMA Sent ==
    ASSUME NEW t \in Threads \cup {0}, NEW b \in 0 .. NumBlocks, NEW c \in 0 .. NumBlocks,
           NEW to \in {"server", "client"}, NEW op \in {"DATA", "ACK"} \cup Kinds
    PROVE  Datagram(to, op, t, b, c) \in DatagramType
BY DEF Datagram, DatagramType

LEMMA Numbers == NumBlocks \in Nat /\ NumBlocks > 0 /\ 0 \in 0 .. NumBlocks /\ 0 \notin Threads
                 /\ Threads \subseteq Nat /\ Tries \in Nat
BY TftpAssumption

\* A block written behind what is there makes the file one longer.
LEMMA StoreAtEnd ==
    ASSUME TypeOK, NEW p \in 1 .. NumBlocks, NEW c \in 0 .. NumBlocks
    PROVE  /\ StoreAt(p, c) \in Seq(0 .. NumBlocks)
           /\ p = Len(store) + 1 =>
                /\ Len(StoreAt(p, c)) = p /\ StoreAt(p, c)[p] = c
                /\ \A i \in 1 .. Len(store) : StoreAt(p, c)[i] = store[i]
<1> DEFINE n == IF p > Len(store) THEN p ELSE Len(store)
           e(i) == IF i = p THEN c ELSE IF i <= Len(store) THEN store[i] ELSE 0
<1>1. Len(store) \in Nat /\ n \in Nat /\ p \in Nat
  BY Numbers DEF TypeOK
<1>2. \A i \in 1 .. n : e(i) \in 0 .. NumBlocks
  BY <1>1, Numbers DEF TypeOK
<1>3. StoreAt(p, c) = [i \in 1 .. n |-> e(i)]
  BY DEF StoreAt
<1> HIDE DEF n, e
<1>4. StoreAt(p, c) \in Seq(0 .. NumBlocks) /\ Len(StoreAt(p, c)) = n
  BY <1>1, <1>2, <1>3
<1>5. \A i \in 1 .. n : StoreAt(p, c)[i] = e(i)
  BY <1>3
<1> QED BY <1>1, <1>4, <1>5 DEF n, e
-----------------------------------------------------------------------------
LEMMA InitInv == Init => IInv
<1> SUFFICES ASSUME Init PROVE IInv
  OBVIOUS
<1>1. TypeOK
  BY Numbers DEF Init, TypeOK, ThreadType, ClientType, NoThread, Kinds
<1>2. BlocksMatch /\ OnlyAsked /\ AckedIsStored
  BY DEF Init, BlocksMatch, OnlyAsked, AckedIsStored, NoThread, Kinds
<1>3. GotInOrder /\ HeardOfLast /\ StoreIsThreads
  BY DEF Init, GotInOrder, HeardOfLast, StoreIsThreads
<1> QED BY <1>1, <1>2, <1>3 DEF IInv
-----------------------------------------------------------------------------
\* The server's steps.
LEMMA ServeReadInv == IInv /\ ServeRead => IInv'
<1> SUFFICES ASSUME IInv, ServeRead PROVE IInv'
  OBVIOUS
<1> USE Numbers DEF IInv
<1>1. PICK t \in Fresh :
        /\ thread' = [thread EXCEPT ![t] = [is |-> "RRQ", blk |-> 1, tries |-> 1]]
        /\ net' = net \cup {Data("client", t, 1, Text[1])}
  BY DEF ServeRead
<1>2. t \in Threads /\ thread[t].is = "free" /\ Text[1] = 1 /\ UNCHANGED <<store, client>>
  BY DEF ServeRead, Fresh, Text
<1>3. PICK r \in net : r = Request("RRQ")
  BY DEF ServeRead
<1>4. client.kind = "RRQ" /\ client.is # "idle"
  <2>1. r.op = "RRQ"
    BY <1>3, DatagramFields DEF Request
  <2> QED BY <2>1, <1>3 DEF OnlyAsked, TypeOK, ClientType, Kinds
<1>5. TypeOK'
  <2>1. Data("client", t, 1, Text[1]) \in DatagramType
    BY <1>2, Sent DEF Data
  <2> QED BY <1>1, <1>2, <2>1 DEF TypeOK, ThreadType, Kinds
<1> DEFINE m == Data("client", t, 1, Text[1])
<1>6. m.to = "client" /\ m.op = "DATA" /\ m.blk = 1 /\ m.chunk = 1
  BY <1>2, DatagramFields DEF Data
<1> HIDE DEF m
<1>7. net' = net \cup {m} /\ client' = client
  BY <1>1, <1>2 DEF m
<1>8. BlocksMatch' /\ OnlyAsked' /\ HeardOfLast' /\ GotInOrder' /\ StoreIsThreads'
  <2>1. BlocksMatch'
    BY <1>6, <1>7 DEF BlocksMatch
  <2>2. OnlyAsked'
    BY <1>1, <1>2, <1>4, <1>6, <1>7 DEF OnlyAsked, TypeOK
  <2>3. HeardOfLast' /\ GotInOrder' /\ StoreIsThreads'
    BY <1>4, <1>7 DEF HeardOfLast, GotInOrder, StoreIsThreads
  <2> QED BY <2>1, <2>2, <2>3
<1>9. AckedIsStored'
  BY <1>1, <1>2, <1>6, <1>7 DEF AckedIsStored, TypeOK
<1> QED BY <1>5, <1>8, <1>9

LEMMA ServeWriteInv == IInv /\ ServeWrite => IInv'
<1> SUFFICES ASSUME IInv, ServeWrite PROVE IInv'
  OBVIOUS
<1> USE Numbers DEF IInv
<1>1. PICK t \in Fresh :
        /\ thread' = [thread EXCEPT ![t] = [is |-> "WRQ", blk |-> 0, tries |-> 1]]
        /\ net' = net \cup {Ack("client", t, 0)}
  BY DEF ServeWrite
<1>2. t \in Threads /\ thread[t].is = "free" /\ store' = <<>> /\ client' = client
  BY DEF ServeWrite, Fresh
<1>3. PICK r \in net : r = Request("WRQ")
  BY DEF ServeWrite
<1>4. client.kind = "WRQ" /\ client.is # "idle"
  <2>1. r.op = "WRQ"
    BY <1>3, DatagramFields DEF Request
  <2> QED BY <2>1, <1>3 DEF OnlyAsked, TypeOK, ClientType, Kinds
<1>5. TypeOK'
  <2>1. Ack("client", t, 0) \in DatagramType
    BY <1>2, Sent DEF Ack
  <2> QED BY <1>1, <1>2, <2>1 DEF TypeOK, ThreadType, Kinds
<1> DEFINE m == Ack("client", t, 0)
<1>6. m.to = "client" /\ m.op = "ACK" /\ m.blk = 0 /\ m.tid = t
  BY DatagramFields DEF Ack
<1> HIDE DEF m
<1>7. net' = net \cup {m}
  BY <1>1 DEF m
<1>8. BlocksMatch' /\ GotInOrder'
  BY <1>2, <1>4, <1>6, <1>7 DEF BlocksMatch, GotInOrder
<1>9. OnlyAsked'
  BY <1>1, <1>2, <1>4, <1>6, <1>7 DEF OnlyAsked, TypeOK
<1>10. AckedIsStored'
  <2> SUFFICES ASSUME NEW d \in net', d.to = "client", d.op = "ACK"
               PROVE  /\ d.tid \in Threads /\ thread'[d.tid].is # "free"
                      /\ d.blk <= thread'[d.tid].blk
    BY DEF AckedIsStored
  <2>1. CASE d = m
    BY <2>1, <1>1, <1>2, <1>6 DEF TypeOK
  <2>2. CASE d \in net
    BY <2>2, <1>1, <1>2 DEF AckedIsStored, TypeOK
  <2> QED BY <2>1, <2>2, <1>7
<1>11. HeardOfLast'
  BY <1>2, <1>7 DEF HeardOfLast
<1>12. StoreIsThreads'
  BY <1>1, <1>2 DEF StoreIsThreads, Alone, TypeOK
<1> QED BY <1>5, <1>8, <1>9, <1>10, <1>11, <1>12

LEMMA TakeAckInv == ASSUME NEW t \in Threads PROVE IInv /\ TakeAck(t) => IInv'
<1> SUFFICES ASSUME IInv, TakeAck(t) PROVE IInv'
  OBVIOUS
<1> USE Numbers DEF IInv
<1> DEFINE b == thread[t].blk
           m == Data("client", t, b + 1, Text[b + 1])
<1>1. /\ thread[t].is = "RRQ" /\ UNCHANGED <<store, client>>
      /\ \/ b = NumBlocks /\ thread' = [thread EXCEPT ![t].is = "done"] /\ UNCHANGED net
         \/ /\ b # NumBlocks /\ net' = net \cup {m}
            /\ thread' = [thread EXCEPT ![t].blk = @ + 1, ![t].tries = 1]
  BY DEF TakeAck, SendNext
<1>2. client.kind = "RRQ" /\ client.is # "idle" /\ b \in 0 .. NumBlocks
  BY <1>1 DEF OnlyAsked, TypeOK, ThreadType, Kinds
<1>3. CASE b = NumBlocks
  <2>1. thread' = [thread EXCEPT ![t].is = "done"] /\ UNCHANGED <<net, store, client>>
    BY <1>1, <1>3
  <2>2. TypeOK'
    BY <2>1 DEF TypeOK, ThreadType
  <2>5. BlocksMatch' /\ OnlyAsked'
    BY <2>1, <1>2 DEF TypeOK, ThreadType, BlocksMatch, OnlyAsked, Kinds
  <2>3. GotInOrder' /\ HeardOfLast' /\ StoreIsThreads'
    BY <2>1, <1>2 DEF GotInOrder, HeardOfLast, StoreIsThreads
  <2>4. AckedIsStored'
    BY <2>1 DEF TypeOK, ThreadType, AckedIsStored
  <2> QED BY <2>2, <2>3, <2>4, <2>5
<1>4. CASE b # NumBlocks
  <2>1. b + 1 \in 1 .. NumBlocks /\ b + 1 \in 0 .. NumBlocks /\ Text[b + 1] = b + 1
    BY <1>2, <1>4 DEF Text
  <2>2. m \in DatagramType
    BY <2>1, Sent DEF Data
  <2>3. m.to = "client" /\ m.op = "DATA" /\ m.blk = b + 1 /\ m.chunk = b + 1
    BY <2>1, DatagramFields DEF Data
  <2> HIDE DEF m, b
  <2>4. /\ net' = net \cup {m} /\ UNCHANGED <<store, client>>
        /\ thread' = [thread EXCEPT ![t].blk = @ + 1, ![t].tries = 1]
    BY <1>1, <1>4
  <2>5. TypeOK'
    <3>2. thread' \in [Threads -> ThreadType]
      BY <2>1, <2>4 DEF TypeOK, ThreadType, b
    <3> QED BY <2>2, <2>4, <3>2 DEF TypeOK
  <2>6. BlocksMatch' /\ OnlyAsked'
    BY <1>2, <2>1, <2>3, <2>4 DEF BlocksMatch, OnlyAsked, TypeOK, ThreadType
  <2>7. AckedIsStored'
    BY <1>2, <2>1, <2>3, <2>4 DEF OnlyAsked, AckedIsStored
  <2>8. GotInOrder' /\ HeardOfLast' /\ StoreIsThreads'
    BY <2>4, <1>2 DEF GotInOrder, HeardOfLast, StoreIsThreads
  <2> QED BY <2>5, <2>6, <2>7, <2>8
<1> QED BY <1>3, <1>4

LEMMA TakeDataInv == ASSUME NEW t \in Threads PROVE IInv /\ TakeData(t) => IInv'
<1> SUFFICES ASSUME IInv, TakeData(t) PROVE IInv'
  OBVIOUS
<1> USE Numbers DEF IInv
<1> DEFINE th == thread[t]
<1>1. PICK d \in net :
        /\ th.is = "WRQ" /\ d.to = "server" /\ d.op = "DATA" /\ d.tid = t
        /\ IF Expected(th, d.blk)
           THEN /\ store' = StoreAt(th.blk + 1, d.chunk)
                /\ net' = net \cup {Ack("client", t, d.blk)}
                /\ thread' = [thread EXCEPT ![t] =
                      [is |-> IF d.chunk = NumBlocks THEN "done" ELSE "WRQ",
                       blk |-> th.blk + 1, tries |-> 1]]
           ELSE /\ thread' = [thread EXCEPT ![t].tries = 1]
                /\ UNCHANGED <<store, net>>
        /\ UNCHANGED client
  BY DEF TakeData
<1>2. client.kind = "WRQ" /\ client.is # "idle"
  BY <1>1 DEF OnlyAsked, Kinds
<1>3. d.blk \in 1 .. NumBlocks /\ d.chunk = d.blk /\ th \in ThreadType
  BY <1>1 DEF BlocksMatch, TypeOK, DatagramType
<1>4. CASE ~ Expected(th, d.blk)
  <2>1. thread' = [thread EXCEPT ![t].tries = 1] /\ UNCHANGED <<store, net, client>>
    BY <1>1, <1>4
  <2>2. TypeOK' /\ BlocksMatch' /\ OnlyAsked'
    BY <2>1 DEF TypeOK, ThreadType, BlocksMatch, OnlyAsked
  <2>3. AckedIsStored' /\ GotInOrder' /\ HeardOfLast'
    BY <2>1, <1>2 DEF AckedIsStored, GotInOrder, HeardOfLast, TypeOK, ThreadType
  <2>4. StoreIsThreads'
    BY <2>1 DEF StoreIsThreads, Alone, TypeOK, ThreadType
  <2> QED BY <2>2, <2>3, <2>4
<1>5. CASE Expected(th, d.blk)
  <2> DEFINE m == Ack("client", t, d.blk)
  <2>1. /\ store' = StoreAt(d.blk, d.blk) /\ net' = net \cup {m} /\ client' = client
        /\ thread' = [thread EXCEPT ![t] =
             [is |-> IF d.blk = NumBlocks THEN "done" ELSE "WRQ", blk |-> d.blk, tries |-> 1]]
    BY <1>1, <1>3, <1>5 DEF Expected
  <2>2. th.blk = d.blk - 1
    BY <1>3, <1>5 DEF Expected, ThreadType
  <2>3. m \in DatagramType /\ m.to = "client" /\ m.op = "ACK" /\ m.tid = t /\ m.blk = d.blk
    BY <1>3, Sent, DatagramFields DEF Ack
  <2> HIDE DEF m
  <2>4. TypeOK'
    BY <1>3, <2>1, <2>3, StoreAtEnd DEF TypeOK, ThreadType, Kinds
  <2>5. BlocksMatch' /\ GotInOrder' /\ HeardOfLast'
    BY <1>2, <2>1, <2>3 DEF BlocksMatch, GotInOrder, HeardOfLast
  <2>6. OnlyAsked'
    BY <1>2, <2>1, <2>3 DEF OnlyAsked, TypeOK, Kinds
  <2>7. AckedIsStored'
    <3> SUFFICES ASSUME NEW e \in net', e.to = "client", e.op = "ACK"
                 PROVE  /\ e.tid \in Threads /\ thread'[e.tid].is # "free"
                        /\ e.blk <= thread'[e.tid].blk
      BY DEF AckedIsStored
    <3>1. CASE e = m
      BY <3>1, <1>3, <2>1, <2>3 DEF TypeOK
    <3>2. CASE e \in net
      <4>1. e.tid \in Threads /\ thread[e.tid].is # "free" /\ e.blk <= thread[e.tid].blk
            /\ e.blk \in Nat
        BY <3>2 DEF AckedIsStored, TypeOK, DatagramType
      <4> QED BY <4>1, <1>3, <2>1, <2>2 DEF TypeOK, ThreadType
    <3> QED BY <3>1, <3>2, <2>1
  <2>8. StoreIsThreads'
    <3> SUFFICES ASSUME NEW u \in Threads, Alone(u)'
                 PROVE  /\ Len(store') = thread'[u].blk
                        /\ \A i \in 1 .. thread'[u].blk : store'[i] = i
      BY DEF StoreIsThreads
    <3>1. u = t
      BY <2>1 DEF Alone, TypeOK
    <3>2. Alone(t)
      BY <1>1, <2>1, <3>1 DEF Alone, TypeOK
    <3>3. Len(store) = d.blk - 1 /\ \A i \in 1 .. d.blk - 1 : store[i] = i
      BY <1>2, <2>2, <3>2 DEF StoreIsThreads
    <3>4. d.blk = Len(store) + 1
      BY <1>3, <3>3
    <3>5. Len(store') = d.blk /\ store'[d.blk] = d.blk
          /\ \A i \in 1 .. Len(store) : store'[i] = store[i]
      <4>1. d.blk \in 1 .. NumBlocks /\ d.blk \in 0 .. NumBlocks /\ TypeOK
        BY <1>3
      <4> QED BY <2>1, <3>4, <4>1, StoreAtEnd
    <3>6. thread'[u].blk = d.blk
      BY <2>1, <3>1 DEF TypeOK
    <3>7. ASSUME NEW i \in 1 .. d.blk PROVE store'[i] = i
      <4>1. d.blk \in Nat /\ (i = d.blk \/ i \in 1 .. d.blk - 1)
        BY <1>3
      <4>2. i \in 1 .. d.blk - 1 => store'[i] = store[i] /\ store[i] = i
        BY <3>3, <3>5
      <4> QED BY <3>5, <4>1, <4>2
    <3> QED BY <3>5, <3>6, <3>7
  <2> QED BY <2>4, <2>5, <2>6, <2>7, <2>8
<1> QED BY <1>4, <1>5

LEMMA TimeoutInv == ASSUME NEW t \in Threads PROVE IInv /\ Timeout(t) => IInv'
<1> SUFFICES ASSUME IInv, Timeout(t) PROVE IInv'
  OBVIOUS
<1> USE Numbers DEF IInv
<1>1. UNCHANGED <<net, store, client>> /\ thread[t].is \in Kinds
  BY DEF Timeout, Kinds
<1>2. /\ thread' \in [Threads -> ThreadType]
      /\ \A u \in Threads : /\ thread'[u].blk = thread[u].blk
                            /\ thread'[u].is = "free" <=> thread[u].is = "free"
                            /\ thread'[u].is = thread[u].is \/ thread'[u].is = "done"
  <2>1. CASE thread[t].tries < Tries
    <3>1. thread' = [thread EXCEPT ![t].tries = @ + 1]
      BY <2>1 DEF Timeout
    <3>2. thread' \in [Threads -> ThreadType]
      <4>1. thread \in [Threads -> ThreadType] /\ thread[t].tries + 1 \in Nat
        BY DEF TypeOK, ThreadType
      <4> QED BY <3>1, <4>1 DEF ThreadType
    <3>3. \A u \in Threads : thread'[u].blk = thread[u].blk /\ thread'[u].is = thread[u].is
      BY <3>1 DEF TypeOK, ThreadType
    <3> QED BY <3>2, <3>3
  <2>2. CASE ~ (thread[t].tries < Tries)
    <3>1. thread' = [thread EXCEPT ![t].is = "done"]
      BY <2>2 DEF Timeout
    <3>2. thread' \in [Threads -> ThreadType]
      BY <3>1 DEF TypeOK, ThreadType
    <3>3. \A u \in Threads : /\ thread'[u].blk = thread[u].blk
                             /\ thread'[u].is = IF u = t THEN "done" ELSE thread[u].is
      BY <3>1 DEF TypeOK, ThreadType
    <3> QED BY <1>1, <3>2, <3>3 DEF Kinds
  <2> QED BY <2>1, <2>2
<1>3. TypeOK' /\ BlocksMatch' /\ GotInOrder' /\ HeardOfLast'
  BY <1>1, <1>2 DEF TypeOK, BlocksMatch, GotInOrder, HeardOfLast
<1>4. OnlyAsked' /\ AckedIsStored'
  BY <1>1, <1>2 DEF OnlyAsked, AckedIsStored, Kinds
<1>5. StoreIsThreads'
  BY <1>1, <1>2 DEF StoreIsThreads, Alone
<1> QED BY <1>3, <1>4, <1>5
-----------------------------------------------------------------------------
\* The client's steps.
LEMMA AskInv == ASSUME NEW kind \in Kinds PROVE IInv /\ Ask(kind) => IInv'
<1> SUFFICES ASSUME IInv, Ask(kind) PROVE IInv'
  OBVIOUS
<1> USE Numbers DEF IInv
<1> DEFINE m == Request(kind)
<1>1. /\ client.is = "idle" /\ client' = [client EXCEPT !.is = "asking", !.kind = kind]
      /\ net' = net \cup {m} /\ UNCHANGED <<thread, store>>
  BY DEF Ask
<1>2. net = {} /\ client.kind = "RRQ" /\ \A t \in Threads : thread[t].is = "free"
  BY <1>1 DEF OnlyAsked
<1>3. m \in DatagramType /\ m.to = "server" /\ m.op = kind
  BY DatagramFields DEF Request, DatagramType, Kinds, Datagram
<1> HIDE DEF m
<1>4. /\ client' \in ClientType /\ client'.is = "asking" /\ client'.kind = kind
      /\ client'.blk = client.blk /\ client'.got = client.got
  BY <1>1 DEF TypeOK, ClientType
<1>5. TypeOK' /\ BlocksMatch' /\ OnlyAsked' /\ AckedIsStored'
  BY <1>1, <1>2, <1>3, <1>4 DEF TypeOK, BlocksMatch, OnlyAsked, AckedIsStored, Kinds
<1>6. GotInOrder' /\ HeardOfLast' /\ StoreIsThreads'
  BY <1>1, <1>2, <1>4 DEF GotInOrder, HeardOfLast, StoreIsThreads, Alone
<1> QED BY <1>5, <1>6

LEMMA TakeBlockInv == IInv /\ TakeBlock => IInv'
<1> SUFFICES ASSUME IInv, TakeBlock PROVE IInv'
  OBVIOUS
<1> USE Numbers DEF IInv
<1>1. PICK d \in net :
        /\ client.kind = "RRQ" /\ From(d) /\ d.blk = client.blk + 1
        /\ client' = [client EXCEPT !.tid = d.tid, !.blk = d.blk, !.got = Append(@, d.chunk),
                                    !.is = IF d.chunk = NumBlocks THEN "done" ELSE @]
        /\ net' = net \cup {Ack("server", d.tid, d.blk)}
        /\ UNCHANGED <<thread, store>>
  BY DEF TakeBlock
<1> DEFINE m == Ack("server", d.tid, d.blk)
<1>2. /\ d \in DatagramType /\ client.is = "asking"
      /\ d.op = "DATA" /\ d.chunk = d.blk /\ d.blk \in 1 .. NumBlocks
      /\ d.blk \in 0 .. NumBlocks /\ d.tid \in Threads \cup {0}
  BY <1>1 DEF From, OnlyAsked, BlocksMatch, TypeOK, DatagramType
<1>3. m \in DatagramType /\ m.to = "server" /\ m.op = "ACK"
  <2>1. Datagram("server", "ACK", d.tid, d.blk, 0) \in DatagramType
    BY <1>2, Sent
  <2> QED BY <2>1, DatagramFields DEF Ack
<1> HIDE DEF m
<1>4. net' = net \cup {m} /\ thread' = thread /\ store' = store
  BY <1>1 DEF m
<1>5. /\ client' \in ClientType /\ client'.kind = "RRQ" /\ client'.is # "idle"
      /\ client'.blk = client.blk + 1 /\ client'.got = Append(client.got, client.blk + 1)
      /\ client'.is = "done" => client'.blk = NumBlocks
  <2>1. /\ client.got \in Seq(1 .. NumBlocks) /\ client.blk \in 0 .. NumBlocks /\ client \in ClientType
        /\ d.blk = client.blk + 1 /\ d.chunk = client.blk + 1
        /\ client' = [client EXCEPT !.tid = d.tid, !.blk = d.blk, !.got = Append(@, d.chunk),
                                    !.is = IF d.chunk = NumBlocks THEN "done" ELSE @]
    BY <1>1, <1>2 DEF TypeOK, ClientType
  <2>2. Append(client.got, d.chunk) \in Seq(1 .. NumBlocks)
    BY <1>2, <2>1
  <2> QED BY <1>1, <1>2, <2>1, <2>2 DEF ClientType
<1>6. TypeOK' /\ BlocksMatch' /\ OnlyAsked' /\ AckedIsStored'
  BY <1>1, <1>2, <1>3, <1>4, <1>5 DEF TypeOK, BlocksMatch, OnlyAsked, AckedIsStored
<1>7. HeardOfLast' /\ StoreIsThreads'
  BY <1>5 DEF HeardOfLast, StoreIsThreads
<1>8. GotInOrder'
  <2>1. /\ client.got \in Seq(1 .. NumBlocks) /\ client.blk \in Nat /\ Len(client.got) = client.blk
        /\ \A i \in 1 .. client.blk : client.got[i] = i
    BY <1>1 DEF GotInOrder, TypeOK, ClientType
  <2>2. /\ Len(client'.got) = client.blk + 1
        /\ \A i \in 1 .. client.blk + 1 : client'.got[i] = i
    BY <1>5, <2>1
  <2> QED BY <1>5, <2>2 DEF GotInOrder
<1> QED BY <1>6, <1>7, <1>8

LEMMA SendBlockInv == IInv /\ SendBlock => IInv'
<1> SUFFICES ASSUME IInv, SendBlock PROVE IInv'
  OBVIOUS
<1> USE Numbers DEF IInv
<1>1. PICK d \in net :
        /\ client.kind = "WRQ" /\ From(d) /\ d.blk = client.blk
        /\ IF client.blk = NumBlocks
           THEN client' = [client EXCEPT !.is = "done"] /\ UNCHANGED net
           ELSE /\ client' = [client EXCEPT !.tid = d.tid, !.blk = @ + 1]
                /\ net' = net \cup {Data("server", d.tid, client.blk + 1, Text[client.blk + 1])}
        /\ UNCHANGED <<thread, store>>
  BY DEF SendBlock
<1>2. d \in DatagramType /\ client.is = "asking" /\ d.to = "client" /\ d.op = "ACK"
      /\ client.blk \in 0 .. NumBlocks /\ d.tid \in Threads \cup {0}
  BY <1>1 DEF From, OnlyAsked, TypeOK, ClientType, DatagramType
<1>3. CASE client.blk = NumBlocks
  <2>1. client' = [client EXCEPT !.is = "done"] /\ UNCHANGED <<net, thread, store>>
    BY <1>1, <1>3
  <2>2. client' \in ClientType /\ client'.kind = "WRQ" /\ client'.is = "done"
    BY <1>1, <2>1 DEF TypeOK, ClientType
  <2>3. TypeOK' /\ BlocksMatch' /\ OnlyAsked' /\ AckedIsStored'
    BY <1>1, <2>1, <2>2 DEF TypeOK, BlocksMatch, OnlyAsked, AckedIsStored
  <2>4. GotInOrder' /\ HeardOfLast' /\ StoreIsThreads'
    BY <1>1, <1>2, <1>3, <2>1, <2>2 DEF GotInOrder, HeardOfLast, StoreIsThreads, Alone
  <2> QED BY <2>3, <2>4
<1>4. CASE client.blk # NumBlocks
  <2> DEFINE b == client.blk + 1
             m == Data("server", d.tid, b, Text[b])
  <2>1. b \in 1 .. NumBlocks /\ b \in 0 .. NumBlocks /\ Text[b] = b
    BY <1>2, <1>4 DEF Text
  <2>2. m \in DatagramType /\ m.to = "server" /\ m.op = "DATA" /\ m.blk = b /\ m.chunk = b
    <3>1. Datagram("server", "DATA", d.tid, b, b) \in DatagramType
      BY <1>2, <2>1, Sent
    <3> QED BY <2>1, <3>1, DatagramFields DEF Data
  <2>3. client' = [client EXCEPT !.tid = d.tid, !.blk = b]
        /\ net' = net \cup {m} /\ UNCHANGED <<thread, store>>
    BY <1>1, <1>4
  <2> HIDE DEF m, b
  <2>4. client' \in ClientType /\ client'.kind = "WRQ" /\ client'.is = "asking"
    BY <1>1, <1>2, <2>1, <2>3 DEF TypeOK, ClientType, DatagramType
  <2>5. TypeOK' /\ BlocksMatch' /\ OnlyAsked' /\ AckedIsStored'
    BY <1>1, <2>1, <2>2, <2>3, <2>4 DEF TypeOK, BlocksMatch, OnlyAsked, AckedIsStored
  <2>6. GotInOrder' /\ HeardOfLast' /\ StoreIsThreads'
    BY <1>1, <2>3, <2>4 DEF GotInOrder, HeardOfLast, StoreIsThreads, Alone
  <2> QED BY <2>5, <2>6
<1> QED BY <1>3, <1>4

LEMMA NextInv == IInv /\ [Next]_vars => IInv'
<1> SUFFICES ASSUME IInv, [Next]_vars PROVE IInv'
  OBVIOUS
<1>1. CASE ServeRead
  BY <1>1, ServeReadInv
<1>2. CASE ServeWrite
  BY <1>2, ServeWriteInv
<1>3. CASE TakeBlock
  BY <1>3, TakeBlockInv
<1>4. CASE SendBlock
  BY <1>4, SendBlockInv
<1>5. ASSUME NEW kind \in Kinds, Ask(kind) PROVE IInv'
  BY <1>5, AskInv
<1>6. ASSUME NEW t \in Threads, TakeAck(t) \/ TakeData(t) \/ Timeout(t) PROVE IInv'
  BY <1>6, TakeAckInv, TakeDataInv, TimeoutInv
<1>7. CASE UNCHANGED vars
  BY <1>7 DEF vars, IInv, TypeOK, BlocksMatch, OnlyAsked, AckedIsStored, GotInOrder,
              HeardOfLast, StoreIsThreads, Alone
<1> QED BY <1>1, <1>2, <1>3, <1>4, <1>5, <1>6, <1>7 DEF Next, Kinds
-----------------------------------------------------------------------------
\* Datagrams, threads, client and file keep their types, and what is in the
\* network keeps to what was asked, read and stored (tftpd.py, serve_rrq and
\* serve_wrq with any number of threads).
THEOREM InvariantHolds == Spec => []IInv
BY InitInv, NextInv, PTL DEF Spec

\* A client that reads gets the blocks of the text in order, and all of them by
\* the time it is done (_send_await_ack).
THEOREM ReadsAreExact == Spec => []ReadExact
<1>1. IInv => ReadExact
  <2> SUFFICES ASSUME IInv, client.kind = "RRQ"
               PROVE  /\ client.got = SubSeq(Text, 1, Len(client.got))
                      /\ client.is = "done" => client.got = Text
    BY DEF ReadExact
  <2>1. /\ client.got \in Seq(1 .. NumBlocks) /\ Len(client.got) = client.blk
        /\ client.blk \in 0 .. NumBlocks
        /\ \A i \in 1 .. client.blk : client.got[i] = i
        /\ client.is = "done" => client.blk = NumBlocks
    BY DEF IInv, GotInOrder, TypeOK, ClientType
  <2>2. Text \in Seq(1 .. NumBlocks) /\ Len(Text) = NumBlocks
        /\ \A i \in 1 .. NumBlocks : Text[i] = i
    BY Numbers DEF Text
  <2>3. client.got = SubSeq(Text, 1, client.blk)
    BY <2>1, <2>2, Numbers
  <2>4. SubSeq(Text, 1, NumBlocks) = Text
    BY <2>2, Numbers
  <2> QED BY <2>1, <2>3, <2>4
<1> QED BY <1>1, InvariantHolds, PTL

\* A client told that its last block is stored finds its text in the file, if
\* one thread has served it (serve_wrq).
THEOREM WritesAreExact == Spec => []WriteExact
<1>1. IInv => WriteExact
  <2> DEFINE busy == {t \in Threads : thread[t].is # "free"}
  <2> SUFFICES ASSUME IInv, client.kind = "WRQ", client.is = "done", Cardinality(busy) = 1
               PROVE  store = Text
    BY DEF WriteExact
  <2>1. IsFiniteSet(busy)
    BY FS_Subset, TftpAssumption
  <2>2. PICK t : busy = {t}
    BY <2>1, FS_Singleton
  <2>3. t \in Threads /\ Alone(t)
    BY <2>2 DEF Alone
  <2>4. PICK d \in net : d.to = "client" /\ d.op = "ACK" /\ d.blk = NumBlocks
    BY DEF IInv, HeardOfLast
  <2>5. d.tid = t /\ NumBlocks <= thread[t].blk
    BY <2>2, <2>4 DEF IInv, AckedIsStored
  <2>6. thread[t].blk = NumBlocks
    BY <2>3, <2>5, Numbers DEF IInv, TypeOK, ThreadType
  <2>7. store \in Seq(0 .. NumBlocks) /\ Len(store) = NumBlocks
        /\ \A i \in 1 .. NumBlocks : store[i] = i
    BY <2>3, <2>6 DEF IInv, StoreIsThreads, TypeOK
  <2> QED BY <2>7, Numbers DEF Text
<1> QED BY <1>1, InvariantHolds, PTL
=============================================================================
