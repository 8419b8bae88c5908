----------------------------- MODULE HSHAProofs -----------------------------
(***************************************************************************)
(* For any number of threads and connections: at most one pointer to a     *)
(* connection, none to a deleted one, and no connection without a next     *)
(* step.  The invariant says at which of six places a connection is; a     *)
(* step moves one connection, or accepts or reports several, and leaves    *)
(* the others where they are (Same).                                       *)
(***************************************************************************)
EXTENDS HSHA, FiniteSetTheorems, TLAPS

\* The step does not touch c.
Same(c) ==
  /\ IoOf(c)' = IoOf(c) /\ InOf(c)' = InOf(c) /\ OutOf(c)' = OutOf(c)
  /\ WorkOf(c)' = WorkOf(c)
  /\ SlotsOf(c) = {} => SlotsOf(c)' = {}
  /\ \A i \in DOMAIN queue : SlotsOf(c) = {i} => \E j \in DOMAIN queue' : SlotsOf(c)' = {j}
  /\ reg'[c] = reg[c] /\ mem'[c] = mem[c] /\ home'[c] = home[c]
  /\ got'[c] = got[c] /\ left'[c] = left[c]
  /\ \A t \in IoOf(c) : ioPc'[t] = ioPc[t]
  /\ \A w \in WorkOf(c) : wPc'[w] = wPc[w]

\* A step that does not touch a connection leaves it at its place.
LEMMA SameStays ==
  ASSUME NEW c \in Conns, OnePlace(c), Same(c)
  PROVE  OnePlace(c)'
<1>1. CASE Unheld(c)  BY <1>1 DEF Unheld, Pointers, Same, OnePlace
<1>2. CASE ReportedIn(c)  BY <1>2 DEF ReportedIn, Pointers, Same, OnePlace
<1>3. CASE ReportedOut(c)  BY <1>3 DEF ReportedOut, Pointers, Same, OnePlace
<1>4. CASE AtIo(c)
  <2>1. home[c] \in IoOf(c)  BY <1>4 DEF AtIo, Pointers
  <2>2. ioPc'[home'[c]] = ioPc[home[c]] /\ home'[c] = home[c]  BY <2>1 DEF Same
  <2>3. AtIo(c)'  BY <1>4, <2>2 DEF AtIo, Pointers, Same
  <2>4. QED  BY <2>3 DEF OnePlace
<1>5. CASE Queued(c)
  <2>1. PICK i \in DOMAIN queue : Pointers(c, {}, {}, {}, {i}, {})  BY <1>5 DEF Queued
  <2>2. PICK j \in DOMAIN queue' : SlotsOf(c)' = {j}  BY <2>1 DEF Pointers, Same
  <2>3. Queued(c)'  BY <1>5, <2>1, <2>2 DEF Queued, Pointers, Same
  <2>4. QED  BY <2>3 DEF OnePlace
<1>6. CASE AtWorker(c)
  <2>1. PICK w \in Workers :
          /\ Pointers(c, {}, {}, {}, {}, {w})
          /\ \/ wPc[w] = "encode" /\ got[c] = 2 /\ left[c] = 0
             \/ wPc[w] \in {"mod", "send"} /\ got[c] = 2 /\ left[c] > 0
             \/ wPc[w] = "arm" /\ got[c] < 2 /\ left[c] = 0
             \/ wPc[w] = "free"
    BY <1>6 DEF AtWorker
  <2>2. wPc'[w] = wPc[w]  BY <2>1 DEF Pointers, Same
  <2>3. Pointers(c, {}, {}, {}, {}, {w})'  BY <2>1 DEF Pointers, Same
  <2>4. AtWorker(c)'  BY <1>6, <2>1, <2>2, <2>3 DEF AtWorker, Same
  <2>5. QED  BY <2>4 DEF OnePlace
<1>7. QED  BY <1>1, <1>2, <1>3, <1>4, <1>5, <1>6 DEF OnePlace

\* A pointer seen somewhere tells the place.
LEMMA PlaceIo ==
  ASSUME NEW c \in Conns, OnePlace(c), NEW t \in IoOf(c)
  PROVE  AtIo(c) /\ home[c] = t
BY DEF OnePlace, Unheld, ReportedIn, ReportedOut, AtIo, Queued, AtWorker, Pointers

\* Likewise among the read events.
LEMMA PlaceIn ==
  ASSUME NEW c \in Conns, OnePlace(c), NEW t \in InOf(c)
  PROVE  ReportedIn(c) /\ home[c] = t
BY DEF OnePlace, Unheld, ReportedIn, ReportedOut, AtIo, Queued, AtWorker, Pointers

\* Likewise among the write events.
LEMMA PlaceOut ==
  ASSUME NEW c \in Conns, OnePlace(c), NEW t \in OutOf(c)
  PROVE  ReportedOut(c) /\ home[c] = t
BY DEF OnePlace, Unheld, ReportedIn, ReportedOut, AtIo, Queued, AtWorker, Pointers

\* Likewise in the queue.
LEMMA PlaceQueue ==
  ASSUME NEW c \in Conns, OnePlace(c), NEW i \in SlotsOf(c)
  PROVE  Queued(c) /\ SlotsOf(c) = {i}
BY DEF OnePlace, Unheld, ReportedIn, ReportedOut, AtIo, Queued, AtWorker, Pointers

\* Likewise in a worker.
LEMMA PlaceWork ==
  ASSUME NEW c \in Conns, OnePlace(c), NEW w \in WorkOf(c)
  PROVE  AtWorker(c) /\ WorkOf(c) = {w}
BY DEF OnePlace, Unheld, ReportedIn, ReportedOut, AtIo, Queued, AtWorker, Pointers
-----------------------------------------------------------------------------
(* What an update does to the places. *)

\* An I/O thread takes a connection, or lets it go.
LEMMA IoCurUpdate ==
  ASSUME TypeOK, NEW t \in IO, NEW x, ioCur' = [ioCur EXCEPT ![t] = x], NEW c \in Conns
  PROVE  /\ c # ioCur[t] /\ c # x => IoOf(c)' = IoOf(c)
         /\ c = x /\ IoOf(c) = {} => IoOf(c)' = {t}
         /\ c # x /\ IoOf(c) = {t} => IoOf(c)' = {}
<1>1. \A u \in IO : ioCur'[u] = IF u = t THEN x ELSE ioCur[u]  BY DEF TypeOK
<1>2. QED  BY <1>1 DEF IoOf

\* A worker takes a connection, or lets it go.
LEMMA WCurUpdate ==
  ASSUME TypeOK, NEW w \in Workers, NEW x, wCur' = [wCur EXCEPT ![w] = x], NEW c \in Conns
  PROVE  /\ c # wCur[w] /\ c # x => WorkOf(c)' = WorkOf(c)
         /\ c = x /\ WorkOf(c) = {} => WorkOf(c)' = {w}
         /\ c # x /\ WorkOf(c) = {w} => WorkOf(c)' = {}
<1>1. \A u \in Workers : wCur'[u] = IF u = w THEN x ELSE wCur[u]  BY DEF TypeOK
<1>2. QED  BY <1>1 DEF WorkOf

\* An event is taken out of a batch.
LEMMA BatchUpdate ==
  ASSUME TypeOK, NEW t \in IO, NEW d, NEW e, batch' = [batch EXCEPT ![t] = @ \ {<<d, e>>}],
         NEW c \in Conns
  PROVE  /\ c # d \/ e # "in" => InOf(c)' = InOf(c)
         /\ c # d \/ e # "out" => OutOf(c)' = OutOf(c)
         /\ c = d /\ e = "in" /\ InOf(c) = {t} => InOf(c)' = {}
         /\ c = d /\ e = "out" /\ OutOf(c) = {t} => OutOf(c)' = {}
<1>1. \A u \in IO : batch'[u] = IF u = t THEN batch[u] \ {<<d, e>>} ELSE batch[u]  BY DEF TypeOK
<1>2. \A u \in IO : \A f : <<c, f>> \in batch'[u] <=>
        <<c, f>> \in batch[u] /\ ~(u = t /\ c = d /\ f = e)
  BY <1>1
<1>3. \A u \in IO : u \in InOf(c)' <=> u \in InOf(c) /\ ~(u = t /\ c = d /\ "in" = e)
  BY <1>2 DEF InOf
<1>4. \A u \in IO : u \in OutOf(c)' <=> u \in OutOf(c) /\ ~(u = t /\ c = d /\ "out" = e)
  BY <1>2 DEF OutOf
<1>5. /\ InOf(c) \subseteq IO /\ InOf(c)' \subseteq IO
      /\ OutOf(c) \subseteq IO /\ OutOf(c)' \subseteq IO
  BY DEF InOf, OutOf
<1>6. QED  BY <1>3, <1>4, <1>5

\* What Append and Tail do to the indices.
LEMMA QueueFacts ==
  ASSUME NEW S, NEW q \in Seq(S)
  PROVE  /\ Len(q) \in Nat /\ DOMAIN q = 1 .. Len(q)
         /\ \A i \in 1 .. Len(q) : q[i] \in S
         /\ \A x \in S : /\ Append(q, x) \in Seq(S) /\ Len(Append(q, x)) = Len(q) + 1
                         /\ DOMAIN Append(q, x) = 1 .. Len(q) + 1
                         /\ \A i \in 1 .. Len(q) : Append(q, x)[i] = q[i]
                         /\ Append(q, x)[Len(q) + 1] = x
         /\ q # <<>> => /\ Tail(q) \in Seq(S) /\ Head(q) = q[1] /\ 1 \in DOMAIN q
                        /\ DOMAIN Tail(q) = 1 .. Len(q) - 1
                        /\ \A i \in 1 .. Len(q) - 1 : Tail(q)[i] = q[i + 1]
  OBVIOUS

\* pushInQueue adds one pointer.
LEMMA PushUpdate ==
  ASSUME TypeOK, NEW x \in Conns, queue' = Append(queue, x), NEW c \in Conns
  PROVE  /\ c # x => SlotsOf(c)' = SlotsOf(c)
         /\ DOMAIN queue \subseteq DOMAIN queue'
         /\ c = x /\ SlotsOf(c) = {} => \E j \in DOMAIN queue' : SlotsOf(c)' = {j}
<1>1. /\ Len(queue) \in Nat /\ DOMAIN queue = 1 .. Len(queue)
      /\ DOMAIN queue' = 1 .. Len(queue) + 1
      /\ \A i \in 1 .. Len(queue) : queue'[i] = queue[i]
      /\ queue'[Len(queue) + 1] = x
  BY QueueFacts DEF TypeOK
<1>2. ASSUME c # x PROVE SlotsOf(c)' = SlotsOf(c)
  BY <1>1, <1>2 DEF SlotsOf
<1>3. ASSUME c = x, SlotsOf(c) = {} PROVE SlotsOf(c)' = {Len(queue) + 1}
  BY <1>1, <1>3 DEF SlotsOf
<1>4. QED  BY <1>1, <1>2, <1>3

\* getQueueData takes one pointer away.
LEMMA PopUpdate ==
  ASSUME TypeOK, queue # <<>>, queue' = Tail(queue), NEW c \in Conns
  PROVE  /\ Head(queue) \in Conns /\ 1 \in SlotsOf(Head(queue))
         /\ SlotsOf(c) = {1} => SlotsOf(c)' = {}
         /\ SlotsOf(c) = {} => SlotsOf(c)' = {}
         /\ \A i \in DOMAIN queue :
              i # 1 /\ SlotsOf(c) = {i} => \E j \in DOMAIN queue' : SlotsOf(c)' = {j}
<1>1. /\ Len(queue) \in Nat /\ DOMAIN queue = 1 .. Len(queue)
      /\ DOMAIN queue' = 1 .. Len(queue) - 1
      /\ \A i \in 1 .. Len(queue) - 1 : queue'[i] = queue[i + 1]
      /\ Head(queue) = queue[1] /\ 1 \in DOMAIN queue
      /\ Head(queue) \in Conns
  BY QueueFacts DEF TypeOK
<1>2. \A i \in 1 .. Len(queue) - 1 : i \in SlotsOf(c)' <=> i + 1 \in SlotsOf(c)
  BY <1>1 DEF SlotsOf
<1>3. SlotsOf(c)' \subseteq 1 .. Len(queue) - 1 /\ SlotsOf(c) \subseteq 1 .. Len(queue)
  BY <1>1 DEF SlotsOf
<1>4. 1 \in SlotsOf(Head(queue))  BY <1>1 DEF SlotsOf
<1>5. SlotsOf(c) = {1} => SlotsOf(c)' = {}  BY <1>1, <1>2, <1>3
<1>6. SlotsOf(c) = {} => SlotsOf(c)' = {}  BY <1>2, <1>3
<1>7. ASSUME NEW i \in DOMAIN queue, i # 1, SlotsOf(c) = {i}
      PROVE  SlotsOf(c)' = {i - 1} /\ i - 1 \in DOMAIN queue'
  <2>1. i - 1 \in 1 .. Len(queue) - 1  BY <1>1, <1>7
  <2>2. i - 1 \in SlotsOf(c)'  BY <2>1, <1>2, <1>7
  <2>3. \A j \in SlotsOf(c)' : j = i - 1  BY <1>1, <1>2, <1>3, <1>7
  <2>4. QED  BY <2>1, <2>2, <2>3, <1>1
<1>8. QED  BY <1>1, <1>4, <1>5, <1>6, <1>7
-----------------------------------------------------------------------------
(* The steps of the clients touch no place. *)

\* A new connection is nowhere but in the backlog.
LEMMA ConnectIInv ==
  ASSUME IInv, NEW c \in Conns, Connect(c)
  PROVE  IInv'
<1>1. TypeOK'  BY DEF IInv, TypeOK, Connect, client, io, workers
<1>2. InUse'  BY DEF IInv, InUse, Connect, io, workers
<1>3. ASSUME NEW d \in Conns PROVE OnePlace(d)'
  <2>1. CASE d = c
    <3>1. Unheld(c)
      BY DEF IInv, Connect, OnePlace, Unheld, ReportedIn, ReportedOut, AtIo, Queued, AtWorker
    <3>2. mem'[c] = "backlog"  BY DEF IInv, TypeOK, Connect
    <3>3. Unheld(c)'
      BY <3>1, <3>2 DEF Connect, Unheld, Pointers, IoOf, InOf, OutOf, SlotsOf, WorkOf, io, workers
    <3>4. QED  BY <2>1, <3>3 DEF OnePlace
  <2>2. CASE d # c
    <3>1. Same(d)
      BY <2>2 DEF IInv, TypeOK, Connect, Same, IoOf, InOf, OutOf, SlotsOf, WorkOf, io, workers
    <3>2. QED  BY <3>1, SameStays DEF IInv
  <2>3. QED  BY <2>1, <2>2
<1>r. OneRequest'  BY DEF IInv, OneRequest, Connect, client
<1>4. QED  BY <1>r, <1>1, <1>2, <1>3 DEF IInv

\* What a client sends, or that it goes away, moves no connection.
LEMMA ClientIInv ==
  ASSUME IInv, NEW c \in Conns, ClientSend(c) \/ ClientClose(c)
  PROVE  IInv'
<1>1. TypeOK'
  <2>1. CASE ClientSend(c)  BY <2>1 DEF IInv, TypeOK, ClientSend, conn, io, workers
  <2>2. CASE ClientClose(c)  BY <2>2 DEF IInv, TypeOK, ClientClose, conn, io, workers
  <2>3. QED  BY <2>1, <2>2
<1>2. UNCHANGED <<conn, io, queue, workers>>  BY DEF ClientSend, ClientClose
<1>3. InUse'  BY <1>2 DEF IInv, InUse, io, workers
<1>4. \A d \in Conns : Same(d)
  BY <1>2 DEF Same, IoOf, InOf, OutOf, SlotsOf, WorkOf, conn, io, workers
<1>r. OneRequest'
  <2>1. CASE ClientSend(c)
    <3>1. got' = got /\ unread' = [unread EXCEPT ![c] = @ + 1] /\ got[c] + unread[c] < 2
      BY <2>1 DEF ClientSend, conn
    <3>2. QED  BY <3>1 DEF IInv, TypeOK, OneRequest
  <2>2. CASE ClientClose(c)  BY <2>2 DEF ClientClose, conn, IInv, OneRequest
  <2>3. QED  BY <2>1, <2>2
<1>5. QED  BY <1>r, <1>1, <1>3, <1>4, SameStays DEF IInv
-----------------------------------------------------------------------------
(* The I/O threads. *)

\* Armed connections become reported ones, and are disarmed if it was a read.
LEMMA EpollWaitIInv ==
  ASSUME IInv, NEW t \in IO, EpollWait(t)
  PROVE  IInv'
<1>a. TypeOK /\ InUse /\ batch[t] = {} /\ ioPc[t] = "wait" /\ ioCur[t] \notin Conns
  BY DEF IInv, InUse, EpollWait
<1>b. /\ UNCHANGED <<client, mem, home, got, left, ioCur, queue, workers>>
      /\ \A u \in IO : batch'[u] = IF u = t THEN Ready(t) ELSE batch[u]
      /\ \A u \in IO : ioPc'[u] = IF u = t THEN "loop" ELSE ioPc[u]
      /\ \A d \in Conns : reg'[d] = IF <<d, "in">> \in Ready(t) THEN "off" ELSE reg[d]
  BY <1>a DEF EpollWait, TypeOK
<1>c. Ready(t) \in SUBSET ((Conns \cup {None}) \X {"in", "out"})  BY DEF Ready
<1>d. \A d \in Conns :
        /\ <<d, "in">> \in Ready(t) <=> home[d] = t /\ reg[d] = "in" /\ Readable(d)
        /\ <<d, "out">> \in Ready(t) <=> home[d] = t /\ reg[d] = "out" /\ Writable(d)
  BY HSHAAssumption DEF Ready
<1>1. TypeOK'
  <2>1. batch' \in [IO -> SUBSET ((Conns \cup {None}) \X {"in", "out"})]
    BY <1>a, <1>c DEF EpollWait, TypeOK
  <2>2. reg' \in [Conns -> {"none", "in", "off", "out"}]  BY <1>a DEF EpollWait, TypeOK
  <2>3. ioPc' \in [IO -> {"wait", "loop", "free", "push", "notify", "arm"}]
    BY <1>a DEF EpollWait, TypeOK
  <2>4. QED  BY <1>a, <1>b, <2>1, <2>2, <2>3 DEF TypeOK, client, workers
<1>2. InUse'  BY <1>a, <1>b DEF InUse, workers
<1>3. ASSUME NEW d \in Conns PROVE OnePlace(d)'
  <2>1. IoOf(d)' = IoOf(d) /\ SlotsOf(d)' = SlotsOf(d) /\ WorkOf(d)' = WorkOf(d)
    BY <1>b DEF IoOf, SlotsOf, WorkOf, workers
  <2>2. t \notin IoOf(d) /\ t \notin InOf(d) /\ t \notin OutOf(d)
    BY <1>a DEF IoOf, InOf, OutOf
  <2>3. OnePlace(d)  BY DEF IInv
  <2>4. CASE <<d, "in">> \in Ready(t)
    <3>1. home[d] = t /\ reg[d] = "in" /\ <<d, "out">> \notin Ready(t)  BY <2>4, <1>d
    <3>2. Unheld(d)  BY <3>1, <2>3 DEF OnePlace, ReportedIn, ReportedOut, AtIo, Queued, AtWorker
    <3>3. InOf(d)' = {t} /\ OutOf(d)' = {}
      BY <3>1, <3>2, <2>4, <1>b DEF Unheld, Pointers, InOf, OutOf
    <3>4. ReportedIn(d)'
      BY <3>1, <3>2, <3>3, <2>1, <2>4, <1>b DEF ReportedIn, Unheld, Pointers
    <3>5. QED  BY <3>4 DEF OnePlace
  <2>5. CASE <<d, "out">> \in Ready(t)
    <3>1. home[d] = t /\ reg[d] = "out" /\ <<d, "in">> \notin Ready(t)  BY <2>5, <1>d
    <3>2. Unheld(d)
      BY <3>1, <2>2, <2>3
      DEF OnePlace, ReportedIn, ReportedOut, AtIo, Queued, AtWorker, Pointers
    <3>3. OutOf(d)' = {t} /\ InOf(d)' = {}
      BY <3>1, <3>2, <2>5, <1>b DEF Unheld, Pointers, InOf, OutOf
    <3>4. ReportedOut(d)'
      BY <3>1, <3>2, <3>3, <2>1, <2>5, <1>b DEF ReportedOut, Unheld, Pointers
    <3>5. QED  BY <3>4 DEF OnePlace
  <2>6. CASE <<d, "in">> \notin Ready(t) /\ <<d, "out">> \notin Ready(t)
    <3>1. InOf(d)' = InOf(d) /\ OutOf(d)' = OutOf(d)
      BY <2>2, <2>6, <1>b DEF InOf, OutOf
    <3>2. \A u \in IoOf(d) : ioPc'[u] = ioPc[u]  BY <2>2, <1>b DEF IoOf
    <3>3. Same(d)
      BY <3>1, <3>2, <2>1, <2>6, <1>b DEF Same, workers
    <3>4. QED  BY <3>3, <2>3, SameStays
  <2>7. QED  BY <2>4, <2>5, <2>6
<1>r. OneRequest'  BY <1>b DEF IInv, OneRequest, client
<1>4. QED  BY <1>r, <1>1, <1>2, <1>3 DEF IInv

\* The end of a batch.
LEMMA EndOfBatchIInv ==
  ASSUME IInv, NEW t \in IO, EndOfBatch(t)
  PROVE  IInv'
<1>a. TypeOK /\ InUse /\ ioPc[t] = "loop" /\ ioCur[t] \notin Conns
  BY DEF IInv, InUse, EndOfBatch
<1>b. /\ UNCHANGED <<client, conn, batch, ioCur, queue, workers>> /\ batch[t] = {}
      /\ \A u \in IO : ioPc'[u] = IF u = t THEN "wait" ELSE ioPc[u]
  BY <1>a DEF EndOfBatch, TypeOK
<1>1. TypeOK'  BY <1>a DEF EndOfBatch, TypeOK, client, conn, workers
<1>2. InUse'  BY <1>a, <1>b DEF InUse, workers
<1>3. \A d \in Conns : Same(d)
  BY <1>a, <1>b DEF Same, IoOf, InOf, OutOf, SlotsOf, WorkOf, conn, workers
<1>r. OneRequest'  BY <1>b DEF IInv, OneRequest, client, conn
<1>4. QED  BY <1>r, <1>1, <1>2, <1>3, SameStays DEF IInv

\* Accepted connections are armed.
LEMMA AcceptIInv ==
  ASSUME IInv, NEW t \in IO, Accept(t)
  PROVE  IInv'
<1>a. TypeOK /\ InUse  BY DEF IInv
<1>b. /\ UNCHANGED <<client, home, got, left, ioPc, ioCur, queue, workers>>
      /\ batch' = [batch EXCEPT ![t] = @ \ {<<None, "in">>}]
      /\ \A d \in Conns :
           IF home[d] = t /\ mem[d] = "backlog" THEN mem'[d] = "live" /\ reg'[d] = "in"
                                                ELSE mem'[d] = mem[d] /\ reg'[d] = reg[d]
  BY <1>a DEF Accept, TypeOK
<1>1. TypeOK'
  <2>1. batch' \in [IO -> SUBSET ((Conns \cup {None}) \X {"in", "out"})]
    BY <1>a, <1>b DEF TypeOK
  <2>2. /\ reg' \in [Conns -> {"none", "in", "off", "out"}]
        /\ mem' \in [Conns -> {"new", "backlog", "live", "freed"}]
    BY <1>a DEF Accept, TypeOK
  <2>3. QED  BY <1>a, <1>b, <2>1, <2>2 DEF TypeOK, client, workers
<1>2. InUse'
  <2>1. ioPc[t] = "loop"  BY DEF Accept
  <2>2. QED  BY <1>a, <1>b, <2>1 DEF InUse, TypeOK, workers
<1>3. ASSUME NEW d \in Conns PROVE OnePlace(d)'
  <2>1. InOf(d)' = InOf(d) /\ OutOf(d)' = OutOf(d)
    <3>1. batch' = [batch EXCEPT ![t] = @ \ {<<None, "in">>}]  BY <1>b
    <3>2. TypeOK /\ d # None  BY <1>a, HSHAAssumption
    <3>3. QED  BY <3>1, <3>2, BatchUpdate
  <2>2. IoOf(d)' = IoOf(d) /\ SlotsOf(d)' = SlotsOf(d) /\ WorkOf(d)' = WorkOf(d)
    BY <1>b DEF IoOf, SlotsOf, WorkOf, workers
  <2>3. OnePlace(d)  BY DEF IInv
  <2>4. CASE home[d] = t /\ mem[d] = "backlog"
    <3>1. Unheld(d)
      BY <2>3, <2>4 DEF OnePlace, ReportedIn, ReportedOut, AtIo, Queued, AtWorker
    <3>2. Unheld(d)'  BY <3>1, <2>1, <2>2, <2>4, <1>b DEF Unheld, Pointers
    <3>3. QED  BY <3>2 DEF OnePlace
  <2>5. CASE ~(home[d] = t /\ mem[d] = "backlog")
    <3>1. Same(d)  BY <2>1, <2>2, <2>5, <1>b DEF Same, workers
    <3>2. QED  BY <3>1, <2>3, SameStays
  <2>6. QED  BY <2>4, <2>5
<1>r. OneRequest'  BY <1>b DEF IInv, OneRequest, client
<1>4. QED  BY <1>r, <1>1, <1>2, <1>3 DEF IInv

\* What taking an event does, whatever comes next.
Handled(t, c, e, next) ==
  /\ e = "in" => ReportedIn(c)
  /\ e = "out" => ReportedOut(c)
  /\ home[c] = t /\ home'[c] = t /\ ioPc'[t] = next
  /\ next = "loop" => Pointers(c, {}, {}, {}, {}, {})'
  /\ next # "loop" => Pointers(c, {t}, {}, {}, {}, {})'
  /\ InUse'
  /\ batch' \in [IO -> SUBSET ((Conns \cup {None}) \X {"in", "out"})]
  /\ ioPc' \in [IO -> {"wait", "loop", "free", "push", "notify", "arm"}]
  /\ ioCur' \in [IO -> Conns \cup {None}]
  /\ \A d \in Conns \ {c} :
       reg'[d] = reg[d] /\ mem'[d] = mem[d] /\ got'[d] = got[d] /\ left'[d] = left[d] => Same(d)

\* What taking an event does to the connection, and that it does nothing to others.
LEMMA HandleFacts ==
  ASSUME IInv, NEW t \in IO, NEW c \in Conns, NEW e \in {"in", "out"},
         NEW next \in {"loop", "free", "push", "arm"}, Handle(t, c, e, next),
         UNCHANGED <<home, queue, workers>>
  PROVE  Handled(t, c, e, next)
<1> DEFINE x == IF next = "loop" THEN None ELSE c
<1>a. TypeOK /\ InUse /\ OnePlace(c)  BY DEF IInv
<1>b. /\ batch' = [batch EXCEPT ![t] = @ \ {<<c, e>>}]
      /\ ioPc' = [ioPc EXCEPT ![t] = next] /\ ioCur' = [ioCur EXCEPT ![t] = x]
      /\ ioPc[t] = "loop" /\ <<c, e>> \in batch[t]
  BY DEF Handle
<1>x. x = (IF next = "loop" THEN None ELSE c) /\ None \notin Conns  BY HSHAAssumption
<1> HIDE DEF x
<1>c. ioCur[t] \notin Conns  BY <1>a, <1>b DEF InUse
<1>d. /\ \A u \in IO : ioPc'[u] = IF u = t THEN next ELSE ioPc[u]
      /\ \A u \in IO : ioCur'[u] = IF u = t THEN x ELSE ioCur[u]
      /\ \A u \in IO : u # t => batch'[u] = batch[u]
  BY <1>a, <1>b DEF TypeOK
<1>1. e = "in" => ReportedIn(c) /\ home[c] = t
  <2>1. e = "in" => t \in InOf(c)  BY <1>b DEF InOf
  <2>2. QED  BY <2>1, <1>a, PlaceIn
<1>2. e = "out" => ReportedOut(c) /\ home[c] = t
  <2>1. e = "out" => t \in OutOf(c)  BY <1>b DEF OutOf
  <2>2. QED  BY <2>1, <1>a, PlaceOut
<1>3. SlotsOf(c)' = {} /\ WorkOf(c)' = {} /\ InOf(c)' = {} /\ OutOf(c)' = {}
  <2>1. SlotsOf(c)' = {} /\ WorkOf(c)' = {}
    BY <1>1, <1>2 DEF ReportedIn, ReportedOut, Pointers, SlotsOf, WorkOf, workers
  <2>2. CASE e = "in"
    <3>1. InOf(c) = {t} /\ OutOf(c) = {}  BY <2>2, <1>1 DEF ReportedIn, Pointers
    <3>2. InOf(c)' = {} /\ OutOf(c)' = OutOf(c)  BY <2>2, <3>1, <1>a, <1>b, BatchUpdate
    <3>3. QED  BY <3>1, <3>2, <2>1
  <2>3. CASE e = "out"
    <3>1. OutOf(c) = {t} /\ InOf(c) = {}  BY <2>3, <1>2 DEF ReportedOut, Pointers
    <3>2. OutOf(c)' = {} /\ InOf(c)' = InOf(c)  BY <2>3, <3>1, <1>a, <1>b, BatchUpdate
    <3>3. QED  BY <3>1, <3>2, <2>1
  <2>4. QED  BY <2>1, <2>2, <2>3
<1>4. IoOf(c) = {}  BY <1>1, <1>2 DEF ReportedIn, ReportedOut, Pointers
<1>5. next = "loop" => IoOf(c)' = {}
  BY <1>4, <1>c, <1>d, <1>x DEF IoOf
<1>6. next # "loop" => IoOf(c)' = {t}
  BY <1>4, <1>a, <1>b, <1>x, IoCurUpdate
<1>7. InUse'
  BY <1>a, <1>b, <1>d, <1>x DEF InUse, workers
<1>8. /\ batch' \in [IO -> SUBSET ((Conns \cup {None}) \X {"in", "out"})]
      /\ ioPc' \in [IO -> {"wait", "loop", "free", "push", "notify", "arm"}]
      /\ ioCur' \in [IO -> Conns \cup {None}]
  BY <1>a, <1>b, <1>x DEF TypeOK
<1>9. ASSUME NEW d \in Conns \ {c}, reg'[d] = reg[d], mem'[d] = mem[d],
             got'[d] = got[d], left'[d] = left[d]
      PROVE  Same(d)
  <2>1. IoOf(d)' = IoOf(d) /\ t \notin IoOf(d)
    <3>1. d # ioCur[t] /\ d # x  BY <1>c, <1>x
    <3>2. QED  BY <3>1, <1>a, <1>b, IoCurUpdate DEF IoOf
  <2>2. InOf(d)' = InOf(d) /\ OutOf(d)' = OutOf(d)
    <3>1. TypeOK /\ batch' = [batch EXCEPT ![t] = @ \ {<<c, e>>}] /\ d # c  BY <1>a, <1>b
    <3>2. QED  BY <3>1, BatchUpdate
  <2>3. SlotsOf(d)' = SlotsOf(d) /\ WorkOf(d)' = WorkOf(d) /\ queue' = queue /\ wPc' = wPc
    BY DEF SlotsOf, WorkOf, workers
  <2>4. \A u \in IoOf(d) : ioPc'[u] = ioPc[u]  BY <2>1, <1>d DEF IoOf
  <2>5. QED  BY <2>1, <2>2, <2>3, <2>4, <1>9 DEF Same
<1>10. QED
  BY <1>1, <1>2, <1>3, <1>5, <1>6, <1>7, <1>8, <1>9, <1>d DEF Pointers, Handled

\* A connection whose read or write fails stays with the thread, to be released.
LEMMA IoFailsIInv ==
  ASSUME IInv, NEW t \in IO, NEW c \in Conns, ReadFails(t, c) \/ WriteFails(t, c)
  PROVE  IInv'
<1>a. PICK e \in {"in", "out"} : Handle(t, c, e, "free")
  BY DEF ReadFails, WriteFails
<1>b. UNCHANGED <<client, conn, queue, workers>>  BY DEF ReadFails, WriteFails
<1>c. /\ ReportedIn(c) \/ ReportedOut(c)
      /\ home[c] = t /\ Pointers(c, {t}, {}, {}, {}, {})' /\ ioPc'[t] = "free" /\ InUse'
      /\ batch' \in [IO -> SUBSET ((Conns \cup {None}) \X {"in", "out"})]
      /\ ioPc' \in [IO -> {"wait", "loop", "free", "push", "notify", "arm"}]
      /\ ioCur' \in [IO -> Conns \cup {None}]
      /\ \A d \in Conns \ {c} : Same(d)
  <2>1. Handled(t, c, e, "free") /\ UNCHANGED <<home, queue, workers>>
    BY <1>a, <1>b, HandleFacts DEF conn
  <2>2. UNCHANGED <<reg, mem, got, left>>  BY <1>b DEF conn
  <2>3. QED  BY <2>1, <2>2 DEF Handled
<1>1. TypeOK'  BY <1>b, <1>c DEF IInv, TypeOK, client, conn, workers
<1>2. OnePlace(c)'
  BY <1>b, <1>c DEF OnePlace, AtIo, ReportedIn, ReportedOut, conn
<1>r. OneRequest'  BY <1>b DEF IInv, OneRequest, client, conn
<1>3. QED  BY <1>r, <1>1, <1>2, <1>c, SameStays DEF IInv

\* A complete request stays with the thread, to be pushed; an incomplete one, to
\* be armed again.
LEMMA ReadIInv ==
  ASSUME IInv, NEW t \in IO, NEW c \in Conns, Read(t, c)
  PROVE  IInv'
<1> DEFINE next == IF got[c] + unread[c] = 2 THEN "push" ELSE "arm"
<1>a. TypeOK  BY DEF IInv
<1>b. /\ Handle(t, c, "in", next) /\ UNCHANGED <<options, peer, mem, home, reg, left, queue, workers>>
      /\ got' = [got EXCEPT ![c] = @ + unread[c]]
      /\ unread' = [unread EXCEPT ![c] = 0]
  BY DEF Read
<1>c. /\ ReportedIn(c) /\ home[c] = t /\ ioPc'[t] = next
      /\ Pointers(c, {t}, {}, {}, {}, {})' /\ InUse'
      /\ batch' \in [IO -> SUBSET ((Conns \cup {None}) \X {"in", "out"})]
      /\ ioPc' \in [IO -> {"wait", "loop", "free", "push", "notify", "arm"}]
      /\ ioCur' \in [IO -> Conns \cup {None}]
      /\ \A d \in Conns \ {c} : Same(d)
  <2>1. next \in {"push", "arm"}  OBVIOUS
  <2>2. Handled(t, c, "in", next)  BY <2>1, <1>b, HandleFacts
  <2>3. \A d \in Conns \ {c} : got'[d] = got[d]  BY <1>a, <1>b DEF TypeOK
  <2>4. QED  BY <2>1, <2>2, <2>3, <1>b DEF Handled
<1>d. got[c] + unread[c] \in 0 .. 2
  BY <1>a DEF IInv, OneRequest, TypeOK
<1>1. TypeOK'
  <2>1. got' \in [Conns -> 0 .. 2] /\ unread' \in [Conns -> 0 .. 2]
    BY <1>a, <1>b, <1>d DEF TypeOK
  <2>2. QED  BY <2>1, <1>a, <1>b, <1>c DEF TypeOK, workers
<1>2. OnePlace(c)'
  <2>1. got'[c] = got[c] + unread[c]  BY <1>a, <1>b DEF TypeOK
  <2>2. AtIo(c)'
    BY <2>1, <1>b, <1>c, <1>d DEF AtIo, ReportedIn
  <2>3. QED  BY <2>2 DEF OnePlace
<1>r. OneRequest'
  <2>1. \A d \in Conns : got'[d] + unread'[d] = got[d] + unread[d]
    BY <1>a, <1>b, <1>d DEF TypeOK
  <2>2. QED  BY <2>1 DEF IInv, OneRequest
<1>3. QED  BY <1>r, <1>1, <1>2, <1>c, SameStays DEF IInv

\* A reply that is not complete leaves the connection armed for the rest.
LEMMA WriteIInv ==
  ASSUME IInv, NEW t \in IO, NEW c \in Conns, Write(t, c)
  PROVE  IInv'
<1>a. TypeOK  BY DEF IInv
<1>b. PICK n \in CanSend(c) :
        /\ Handle(t, c, "out", IF n = left[c] THEN "arm" ELSE "loop")
        /\ Sent(c, n)
        /\ UNCHANGED <<client, mem, home, reg, queue, workers>>
  BY DEF Write
<1>c. /\ n \in 1 .. left[c] /\ left[c] \in 0 .. 2 /\ n \in Nat
      /\ left' = [left EXCEPT ![c] = @ - n]
      /\ got' = [got EXCEPT ![c] = IF n = left[c] THEN 0 ELSE @]
  BY <1>a, <1>b DEF CanSend, Sent, TypeOK
<1>d. /\ ReportedOut(c) /\ home[c] = t /\ InUse'
      /\ n = left[c] => ioPc'[t] = "arm" /\ Pointers(c, {t}, {}, {}, {}, {})'
      /\ n # left[c] => Pointers(c, {}, {}, {}, {}, {})'
      /\ batch' \in [IO -> SUBSET ((Conns \cup {None}) \X {"in", "out"})]
      /\ ioPc' \in [IO -> {"wait", "loop", "free", "push", "notify", "arm"}]
      /\ ioCur' \in [IO -> Conns \cup {None}]
      /\ \A d \in Conns \ {c} : Same(d)
  <2> DEFINE next == IF n = left[c] THEN "arm" ELSE "loop"
  <2>1. Handled(t, c, "out", next)  BY <1>b, HandleFacts DEF client
  <2>2. \A d \in Conns \ {c} : got'[d] = got[d] /\ left'[d] = left[d]
    BY <1>a, <1>c DEF TypeOK
  <2>3. n = left[c] <=> next = "arm"  OBVIOUS
  <2>4. QED  BY <2>1, <2>2, <2>3, <1>b DEF Handled
<1>e. left'[c] = left[c] - n /\ got'[c] = (IF n = left[c] THEN 0 ELSE got[c])
  BY <1>a, <1>c DEF TypeOK
<1>1. TypeOK'
  <2>1. got' \in [Conns -> 0 .. 2] /\ left' \in [Conns -> 0 .. 2]
    BY <1>a, <1>c DEF TypeOK
  <2>2. QED  BY <2>1, <1>a, <1>b, <1>d DEF TypeOK, client, workers
<1>2. OnePlace(c)'
  <2>1. CASE n = left[c]
    <3>1. AtIo(c)'  BY <2>1, <1>b, <1>c, <1>d, <1>e DEF AtIo, ReportedOut
    <3>2. QED  BY <3>1 DEF OnePlace
  <2>2. CASE n # left[c]
    <3>1. Unheld(c)'  BY <2>2, <1>b, <1>c, <1>d, <1>e DEF Unheld, ReportedOut
    <3>2. QED  BY <3>1 DEF OnePlace
  <2>3. QED  BY <2>1, <2>2
<1>r. OneRequest'
  <2>1. \A d \in Conns : got'[d] \in 0 .. 2 /\ got'[d] <= got[d] /\ unread'[d] = unread[d]
    BY <1>a, <1>b, <1>c DEF TypeOK, client
  <2>2. QED  BY <2>1, <1>a DEF IInv, OneRequest, TypeOK
<1>3. QED  BY <1>r, <1>1, <1>2, <1>d, SameStays DEF IInv

\* What the thread leaving its connection does, whatever it did to it.
Left(t, c) ==
  /\ c \in Conns /\ AtIo(c) /\ home[c] = t
  /\ IoOf(c)' = {} /\ InOf(c)' = {} /\ OutOf(c)' = {} /\ WorkOf(c)' = {}
  /\ InUse'
  /\ ioPc' \in [IO -> {"wait", "loop", "free", "push", "notify", "arm"}]
  /\ ioCur' \in [IO -> Conns \cup {None}]
  /\ \A d \in Conns \ {c} :
       /\ reg'[d] = reg[d] /\ mem'[d] = mem[d] /\ got'[d] = got[d] /\ left'[d] = left[d]
       /\ SlotsOf(d)' = SlotsOf(d) /\ DOMAIN queue \subseteq DOMAIN queue'
       => Same(d)

\* What letting a connection go does to it, and that it does nothing to others.
LEMMA LeaveFacts ==
  ASSUME IInv, NEW t \in IO, NEW c \in Conns, ioCur[t] = c,
         NEW next \in {"loop", "notify"}, Leave(t, next),
         UNCHANGED <<home, batch, workers>>
  PROVE  Left(t, c)
<1>a. TypeOK /\ InUse /\ OnePlace(c) /\ None \notin Conns
  BY HSHAAssumption DEF IInv
<1>b. AtIo(c) /\ home[c] = t
  <2>1. t \in IoOf(c)  BY DEF IoOf
  <2>2. QED  BY <2>1, <1>a, PlaceIo
<1>c. ioCur' = [ioCur EXCEPT ![t] = None] /\ ioPc' = [ioPc EXCEPT ![t] = next]
  BY DEF Leave
<1>d. /\ \A u \in IO : ioPc'[u] = IF u = t THEN next ELSE ioPc[u]
      /\ \A u \in IO : ioCur'[u] = IF u = t THEN None ELSE ioCur[u]
  BY <1>a, <1>c DEF TypeOK
<1>1. IoOf(c)' = {}
  <2>1. IoOf(c) = {t}  BY <1>b DEF AtIo, Pointers
  <2>2. \A u \in IO : ioCur[u] = c <=> u = t  BY <2>1 DEF IoOf
  <2>3. \A u \in IO : ioCur'[u] # c  BY <2>2, <1>a, <1>d
  <2>4. QED  BY <2>3 DEF IoOf
<1>2. InOf(c)' = {} /\ OutOf(c)' = {} /\ WorkOf(c)' = {}
  BY <1>b DEF AtIo, Pointers, InOf, OutOf, WorkOf, workers
<1>3. InUse'
  <2>1. ioPc[t] # "wait"  BY <1>a DEF InUse
  <2>2. QED  BY <2>1, <1>a, <1>d DEF InUse, workers
<1>4. /\ ioPc' \in [IO -> {"wait", "loop", "free", "push", "notify", "arm"}]
      /\ ioCur' \in [IO -> Conns \cup {None}]
  BY <1>a, <1>c DEF TypeOK
<1>5. ASSUME NEW d \in Conns \ {c},
             reg'[d] = reg[d], mem'[d] = mem[d], got'[d] = got[d], left'[d] = left[d],
             SlotsOf(d)' = SlotsOf(d), DOMAIN queue \subseteq DOMAIN queue'
      PROVE  Same(d)
  <2>1. IoOf(d)' = IoOf(d) /\ t \notin IoOf(d)
    BY <1>a, <1>c, IoCurUpdate DEF IoOf
  <2>2. InOf(d)' = InOf(d) /\ OutOf(d)' = OutOf(d) /\ WorkOf(d)' = WorkOf(d) /\ wPc' = wPc
    BY DEF InOf, OutOf, WorkOf, workers
  <2>3. \A u \in IoOf(d) : ioPc'[u] = ioPc[u]  BY <2>1, <1>d DEF IoOf
  <2>4. QED  BY <2>1, <2>2, <2>3, <1>5 DEF Same
<1>6. QED  BY <1>1, <1>2, <1>3, <1>4, <1>5, <1>b DEF Left

\* The last pointer is gone when the Conn is deleted.
LEMMA ReleaseConnIInv ==
  ASSUME IInv, NEW t \in IO, ReleaseConn(t)
  PROVE  IInv'
<1>a. TypeOK  BY DEF IInv
<1>b. PICK c \in Conns : ioCur[t] = c  BY DEF IInv, InUse, ReleaseConn
<1>c. /\ UNCHANGED <<client, home, got, left, batch, queue, workers>>
      /\ Leave(t, "loop")
      /\ reg' = [reg EXCEPT ![c] = "none"] /\ mem' = [mem EXCEPT ![c] = "freed"]
  BY <1>b DEF ReleaseConn, Release
<1>d. Left(t, c)  BY <1>b, <1>c, LeaveFacts
<1>1. TypeOK'
  <2>1. /\ reg' \in [Conns -> {"none", "in", "off", "out"}]
        /\ mem' \in [Conns -> {"new", "backlog", "live", "freed"}]
    BY <1>a, <1>c DEF TypeOK
  <2>2. QED  BY <2>1, <1>a, <1>c, <1>d DEF TypeOK, Left, client, workers
<1>2. OneRequest'  BY <1>c DEF IInv, OneRequest, client
<1>3. OnePlace(c)'
  <2>1. reg'[c] = "none" /\ mem'[c] = "freed"  BY <1>a, <1>c DEF TypeOK
  <2>2. SlotsOf(c)' = {}  BY <1>c, <1>d DEF Left, AtIo, Pointers, SlotsOf
  <2>3. QED  BY <2>1, <2>2, <1>d DEF OnePlace, Unheld, Pointers, Left
<1>4. ASSUME NEW d \in Conns \ {c} PROVE Same(d)
  <2>1. reg'[d] = reg[d] /\ mem'[d] = mem[d]  BY <1>a, <1>c DEF TypeOK
  <2>2. SlotsOf(d)' = SlotsOf(d)  BY <1>c DEF SlotsOf
  <2>3. QED  BY <2>1, <2>2, <1>c, <1>d DEF Left
<1>5. QED  BY <1>1, <1>2, <1>3, <1>4, <1>d, SameStays DEF IInv, Left

\* From an I/O thread to the queue.
LEMMA PushInQueueIInv ==
  ASSUME IInv, NEW t \in IO, PushInQueue(t)
  PROVE  IInv'
<1>a. TypeOK  BY DEF IInv
<1>b. PICK c \in Conns : ioCur[t] = c  BY DEF IInv, InUse, PushInQueue
<1>c. /\ UNCHANGED <<client, conn, batch, workers>> /\ UNCHANGED home
      /\ Leave(t, "notify") /\ queue' = Append(queue, c) /\ ioPc[t] = "push"
  BY <1>b DEF PushInQueue, conn
<1>d. Left(t, c)  BY <1>b, <1>c, LeaveFacts
<1>1. TypeOK'
  <2>1. queue' \in Seq(Conns)  BY <1>a, <1>c, QueueFacts DEF TypeOK
  <2>2. QED  BY <2>1, <1>a, <1>c, <1>d DEF TypeOK, Left, client, conn, workers
<1>2. OneRequest'  BY <1>c DEF IInv, OneRequest, client, conn
<1>3. OnePlace(c)'
  <2>1. SlotsOf(c) = {}  BY <1>d DEF Left, AtIo, Pointers
  <2>2. PICK j \in DOMAIN queue' : SlotsOf(c)' = {j}  BY <2>1, <1>a, <1>c, PushUpdate
  <2>3. reg[c] = "off" /\ mem[c] = "live" /\ got[c] = 2 /\ left[c] = 0
    BY <1>c, <1>d DEF Left, AtIo
  <2>4. Queued(c)'  BY <2>2, <2>3, <1>c, <1>d DEF Queued, Pointers, Left, conn
  <2>5. QED  BY <2>4 DEF OnePlace
<1>4. ASSUME NEW d \in Conns \ {c} PROVE Same(d)
  <2>1. SlotsOf(d)' = SlotsOf(d) /\ DOMAIN queue \subseteq DOMAIN queue'
    BY <1>a, <1>c, PushUpdate
  <2>2. QED  BY <2>1, <1>c, <1>d DEF Left, conn
<1>5. QED  BY <1>1, <1>2, <1>3, <1>4, <1>d, SameStays DEF IInv, Left

\* From an I/O thread back to epoll.
LEMMA ReStartReadIInv ==
  ASSUME IInv, NEW t \in IO, ReStartRead(t)
  PROVE  IInv'
<1>a. TypeOK  BY DEF IInv
<1>b. PICK c \in Conns : ioCur[t] = c  BY DEF IInv, InUse, ReStartRead
<1>c. /\ UNCHANGED <<client, mem, home, got, left, batch, queue, workers>>
      /\ Leave(t, "loop") /\ ioPc[t] = "arm"
      /\ reg' = [reg EXCEPT ![c] = "in"]
  BY <1>b DEF ReStartRead
<1>d. Left(t, c)  BY <1>b, <1>c, LeaveFacts
<1>1. TypeOK'
  <2>1. reg' \in [Conns -> {"none", "in", "off", "out"}]  BY <1>a, <1>c DEF TypeOK
  <2>2. QED  BY <2>1, <1>a, <1>c, <1>d DEF TypeOK, Left, client, workers
<1>2. OneRequest'  BY <1>c DEF IInv, OneRequest, client
<1>3. OnePlace(c)'
  <2>1. reg'[c] = "in"  BY <1>a, <1>c DEF TypeOK
  <2>2. SlotsOf(c)' = {}  BY <1>c, <1>d DEF Left, AtIo, Pointers, SlotsOf
  <2>3. mem[c] = "live" /\ got[c] < 2 /\ left[c] = 0  BY <1>c, <1>d DEF Left, AtIo
  <2>4. QED  BY <2>1, <2>2, <2>3, <1>c, <1>d DEF OnePlace, Unheld, Pointers, Left
<1>4. ASSUME NEW d \in Conns \ {c} PROVE Same(d)
  <2>1. reg'[d] = reg[d]  BY <1>a, <1>c DEF TypeOK
  <2>2. SlotsOf(d)' = SlotsOf(d)  BY <1>c DEF SlotsOf
  <2>3. QED  BY <2>1, <2>2, <1>c, <1>d DEF Left
<1>5. QED  BY <1>1, <1>2, <1>3, <1>4, <1>d, SameStays DEF IInv, Left

\* A notification moves no connection.
LEMMA NotifyOneIInv ==
  ASSUME IInv, NEW t \in IO, NotifyOne(t)
  PROVE  IInv'
<1>a. TypeOK /\ InUse /\ None \notin Conns  BY HSHAAssumption DEF IInv
<1>b. /\ UNCHANGED <<client, conn, batch, queue, wCur>> /\ ioPc[t] = "notify"
      /\ ioCur[t] \notin Conns
  BY <1>a DEF NotifyOne, InUse
<1>c. /\ \A u \in IO : ioPc'[u] = IF u = t THEN "loop" ELSE ioPc[u]
      /\ \A u \in IO : ioCur'[u] = IF u = t THEN None ELSE ioCur[u]
      /\ ioPc' \in [IO -> {"wait", "loop", "free", "push", "notify", "arm"}]
      /\ ioCur' \in [IO -> Conns \cup {None}]
  BY <1>a DEF NotifyOne, Leave, TypeOK
<1>d. /\ wPc' \in [Workers -> {"get", "asleep", "encode", "mod", "send", "free", "arm"}]
      /\ \A w \in Workers : wPc'[w] = wPc[w] \/ (wPc[w] = "asleep" /\ wPc'[w] = "get")
  <2>1. CASE UNCHANGED wPc  BY <2>1, <1>a DEF TypeOK
  <2>2. CASE \E w \in Workers : wPc[w] = "asleep" /\ wPc' = [wPc EXCEPT ![w] = "get"]
    BY <2>2, <1>a DEF TypeOK
  <2>3. QED  BY <2>1, <2>2 DEF NotifyOne
<1>1. TypeOK'  BY <1>a, <1>b, <1>c, <1>d DEF TypeOK, client, conn
<1>2. InUse'  BY <1>a, <1>b, <1>c, <1>d DEF InUse
<1>3. OneRequest'  BY <1>b DEF IInv, OneRequest, client, conn
<1>4. ASSUME NEW d \in Conns PROVE Same(d)
  <2>1. IoOf(d)' = IoOf(d) /\ t \notin IoOf(d)  BY <1>a, <1>b, <1>c DEF IoOf
  <2>2. /\ InOf(d)' = InOf(d) /\ OutOf(d)' = OutOf(d)
        /\ SlotsOf(d)' = SlotsOf(d) /\ WorkOf(d)' = WorkOf(d)
    BY <1>b DEF InOf, OutOf, SlotsOf, WorkOf
  <2>3. \A u \in IoOf(d) : ioPc'[u] = ioPc[u]  BY <2>1, <1>c DEF IoOf
  <2>4. \A w \in WorkOf(d) : wPc'[w] = wPc[w]  BY <1>a, <1>d DEF WorkOf, InUse
  <2>5. QED  BY <2>1, <2>2, <2>3, <2>4, <1>b DEF Same, conn
<1>5. QED  BY <1>1, <1>2, <1>3, <1>4, SameStays DEF IInv
-----------------------------------------------------------------------------
(* The workers. *)

\* What a worker's step does to the places: it keeps its connection, or lets go.
Worked(w, c, keeps) ==
  /\ AtWorker(c) /\ WorkOf(c) = {w}
  /\ Pointers(c, {}, {}, {}, {}, IF keeps THEN {w} ELSE {})'
  /\ InUse'
  /\ wPc' \in [Workers -> {"get", "asleep", "encode", "mod", "send", "free", "arm"}]
  /\ wCur' \in [Workers -> Conns \cup {None}]
  /\ \A d \in Conns \ {c} :
       reg'[d] = reg[d] /\ mem'[d] = mem[d] /\ got'[d] = got[d] /\ left'[d] = left[d] => Same(d)

\* What a step of a worker does to its connection, and nothing to others.
LEMMA WorkFacts ==
  ASSUME IInv, NEW w \in Workers, NEW c \in Conns, wCur[w] = c,
         NEW next \in {"mod", "send", "free", "arm", "get"}, Go(w, next),
         NEW keeps \in BOOLEAN, keeps <=> next # "get",
         wCur' = IF keeps THEN wCur ELSE [wCur EXCEPT ![w] = None],
         UNCHANGED <<home, io, queue>>
  PROVE  Worked(w, c, keeps)
<1>a. TypeOK /\ InUse /\ OnePlace(c) /\ None \notin Conns
  BY HSHAAssumption DEF IInv
<1>b. AtWorker(c) /\ WorkOf(c) = {w}
  <2>1. w \in WorkOf(c)  BY DEF WorkOf
  <2>2. QED  BY <2>1, <1>a, PlaceWork
<1>c. Pointers(c, {}, {}, {}, {}, {w})
  BY <1>b DEF AtWorker, Pointers
<1>d. \A v \in Workers : wPc'[v] = IF v = w THEN next ELSE wPc[v]
  BY <1>a DEF Go, TypeOK
<1>e. \A v \in Workers : wCur'[v] = IF v = w /\ ~keeps THEN None ELSE wCur[v]
  BY <1>a DEF TypeOK
<1>1. WorkOf(c)' = IF keeps THEN {w} ELSE {}
  <2>1. \A v \in Workers : wCur[v] = c <=> v = w  BY <1>b DEF WorkOf
  <2>2. \A v \in Workers : wCur'[v] = c <=> v = w /\ keeps  BY <2>1, <1>a, <1>e
  <2>3. QED  BY <2>2 DEF WorkOf
<1>2. Pointers(c, {}, {}, {}, {}, IF keeps THEN {w} ELSE {})'
  BY <1>1, <1>c DEF Pointers, IoOf, InOf, OutOf, SlotsOf, io
<1>3. InUse'  BY <1>a, <1>d, <1>e DEF InUse, io
<1>4. /\ wPc' \in [Workers -> {"get", "asleep", "encode", "mod", "send", "free", "arm"}]
      /\ wCur' \in [Workers -> Conns \cup {None}]
  BY <1>a DEF Go, TypeOK
<1>5. ASSUME NEW d \in Conns \ {c},
             reg'[d] = reg[d], mem'[d] = mem[d], got'[d] = got[d], left'[d] = left[d]
      PROVE  Same(d)
  <2>1. WorkOf(d)' = WorkOf(d) /\ w \notin WorkOf(d)  BY <1>a, <1>e DEF WorkOf
  <2>2. /\ IoOf(d)' = IoOf(d) /\ InOf(d)' = InOf(d) /\ OutOf(d)' = OutOf(d)
        /\ SlotsOf(d)' = SlotsOf(d) /\ queue' = queue /\ ioPc' = ioPc
    BY DEF IoOf, InOf, OutOf, SlotsOf, io
  <2>3. \A v \in WorkOf(d) : wPc'[v] = wPc[v]  BY <2>1, <1>d DEF WorkOf
  <2>4. QED  BY <2>1, <2>2, <2>3, <1>5 DEF Same
<1>6. QED  BY <1>2, <1>3, <1>4, <1>5, <1>b DEF Worked

\* A worker that has no connection, and stays without.
LEMMA IdleWorkerIInv ==
  ASSUME IInv, NEW w \in Workers, CondWait(w) \/ SpuriousWakeup(w)
  PROVE  IInv'
<1>a. TypeOK /\ InUse  BY DEF IInv
<1>b. /\ UNCHANGED <<client, conn, io, queue, wCur>>
      /\ wPc[w] \in {"get", "asleep"} /\ wCur[w] \notin Conns
  BY <1>a DEF CondWait, SpuriousWakeup, InUse
<1>c. PICK next \in {"get", "asleep"} : wPc' = [wPc EXCEPT ![w] = next]
  BY DEF CondWait, SpuriousWakeup, Go
<1>1. TypeOK'  BY <1>a, <1>b, <1>c DEF TypeOK, client, conn, io
<1>2. InUse'  BY <1>a, <1>b, <1>c DEF InUse, TypeOK, io
<1>3. OneRequest'  BY <1>b DEF IInv, OneRequest, client, conn
<1>4. ASSUME NEW d \in Conns PROVE Same(d)
  <2>1. \A v \in WorkOf(d) : wPc'[v] = wPc[v]  BY <1>a, <1>b, <1>c DEF WorkOf, TypeOK
  <2>2. QED  BY <2>1, <1>b DEF Same, IoOf, InOf, OutOf, SlotsOf, WorkOf, conn, io
<1>5. QED  BY <1>1, <1>2, <1>3, <1>4, SameStays DEF IInv

\* From the queue to a worker.
LEMMA GetQueueDataIInv ==
  ASSUME IInv, NEW w \in Workers, GetQueueData(w)
  PROVE  IInv'
<1>a. TypeOK /\ InUse /\ None \notin Conns  BY HSHAAssumption DEF IInv
<1>b. /\ UNCHANGED <<client, conn, io>> /\ queue # <<>> /\ queue' = Tail(queue)
      /\ wPc[w] = "get" /\ wCur[w] \notin Conns
  BY <1>a DEF GetQueueData, InUse
<1>c. PICK c \in Conns : c = Head(queue)
  <2>1. Head(queue) \in Conns  BY <1>a, <1>b, QueueFacts DEF TypeOK
  <2>2. QED  BY <2>1
<1>d. /\ wCur' = [wCur EXCEPT ![w] = c]
      /\ \A v \in Workers : wPc'[v] = IF v = w THEN "encode" ELSE wPc[v]
      /\ \A v \in Workers : wCur'[v] = IF v = w THEN c ELSE wCur[v]
  BY <1>a, <1>c DEF GetQueueData, Go, TypeOK
<1>e. Queued(c) /\ SlotsOf(c) = {1}
  <2>1. 1 \in SlotsOf(c)  BY <1>a, <1>b, <1>c, PopUpdate
  <2>2. QED  BY <2>1, PlaceQueue DEF IInv
<1>1. TypeOK'
  <2>1. queue' \in Seq(Conns)  BY <1>a, <1>b, QueueFacts DEF TypeOK
  <2>2. /\ wPc' \in [Workers -> {"get", "asleep", "encode", "mod", "send", "free", "arm"}]
        /\ wCur' \in [Workers -> Conns \cup {None}]
    BY <1>a, <1>d DEF GetQueueData, Go, TypeOK
  <2>3. QED  BY <2>1, <2>2, <1>a, <1>b DEF TypeOK, client, conn, io
<1>2. InUse'  BY <1>a, <1>b, <1>d DEF InUse, io
<1>3. OneRequest'  BY <1>b DEF IInv, OneRequest, client, conn
<1>4. OnePlace(c)'
  <2>1. SlotsOf(c)' = {}  BY <1>a, <1>b, <1>e, PopUpdate
  <2>2. WorkOf(c)' = {w}
    <3>1. WorkOf(c) = {}  BY <1>e DEF Queued, Pointers
    <3>2. QED  BY <3>1, <1>a, <1>d, WCurUpdate
  <2>3. IoOf(c)' = {} /\ InOf(c)' = {} /\ OutOf(c)' = {}
    BY <1>b, <1>e DEF Queued, Pointers, IoOf, InOf, OutOf, io
  <2>4. wPc'[w] = "encode"  BY <1>d
  <2>5. reg'[c] = "off" /\ mem'[c] = "live" /\ got'[c] = 2 /\ left'[c] = 0
    BY <1>b, <1>e DEF Queued, conn
  <2>6. AtWorker(c)'  BY <2>1, <2>2, <2>3, <2>4, <2>5 DEF AtWorker, Pointers
  <2>7. QED  BY <2>6 DEF OnePlace
<1>5. ASSUME NEW d \in Conns \ {c} PROVE Same(d)
  <2>1. WorkOf(d)' = WorkOf(d) /\ w \notin WorkOf(d)
    BY <1>a, <1>b, <1>d DEF WorkOf
  <2>2. 1 \notin SlotsOf(d)
    <3>1. 1 \in SlotsOf(c)  BY <1>e
    <3>2. QED  BY <3>1 DEF SlotsOf
  <2>3. /\ SlotsOf(d) = {} => SlotsOf(d)' = {}
        /\ \A i \in DOMAIN queue :
             SlotsOf(d) = {i} => \E j \in DOMAIN queue' : SlotsOf(d)' = {j}
    BY <2>2, <1>a, <1>b, PopUpdate
  <2>4. \A v \in WorkOf(d) : wPc'[v] = wPc[v]  BY <2>1, <1>d DEF WorkOf
  <2>5. QED  BY <2>1, <2>3, <2>4, <1>b DEF Same, IoOf, InOf, OutOf, conn, io
<1>6. QED  BY <1>1, <1>2, <1>3, <1>4, <1>5, SameStays DEF IInv

\* The reply is prepared.
LEMMA EnCodeIInv ==
  ASSUME IInv, NEW w \in Workers, EnCode(w)
  PROVE  IInv'
<1>a. TypeOK  BY DEF IInv
<1>b. PICK c \in Conns : wCur[w] = c  BY DEF IInv, InUse, EnCode
<1>c. PICK next \in {"mod", "send"} : Go(w, next)  BY DEF EnCode
<1>d. /\ UNCHANGED <<client, mem, home, reg, got, io, queue, wCur>> /\ wPc[w] = "encode"
      /\ left' = [left EXCEPT ![c] = 2]
  BY <1>b DEF EnCode
<1>e. Worked(w, c, TRUE)  BY <1>b, <1>c, <1>d, WorkFacts
<1>1. TypeOK'
  <2>1. left' \in [Conns -> 0 .. 2]  BY <1>a, <1>d DEF TypeOK
  <2>2. QED  BY <2>1, <1>a, <1>d, <1>e DEF TypeOK, Worked, client, io
<1>2. OneRequest'  BY <1>d DEF IInv, OneRequest, client
<1>3. OnePlace(c)'
  <2>1. left'[c] = 2 /\ wPc'[w] = next  BY <1>a, <1>c, <1>d DEF TypeOK, Go
  <2>2. got[c] = 2  BY <1>d, <1>e DEF Worked, AtWorker, Pointers
  <2>3. AtWorker(c)'  BY <2>1, <2>2, <1>d, <1>e, SMTT(30) DEF AtWorker, Worked
  <2>4. QED  BY <2>3 DEF OnePlace
<1>4. ASSUME NEW d \in Conns \ {c} PROVE Same(d)
  BY <1>a, <1>d, <1>e DEF Worked, TypeOK
<1>5. QED  BY <1>1, <1>2, <1>3, <1>4, <1>e, SameStays DEF IInv, Worked

\* From a worker back to epoll, for the reply.
LEMMA ModToWriteIInv ==
  ASSUME IInv, NEW w \in Workers, ModToWrite(w)
  PROVE  IInv'
<1>a. TypeOK  BY DEF IInv
<1>b. PICK c \in Conns : wCur[w] = c  BY DEF IInv, InUse, ModToWrite
<1>c. /\ UNCHANGED <<client, mem, home, got, left, io, queue>> /\ wPc[w] = "mod"
      /\ reg' = [reg EXCEPT ![c] = "out"] /\ Go(w, "get") /\ wCur' = [wCur EXCEPT ![w] = None]
  BY <1>b DEF ModToWrite, Done
<1>e. Worked(w, c, FALSE)  BY <1>b, <1>c, WorkFacts
<1>1. TypeOK'
  <2>1. reg' \in [Conns -> {"none", "in", "off", "out"}]  BY <1>a, <1>c DEF TypeOK
  <2>2. QED  BY <2>1, <1>a, <1>c, <1>e DEF TypeOK, Worked, client, io
<1>2. OneRequest'  BY <1>c DEF IInv, OneRequest, client
<1>3. OnePlace(c)'
  <2>1. reg'[c] = "out"  BY <1>a, <1>c DEF TypeOK
  <2>2. got[c] = 2 /\ left[c] > 0 /\ mem[c] = "live"
    BY <1>c, <1>e DEF Worked, AtWorker, Pointers
  <2>3. Unheld(c)'  BY <2>1, <2>2, <1>c, <1>e DEF Unheld, Worked
  <2>4. QED  BY <2>3 DEF OnePlace
<1>4. ASSUME NEW d \in Conns \ {c} PROVE Same(d)
  BY <1>a, <1>c, <1>e DEF Worked, TypeOK
<1>5. QED  BY <1>1, <1>2, <1>3, <1>4, <1>e, SameStays DEF IInv, Worked

\* The worker sends.
LEMMA WriteDirectIInv ==
  ASSUME IInv, NEW w \in Workers, WriteDirect(w)
  PROVE  IInv'
<1>a. TypeOK  BY DEF IInv
<1>b. PICK c \in Conns : wCur[w] = c  BY DEF IInv, InUse, WriteDirect
<1>c. PICK n \in CanSend(c) :
        Go(w, IF n = left[c] THEN "arm" ELSE "send") /\ Sent(c, n)
  BY <1>b DEF WriteDirect
<1>d. /\ UNCHANGED <<client, mem, home, reg, io, queue, wCur>> /\ wPc[w] = "send"
      /\ left' = [left EXCEPT ![c] = @ - n]
      /\ got' = [got EXCEPT ![c] = IF n = left[c] THEN 0 ELSE @]
      /\ n \in 1 .. left[c] /\ left[c] \in 0 .. 2 /\ n \in Nat
  <2>1. UNCHANGED <<client, mem, home, reg, io, queue, wCur>> /\ wPc[w] = "send"
    BY DEF WriteDirect
  <2>2. /\ left' = [left EXCEPT ![c] = @ - n]
        /\ got' = [got EXCEPT ![c] = IF n = left[c] THEN 0 ELSE @]
    BY <1>c DEF Sent
  <2>3. left[c] \in 0 .. 2  BY <1>a DEF TypeOK
  <2>4. n \in 1 .. left[c]  BY <1>c DEF CanSend
  <2>5. QED  BY <2>1, <2>2, <2>3, <2>4
<1>e. Worked(w, c, TRUE)
  <2>1. CASE n = left[c]  BY <2>1, <1>b, <1>c, <1>d, WorkFacts
  <2>2. CASE n # left[c]  BY <2>2, <1>b, <1>c, <1>d, WorkFacts
  <2>3. QED  BY <2>1, <2>2
<1>f. /\ left'[c] = left[c] - n /\ got'[c] = (IF n = left[c] THEN 0 ELSE got[c])
      /\ wPc'[w] = IF n = left[c] THEN "arm" ELSE "send"
  BY <1>a, <1>c, <1>d DEF TypeOK, Go
<1>1. TypeOK'
  <2>1. left' \in [Conns -> 0 .. 2] /\ got' \in [Conns -> 0 .. 2]
    BY <1>a, <1>d DEF TypeOK
  <2>2. QED  BY <2>1, <1>a, <1>d, <1>e DEF TypeOK, Worked, client, io
<1>2. OneRequest'
  <2>1. \A d \in Conns : got'[d] \in 0 .. 2 /\ got'[d] <= got[d] /\ unread'[d] = unread[d]
    BY <1>a, <1>d DEF TypeOK, client
  <2>2. QED  BY <2>1, <1>a DEF IInv, OneRequest, TypeOK
<1>3. OnePlace(c)'
  <2>1. got[c] = 2 /\ mem[c] = "live" /\ reg[c] = "off"
    BY <1>d, <1>e DEF Worked, AtWorker, Pointers
  <2>2. Pointers(c, {}, {}, {}, {}, {w})'  BY <1>e DEF Worked
  <2>3. reg'[c] = "off" /\ mem'[c] = "live"  BY <2>1, <1>d
  <2>4. \/ wPc'[w] \in {"mod", "send"} /\ got'[c] = 2 /\ left'[c] > 0
        \/ wPc'[w] = "arm" /\ got'[c] < 2 /\ left'[c] = 0
    <3>1. CASE n = left[c]  BY <3>1, <1>d, <1>f
    <3>2. CASE n # left[c]  BY <3>2, <2>1, <1>d, <1>f
    <3>3. QED  BY <3>1, <3>2
  <2>5. AtWorker(c)'  BY <2>2, <2>3, <2>4 DEF AtWorker
  <2>6. QED  BY <2>5 DEF OnePlace
<1>4. ASSUME NEW d \in Conns \ {c} PROVE Same(d)
  BY <1>a, <1>d, <1>e DEF Worked, TypeOK
<1>5. QED  BY <1>1, <1>2, <1>3, <1>4, <1>e, SameStays DEF IInv, Worked

\* The worker cannot send.
LEMMA WriteDirectFailsIInv ==
  ASSUME IInv, NEW w \in Workers, WriteDirectFails(w)
  PROVE  IInv'
<1>a. TypeOK  BY DEF IInv
<1>b. PICK c \in Conns : wCur[w] = c  BY DEF IInv, InUse, WriteDirectFails
<1>c. UNCHANGED <<client, conn, io, queue, wCur>> /\ UNCHANGED home /\ Go(w, "free")
  BY DEF WriteDirectFails, conn
<1>e. Worked(w, c, TRUE)  BY <1>b, <1>c, WorkFacts
<1>1. TypeOK'  BY <1>a, <1>c, <1>e DEF TypeOK, Worked, client, conn, io
<1>2. OneRequest'  BY <1>c DEF IInv, OneRequest, client, conn
<1>3. OnePlace(c)'
  <2>1. wPc'[w] = "free"  BY <1>a, <1>c DEF TypeOK, Go
  <2>2. AtWorker(c)'  BY <2>1, <1>c, <1>e DEF AtWorker, Worked, conn
  <2>3. QED  BY <2>2 DEF OnePlace
<1>4. ASSUME NEW d \in Conns \ {c} PROVE Same(d)
  BY <1>c, <1>e DEF Worked, conn
<1>5. QED  BY <1>1, <1>2, <1>3, <1>4, <1>e, SameStays DEF IInv, Worked

\* The last pointer is gone when the worker deletes the Conn.
LEMMA ReleaseDirectIInv ==
  ASSUME IInv, NEW w \in Workers, ReleaseDirect(w)
  PROVE  IInv'
<1>a. TypeOK  BY DEF IInv
<1>b. PICK c \in Conns : wCur[w] = c  BY DEF IInv, InUse, ReleaseDirect
<1>c. /\ UNCHANGED <<client, home, got, left, io, queue>>
      /\ reg' = [reg EXCEPT ![c] = "none"] /\ mem' = [mem EXCEPT ![c] = "freed"]
      /\ Go(w, "get") /\ wCur' = [wCur EXCEPT ![w] = None]
  BY <1>b DEF ReleaseDirect, Release, Done
<1>e. Worked(w, c, FALSE)  BY <1>b, <1>c, WorkFacts
<1>1. TypeOK'
  <2>1. /\ reg' \in [Conns -> {"none", "in", "off", "out"}]
        /\ mem' \in [Conns -> {"new", "backlog", "live", "freed"}]
    BY <1>a, <1>c DEF TypeOK
  <2>2. QED  BY <2>1, <1>a, <1>c, <1>e DEF TypeOK, Worked, client, io
<1>2. OneRequest'  BY <1>c DEF IInv, OneRequest, client
<1>3. OnePlace(c)'
  <2>1. reg'[c] = "none" /\ mem'[c] = "freed"  BY <1>a, <1>c DEF TypeOK
  <2>2. Unheld(c)'  BY <2>1, <1>e DEF Unheld, Worked
  <2>3. QED  BY <2>2 DEF OnePlace
<1>4. ASSUME NEW d \in Conns \ {c} PROVE Same(d)
  BY <1>a, <1>c, <1>e DEF Worked, TypeOK
<1>5. QED  BY <1>1, <1>2, <1>3, <1>4, <1>e, SameStays DEF IInv, Worked

\* From a worker back to epoll, for the next request.
LEMMA ReStartReadDirectIInv ==
  ASSUME IInv, NEW w \in Workers, ReStartReadDirect(w)
  PROVE  IInv'
<1>a. TypeOK  BY DEF IInv
<1>b. PICK c \in Conns : wCur[w] = c  BY DEF IInv, InUse, ReStartReadDirect
<1>c. /\ UNCHANGED <<client, mem, home, got, left, io, queue>> /\ wPc[w] = "arm"
      /\ reg' = [reg EXCEPT ![c] = "in"] /\ Go(w, "get") /\ wCur' = [wCur EXCEPT ![w] = None]
  BY <1>b DEF ReStartReadDirect, Done
<1>e. Worked(w, c, FALSE)  BY <1>b, <1>c, WorkFacts
<1>1. TypeOK'
  <2>1. reg' \in [Conns -> {"none", "in", "off", "out"}]  BY <1>a, <1>c DEF TypeOK
  <2>2. QED  BY <2>1, <1>a, <1>c, <1>e DEF TypeOK, Worked, client, io
<1>2. OneRequest'  BY <1>c DEF IInv, OneRequest, client
<1>3. OnePlace(c)'
  <2>1. reg'[c] = "in"  BY <1>a, <1>c DEF TypeOK
  <2>2. got[c] < 2 /\ left[c] = 0 /\ mem[c] = "live"
    BY <1>c, <1>e DEF Worked, AtWorker, Pointers
  <2>3. Unheld(c)'  BY <2>1, <2>2, <1>c, <1>e DEF Unheld, Worked
  <2>4. QED  BY <2>3 DEF OnePlace
<1>4. ASSUME NEW d \in Conns \ {c} PROVE Same(d)
  BY <1>a, <1>c, <1>e DEF Worked, TypeOK
<1>5. QED  BY <1>1, <1>2, <1>3, <1>4, <1>e, SameStays DEF IInv, Worked
-----------------------------------------------------------------------------
\* The initial states.
LEMMA InitIInv ==
  ASSUME Init
  PROVE  IInv
<1>1. TypeOK  BY DEF Init, TypeOK
<1>2. InUse /\ OneRequest  BY HSHAAssumption DEF Init, InUse, OneRequest
<1>3. ASSUME NEW c \in Conns PROVE Unheld(c)
  BY HSHAAssumption DEF Init, Unheld, Pointers, IoOf, InOf, OutOf, SlotsOf, WorkOf
<1>4. QED  BY <1>1, <1>2, <1>3 DEF IInv, OnePlace

\* Every step.
LEMMA NextIInv ==
  ASSUME IInv, [Next]_vars
  PROVE  IInv'
<1>1. CASE UNCHANGED vars
  <2>1. UNCHANGED <<client, conn, io, queue, workers>>  BY <1>1 DEF vars
  <2>2. TypeOK' /\ InUse' /\ OneRequest'
    BY <2>1 DEF IInv, TypeOK, InUse, OneRequest, client, conn, io, workers
  <2>3. \A c \in Conns : Same(c)
    BY <2>1 DEF Same, IoOf, InOf, OutOf, SlotsOf, WorkOf, conn, io, workers
  <2>4. QED  BY <2>2, <2>3, SameStays DEF IInv
<1>2. CASE Client  BY <1>2, ConnectIInv, ClientIInv DEF Client
<1>3. CASE \E t \in IO : IoThread(t)
  BY <1>3, EpollWaitIInv, EndOfBatchIInv, AcceptIInv, IoFailsIInv, ReadIInv, WriteIInv,
     ReleaseConnIInv, PushInQueueIInv, NotifyOneIInv, ReStartReadIInv DEF IoThread
<1>4. CASE \E w \in Workers : Worker(w) \/ SpuriousWakeup(w)
  BY <1>4, GetQueueDataIInv, IdleWorkerIInv, EnCodeIInv, ModToWriteIInv, WriteDirectIInv,
     WriteDirectFailsIInv, ReleaseDirectIInv, ReStartReadDirectIInv DEF Worker
<1>5. QED  BY <1>1, <1>2, <1>3, <1>4 DEF Next

\* The invariant holds of every reachable state.
THEOREM Invariance == Spec => []IInv
<1>1. Init => IInv  BY InitIInv
<1>2. IInv /\ [Next]_vars => IInv'  BY NextIInv
<1>3. QED  BY <1>1, <1>2, PTL DEF Spec

\* Types, for any number of threads and connections.
THEOREM TypeCorrect == Spec => []TypeOK
<1>1. IInv => TypeOK  BY DEF IInv
<1>2. QED  BY <1>1, Invariance, PTL

\* The kinds of pointers.
LEMMA HolderKinds ==
  ASSUME NEW c
  PROVE  \A x \in Holders(c) :
           \/ x[1] = "io" /\ x[2] \in IoOf(c) /\ x = <<"io", x[2]>>
           \/ x[1] = "in" /\ x[2] \in InOf(c) /\ x = <<"in", x[2]>>
           \/ x[1] = "out" /\ x[2] \in OutOf(c) /\ x = <<"out", x[2]>>
           \/ x[1] = "queue" /\ x[2] \in SlotsOf(c) /\ x = <<"queue", x[2]>>
           \/ x[1] = "worker" /\ x[2] \in WorkOf(c) /\ x = <<"worker", x[2]>>
BY DEF Holders

\* No two threads ever have a pointer to the same connection.
THEOREM Exclusion == Spec => []ExclusiveConn
<1>1. ASSUME IInv, NEW c \in Conns, NEW x \in Holders(c), NEW y \in Holders(c)
      PROVE  x = y
  <2>1. OnePlace(c)  BY <1>1 DEF IInv
  <2>2. CASE Unheld(c)  BY <2>2, HolderKinds DEF Unheld, Pointers
  <2>3. CASE ReportedIn(c)  BY <2>3, HolderKinds DEF ReportedIn, Pointers
  <2>4. CASE ReportedOut(c)  BY <2>4, HolderKinds DEF ReportedOut, Pointers
  <2>5. CASE AtIo(c)  BY <2>5, HolderKinds DEF AtIo, Pointers
  <2>6. CASE Queued(c)  BY <2>6, HolderKinds DEF Queued, Pointers
  <2>7. CASE AtWorker(c)  BY <2>7, HolderKinds DEF AtWorker, Pointers
  <2>8. QED  BY <2>1, <2>2, <2>3, <2>4, <2>5, <2>6, <2>7 DEF OnePlace
<1>2. IInv => ExclusiveConn  BY <1>1 DEF ExclusiveConn
<1>3. QED  BY <1>2, Invariance, PTL

\* A pointer that will be followed points to a live, registered connection.
THEOREM MemorySafety == Spec => []NoUseAfterFree
<1>1. ASSUME IInv, NEW c \in Conns, Holders(c) # {}
      PROVE  mem[c] = "live" /\ reg[c] # "none"
  <2>1. OnePlace(c)  BY <1>1 DEF IInv
  <2>2. ~Unheld(c)  BY <1>1, HolderKinds DEF Unheld, Pointers
  <2>3. QED
    BY <2>1, <2>2 DEF OnePlace, ReportedIn, ReportedOut, AtIo, Queued, AtWorker
<1>2. IInv => NoUseAfterFree  BY <1>1 DEF NoUseAfterFree
<1>3. QED  BY <1>2, Invariance, PTL

\* A held connection cannot be reported to another thread.
THEOREM Disarmed == Spec => []HeldIsDisarmed
<1>1. ASSUME IInv, NEW c \in Conns, Holders(c) # {}
      PROVE  \/ reg[c] = "off"
             \/ reg[c] = "out" /\ Holders(c) \subseteq {<<"io", home[c]>>, <<"out", home[c]>>}
  <2>1. OnePlace(c)  BY <1>1 DEF IInv
  <2>2. ~Unheld(c)  BY <1>1, HolderKinds DEF Unheld, Pointers
  <2>3. CASE ReportedOut(c)
    <3>1. Holders(c) \subseteq {<<"out", home[c]>>}
      BY <2>3, HolderKinds DEF ReportedOut, Pointers
    <3>2. QED  BY <3>1, <2>3 DEF ReportedOut
  <2>4. CASE AtIo(c)
    <3>1. Holders(c) \subseteq {<<"io", home[c]>>}  BY <2>4, HolderKinds DEF AtIo, Pointers
    <3>2. QED  BY <3>1, <2>4 DEF AtIo
  <2>5. QED
    BY <2>1, <2>2, <2>3, <2>4 DEF OnePlace, ReportedIn, Queued, AtWorker
<1>2. IInv => HeldIsDisarmed  BY <1>1 DEF HeldIsDisarmed
<1>3. QED  BY <1>2, Invariance, PTL

\* A connection is never forgotten: unless a thread has it, it is armed for what
\* it needs next.
THEOREM NothingStranded == Spec => []NoStranded
<1>1. ASSUME IInv, NEW c \in Conns, mem[c] = "live", Holders(c) = {}
      PROVE  Unheld(c)
  <2>1. IoOf(c) = {} /\ InOf(c) = {} /\ OutOf(c) = {} /\ SlotsOf(c) = {} /\ WorkOf(c) = {}
    <3>1. /\ \A t \in IoOf(c) : <<"io", t>> \in Holders(c)
          /\ \A t \in InOf(c) : <<"in", t>> \in Holders(c)
          /\ \A t \in OutOf(c) : <<"out", t>> \in Holders(c)
          /\ \A i \in SlotsOf(c) : <<"queue", i>> \in Holders(c)
          /\ \A w \in WorkOf(c) : <<"worker", w>> \in Holders(c)
      BY DEF Holders
    <3>2. QED  BY <3>1, <1>1
  <2>2. QED
    BY <2>1, <1>1
    DEF IInv, OnePlace, ReportedIn, ReportedOut, AtIo, Queued, AtWorker, Pointers
<1>2. IInv => NoStranded  BY <1>1 DEF NoStranded, Unheld
<1>3. QED  BY <1>2, Invariance, PTL
-----------------------------------------------------------------------------
(* The condition variable: NoLostWakeup is inductive once types are known. *)

\* The threads can be counted.
LEMMA ThreadCounts ==
  /\ IsFiniteSet(InGet) /\ Cardinality(InGet) \in Nat
  /\ IsFiniteSet(Notifying) /\ Cardinality(Notifying) \in Nat
<1>1. InGet \in SUBSET Workers /\ Notifying \in SUBSET IO  BY DEF InGet, Notifying
<1>2. IsFiniteSet(InGet) /\ IsFiniteSet(Notifying)
  BY <1>1, FS_Subset, HSHAAssumption
<1>3. QED  BY <1>2, FS_CardinalityType

\* They can be counted after a step too.
LEMMA ThreadCountsNext ==
  /\ IsFiniteSet(InGet') /\ Cardinality(InGet') \in Nat
  /\ IsFiniteSet(Notifying') /\ Cardinality(Notifying') \in Nat
<1>1. InGet' \in SUBSET Workers /\ Notifying' \in SUBSET IO  BY DEF InGet, Notifying
<1>2. IsFiniteSet(InGet') /\ IsFiniteSet(Notifying')
  BY <1>1, FS_Subset, HSHAAssumption
<1>3. QED  BY <1>2, FS_CardinalityType

\* Nobody falls asleep, nothing is queued, and nobody on the way to the queue or to a
\* notification turns back.
LEMMA OnTheWayStays ==
  ASSUME NoLostWakeup, TypeOK, InGet \subseteq InGet', Notifying \subseteq Notifying', queue' = queue,
         (\E w \in Workers : wPc'[w] = "asleep") => \E w \in Workers : wPc[w] = "asleep"
  PROVE  NoLostWakeup'
<1>1. InGet \in SUBSET InGet' /\ Notifying \in SUBSET Notifying'  OBVIOUS
<1>2. Cardinality(InGet) <= Cardinality(InGet')  BY <1>1, ThreadCountsNext, FS_Subset
<1>3. Cardinality(Notifying) <= Cardinality(Notifying')  BY <1>1, ThreadCountsNext, FS_Subset
<1>4. Len(queue) \in Nat /\ Len(queue') = Len(queue)  BY DEF TypeOK
<1>5. QED  BY <1>2, <1>3, <1>4, ThreadCounts, ThreadCountsNext DEF NoLostWakeup

\* An I/O thread that is not at the notification does not undo one.
LEMMA IoKeepsWakeups ==
  ASSUME NoLostWakeup, TypeOK, NEW t \in IO, ioPc[t] # "notify", NEW next,
         ioPc' = [ioPc EXCEPT ![t] = next], UNCHANGED <<queue, wPc>>
  PROVE  NoLostWakeup'
<1>1. ioPc \in [IO -> {"wait", "loop", "free", "push", "notify", "arm"}]  BY DEF TypeOK
<1>2. Notifying \subseteq Notifying'  BY <1>1 DEF Notifying
<1>3. InGet' = InGet  BY DEF InGet
<1>4. QED  BY <1>2, <1>3, OnTheWayStays

\* A worker that goes on, or comes back to the queue, does not take one away.
LEMMA WorkerKeepsWakeups ==
  ASSUME NoLostWakeup, TypeOK, NEW w \in Workers, wPc[w] # "get", NEW next, next # "asleep",
         wPc' = [wPc EXCEPT ![w] = next], UNCHANGED <<queue, ioPc>>
  PROVE  NoLostWakeup'
<1>1. wPc \in [Workers -> {"get", "asleep", "encode", "mod", "send", "free", "arm"}]
  BY DEF TypeOK
<1>2. InGet \subseteq InGet'  BY <1>1 DEF InGet
<1>3. Notifying' = Notifying  BY DEF Notifying
<1>4. (\E v \in Workers : wPc'[v] = "asleep") => \E v \in Workers : wPc[v] = "asleep"
  BY <1>1
<1>5. QED  BY <1>2, <1>3, <1>4, OnTheWayStays

\* pushInQueue adds an element, and a thread that is about to notify.
LEMMA PushKeepsWakeups ==
  ASSUME NoLostWakeup, IInv, NEW t \in IO, PushInQueue(t)
  PROVE  NoLostWakeup'
<1>0. TypeOK  BY DEF IInv
<1>1. /\ ioPc[t] = "push" /\ ioPc' = [ioPc EXCEPT ![t] = "notify"]
      /\ queue' = Append(queue, ioCur[t]) /\ UNCHANGED wPc
  BY DEF PushInQueue, Leave, workers
<1>2. Notifying' = Notifying \cup {t} /\ t \notin Notifying  BY <1>0, <1>1 DEF TypeOK, Notifying
<1>3. Cardinality(Notifying') = Cardinality(Notifying) + 1  BY <1>2, ThreadCounts, FS_AddElement
<1>4. InGet' = InGet  BY <1>1 DEF InGet
<1>5. ioCur[t] \in Conns  BY <1>1 DEF IInv, InUse
<1>6. Len(queue) \in Nat /\ Len(queue') = Len(queue) + 1
  BY <1>0, <1>1, <1>5, QueueFacts DEF TypeOK
<1>7. (\E w \in Workers : wPc'[w] = "asleep") => \E w \in Workers : wPc[w] = "asleep"
  BY <1>1
<1>8. QED  BY <1>3, <1>4, <1>6, <1>7, ThreadCounts DEF NoLostWakeup

\* notify_one puts a worker that slept on its way, or nobody sleeps.
LEMMA NotifyKeepsWakeups ==
  ASSUME NoLostWakeup, TypeOK, NEW t \in IO, NotifyOne(t)
  PROVE  NoLostWakeup'
<1>1. ioPc[t] = "notify" /\ ioPc' = [ioPc EXCEPT ![t] = "loop"] /\ UNCHANGED queue
  BY DEF NotifyOne, Leave
<1>2. Notifying' = Notifying \ {t} /\ t \in Notifying  BY <1>1 DEF TypeOK, Notifying
<1>3. Cardinality(Notifying') = Cardinality(Notifying) - 1
  BY <1>2, ThreadCounts, FS_RemoveElement
<1>4. CASE (\A w \in Workers : wPc[w] # "asleep") /\ UNCHANGED wPc
  BY <1>4 DEF NoLostWakeup
<1>5. ASSUME NEW w \in Workers, wPc[w] = "asleep", wPc' = [wPc EXCEPT ![w] = "get"]
      PROVE  NoLostWakeup'
  <2>1. InGet' = InGet \cup {w} /\ w \notin InGet  BY <1>5 DEF TypeOK, InGet
  <2>2. Cardinality(InGet') = Cardinality(InGet) + 1  BY <2>1, ThreadCounts, FS_AddElement
  <2>3. Len(queue) <= Cardinality(InGet) + Cardinality(Notifying)  BY <1>5 DEF NoLostWakeup
  <2>4. Len(queue) \in Nat /\ Len(queue') = Len(queue)  BY <1>1 DEF TypeOK
  <2>5. QED  BY <1>3, <2>2, <2>3, <2>4, ThreadCounts DEF NoLostWakeup
<1>6. QED  BY <1>4, <1>5 DEF NotifyOne

\* A worker leaves the queue with an element, or sleeps when there is none.
LEMMA GetKeepsWakeups ==
  ASSUME NoLostWakeup, TypeOK, NEW w \in Workers, GetQueueData(w) \/ CondWait(w)
  PROVE  NoLostWakeup'
<1>1. CASE GetQueueData(w)
  <2>1. /\ wPc[w] = "get" /\ wPc' = [wPc EXCEPT ![w] = "encode"]
        /\ queue # <<>> /\ queue' = Tail(queue) /\ UNCHANGED ioPc
    BY <1>1 DEF GetQueueData, Go, io
  <2>2. InGet' = InGet \ {w} /\ w \in InGet  BY <2>1 DEF TypeOK, InGet
  <2>3. Cardinality(InGet') = Cardinality(InGet) - 1
    BY <2>2, ThreadCounts, FS_RemoveElement
  <2>4. Notifying' = Notifying  BY <2>1 DEF Notifying
  <2>5. Len(queue) \in Nat /\ Len(queue') = Len(queue) - 1  BY <2>1 DEF TypeOK
  <2>6. (\E v \in Workers : wPc'[v] = "asleep") => \E v \in Workers : wPc[v] = "asleep"
    BY <2>1 DEF TypeOK
  <2>7. QED  BY <2>3, <2>4, <2>5, <2>6, ThreadCounts DEF NoLostWakeup
<1>2. CASE CondWait(w)
  <2>1. Len(queue') = 0  BY <1>2 DEF CondWait
  <2>2. QED  BY <2>1, ThreadCountsNext DEF NoLostWakeup
<1>3. QED  BY <1>1, <1>2

\* Every step.
LEMMA NextKeepsWakeups ==
  ASSUME NoLostWakeup, IInv, [Next]_vars
  PROVE  NoLostWakeup'
<1>0. TypeOK  BY DEF IInv
<1>1. CASE UNCHANGED vars \/ Client
  <2>1. UNCHANGED <<queue, ioPc, wPc>>
    BY <1>1 DEF vars, io, workers, Client, Connect, ClientSend, ClientClose
  <2>2. InGet' = InGet /\ Notifying' = Notifying  BY <2>1 DEF InGet, Notifying
  <2>3. QED  BY <1>0, <2>1, <2>2, OnTheWayStays
<1>2. ASSUME NEW t \in IO, IoThread(t) PROVE NoLostWakeup'
  <2>1. CASE PushInQueue(t)  BY <2>1, PushKeepsWakeups
  <2>2. CASE NotifyOne(t)  BY <1>0, <2>2, NotifyKeepsWakeups
  <2>3. CASE Accept(t)
    <3>1. UNCHANGED <<queue, ioPc, wPc>>  BY <2>3 DEF Accept, workers
    <3>2. InGet' = InGet /\ Notifying' = Notifying  BY <3>1 DEF InGet, Notifying
    <3>3. QED  BY <1>0, <3>1, <3>2, OnTheWayStays
  <2>4. CASE EpollWait(t) \/ EndOfBatch(t) \/ ReleaseConn(t) \/ ReStartRead(t)
    <3>1. PICK next \in {"loop", "wait"} : ioPc' = [ioPc EXCEPT ![t] = next]
      BY <2>4 DEF EpollWait, EndOfBatch, ReleaseConn, ReStartRead, Leave
    <3>2. ioPc[t] # "notify" /\ UNCHANGED <<queue, wPc>>
      BY <2>4 DEF EpollWait, EndOfBatch, ReleaseConn, ReStartRead, workers
    <3>3. QED  BY <1>0, <3>1, <3>2, IoKeepsWakeups
  <2>5. ASSUME NEW c \in Conns, ReadFails(t, c) \/ Read(t, c) \/ WriteFails(t, c) \/ Write(t, c)
        PROVE  NoLostWakeup'
    <3>1. PICK next, event : Handle(t, c, event, next)
      BY <2>5 DEF ReadFails, Read, WriteFails, Write
    <3>2. ioPc[t] # "notify" /\ ioPc' = [ioPc EXCEPT ![t] = next]  BY <3>1 DEF Handle
    <3>3. UNCHANGED <<queue, wPc>>  BY <2>5 DEF ReadFails, Read, WriteFails, Write, workers
    <3>4. QED  BY <1>0, <3>2, <3>3, IoKeepsWakeups
  <2>6. QED  BY <1>2, <2>1, <2>2, <2>3, <2>4, <2>5 DEF IoThread
<1>3. ASSUME NEW w \in Workers, Worker(w) \/ SpuriousWakeup(w) PROVE NoLostWakeup'
  <2>1. CASE GetQueueData(w) \/ CondWait(w)  BY <1>0, <2>1, GetKeepsWakeups
  <2>2. CASE SpuriousWakeup(w) \/ EnCode(w) \/ ModToWrite(w) \/ WriteDirect(w)
             \/ WriteDirectFails(w) \/ ReleaseDirect(w) \/ ReStartReadDirect(w)
    <3>1. PICK next \in {"get", "mod", "send", "free", "arm"} : wPc' = [wPc EXCEPT ![w] = next]
      BY <2>2 DEF SpuriousWakeup, EnCode, ModToWrite, WriteDirect, WriteDirectFails,
         ReleaseDirect, ReStartReadDirect, Done, Go
    <3>2. wPc[w] # "get" /\ UNCHANGED <<queue, ioPc>>
      BY <2>2 DEF SpuriousWakeup, EnCode, ModToWrite, WriteDirect, WriteDirectFails,
         ReleaseDirect, ReStartReadDirect, io
    <3>3. QED  BY <1>0, <3>1, <3>2, WorkerKeepsWakeups
  <2>3. QED  BY <1>3, <2>1, <2>2 DEF Worker
<1>4. QED  BY <1>1, <1>2, <1>3 DEF Next

\* A worker never sleeps through a request: the notification after the unlock, the test of
\* the queue under the lock, and wakeups without a reason included.
THEOREM WakeupsReach == Spec => []NoLostWakeup
<1>1. Init => NoLostWakeup
  BY ThreadCounts DEF Init, NoLostWakeup
<1>2. NoLostWakeup /\ IInv /\ [Next]_vars => NoLostWakeup'  BY NextKeepsWakeups
<1>3. QED  BY <1>1, <1>2, Invariance, PTL DEF Spec
=============================================================================
