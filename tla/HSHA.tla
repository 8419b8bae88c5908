-------------------------------- MODULE HSHA --------------------------------
(***************************************************************************)
(* EpollReactorThreadPoolHSHA: half-sync half-async.  I/O threads, each    *)
(* with its own listening socket and epoll instance, read the requests and *)
(* push the connections into one queue; worker threads pop them, encode    *)
(* the reply, and either hand the connection back by arming EPOLLOUT or,   *)
(* with -direct, send the reply themselves.                                *)
(*                                                                         *)
(* No lock protects a Conn.  What keeps two threads off one connection is  *)
(* EPOLLONESHOT: a reported read event disarms the registration until      *)
(* somebody restarts it.                                                   *)
(*                                                                         *)
(* The two halves of a request, and of a reply, stand for its bytes.  A    *)
(* step ends where another thread could look: at an epoll call, a queue    *)
(* operation, a free.  Mutex is held only inside one step.                 *)
(***************************************************************************)
EXTENDS Integers, Sequences, FiniteSets

CONSTANTS
  IO,       \* the I/O threads
  Workers,  \* the worker threads
  Conns,    \* the Conn objects the program allocates
  Slow,     \* the connections whose client does not read the second half of a reply
  Options,  \* the command lines, each the set of its options
  None      \* no connection; also the listening socket in an event

ASSUME HSHAAssumption ==
  /\ IsFiniteSet(IO) /\ IsFiniteSet(Workers)
  /\ None \notin Conns
  /\ Slow \subseteq Conns
  /\ Options \subseteq SUBSET {"direct"}

VARIABLES
  options,  \* the member of Options that runs; it does not change
  peer,     \* peer[c]: FALSE once the client has closed or reset
  unread,   \* unread[c]: halves of the request in the receive buffer of the socket
  mem,      \* mem[c]: "new", "backlog" (connected, not accepted), "live", "freed"
  home,     \* home[c]: the I/O thread that accepts it
  reg,      \* reg[c]: registration in the epoll of home[c]: "none", "in" (armed,
            \* one-shot), "off" (reported, disarmed), "out" (level triggered)
  got,      \* got[c]: halves of the request in the codec
  left,     \* left[c]: halves of the reply to send
  batch,    \* batch[t]: events of the last epoll_wait not yet handled
  ioPc, ioCur,  \* where I/O thread t is, and the connection it is handling
  queue,    \* Queue
  wPc, wCur     \* where worker w is, and the connection it is handling

client  == <<options, peer, unread>>
conn    == <<mem, home, reg, got, left>>
io      == <<batch, ioPc, ioCur>>
workers == <<wPc, wCur>>
vars    == <<client, conn, io, queue, workers>>

Init ==
  /\ options \in Options
  /\ peer = [c \in Conns |-> TRUE] /\ unread = [c \in Conns |-> 0]
  /\ mem = [c \in Conns |-> "new"] /\ home \in [Conns -> IO]
  /\ reg = [c \in Conns |-> "none"]
  /\ got = [c \in Conns |-> 0] /\ left = [c \in Conns |-> 0]
  /\ batch = [t \in IO |-> {}]
  /\ ioPc = [t \in IO |-> "wait"] /\ ioCur = [t \in IO |-> None]
  /\ queue = <<>>
  /\ wPc = [w \in Workers |-> "get"] /\ wCur = [w \in Workers |-> None]
-----------------------------------------------------------------------------
(* The clients.  A client waits for the reply before its next request. *)

Connect(c) ==
  /\ mem[c] = "new"
  /\ mem' = [mem EXCEPT ![c] = "backlog"]
  /\ UNCHANGED <<client, home, reg, got, left, io, queue, workers>>

ClientSend(c) ==
  /\ mem[c] \in {"backlog", "live"} /\ peer[c]
  /\ got[c] + unread[c] < 2
  /\ unread' = [unread EXCEPT ![c] = @ + 1]
  /\ UNCHANGED <<options, peer, conn, io, queue, workers>>

ClientClose(c) ==
  /\ mem[c] \in {"backlog", "live"} /\ peer[c]
  /\ peer' = [peer EXCEPT ![c] = FALSE]
  /\ UNCHANGED <<options, unread, conn, io, queue, workers>>
-----------------------------------------------------------------------------
(* The I/O threads: ioHandler. *)

Readable(c) == unread[c] > 0 \/ ~peer[c]
\* The send buffer of the socket has room, or write() would report an error.
Writable(c) == ~peer[c] \/ ~(c \in Slow /\ left[c] = 1)

Ready(t) ==
  {<<c, "in">>  : c \in {d \in Conns : home[d] = t /\ reg[d] = "in" /\ Readable(d)}} \cup
  {<<c, "out">> : c \in {d \in Conns : home[d] = t /\ reg[d] = "out" /\ Writable(d)}} \cup
  (IF \E c \in Conns : home[c] = t /\ mem[c] = "backlog" THEN {<<None, "in">>} ELSE {})

\* Mutant: the registration without EPOLLONESHOT.
EpollWaitLevel(t) ==
  /\ ioPc[t] = "wait"
  /\ Ready(t) # {}
  /\ batch' = [batch EXCEPT ![t] = Ready(t)]
  /\ ioPc' = [ioPc EXCEPT ![t] = "loop"]
  /\ UNCHANGED <<client, conn, ioCur, queue, workers>>

EpollWait(t) ==
  /\ ioPc[t] = "wait"
  /\ Ready(t) # {}
  /\ batch' = [batch EXCEPT ![t] = Ready(t)]
  /\ reg' = [c \in Conns |-> IF <<c, "in">> \in Ready(t) THEN "off" ELSE reg[c]]
  /\ ioPc' = [ioPc EXCEPT ![t] = "loop"]
  /\ UNCHANGED <<client, mem, home, got, left, ioCur, queue, workers>>

EndOfBatch(t) ==
  /\ ioPc[t] = "loop" /\ batch[t] = {}
  /\ ioPc' = [ioPc EXCEPT ![t] = "wait"]
  /\ UNCHANGED <<client, conn, batch, ioCur, queue, workers>>

\* LoopAccept accepts until EAGAIN; every new connection is armed.
Accept(t) ==
  LET new == {c \in Conns : home[c] = t /\ mem[c] = "backlog"} IN
  /\ ioPc[t] = "loop" /\ <<None, "in">> \in batch[t]
  /\ batch' = [batch EXCEPT ![t] = @ \ {<<None, "in">>}]
  /\ mem' = [c \in Conns |-> IF c \in new THEN "live" ELSE mem[c]]
  /\ reg' = [c \in Conns |-> IF c \in new THEN "in" ELSE reg[c]]
  /\ UNCHANGED <<client, home, got, left, ioPc, ioCur, queue, workers>>

\* The thread takes the event of c and goes on to what it has to do.
Handle(t, c, event, next) ==
  /\ ioPc[t] = "loop" /\ <<c, event>> \in batch[t]
  /\ batch' = [batch EXCEPT ![t] = @ \ {<<c, event>>}]
  /\ ioPc' = [ioPc EXCEPT ![t] = next]
  /\ ioCur' = [ioCur EXCEPT ![t] = IF next = "loop" THEN None ELSE c]

\* Read returns false: the end of the stream before the end of the request, or
\* an error.
ReadFails(t, c) ==
  /\ Handle(t, c, "in", "free")
  /\ ~peer[c]
  /\ UNCHANGED <<client, conn, queue, workers>>

\* Mutant: an incomplete request, and the read event is not restarted.
ReadNoRestart(t, c) ==
  /\ Handle(t, c, "in", IF got[c] + unread[c] = 2 THEN "push" ELSE "loop")
  /\ got[c] + unread[c] = 2 \/ peer[c]
  /\ got' = [got EXCEPT ![c] = @ + unread[c]]
  /\ unread' = [unread EXCEPT ![c] = 0]
  /\ UNCHANGED <<options, peer, mem, home, reg, left, queue, workers>>

\* Read takes all there is; OneMessage decides whether the request is complete.
Read(t, c) ==
  /\ Handle(t, c, "in", IF got[c] + unread[c] = 2 THEN "push" ELSE "arm")
  /\ got[c] + unread[c] = 2 \/ peer[c]
  /\ got' = [got EXCEPT ![c] = @ + unread[c]]
  /\ unread' = [unread EXCEPT ![c] = 0]
  /\ UNCHANGED <<options, peer, mem, home, reg, left, queue, workers>>

WriteFails(t, c) ==
  /\ Handle(t, c, "out", "free")
  /\ ~peer[c]
  /\ UNCHANGED <<client, conn, queue, workers>>

\* Write sends what the socket takes; after the last half, Reset.
Sent(c, n) ==
  /\ n \in 0 .. left[c]
  /\ left' = [left EXCEPT ![c] = @ - n]
  /\ got' = [got EXCEPT ![c] = IF n = left[c] THEN 0 ELSE @]

\* How much the socket may take: something, up to all, but not the second half
\* of a reply nobody reads.
CanSend(c) == {n \in 1 .. left[c] : c \in Slow => n < left[c]}

Write(t, c) ==
  \E n \in CanSend(c) :
    /\ Handle(t, c, "out", IF n = left[c] THEN "arm" ELSE "loop")
    /\ Sent(c, n)
    /\ UNCHANGED <<client, mem, home, reg, queue, workers>>

\* ClearEvent and delete.
Release(c) ==
  /\ reg' = [reg EXCEPT ![c] = "none"]
  /\ mem' = [mem EXCEPT ![c] = "freed"]

Leave(t, next) ==
  /\ ioPc' = [ioPc EXCEPT ![t] = next]
  /\ ioCur' = [ioCur EXCEPT ![t] = None]

\* Mutant: the handler falls through to the end of the iteration.
ReleaseConnFallThrough(t) ==
  /\ ioPc[t] = "free"
  /\ Release(ioCur[t])
  /\ ioPc' = [ioPc EXCEPT ![t] = "arm"]
  /\ UNCHANGED <<client, home, got, left, batch, ioCur, queue, workers>>

ReleaseConn(t) ==
  /\ ioPc[t] = "free"
  /\ Release(ioCur[t])
  /\ Leave(t, "loop")
  /\ UNCHANGED <<client, home, got, left, batch, queue, workers>>

\* Mutants: the pointer is cleared first; only the first element is notified;
\* nobody is notified.
PushInQueueCleared(t) ==
  /\ ioPc[t] = "push"
  /\ Leave(t, "notify")
  /\ queue' = Append(queue, ioCur'[t])
  /\ UNCHANGED <<client, conn, batch, workers>>

PushInQueueIfEmpty(t) ==
  /\ ioPc[t] = "push"
  /\ queue' = Append(queue, ioCur[t])
  /\ Leave(t, IF queue = <<>> THEN "notify" ELSE "loop")
  /\ UNCHANGED <<client, conn, batch, workers>>

PushInQueueSilent(t) ==
  /\ ioPc[t] = "push"
  /\ queue' = Append(queue, ioCur[t])
  /\ Leave(t, "loop")
  /\ UNCHANGED <<client, conn, batch, workers>>

PushInQueue(t) ==
  /\ ioPc[t] = "push"
  /\ queue' = Append(queue, ioCur[t])
  /\ Leave(t, "notify")
  /\ UNCHANGED <<client, conn, batch, workers>>

\* notify_one, after the lock has been given back.
NotifyOne(t) ==
  /\ ioPc[t] = "notify"
  /\ \/ \E w \in Workers : wPc[w] = "asleep" /\ wPc' = [wPc EXCEPT ![w] = "get"]
     \/ (\A w \in Workers : wPc[w] # "asleep") /\ UNCHANGED wPc
  /\ Leave(t, "loop")
  /\ UNCHANGED <<client, conn, batch, queue, wCur>>

ReStartRead(t) ==
  /\ ioPc[t] = "arm"
  /\ reg' = [reg EXCEPT ![ioCur[t]] = "in"]
  /\ Leave(t, "loop")
  /\ UNCHANGED <<client, mem, home, got, left, batch, queue, workers>>
-----------------------------------------------------------------------------
(* The workers: workerHandler. *)

Go(w, next) == wPc' = [wPc EXCEPT ![w] = next]
Done(w) == Go(w, "get") /\ wCur' = [wCur EXCEPT ![w] = None]

\* getQueueData, with the predicate of Cond.wait true.
GetQueueData(w) ==
  /\ wPc[w] = "get" /\ queue # <<>>
  /\ wCur' = [wCur EXCEPT ![w] = Head(queue)]
  /\ queue' = Tail(queue)
  /\ Go(w, "encode")
  /\ UNCHANGED <<client, conn, io>>

CondWait(w) ==
  /\ wPc[w] = "get" /\ queue = <<>>
  /\ Go(w, "asleep")
  /\ UNCHANGED <<client, conn, io, queue, wCur>>

\* Cond.wait may return without a notification.
SpuriousWakeup(w) ==
  /\ wPc[w] = "asleep"
  /\ Go(w, "get")
  /\ UNCHANGED <<client, conn, io, queue, wCur>>

EnCode(w) ==
  /\ wPc[w] = "encode"
  /\ left' = [left EXCEPT ![wCur[w]] = 2]
  /\ Go(w, IF "direct" \in options THEN "send" ELSE "mod")
  /\ UNCHANGED <<client, mem, home, reg, got, io, queue, wCur>>

ModToWrite(w) ==
  /\ wPc[w] = "mod"
  /\ reg' = [reg EXCEPT ![wCur[w]] = "out"]
  /\ Done(w)
  /\ UNCHANGED <<client, mem, home, got, left, io, queue>>

\* The loop over Write: EAGAIN is true, and tried again at once.
WriteDirect(w) ==
  /\ wPc[w] = "send"
  /\ \E n \in CanSend(wCur[w]) :
       /\ Go(w, IF n = left[wCur[w]] THEN "arm" ELSE "send")
       /\ Sent(wCur[w], n)
  /\ UNCHANGED <<client, mem, home, reg, io, queue, wCur>>

WriteDirectFails(w) ==
  /\ wPc[w] = "send" /\ ~peer[wCur[w]]
  /\ Go(w, "free")
  /\ UNCHANGED <<client, conn, io, queue, wCur>>

ReleaseDirect(w) ==
  /\ wPc[w] = "free"
  /\ Release(wCur[w])
  /\ Done(w)
  /\ UNCHANGED <<client, home, got, left, io, queue>>

ReStartReadDirect(w) ==
  /\ wPc[w] = "arm"
  /\ reg' = [reg EXCEPT ![wCur[w]] = "in"]
  /\ Done(w)
  /\ UNCHANGED <<client, mem, home, got, left, io, queue>>
-----------------------------------------------------------------------------
Client == \E c \in Conns : Connect(c) \/ ClientSend(c) \/ ClientClose(c)

IoThread(t) ==
  \/ EpollWait(t) \/ EndOfBatch(t) \/ Accept(t)
  \/ \E c \in Conns : ReadFails(t, c) \/ Read(t, c) \/ WriteFails(t, c) \/ Write(t, c)
  \/ ReleaseConn(t) \/ PushInQueue(t) \/ NotifyOne(t) \/ ReStartRead(t)

Worker(w) ==
  \/ GetQueueData(w) \/ CondWait(w) \/ EnCode(w) \/ ModToWrite(w)
  \/ WriteDirect(w) \/ WriteDirectFails(w) \/ ReleaseDirect(w) \/ ReStartReadDirect(w)

Next ==
  \/ Client
  \/ \E t \in IO : IoThread(t)
  \/ \E w \in Workers : Worker(w) \/ SpuriousWakeup(w)

Spec == Init /\ [][Next]_vars

\* Every thread keeps running.  Nothing is assumed of the clients, and nothing
\* of wakeups without a notification.
FairSpec ==
  /\ Spec
  /\ \A t \in IO : WF_vars(IoThread(t))
  /\ \A w \in Workers : WF_vars(Worker(w))
-----------------------------------------------------------------------------
(* Properties. *)

TypeOK ==
  /\ options \in Options
  /\ peer \in [Conns -> BOOLEAN] /\ unread \in [Conns -> 0 .. 2]
  /\ mem \in [Conns -> {"new", "backlog", "live", "freed"}]
  /\ home \in [Conns -> IO]
  /\ reg \in [Conns -> {"none", "in", "off", "out"}]
  /\ got \in [Conns -> 0 .. 2] /\ left \in [Conns -> 0 .. 2]
  /\ batch \in [IO -> SUBSET ((Conns \cup {None}) \X {"in", "out"})]
  /\ ioPc \in [IO -> {"wait", "loop", "free", "push", "notify", "arm"}]
  /\ ioCur \in [IO -> Conns \cup {None}]
  /\ queue \in Seq(Conns)
  /\ wPc \in [Workers -> {"get", "asleep", "encode", "mod", "send", "free", "arm"}]
  /\ wCur \in [Workers -> Conns \cup {None}]

\* Where there is a pointer to c that will still be followed: in an I/O thread,
\* among the events it has yet to handle, in the queue, in a worker.
IoOf(c)    == {t \in IO : ioCur[t] = c}
InOf(c)    == {t \in IO : <<c, "in">> \in batch[t]}
OutOf(c)   == {t \in IO : <<c, "out">> \in batch[t]}
SlotsOf(c) == {i \in DOMAIN queue : queue[i] = c}
WorkOf(c)  == {w \in Workers : wCur[w] = c}

Holders(c) ==
  ({"io"} \X IoOf(c)) \cup ({"in"} \X InOf(c)) \cup ({"out"} \X OutOf(c)) \cup
  ({"queue"} \X SlotsOf(c)) \cup ({"worker"} \X WorkOf(c))

\* Two threads never work on one connection, which no lock protects.
ExclusiveConn == \A c \in Conns : \A x, y \in Holders(c) : x = y

\* A connection somebody holds cannot be reported to somebody else: only its
\* own I/O thread sees a level triggered EPOLLOUT again.
HeldIsDisarmed ==
  \A c \in Conns : Holders(c) # {} =>
    \/ reg[c] = "off"
    \/ reg[c] = "out" /\ Holders(c) \subseteq {<<"io", home[c]>>, <<"out", home[c]>>}

\* No thread follows a pointer to a deleted Conn, or calls epoll_ctl for a
\* descriptor that is no longer registered (the assertions of epollctl.hpp).
NoUseAfterFree ==
  \A c \in Conns : Holders(c) # {} => mem[c] = "live" /\ reg[c] # "none"

\* A connection nobody holds waits for the event that brings its next step:
\* the rest of a request, or room for the rest of a reply.
NoStranded ==
  \A c \in Conns : mem[c] = "live" /\ Holders(c) = {} =>
    \/ reg[c] = "in" /\ got[c] < 2 /\ left[c] = 0
    \/ reg[c] = "out" /\ got[c] = 2 /\ left[c] > 0

InGet     == {w \in Workers : wPc[w] = "get"}
Notifying == {t \in IO : ioPc[t] = "notify"}

\* As long as a worker sleeps, every queued connection has a worker on its way
\* to the queue or a notification on its way to one: getQueueData tests the
\* queue under the lock, pushInQueue notifies after giving it back.
NoLostWakeup ==
  (\E w \in Workers : wPc[w] = "asleep") =>
    Len(queue) <= Cardinality(InGet) + Cardinality(Notifying)

\* A client that reads its replies gets one for every request, however the
\* others behave.
Served ==
  \A c \in Conns \ Slow :
    (mem[c] = "live" /\ got[c] + unread[c] = 2) ~>
      (mem[c] = "freed" \/ got[c] + unread[c] < 2)
-----------------------------------------------------------------------------
(* The inductive invariant: a connection is at one of six places.          *)

Pointers(c, i, n, o, q, w) ==
  IoOf(c) = i /\ InOf(c) = n /\ OutOf(c) = o /\ SlotsOf(c) = q /\ WorkOf(c) = w

\* Nobody has a pointer: not accepted or released, or armed.
Unheld(c) ==
  /\ Pointers(c, {}, {}, {}, {}, {})
  /\ \/ reg[c] = "none" /\ mem[c] \in {"new", "backlog"} /\ got[c] = 0 /\ left[c] = 0
     \/ reg[c] = "none" /\ mem[c] = "freed"
     \/ reg[c] = "in" /\ mem[c] = "live" /\ got[c] < 2 /\ left[c] = 0
     \/ reg[c] = "out" /\ mem[c] = "live" /\ got[c] = 2 /\ left[c] > 0

\* Its I/O thread has been told that it can read, or write.
ReportedIn(c) ==
  /\ Pointers(c, {}, {home[c]}, {}, {}, {})
  /\ reg[c] = "off" /\ mem[c] = "live" /\ got[c] < 2 /\ left[c] = 0

ReportedOut(c) ==
  /\ Pointers(c, {}, {}, {home[c]}, {}, {})
  /\ reg[c] = "out" /\ mem[c] = "live" /\ got[c] = 2 /\ left[c] > 0

\* Its I/O thread is handling it.
AtIo(c) ==
  /\ Pointers(c, {home[c]}, {}, {}, {}, {})
  /\ mem[c] = "live"
  /\ \/ ioPc[home[c]] = "push" /\ reg[c] = "off" /\ got[c] = 2 /\ left[c] = 0
     \/ ioPc[home[c]] = "arm" /\ reg[c] \in {"off", "out"} /\ got[c] < 2 /\ left[c] = 0
     \/ ioPc[home[c]] = "free" /\ reg[c] \in {"off", "out"}

Queued(c) ==
  /\ \E i \in DOMAIN queue : Pointers(c, {}, {}, {}, {i}, {})
  /\ reg[c] = "off" /\ mem[c] = "live" /\ got[c] = 2 /\ left[c] = 0

AtWorker(c) ==
  /\ reg[c] = "off" /\ mem[c] = "live"
  /\ \E w \in Workers :
       /\ Pointers(c, {}, {}, {}, {}, {w})
       /\ \/ wPc[w] = "encode" /\ got[c] = 2 /\ left[c] = 0
          \/ wPc[w] \in {"mod", "send"} /\ got[c] = 2 /\ left[c] > 0
          \/ wPc[w] = "arm" /\ got[c] < 2 /\ left[c] = 0
          \/ wPc[w] = "free"

OnePlace(c) ==
  \/ Unheld(c) \/ ReportedIn(c) \/ ReportedOut(c)
  \/ AtIo(c) \/ Queued(c) \/ AtWorker(c)

\* A thread has a connection exactly where the code uses one.
InUse ==
  /\ \A t \in IO : ioCur[t] \in Conns <=> ioPc[t] \in {"free", "push", "arm"}
  /\ \A w \in Workers : wCur[w] \in Conns <=> wPc[w] \notin {"get", "asleep"}
  /\ \A t \in IO : ioPc[t] = "wait" => batch[t] = {}

\* A client does not send more than the request it waits for.
OneRequest == \A c \in Conns : got[c] + unread[c] <= 2

IInv == TypeOK /\ InUse /\ OneRequest /\ \A c \in Conns : OnePlace(c)
=============================================================================
