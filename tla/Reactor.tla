------------------------------ MODULE Reactor ------------------------------
(***************************************************************************)
(* One event loop that does everything itself: EpollReactorSingleProcess   *)
(* (level triggered, with its three options), EpollReactorSingleProcessET  *)
(* (edge triggered), each thread of EpollReactorThreadPool, and the two    *)
(* reactors without epoll, PollReactorSingleProcess and                    *)
(* SelectReactorSingleProcess, which keep read_fds and write_fds, scan     *)
(* them after every poll() or select(), and leave the sockets of clients   *)
(* blocking.                                                               *)
(*                                                                         *)
(* The two halves of a request, and of a reply, stand for its bytes; the   *)
(* send buffer of a socket holds one half.  The requests of a connection   *)
(* have one length, so that the buffer of its Codec holds exactly one, and *)
(* a client may send the next before it has the reply.  Every read(),      *)
(* write() and epoll call is a step of its own: clients act in between.    *)
(***************************************************************************)
EXTENDS Integers, FiniteSets

CONSTANTS
  Conns,       \* the Conn objects of client connections
  Slow,        \* the connections whose client does not read
  MaxUnread,   \* bound on the halves of requests waiting in a receive buffer
  Options,     \* the programs and command lines, each a set of options, see below
  None         \* no connection; also the listening socket in an event

ASSUME ReactorAssumption ==
  /\ None \notin Conns
  /\ Slow \subseteq Conns
  /\ MaxUnread \in Nat \ {0}
  /\ Options \subseteq SUBSET
       {"et",           \* EPOLLET
        "multiio",      \* is_multi_io_: read or write again until EAGAIN
        "la",           \* accept until EAGAIN (max_conn 2048), not once
        "writefirst",   \* write before waiting for EPOLLOUT
        "poll",         \* poll or select in place of epoll
        "few"}          \* select, with one descriptor free below FD_SETSIZE
  \* The edge triggered program, and those without epoll, read and write until they
  \* cannot go on; the latter have none of the other options.
  /\ \A o \in Options :
       /\ "et" \in o \/ "poll" \in o => "multiio" \in o
       /\ "poll" \in o => "et" \notin o /\ "writefirst" \notin o
       /\ "few" \in o => "poll" \in o

VARIABLES
  options, \* the member of Options that runs; it does not change
  peer,    \* peer[c]: FALSE once the client has closed or reset
  unread,  \* unread[c]: halves of requests in the receive buffer
  room,    \* room[c]: halves the send buffer has room for, 0 or 1
  mem,     \* mem[c]: "new", "backlog" (connected, not accepted), "live", "freed"
  reg,     \* reg[c]: registration in epoll: "none", "in", "out"; or in
           \* read_fds ("in") or write_fds ("out")
  edge,    \* edge[c]: something has happened since c was last reported
  got,     \* got[c]: halves of the request in the codec
  left,    \* left[c]: halves of the reply to send
  batch,   \* the events of the last epoll_wait not yet handled
  pc,      \* where the loop is: "wait", "events", or in the handler "read",
           \* "one" (OneMessage), "write", "finish" (FinishWrite), "free"
  cur      \* the event being handled

socket  == <<peer, unread, room>>
conn    == <<mem, reg, edge, got, left>>
reactor == <<batch, pc, cur>>
vars    == <<options, socket, conn, reactor>>

NoEvent == <<None, "in">>

Blocking == "poll" \in options

Init ==
  /\ options \in Options
  /\ peer = [c \in Conns |-> TRUE] /\ unread = [c \in Conns |-> 0]
  /\ room = [c \in Conns |-> 1]
  /\ mem = [c \in Conns |-> "new"] /\ reg = [c \in Conns |-> "none"]
  /\ edge = [c \in Conns |-> FALSE]
  /\ got = [c \in Conns |-> 0] /\ left = [c \in Conns |-> 0]
  /\ batch = {} /\ pc = "wait" /\ cur = NoEvent
-----------------------------------------------------------------------------
(* The clients, and what epoll notes of what they do. *)

Notice(c, on) == edge' = [edge EXCEPT ![c] = @ \/ reg[c] \in on]

Connect(c) ==
  /\ mem[c] = "new"
  /\ mem' = [mem EXCEPT ![c] = "backlog"]
  /\ UNCHANGED <<options, socket, reg, edge, got, left, reactor>>

ClientSend(c) ==
  /\ mem[c] \in {"backlog", "live"} /\ peer[c]
  /\ unread[c] < MaxUnread
  /\ unread' = [unread EXCEPT ![c] = @ + 1]
  /\ Notice(c, {"in"})
  /\ UNCHANGED <<options, peer, room, mem, reg, got, left, reactor>>

ClientRecv(c) ==
  /\ room[c] = 0 /\ (c \in Slow => Blocking)
  /\ room' = [room EXCEPT ![c] = 1]
  /\ Notice(c, {"out"})
  /\ UNCHANGED <<options, peer, unread, mem, reg, got, left, reactor>>

ClientClose(c) ==
  /\ mem[c] \in {"backlog", "live"} /\ peer[c]
  /\ peer' = [peer EXCEPT ![c] = FALSE]
  /\ Notice(c, {"in", "out"})
  /\ UNCHANGED <<options, unread, room, mem, reg, got, left, reactor>>
-----------------------------------------------------------------------------
(* epoll. *)

Readable(c) == unread[c] > 0 \/ ~peer[c]
Writable(c) == room[c] > 0 \/ ~peer[c]
Due(c) ==
  \/ reg[c] = "in" /\ Readable(c)
  \/ reg[c] = "out" /\ Writable(c)

Reported == {c \in Conns : Due(c) /\ ("et" \in options => edge[c])}
Ready ==
  {<<c, reg[c]>> : c \in Reported} \cup
  (IF \E c \in Conns : mem[c] = "backlog" THEN {<<None, "in">>} ELSE {})

\* Mutant: epoll_ctl does not look whether the event is already there.
EpollCtlBlind(c, event) ==
  /\ reg' = [reg EXCEPT ![c] = event]
  /\ UNCHANGED edge

\* EPOLL_CTL_ADD and EPOLL_CTL_MOD look whether the event is already there.
EpollCtl(c, event) ==
  /\ reg' = [reg EXCEPT ![c] = event]
  /\ edge' = [edge EXCEPT ![c] = IF event = "in" THEN Readable(c) ELSE Writable(c)]

EpollWait ==
  /\ ~Blocking /\ pc = "wait"
  /\ Ready # {}
  /\ batch' = Ready
  /\ edge' = [c \in Conns |-> edge[c] /\ c \notin Reported]
  /\ pc' = "events"
  /\ UNCHANGED <<options, socket, mem, reg, got, left, cur>>

EndOfBatch ==
  /\ pc = "events" /\ batch = {}
  /\ pc' = "wait"
  /\ UNCHANGED <<options, socket, conn, batch, cur>>
-----------------------------------------------------------------------------
(* The handlers. *)

Backlog == {c \in Conns : mem[c] = "backlog"}

\* LoopAccept: until EAGAIN, at most max_conn.
Accept ==
  /\ "few" \notin options
  /\ pc = "events" /\ <<None, "in">> \in batch
  /\ batch' = batch \ {<<None, "in">>}
  /\ \E new \in SUBSET Backlog :
       /\ IF "la" \in options THEN new = Backlog
          ELSE Cardinality(new) = 1
       /\ mem' = [c \in Conns |-> IF c \in new THEN "live" ELSE mem[c]]
       /\ reg' = [c \in Conns |-> IF c \in new THEN "in" ELSE reg[c]]
       /\ edge' = [c \in Conns |-> IF c \in new THEN Readable(c) ELSE edge[c]]
  /\ UNCHANGED <<options, socket, got, left, pc, cur>>

Handle(c) ==
  /\ ~Blocking /\ pc = "events"
  /\ cur' \in batch /\ cur'[1] = c
  /\ batch' = batch \ {cur'}
  /\ pc' = IF cur'[2] = "in" THEN "read" ELSE "write"
  /\ UNCHANGED <<options, socket, conn>>

\* Mutant: is_multi_io_ is taken for FALSE.
ReadSomeOnce(c, n) ==
  /\ pc = "read" /\ cur[1] = c
  /\ n <= unread[c] /\ n <= 2 - got[c]
  /\ got' = [got EXCEPT ![c] = @ + n]
  /\ unread' = [unread EXCEPT ![c] = @ - n]
  /\ pc' = "one"
  /\ UNCHANGED <<options, peer, room, mem, reg, edge, left, batch, cur>>

\* Mutant: the room in the buffer of the Codec does not count.
ReadSomeOver(c, n) ==
  /\ pc = "read" /\ cur[1] = c
  /\ n <= unread[c]
  /\ got' = [got EXCEPT ![c] = @ + n]
  /\ unread' = [unread EXCEPT ![c] = @ - n]
  /\ pc' = IF got'[c] = 2 \/ "multiio" \notin options THEN "one" ELSE "read"
  /\ UNCHANGED <<options, peer, room, mem, reg, edge, left, batch, cur>>

\* Read: one read(), or again until the message is complete.
ReadSome(c, n) ==
  /\ pc = "read" /\ cur[1] = c
  /\ n <= unread[c] /\ n <= 2 - got[c]
  /\ got' = [got EXCEPT ![c] = @ + n]
  /\ unread' = [unread EXCEPT ![c] = @ - n]
  /\ pc' = IF got'[c] = 2 \/ "multiio" \notin options THEN "one" ELSE "read"
  /\ UNCHANGED <<options, peer, room, mem, reg, edge, left, batch, cur>>

\* EAGAIN.
ReadAgain(c) ==
  /\ ~Blocking /\ pc = "read" /\ cur[1] = c
  /\ unread[c] = 0 /\ peer[c]
  /\ pc' = "one"
  /\ UNCHANGED <<options, socket, conn, batch, cur>>

Fails(c, where) ==
  /\ pc = where /\ cur[1] = c
  /\ ~peer[c]
  /\ pc' = "free"
  /\ UNCHANGED <<options, socket, conn, batch, cur>>

OneMessage(c) ==
  /\ ~Blocking /\ pc = "one" /\ cur[1] = c
  /\ \/ got[c] < 2 /\ pc' = "events" /\ UNCHANGED left
     \/ /\ got[c] = 2
        /\ left' = [left EXCEPT ![c] = 2]
        /\ pc' = IF "writefirst" \in options THEN "write" ELSE "finish"
  /\ UNCHANGED <<options, socket, mem, reg, edge, got, batch, cur>>

\* Write: one write(), or again until the reply is complete.
WriteSome(c) ==
  /\ pc = "write" /\ cur[1] = c
  /\ room[c] > 0
  /\ room' = [room EXCEPT ![c] = 0]
  /\ left' = [left EXCEPT ![c] = @ - 1]
  /\ pc' = IF left'[c] = 0 \/ "multiio" \notin options THEN "finish" ELSE "write"
  /\ UNCHANGED <<options, peer, unread, mem, reg, edge, got, batch, cur>>

WriteAgain(c) ==
  /\ ~Blocking /\ pc = "write" /\ cur[1] = c
  /\ room[c] = 0 /\ peer[c]
  /\ pc' = "finish"
  /\ UNCHANGED <<options, socket, conn, batch, cur>>

\* FinishWrite: Reset and wait for the next request; or, if the event was a
\* request, wait until the reply can be sent.
FinishWrite(c) ==
  /\ ~Blocking /\ pc = "finish" /\ cur[1] = c
  /\ \/ left[c] = 0 /\ got' = [got EXCEPT ![c] = 0] /\ EpollCtl(c, "in")
     \/ left[c] > 0 /\ cur[2] = "in" /\ EpollCtl(c, "out") /\ UNCHANGED got
     \/ left[c] > 0 /\ cur[2] = "out" /\ UNCHANGED <<got, reg, edge>>
  /\ pc' = "events"
  /\ UNCHANGED <<options, socket, mem, left, batch, cur>>

\* Mutant: no continue after releaseConn.
ReleaseConnGoOn(c) ==
  /\ pc = "free" /\ cur[1] = c
  /\ reg' = [reg EXCEPT ![c] = "none"]
  /\ mem' = [mem EXCEPT ![c] = "freed"]
  /\ pc' = "finish"
  /\ UNCHANGED <<options, socket, edge, got, left, batch, cur>>

ReleaseConn(c) ==
  /\ pc = "free" /\ cur[1] = c
  /\ reg' = [reg EXCEPT ![c] = "none"]
  /\ mem' = [mem EXCEPT ![c] = "freed"]
  /\ pc' = "events"
  /\ UNCHANGED <<options, socket, edge, got, left, batch, cur>>
-----------------------------------------------------------------------------
(* poll and select: the same handlers around two sets of descriptors.      *)

\* Mutant: the revents are not looked at.
PolledAll == {c \in Conns : reg[c] # "none"}

\* updateFds, updateSet: the entries that poll() finds ready.
Polled == {c \in Conns : Due(c)}

PollWait ==
  /\ Blocking /\ pc = "wait"
  /\ Ready # {}
  /\ batch' = {<<c, reg[c]>> : c \in Polled} \cup (Ready \cap {NoEvent})
  /\ pc' = "events"
  /\ UNCHANGED <<options, socket, conn, cur>>

\* A descriptor that select cannot take is closed as soon as it is accepted.
AcceptBelow ==
  /\ "few" \in options
  /\ pc = "events" /\ NoEvent \in batch
  /\ batch' = batch \ {NoEvent}
  /\ \E new \in SUBSET Backlog :
       /\ Cardinality(new) = IF \E c \in Conns : mem[c] = "live" THEN 0 ELSE 1
       /\ mem' = [c \in Conns |-> IF c \in new THEN "live"
                                  ELSE IF c \in Backlog THEN "freed" ELSE mem[c]]
       /\ reg' = [c \in Conns |-> IF c \in new THEN "in" ELSE reg[c]]
  /\ UNCHANGED <<options, socket, edge, got, left, pc, cur>>

\* The array, or the two loops, have read_fds before write_fds.
Scan(c) ==
  /\ Blocking /\ pc = "events"
  /\ cur' \in batch /\ cur'[1] = c
  /\ cur'[2] = "out" => \A event \in batch : event[2] = "out"
  /\ batch' = batch \ {cur'}
  /\ pc' = IF cur'[2] = "in" THEN "read" ELSE "write"
  /\ UNCHANGED <<options, socket, conn>>

\* OneMessage, EnCode, and on to write_fds.
MoveToWrite(c) ==
  /\ Blocking /\ pc = "one" /\ cur[1] = c
  /\ left' = [left EXCEPT ![c] = 2]
  /\ reg' = [reg EXCEPT ![c] = "out"]
  /\ pc' = "events"
  /\ UNCHANGED <<options, socket, mem, edge, got, batch, cur>>

\* FinishWrite, Reset, and back to read_fds.
MoveToRead(c) ==
  /\ Blocking /\ pc = "finish" /\ cur[1] = c
  /\ got' = [got EXCEPT ![c] = 0]
  /\ reg' = [reg EXCEPT ![c] = "in"]
  /\ pc' = "events"
  /\ UNCHANGED <<options, socket, mem, edge, left, batch, cur>>
-----------------------------------------------------------------------------
Client ==
  \E c \in Conns : Connect(c) \/ ClientSend(c) \/ ClientRecv(c) \/ ClientClose(c)

Process ==
  \/ EpollWait \/ PollWait \/ EndOfBatch \/ Accept \/ AcceptBelow
  \/ \E c \in Conns :
       \/ Scan(c) \/ MoveToWrite(c) \/ MoveToRead(c)
       \/ Handle(c) \/ OneMessage(c) \/ FinishWrite(c) \/ ReleaseConn(c)
       \/ \E n \in 1 .. 2 : ReadSome(c, n)
       \/ ReadAgain(c) \/ Fails(c, "read")
       \/ WriteSome(c) \/ WriteAgain(c) \/ Fails(c, "write")

Next == Client \/ Process

Spec == Init /\ [][Next]_vars

\* A client has sent half a request.
Midway(c) == (got[c] + unread[c]) % 2 = 1

\* The process keeps running, and the clients that are not slow read what has
\* been sent to them.  Nobody is slow with a server that blocks, and there every
\* client ends the request it has begun.
FairSpec ==
  /\ Spec
  /\ WF_vars(Process)
  /\ \A c \in Conns : /\ WF_vars(ClientRecv(c))
                       /\ WF_vars(Blocking /\ Midway(c) /\ ClientSend(c))
-----------------------------------------------------------------------------
(* Properties. *)

\* The types of Conn and of the event loop.
TypeOK ==
  /\ options \in Options
  /\ peer \in [Conns -> BOOLEAN] /\ unread \in [Conns -> 0 .. MaxUnread]
  /\ room \in [Conns -> 0 .. 1]
  /\ mem \in [Conns -> {"new", "backlog", "live", "freed"}]
  /\ reg \in [Conns -> {"none", "in", "out"}]
  /\ edge \in [Conns -> BOOLEAN]
  /\ got \in [Conns -> 0 .. 2] /\ left \in [Conns -> 0 .. 2]
  /\ batch \subseteq (Conns \cup {None}) \X {"in", "out"}
  /\ pc \in {"wait", "events", "read", "one", "write", "finish", "free"}
  /\ cur \in (Conns \cup {None}) \X {"in", "out"}

\* Whenever the loop goes back to epoll_wait, every connection is registered for
\* its next step, and is reported if that step can be taken already: no event
\* is lost, also if it came while the connection was being handled.
NoLostEvent ==
  pc = "wait" => \A c \in Conns : mem[c] = "live" =>
    /\ \/ reg[c] = "in" /\ got[c] < 2 /\ left[c] = 0
       \/ reg[c] = "out" /\ got[c] = 2 /\ left[c] > 0
    /\ Due(c) => <<c, reg[c]>> \in Ready

\* The events still to be handled are what their connections wait for: none has
\* been released, or has gone on, since epoll_wait reported it.
NoStaleEvent ==
  \A event \in batch \cup (IF pc \in {"wait", "events"} THEN {} ELSE {cur}) :
    event[1] # None => mem[event[1]] = "live" /\ reg[event[1]] = event[2]

\* A poll or select reactor waits for one client only when that client is in the
\* middle of a request or of reading a reply: one that is idle, or new under the
\* number of one that has gone, never stops the thread all others depend on.
BlocksMidway ==
  \A c \in Conns : Blocking /\ cur[1] = c /\ peer[c] =>
    /\ pc = "read" /\ unread[c] = 0 => got[c] = 1
    /\ pc = "write" /\ room[c] = 0 => left[c] = 1

\* What a client that reads its replies has sent is read, and every request is
\* answered, even when others do not read theirs; or the connection is released.
Served ==
  \A c \in Conns \ Slow :
    /\ (mem[c] = "live" /\ got[c] = 2) ~> (mem[c] = "freed" \/ got[c] < 2)
    /\ (mem[c] = "live" /\ unread[c] = MaxUnread) ~>
         (mem[c] = "freed" \/ unread[c] < MaxUnread)
-----------------------------------------------------------------------------
(* The inductive invariant. *)

Handling == pc \notin {"wait", "events"}

\* A connection that is not being handled waits for the start of its next step, and
\* what epoll has not noted of it has been reported.
Resting(c) ==
  mem[c] = "live" /\ (Handling => cur[1] # c) =>
    /\ \/ reg[c] = "in" /\ got[c] < 2 /\ left[c] = 0
       \/ reg[c] = "out" /\ got[c] = 2 /\ left[c] > 0
    /\ "et" \in options /\ Due(c) => edge[c] \/ \E event \in batch : event[1] = c

\* Before accept() there is nothing, and after the release no registration.
Apart(c) ==
  /\ mem[c] # "live" => reg[c] = "none"
  /\ mem[c] \in {"new", "backlog"} => got[c] = 0 /\ left[c] = 0

\* An event is the registration of a connection that is not being handled, and a
\* loop that blocks has found it ready.
Batched ==
  /\ \A event \in batch : event[1] # None =>
       /\ mem[event[1]] = "live" /\ reg[event[1]] = event[2]
       /\ Handling => event[1] # cur[1]
       /\ Blocking => Due(event[1])
  /\ pc = "wait" => batch = {}

\* What the handler knows at each of its places.
Handled ==
  Handling =>
    LET c == cur[1] IN
    /\ c \in Conns /\ mem[c] = "live" /\ reg[c] = cur[2]
    /\ pc = "read" =>
         cur[2] = "in" /\ got[c] < 2 /\ left[c] = 0 /\ (Blocking => Readable(c) \/ got[c] = 1)
    /\ pc = "one" =>
         /\ cur[2] = "in" /\ left[c] = 0 /\ (Blocking => got[c] = 2)
         /\ "et" \in options /\ got[c] < 2 /\ Due(c) => edge[c]
    /\ pc = "write" =>
         got[c] = 2 /\ left[c] > 0 /\ (Blocking => cur[2] = "out" /\ (Writable(c) \/ left[c] = 1))
    /\ pc = "finish" =>
         /\ got[c] = 2 /\ (Blocking => left[c] = 0)
         /\ "et" \in options /\ left[c] > 0 /\ cur[2] = "out" /\ Due(c) => edge[c]

IInv == TypeOK /\ Batched /\ Handled /\ \A c \in Conns : Resting(c) /\ Apart(c)
=============================================================================
