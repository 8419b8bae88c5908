-------------------------- MODULE CoroutineServer --------------------------
(***************************************************************************)
(* EpollReactorSingleProcessCoroutine, and one process of                  *)
(* EpollReactorProcessPoolCoroutine: an event loop, the main coroutine,    *)
(* that creates a coroutine running handlerClient at the first event of a  *)
(* connection and resumes it at every later one.  handlerClient is written *)
(* as if its reads and writes blocked; it yields where they would.         *)
(*                                                                         *)
(* The two halves of a request, and of a reply, stand for its bytes; the   *)
(* send buffer of a socket holds one half.  The process is one thread:     *)
(* only the clients act between its steps.                                 *)
(***************************************************************************)
EXTENDS Coroutine

CONSTANTS
  Conns,         \* the EventData objects of client connections
  Slow,          \* the connections whose client does not read
  Loads,         \* bounds on the connections, and on the requests of all of them
  None           \* no connection; also the listening socket in an event

ASSUME CoroutineServerAssumption ==
  /\ None \notin Conns
  /\ Slow \subseteq Conns
  /\ Loads \subseteq [connections : Nat, requests : Nat]

VARIABLES
  load,    \* the member of Loads that bounds the run; it does not change
  peer,    \* peer[c]: FALSE once the client has closed or reset
  unread,  \* unread[c]: halves of the request in the receive buffer
  room,    \* room[c]: halves the send buffer has room for, 0 or 1
  asked,   \* halves of requests the clients have sent
  mem,     \* mem[c]: "new", "backlog" (connected, not accepted), "live", "freed"
  reg,     \* reg[c]: registration in epoll: "none", "in", "out" (level triggered)
  got,     \* got[c]: halves of the request in the codec
  left,    \* left[c]: halves of the reply to send
  cid,     \* cid[c]: cid_ of the EventData
  owner,   \* owner[i]: the EventData bound to the entry function of coroutine i
  hpc,     \* hpc[i]: where handlerClient is in coroutine i
  batch,   \* the events of the last epoll_wait not yet handled
  loop,    \* where the event loop is: "wait", "events", "wake", "aborted"
  cur      \* the connection of the event being handled

client  == <<load, peer, unread, room, asked>>
conn    == <<mem, reg, got, left, cid>>
handler == <<owner, hpc>>
reactor == <<batch, loop, cur>>
server  == <<client, conn, handler, reactor>>
vars    == <<schedule, server>>

Init ==
  /\ ScheduleInit
  /\ load \in Loads
  /\ peer = [c \in Conns |-> TRUE] /\ unread = [c \in Conns |-> 0]
  /\ room = [c \in Conns |-> 1] /\ asked = 0
  /\ mem = [c \in Conns |-> "new"] /\ reg = [c \in Conns |-> "none"]
  /\ got = [c \in Conns |-> 0] /\ left = [c \in Conns |-> 0]
  /\ cid = [c \in Conns |-> kInvalidRoutineId]
  /\ owner = [i \in Ids |-> None] /\ hpc = [i \in Ids |-> "none"]
  /\ batch = {} /\ loop = "wait" /\ cur = None
-----------------------------------------------------------------------------
(* The clients.  A client has read the reply before it sends again. *)

Connected == {c \in Conns : mem[c] \in {"backlog", "live"}}

Connect(c) ==
  /\ mem[c] = "new"
  /\ Cardinality({d \in Conns : mem[d] # "new"}) < load.connections
  /\ mem' = [mem EXCEPT ![c] = "backlog"]
  /\ UNCHANGED <<schedule, client, reg, got, left, cid, handler, reactor>>

ClientSend(c) ==
  /\ c \in Connected /\ peer[c]
  /\ got[c] + unread[c] < 2 /\ room[c] = 1
  /\ asked < 2 * load.requests
  /\ asked' = asked + 1
  /\ unread' = [unread EXCEPT ![c] = @ + 1]
  /\ UNCHANGED <<schedule, load, peer, room, conn, handler, reactor>>

ClientRecv(c) ==
  /\ room[c] = 0 /\ c \notin Slow
  /\ room' = [room EXCEPT ![c] = 1]
  /\ UNCHANGED <<schedule, load, peer, unread, asked, conn, handler, reactor>>

ClientClose(c) ==
  /\ c \in Connected /\ peer[c]
  /\ peer' = [peer EXCEPT ![c] = FALSE]
  /\ UNCHANGED <<schedule, load, unread, room, asked, conn, handler, reactor>>
-----------------------------------------------------------------------------
(* The event loop. *)

Ready ==
  {<<c, "in">>  : c \in {d \in Conns : reg[d] = "in" /\ (unread[d] > 0 \/ ~peer[d])}} \cup
  {<<c, "out">> : c \in {d \in Conns : reg[d] = "out" /\ (room[d] > 0 \/ ~peer[d])}} \cup
  (IF \E c \in Conns : mem[c] = "backlog" THEN {<<None, "in">>} ELSE {})

EpollWait ==
  /\ InMain /\ loop = "wait"
  /\ Ready # {}
  /\ batch' = Ready
  /\ loop' = "events"
  /\ UNCHANGED <<schedule, client, conn, handler, cur>>

EndOfBatch ==
  /\ InMain /\ loop = "events" /\ batch = {}
  /\ loop' = "wait"
  /\ UNCHANGED <<schedule, client, conn, handler, batch, cur>>

Accept ==
  /\ InMain /\ loop = "events" /\ <<None, "in">> \in batch
  /\ batch' = batch \ {<<None, "in">>}
  /\ mem' = [c \in Conns |-> IF mem[c] = "backlog" THEN "live" ELSE mem[c]]
  /\ reg' = [c \in Conns |-> IF mem[c] = "backlog" THEN "in" ELSE reg[c]]
  /\ UNCHANGED <<schedule, client, got, left, cid, handler, loop, cur>>

Take(c) ==
  /\ InMain /\ loop = "events"
  /\ \E event \in batch : event[1] = c /\ batch' = batch \ {event}
  /\ cur' = c /\ loop' = "wake"
  /\ UNCHANGED <<client, mem, reg, got, left>>

\* The first event creates the coroutine, if the pool still has one.
FirstEvent(c) ==
  /\ Take(c) /\ cid[c] = kInvalidRoutineId
  /\ \/ \E i \in Ids :
          /\ CoroutineCreate(i)
          /\ cid' = [cid EXCEPT ![c] = i]
          /\ owner' = [owner EXCEPT ![i] = c]
          /\ hpc' = [hpc EXCEPT ![i] = "read"]
     \/ Exhausted /\ UNCHANGED <<schedule, cid, handler>>

\* Mutant: a new coroutine for every event.
NextEventCreates(c) ==
  /\ Take(c) /\ cid[c] # kInvalidRoutineId
  /\ \E i \in Ids :
       /\ CoroutineCreate(i)
       /\ cid' = [cid EXCEPT ![c] = i]
       /\ owner' = [owner EXCEPT ![i] = c]
       /\ hpc' = [hpc EXCEPT ![i] = "read"]

NextEvent(c) ==
  /\ Take(c) /\ cid[c] # kInvalidRoutineId
  /\ UNCHANGED <<schedule, cid, handler>>

Woken == loop' = "events" /\ cur' = None /\ UNCHANGED <<client, conn, handler, batch>>

\* CoroutineResumeById; its NotRunnable is ignored, and never happens: the
\* coroutine of a connection with an event has yielded (SuspendedWaits).
Wake ==
  /\ loop = "wake" /\ cid[cur] # kInvalidRoutineId
  /\ \/ CoroutineResumeById(cid[cur])
     \/ InMain /\ ~Runnable(cid[cur]) /\ UNCHANGED schedule
  /\ Woken

\* CoroutineResumeById asserts that the id is valid: abort() ends the process.
Abort ==
  /\ loop = "wake" /\ cid[cur] = kInvalidRoutineId
  /\ loop' = "aborted"
  /\ UNCHANGED <<schedule, client, conn, handler, batch, cur>>
-----------------------------------------------------------------------------
(* handlerClient. *)

In(i, place) == InUser(i) /\ hpc[i] = place
Goto(i, place) == hpc' = [hpc EXCEPT ![i] = place] /\ UNCHANGED owner

ReadSome(i) ==
  LET c == owner[i] IN
  /\ In(i, "read") /\ unread[c] > 0
  /\ got' = [got EXCEPT ![c] = @ + unread[c]]
  /\ unread' = [unread EXCEPT ![c] = 0]
  /\ Goto(i, IF got'[c] = 2 THEN "mod" ELSE "read")
  /\ UNCHANGED <<schedule, load, peer, room, asked, mem, reg, left, cid, reactor>>

ReadAgain(i) ==
  /\ In(i, "read") /\ unread[owner[i]] = 0 /\ peer[owner[i]]
  /\ CoroutineYield(i)
  /\ UNCHANGED server

\* The end of the stream, or an error.
ReadFails(i) ==
  /\ In(i, "read") /\ ~peer[owner[i]]
  /\ Goto(i, "free")
  /\ UNCHANGED <<schedule, client, conn, reactor>>

\* Mutant: the registration is left as it is.
ModToWriteNot(i) ==
  /\ In(i, "mod")
  /\ left' = [left EXCEPT ![owner[i]] = 2]
  /\ Goto(i, "write")
  /\ UNCHANGED <<schedule, client, mem, reg, got, cid, reactor>>

\* EnCode and ModToWriteEvent.
ModToWrite(i) ==
  /\ In(i, "mod")
  /\ left' = [left EXCEPT ![owner[i]] = 2]
  /\ reg' = [reg EXCEPT ![owner[i]] = "out"]
  /\ Goto(i, "write")
  /\ UNCHANGED <<schedule, client, mem, got, cid, reactor>>

\* Mutant: no ModToReadEvent after the reply.
WriteSomeNoMod(i) ==
  LET c == owner[i] IN
  /\ In(i, "write") /\ room[c] > 0
  /\ room' = [room EXCEPT ![c] = 0]
  /\ left' = [left EXCEPT ![c] = @ - 1]
  /\ got' = [got EXCEPT ![c] = IF left[c] = 1 THEN 0 ELSE @]
  /\ Goto(i, IF left[c] = 1 THEN "read" ELSE "write")
  /\ UNCHANGED <<schedule, load, peer, unread, asked, mem, reg, cid, reactor>>

\* Mutant: one write too many.
WriteSomeEndless(i) ==
  LET c == owner[i] IN
  /\ In(i, "write") /\ room[c] > 0
  /\ room' = [room EXCEPT ![c] = 0]
  /\ left' = [left EXCEPT ![c] = @ - 1]
  /\ \/ left[c] > 0 /\ UNCHANGED <<got, reg>> /\ Goto(i, "write")
     \/ /\ left[c] = 0
        /\ got' = [got EXCEPT ![c] = 0]
        /\ reg' = [reg EXCEPT ![c] = "in"]
        /\ Goto(i, "read")
  /\ UNCHANGED <<schedule, load, peer, unread, asked, mem, cid, reactor>>

\* After the last half ModToReadEvent, and the next round with a new Codec.
WriteSome(i) ==
  LET c == owner[i] IN
  /\ In(i, "write") /\ room[c] > 0
  /\ room' = [room EXCEPT ![c] = 0]
  /\ left' = [left EXCEPT ![c] = @ - 1]
  /\ \/ left[c] > 1 /\ UNCHANGED <<got, reg>> /\ Goto(i, "write")
     \/ /\ left[c] = 1
        /\ got' = [got EXCEPT ![c] = 0]
        /\ reg' = [reg EXCEPT ![c] = "in"]
        /\ Goto(i, "read")
  /\ UNCHANGED <<schedule, load, peer, unread, asked, mem, cid, reactor>>

WriteAgain(i) ==
  /\ In(i, "write") /\ room[owner[i]] = 0 /\ peer[owner[i]]
  /\ CoroutineYield(i)
  /\ UNCHANGED server

WriteFails(i) ==
  /\ In(i, "write") /\ ~peer[owner[i]]
  /\ Goto(i, "free")
  /\ UNCHANGED <<schedule, client, conn, reactor>>

\* releaseConn, and the handler returns.
Release(i) ==
  /\ In(i, "free")
  /\ reg' = [reg EXCEPT ![owner[i]] = "none"]
  /\ mem' = [mem EXCEPT ![owner[i]] = "freed"]
  /\ Goto(i, "none")
  /\ Finish(i)
  /\ UNCHANGED <<client, got, left, cid, reactor>>
-----------------------------------------------------------------------------
Client ==
  \E c \in Conns : Connect(c) \/ ClientSend(c) \/ ClientRecv(c) \/ ClientClose(c)

Switch == (ResumeReturn \/ \E i \in Ids : Enter(i)) /\ UNCHANGED server

Process ==
  \/ EpollWait \/ EndOfBatch \/ Accept \/ Wake \/ Abort \/ Switch
  \/ \E c \in Conns : FirstEvent(c) \/ NextEvent(c)
  \/ \E i \in Ids :
       \/ ReadSome(i) \/ ReadAgain(i) \/ ReadFails(i) \/ ModToWrite(i)
       \/ WriteSome(i) \/ WriteAgain(i) \/ WriteFails(i) \/ Release(i)

Next == Client \/ Process

Spec == Init /\ [][Next]_vars

\* The process keeps running, and the clients that are not slow read what has
\* been sent to them.
FairSpec ==
  /\ Spec
  /\ WF_vars(Process)
  /\ \A c \in Conns \ Slow : WF_vars(ClientRecv(c))
-----------------------------------------------------------------------------
(* Properties. *)

\* The types of EventData and of the event loop.
TypeOK ==
  /\ ScheduleTypeOK /\ load \in Loads
  /\ peer \in [Conns -> BOOLEAN] /\ unread \in [Conns -> 0 .. 2]
  /\ room \in [Conns -> 0 .. 1] /\ asked \in 0 .. 2 * load.requests
  /\ mem \in [Conns -> {"new", "backlog", "live", "freed"}]
  /\ reg \in [Conns -> {"none", "in", "out"}]
  /\ got \in [Conns -> 0 .. 2] /\ left \in [Conns -> 0 .. 2]
  /\ cid \in [Conns -> Ids \cup {kInvalidRoutineId}]
  /\ owner \in [Ids -> Conns \cup {None}]
  /\ hpc \in [Ids -> {"none", "read", "mod", "write", "free"}]
  /\ batch \subseteq (Conns \cup {None}) \X {"in", "out"}
  /\ loop \in {"wait", "events", "wake", "aborted"}
  /\ cur \in Conns \cup {None}

\* A connection and its coroutine belong to each other until it is released,
\* although ids are used again: no event wakes the handler of another client.
\* Nothing that is still to run refers to a deleted EventData.
OwnCoroutine ==
  /\ \A c \in Conns : mem[c] = "live" /\ cid[c] # kInvalidRoutineId =>
       state[cid[c]] # "Idle" /\ owner[cid[c]] = c
  /\ \A i \in Ids : state[i] # "Idle" =>
       /\ cid[owner[i]] = i
       /\ mem[owner[i]] = "live" /\ reg[owner[i]] # "none"
  /\ \A event \in batch : event[1] # None => mem[event[1]] = "live"
  /\ cur # None => mem[cur] = "live"

\* A suspended handler is registered for the very event it waits for, and a
\* connection without a coroutine for the one that creates it.
SuspendedWaits ==
  /\ \A i \in Ids : state[i] = "Suspend" =>
       LET c == owner[i] IN
       \/ hpc[i] = "read" /\ reg[c] = "in" /\ got[c] < 2
       \/ hpc[i] = "write" /\ reg[c] = "out" /\ left[c] > 0
  /\ \A c \in Conns :
       mem[c] = "live" /\ cid[c] = kInvalidRoutineId => reg[c] = "in"

\* Every event finds a coroutine: the assertion of CoroutineResumeById on its
\* id never ends the process.
NoAbort == loop # "aborted"

\* A client that reads its replies gets one for every request, even when others
\* do not read theirs, unless the assertion of NoAbort has failed.
Served ==
  \A c \in Conns \ Slow :
    (mem[c] = "live" /\ got[c] + unread[c] = 2) ~>
      (mem[c] = "freed" \/ got[c] + unread[c] < 2 \/ loop = "aborted")
-----------------------------------------------------------------------------
(* The inductive invariant. *)

\* What is known of an EventData: only a live one is registered, and the id it has
\* is that of its coroutine.
Bound(c) ==
  /\ mem[c] # "live" => reg[c] = "none"
  /\ mem[c] \in {"new", "backlog"} => cid[c] = kInvalidRoutineId
  /\ mem[c] = "live" /\ cid[c] = kInvalidRoutineId => reg[c] = "in"
  /\ mem[c] = "live" /\ cid[c] # kInvalidRoutineId =>
       state[cid[c]] # "Idle" /\ owner[cid[c]] = c
  /\ cid[c] = kInvalidRoutineId => got[c] = 0
  /\ got[c] + unread[c] <= 2

\* What handlerClient knows, wherever it is, of its EventData.
Serving(i) ==
  LET c == owner[i] IN
  state[i] # "Idle" =>
    /\ c \in Conns /\ cid[c] = i /\ mem[c] = "live" /\ reg[c] # "none"
    /\ state[i] # "Run" => hpc[i] \in {"read", "write"}
    /\ hpc[i] = "read" => reg[c] = "in" /\ got[c] < 2
    /\ hpc[i] = "write" => reg[c] = "out" /\ left[c] > 0

\* There is at most one event of a connection, and none of one that is handled.
Batched ==
  /\ \A event \in batch : event[1] # None =>
       mem[event[1]] = "live" /\ event[1] # cur /\ \A i \in Ids : cpu = i => event[1] # owner[i]
  /\ \A e, f \in batch : e[1] = f[1] => e = f
  /\ cur # None => mem[cur] = "live" /\ loop \in {"wake", "aborted"}
  /\ loop \in {"wake", "aborted"} => cur # None /\ InMain

IInv ==
  /\ TypeOK /\ ScheduleIInv /\ Batched
  /\ \A c \in Conns : Bound(c)
  /\ \A i \in Ids : Serving(i)
=============================================================================
