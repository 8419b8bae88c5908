------------------------------ MODULE MainSub ------------------------------
(***************************************************************************)
(* EpollReactorThreadPoolMS ("threads") and EpollReactorProcessPoolMS:     *)
(* main reactors accept connections and hand each to one sub reactor,      *)
(* at once or, with -mainread, when the first bytes arrive; sub reactors   *)
(* read the requests and write the replies.                                *)
(*                                                                         *)
(* Threads share one table of descriptors, and a main reactor registers    *)
(* the connection in the epoll of the sub reactor itself.  Processes pass  *)
(* the descriptor over a unix socket, and close their own copy.            *)
(*                                                                         *)
(* With "toomany" the system has no room for one more descriptor on its    *)
(* way (ETOOMANYREFS), and sendmsg() may fail.                             *)
(*                                                                         *)
(* The two halves of a request stand for its bytes; replies are written in *)
(* one piece.  Every epoll call, close() and delete is a step of its own.  *)
(***************************************************************************)
EXTENDS Integers, Sequences, FiniteSets

CONSTANTS
  Mains,        \* the main reactors
  Conns,        \* the client connections
  Deployments,  \* the options, the number of sub reactors, and the main reactor
                \* that gets each connection: the listening sockets share a port
  MaxInFlight,  \* what the buffer of a unix socket takes, in descriptors
  None,         \* no connection; also the listening socket in an event
  Gone          \* the owner of a closed connection

Subs     == UNION {0 .. d.sub - 1 : d \in Deployments}
Reactors == Mains \cup Subs

ASSUME MainSubAssumption ==
  /\ MaxInFlight \in Nat \ {0}
  /\ Deployments \subseteq [options : SUBSET {"threads", "mainread", "toomany"},
                             sub : Nat \ {0}, home : [Conns -> Mains]]
  /\ Gone \notin Reactors \cup {None}
  /\ None \notin Conns \cup Reactors /\ Conns \cap Reactors = {} /\ Mains \cap Subs = {}

VARIABLES
  options, sub_reactor_count, home,  \* the deployment; it does not change
  peer,    \* peer[c]: FALSE once the client has closed or reset
  unread,  \* unread[c]: halves of the request in the receive buffer
  sock,    \* sock[c]: "new", "backlog", "accepted"
  tables,  \* tables[c]: the tables with a descriptor of c
  link,    \* link[s]: the main reactors whose unix socket sub reactor s has accepted
  pipe,    \* pipe[m][s]: the descriptors sent from m to s and not received
  reg,     \* reg[e][c]: registration of c in the epoll of e: "none", "in", "out"
  mem,     \* mem[e][c]: the Conn of c made for e: "none", "live", "freed"
  got,     \* got[c]: halves of the request in the codec of its Conn
  index,   \* index[m]: the sub reactor that got the last connection
  batch,   \* batch[e]: the events of the last epoll_wait not yet handled
  pc, cur  \* where e is, and the connection it is handling

deploy  == <<options, sub_reactor_count, home>>
client  == <<deploy, peer, unread>>
kernel  == <<sock, tables, link, pipe>>
conn    == <<reg, mem, got>>
reactor == <<index, batch, pc, cur>>
vars    == <<client, kernel, conn, reactor>>

\* The table of descriptors e uses.
Table(e) == IF "threads" \in options THEN None ELSE e

Init ==
  /\ \E d \in Deployments :
       options = d.options /\ sub_reactor_count = d.sub /\ home = d.home
  /\ peer = [c \in Conns |-> TRUE] /\ unread = [c \in Conns |-> 0]
  /\ sock = [c \in Conns |-> "new"]
  /\ tables = [c \in Conns |-> {}]
  /\ link = [s \in Subs |-> {}] /\ pipe = [m \in Mains |-> [s \in Subs |-> <<>>]]
  /\ reg = [e \in Reactors |-> [c \in Conns |-> "none"]]
  /\ mem = [e \in Reactors |-> [c \in Conns |-> "none"]]
  /\ got = [c \in Conns |-> 0]
  /\ index = [m \in Mains |-> 0]
  /\ batch = [e \in Reactors |-> {}]
  /\ pc = [e \in Reactors |-> "events"] /\ cur = [e \in Reactors |-> None]
-----------------------------------------------------------------------------
(* The clients.  A client waits for the reply before its next request. *)

Sent(m, s, c) == \E i \in DOMAIN pipe[m][s] : pipe[m][s][i] = c
InFlight(c)   == \E m \in Mains, s \in Subs : Sent(m, s, c)
Referenced(c) == tables[c] # {} \/ InFlight(c)
Connected(c) == sock[c] = "backlog" \/ Referenced(c)

Connect(c) ==
  /\ sock[c] = "new"
  /\ sock' = [sock EXCEPT ![c] = "backlog"]
  /\ UNCHANGED <<client, tables, link, pipe, conn, reactor>>

ClientSend(c) ==
  /\ Connected(c) /\ peer[c]
  /\ got[c] + unread[c] < 2
  /\ unread' = [unread EXCEPT ![c] = @ + 1]
  /\ UNCHANGED <<deploy, peer, kernel, conn, reactor>>

ClientClose(c) ==
  /\ Connected(c) /\ peer[c]
  /\ peer' = [peer EXCEPT ![c] = FALSE]
  /\ UNCHANGED <<deploy, unread, kernel, conn, reactor>>
-----------------------------------------------------------------------------
(* What every reactor does. *)

Backlog(m) == {c \in Conns : home[c] = m /\ sock[c] = "backlog"}

\* A connection, the listening socket, or a unix socket with a descriptor.
Ready(e) ==
  {<<c, reg[e][c]>> : c \in {d \in Conns :
     \/ reg[e][d] = "in" /\ (unread[d] > 0 \/ ~peer[d])
     \/ reg[e][d] = "out"}} \cup
  {<<m, "in">> : m \in {n \in Mains : e \in Subs /\ n \in link[e] /\ pipe[n][e] # <<>>}} \cup
  (IF \/ e \in Mains /\ Backlog(e) # {}
      \/ e \in 0 .. sub_reactor_count - 1 /\ "threads" \notin options /\ link[e] # Mains
   THEN {<<None, "in">>} ELSE {})

\* When the last events are handled.
EpollWait(e) ==
  /\ pc[e] = "events" /\ batch[e] = {} /\ Ready(e) # {}
  /\ batch' = [batch EXCEPT ![e] = Ready(e)]
  /\ UNCHANGED <<client, kernel, conn, index, pc, cur>>

\* e takes the event and goes on to next, with c unless it has done with it.
Handle(e, c, event, next) ==
  /\ pc[e] = "events" /\ <<c, event>> \in batch[e]
  /\ batch' = [batch EXCEPT ![e] = @ \ {<<c, event>>}]
  /\ pc' = [pc EXCEPT ![e] = next]
  /\ cur' = [cur EXCEPT ![e] = IF next = "events" THEN None ELSE c]

Goto(e, next) ==
  /\ pc' = [pc EXCEPT ![e] = next]
  /\ cur' = [cur EXCEPT ![e] = IF next \in {"events", "accept"} THEN None ELSE @]
  /\ UNCHANGED batch

NewConn(e, c) ==
  /\ mem' = [mem EXCEPT ![e][c] = "live"]
  /\ reg' = [reg EXCEPT ![e][c] = "in"]

\* With its last descriptor a connection leaves every epoll it is registered in.
CloseFd(e) ==
  /\ pc[e] = "close"
  /\ tables' = [tables EXCEPT ![cur[e]] = @ \ {Table(e)}]
  /\ reg' = IF tables'[cur[e]] = {} /\ ~InFlight(cur[e])
            THEN [r \in Reactors |-> [reg[r] EXCEPT ![cur[e]] = "none"]] ELSE reg
  /\ Goto(e, IF mem[e][cur[e]] = "live" THEN "delete" ELSE "accept")
  /\ UNCHANGED <<client, sock, link, pipe, mem, got, index>>

Delete(e) ==
  /\ pc[e] = "delete"
  /\ mem' = [mem EXCEPT ![e][cur[e]] = "freed"]
  /\ Goto(e, "events")
  /\ UNCHANGED <<client, kernel, reg, got, index>>
-----------------------------------------------------------------------------
(* mainReactor. *)

\* LoopAccept begins, and ends when accept() finds no connection.
StartAccept(m) ==
  /\ Handle(m, None, "in", "accept")
  /\ UNCHANGED <<client, kernel, conn, index>>

EndAccept(m) ==
  /\ pc[m] = "accept" /\ Backlog(m) = {}
  /\ Goto(m, "events")
  /\ UNCHANGED <<client, kernel, conn, index>>

Accept(m) ==
  /\ pc[m] = "accept"
  /\ \E c \in Backlog(m) :
       /\ sock' = [sock EXCEPT ![c] = "accepted"]
       /\ tables' = [tables EXCEPT ![c] = {Table(m)}]
       /\ \/ "mainread" \in options /\ NewConn(m, c) /\ UNCHANGED <<pc, cur>>
          \/ /\ "mainread" \notin options
             /\ pc' = [pc EXCEPT ![m] = "give"] /\ cur' = [cur EXCEPT ![m] = c]
             /\ UNCHANGED <<mem, reg>>
  /\ UNCHANGED <<client, link, pipe, got, index, batch>>

\* Mutants: the connection stays in the epoll of the main reactor; the main
\* reactor reads the first bytes itself.
ClearEventNot(m, c) ==
  /\ Handle(m, c, "in", "give")
  /\ UNCHANGED <<client, kernel, reg, mem, got, index>>

ClearEventReads(m, c) ==
  /\ Handle(m, c, "in", "give")
  /\ reg' = [reg EXCEPT ![m][c] = "none"]
  /\ unread' = [unread EXCEPT ![c] = 0]
  /\ UNCHANGED <<deploy, peer, kernel, mem, got, index>>

\* The first bytes of a connection, or its end: ClearEvent(conn, false).
ClearEvent(m, c) ==
  /\ Handle(m, c, "in", "give")
  /\ reg' = [reg EXCEPT ![m][c] = "none"]
  /\ UNCHANGED <<client, kernel, mem, got, index>>

\* Mutant: no modulo.
NextIndexNoMod(m) == index' = [index EXCEPT ![m] = @ + 1]

NextIndex(m) == index' = [index EXCEPT ![m] = (@ + 1) % sub_reactor_count]

\* Mutant: the main reactor closes the descriptor, as a process has to.
AddToSubReactorClose(m) ==
  /\ "threads" \in options /\ pc[m] = "give"
  /\ NextIndex(m)
  /\ NewConn(index'[m], cur[m])
  /\ Goto(m, "close")
  /\ UNCHANGED <<client, kernel, got>>

\* addToSubReactor; then delete, or the next accept().
AddToSubReactor(m) ==
  /\ "threads" \in options /\ pc[m] = "give"
  /\ NextIndex(m)
  /\ NewConn(index'[m], cur[m])
  /\ Goto(m, IF mem[m][cur[m]] = "live" THEN "delete" ELSE "accept")
  /\ UNCHANGED <<client, kernel, got>>

\* Mutant: the descriptor is not closed.
SendFdKeeps(m) ==
  /\ "threads" \notin options /\ pc[m] = "give"
  /\ NextIndex(m)
  /\ Len(pipe[m][index'[m]]) < MaxInFlight
  /\ pipe' = [pipe EXCEPT ![m][index'[m]] = Append(@, cur[m])]
  /\ Goto(m, IF mem[m][cur[m]] = "live" THEN "delete" ELSE "accept")
  /\ UNCHANGED <<client, sock, tables, link, conn>>

\* The unix socket is blocking; SendFd waits for room.
SendFd(m) ==
  /\ "threads" \notin options /\ pc[m] = "give"
  /\ NextIndex(m)
  /\ Len(pipe[m][index'[m]]) < MaxInFlight
  /\ pipe' = [pipe EXCEPT ![m][index'[m]] = Append(@, cur[m])]
  /\ Goto(m, "close")
  /\ UNCHANGED <<client, sock, tables, link, conn>>

\* Nobody looks at the result of SendFd: the descriptor is closed all the same.
SendFdFails(m) ==
  /\ "toomany" \in options /\ "threads" \notin options /\ pc[m] = "give"
  /\ NextIndex(m)
  /\ Goto(m, "close")
  /\ UNCHANGED <<client, kernel, conn>>

Main(m) ==
  \/ EpollWait(m) \/ StartAccept(m) \/ EndAccept(m) \/ Accept(m)
  \/ \E c \in Conns : ClearEvent(m, c)
  \/ AddToSubReactor(m) \/ SendFd(m) \/ SendFdFails(m) \/ CloseFd(m) \/ Delete(m)
-----------------------------------------------------------------------------
(* subReactor. *)

\* LoopAccept on the unix socket.
AcceptMains(s) ==
  /\ Handle(s, None, "in", "events")
  /\ link' = [link EXCEPT ![s] = Mains]
  /\ UNCHANGED <<client, sock, tables, pipe, conn, index>>

RecvFd(s, m) ==
  LET c == Head(pipe[m][s]) IN
  /\ Handle(s, m, "in", "events")
  /\ pipe' = [pipe EXCEPT ![m][s] = Tail(@)]
  /\ tables' = [tables EXCEPT ![c] = @ \cup {Table(s)}]
  /\ NewConn(s, c)
  /\ UNCHANGED <<client, sock, link, got, index>>

\* Read, OneMessage and EnCode: the request is complete, or the rest is awaited.
Read(s, c) ==
  /\ Handle(s, c, "in", IF got[c] + unread[c] = 2 THEN "reply" ELSE "events")
  /\ got[c] + unread[c] = 2 \/ peer[c]
  /\ got' = [got EXCEPT ![c] = @ + unread[c]]
  /\ unread' = [unread EXCEPT ![c] = 0]
  /\ UNCHANGED <<deploy, peer, kernel, reg, mem, index>>

Fails(s, c) ==
  /\ ~peer[c]
  /\ \E event \in {"in", "out"} : Handle(s, c, event, "release")
  /\ UNCHANGED <<client, kernel, conn, index>>

\* Write, FinishWrite and Reset.
Write(s, c) ==
  /\ Handle(s, c, "out", "again")
  /\ got' = [got EXCEPT ![c] = 0]
  /\ UNCHANGED <<client, kernel, reg, mem, index>>

\* Mutant: no ModToReadEvent after the reply.
EpollCtlNot(s) ==
  /\ \/ pc[s] = "reply" /\ reg' = [reg EXCEPT ![s][cur[s]] = "out"] /\ Goto(s, "events")
     \/ pc[s] = "again" /\ UNCHANGED reg /\ Goto(s, "events")
     \/ pc[s] = "release" /\ reg' = [reg EXCEPT ![s][cur[s]] = "none"] /\ Goto(s, "close")
  /\ UNCHANGED <<client, kernel, mem, got, index>>

\* ModToWriteEvent, ModToReadEvent, and the EPOLL_CTL_DEL of ClearEvent.
EpollCtl(s) ==
  /\ \/ pc[s] = "reply" /\ reg' = [reg EXCEPT ![s][cur[s]] = "out"] /\ Goto(s, "events")
     \/ pc[s] = "again" /\ reg' = [reg EXCEPT ![s][cur[s]] = "in"] /\ Goto(s, "events")
     \/ pc[s] = "release" /\ reg' = [reg EXCEPT ![s][cur[s]] = "none"] /\ Goto(s, "close")
  /\ UNCHANGED <<client, kernel, mem, got, index>>

Sub(s) ==
  \/ EpollWait(s) \/ AcceptMains(s) \/ \E m \in Mains : RecvFd(s, m)
  \/ \E c \in Conns : Read(s, c) \/ Fails(s, c) \/ Write(s, c)
  \/ EpollCtl(s) \/ CloseFd(s) \/ Delete(s)
-----------------------------------------------------------------------------
Client == \E c \in Conns : Connect(c) \/ ClientSend(c) \/ ClientClose(c)

Next == Client \/ (\E m \in Mains : Main(m)) \/ (\E s \in Subs : Sub(s))

Spec == Init /\ [][Next]_vars

\* Every reactor keeps running.
FairSpec ==
  /\ Spec
  /\ \A m \in Mains : WF_vars(Main(m))
  /\ \A s \in Subs : WF_vars(Sub(s))
-----------------------------------------------------------------------------
(* Properties. *)

Events == (Conns \cup Mains \cup {None}) \X {"in", "out"}

\* The types of Conn, of the reactors and of what the kernel keeps for them.
TypeOK ==
  /\ [options |-> options, sub |-> sub_reactor_count, home |-> home] \in Deployments
  /\ peer \in [Conns -> BOOLEAN] /\ unread \in [Conns -> 0 .. 2]
  /\ sock \in [Conns -> {"new", "backlog", "accepted"}]
  /\ tables \in [Conns -> SUBSET {Table(e) : e \in Reactors}]
  /\ link \in [Subs -> SUBSET Mains] /\ pipe \in [Mains -> [Subs -> Seq(Conns)]]
  /\ reg \in [Reactors -> [Conns -> {"none", "in", "out"}]]
  /\ mem \in [Reactors -> [Conns -> {"none", "live", "freed"}]]
  /\ got \in [Conns -> 0 .. 2]
  /\ index \in [Mains -> 0 .. sub_reactor_count - 1]
  /\ batch \in [Reactors -> SUBSET Events]
  /\ pc \in [Reactors -> {"events", "accept", "give", "reply", "again",
                          "release", "close", "delete"}]
  /\ cur \in [Reactors -> Conns \cup {None}]

Released(c) == \E s \in Subs : mem[s][c] = "freed"

\* The connections whose Conn e has still to deal with.
Pending(e) == {c \in Conns : cur[e] = c \/ \E event \in {"in", "out"} : <<c, event>> \in batch[e]}

\* A connection is never registered with two reactors, or handled by one while
\* another may be told of it: no lock protects what they do with the socket.
OneReactor ==
  \A c \in Conns : \A e, f \in Reactors : e # f /\ reg[e][c] # "none" =>
    /\ reg[f][c] = "none"
    /\ c \in Pending(f) => pc[f] \in {"close", "delete"}

\* No reactor is told of, or holds, a Conn that has been deleted: a registration
\* outlives the descriptor as long as another process has one.  Every epoll call
\* finds its descriptor open, and registered unless the call registers it, as
\* epollctl.hpp asserts.
NoUseAfterFree ==
  \A e \in Reactors : \A c \in Conns :
    /\ reg[e][c] # "none" => mem[e][c] = "live" /\ Table(e) \in tables[c]
    /\ c \in Pending(e) => mem[e][c] # "freed"
    /\ c \in Pending(e) /\ (cur[e] = c => pc[e] \in {"reply", "again", "release"}) =>
         reg[e][c] # "none"
    /\ cur[e] = c /\ pc[e] = "give" =>
         Table(e) \in tables[c] /\ \A s \in Subs : reg[s][c] = "none"

\* Every request is answered, also one that arrives in halves before, while and
\* after the connection changes hands; or, if the descriptor could not be sent,
\* its client sees the end of the connection.
Served ==
  \A c \in Conns : got[c] + unread[c] = 2 ~>
    \/ got[c] + unread[c] < 2 \/ Released(c)
    \/ "toomany" \in options /\ ~Referenced(c)

\* No process keeps a descriptor: once the sub reactor has released a connection,
\* its client sees the end of it.
ClosedForClient == \A c \in Conns : Released(c) ~> ~Referenced(c)

\* The servers implement the hand-over a client may rely on.
Owner(c) ==
  IF sock[c] # "accepted" THEN None
  ELSE IF ~Referenced(c) THEN Gone
  ELSE IF \E s \in Subs : mem[s][c] # "none" THEN CHOOSE s \in Subs : mem[s][c] # "none"
  ELSE home[c]
H == INSTANCE Handoff WITH
  reliable <- "toomany" \notin options, owner <- [c \in Conns |-> Owner(c)], waiting <- unread
HandoffSpec == H!Spec
-----------------------------------------------------------------------------
(* The inductive invariant: what holds of each connection wherever it is.  *)

\* The main reactor has c: it waits for the first bytes, or is about to hand c on.
MainHas(c) == reg[home[c]][c] # "none" \/ (cur[home[c]] = c /\ pc[home[c]] = "give")

SubKnows(c) == \E s \in Subs : mem[s][c] # "none"

\* Before accept() nobody knows c, and only one main reactor ever does.
Fresh(c) ==
  /\ sock[c] # "accepted" =>
       tables[c] = {} /\ ~InFlight(c) /\ \A e \in Reactors : mem[e][c] = "none" /\ cur[e] # c
  /\ \A m \in Mains \ {home[c]} :
       mem[m][c] = "none" /\ cur[m] # c /\ \A s \in Subs : ~Sent(m, s, c)

\* A registration has a Conn and a descriptor; an event is a registration of a
\* connection that is not being handled.
Registration(c) ==
  \A e \in Reactors :
    /\ reg[e][c] # "none" => mem[e][c] = "live" /\ Table(e) \in tables[c]
    /\ \A event \in {"in", "out"} : <<c, event>> \in batch[e] => reg[e][c] = event /\ cur[e] # c

\* The main reactor, a unix socket, or a sub reactor has c, and not two of them.
OnePlace(c) ==
  /\ MainHas(c) => tables[c] = {Table(home[c])} /\ ~InFlight(c) /\ ~SubKnows(c)
  /\ InFlight(c) => "threads" \notin options /\ tables[c] \subseteq {home[c]} /\ ~SubKnows(c)
  /\ \A s, t \in Subs : mem[s][c] # "none" /\ mem[t][c] # "none" => s = t

\* The main reactor handles c: after the hand-over it has only its own copy of the
\* descriptor to close, and its own Conn to delete.
MainHandles(c) ==
  LET m == home[c] IN
  cur[m] = c =>
    /\ pc[m] \in {"give", "close", "delete"}
    /\ mem[m][c] # "freed" /\ reg[m][c] = "none"
    /\ pc[m] = "delete" => mem[m][c] = "live"
    /\ pc[m] = "close" =>
         /\ "threads" \notin options /\ m \in tables[c]
         /\ InFlight(c) \/ SubKnows(c) \/ "toomany" \in options

\* A sub reactor handles c, which is registered until the sub reactor releases it.
SubHandles(c) ==
  \A s \in Subs : cur[s] = c =>
    /\ pc[s] \in {"reply", "again", "release", "close", "delete"}
    /\ mem[s][c] = "live"
    /\ reg[s][c] # "none" <=> pc[s] \in {"reply", "again", "release"}
    /\ pc[s] = "close" => Table(s) \in tables[c]

Sound(c) ==
  /\ Fresh(c) /\ Registration(c) /\ OnePlace(c) /\ MainHandles(c) /\ SubHandles(c)
  /\ got[c] + unread[c] <= 2

\* Every descriptor is sent once, and a unix socket that is reported has one.
Pipes ==
  /\ \A m, n \in Mains, s, t \in Subs : \A i \in DOMAIN pipe[m][s], j \in DOMAIN pipe[n][t] :
       pipe[m][s][i] = pipe[n][t][j] => m = n /\ s = t /\ i = j
  /\ \A m \in Mains, s \in Subs : <<m, "in">> \in batch[s] => pipe[m][s] # <<>>

\* A reactor has a connection exactly while it handles one.
Idle == \A e \in Reactors : cur[e] = None <=> pc[e] \in {"events", "accept"}

IInv == TypeOK /\ Idle /\ Pipes /\ \A c \in Conns : Sound(c)
=============================================================================
