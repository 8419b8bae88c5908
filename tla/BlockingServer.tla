--------------------------- MODULE BlockingServer ---------------------------
(***************************************************************************)
(* The servers that give a connection to one task, which serves it to its  *)
(* end with blocking RecvMsg and SendMsg: SingleProcess, MultiProcess,     *)
(* MultiThread, ProcessPool1, ProcessPool2, ThreadPool, LeaderAndFollower, *)
(* and Epoll, Poll and Select, whose one task first waits until a client   *)
(* has sent something.  What differs is who accepts, who serves, and whose *)
(* descriptors are whose.                                                  *)
(*                                                                         *)
(* A request stands for its bytes, and is read and answered in one step:   *)
(* EchoConn has the steps of RecvMsg and SendMsg.                          *)
(***************************************************************************)
EXTENDS Naturals, FiniteSets

CONSTANTS
  Conns,      \* the client connections
  Pool,       \* the threads or processes of a pool, or that may be created
  Main,       \* the process, or its main thread
  Programs,   \* the programs, each a set of options
  None        \* no connection; nobody; the table threads share; the listening
              \* socket among the events

Tasks == Pool \cup {Main}

ASSUME BlockingServerAssumption ==
  /\ Main \notin Pool /\ None \notin Conns \cup Tasks /\ Conns \cap Tasks = {}
  /\ Programs \subseteq SUBSET
       {"single",     \* the only task accepts and serves
        "spawn",      \* a task is created for every connection
        "processes",  \* tasks are processes: each has a table of descriptors
        "reuseport",  \* SO_REUSEPORT: each task has a listening socket
        "mutex",      \* accept() is called under a mutex
        "watch",      \* epoll, poll or select before accept() and RecvMsg
        "one",        \* Epoll without -la: one accept() for each event
        "select",     \* a descriptor beyond FD_SETSIZE is closed
        "few"}        \* one more descriptor is free, or below FD_SETSIZE
  /\ \A program \in Programs :
       "watch" \in program =>
         "single" \in program /\ program \cap {"spawn", "processes", "reuseport", "mutex"} = {}

VARIABLES
  options,  \* the member of Programs that runs; it does not change
  peer,     \* peer[c]: FALSE once the client has closed or reset
  unread,   \* unread[c]: the requests in the receive buffer
  sock,     \* sock[c]: "new", "backlog" (connected, not accepted), "accepted"
  home,     \* home[c]: the listening socket that gets it, named by its task
  tables,   \* tables[c]: the tables with a descriptor of c
  pc, cur,  \* where a task is, and the connection it has
  Mutex,    \* the owner of the mutex
  client_fds, batch  \* what is watched, and the events not yet handled

client == <<options, peer, unread>>
kernel == <<sock, home, tables>>
task   == <<pc, cur>>
watch  == <<client_fds, batch>>
vars   == <<client, kernel, task, Mutex, watch>>

Has(option) == option \in options

Table(t)  == IF Has("processes") THEN t ELSE None
Socket(t) == IF Has("reuseport") THEN t ELSE Main

\* Where a task waits for the next connection.
Top == IF Has("mutex") THEN "lock" ELSE IF Has("watch") THEN "wait" ELSE "accept"

\* A fork() or a CreateListenSocket() that fails leaves the pool smaller.
Init ==
  /\ options \in Programs
  /\ peer = [c \in Conns |-> TRUE] /\ unread = [c \in Conns |-> 0]
  /\ sock = [c \in Conns |-> "new"] /\ home = [c \in Conns |-> Main]
  /\ tables = [c \in Conns |-> {}]
  /\ \E started \in IF Has("single") \/ Has("spawn") THEN {{Main}}
                    ELSE IF Has("mutex") THEN {Pool} ELSE SUBSET Pool \ {{}} :
       pc = [t \in Tasks |-> IF t \in started THEN Top ELSE "idle"]
  /\ cur = [t \in Tasks |-> None]
  /\ Mutex = None
  /\ client_fds = {} /\ batch = {}
-----------------------------------------------------------------------------
(* The clients. *)

Connected(c) == sock[c] = "backlog" \/ tables[c] # {}

Listening(s) == \E t \in Tasks : Socket(t) = s /\ pc[t] \notin {"idle", "dead"}

Connect(c) ==
  /\ sock[c] = "new"
  /\ sock' = [sock EXCEPT ![c] = "backlog"]
  /\ \E s \in Tasks : Listening(s) /\ home' = [home EXCEPT ![c] = s]
  /\ UNCHANGED <<client, tables, task, Mutex, watch>>

ClientSend(c) ==
  /\ Connected(c) /\ peer[c] /\ unread[c] = 0
  /\ unread' = [unread EXCEPT ![c] = 1]
  /\ UNCHANGED <<options, peer, kernel, task, Mutex, watch>>

ClientClose(c) ==
  /\ Connected(c) /\ peer[c]
  /\ peer' = [peer EXCEPT ![c] = FALSE]
  /\ UNCHANGED <<options, unread, kernel, task, Mutex, watch>>
-----------------------------------------------------------------------------
(* Accepting. *)

Backlog(t)  == {c \in Conns : sock[c] = "backlog" /\ home[c] = Socket(t)}
Open(t)     == {c \in Conns : Table(t) \in tables[c]}
NoMoreFd(t) == Has("few") /\ Open(t) # {}

Goto(t, place, c) ==
  /\ pc' = [pc EXCEPT ![t] = place]
  /\ cur' = [cur EXCEPT ![t] = c]

\* A follower becomes the leader.
Lock(t) ==
  /\ pc[t] = "lock" /\ Mutex = None
  /\ Mutex' = t
  /\ Goto(t, "accept", None)
  /\ UNCHANGED <<client, kernel, watch>>

\* lock_guard gives the mutex back when its block is left.
Accept(t) ==
  /\ pc[t] = "accept" /\ ~NoMoreFd(t)
  /\ \E c \in Backlog(t) :
       /\ sock' = [sock EXCEPT ![c] = "accepted"]
       /\ tables' = [tables EXCEPT ![c] = {Table(t)}]
       /\ Goto(t, IF Has("spawn") THEN "spawn" ELSE "serve", c)
  /\ Mutex' = None
  /\ UNCHANGED <<client, home, watch>>

\* Mutants: the mutex is kept when accept() fails; the result is not looked at.
AcceptFailsLocked(t) ==
  /\ Has("mutex") /\ pc[t] = "accept"
  /\ Backlog(t) # {} /\ NoMoreFd(t)
  /\ Goto(t, "lock", None)
  /\ UNCHANGED <<client, kernel, Mutex, watch>>

AcceptFailsServes(t) ==
  /\ Has("mutex") /\ pc[t] = "accept"
  /\ Backlog(t) # {} /\ NoMoreFd(t)
  /\ Mutex' = None
  /\ Goto(t, "serve", None)
  /\ UNCHANGED <<client, kernel, watch>>

\* accept() fails and is tried again, by the next leader where there is a mutex.
AcceptFails(t) ==
  /\ Has("mutex") /\ pc[t] = "accept"
  /\ Backlog(t) # {} /\ NoMoreFd(t)
  /\ Mutex' = None
  /\ Goto(t, "lock", None)
  /\ UNCHANGED <<client, kernel, watch>>
-----------------------------------------------------------------------------
(* A task for every connection. *)

\* A new process has a copy of every descriptor, a new thread needs none.
\* Mutant: the parent keeps its own.
SpawnKeeps(w) ==
  /\ pc[Main] = "spawn" /\ pc[w] = "idle"
  /\ pc' = [pc EXCEPT ![w] = "serve", ![Main] = "accept"]
  /\ cur' = [cur EXCEPT ![w] = cur[Main], ![Main] = None]
  /\ tables' = [c \in Conns |-> tables[c] \cup
                  IF Has("processes") /\ Main \in tables[c] THEN {w} ELSE {}]
  /\ UNCHANGED <<client, sock, home, Mutex, watch>>

Spawn(w) ==
  /\ pc[Main] = "spawn" /\ pc[w] = "idle"
  /\ pc' = [pc EXCEPT ![w] = "serve",
                      ![Main] = IF Has("processes") THEN "close" ELSE "accept"]
  /\ cur' = [cur EXCEPT ![w] = cur[Main],
                        ![Main] = IF Has("processes") THEN @ ELSE None]
  /\ tables' = [c \in Conns |-> tables[c] \cup
                  IF Has("processes") /\ Main \in tables[c] THEN {w} ELSE {}]
  /\ UNCHANGED <<client, sock, home, Mutex, watch>>

\* No task can be created: fork() returns -1, and the client is closed.
ForkFails ==
  /\ pc[Main] = "spawn" /\ Has("processes") /\ \A w \in Pool : pc[w] # "idle"
  /\ Goto(Main, "close", cur[Main])
  /\ UNCHANGED <<client, kernel, Mutex, watch>>

\* The constructor of std::thread throws, and nobody catches it.
ThreadFails ==
  /\ pc[Main] = "spawn" /\ ~Has("processes") /\ \A w \in Pool : pc[w] # "idle"
  /\ pc' = [t \in Tasks |-> "dead"] /\ cur' = [t \in Tasks |-> None]
  /\ tables' = [c \in Conns |-> {}]
  /\ UNCHANGED <<client, sock, home, Mutex, watch>>

\* What remains of a task that has ended: SIGCHLD is ignored, so nothing does and its
\* place is free.  Mutant: it is not ignored.
RemainsZombie == "zombie"
Remains == "idle"

\* exit(), or the end of the thread.
Exit(w) ==
  /\ pc[w] = "exit"
  /\ tables' = [c \in Conns |-> tables[c] \ {w}]
  /\ Goto(w, Remains, None)
  /\ UNCHANGED <<client, sock, home, Mutex, watch>>
-----------------------------------------------------------------------------
(* Serving. *)

Serve(t) ==
  /\ pc[t] = "serve" /\ unread[cur[t]] = 1
  /\ unread' = [unread EXCEPT ![cur[t]] = 0]
  /\ UNCHANGED <<options, peer, kernel, task, Mutex, watch>>

\* RecvMsg or SendMsg returns false.
HangUp(t) ==
  /\ pc[t] = "serve" /\ ~peer[cur[t]]
  /\ Goto(t, "close", cur[t])
  /\ UNCHANGED <<client, kernel, Mutex, watch>>

\* The end of handlerClient, and where the task goes from there.
Close(t) ==
  /\ pc[t] = "close"
  /\ tables' = [tables EXCEPT ![cur[t]] = @ \ {Table(t)}]
  /\ client_fds' = client_fds \ {cur[t]}
  /\ IF Has("spawn") /\ t # Main THEN Goto(t, "exit", cur[t])
     ELSE Goto(t, IF Has("watch") THEN "events" ELSE Top, None)
  /\ UNCHANGED <<client, sock, home, Mutex, batch>>
-----------------------------------------------------------------------------
(* Readiness first. *)

Ready ==
  {c \in client_fds : unread[c] > 0 \/ ~peer[c]} \cup
  (IF Backlog(Main) # {} THEN {None} ELSE {})

Wait ==
  /\ pc[Main] = "wait" /\ Ready # {}
  /\ batch' = Ready
  /\ Goto(Main, "events", None)
  /\ UNCHANGED <<client, kernel, Mutex, client_fds>>

EndOfBatch ==
  /\ pc[Main] = "events" /\ batch = {}
  /\ Goto(Main, "wait", None)
  /\ UNCHANGED <<client, kernel, Mutex, watch>>

\* LoopAccept, as long as there are descriptors; select refuses the rest.
LoopAccept ==
  /\ pc[Main] = "events" /\ None \in batch
  /\ batch' = batch \ {None}
  /\ \E new \in SUBSET Backlog(Main) :
       /\ IF NoMoreFd(Main) THEN new = {}
          ELSE IF Has("one") \/ Has("few") THEN Cardinality(new) = 1
          ELSE new = Backlog(Main)
       /\ sock' = [c \in Conns |-> IF c \in new \/ (Has("select") /\ c \in Backlog(Main))
                                   THEN "accepted" ELSE sock[c]]
       /\ tables' = [c \in Conns |-> IF c \in new THEN {Table(Main)} ELSE tables[c]]
       /\ client_fds' = client_fds \cup new
  /\ UNCHANGED <<client, home, task, Mutex>>

Handle(c) ==
  /\ pc[Main] = "events" /\ c \in batch
  /\ batch' = batch \ {c}
  /\ Goto(Main, "serve", c)
  /\ UNCHANGED <<client, kernel, Mutex, client_fds>>
-----------------------------------------------------------------------------
Client == \E c \in Conns : Connect(c) \/ ClientSend(c) \/ ClientClose(c)

Task(t) ==
  \/ Lock(t) \/ Accept(t) \/ AcceptFails(t)
  \/ Serve(t) \/ HangUp(t) \/ Close(t) \/ Exit(t)

MainTask ==
  \/ Task(Main)
  \/ (\E w \in Pool : Spawn(w)) \/ ForkFails \/ ThreadFails
  \/ Wait \/ EndOfBatch \/ LoopAccept \/ \E c \in Conns : Handle(c)

Next == Client \/ MainTask \/ \E w \in Pool : Task(w)

Spec == Init /\ [][Next]_vars

\* Every task keeps running.  Nothing is assumed of the clients.
FairSpec == Spec /\ WF_vars(MainTask) /\ \A w \in Pool : WF_vars(Task(w))
-----------------------------------------------------------------------------
(* Properties. *)

\* The types; a task has a connection exactly where the code uses one.
TypeOK ==
  /\ options \in Programs
  /\ peer \in [Conns -> BOOLEAN] /\ unread \in [Conns -> 0 .. 1]
  /\ sock \in [Conns -> {"new", "backlog", "accepted"}] /\ home \in [Conns -> Tasks]
  /\ tables \in [Conns -> SUBSET {Table(t) : t \in Tasks}]
  /\ pc \in [Tasks -> {"idle", "lock", "accept", "spawn", "serve", "close", "exit",
                       "zombie", "wait", "events", "dead"}]
  /\ cur \in [Tasks -> Conns \cup {None}]
  /\ \A t \in Tasks : cur[t] # None <=> pc[t] \in {"spawn", "serve", "close", "exit"}
  /\ Mutex \in Tasks \cup {None}
  /\ client_fds \subseteq Conns /\ batch \subseteq client_fds \cup {None}

\* A connection is served by one task, and no other has a descriptor of it: a
\* process that does not serve it is the parent, about to close its copy, and
\* nothing is left open by a task that has gone on to another connection.
OneServer ==
  \A c \in Conns :
    /\ \A t, u \in Tasks : cur[t] = c /\ cur[u] = c /\ t # u =>
         Main \in {t, u} /\ pc[Main] = "close"
    /\ \A t \in Tasks : Has("processes") /\ t \in tables[c] => cur[t] = c
    /\ ~Has("processes") /\ tables[c] # {} =>
         c \in client_fds \/ \E t \in Tasks : cur[t] = c /\ pc[t] # "exit"

\* The tasks that serve the connections of a listening socket.
Servers(s) ==
  IF Has("spawn") THEN Pool ELSE {t \in Tasks : Socket(t) = s /\ pc[t] # "idle"}

Full(s) ==
  \/ \A t \in Servers(s) : cur[t] # None \/ pc[t] = "dead"
  \/ \E t \in Tasks : Socket(t) = s /\ NoMoreFd(t)

Reached(c) == c \in client_fds \/ \E t \in Tasks : cur[t] = c /\ pc[t] = "serve"

\* As long as a task that can accept a connection is free, it does not wait, whatever
\* the clients the others serve do: an accept() that fails gives the mutex on, and a
\* process that has ended makes room for the next.  With SO_REUSEPORT only the task
\* whose listening socket the connection came to can accept it: it may wait for that
\* one while others are free.
Accepted == \A c \in Conns : sock[c] = "backlog" ~> Reached(c) \/ Full(home[c])

\* If all clients end, every connection is accepted, and closed for its client:
\* no task and no process keeps a descriptor, or waits for ever.
ClientsEnd == <>[](\A c \in Conns : sock[c] # "new" => ~peer[c])
Closed(c)  == (sock[c] = "accepted" /\ tables[c] = {}) \/ pc[Main] = "dead"
Finished   == ClientsEnd => \A c \in Conns : sock[c] = "backlog" ~> Closed(c)
-----------------------------------------------------------------------------
(* The inductive invariant. *)

\* Nobody has a connection that is not accepted.
Fresh ==
  \A c \in Conns : sock[c] # "accepted" =>
    tables[c] = {} /\ c \notin client_fds /\ \A t \in Tasks : cur[t] # c

\* A program that watches has one task, and no other watches.
WatchAlone ==
  /\ Has("watch") => \A w \in Pool : pc[w] = "idle"
  /\ pc[Main] \in {"wait", "events"} => Has("watch")
  /\ pc[Main] = "spawn" => Has("spawn")
  /\ ~Has("watch") => client_fds = {}

\* The connection that is served is no longer among the events.
Taken == \A t \in Tasks : cur[t] # None => cur[t] \notin batch

IInv == TypeOK /\ OneServer /\ Fresh /\ WatchAlone /\ Taken
=============================================================================
