------------------------ MODULE BlockingServerProofs ------------------------
(***************************************************************************)
(* One task serves a connection, for any number of connections and tasks,  *)
(* and any of the programs that BlockingServerAssumption allows.           *)
(***************************************************************************)
EXTENDS BlockingServer, TLAPS

\* What the definitions leave alone, in one place.
LEMMA Distinct ==
  /\ Main \in Tasks /\ Pool \subseteq Tasks /\ Main \notin Pool
  /\ None \notin Conns /\ None \notin Tasks /\ Conns \cap Tasks = {}
BY BlockingServerAssumption DEF Tasks

\* The program that runs is one of those the assumption allows.
LEMMA ProgramFacts ==
  ASSUME options \in Programs, Has("watch")
  PROVE  ~Has("spawn") /\ ~Has("processes") /\ ~Has("reuseport") /\ ~Has("mutex") /\ Has("single")
BY BlockingServerAssumption DEF Has

LEMMA InitIInv == Init => IInv
<1> SUFFICES ASSUME Init PROVE IInv  OBVIOUS
<1>1. PICK started \in SUBSET Tasks :
        /\ pc = [t \in Tasks |-> IF t \in started THEN Top ELSE "idle"]
        /\ Has("single") \/ Has("spawn") => started = {Main}
  BY Distinct DEF Init
<1>2. Top \in {"lock", "wait", "accept"} /\ (Top = "wait" => Has("watch"))  BY DEF Top
<1>3. TypeOK
  BY <1>1, <1>2, Distinct DEF Init, TypeOK
<1>4. OneServer  BY Distinct DEF Init, OneServer
<1>5. Fresh  BY Distinct DEF Init, Fresh
<1>6. WatchAlone
  BY <1>1, <1>2, ProgramFacts, Distinct DEF Init, WatchAlone
<1>7. Taken  BY DEF Init, Taken
<1>8. QED  BY <1>3, <1>4, <1>5, <1>6, <1>7 DEF IInv
-----------------------------------------------------------------------------
(* One step, action by action. *)

\* A client changes no task and no descriptor.
LEMMA ClientStep == ASSUME IInv, Client PROVE IInv'
<1> USE DEF IInv
<1>0. PICK c \in Conns : Connect(c) \/ ClientSend(c) \/ ClientClose(c)  BY DEF Client
<1>1. CASE Connect(c)
  <2> USE <1>1 DEF Connect, client, task, watch
  <2>1. TypeOK'  BY DEF TypeOK, Table, Has
  <2>2. OneServer'  BY DEF OneServer, Has
  <2>3. Fresh'  BY DEF Fresh, TypeOK
  <2>4. WatchAlone' /\ Taken'  BY DEF WatchAlone, Taken, Has
  <2>5. QED  BY <2>1, <2>2, <2>3, <2>4
<1>2. CASE ClientSend(c)
  <2> USE <1>2 DEF ClientSend, kernel, task, watch
  <2>1. TypeOK'  BY DEF TypeOK, Table, Has
  <2>2. OneServer'  BY DEF OneServer, Has
  <2>3. Fresh'  BY DEF Fresh
  <2>4. WatchAlone' /\ Taken'  BY DEF WatchAlone, Taken, Has
  <2>5. QED  BY <2>1, <2>2, <2>3, <2>4
<1>3. CASE ClientClose(c)
  <2> USE <1>3 DEF ClientClose, kernel, task, watch
  <2>1. TypeOK'  BY DEF TypeOK, Table, Has
  <2>2. OneServer'  BY DEF OneServer, Has
  <2>3. Fresh'  BY DEF Fresh
  <2>4. WatchAlone' /\ Taken'  BY DEF WatchAlone, Taken, Has
  <2>5. QED  BY <2>1, <2>2, <2>3, <2>4
<1>4. QED  BY <1>0, <1>1, <1>2, <1>3

\* The step of a task that only moves, and keeps its connection or still has none.
LEMMA MoveStep ==
  ASSUME IInv, NEW t \in Tasks,
         \/ Lock(t) \/ AcceptFails(t) \/ HangUp(t) \/ Serve(t)
  PROVE  IInv'
<1> USE Distinct DEF IInv
<1>1. CASE Lock(t)
  <2> USE <1>1 DEF Lock, Goto, client, kernel, watch
  <2>1. TypeOK'  BY DEF TypeOK, Table, Has
  <2>2. OneServer'  BY SMTT(30) DEF OneServer, TypeOK, Has
  <2>3. Fresh'  BY DEF Fresh, TypeOK
  <2>4. WatchAlone'  BY DEF WatchAlone, TypeOK, Has
  <2>5. Taken'  BY DEF Taken, TypeOK
  <2>6. QED  BY <2>1, <2>2, <2>3, <2>4, <2>5
<1>2. CASE AcceptFails(t)
  <2> USE <1>2 DEF AcceptFails, Goto, client, kernel, watch
  <2>1. TypeOK'  BY DEF TypeOK, Table, Has
  <2>2. OneServer'  BY DEF OneServer, TypeOK, Has
  <2>3. Fresh'  BY DEF Fresh, TypeOK
  <2>4. WatchAlone'  BY DEF WatchAlone, TypeOK, Has
  <2>5. Taken'  BY DEF Taken, TypeOK
  <2>6. QED  BY <2>1, <2>2, <2>3, <2>4, <2>5
<1>3. CASE HangUp(t)
  <2> USE <1>3 DEF HangUp, Goto, client, kernel, watch
  <2>1. TypeOK'  BY DEF TypeOK, Table, Has
  <2>2. OneServer'  BY DEF OneServer, TypeOK, Has
  <2>3. Fresh'  BY DEF Fresh, TypeOK
  <2>4. WatchAlone'  BY DEF WatchAlone, TypeOK, Has
  <2>5. Taken'  BY DEF Taken, TypeOK
  <2>6. QED  BY <2>1, <2>2, <2>3, <2>4, <2>5
<1>4. CASE Serve(t)
  <2> USE <1>4 DEF Serve, kernel, task, watch
  <2>1. TypeOK'  BY DEF TypeOK, Table, Has
  <2>2. OneServer' /\ Fresh' /\ WatchAlone' /\ Taken'
    BY DEF OneServer, Fresh, WatchAlone, Taken, Has
  <2>3. QED  BY <2>1, <2>2
<1>5. QED  BY <1>1, <1>2, <1>3, <1>4

\* Nobody has the connection that accept() returns, so the task is the only one.
LEMMA AcceptStep == ASSUME IInv, NEW t \in Tasks, Accept(t) PROVE IInv'
<1> USE Distinct DEF IInv
<1>1. PICK c \in Conns :
        /\ sock[c] = "backlog"
        /\ sock' = [sock EXCEPT ![c] = "accepted"]
        /\ tables' = [tables EXCEPT ![c] = {Table(t)}]
        /\ pc' = [pc EXCEPT ![t] = IF Has("spawn") THEN "spawn" ELSE "serve"]
        /\ cur' = [cur EXCEPT ![t] = c]
  BY DEF Accept, Backlog, Goto
<1>2. pc[t] = "accept" /\ cur[t] = None /\ Mutex' = None
  BY DEF Accept, TypeOK
<1>3. UNCHANGED <<client, home, watch>>  BY DEF Accept
<1>4. tables[c] = {} /\ c \notin client_fds /\ \A u \in Tasks : cur[u] # c
  BY <1>1 DEF Fresh
<1>5. Table(t) \in {Table(u) : u \in Tasks} /\ (Has("processes") => Table(t) = t)
  BY DEF Table
<1>6. TypeOK'
  <2>1. {Table(u) : u \in Tasks}' = {Table(u) : u \in Tasks}
    BY <1>3 DEF client, Table, Has
  <2>2. tables' \in [Conns -> SUBSET {Table(u) : u \in Tasks}]
    BY <1>1, <1>5 DEF TypeOK
  <2>3. QED  BY <1>1, <1>2, <1>3, <2>1, <2>2 DEF TypeOK, client, watch
<1>7. OneServer'
  <2> SUFFICES ASSUME NEW d \in Conns PROVE
        /\ \A x, y \in Tasks : cur'[x] = d /\ cur'[y] = d /\ x # y =>
             Main \in {x, y} /\ pc'[Main] = "close"
        /\ \A x \in Tasks : Has("processes") /\ x \in tables'[d] => cur'[x] = d
        /\ ~Has("processes") /\ tables'[d] # {} =>
             d \in client_fds \/ \E x \in Tasks : cur'[x] = d /\ pc'[x] # "exit"
    BY <1>3 DEF OneServer, Has, client, watch
  <2>1. CASE d = c
    BY <1>1, <1>2, <1>4, <1>5, <2>1 DEF TypeOK
  <2>2. CASE d # c
    BY <1>1, <1>2, <2>2 DEF TypeOK, OneServer
  <2>3. QED  BY <2>1, <2>2
<1>8. Fresh'  BY <1>1, <1>3 DEF Fresh, TypeOK, watch
<1>9. WatchAlone'  BY <1>1, <1>2, <1>3 DEF WatchAlone, TypeOK, watch, client, Has
<1>10. Taken'  BY <1>1, <1>3, <1>4 DEF Taken, TypeOK, watch
<1>11. QED  BY <1>6, <1>7, <1>8, <1>9, <1>10

\* The new task gets the connection of Main, which nobody else has: a new process
\* has a copy of its descriptor, and Main goes on to close its own.
LEMMA SpawnStep == ASSUME IInv, NEW w \in Pool, Spawn(w) PROVE IInv'
<1> USE Distinct DEF IInv
<1>1. /\ pc[Main] = "spawn" /\ pc[w] = "idle" /\ w \in Tasks /\ w # Main
      /\ cur[w] = None /\ cur[Main] \in Conns
      /\ UNCHANGED <<client, sock, home, Mutex, watch>>
  BY DEF Spawn, TypeOK
<1>2. /\ pc' = [pc EXCEPT ![w] = "serve",
                          ![Main] = IF Has("processes") THEN "close" ELSE "accept"]
      /\ cur' = [cur EXCEPT ![w] = cur[Main],
                            ![Main] = IF Has("processes") THEN cur[Main] ELSE None]
  BY <1>1 DEF Spawn, TypeOK
<1>3. \A c \in Conns : tables'[c] = tables[c] \cup
         IF Has("processes") /\ Main \in tables[c] THEN {w} ELSE {}
  BY DEF Spawn
<1>4. Has("spawn") /\ ~Has("watch")
  BY <1>1, ProgramFacts DEF WatchAlone, TypeOK
<1>5. TypeOK'
  <2>1. {Table(u) : u \in Tasks}' = {Table(u) : u \in Tasks}
    BY <1>1 DEF client, Table, Has
  <2>2. Has("processes") => w \in {Table(u) : u \in Tasks}
    BY <1>1 DEF Table
  <2>3. tables' \in [Conns -> SUBSET {Table(u) : u \in Tasks}]
    <3> SUFFICES ASSUME NEW c \in Conns
                 PROVE  tables[c] \cup (IF Has("processes") /\ Main \in tables[c] THEN {w} ELSE {})
                          \in SUBSET {Table(u) : u \in Tasks}
      BY DEF Spawn
    <3>1. tables[c] \subseteq {Table(u) : u \in Tasks}  BY DEF TypeOK
    <3>2. QED  BY <2>2, <3>1
  <2>4. QED  BY <1>1, <1>2, <2>1, <2>3 DEF TypeOK, client, watch
<1>6. OneServer'
  <2> SUFFICES ASSUME NEW d \in Conns PROVE
        /\ \A x, y \in Tasks : cur'[x] = d /\ cur'[y] = d /\ x # y =>
             Main \in {x, y} /\ pc'[Main] = "close"
        /\ \A x \in Tasks : Has("processes") /\ x \in tables'[d] => cur'[x] = d
        /\ ~Has("processes") /\ tables'[d] # {} =>
             d \in client_fds \/ \E x \in Tasks : cur'[x] = d /\ pc'[x] # "exit"
    BY <1>1 DEF OneServer, Has, client, watch
  <2>1. \A x \in Tasks \ {Main} : cur[x] # cur[Main]
    BY <1>1 DEF OneServer
  <2>2. \A x, y \in Tasks : cur'[x] = d /\ cur'[y] = d /\ x # y =>
             Main \in {x, y} /\ pc'[Main] = "close"
    BY <1>1, <1>2, <2>1 DEF OneServer, TypeOK
  <2>3. \A x \in Tasks : Has("processes") /\ x \in tables'[d] => cur'[x] = d
    BY <1>1, <1>2, <1>3 DEF OneServer, TypeOK
  <2>4. ~Has("processes") /\ tables'[d] # {} =>
             d \in client_fds \/ \E x \in Tasks : cur'[x] = d /\ pc'[x] # "exit"
    <3> SUFFICES ASSUME ~Has("processes"), tables[d] # {}, d \notin client_fds
                 PROVE  \E x \in Tasks : cur'[x] = d /\ pc'[x] # "exit"
      BY <1>3
    <3>1. PICK x \in Tasks : cur[x] = d /\ pc[x] # "exit"  BY DEF OneServer
    <3>2. CASE x = Main  BY <1>1, <1>2, <3>1, <3>2 DEF TypeOK
    <3>3. CASE x # Main  BY <1>1, <1>2, <3>1, <3>3 DEF TypeOK
    <3>4. QED  BY <3>2, <3>3
  <2>5. QED  BY <2>2, <2>3, <2>4
<1>7. Fresh'
  <2> SUFFICES ASSUME NEW d \in Conns, sock[d] # "accepted"
               PROVE  tables'[d] = {} /\ d \notin client_fds /\ \A x \in Tasks : cur'[x] # d
    BY <1>1 DEF Fresh, watch
  <2>1. QED  BY <1>1, <1>2, <1>3 DEF Fresh, TypeOK
<1>8. WatchAlone'  BY <1>1, <1>2, <1>4 DEF WatchAlone, TypeOK, watch, client, Has
<1>9. Taken'  BY <1>1, <1>2 DEF Taken, TypeOK, watch
<1>10. QED  BY <1>5, <1>6, <1>7, <1>8, <1>9

\* When no task can be created, the process goes on to close the client, or every
\* thread ends with the process and all descriptors are closed.
LEMMA SpawnFailsStep == ASSUME IInv, ForkFails \/ ThreadFails PROVE IInv'
<1> USE Distinct DEF IInv
<1>1. CASE ForkFails
  <2> USE <1>1 DEF ForkFails, Goto, client, kernel, watch
  <2>1. TypeOK'  BY DEF TypeOK, Table, Has
  <2>2. OneServer'  BY DEF OneServer, TypeOK, Has
  <2>3. Fresh'  BY DEF Fresh, TypeOK
  <2>4. WatchAlone'  BY DEF WatchAlone, TypeOK, Has
  <2>5. Taken'  BY DEF Taken, TypeOK
  <2>6. QED  BY <2>1, <2>2, <2>3, <2>4, <2>5
<1>2. CASE ThreadFails
  <2> USE <1>2 DEF ThreadFails, client, watch
  <2>1. TypeOK'  BY DEF TypeOK, Table, Has
  <2>2. OneServer'  BY DEF OneServer, TypeOK, Has
  <2>3. Fresh'  BY DEF Fresh, TypeOK
  <2>4. WatchAlone'
    <3>1. ~Has("watch")  BY ProgramFacts DEF WatchAlone, TypeOK
    <3>2. QED  BY <3>1 DEF WatchAlone, Has
  <2>5. Taken'  BY DEF Taken
  <2>6. QED  BY <2>1, <2>2, <2>3, <2>4, <2>5
<1>3. QED  BY <1>1, <1>2

\* A task that ends takes its own table with it, and only that.
LEMMA ExitStep == ASSUME IInv, NEW w \in Tasks, Exit(w) PROVE IInv'
<1> USE Distinct DEF IInv
<1>1. /\ pc[w] = "exit" /\ pc' = [pc EXCEPT ![w] = "idle"] /\ cur' = [cur EXCEPT ![w] = None]
      /\ UNCHANGED <<client, sock, home, Mutex, watch>>
  BY DEF Exit, Goto, Remains
<1>2. \A c \in Conns : tables'[c] = tables[c] \ {w}  BY DEF Exit
<1>3. TypeOK'
  <2>1. tables' \in [Conns -> SUBSET {Table(u) : u \in Tasks}]
    <3>1. \A c \in Conns : tables[c] \ {w} \in SUBSET {Table(u) : u \in Tasks}
      BY DEF TypeOK
    <3>2. QED  BY <3>1 DEF Exit
  <2>2. {Table(u) : u \in Tasks}' = {Table(u) : u \in Tasks}
    BY <1>1 DEF client, Table, Has
  <2>3. QED  BY <1>1, <2>1, <2>2 DEF TypeOK, client, watch
<1>4. OneServer'
  <2> SUFFICES ASSUME NEW d \in Conns PROVE
        /\ \A x, y \in Tasks : cur'[x] = d /\ cur'[y] = d /\ x # y =>
             Main \in {x, y} /\ pc'[Main] = "close"
        /\ \A x \in Tasks : Has("processes") /\ x \in tables'[d] => cur'[x] = d
        /\ ~Has("processes") /\ tables'[d] # {} =>
             d \in client_fds \/ \E x \in Tasks : cur'[x] = d /\ pc'[x] # "exit"
    BY <1>1 DEF OneServer, Has, client, watch
  <2>1. \A x, y \in Tasks : cur'[x] = d /\ cur'[y] = d /\ x # y =>
             Main \in {x, y} /\ pc'[Main] = "close"
    BY <1>1 DEF OneServer, TypeOK
  <2>2. \A x \in Tasks : Has("processes") /\ x \in tables'[d] => cur'[x] = d
    BY <1>1, <1>2 DEF OneServer, TypeOK
  <2>3. ~Has("processes") /\ tables'[d] # {} =>
             d \in client_fds \/ \E x \in Tasks : cur'[x] = d /\ pc'[x] # "exit"
    BY <1>1, <1>2 DEF OneServer, TypeOK
  <2>4. QED  BY <2>1, <2>2, <2>3
<1>5. Fresh'  BY <1>1, <1>2 DEF Fresh, TypeOK, watch
<1>6. WatchAlone'  BY <1>1 DEF WatchAlone, TypeOK, watch, client, Has
<1>7. Taken'  BY <1>1 DEF Taken, TypeOK, watch
<1>8. QED  BY <1>3, <1>4, <1>5, <1>6, <1>7

\* The end of handlerClient closes the only descriptor of the task's table; a
\* connection that is closed is not among the events.
LEMMA CloseStep == ASSUME IInv, NEW t \in Tasks, Close(t) PROVE IInv'
<1> USE Distinct DEF IInv
<1>1. /\ pc[t] = "close" /\ cur[t] \in Conns
      /\ tables' = [tables EXCEPT ![cur[t]] = @ \ {Table(t)}]
      /\ client_fds' = client_fds \ {cur[t]}
      /\ UNCHANGED <<client, sock, home, Mutex, batch>>
  BY DEF Close, TypeOK
<1>2. \/ /\ Has("spawn") /\ t # Main
         /\ pc' = [pc EXCEPT ![t] = "exit"] /\ cur' = [cur EXCEPT ![t] = cur[t]]
      \/ /\ ~(Has("spawn") /\ t # Main)
         /\ pc' = [pc EXCEPT ![t] = IF Has("watch") THEN "events" ELSE Top]
         /\ cur' = [cur EXCEPT ![t] = None]
  BY DEF Close, Goto
<1>3. Top \in {"lock", "wait", "accept"} /\ (Top = "wait" => Has("watch"))  BY DEF Top
<1>4. TypeOK'
  <2>1. {Table(u) : u \in Tasks}' = {Table(u) : u \in Tasks}
    BY <1>1 DEF client, Table, Has
  <2>2. tables' \in [Conns -> SUBSET {Table(u) : u \in Tasks}]  BY <1>1 DEF TypeOK
  <2>3. batch' \subseteq client_fds' \cup {None}  BY <1>1 DEF TypeOK, Taken
  <2>4. pc' \in [Tasks -> {"idle", "lock", "accept", "spawn", "serve", "close", "exit",
                           "zombie", "wait", "events", "dead"}]
    BY <1>2, <1>3 DEF TypeOK
  <2>5. cur' \in [Tasks -> Conns \cup {None}]  BY <1>1, <1>2 DEF TypeOK
  <2>6. \A u \in Tasks : cur'[u] # None <=> pc'[u] \in {"spawn", "serve", "close", "exit"}
    BY <1>1, <1>2, <1>3 DEF TypeOK
  <2>7. QED  BY <1>1, <2>1, <2>2, <2>3, <2>4, <2>5, <2>6 DEF TypeOK, client
<1>5. OneServer'
  <2> SUFFICES ASSUME NEW d \in Conns PROVE
        /\ \A x, y \in Tasks : cur'[x] = d /\ cur'[y] = d /\ x # y =>
             Main \in {x, y} /\ pc'[Main] = "close"
        /\ \A x \in Tasks : Has("processes") /\ x \in tables'[d] => cur'[x] = d
        /\ ~Has("processes") /\ tables'[d] # {} =>
             d \in client_fds' \/ \E x \in Tasks : cur'[x] = d /\ pc'[x] # "exit"
    BY <1>1 DEF OneServer, Has, client
  <2>1. \A x, y \in Tasks : cur'[x] = d /\ cur'[y] = d /\ x # y =>
             Main \in {x, y} /\ pc'[Main] = "close"
    BY <1>1, <1>2 DEF OneServer, TypeOK
  <2>2. \A x \in Tasks : Has("processes") /\ x \in tables'[d] => cur'[x] = d
    BY <1>1, <1>2 DEF OneServer, TypeOK, Table
  <2>3. ASSUME ~Has("processes"), tables'[d] # {}
        PROVE  d \in client_fds' \/ \E x \in Tasks : cur'[x] = d /\ pc'[x] # "exit"
    <3>1. tables[d] \subseteq {None}  BY <2>3 DEF TypeOK, Table
    <3>2. d # cur[t] /\ tables[d] # {}  BY <1>1, <2>3, <3>1 DEF TypeOK, Table
    <3>3. d \in client_fds \/ \E x \in Tasks : cur[x] = d /\ pc[x] # "exit"
      BY <2>3, <3>2 DEF OneServer
    <3>4. QED  BY <1>1, <1>2, <3>2, <3>3 DEF TypeOK
  <2>4. QED  BY <2>1, <2>2, <2>3
<1>6. Fresh'  BY <1>1, <1>2 DEF Fresh, TypeOK
<1>7. WatchAlone'
  <2>1. Has("watch") => t = Main  BY <1>1 DEF WatchAlone, Tasks
  <2>2. QED  BY <1>1, <1>2, <1>3, <2>1 DEF WatchAlone, TypeOK, client, Has
<1>8. Taken'  BY <1>1, <1>2 DEF Taken, TypeOK
<1>9. QED  BY <1>4, <1>5, <1>6, <1>7, <1>8

\* The steps of the loops that watch: no other task has a connection then, and
\* what is taken out of the events is served.
LEMMA WatchStep ==
  ASSUME IInv, Wait \/ EndOfBatch \/ LoopAccept \/ \E c \in Conns : Handle(c)
  PROVE  IInv'
<1> USE Distinct DEF IInv
<1>1. pc[Main] \in {"wait", "events"} /\ cur[Main] = None
  BY DEF Wait, EndOfBatch, LoopAccept, Handle, TypeOK
<1>2. Has("watch") /\ ~Has("processes") /\ \A w \in Pool : pc[w] = "idle"
  BY <1>1, ProgramFacts DEF WatchAlone, TypeOK
<1>3. \A t \in Tasks : cur[t] = None  BY <1>1, <1>2 DEF TypeOK, Tasks
<1>4. CASE Wait
  <2> USE <1>4 DEF Wait, Goto, client, kernel
  <2>1. TypeOK'
    <3>1. batch' \subseteq client_fds' \cup {None}  BY DEF Ready
    <3>2. QED  BY <3>1 DEF TypeOK, Table, Has
  <2>2. OneServer'  BY DEF OneServer, TypeOK, Has
  <2>3. Fresh'  BY DEF Fresh, TypeOK
  <2>4. WatchAlone'  BY <1>2 DEF WatchAlone, TypeOK, Has
  <2>5. Taken'  BY <1>3 DEF Taken, TypeOK
  <2>6. QED  BY <2>1, <2>2, <2>3, <2>4, <2>5
<1>5. CASE EndOfBatch
  <2> USE <1>5 DEF EndOfBatch, Goto, client, kernel, watch
  <2>1. TypeOK'  BY DEF TypeOK, Table, Has
  <2>2. OneServer'  BY DEF OneServer, TypeOK, Has
  <2>3. Fresh'  BY DEF Fresh, TypeOK
  <2>4. WatchAlone'  BY <1>2 DEF WatchAlone, TypeOK, Has
  <2>5. Taken'  BY DEF Taken, TypeOK
  <2>6. QED  BY <2>1, <2>2, <2>3, <2>4, <2>5
<1>6. CASE LoopAccept
  <2>1. PICK new \in SUBSET Backlog(Main) :
          /\ sock' = [c \in Conns |-> IF c \in new \/ (Has("select") /\ c \in Backlog(Main))
                                      THEN "accepted" ELSE sock[c]]
          /\ tables' = [c \in Conns |-> IF c \in new THEN {Table(Main)} ELSE tables[c]]
          /\ client_fds' = client_fds \cup new
    BY <1>6 DEF LoopAccept
  <2>2. UNCHANGED <<client, home, task, Mutex>> /\ batch' = batch \ {None}
    BY <1>6 DEF LoopAccept
  <2>3. new \subseteq Conns  BY DEF Backlog
  <2>4. TypeOK'
    <3>1. {Table(u) : u \in Tasks}' = {Table(u) : u \in Tasks}
      BY <2>2 DEF client, Table, Has
    <3>2. tables' \in [Conns -> SUBSET {Table(u) : u \in Tasks}]  BY <2>1 DEF TypeOK
    <3>3. sock' \in [Conns -> {"new", "backlog", "accepted"}]  BY <2>1 DEF TypeOK
    <3>4. client_fds' \subseteq Conns /\ batch' \subseteq client_fds' \cup {None}
      BY <2>1, <2>2, <2>3 DEF TypeOK
    <3>5. QED  BY <2>2, <3>1, <3>2, <3>3, <3>4 DEF TypeOK, client, task
  <2>5. OneServer'  BY <1>2, <1>3, <2>1, <2>2 DEF OneServer, Has, client, task
  <2>6. Fresh'
    <3> SUFFICES ASSUME NEW c \in Conns, sock'[c] # "accepted"
                 PROVE  tables'[c] = {} /\ c \notin client_fds' /\ \A t \in Tasks : cur'[t] # c
      BY DEF Fresh
    <3>1. sock[c] # "accepted" /\ c \notin new  BY <2>1
    <3>2. QED  BY <2>1, <2>2, <3>1 DEF Fresh, task
  <2>7. WatchAlone'  BY <1>2, <2>2 DEF WatchAlone, Has, client, task
  <2>8. Taken'  BY <2>2 DEF Taken, task
  <2>9. QED  BY <2>4, <2>5, <2>6, <2>7, <2>8
<1>7. CASE \E c \in Conns : Handle(c)
  <2> PICK c \in Conns : Handle(c)  BY <1>7
  <2> USE DEF Handle, Goto, client, kernel
  <2>1. TypeOK'  BY DEF TypeOK, Table, Has
  <2>2. OneServer'  BY <1>2, <1>3 DEF OneServer, TypeOK, Has
  <2>3. Fresh'
    <3>1. c \in client_fds  BY DEF TypeOK
    <3>2. QED  BY <3>1 DEF Fresh, TypeOK
  <2>4. WatchAlone'  BY <1>2 DEF WatchAlone, TypeOK, Has
  <2>5. Taken'  BY <1>3 DEF Taken, TypeOK
  <2>6. QED  BY <2>1, <2>2, <2>3, <2>4, <2>5
<1>8. QED  BY <1>4, <1>5, <1>6, <1>7

\* Every step keeps the invariant, and so does a step that changes nothing.
LEMMA StepIInv == IInv /\ [Next]_vars => IInv'
<1> SUFFICES ASSUME IInv, [Next]_vars PROVE IInv'  OBVIOUS
<1>1. ASSUME NEW t \in Tasks, Task(t) PROVE IInv'
  BY <1>1, MoveStep, AcceptStep, CloseStep, ExitStep DEF Task
<1>2. CASE Client  BY <1>2, ClientStep
<1>3. CASE MainTask
  BY <1>1, <1>3, Distinct, SpawnStep, SpawnFailsStep, WatchStep DEF MainTask
<1>4. CASE \E w \in Pool : Task(w)  BY <1>1, <1>4, Distinct
<1>5. CASE UNCHANGED vars
  BY <1>5 DEF vars, client, kernel, task, watch, IInv, TypeOK, OneServer, Fresh,
              WatchAlone, Taken, Has, Table
<1>6. QED  BY <1>2, <1>3, <1>4, <1>5 DEF Next
-----------------------------------------------------------------------------
\* The inductive invariant holds in every state of every program.
THEOREM Invariance == Spec => []IInv
<1>1. Init => IInv  BY InitIInv
<1>2. IInv /\ [Next]_vars => IInv'  BY StepIInv
<1>3. QED  BY <1>1, <1>2, PTL DEF Spec

\* Every variable has its type, and a task has a connection exactly where the code
\* of the servers uses a client_fd.
THEOREM TypeCorrect == Spec => []TypeOK
<1>1. IInv => TypeOK  BY DEF IInv
<1>2. QED  BY <1>1, Invariance, PTL

\* handlerClient serves a connection in one task only, no other task has a
\* descriptor of it but a parent about to close its copy, and none is left open.
THEOREM OneServerPerConnection == Spec => []OneServer
<1>1. IInv => OneServer  BY DEF IInv
<1>2. QED  BY <1>1, Invariance, PTL
=============================================================================
