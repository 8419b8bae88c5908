--------------------------- MODULE MainSubProofs ---------------------------
(***************************************************************************)
(* One reactor has a connection, and nothing it uses has been deleted or   *)
(* closed; and the servers implement Handoff: for any number of main and   *)
(* sub reactors, connections, deployments and places in a unix socket.     *)
(***************************************************************************)
EXTENDS MainSub, SequenceTheorems, TLAPS

\* No two of the values a variable may have are the same by accident.
LEMMA Distinct ==
  /\ Mains \subseteq Reactors /\ Subs \subseteq Reactors
  /\ Mains \cap Subs = {} /\ Reactors = Mains \cup Subs
  /\ Conns \cap Reactors = {} /\ None \notin Conns /\ None \notin Reactors
  /\ Gone \notin Reactors /\ Gone # None
BY MainSubAssumption DEF Reactors

\* What TypeOK says of the deployment.
LEMMA Deployed ==
  ASSUME TypeOK
  PROVE  /\ home \in [Conns -> Mains]
         /\ sub_reactor_count \in Nat \ {0}
         /\ 0 .. sub_reactor_count - 1 \subseteq Subs
<1>1. PICK d \in Deployments :
        d = [options |-> options, sub |-> sub_reactor_count, home |-> home]
  BY DEF TypeOK
<1>2. d.sub \in Nat \ {0} /\ d.home \in [Conns -> Mains] /\ 0 .. d.sub - 1 \subseteq Subs
  BY MainSubAssumption DEF Subs
<1>3. d.sub = sub_reactor_count /\ d.home = home  BY <1>1
<1>4. QED  BY <1>2, <1>3

\* The tables are those of the deployment that runs.
LEMMA TablesFixed ==
  ASSUME UNCHANGED deploy
  PROVE  /\ \A e \in Reactors : Table(e)' = Table(e)
         /\ {Table(e) : e \in Reactors}' = {Table(e) : e \in Reactors}
BY DEF deploy, Table

\* The functions of TypeOK, without the types of their sets.
LEMMA Typed ==
  ASSUME TypeOK
  PROVE  /\ sock \in [Conns -> {"new", "backlog", "accepted"}]
         /\ got \in [Conns -> 0 .. 2] /\ unread \in [Conns -> 0 .. 2]
         /\ pipe \in [Mains -> [Subs -> Seq(Conns)]]
         /\ reg \in [Reactors -> [Conns -> {"none", "in", "out"}]]
         /\ mem \in [Reactors -> [Conns -> {"none", "live", "freed"}]]
         /\ pc \in [Reactors -> {"events", "accept", "give", "reply", "again",
                                 "release", "close", "delete"}]
         /\ cur \in [Reactors -> Conns \cup {None}]
         /\ DOMAIN tables = Conns /\ batch \in [Reactors -> SUBSET Events]
BY DEF TypeOK

\* Writing one cell of reg or mem.
LEMMA Cell ==
  ASSUME NEW S, NEW f \in [Reactors -> [Conns -> S]],
         NEW e \in Reactors, NEW c \in Conns, NEW v \in S,
         NEW g, g = [f EXCEPT ![e][c] = v]
  PROVE  /\ g \in [Reactors -> [Conns -> S]]
         /\ g[e][c] = v
         /\ \A x \in Reactors, d \in Conns : x # e \/ d # c => g[x][d] = f[x][d]
OBVIOUS

\* Taking events, whatever they are.
LEMMA TakenEvents ==
  ASSUME TypeOK, NEW e \in Reactors, NEW X, batch' = [batch EXCEPT ![e] = @ \ X]
  PROVE  batch' \in [Reactors -> SUBSET Events] /\ \A x \in Reactors : batch'[x] \subseteq batch[x]
BY DEF TypeOK

\* Nothing about a connection has changed, but the events.
Unchanged(d) ==
  /\ sock'[d] = sock[d] /\ tables'[d] = tables[d]
  /\ \A e \in Reactors :
       /\ reg'[e][d] = reg[e][d] /\ mem'[e][d] = mem[e][d]
       /\ cur'[e] = d <=> cur[e] = d
       /\ cur[e] = d => pc'[e] = pc[e]
  /\ \A m \in Mains, s \in Subs : Sent(m, s, d)' <=> Sent(m, s, d)

\* Then what does not speak of events holds as before.
LEMMA FrameRest ==
  ASSUME TypeOK, UNCHANGED deploy, NEW d \in Conns, Sound(d), Unchanged(d)
  PROVE  Fresh(d)' /\ OnePlace(d)' /\ MainHandles(d)' /\ SubHandles(d)'
<1> USE DEF Unchanged
<1>1. home[d] \in Mains /\ home[d] \in Reactors  BY Deployed, Distinct
<1>2. home' = home /\ options' = options  BY DEF deploy
<1>3. InFlight(d)' <=> InFlight(d)  BY DEF InFlight
<1>4. SubKnows(d)' <=> SubKnows(d)  BY Distinct DEF SubKnows
<1>5. MainHas(d)' <=> MainHas(d)  BY <1>1, <1>2 DEF MainHas
<1>6. \A e \in Reactors : Table(e)' = Table(e)  BY TablesFixed
<1>7. Fresh(d)'
  BY <1>2, <1>3, Distinct DEF Sound, Fresh
<1>8. OnePlace(d)'
  BY <1>1, <1>2, <1>3, <1>4, <1>5, <1>6, Distinct DEF Sound, OnePlace
<1>9. MainHandles(d)'
  BY <1>1, <1>2, <1>3, <1>4 DEF Sound, MainHandles
<1>10. SubHandles(d)'
  BY <1>6, Distinct DEF Sound, SubHandles
<1>11. QED  BY <1>7, <1>8, <1>9, <1>10

\* All of it does, when events have only been taken.
LEMMA Frame ==
  ASSUME TypeOK, UNCHANGED deploy, NEW d \in Conns, Sound(d), Unchanged(d),
         got'[d] + unread'[d] <= 2,
         \A e \in Reactors : batch'[e] \subseteq batch[e]
  PROVE  Sound(d)'
<1>1. \A e \in Reactors : Table(e)' = Table(e)  BY TablesFixed
<1>2. Registration(d)'  BY <1>1 DEF Unchanged, Sound, Registration
<1>3. QED  BY <1>2, FrameRest DEF Sound

Places == {"events", "accept", "give", "reply", "again", "release", "close", "delete"}

\* A reactor goes on, with a connection or without as Idle says.
LEMMA Moves ==
  ASSUME TypeOK, Idle, NEW e \in Reactors, NEW c \in Conns, NEW next \in Places,
         pc' = [pc EXCEPT ![e] = next],
         cur' = [cur EXCEPT ![e] = IF next \in {"events", "accept"} THEN None ELSE c]
  PROVE  /\ Idle' /\ pc' \in [Reactors -> Places] /\ cur' \in [Reactors -> Conns \cup {None}]
         /\ pc'[e] = next /\ cur'[e] = IF next \in {"events", "accept"} THEN None ELSE c
         /\ \A f \in Reactors \ {e} : pc'[f] = pc[f] /\ cur'[f] = cur[f]
<1>1. pc \in [Reactors -> Places] /\ cur \in [Reactors -> Conns \cup {None}]
  BY Typed DEF Places
<1>2. QED  BY <1>1, Distinct DEF Idle

\* A step of e that is about c leaves all other connections as they are.
LEMMA Others ==
  ASSUME IInv, UNCHANGED deploy, NEW e \in Reactors, NEW c \in Conns,
         cur[e] \in {c, None}, cur'[e] \in {c, None},
         \A f \in Reactors \ {e} : pc'[f] = pc[f] /\ cur'[f] = cur[f],
         \A f \in Reactors : batch'[f] \subseteq batch[f],
         \A d \in Conns \ {c} :
           /\ sock'[d] = sock[d] /\ tables'[d] = tables[d]
           /\ got'[d] = got[d] /\ unread'[d] = unread[d]
           /\ \A f \in Reactors : reg'[f][d] = reg[f][d] /\ mem'[f][d] = mem[f][d]
           /\ \A m \in Mains, s \in Subs : Sent(m, s, d)' <=> Sent(m, s, d)
  PROVE  \A d \in Conns \ {c} : Sound(d)'
<1> SUFFICES ASSUME NEW d \in Conns \ {c} PROVE Sound(d)'  OBVIOUS
<1>1. Unchanged(d)  BY Distinct DEF Unchanged
<1>2. TypeOK /\ Sound(d) /\ got'[d] + unread'[d] <= 2  BY DEF IInv, Sound
<1>3. QED  BY <1>1, <1>2, Frame

\* A step that leaves the unix sockets alone.
LEMMA PipesKept ==
  ASSUME UNCHANGED pipe, Pipes, \A s \in Subs : batch'[s] \subseteq batch[s]
  PROVE  Pipes' /\ \A m \in Mains, s \in Subs, d \in Conns : Sent(m, s, d)' <=> Sent(m, s, d)
BY DEF Pipes, Sent

\* Where every program starts.
LEMMA InitIInv == Init => IInv
<1> SUFFICES ASSUME Init PROVE IInv  OBVIOUS
<1> USE Distinct
<1>1. PICK d \in Deployments :
        options = d.options /\ sub_reactor_count = d.sub /\ home = d.home
  BY DEF Init
<1>2. d = [options |-> options, sub |-> sub_reactor_count, home |-> home] /\ d.sub \in Nat \ {0}
  BY <1>1, MainSubAssumption
<1>3. \A m \in Mains, s \in Subs : pipe[m][s] = <<>>  BY DEF Init
<1>4. \A c \in Conns : ~InFlight(c)  BY <1>3 DEF InFlight, Sent
<1>5. TypeOK
  <2>1. pipe \in [Mains -> [Subs -> Seq(Conns)]]  BY DEF Init
  <2>2. index \in [Mains -> 0 .. sub_reactor_count - 1]  BY <1>1, <1>2 DEF Init
  <2>3. QED  BY <1>2, <2>1, <2>2 DEF Init, TypeOK
<1>6. Idle  BY DEF Init, Idle
<1>7. Pipes  BY <1>3 DEF Init, Pipes
<1>8. \A c \in Conns : Sound(c)
  <2> SUFFICES ASSUME NEW c \in Conns PROVE Sound(c)  OBVIOUS
  <2>1. home[c] \in Reactors  BY <1>1, <1>2, MainSubAssumption
  <2>2. \A e \in Reactors : reg[e][c] = "none" /\ mem[e][c] = "none" /\ cur[e] # c /\ batch[e] = {}
    BY DEF Init
  <2>3. ~SubKnows(c) /\ ~MainHas(c)  BY <2>1, <2>2 DEF SubKnows, MainHas
  <2>4. Fresh(c)  BY <1>4, <2>2 DEF Fresh, InFlight, Init
  <2>5. Registration(c)  BY <2>2 DEF Registration
  <2>6. OnePlace(c)  BY <1>4, <2>2, <2>3 DEF OnePlace
  <2>7. MainHandles(c) /\ SubHandles(c)  BY <2>1, <2>2 DEF MainHandles, SubHandles
  <2>8. QED  BY <2>4, <2>5, <2>6, <2>7 DEF Sound, Init
<1>9. QED  BY <1>5, <1>6, <1>7, <1>8 DEF IInv
-----------------------------------------------------------------------------
(* The clients. *)

\* What a client does changes no descriptor and no reactor.
LEMMA ClientStep == ASSUME IInv, Client PROVE IInv'
<1> USE Distinct DEF IInv
<1>0. PICK c \in Conns : Connect(c) \/ ClientSend(c) \/ ClientClose(c)  BY DEF Client
<1>1. UNCHANGED deploy /\ UNCHANGED <<tables, link, pipe, reg, mem, got, index, batch, pc, cur>>
  BY <1>0 DEF Connect, ClientSend, ClientClose, client, kernel, conn, reactor
<1>2. Pipes' /\ \A m \in Mains, s \in Subs, d \in Conns : Sent(m, s, d)' <=> Sent(m, s, d)
  BY <1>1, PipesKept
<1>3. Idle'  BY <1>1 DEF Idle
<1>4. CASE Connect(c)
  <2> USE <1>4 DEF Connect, client
  <2>1. TypeOK'  BY <1>1, TablesFixed DEF TypeOK, deploy
  <2>2. Sound(c)'
    <3>1. sock[c] # "accepted" /\ sock'[c] # "accepted"  BY DEF TypeOK
    <3>2. Sound(c) BY DEF IInv
    <3>3. QED  BY <1>1, <1>2, <3>1, <3>2, TablesFixed
      DEF Sound, Fresh, Registration, OnePlace, MainHandles, SubHandles, MainHas, SubKnows, InFlight, deploy
  <2>3. ASSUME NEW d \in Conns, d # c PROVE Sound(d)'
    BY <1>1, <1>2, <2>3, Frame, Typed DEF Unchanged, Sound
  <2>4. QED  BY <1>2, <1>3, <2>1, <2>2, <2>3
<1>5. CASE ClientSend(c)
  <2> USE <1>5 DEF ClientSend, kernel
  <2>0. got[c] \in 0 .. 2 /\ unread \in [Conns -> 0 .. 2] /\ got[c] + unread[c] < 2
    BY DEF TypeOK
  <2>1. got[c] + unread'[c] <= 2 /\ unread'[c] \in 0 .. 2  BY <2>0
  <2>2. TypeOK'  BY <1>1, <2>1, TablesFixed DEF TypeOK, deploy
  <2>3. ASSUME NEW d \in Conns PROVE Sound(d)'
    <3>1. got'[d] + unread'[d] <= 2  BY <1>1, <2>1 DEF TypeOK, Sound
    <3>2. QED  BY <1>1, <1>2, <3>1, Frame DEF Unchanged
  <2>4. QED  BY <1>2, <1>3, <2>2, <2>3
<1>6. CASE ClientClose(c)
  <2> USE <1>6 DEF ClientClose, kernel
  <2>1. TypeOK'  BY <1>1, TablesFixed DEF TypeOK, deploy
  <2>2. ASSUME NEW d \in Conns PROVE Sound(d)'
    BY <1>1, <1>2, Frame DEF Unchanged, Sound
  <2>3. QED  BY <1>2, <1>3, <2>1, <2>2
<1>7. QED  BY <1>0, <1>4, <1>5, <1>6
-----------------------------------------------------------------------------
(* What every reactor does. *)

\* The events are those the registrations, the unix sockets and the listening
\* sockets give rise to at that moment.
LEMMA EpollWaitStep == ASSUME IInv, NEW e \in Reactors, EpollWait(e) PROVE IInv'
<1> USE Distinct DEF IInv
<1>1. /\ UNCHANGED deploy
      /\ UNCHANGED <<peer, unread, sock, tables, link, pipe, reg, mem, got, index, pc, cur>>
      /\ pc[e] = "events" /\ batch[e] = {}
      /\ batch' = [batch EXCEPT ![e] = Ready(e)]
  BY DEF EpollWait, client, kernel, conn
<1>2. /\ Ready(e) \subseteq Events
      /\ \A d \in Conns, event \in {"in", "out"} : <<d, event>> \in Ready(e) => reg[e][d] = event
      /\ \A m \in Mains : <<m, "in">> \in Ready(e) => pipe[m][e] # <<>>
  BY DEF Ready, TypeOK, Events
<1>3. TypeOK'  BY <1>1, <1>2, TablesFixed DEF TypeOK, deploy
<1>4. Idle'  BY <1>1 DEF Idle
<1>5. Pipes'  BY <1>1, <1>2 DEF Pipes, TypeOK
<1>6. ASSUME NEW c \in Conns PROVE Sound(c)'
  <2>1. cur[e] # c  BY <1>1 DEF Idle, TypeOK
  <2>2. Registration(c)'
    <3> SUFFICES ASSUME NEW f \in Reactors
                 PROVE /\ reg[f][c] # "none" => mem[f][c] = "live" /\ Table(f) \in tables[c]
                       /\ \A event \in {"in", "out"} :
                            <<c, event>> \in batch'[f] => reg[f][c] = event /\ cur[f] # c
      BY <1>1, TablesFixed DEF Registration
    <3>1. CASE f = e  BY <1>1, <1>2, <2>1, <3>1 DEF Sound, Registration, TypeOK
    <3>2. CASE f # e  BY <1>1, <3>2 DEF Sound, Registration, TypeOK
    <3>3. QED  BY <3>1, <3>2
  <2>3. Unchanged(c)  BY <1>1 DEF Unchanged, Sent
  <2>4. QED  BY <1>1, <2>2, <2>3, FrameRest DEF Sound
<1>7. QED  BY <1>3, <1>4, <1>5, <1>6

\* LoopAccept on a listening socket begins and ends, and the main reactors connect
\* to the unix socket: no connection is concerned.
LEMMA AcceptLoopStep ==
  ASSUME IInv, NEW e \in Reactors,
         \/ e \in Mains /\ (StartAccept(e) \/ EndAccept(e))
         \/ e \in Subs /\ AcceptMains(e)
  PROVE  IInv'
<1> USE Distinct DEF IInv
<1>1. /\ UNCHANGED deploy
      /\ UNCHANGED <<peer, unread, sock, tables, pipe, reg, mem, got, index>>
  BY DEF StartAccept, EndAccept, AcceptMains, client, kernel, conn
<1>2. link' \in [Subs -> SUBSET Mains]
  <2>1. link \in [Subs -> SUBSET Mains]  BY DEF TypeOK
  <2>2. CASE StartAccept(e) \/ EndAccept(e)  BY <2>1, <2>2 DEF StartAccept, EndAccept, kernel
  <2>3. CASE AcceptMains(e)  BY <2>1, <2>3 DEF AcceptMains
  <2>4. QED  BY <2>2, <2>3
<1>3. /\ pc[e] \in {"events", "accept"} /\ cur' = [cur EXCEPT ![e] = None]
      /\ pc' = [pc EXCEPT ![e] = "accept"] \/ pc' = [pc EXCEPT ![e] = "events"]
  <2>1. CASE StartAccept(e)  BY <2>1, Typed DEF StartAccept, Handle, Idle
  <2>2. CASE EndAccept(e)  BY <2>2 DEF EndAccept, Goto
  <2>3. CASE AcceptMains(e)  BY <2>3, Typed DEF AcceptMains, Handle
  <2>4. QED  BY <2>1, <2>2, <2>3
<1>4. batch' = [batch EXCEPT ![e] = @ \ {<<None, "in">>}] \/ UNCHANGED batch
  BY DEF StartAccept, EndAccept, AcceptMains, Handle, Goto
<1>5. \A f \in Reactors : batch'[f] \subseteq batch[f]  BY <1>4, TakenEvents
<1>6. Pipes' /\ \A m \in Mains, s \in Subs, d \in Conns : Sent(m, s, d)' <=> Sent(m, s, d)
  BY <1>1, <1>5, PipesKept
<1>7. TypeOK'
  <2>1. batch' \in [Reactors -> SUBSET Events]
    BY <1>4, TakenEvents, Typed
  <2>2. QED  BY <1>1, <1>2, <1>3, <2>1, TablesFixed DEF TypeOK, deploy
<1>8. Idle'  BY <1>3, Typed DEF Idle
<1>9. ASSUME NEW d \in Conns PROVE Sound(d)'
  <2>1. Unchanged(d)  BY <1>1, <1>3, <1>6, Typed DEF Unchanged, Idle
  <2>2. QED  BY <1>1, <1>5, <2>1, Frame DEF Sound
<1>10. QED  BY <1>6, <1>7, <1>8, <1>9

\* A new Conn is the first thing anybody knows of the connection.
LEMMA AcceptStep == ASSUME IInv, NEW m \in Mains, Accept(m) PROVE IInv'
<1> USE Distinct DEF IInv
<1>0. PICK c \in Backlog(m) :
        /\ sock' = [sock EXCEPT ![c] = "accepted"]
        /\ tables' = [tables EXCEPT ![c] = {Table(m)}]
        /\ \/ "mainread" \in options /\ NewConn(m, c) /\ UNCHANGED <<pc, cur>>
           \/ /\ "mainread" \notin options
              /\ pc' = [pc EXCEPT ![m] = "give"] /\ cur' = [cur EXCEPT ![m] = c]
              /\ UNCHANGED <<mem, reg>>
  BY DEF Accept
<1>1. /\ UNCHANGED deploy /\ UNCHANGED <<peer, unread, link, pipe, got, index, batch>>
      /\ c \in Conns /\ home[c] = m /\ sock[c] = "backlog" /\ pc[m] = "accept" /\ cur[m] = None
  BY DEF Accept, Backlog, client, Idle
<1>2. \/ reg' = [reg EXCEPT ![m][c] = "in"] /\ mem' = [mem EXCEPT ![m][c] = "live"] /\ UNCHANGED <<pc, cur>>
      \/ pc' = [pc EXCEPT ![m] = "give"] /\ cur' = [cur EXCEPT ![m] = c] /\ UNCHANGED <<mem, reg>>
  BY <1>0 DEF NewConn
<1>3. /\ tables[c] = {} /\ ~InFlight(c)
      /\ \A e \in Reactors : mem[e][c] = "none" /\ cur[e] # c
  BY <1>1 DEF Sound, Fresh
<1>4. \A e \in Reactors : /\ reg[e][c] = "none"
                          /\ \A event \in {"in", "out"} : <<c, event>> \notin batch[e]
  BY <1>1, <1>3 DEF Sound, Registration
<1>5. /\ Pipes' /\ \A n \in Mains, s \in Subs, d \in Conns : Sent(n, s, d)' <=> Sent(n, s, d)
      /\ InFlight(c)' <=> InFlight(c)
  BY <1>1, PipesKept DEF InFlight
<1>6. /\ reg' \in [Reactors -> [Conns -> {"none", "in", "out"}]]
      /\ mem' \in [Reactors -> [Conns -> {"none", "live", "freed"}]]
      /\ \A e \in Reactors, d \in Conns : e # m \/ d # c =>
           reg'[e][d] = reg[e][d] /\ mem'[e][d] = mem[e][d]
  <2>1. CASE reg' = [reg EXCEPT ![m][c] = "in"] /\ mem' = [mem EXCEPT ![m][c] = "live"]
    <3>1. /\ reg' \in [Reactors -> [Conns -> {"none", "in", "out"}]]
          /\ \A e \in Reactors, d \in Conns : e # m \/ d # c => reg'[e][d] = reg[e][d]
      BY <1>1, <2>1, Cell, Typed
    <3>2. /\ mem' \in [Reactors -> [Conns -> {"none", "live", "freed"}]]
          /\ \A e \in Reactors, d \in Conns : e # m \/ d # c => mem'[e][d] = mem[e][d]
      BY <1>1, <2>1, Cell, Typed
    <3>3. QED  BY <3>1, <3>2
  <2>2. CASE UNCHANGED <<mem, reg>>  BY <2>2, Typed
  <2>3. QED  BY <1>2, <2>1, <2>2
<1>7. /\ pc' \in [Reactors -> {"events", "accept", "give", "reply", "again",
                               "release", "close", "delete"}]
      /\ cur' \in [Reactors -> Conns \cup {None}]
      /\ \A e \in Reactors \ {m} : pc'[e] = pc[e] /\ cur'[e] = cur[e]
  <2>1. CASE pc' = [pc EXCEPT ![m] = "give"] /\ cur' = [cur EXCEPT ![m] = c]  BY <1>1, <2>1, Typed
  <2>2. CASE UNCHANGED <<pc, cur>>  BY <2>2, Typed
  <2>3. QED  BY <1>2, <2>1, <2>2
<1>8. \/ reg'[m][c] = "in" /\ mem'[m][c] = "live" /\ cur'[m] = None /\ pc'[m] = "accept"
      \/ reg'[m][c] = "none" /\ mem'[m][c] = "none" /\ cur'[m] = c /\ pc'[m] = "give"
  BY <1>1, <1>2, <1>3, <1>4, Typed
<1>9. TypeOK'
  <2>1. {Table(e) : e \in Reactors}' = {Table(e) : e \in Reactors}  BY <1>1, TablesFixed
  <2>2. tables' \in [Conns -> SUBSET {Table(e) : e \in Reactors}]  BY <1>0, <1>1 DEF TypeOK
  <2>3. sock' \in [Conns -> {"new", "backlog", "accepted"}]  BY <1>0, Typed
  <2>4. QED  BY <1>1, <1>6, <1>7, <2>1, <2>2, <2>3 DEF TypeOK, deploy
<1>10. Idle'  BY <1>1, <1>7, <1>8 DEF Idle
<1>11. ASSUME NEW d \in Conns, d # c PROVE Sound(d)'
  <2>1. sock'[d] = sock[d] /\ tables'[d] = tables[d]  BY <1>0, <1>11, Typed
  <2>2. \A e \in Reactors : cur'[e] = d <=> cur[e] = d  BY <1>1, <1>7, <1>8, <1>11
  <2>3. \A e \in Reactors : cur[e] = d => pc'[e] = pc[e]  BY <1>1, <1>7
  <2>4. Unchanged(d)  BY <1>5, <1>6, <1>11, <2>1, <2>2, <2>3 DEF Unchanged
  <2>5. QED  BY <1>1, <2>4, Frame DEF Sound
<1>12. Sound(c)'
  <2>1. /\ sock'[c] = "accepted" /\ tables'[c] = {Table(m)} /\ home'[c] = m
        /\ \A e \in Reactors : Table(e)' = Table(e)
    BY <1>0, <1>1, Typed, TablesFixed DEF deploy
  <2>2. \A e \in Reactors \ {m} : reg'[e][c] = "none" /\ mem'[e][c] = "none" /\ cur'[e] # c
    BY <1>1, <1>3, <1>4, <1>6, <1>7, SMTT(30)
  <2>3. ~SubKnows(c)' /\ ~InFlight(c)'  BY <1>3, <1>5, <2>2 DEF SubKnows
  <2>4. Fresh(c)'  BY <2>1, <2>2, <2>3 DEF Fresh, InFlight
  <2>5. Registration(c)'  BY <1>1, <1>4, <1>8, <2>1, <2>2 DEF Registration
  <2>6. OnePlace(c)'  BY <2>1, <2>2, <2>3 DEF OnePlace, SubKnows
  <2>7. MainHandles(c)'  BY <1>1, <1>8, <2>1 DEF MainHandles
  <2>8. SubHandles(c)'  BY <2>2 DEF SubHandles
  <2>9. QED  BY <1>1, <2>4, <2>5, <2>6, <2>7, <2>8 DEF Sound
<1>13. QED  BY <1>5, <1>9, <1>10, <1>11, <1>12
-----------------------------------------------------------------------------
(* The hand-over. *)

\* The main reactor takes the connection out of its own epoll before anybody else
\* hears of it.
LEMMA ClearEventStep ==
  ASSUME IInv, NEW m \in Mains, NEW c \in Conns, ClearEvent(m, c) PROVE IInv'
<1> USE Distinct DEF IInv
<1>1. /\ UNCHANGED deploy /\ UNCHANGED <<peer, unread, sock, tables, link, pipe, mem, got, index>>
      /\ pc[m] = "events" /\ <<c, "in">> \in batch[m] /\ cur[m] = None
      /\ batch' = [batch EXCEPT ![m] = @ \ {<<c, "in">>}]
      /\ reg' = [reg EXCEPT ![m][c] = "none"]
  BY DEF ClearEvent, Handle, client, kernel, Idle
<1>2. pc' = [pc EXCEPT ![m] = "give"] /\ cur' = [cur EXCEPT ![m] = c]
  BY DEF ClearEvent, Handle
<1>3. /\ Idle' /\ pc' \in [Reactors -> Places] /\ cur' \in [Reactors -> Conns \cup {None}]
      /\ pc'[m] = "give" /\ cur'[m] = c
      /\ \A f \in Reactors \ {m} : pc'[f] = pc[f] /\ cur'[f] = cur[f]
  BY <1>2, Moves DEF Places
<1>4. /\ batch' \in [Reactors -> SUBSET Events]
      /\ \A f \in Reactors : batch'[f] \subseteq batch[f]
  BY <1>1, TakenEvents
<1>5. /\ reg' \in [Reactors -> [Conns -> {"none", "in", "out"}]] /\ reg'[m][c] = "none"
      /\ \A f \in Reactors, d \in Conns : f # m \/ d # c => reg'[f][d] = reg[f][d]
  BY <1>1, Cell, Typed
<1>6. Pipes' /\ \A n \in Mains, s \in Subs, d \in Conns : Sent(n, s, d)' <=> Sent(n, s, d)
  BY <1>1, <1>4, PipesKept
<1>7. TypeOK'  BY <1>1, <1>3, <1>4, <1>5, TablesFixed DEF TypeOK, deploy, Places
<1>8. \A d \in Conns \ {c} : Sound(d)'
  BY <1>1, <1>3, <1>4, <1>5, <1>6, Others
<1>9. /\ reg[m][c] = "in" /\ mem[m][c] = "live" /\ home[c] = m
      /\ \A event \in {"in", "out"} : <<c, event>> \notin batch'[m]
  <2>1. reg[m][c] = "in" /\ mem[m][c] = "live"  BY <1>1 DEF Sound, Registration
  <2>2. home[c] = m  BY <2>1 DEF Sound, Fresh
  <2>3. <<c, "out">> \notin batch[m]  BY <2>1 DEF Sound, Registration
  <2>4. QED  BY <1>1, <2>1, <2>2, <2>3, Typed
<1>10. MainHas(c)  BY <1>9 DEF MainHas
<1>11. Sound(c)'
  <2>1. home' = home /\ options' = options /\ \A f \in Reactors : Table(f)' = Table(f)
    BY <1>1, TablesFixed DEF deploy
  <2>2. (InFlight(c)' <=> InFlight(c)) /\ (SubKnows(c)' <=> SubKnows(c))
    BY <1>1, <1>6 DEF InFlight, SubKnows
  <2>3. Fresh(c)'  BY <1>1, <1>3, <1>6, <1>9, <2>1, <2>2 DEF Sound, Fresh
  <2>4. Registration(c)'
    BY <1>1, <1>3, <1>4, <1>5, <1>9, <2>1 DEF Sound, Registration
  <2>5. OnePlace(c)'
    <3>1. tables[c] = {Table(m)} /\ ~InFlight(c) /\ ~SubKnows(c)
      BY <1>9, <1>10 DEF Sound, OnePlace
    <3>2. Table(home[c])' = Table(m) /\ tables'[c] = {Table(m)}  BY <1>1, <1>9, <2>1, <3>1
    <3>3. QED  BY <2>2, <3>1, <3>2 DEF OnePlace, SubKnows
  <2>6. MainHandles(c)'  BY <1>1, <1>3, <1>5, <1>9, <2>1 DEF MainHandles
  <2>7. SubHandles(c)'  BY <1>1, <1>3, <1>5, <2>1 DEF Sound, SubHandles
  <2>8. QED  BY <1>1, <2>3, <2>4, <2>5, <2>6, <2>7 DEF Sound
<1>12. QED  BY <1>3, <1>6, <1>7, <1>8, <1>11

\* The new index is one of the sub reactors of the deployment.
LEMMA NextIndexInRange ==
  ASSUME TypeOK, NEW m \in Mains, NextIndex(m)
  PROVE  /\ index' \in [Mains -> 0 .. sub_reactor_count - 1]
         /\ index'[m] \in Subs
<1>1. sub_reactor_count \in Nat \ {0} /\ 0 .. sub_reactor_count - 1 \subseteq Subs  BY Deployed
<1>2. index \in [Mains -> 0 .. sub_reactor_count - 1]  BY DEF TypeOK
<1>3. (index[m] + 1) % sub_reactor_count \in 0 .. sub_reactor_count - 1  BY <1>1, <1>2
<1>4. QED  BY <1>1, <1>2, <1>3 DEF NextIndex

\* What a main reactor about to hand on a connection knows of it.
LEMMA Giving ==
  ASSUME IInv, NEW m \in Mains, pc[m] = "give"
  PROVE  LET c == cur[m] IN
         /\ c \in Conns /\ home[c] = m /\ sock[c] = "accepted" /\ tables[c] = {Table(m)}
         /\ ~InFlight(c) /\ ~SubKnows(c)
         /\ mem[m][c] \in {"none", "live"}
         /\ \A e \in Reactors :
              /\ reg[e][c] = "none" /\ (e # m => mem[e][c] = "none" /\ cur[e] # c)
              /\ \A event \in {"in", "out"} : <<c, event>> \notin batch[e]
<1> USE Distinct DEF IInv
<1> DEFINE c == cur[m]
<1>1. c \in Conns  BY Typed DEF Idle
<1>2. Sound(c)  BY <1>1
<1>3. home[c] = m /\ sock[c] = "accepted"  BY <1>1, <1>2 DEF Sound, Fresh
<1>4. MainHas(c)  BY <1>3 DEF MainHas
<1>5. tables[c] = {Table(m)} /\ ~InFlight(c) /\ ~SubKnows(c)  BY <1>2, <1>3, <1>4 DEF Sound, OnePlace
<1>6. mem[m][c] \in {"none", "live"} /\ reg[m][c] = "none"
  BY <1>1, <1>2, <1>3, Typed DEF Sound, MainHandles
<1>7. \A e \in Reactors \ {m} : mem[e][c] = "none" /\ cur[e] # c
  BY <1>1, <1>2, <1>3, <1>5 DEF Sound, Fresh, SubHandles, SubKnows
<1>8. \A e \in Reactors : reg[e][c] = "none"
  BY <1>1, <1>2, <1>6, <1>7 DEF Sound, Registration
<1>9. \A e \in Reactors, event \in {"in", "out"} : <<c, event>> \notin batch[e]
  BY <1>1, <1>2, <1>8 DEF Sound, Registration
<1>10. QED  BY <1>1, <1>3, <1>5, <1>6, <1>7, <1>8, <1>9

\* A main reactor of a thread registers the connection with a sub reactor, and from
\* then on has its own Conn only.
LEMMA AddToSubReactorStep ==
  ASSUME IInv, NEW m \in Mains, AddToSubReactor(m) PROVE IInv'
<1> USE Distinct DEF IInv
<1>c. PICK c \in Conns : c = cur[m]  BY Giving DEF AddToSubReactor
<1>s. PICK s \in Subs : s = index'[m]  BY NextIndexInRange DEF AddToSubReactor
<1>n. PICK next \in Places : next = IF mem[m][c] = "live" THEN "delete" ELSE "accept"
  BY DEF Places
<1>1. /\ UNCHANGED deploy /\ UNCHANGED <<peer, unread, sock, tables, link, pipe, got, batch>>
      /\ "threads" \in options /\ pc[m] = "give" /\ NextIndex(m)
      /\ reg' = [reg EXCEPT ![s][c] = "in"] /\ mem' = [mem EXCEPT ![s][c] = "live"]
      /\ pc' = [pc EXCEPT ![m] = next]
      /\ cur' = [cur EXCEPT ![m] = IF next \in {"events", "accept"} THEN None ELSE c]
  BY <1>c, <1>s, <1>n DEF AddToSubReactor, NewConn, Goto, client, kernel
<1>2. /\ cur[m] = c /\ home[c] = m /\ sock[c] = "accepted" /\ tables[c] = {Table(m)}
      /\ ~InFlight(c) /\ ~SubKnows(c) /\ mem[m][c] \in {"none", "live"}
      /\ \A e \in Reactors :
           /\ reg[e][c] = "none" /\ (e # m => mem[e][c] = "none" /\ cur[e] # c)
           /\ \A event \in {"in", "out"} : <<c, event>> \notin batch[e]
  BY <1>1, <1>c, Giving
<1>3. s \in Subs /\ s \in Reactors /\ s # m /\ index' \in [Mains -> 0 .. sub_reactor_count - 1]
  BY <1>1, <1>s, NextIndexInRange
<1>4. /\ Idle' /\ pc' \in [Reactors -> Places] /\ cur' \in [Reactors -> Conns \cup {None}]
      /\ pc'[m] = next /\ cur'[m] = IF next \in {"events", "accept"} THEN None ELSE c
      /\ \A f \in Reactors \ {m} : pc'[f] = pc[f] /\ cur'[f] = cur[f]
  BY <1>1, <1>2, Moves
<1>5. /\ reg' \in [Reactors -> [Conns -> {"none", "in", "out"}]] /\ reg'[s][c] = "in"
      /\ \A f \in Reactors, d \in Conns : f # s \/ d # c => reg'[f][d] = reg[f][d]
  BY <1>1, <1>2, <1>3, Cell, Typed
<1>6. /\ mem' \in [Reactors -> [Conns -> {"none", "live", "freed"}]] /\ mem'[s][c] = "live"
      /\ \A f \in Reactors, d \in Conns : f # s \/ d # c => mem'[f][d] = mem[f][d]
  BY <1>1, <1>2, <1>3, Cell, Typed
<1>7. Pipes' /\ \A n \in Mains, t \in Subs, d \in Conns : Sent(n, t, d)' <=> Sent(n, t, d)
  BY <1>1, PipesKept
<1>8. TypeOK'  BY <1>1, <1>3, <1>4, <1>5, <1>6, TablesFixed DEF TypeOK, deploy, Places
<1>9. \A d \in Conns \ {c} : Sound(d)'
  BY <1>1, <1>2, <1>4, <1>5, <1>6, <1>7, Others, SMTT(30)
<1>10. Sound(c)'
  <2>1. home' = home /\ options' = options /\ \A f \in Reactors : Table(f)' = Table(f)
    BY <1>1, TablesFixed DEF deploy
  <2>2. tables'[c] = {None} /\ \A e \in Reactors : Table(e)' = None
    BY <1>1, <1>2, <2>1 DEF Table
  <2>3. ~InFlight(c)' /\ SubKnows(c)'  BY <1>2, <1>3, <1>6, <1>7 DEF InFlight, SubKnows
  <2>4. ~MainHas(c)'  BY <1>2, <1>3, <1>4, <1>5, <1>n, <2>1 DEF MainHas
  <2>5. Fresh(c)'
    BY <1>1, <1>2, <1>3, <1>4, <1>6, <2>1, <2>3 DEF Fresh, InFlight
  <2>6. Registration(c)'
    <3>1. \A f \in Reactors : reg'[f][c] # "none" => f = s  BY <1>2, <1>5
    <3>2. \A f \in Reactors, event \in {"in", "out"} : <<c, event>> \notin batch'[f]
      BY <1>1, <1>2
    <3>3. mem'[s][c] = "live" /\ Table(s)' \in tables'[c]  BY <1>3, <1>6, <2>2
    <3>4. QED  BY <3>1, <3>2, <3>3 DEF Registration
  <2>7. OnePlace(c)'
    <3>1. \A t \in Subs : mem'[t][c] # "none" => t = s  BY <1>2, <1>6
    <3>2. QED  BY <2>3, <2>4, <3>1 DEF OnePlace
  <2>8. MainHandles(c)'
    <3>1. mem'[m][c] = mem[m][c] /\ reg'[m][c] = "none"  BY <1>2, <1>3, <1>5, <1>6, SMTT(30)
    <3>2. QED  BY <1>2, <1>4, <1>n, <2>1, <3>1 DEF MainHandles
  <2>9. SubHandles(c)'  BY <1>2, <1>4 DEF SubHandles
  <2>10. QED  BY <1>1, <2>5, <2>6, <2>7, <2>8, <2>9 DEF Sound
<1>11. QED  BY <1>4, <1>7, <1>8, <1>9, <1>10

\* The descriptors in a unix socket after one is sent, and after one is received.
LEMMA SendLemma ==
  ASSUME Pipes, pipe \in [Mains -> [Subs -> Seq(Conns)]],
         NEW m \in Mains, NEW s \in Subs, NEW c \in Conns, ~InFlight(c),
         pipe' = [pipe EXCEPT ![m][s] = Append(@, c)], UNCHANGED batch
  PROVE  /\ Pipes' /\ pipe' \in [Mains -> [Subs -> Seq(Conns)]]
         /\ \A n \in Mains, t \in Subs, d \in Conns :
              Sent(n, t, d)' <=> Sent(n, t, d) \/ (n = m /\ t = s /\ d = c)
<1>1. /\ pipe' \in [Mains -> [Subs -> Seq(Conns)]]
      /\ pipe'[m][s] = Append(pipe[m][s], c)
      /\ \A n \in Mains, t \in Subs : n # m \/ t # s => pipe'[n][t] = pipe[n][t]
  OBVIOUS
<1> DEFINE q == pipe[m][s]
<1>2. /\ q \in Seq(Conns) /\ Len(q) \in Nat /\ DOMAIN q = 1 .. Len(q)
      /\ DOMAIN pipe'[m][s] = 1 .. Len(q) + 1
      /\ pipe'[m][s][Len(q) + 1] = c
      /\ \A i \in 1 .. Len(q) : pipe'[m][s][i] = q[i]
  BY <1>1
<1> HIDE DEF q
<1>3. \A n \in Mains, t \in Subs : \A i \in DOMAIN pipe[n][t] : pipe[n][t][i] # c
  BY DEF InFlight, Sent
<1>4. \A n \in Mains, t \in Subs : \A i \in DOMAIN pipe'[n][t] :
        \/ i \in DOMAIN pipe[n][t] /\ pipe'[n][t][i] = pipe[n][t][i]
        \/ n = m /\ t = s /\ i = Len(q) + 1 /\ pipe'[n][t][i] = c
  BY <1>1, <1>2 DEF q
<1>5. \A n \in Mains, t \in Subs : \A i \in DOMAIN pipe[n][t] :
        i \in DOMAIN pipe'[n][t] /\ pipe'[n][t][i] = pipe[n][t][i]
  BY <1>1, <1>2 DEF q
<1>6. \A n \in Mains, t \in Subs, d \in Conns :
        Sent(n, t, d)' <=> Sent(n, t, d) \/ (n = m /\ t = s /\ d = c)
  BY <1>2, <1>4, <1>5 DEF Sent
<1>7. Pipes'
  <2>1. ASSUME NEW n \in Mains, NEW p \in Mains, NEW t \in Subs, NEW u \in Subs,
               NEW i \in DOMAIN pipe'[n][t], NEW j \in DOMAIN pipe'[p][u],
               pipe'[n][t][i] = pipe'[p][u][j]
        PROVE  n = p /\ t = u /\ i = j
    BY <1>3, <1>4, <2>1 DEF Pipes
  <2>2. ASSUME NEW n \in Mains, NEW t \in Subs, <<n, "in">> \in batch'[t]
        PROVE  pipe'[n][t] # <<>>
    <3>1. pipe[n][t] # <<>>  BY <2>2 DEF Pipes
    <3>2. pipe[n][t] \in Seq(Conns) /\ pipe'[n][t] \in Seq(Conns)  BY <1>1
    <3>3. 1 \in DOMAIN pipe[n][t]  BY <3>1, <3>2
    <3>4. 1 \in DOMAIN pipe'[n][t]  BY <1>5, <3>3
    <3>5. QED  BY <3>2, <3>4
  <2>3. QED  BY <2>1, <2>2 DEF Pipes
<1>8. QED  BY <1>1, <1>6, <1>7

\* The head leaves its unix socket, and is in no other place of one.
LEMMA RecvLemma ==
  ASSUME Pipes, pipe \in [Mains -> [Subs -> Seq(Conns)]],
         NEW m \in Mains, NEW s \in Subs, pipe[m][s] # <<>>,
         pipe' = [pipe EXCEPT ![m][s] = Tail(@)],
         \A t \in Subs : batch'[t] \subseteq batch[t], <<m, "in">> \notin batch'[s]
  PROVE  /\ Pipes' /\ pipe' \in [Mains -> [Subs -> Seq(Conns)]]
         /\ Head(pipe[m][s]) \in Conns /\ Sent(m, s, Head(pipe[m][s]))
         /\ \A n \in Mains, t \in Subs, d \in Conns :
              Sent(n, t, d)' <=> Sent(n, t, d) /\ d # Head(pipe[m][s])
<1> DEFINE q == pipe[m][s]
<1>1. /\ pipe' \in [Mains -> [Subs -> Seq(Conns)]]
      /\ pipe'[m][s] = Tail(q)
      /\ \A n \in Mains, t \in Subs : n # m \/ t # s => pipe'[n][t] = pipe[n][t]
  OBVIOUS
<1>2. /\ q \in Seq(Conns) /\ q # <<>> /\ Len(q) \in Nat \ {0} /\ DOMAIN q = 1 .. Len(q)
      /\ DOMAIN Tail(q) = 1 .. Len(q) - 1
      /\ \A i \in 1 .. Len(q) - 1 : Tail(q)[i] = q[i + 1]
      /\ Head(q) = q[1] /\ 1 \in DOMAIN q
  OBVIOUS
<1> HIDE DEF q
<1>3. Head(q) \in Conns /\ Sent(m, s, Head(q))
  <2>1. pipe[m][s][1] = Head(q) /\ 1 \in DOMAIN pipe[m][s]  BY <1>2 DEF q
  <2>2. q[1] \in Conns  BY <1>2
  <2>3. QED  BY <1>2, <2>1, <2>2 DEF Sent
<1>4. \A n \in Mains, t \in Subs : \A i \in DOMAIN pipe'[n][t] :
        \/ (n # m \/ t # s) /\ i \in DOMAIN pipe[n][t] /\ pipe'[n][t][i] = pipe[n][t][i]
        \/ n = m /\ t = s /\ i \in 1 .. Len(q) - 1 /\ pipe'[n][t][i] = q[i + 1] /\ i + 1 \in DOMAIN q
  BY <1>1, <1>2 DEF q
<1>5. \A n \in Mains, t \in Subs, d \in Conns :
        Sent(n, t, d)' <=> Sent(n, t, d) /\ d # Head(q)
  <2> SUFFICES ASSUME NEW n \in Mains, NEW t \in Subs, NEW d \in Conns
               PROVE Sent(n, t, d)' <=> Sent(n, t, d) /\ d # Head(q)
    OBVIOUS
  <2>1. ASSUME Sent(n, t, d)' PROVE Sent(n, t, d) /\ d # Head(q)
    <3>1. PICK i \in DOMAIN pipe'[n][t] : pipe'[n][t][i] = d  BY <2>1 DEF Sent
    <3>2. CASE n # m \/ t # s
      <4>1. i \in DOMAIN pipe[n][t] /\ pipe[n][t][i] = d  BY <1>4, <3>1, <3>2
      <4>2. d # q[1]  BY <1>2, <3>2, <4>1 DEF Pipes, q
      <4>3. QED  BY <1>2, <4>1, <4>2 DEF Sent
    <3>3. CASE n = m /\ t = s
      <4>1. i \in 1 .. Len(q) - 1 /\ q[i + 1] = d /\ i + 1 \in DOMAIN q  BY <1>4, <3>1, <3>3
      <4>2. d # q[1]
        <5>1. i + 1 # 1  BY <1>2, <4>1
        <5>2. QED  BY <1>2, <4>1, <5>1 DEF Pipes, q
      <4>3. QED  BY <1>2, <3>3, <4>1, <4>2 DEF Sent, q
    <3>4. QED  BY <3>2, <3>3
  <2>2. ASSUME Sent(n, t, d), d # Head(q) PROVE Sent(n, t, d)'
    <3>1. PICK i \in DOMAIN pipe[n][t] : pipe[n][t][i] = d  BY <2>2 DEF Sent
    <3>2. CASE n # m \/ t # s  BY <1>1, <3>1, <3>2 DEF Sent
    <3>3. CASE n = m /\ t = s
      <4>1. i \in 1 .. Len(q) /\ q[i] = d /\ i # 1  BY <1>2, <2>2, <3>1, <3>3 DEF q
      <4>2. i - 1 \in 1 .. Len(q) - 1 /\ (i - 1) + 1 = i  BY <1>2, <4>1
      <4>3. Tail(q)[i - 1] = d  BY <1>2, <4>1, <4>2
      <4>4. QED  BY <1>1, <1>2, <3>3, <4>2, <4>3 DEF Sent
    <3>4. QED  BY <3>2, <3>3
  <2>3. QED  BY <2>1, <2>2
<1>6. Pipes'
  <2>1. ASSUME NEW n \in Mains, NEW p \in Mains, NEW t \in Subs, NEW u \in Subs,
               NEW i \in DOMAIN pipe'[n][t], NEW j \in DOMAIN pipe'[p][u],
               pipe'[n][t][i] = pipe'[p][u][j]
        PROVE  n = p /\ t = u /\ i = j
    <3> DEFINE was(x, y, k) == IF x = m /\ y = s THEN k + 1 ELSE k
    <3>1. was(n, t, i) \in DOMAIN pipe[n][t] /\ pipe[n][t][was(n, t, i)] = pipe'[n][t][i]
      BY <1>4 DEF q
    <3>2. was(p, u, j) \in DOMAIN pipe[p][u] /\ pipe[p][u][was(p, u, j)] = pipe'[p][u][j]
      BY <1>4 DEF q
    <3>3. n = p /\ t = u /\ was(n, t, i) = was(p, u, j)  BY <2>1, <3>1, <3>2 DEF Pipes
    <3>4. CASE n = m /\ t = s  BY <1>4, <3>3, <3>4
    <3>5. CASE n # m \/ t # s  BY <3>3, <3>5
    <3>6. QED  BY <3>3, <3>4, <3>5
  <2>2. ASSUME NEW n \in Mains, NEW t \in Subs, <<n, "in">> \in batch'[t]
        PROVE  pipe'[n][t] # <<>>
    <3>1. (n # m \/ t # s) /\ pipe[n][t] # <<>>  BY <2>2 DEF Pipes
    <3>2. QED  BY <1>1, <3>1
  <2>3. QED  BY <2>1, <2>2 DEF Pipes
<1>7. QED  BY <1>1, <1>3, <1>5, <1>6 DEF q

\* A main reactor of a process sends the descriptor, or fails to, and goes on to
\* close its own.
LEMMA SendFdStep ==
  ASSUME IInv, NEW m \in Mains, SendFd(m) \/ SendFdFails(m) PROVE IInv'
<1> USE Distinct DEF IInv
<1>1. /\ UNCHANGED deploy /\ UNCHANGED <<peer, unread, sock, tables, link, got, reg, mem, batch>>
      /\ "threads" \notin options /\ pc[m] = "give" /\ NextIndex(m)
      /\ pc' = [pc EXCEPT ![m] = "close"] /\ cur' = [cur EXCEPT ![m] = cur[m]]
  BY DEF SendFd, SendFdFails, Goto, client, kernel, conn
<1>2. PICK c \in Conns : c = cur[m]  BY <1>1, Giving
<1>3. PICK s \in Subs : s = index'[m]  BY <1>1, NextIndexInRange
<1>4. /\ home[c] = m /\ sock[c] = "accepted" /\ tables[c] = {m} /\ Table(m) = m
      /\ ~InFlight(c) /\ ~SubKnows(c) /\ mem[m][c] \in {"none", "live"}
      /\ \A e \in Reactors :
           /\ reg[e][c] = "none" /\ (e # m => mem[e][c] = "none" /\ cur[e] # c)
           /\ \A event \in {"in", "out"} : <<c, event>> \notin batch[e]
  BY <1>1, <1>2, Giving DEF Table
<1>5. /\ Idle' /\ pc' \in [Reactors -> Places] /\ cur' \in [Reactors -> Conns \cup {None}]
      /\ pc'[m] = "close" /\ cur'[m] = c
      /\ \A f \in Reactors \ {m} : pc'[f] = pc[f] /\ cur'[f] = cur[f]
  BY <1>1, <1>2, Moves DEF Places
<1>6. /\ Pipes' /\ pipe' \in [Mains -> [Subs -> Seq(Conns)]]
      /\ \A n \in Mains, t \in Subs, d \in Conns :
           Sent(n, t, d)' => Sent(n, t, d) \/ (n = m /\ t = s /\ d = c)
      /\ \A n \in Mains, t \in Subs, d \in Conns : Sent(n, t, d) => Sent(n, t, d)'
      /\ Sent(m, s, c)' \/ "toomany" \in options
  <2>1. CASE SendFd(m)
    <3>1. pipe' = [pipe EXCEPT ![m][s] = Append(@, c)]  BY <1>2, <1>3, <2>1 DEF SendFd
    <3>2. pipe \in [Mains -> [Subs -> Seq(Conns)]] /\ ~InFlight(c) /\ UNCHANGED batch /\ Pipes
      BY <1>1, <1>4, Typed
    <3>3. /\ Pipes' /\ pipe' \in [Mains -> [Subs -> Seq(Conns)]]
          /\ \A n \in Mains, t \in Subs, d \in Conns :
               Sent(n, t, d)' <=> Sent(n, t, d) \/ (n = m /\ t = s /\ d = c)
      BY <3>1, <3>2, SendLemma, Zenon
    <3>4. QED  BY <3>3
  <2>2. CASE SendFdFails(m)
    BY <1>1, <2>2, PipesKept, Typed DEF SendFdFails, kernel
  <2>3. QED  BY <2>1, <2>2
<1>7. TypeOK'
  <2>1. index' \in [Mains -> 0 .. sub_reactor_count - 1]  BY <1>1, NextIndexInRange
  <2>2. QED  BY <1>1, <1>5, <1>6, <2>1, TablesFixed DEF TypeOK, deploy, Places
<1>8. \A d \in Conns \ {c} : Sound(d)'
  <2>1. \A d \in Conns \ {c} :
          /\ sock'[d] = sock[d] /\ tables'[d] = tables[d]
          /\ got'[d] = got[d] /\ unread'[d] = unread[d]
          /\ \A f \in Reactors : reg'[f][d] = reg[f][d] /\ mem'[f][d] = mem[f][d]
          /\ \A n \in Mains, t \in Subs : Sent(n, t, d)' <=> Sent(n, t, d)
    BY <1>1, <1>6
  <2>2. /\ cur[m] \in {c, None} /\ cur'[m] \in {c, None}
        /\ \A f \in Reactors \ {m} : pc'[f] = pc[f] /\ cur'[f] = cur[f]
        /\ \A f \in Reactors : batch'[f] \subseteq batch[f]
    BY <1>1, <1>2, <1>5
  <2>3. QED  BY <1>1, <2>1, <2>2, Others
<1>9. Sound(c)'
  <2>1. home' = home /\ options' = options /\ \A f \in Reactors : Table(f)' = Table(f)
    BY <1>1, TablesFixed DEF deploy
  <2>2. ~SubKnows(c)' /\ ~MainHas(c)'  BY <1>1, <1>4, <1>5, <2>1 DEF SubKnows, MainHas
  <2>3. InFlight(c)' \/ "toomany" \in options  BY <1>6 DEF InFlight
  <2>4. Fresh(c)'
    <3>1. \A n \in Mains \ {m}, t \in Subs : ~Sent(n, t, c)'  BY <1>4, <1>6 DEF InFlight
    <3>2. QED  BY <1>1, <1>4, <1>5, <2>1, <3>1 DEF Fresh
  <2>5. Registration(c)'  BY <1>1, <1>4 DEF Registration
  <2>6. OnePlace(c)'  BY <1>1, <1>4, <2>1, <2>2 DEF OnePlace, SubKnows
  <2>7. MainHandles(c)'  BY <1>1, <1>4, <1>5, <2>1, <2>3 DEF MainHandles
  <2>8. SubHandles(c)'  BY <1>4, <1>5 DEF SubHandles
  <2>9. QED  BY <1>1, <2>4, <2>5, <2>6, <2>7, <2>8 DEF Sound
<1>10. QED  BY <1>5, <1>6, <1>7, <1>8, <1>9

\* The sub reactor is the first to make a Conn of what it receives, while the main
\* reactor has only its copy of the descriptor left, if that.
LEMMA RecvFdStep ==
  ASSUME IInv, NEW s \in Subs, NEW m \in Mains, RecvFd(s, m) PROVE IInv'
<1> USE Distinct DEF IInv
<1>1. /\ UNCHANGED deploy /\ UNCHANGED <<peer, unread, sock, link, got, index>>
      /\ pc[s] = "events" /\ cur[s] = None /\ <<m, "in">> \in batch[s]
      /\ batch' = [batch EXCEPT ![s] = @ \ {<<m, "in">>}]
      /\ pc' = [pc EXCEPT ![s] = "events"] /\ cur' = [cur EXCEPT ![s] = None]
      /\ pipe' = [pipe EXCEPT ![m][s] = Tail(@)]
  BY DEF RecvFd, Handle, client, Idle
<1>2. /\ batch' \in [Reactors -> SUBSET Events]
      /\ \A f \in Reactors : batch'[f] \subseteq batch[f]
      /\ <<m, "in">> \notin batch'[s]
  BY <1>1, TakenEvents, Typed
<1>3. pipe[m][s] # <<>>  BY <1>1 DEF Pipes
<1>4. /\ Pipes' /\ pipe' \in [Mains -> [Subs -> Seq(Conns)]]
      /\ Head(pipe[m][s]) \in Conns /\ Sent(m, s, Head(pipe[m][s]))
      /\ \A n \in Mains, t \in Subs, d \in Conns :
           Sent(n, t, d)' <=> Sent(n, t, d) /\ d # Head(pipe[m][s])
  BY <1>1, <1>2, <1>3, RecvLemma, Typed
<1>5. PICK c \in Conns : c = Head(pipe[m][s])  BY <1>4
<1>6. /\ tables' = [tables EXCEPT ![c] = @ \cup {Table(s)}]
      /\ reg' = [reg EXCEPT ![s][c] = "in"] /\ mem' = [mem EXCEPT ![s][c] = "live"]
  BY <1>5 DEF RecvFd, NewConn
<1>7. Sound(c) /\ InFlight(c) /\ home[c] = m
  BY <1>4, <1>5 DEF InFlight, Sound, Fresh
<1>8. /\ "threads" \notin options /\ tables[c] \subseteq {m} /\ ~SubKnows(c) /\ ~MainHas(c)
      /\ sock[c] = "accepted"
  BY <1>7 DEF Sound, OnePlace, Fresh
<1>9. \A e \in Reactors :
        /\ reg[e][c] = "none" /\ (e # m => mem[e][c] = "none" /\ cur[e] # c)
        /\ \A event \in {"in", "out"} : <<c, event>> \notin batch[e]
  <2>1. \A t \in Subs : mem[t][c] = "none" /\ cur[t] # c
    BY <1>7, <1>8 DEF SubKnows, Sound, SubHandles
  <2>2. \A n \in Mains \ {m} : mem[n][c] = "none" /\ cur[n] # c  BY <1>7 DEF Sound, Fresh
  <2>3. reg[m][c] = "none"  BY <1>7, <1>8 DEF MainHas
  <2>4. \A e \in Reactors : reg[e][c] = "none"
    BY <1>7, <2>1, <2>2, <2>3 DEF Sound, Registration
  <2>5. QED  BY <1>7, <2>1, <2>2, <2>4 DEF Sound, Registration
<1>10. /\ Idle' /\ pc' \in [Reactors -> Places] /\ cur' \in [Reactors -> Conns \cup {None}]
       /\ pc'[s] = "events" /\ cur'[s] = None
       /\ \A f \in Reactors \ {s} : pc'[f] = pc[f] /\ cur'[f] = cur[f]
  BY <1>1, Moves DEF Places
<1>11. /\ reg' \in [Reactors -> [Conns -> {"none", "in", "out"}]] /\ reg'[s][c] = "in"
       /\ \A f \in Reactors, d \in Conns : f # s \/ d # c => reg'[f][d] = reg[f][d]
  BY <1>6, Cell, Typed
<1>12. /\ mem' \in [Reactors -> [Conns -> {"none", "live", "freed"}]] /\ mem'[s][c] = "live"
       /\ \A f \in Reactors, d \in Conns : f # s \/ d # c => mem'[f][d] = mem[f][d]
  BY <1>6, Cell, Typed
<1>13. /\ tables'[c] = tables[c] \cup {Table(s)}
       /\ \A d \in Conns \ {c} : tables'[d] = tables[d]
  BY <1>6, Typed
<1>14. TypeOK'
  <2>1. {Table(e) : e \in Reactors}' = {Table(e) : e \in Reactors}  BY <1>1, TablesFixed
  <2>2. tables' \in [Conns -> SUBSET {Table(e) : e \in Reactors}]  BY <1>6 DEF TypeOK
  <2>3. QED  BY <1>1, <1>2, <1>4, <1>10, <1>11, <1>12, <2>1, <2>2 DEF TypeOK, deploy, Places
<1>15. \A d \in Conns \ {c} : Sound(d)'
  <2>1. \A d \in Conns \ {c} :
          /\ sock'[d] = sock[d] /\ tables'[d] = tables[d]
          /\ got'[d] = got[d] /\ unread'[d] = unread[d]
          /\ \A f \in Reactors : reg'[f][d] = reg[f][d] /\ mem'[f][d] = mem[f][d]
          /\ \A n \in Mains, t \in Subs : Sent(n, t, d)' <=> Sent(n, t, d)
    BY <1>1, <1>4, <1>5, <1>11, <1>12, <1>13
  <2>2. /\ cur[s] \in {c, None} /\ cur'[s] \in {c, None}
        /\ \A f \in Reactors \ {s} : pc'[f] = pc[f] /\ cur'[f] = cur[f]
    BY <1>1, <1>10
  <2>3. QED  BY <1>1, <1>2, <2>1, <2>2, Others
<1>16. Sound(c)'
  <2>1. home' = home /\ options' = options /\ \A f \in Reactors : Table(f)' = Table(f)
    BY <1>1, TablesFixed DEF deploy
  <2>2. ~InFlight(c)' /\ SubKnows(c)' /\ \A n \in Mains, t \in Subs : ~Sent(n, t, c)'
    BY <1>4, <1>5, <1>12 DEF InFlight, SubKnows
  <2>3. ~MainHas(c)'  BY <1>7, <1>8, <1>9, <1>10, <1>11, <2>1 DEF MainHas
  <2>4. Fresh(c)'
    BY <1>1, <1>8, <1>7, <1>9, <1>10, <1>12, <2>1, <2>2 DEF Fresh
  <2>5. Registration(c)'
    <3> SUFFICES ASSUME NEW f \in Reactors
                 PROVE /\ reg'[f][c] # "none" => mem'[f][c] = "live" /\ Table(f) \in tables'[c]
                       /\ \A event \in {"in", "out"} : <<c, event>> \notin batch'[f]
      BY <2>1 DEF Registration
    <3>1. \A event \in {"in", "out"} : <<c, event>> \notin batch'[f]  BY <1>2, <1>9
    <3>2. CASE f = s  BY <1>11, <1>12, <1>13, <3>1, <3>2
    <3>3. CASE f # s  BY <1>9, <1>11, <3>1, <3>3
    <3>4. QED  BY <3>2, <3>3
  <2>6. OnePlace(c)'
    <3>1. \A t \in Subs : mem'[t][c] # "none" => t = s  BY <1>9, <1>12
    <3>2. QED  BY <2>2, <2>3, <3>1 DEF OnePlace
  <2>7. MainHandles(c)'
    <3>1. /\ cur'[m] = cur[m] /\ pc'[m] = pc[m] /\ mem'[m][c] = mem[m][c] /\ reg'[m][c] = reg[m][c]
          /\ tables[c] \subseteq tables'[c]
      BY <1>10, <1>11, <1>12, <1>13
    <3>2. QED  BY <1>7, <2>1, <2>2, <3>1 DEF Sound, MainHandles
  <2>8. SubHandles(c)'  BY <1>9, <1>10 DEF SubHandles
  <2>9. QED  BY <1>1, <1>7, <2>4, <2>5, <2>6, <2>7, <2>8 DEF Sound
<1>17. QED  BY <1>4, <1>10, <1>14, <1>15, <1>16
-----------------------------------------------------------------------------
(* The end of a connection.  Whoever closes a descriptor has no registration of
   the connection, so that close() takes away none. *)

\* What a reactor that is about to close or delete knows of the connection.
LEMMA Ending ==
  ASSUME IInv, NEW e \in Reactors, pc[e] \in {"close", "delete"}
  PROVE  /\ cur[e] \in Conns /\ sock[cur[e]] = "accepted" /\ reg[e][cur[e]] = "none"
         /\ e \in Mains => home[cur[e]] = e /\ ~MainHas(cur[e])
         /\ e \in Subs => mem[e][cur[e]] = "live" /\ ~MainHas(cur[e])
         /\ pc[e] = "delete" => mem[e][cur[e]] = "live"
         /\ pc[e] = "close" => Table(e) \in tables[cur[e]]
         /\ pc[e] = "close" /\ e \in Mains => "threads" \notin options
         /\ \A s \in Subs : cur[s] = cur[e] /\ s # e => e \in Mains
<1> USE Distinct DEF IInv
<1>1. PICK c \in Conns : c = cur[e]  BY Typed DEF Idle
<1>2. Sound(c)  BY <1>1
<1>3. sock[c] = "accepted"  BY <1>1, <1>2 DEF Sound, Fresh
<1>4. CASE e \in Mains
  <2>1. home[c] = e  BY <1>1, <1>2, <1>4 DEF Sound, Fresh
  <2>2. /\ reg[e][c] = "none" /\ (pc[e] = "delete" => mem[e][c] = "live")
        /\ pc[e] = "close" => "threads" \notin options /\ e \in tables[c]
    BY <1>1, <1>2, <2>1 DEF Sound, MainHandles
  <2>3. ~MainHas(c)  BY <1>1, <2>1, <2>2 DEF MainHas
  <2>4. QED  BY <1>1, <1>3, <1>4, <2>1, <2>2, <2>3 DEF Table
<1>5. CASE e \in Subs
  <2>1. /\ mem[e][c] = "live" /\ reg[e][c] = "none"
        /\ pc[e] = "close" => Table(e) \in tables[c]
    BY <1>1, <1>2, <1>5, Typed DEF Sound, SubHandles
  <2>2. ~MainHas(c)  BY <1>2, <1>5, <2>1 DEF Sound, OnePlace, SubKnows
  <2>3. \A s \in Subs : cur[s] = c => s = e
    BY <1>2, <1>5, <2>1 DEF Sound, SubHandles, OnePlace
  <2>4. QED  BY <1>1, <1>3, <1>5, <2>1, <2>2, <2>3
<1>6. QED  BY <1>4, <1>5

\* Nobody who is told of the connection uses the descriptor that is closed.
LEMMA CloseKeepsRegistrations ==
  ASSUME IInv, NEW e \in Reactors, CloseFd(e)
  PROVE  /\ reg' = reg
         /\ \A f \in Reactors : reg[f][cur[e]] # "none" => Table(f) # Table(e)
<1> USE Distinct DEF IInv
<1>1. PICK c \in Conns : c = cur[e]  BY Ending DEF CloseFd
<1>2. Sound(c) /\ reg[e][c] = "none" /\ ~MainHas(c)  BY <1>1, Ending DEF CloseFd
<1>3. \A f \in Reactors : reg[f][c] # "none" => Table(f) # Table(e)
  <2>1. CASE e \in Mains
    <3>1. "threads" \notin options  BY <2>1, Ending DEF CloseFd
    <3>2. QED  BY <1>2, <3>1 DEF Table
  <2>2. CASE e \in Subs
    <3> SUFFICES ASSUME NEW f \in Reactors, reg[f][c] # "none" PROVE FALSE  OBVIOUS
    <3>1. mem[e][c] = "live" /\ mem[f][c] = "live"
      BY <1>1, <1>2, <2>2, Ending DEF CloseFd, Sound, Registration
    <3>2. CASE f \in Subs  BY <1>2, <2>2, <3>1, <3>2 DEF Sound, OnePlace
    <3>3. CASE f \in Mains  BY <1>2, <3>1, <3>3 DEF Sound, Fresh, MainHas
    <3>4. QED  BY <3>2, <3>3
  <2>3. QED  BY <2>1, <2>2
<1>4. reg' = reg
  <2>1. CASE tables'[c] = {} /\ ~InFlight(c)
    <3>1. \A f \in Reactors : reg[f][c] = "none"
      <4> SUFFICES ASSUME NEW f \in Reactors, reg[f][c] # "none" PROVE FALSE  OBVIOUS
      <4>1. Table(f) \in tables[c] /\ Table(f) # Table(e)  BY <1>2, <1>3 DEF Sound, Registration
      <4>2. tables'[c] = tables[c] \ {Table(e)}  BY <1>1, Typed DEF CloseFd
      <4>3. QED  BY <2>1, <4>1, <4>2
    <3>2. reg' = [r \in Reactors |-> [reg[r] EXCEPT ![c] = "none"]]  BY <1>1, <2>1 DEF CloseFd
    <3>3. \A r \in Reactors : reg[r] \in [Conns -> {"none", "in", "out"}]  BY Typed
    <3>4. \A r \in Reactors : [reg[r] EXCEPT ![c] = "none"] = reg[r]  BY <3>1, <3>3
    <3>5. QED  BY <3>2, <3>4, Typed
  <2>2. CASE ~(tables'[c] = {} /\ ~InFlight(c))  BY <1>1, <2>2 DEF CloseFd
  <2>3. QED  BY <2>1, <2>2
<1>5. QED  BY <1>1, <1>3, <1>4

\* Who closes a descriptor deletes its Conn next, if it has made one.
LEMMA CloseFdStep == ASSUME IInv, NEW e \in Reactors, CloseFd(e) PROVE IInv'
<1> USE Distinct DEF IInv
<1>c. PICK c \in Conns : c = cur[e]  BY Ending DEF CloseFd
<1>n. PICK next \in Places : next = IF mem[e][c] = "live" THEN "delete" ELSE "accept"
  BY DEF Places
<1>1. /\ UNCHANGED deploy
      /\ UNCHANGED <<peer, unread, sock, link, pipe, reg, mem, got, index, batch>>
      /\ tables' = [tables EXCEPT ![c] = @ \ {Table(e)}]
      /\ pc[e] = "close" /\ pc' = [pc EXCEPT ![e] = next]
      /\ cur' = [cur EXCEPT ![e] = IF next \in {"events", "accept"} THEN None ELSE c]
  BY <1>c, <1>n, CloseKeepsRegistrations DEF CloseFd, Goto, client
<1>2. /\ Sound(c) /\ cur[e] = c /\ sock[c] = "accepted" /\ reg[e][c] = "none" /\ ~MainHas(c)
      /\ e \in Mains => home[c] = e /\ "threads" \notin options
      /\ e \in Subs => mem[e][c] = "live"
      /\ \A s \in Subs : cur[s] = c /\ s # e => e \in Mains
      /\ \A f \in Reactors : reg[f][c] # "none" => Table(f) # Table(e)
  BY <1>1, <1>c, Ending, CloseKeepsRegistrations
<1>3. /\ Idle' /\ pc' \in [Reactors -> Places] /\ cur' \in [Reactors -> Conns \cup {None}]
      /\ pc'[e] = next /\ cur'[e] = IF next \in {"events", "accept"} THEN None ELSE c
      /\ \A f \in Reactors \ {e} : pc'[f] = pc[f] /\ cur'[f] = cur[f]
  BY <1>1, Moves
<1>4. Pipes' /\ \A n \in Mains, t \in Subs, d \in Conns : Sent(n, t, d)' <=> Sent(n, t, d)
  BY <1>1, PipesKept
<1>5. /\ tables'[c] = tables[c] \ {Table(e)}
      /\ \A d \in Conns \ {c} : tables'[d] = tables[d]
  BY <1>1, Typed
<1>6. TypeOK'
  <2>1. {Table(f) : f \in Reactors}' = {Table(f) : f \in Reactors}  BY <1>1, TablesFixed
  <2>2. tables' \in [Conns -> SUBSET {Table(f) : f \in Reactors}]  BY <1>1 DEF TypeOK
  <2>3. QED  BY <1>1, <1>3, <2>1, <2>2 DEF TypeOK, deploy, Places
<1>7. \A d \in Conns \ {c} : Sound(d)'
  <2>1. \A d \in Conns \ {c} :
          /\ sock'[d] = sock[d] /\ tables'[d] = tables[d]
          /\ got'[d] = got[d] /\ unread'[d] = unread[d]
          /\ \A f \in Reactors : reg'[f][d] = reg[f][d] /\ mem'[f][d] = mem[f][d]
          /\ \A n \in Mains, t \in Subs : Sent(n, t, d)' <=> Sent(n, t, d)
    BY <1>1, <1>4, <1>5
  <2>2. /\ cur[e] \in {c, None} /\ cur'[e] \in {c, None}
        /\ \A f \in Reactors \ {e} : pc'[f] = pc[f] /\ cur'[f] = cur[f]
        /\ \A f \in Reactors : batch'[f] \subseteq batch[f]
    BY <1>1, <1>2, <1>3
  <2>3. QED  BY <1>1, <2>1, <2>2, Others
<1>8. Sound(c)'
  <2>1. home' = home /\ options' = options /\ \A f \in Reactors : Table(f)' = Table(f)
    BY <1>1, TablesFixed DEF deploy
  <2>2. (InFlight(c)' <=> InFlight(c)) /\ (SubKnows(c)' <=> SubKnows(c))
    BY <1>1, <1>4 DEF InFlight, SubKnows
  <2>3. ~MainHas(c)'  BY <1>1, <1>2, <1>3, <1>n, <2>1, Deployed DEF MainHas
  <2>4. Fresh(c)'
    <3>1. \A n \in Mains \ {home[c]} : cur'[n] # c  BY <1>2, <1>3 DEF Sound, Fresh
    <3>2. QED  BY <1>1, <1>2, <1>4, <2>1, <3>1 DEF Sound, Fresh
  <2>5. Registration(c)'
    <3> SUFFICES ASSUME NEW f \in Reactors
                 PROVE /\ reg[f][c] # "none" => mem[f][c] = "live" /\ Table(f) \in tables'[c]
                       /\ \A event \in {"in", "out"} :
                            <<c, event>> \in batch[f] => reg[f][c] = event /\ cur'[f] # c
      BY <1>1, <2>1 DEF Registration
    <3>1. reg[f][c] # "none" => mem[f][c] = "live" /\ Table(f) \in tables'[c]
      BY <1>2, <1>5 DEF Sound, Registration
    <3>2. cur'[f] = c => cur[f] = c  BY <1>2, <1>3
    <3>3. QED  BY <1>2, <3>1, <3>2 DEF Sound, Registration
  <2>6. OnePlace(c)'
    BY <1>1, <1>2, <1>5, <2>1, <2>2, <2>3 DEF Sound, OnePlace
  <2>7. MainHandles(c)'
    <3>1. CASE e = home[c]  BY <1>1, <1>2, <1>3, <1>n, <2>1, <3>1 DEF MainHandles
    <3>2. CASE e # home[c]
      <4>1. home[c] \in Mains /\ e \in Subs  BY <1>2, <3>2, Deployed
      <4>2. home[c] # Table(e)  BY <4>1 DEF Table
      <4>3. QED  BY <1>1, <1>2, <1>3, <1>5, <2>1, <2>2, <4>1, <4>2 DEF Sound, MainHandles
    <3>3. QED  BY <3>1, <3>2
  <2>8. SubHandles(c)'
    <3> SUFFICES ASSUME NEW s \in Subs, cur'[s] = c
                 PROVE /\ pc'[s] \in {"reply", "again", "release", "close", "delete"}
                       /\ mem[s][c] = "live"
                       /\ reg[s][c] # "none" <=> pc'[s] \in {"reply", "again", "release"}
                       /\ pc'[s] = "close" => Table(s) \in tables'[c]
      BY <1>1, <2>1 DEF SubHandles
    <3>1. CASE s = e  BY <1>2, <1>3, <1>n, <3>1
    <3>2. CASE s # e
      <4>1. cur[s] = c /\ pc'[s] = pc[s] /\ e \in Mains /\ "threads" \notin options
        BY <1>2, <1>3, <3>2
      <4>2. Table(s) # Table(e)  BY <3>2, <4>1 DEF Table
      <4>3. QED  BY <1>2, <1>5, <4>1, <4>2 DEF Sound, SubHandles
    <3>3. QED  BY <3>1, <3>2
  <2>9. QED  BY <1>1, <1>2, <2>4, <2>5, <2>6, <2>7, <2>8 DEF Sound
<1>9. QED  BY <1>3, <1>4, <1>6, <1>7, <1>8

\* The Conn that is deleted is the reactor's own.
LEMMA DeleteStep == ASSUME IInv, NEW e \in Reactors, Delete(e) PROVE IInv'
<1> USE Distinct DEF IInv
<1>c. PICK c \in Conns : c = cur[e]  BY Ending DEF Delete
<1>1. /\ UNCHANGED deploy
      /\ UNCHANGED <<peer, unread, sock, tables, link, pipe, reg, got, index, batch>>
      /\ mem' = [mem EXCEPT ![e][c] = "freed"]
      /\ pc[e] = "delete" /\ pc' = [pc EXCEPT ![e] = "events"] /\ cur' = [cur EXCEPT ![e] = None]
  BY <1>c DEF Delete, Goto, client, kernel
<1>2. /\ Sound(c) /\ cur[e] = c /\ sock[c] = "accepted" /\ reg[e][c] = "none" /\ ~MainHas(c)
      /\ e \in Mains => home[c] = e
      /\ mem[e][c] = "live"
      /\ \A s \in Subs : cur[s] = c /\ s # e => e \in Mains
  BY <1>1, <1>c, Ending
<1>3. /\ Idle' /\ pc' \in [Reactors -> Places] /\ cur' \in [Reactors -> Conns \cup {None}]
      /\ pc'[e] = "events" /\ cur'[e] = None
      /\ \A f \in Reactors \ {e} : pc'[f] = pc[f] /\ cur'[f] = cur[f]
  BY <1>1, Moves DEF Places
<1>4. Pipes' /\ \A n \in Mains, t \in Subs, d \in Conns : Sent(n, t, d)' <=> Sent(n, t, d)
  BY <1>1, PipesKept
<1>5. /\ mem' \in [Reactors -> [Conns -> {"none", "live", "freed"}]] /\ mem'[e][c] = "freed"
      /\ \A f \in Reactors, d \in Conns : f # e \/ d # c => mem'[f][d] = mem[f][d]
  BY <1>1, Cell, Typed
<1>6. TypeOK'  BY <1>1, <1>3, <1>5, TablesFixed DEF TypeOK, deploy, Places
<1>7. \A d \in Conns \ {c} : Sound(d)'
  <2>1. \A d \in Conns \ {c} :
          /\ sock'[d] = sock[d] /\ tables'[d] = tables[d]
          /\ got'[d] = got[d] /\ unread'[d] = unread[d]
          /\ \A f \in Reactors : reg'[f][d] = reg[f][d] /\ mem'[f][d] = mem[f][d]
          /\ \A n \in Mains, t \in Subs : Sent(n, t, d)' <=> Sent(n, t, d)
    BY <1>1, <1>4, <1>5
  <2>2. /\ cur[e] \in {c, None} /\ cur'[e] \in {c, None}
        /\ \A f \in Reactors \ {e} : pc'[f] = pc[f] /\ cur'[f] = cur[f]
        /\ \A f \in Reactors : batch'[f] \subseteq batch[f]
    BY <1>1, <1>2, <1>3
  <2>3. QED  BY <1>1, <2>1, <2>2, Others
<1>8. Sound(c)'
  <2>1. home' = home /\ options' = options /\ \A f \in Reactors : Table(f)' = Table(f)
    BY <1>1, TablesFixed DEF deploy
  <2>2. \A s \in Subs : mem'[s][c] # "none" <=> mem[s][c] # "none"  BY <1>2, <1>5
  <2>3. (InFlight(c)' <=> InFlight(c)) /\ (SubKnows(c)' <=> SubKnows(c))
    BY <1>4, <2>2 DEF InFlight, SubKnows
  <2>4. ~MainHas(c)'  BY <1>1, <1>2, <1>3, <2>1, Deployed DEF MainHas
  <2>5. Fresh(c)'
    <3>1. \A n \in Mains \ {home[c]} : cur'[n] # c /\ mem'[n][c] = "none"
      BY <1>2, <1>3, <1>5 DEF Sound, Fresh
    <3>2. QED  BY <1>1, <1>2, <1>4, <2>1, <3>1 DEF Sound, Fresh
  <2>6. Registration(c)'
    BY <1>1, <1>2, <1>3, <1>5, <2>1 DEF Sound, Registration
  <2>7. OnePlace(c)'
    BY <1>1, <1>2, <2>1, <2>2, <2>3, <2>4 DEF Sound, OnePlace
  <2>8. MainHandles(c)'
    <3>1. home[c] \in Mains  BY Deployed
    <3>2. QED  BY <1>1, <1>2, <1>3, <1>5, <2>1, <2>3, <3>1 DEF Sound, MainHandles
  <2>9. SubHandles(c)'  BY <1>1, <1>2, <1>3, <1>5, <2>1 DEF Sound, SubHandles
  <2>10. QED  BY <1>1, <1>2, <2>5, <2>6, <2>7, <2>8, <2>9 DEF Sound
<1>9. QED  BY <1>3, <1>4, <1>6, <1>7, <1>8
-----------------------------------------------------------------------------
(* The sub reactors. *)

\* A sub reactor begins to handle an event of a connection it has registered.
LEMMA SubHandlesEvent ==
  ASSUME IInv, NEW s \in Subs, NEW c \in Conns, NEW event \in {"in", "out"},
         NEW next \in {"events", "reply", "again", "release"}, Handle(s, c, event, next),
         UNCHANGED deploy, UNCHANGED <<peer, sock, tables, link, pipe, reg, mem, index>>,
         got' \in [Conns -> 0 .. 2], unread' \in [Conns -> 0 .. 2], got'[c] + unread'[c] <= 2,
         \A d \in Conns \ {c} : got'[d] = got[d] /\ unread'[d] = unread[d]
  PROVE  IInv'
<1> USE Distinct DEF IInv
<1>1. /\ pc[s] = "events" /\ cur[s] = None /\ <<c, event>> \in batch[s]
      /\ batch' = [batch EXCEPT ![s] = @ \ {<<c, event>>}]
      /\ pc' = [pc EXCEPT ![s] = next]
      /\ cur' = [cur EXCEPT ![s] = IF next \in {"events", "accept"} THEN None ELSE c]
  BY DEF Handle, Idle
<1>2. /\ Idle' /\ pc' \in [Reactors -> Places] /\ cur' \in [Reactors -> Conns \cup {None}]
      /\ pc'[s] = next /\ cur'[s] = IF next \in {"events", "accept"} THEN None ELSE c
      /\ \A f \in Reactors \ {s} : pc'[f] = pc[f] /\ cur'[f] = cur[f]
  BY <1>1, Moves DEF Places
<1>3. /\ batch' \in [Reactors -> SUBSET Events]
      /\ \A f \in Reactors : batch'[f] \subseteq batch[f]
  BY <1>1, TakenEvents
<1>4. Pipes' /\ \A n \in Mains, t \in Subs, d \in Conns : Sent(n, t, d)' <=> Sent(n, t, d)
  BY <1>3, PipesKept
<1>5. TypeOK'  BY <1>2, <1>3, TablesFixed DEF TypeOK, deploy, Places
<1>6. \A d \in Conns \ {c} : Sound(d)'  BY <1>1, <1>2, <1>3, <1>4, Others
<1>7. /\ Sound(c) /\ reg[s][c] = event /\ mem[s][c] = "live"
      /\ \A ev \in {"in", "out"} : <<c, ev>> \notin batch'[s]
  <2>1. Sound(c) /\ reg[s][c] = event /\ mem[s][c] = "live"  BY <1>1 DEF Sound, Registration
  <2>2. \A ev \in {"in", "out"} : <<c, ev>> \in batch[s] => ev = event
    BY <2>1 DEF Sound, Registration
  <2>3. QED  BY <1>1, <2>1, <2>2, Typed
<1>8. Sound(c)'
  <2>1. home' = home /\ options' = options /\ \A f \in Reactors : Table(f)' = Table(f)
    BY TablesFixed DEF deploy
  <2>2. (InFlight(c)' <=> InFlight(c)) /\ (SubKnows(c)' <=> SubKnows(c))
    BY <1>4 DEF InFlight, SubKnows
  <2>3. \A n \in Mains : pc'[n] = pc[n] /\ cur'[n] = cur[n]  BY <1>2
  <2>4. home[c] \in Mains  BY Deployed
  <2>5. MainHas(c)' <=> MainHas(c)  BY <2>1, <2>3, <2>4 DEF MainHas
  <2>6. Fresh(c)'
    <3>1. sock[c] = "accepted"  BY <1>7 DEF Sound, Fresh
    <3>2. QED  BY <1>4, <1>7, <2>1, <2>3, <3>1 DEF Sound, Fresh
  <2>7. Registration(c)'
    BY <1>2, <1>3, <1>7, <2>1 DEF Sound, Registration
  <2>8. OnePlace(c)'  BY <1>7, <2>1, <2>2, <2>4, <2>5 DEF Sound, OnePlace
  <2>9. MainHandles(c)'  BY <1>7, <2>1, <2>2, <2>3, <2>4 DEF Sound, MainHandles
  <2>10. SubHandles(c)'  BY <1>2, <1>7, <2>1 DEF Sound, SubHandles
  <2>11. QED  BY <2>6, <2>7, <2>8, <2>9, <2>10 DEF Sound
<1>9. QED  BY <1>2, <1>4, <1>5, <1>6, <1>8

\* It reads, finds that the client is gone, or writes the reply.
LEMMA SubHandleStep ==
  ASSUME IInv, NEW s \in Subs, NEW c \in Conns, Read(s, c) \/ Fails(s, c) \/ Write(s, c)
  PROVE  IInv'
<1> USE DEF IInv
<1>1. /\ got \in [Conns -> 0 .. 2] /\ unread \in [Conns -> 0 .. 2] /\ got[c] + unread[c] <= 2
      /\ got[c] \in 0 .. 2 /\ unread[c] \in 0 .. 2
  BY Typed DEF Sound
<1>2. CASE Read(s, c)
  <2>1. PICK next \in {"reply", "events"} : Handle(s, c, "in", next)  BY <1>2 DEF Read
  <2>2. got' = [got EXCEPT ![c] = @ + unread[c]] /\ unread' = [unread EXCEPT ![c] = 0]
    BY <1>2 DEF Read
  <2>3. got[c] + unread[c] \in 0 .. 2  BY <1>1
  <2>4. /\ got' \in [Conns -> 0 .. 2] /\ unread' \in [Conns -> 0 .. 2]
        /\ got'[c] + unread'[c] <= 2
        /\ \A d \in Conns \ {c} : got'[d] = got[d] /\ unread'[d] = unread[d]
    BY <1>1, <2>2, <2>3
  <2>5. UNCHANGED deploy /\ UNCHANGED <<peer, sock, tables, link, pipe, reg, mem, index>>
    BY <1>2 DEF Read, kernel
  <2>6. QED  BY <2>1, <2>4, <2>5, SubHandlesEvent
<1>3. CASE Fails(s, c)
  <2>1. PICK event \in {"in", "out"} : Handle(s, c, event, "release")  BY <1>3 DEF Fails
  <2>2. UNCHANGED deploy /\ UNCHANGED <<peer, unread, sock, tables, link, pipe, reg, mem, got, index>>
    BY <1>3 DEF Fails, client, kernel, conn
  <2>3. QED  BY <1>1, <2>1, <2>2, SubHandlesEvent
<1>4. CASE Write(s, c)
  <2>1. Handle(s, c, "out", "again") /\ got' = [got EXCEPT ![c] = 0]  BY <1>4 DEF Write
  <2>2. UNCHANGED deploy /\ UNCHANGED <<peer, unread, sock, tables, link, pipe, reg, mem, index>>
    BY <1>4 DEF Write, client, kernel
  <2>3. /\ got' \in [Conns -> 0 .. 2] /\ got'[c] + unread'[c] <= 2
        /\ \A d \in Conns \ {c} : got'[d] = got[d]
    BY <1>1, <2>1, <2>2
  <2>4. QED  BY <1>1, <2>1, <2>2, <2>3, SubHandlesEvent
<1>5. QED  BY <1>2, <1>3, <1>4

\* It changes what it is told of the connection it handles, or leaves it for good.
LEMMA EpollCtlStep == ASSUME IInv, NEW s \in Subs, EpollCtl(s) PROVE IInv'
<1> USE Distinct DEF IInv
<1>c. PICK c \in Conns : c = cur[s]  BY Typed DEF EpollCtl, Idle
<1>v. PICK v \in {"none", "in", "out"}, next \in {"events", "close"} :
        /\ pc[s] \in {"reply", "again", "release"} /\ (v = "none" <=> next = "close")
        /\ reg' = [reg EXCEPT ![s][c] = v] /\ Goto(s, next)
  BY <1>c DEF EpollCtl
<1>1. /\ UNCHANGED deploy /\ UNCHANGED <<peer, unread, sock, tables, link, pipe, mem, got, index, batch>>
      /\ pc' = [pc EXCEPT ![s] = next]
      /\ cur' = [cur EXCEPT ![s] = IF next \in {"events", "accept"} THEN None ELSE c]
  BY <1>c, <1>v DEF EpollCtl, Goto, client, kernel
<1>2. next \in Places  BY DEF Places
<1>3. /\ Idle' /\ pc' \in [Reactors -> Places] /\ cur' \in [Reactors -> Conns \cup {None}]
      /\ pc'[s] = next /\ cur'[s] = IF next \in {"events", "accept"} THEN None ELSE c
      /\ \A f \in Reactors \ {s} : pc'[f] = pc[f] /\ cur'[f] = cur[f]
  BY <1>1, <1>2, Moves
<1>4. /\ reg' \in [Reactors -> [Conns -> {"none", "in", "out"}]] /\ reg'[s][c] = v
      /\ \A f \in Reactors, d \in Conns : f # s \/ d # c => reg'[f][d] = reg[f][d]
  BY <1>v, Cell, Typed
<1>5. Pipes' /\ \A n \in Mains, t \in Subs, d \in Conns : Sent(n, t, d)' <=> Sent(n, t, d)
  BY <1>1, PipesKept
<1>6. TypeOK'  BY <1>1, <1>3, <1>4, TablesFixed DEF TypeOK, deploy, Places
<1>7. \A d \in Conns \ {c} : Sound(d)'  BY <1>1, <1>c, <1>3, <1>4, <1>5, Others
<1>8. /\ Sound(c) /\ cur[s] = c /\ mem[s][c] = "live" /\ reg[s][c] # "none"
      /\ Table(s) \in tables[c] /\ ~MainHas(c) /\ SubKnows(c)
      /\ \A event \in {"in", "out"} : <<c, event>> \notin batch[s]
      /\ \A t \in Subs \ {s} : cur[t] # c
  <2>1. Sound(c) /\ mem[s][c] = "live" /\ reg[s][c] # "none"
    BY <1>c, <1>v DEF Sound, SubHandles
  <2>2. Table(s) \in tables[c] /\ \A event \in {"in", "out"} : <<c, event>> \notin batch[s]
    BY <1>c, <2>1 DEF Sound, Registration
  <2>3. SubKnows(c) /\ ~MainHas(c)  BY <2>1 DEF SubKnows, Sound, OnePlace
  <2>4. \A t \in Subs \ {s} : cur[t] # c  BY <2>1 DEF Sound, SubHandles, OnePlace
  <2>5. QED  BY <1>c, <2>1, <2>2, <2>3, <2>4
<1>9. Sound(c)'
  <2>1. home' = home /\ options' = options /\ \A f \in Reactors : Table(f)' = Table(f)
    BY <1>1, TablesFixed DEF deploy
  <2>2. (InFlight(c)' <=> InFlight(c)) /\ (SubKnows(c)' <=> SubKnows(c))
    BY <1>1, <1>5 DEF InFlight, SubKnows
  <2>3. \A n \in Mains : pc'[n] = pc[n] /\ cur'[n] = cur[n] /\ reg'[n][c] = reg[n][c]
    BY <1>3, <1>4
  <2>4. home[c] \in Mains  BY Deployed
  <2>5. MainHas(c)' <=> MainHas(c)  BY <2>1, <2>3, <2>4 DEF MainHas
  <2>6. Fresh(c)'
    <3>1. sock[c] = "accepted"  BY <1>8 DEF Sound, Fresh
    <3>2. QED  BY <1>1, <1>5, <1>8, <2>1, <2>3, <3>1 DEF Sound, Fresh
  <2>7. Registration(c)'
    BY <1>1, <1>3, <1>4, <1>8, <2>1 DEF Sound, Registration
  <2>8. OnePlace(c)'  BY <1>1, <1>8, <2>1, <2>2, <2>4, <2>5 DEF Sound, OnePlace
  <2>9. MainHandles(c)'  BY <1>1, <1>8, <2>1, <2>2, <2>3, <2>4 DEF Sound, MainHandles
  <2>10. SubHandles(c)'
    BY <1>1, <1>v, <1>3, <1>4, <1>8, <2>1 DEF SubHandles
  <2>11. QED  BY <1>1, <1>8, <2>6, <2>7, <2>8, <2>9, <2>10 DEF Sound
<1>10. QED  BY <1>3, <1>5, <1>6, <1>7, <1>9
-----------------------------------------------------------------------------
(* The invariant. *)

\* A step of anybody.
LEMMA StepIInv == IInv /\ [Next]_vars => IInv'
<1> SUFFICES ASSUME IInv, [Next]_vars PROVE IInv'  OBVIOUS
<1> USE Distinct
<1>1. CASE Client  BY <1>1, ClientStep
<1>2. ASSUME NEW m \in Mains, Main(m) PROVE IInv'
  BY <1>2, EpollWaitStep, AcceptLoopStep, AcceptStep, ClearEventStep, AddToSubReactorStep,
     SendFdStep, CloseFdStep, DeleteStep DEF Main
<1>3. ASSUME NEW s \in Subs, Sub(s) PROVE IInv'
  BY <1>3, EpollWaitStep, AcceptLoopStep, RecvFdStep, SubHandleStep, EpollCtlStep,
     CloseFdStep, DeleteStep DEF Sub
<1>4. CASE UNCHANGED vars
  <2>1. /\ UNCHANGED deploy
        /\ UNCHANGED <<peer, unread, sock, tables, link, pipe, reg, mem, got, index, batch, pc, cur>>
    BY <1>4 DEF vars, client, kernel, conn, reactor
  <2>2. TypeOK'  BY <2>1, TablesFixed DEF IInv, TypeOK, deploy
  <2>3. Idle'  BY <2>1 DEF IInv, Idle
  <2>4. Pipes'  BY <2>1, PipesKept DEF IInv
  <2>5. ASSUME NEW d \in Conns PROVE Sound(d)'
    <3>1. Unchanged(d)  BY <2>1 DEF Unchanged, Sent
    <3>2. QED  BY <2>1, <3>1, Frame DEF IInv, Sound
  <2>6. QED  BY <2>2, <2>3, <2>4, <2>5 DEF IInv
<1>5. QED  BY <1>1, <1>2, <1>3, <1>4 DEF Next
-----------------------------------------------------------------------------
(* What the invariant means. *)

\* One reactor at a time, from the place the connection is in.
LEMMA OneReactorHolds == IInv => OneReactor
<1> SUFFICES ASSUME IInv, NEW c \in Conns, NEW e \in Reactors, NEW f \in Reactors,
                    e # f, reg[e][c] # "none"
             PROVE  /\ reg[f][c] = "none"
                    /\ c \in Pending(f) => pc[f] \in {"close", "delete"}
  BY DEF OneReactor
<1> USE Distinct DEF IInv
<1>1. Sound(c) /\ mem[e][c] = "live" /\ home[c] \in Mains  BY Deployed DEF Sound, Registration
<1>2. reg[f][c] = "none" /\ (cur[f] = c => pc[f] \in {"close", "delete"})
  <2>1. CASE e \in Mains
    <3>1. e = home[c] /\ ~SubKnows(c)  BY <1>1, <2>1 DEF Sound, Fresh, MainHas, OnePlace
    <3>2. mem[f][c] = "none"  BY <1>1, <3>1 DEF Sound, Fresh, SubKnows
    <3>3. cur[f] # c  BY <1>1, <3>1, <3>2 DEF Sound, Fresh, SubHandles
    <3>4. QED  BY <1>1, <3>2, <3>3 DEF Sound, Registration
  <2>2. CASE e \in Subs
    <3>1. SubKnows(c) /\ ~MainHas(c)  BY <1>1, <2>2 DEF Sound, SubKnows, OnePlace
    <3>2. CASE f \in Subs
      <4>1. mem[f][c] = "none"  BY <1>1, <2>2, <3>2 DEF Sound, OnePlace
      <4>2. QED  BY <1>1, <3>2, <4>1 DEF Sound, Registration, SubHandles
    <3>3. CASE f \in Mains
      <4>1. CASE f = home[c]  BY <1>1, <3>1, <4>1 DEF Sound, MainHas, MainHandles
      <4>2. CASE f # home[c]  BY <1>1, <3>3, <4>2 DEF Sound, Fresh, Registration
      <4>3. QED  BY <4>1, <4>2
    <3>4. QED  BY <3>2, <3>3
  <2>3. QED  BY <2>1, <2>2
<1>3. \A event \in {"in", "out"} : <<c, event>> \notin batch[f]
  BY <1>1, <1>2 DEF Sound, Registration
<1>4. QED  BY <1>2, <1>3 DEF Pending

\* What a reactor holds is alive, open and registered.
LEMMA NoUseAfterFreeHolds == IInv => NoUseAfterFree
<1> SUFFICES ASSUME IInv, NEW e \in Reactors, NEW c \in Conns
             PROVE  /\ reg[e][c] # "none" => mem[e][c] = "live" /\ Table(e) \in tables[c]
                    /\ c \in Pending(e) => mem[e][c] # "freed"
                    /\ c \in Pending(e) /\ (cur[e] = c => pc[e] \in {"reply", "again", "release"}) =>
                         reg[e][c] # "none"
                    /\ cur[e] = c /\ pc[e] = "give" =>
                         Table(e) \in tables[c] /\ \A s \in Subs : reg[s][c] = "none"
  BY DEF NoUseAfterFree
<1> USE Distinct DEF IInv
<1>1. Sound(c)  OBVIOUS
<1>2. reg[e][c] # "none" => mem[e][c] = "live" /\ Table(e) \in tables[c]
  BY <1>1 DEF Sound, Registration
<1>3. ASSUME cur[e] = c
      PROVE  /\ mem[e][c] # "freed"
             /\ pc[e] \in {"reply", "again", "release"} => reg[e][c] # "none"
  <2>1. CASE e \in Mains
    <3>1. e = home[c]  BY <1>1, <1>3, <2>1 DEF Sound, Fresh
    <3>2. QED  BY <1>1, <1>3, <3>1 DEF Sound, MainHandles
  <2>2. CASE e \in Subs  BY <1>1, <1>3, <2>2 DEF Sound, SubHandles
  <2>3. QED  BY <2>1, <2>2
<1>4. ASSUME NEW event \in {"in", "out"}, <<c, event>> \in batch[e]
      PROVE  reg[e][c] # "none"
  BY <1>1, <1>4 DEF Sound, Registration
<1>5. ASSUME cur[e] = c, pc[e] = "give"
      PROVE  Table(e) \in tables[c] /\ \A s \in Subs : reg[s][c] = "none"
  <2>1. e \in Mains  BY <1>1, <1>5 DEF Sound, SubHandles
  <2>2. home[c] = e  BY <1>1, <1>5, <2>1 DEF Sound, Fresh
  <2>3. tables[c] = {Table(e)} /\ ~SubKnows(c)  BY <1>1, <1>5, <2>2 DEF Sound, OnePlace, MainHas
  <2>4. \A s \in Subs : reg[s][c] = "none"  BY <1>1, <2>3 DEF Sound, Registration, SubKnows
  <2>5. QED  BY <2>3, <2>4
<1>6. QED  BY <1>2, <1>3, <1>4, <1>5 DEF Pending

\* IInv holds of every deployment, for any number of reactors and connections.
THEOREM Invariance == Spec => []IInv
<1>1. QED  BY InitIInv, StepIInv, PTL DEF Spec

\* Nothing is ever in a place or of a type that the code has no name for.
THEOREM TypeCorrect == Spec => []TypeOK
<1>1. IInv => TypeOK  BY DEF IInv
<1>2. QED  BY <1>1, Invariance, PTL

\* A connection is never with two reactors at once: no lock protects what they do.
THEOREM OneReactorPerConnection == Spec => []OneReactor
<1>1. QED  BY OneReactorHolds, Invariance, PTL

\* No reactor touches a Conn that is deleted, or a descriptor it has closed, and
\* every epoll call is about a connection that is registered as the call supposes.
THEOREM MemorySafety == Spec => []NoUseAfterFree
<1>1. QED  BY NoUseAfterFreeHolds, Invariance, PTL
-----------------------------------------------------------------------------
(* The refinement of Handoff. *)

\* Who the owner of a connection is.
OwnerIs(c) ==
  /\ sock[c] # "accepted" => Owner(c) = None
  /\ sock[c] = "accepted" /\ ~Referenced(c) => Owner(c) = Gone
  /\ sock[c] = "accepted" /\ Referenced(c) =>
       /\ \A s \in Subs : mem[s][c] # "none" => Owner(c) = s
       /\ ~SubKnows(c) => Owner(c) = home[c]

\* There is one, because no two sub reactors ever know of the connection.
LEMMA Owners == IInv => \A c \in Conns : OwnerIs(c)
<1> SUFFICES ASSUME IInv, NEW c \in Conns PROVE OwnerIs(c)  OBVIOUS
<1>1. ASSUME NEW s \in Subs, mem[s][c] # "none"
      PROVE  (CHOOSE t \in Subs : mem[t][c] # "none") = s
  <2>1. \A t \in Subs : mem[t][c] # "none" => t = s  BY <1>1 DEF IInv, Sound, OnePlace
  <2>2. QED  BY <1>1, <2>1
<1>2. QED  BY <1>1 DEF OwnerIs, Owner, SubKnows

\* The step changes nothing the owner of a connection depends on.
Keeps(c) ==
  /\ sock'[c] = "accepted" <=> sock[c] = "accepted"
  /\ Referenced(c)' <=> Referenced(c)
  /\ \A s \in Subs : mem'[s][c] # "none" <=> mem[s][c] # "none"

\* Then it has the same owner.
LEMMA OwnerKept ==
  ASSUME UNCHANGED deploy, NEW c \in Conns, OwnerIs(c), OwnerIs(c)', Keeps(c)
  PROVE  Owner(c)' = Owner(c)
<1>1. home' = home  BY DEF deploy
<1>2. SubKnows(c)' <=> SubKnows(c)  BY DEF SubKnows, Keeps
<1>3. QED  BY <1>1, <1>2 DEF OwnerIs, Keeps, SubKnows

\* Until it is closed, an accepted connection is owned by a reactor.
LEMMA OwnerIsReactor ==
  ASSUME TypeOK, NEW c \in Conns, OwnerIs(c)
  PROVE  /\ Owner(c) = Gone => sock[c] = "accepted" /\ ~Referenced(c)
         /\ sock[c] = "accepted" /\ Referenced(c) => Owner(c) \in Mains \cup Subs
         /\ sock[c] = "accepted" /\ Referenced(c) /\ SubKnows(c) => Owner(c) \in Subs
         /\ sock[c] = "accepted" /\ Referenced(c) /\ ~SubKnows(c) => Owner(c) \in Mains
<1>1. home[c] \in Mains  BY Deployed
<1>2. QED  BY <1>1, Distinct DEF OwnerIs, SubKnows

\* A step of Handoff, from what it does to the owners.
LEMMA AbstractMove ==
  ASSUME UNCHANGED deploy, UNCHANGED unread, NEW c \in Conns, NEW from, NEW to,
         Owner(c) \in from, Owner(c)' \in to, \A d \in Conns \ {c} : Owner(d)' = Owner(d)
  PROVE  H!Move(c, from, to)
<1>1. options' = options  BY DEF deploy
<1>2. [d \in Conns |-> Owner(d)]' = [[d \in Conns |-> Owner(d)] EXCEPT ![c] = Owner(c)']
  OBVIOUS
<1>3. [d \in Conns |-> Owner(d)][c] = Owner(c)  OBVIOUS
<1>4. QED  BY <1>1, <1>2, <1>3 DEF H!Move

\* No step of Handoff at all.
LEMMA AbstractStutter ==
  ASSUME UNCHANGED deploy, UNCHANGED unread, \A d \in Conns : Owner(d)' = Owner(d)
  PROVE  UNCHANGED H!vars
BY DEF H!vars, deploy

\* What the clients send arrives at the owner; and nothing else they do matters.
LEMMA ClientRefines ==
  ASSUME IInv, \A c \in Conns : OwnerIs(c) /\ OwnerIs(c)', Client
  PROVE  [H!Next]_H!vars
<1>1. PICK c \in Conns : Connect(c) \/ ClientSend(c) \/ ClientClose(c)  BY DEF Client
<1>2. UNCHANGED deploy /\ UNCHANGED <<tables, pipe, mem>>
  BY <1>1 DEF Connect, ClientSend, ClientClose, client, kernel, conn
<1>3. \A d \in Conns : sock'[d] = "accepted" <=> sock[d] = "accepted"
  <2>1. CASE Connect(c)  BY <2>1, Typed DEF Connect, IInv
  <2>2. CASE ClientSend(c) \/ ClientClose(c)  BY <2>2 DEF ClientSend, ClientClose, kernel
  <2>3. QED  BY <1>1, <2>1, <2>2
<1>4. \A d \in Conns : Referenced(d)' <=> Referenced(d)
  BY <1>2 DEF Referenced, InFlight, Sent
<1>5. \A d \in Conns : Owner(d)' = Owner(d)
  BY <1>2, <1>3, <1>4, OwnerKept DEF Keeps
<1>6. CASE UNCHANGED unread  BY <1>2, <1>5, <1>6, AbstractStutter
<1>7. CASE ClientSend(c)
  <2>1. Owner(c) # Gone
    <3>1. Connected(c)  BY <1>7 DEF ClientSend
    <3>2. QED  BY <3>1, OwnerIsReactor DEF Connected, IInv
  <2>2. unread' = [unread EXCEPT ![c] = @ + 1]  BY <1>7 DEF ClientSend
  <2>3. [d \in Conns |-> Owner(d)]' = [d \in Conns |-> Owner(d)]  BY <1>5
  <2>4. H!Arrive(c)  BY <1>2, <2>1, <2>2, <2>3 DEF H!Arrive, deploy
  <2>5. QED  BY <2>4 DEF H!Next
<1>8. QED  BY <1>1, <1>6, <1>7 DEF Connect, ClientClose, client

\* Only accept() and the hand-over change the owner.
LEMMA MainRefines ==
  ASSUME IInv, \A c \in Conns : OwnerIs(c) /\ OwnerIs(c)', NEW m \in Mains,
         Accept(m) \/ AddToSubReactor(m) \/ SendFd(m) \/ SendFdFails(m)
  PROVE  [H!Next]_H!vars
<1> USE Distinct
<1>1. TypeOK /\ UNCHANGED deploy /\ UNCHANGED unread
  BY DEF IInv, Accept, AddToSubReactor, SendFd, SendFdFails, client
<1>2. CASE Accept(m)
  <2>1. PICK c \in Conns :
          /\ home[c] = m /\ sock[c] = "backlog" /\ sock' = [sock EXCEPT ![c] = "accepted"]
          /\ tables' = [tables EXCEPT ![c] = {Table(m)}]
          /\ mem' = mem \/ mem' = [mem EXCEPT ![m][c] = "live"]
    BY <1>2 DEF Accept, Backlog, NewConn
  <2>2. \A d \in Conns : InFlight(d)' <=> InFlight(d)  BY <1>2 DEF Accept, InFlight, Sent
  <2>3. \A s \in Subs, d \in Conns : mem'[s][d] = mem[s][d]
    <3>1. CASE mem' = [mem EXCEPT ![m][c] = "live"]  BY <1>1, <3>1, Cell, Typed
    <3>2. QED  BY <2>1, <3>1
  <2>4. ASSUME NEW d \in Conns \ {c} PROVE Owner(d)' = Owner(d)
    <3>1. sock'[d] = sock[d] /\ tables'[d] = tables[d]  BY <1>1, <2>1, Typed
    <3>2. QED  BY <1>1, <2>2, <2>3, <3>1, OwnerKept DEF Keeps, Referenced
  <2>5. Owner(c) = None  BY <2>1 DEF OwnerIs
  <2>6. Owner(c)' \in Mains \cup Subs
    <3>1. sock'[c] = "accepted" /\ tables'[c] # {}  BY <1>1, <2>1, Typed
    <3>2. Referenced(c)'  BY <3>1 DEF Referenced
    <3>3. home'[c] = home[c]  BY <1>1 DEF deploy
    <3>4. QED  BY <2>1, <3>1, <3>2, <3>3 DEF OwnerIs, SubKnows
  <2>7. H!Accept(c)  BY <1>1, <2>4, <2>5, <2>6, AbstractMove DEF H!Accept
  <2>8. QED  BY <2>7 DEF H!Next
<1>3. CASE AddToSubReactor(m)
  <2>1. PICK c \in Conns, s \in Subs : c = cur[m] /\ s = index'[m]
    BY <1>1, <1>3, Giving, NextIndexInRange DEF AddToSubReactor
  <2>2. /\ UNCHANGED <<sock, tables, pipe>> /\ mem' = [mem EXCEPT ![s][c] = "live"]
        /\ pc[m] = "give"
    BY <1>3, <2>1 DEF AddToSubReactor, NewConn, kernel
  <2>3. /\ home[c] = m /\ sock[c] = "accepted" /\ tables[c] = {Table(m)} /\ ~SubKnows(c)
    BY <2>1, <2>2, Giving
  <2>4. /\ mem'[s][c] = "live"
        /\ \A t \in Reactors, d \in Conns : t # s \/ d # c => mem'[t][d] = mem[t][d]
    BY <1>1, <2>2, Cell, Typed
  <2>5. ASSUME NEW d \in Conns \ {c} PROVE Owner(d)' = Owner(d)
    BY <1>1, <2>2, <2>4, OwnerKept DEF Keeps, Referenced, InFlight, Sent
  <2>6. Owner(c) = m  BY <2>3 DEF OwnerIs, Referenced
  <2>7. Owner(c)' = s  BY <2>2, <2>3, <2>4 DEF OwnerIs, Referenced
  <2>8. H!Migrate(c)  BY <1>1, <2>5, <2>6, <2>7, AbstractMove DEF H!Migrate
  <2>9. QED  BY <2>8 DEF H!Next
<1>4. CASE SendFd(m)
  <2>1. PICK c \in Conns, s \in Subs : c = cur[m] /\ s = index'[m]
    BY <1>1, <1>4, Giving, NextIndexInRange DEF SendFd
  <2>2. /\ UNCHANGED <<sock, tables, mem, batch>> /\ pc[m] = "give"
        /\ pipe' = [pipe EXCEPT ![m][s] = Append(@, c)]
    BY <1>4, <2>1 DEF SendFd, conn, Goto
  <2>3. tables[c] = {Table(m)} /\ ~InFlight(c)  BY <2>1, <2>2, Giving
  <2>4. Pipes /\ pipe \in [Mains -> [Subs -> Seq(Conns)]] /\ UNCHANGED batch
    BY <1>1, <2>2, Typed DEF IInv
  <2>5. \A n \in Mains, t \in Subs, d \in Conns :
          Sent(n, t, d)' <=> Sent(n, t, d) \/ (n = m /\ t = s /\ d = c)
    <3>1. /\ ~InFlight(c) /\ UNCHANGED batch
          /\ pipe' = [pipe EXCEPT ![m][s] = Append(@, c)]
      BY <2>2, <2>3
    <3>2. QED  BY <2>4, <3>1, SendLemma
  <2>6. \A d \in Conns : Referenced(d)' <=> Referenced(d)
    BY <2>2, <2>3, <2>5 DEF Referenced, InFlight
  <2>7. \A d \in Conns : Owner(d)' = Owner(d)  BY <1>1, <2>2, <2>6, OwnerKept DEF Keeps
  <2>8. QED  BY <1>1, <2>7, AbstractStutter
<1>5. CASE SendFdFails(m)
  <2>1. UNCHANGED <<sock, tables, pipe, mem>>  BY <1>5 DEF SendFdFails, kernel, conn
  <2>2. \A d \in Conns : Owner(d)' = Owner(d)
    BY <1>1, <2>1, OwnerKept DEF Keeps, Referenced, InFlight, Sent
  <2>3. QED  BY <1>1, <2>2, AbstractStutter
<1>6. QED  BY <1>2, <1>3, <1>4, <1>5

\* The sub reactor becomes the owner, and reads; what else it does with the
\* connection changes neither the owner nor what waits.
LEMMA SubRefines ==
  ASSUME IInv, \A c \in Conns : OwnerIs(c) /\ OwnerIs(c)', NEW s \in Subs,
         \/ \E m \in Mains : RecvFd(s, m)
         \/ \E c \in Conns : Read(s, c)
  PROVE  [H!Next]_H!vars
<1> USE Distinct
<1>1. TypeOK  BY DEF IInv
<1>2. ASSUME NEW m \in Mains, RecvFd(s, m) PROVE [H!Next]_H!vars
  <2>1. /\ UNCHANGED deploy /\ UNCHANGED <<unread, sock>> /\ <<m, "in">> \in batch[s]
        /\ pipe' = [pipe EXCEPT ![m][s] = Tail(@)]
        /\ batch' = [batch EXCEPT ![s] = @ \ {<<m, "in">>}]
    BY <1>2 DEF RecvFd, Handle, client
  <2>2. /\ Pipes /\ pipe \in [Mains -> [Subs -> Seq(Conns)]] /\ pipe[m][s] # <<>>
        /\ \A t \in Subs : batch'[t] \subseteq batch[t]
        /\ <<m, "in">> \notin batch'[s]
    BY <1>1, <2>1, TakenEvents, Typed DEF IInv, Pipes
  <2>3. /\ Head(pipe[m][s]) \in Conns /\ Sent(m, s, Head(pipe[m][s]))
        /\ \A n \in Mains, t \in Subs, d \in Conns :
             Sent(n, t, d)' <=> Sent(n, t, d) /\ d # Head(pipe[m][s])
    BY <2>1, <2>2, RecvLemma
  <2>4. PICK c \in Conns : c = Head(pipe[m][s])  BY <2>3
  <2>5. tables' = [tables EXCEPT ![c] = @ \cup {Table(s)}] /\ mem' = [mem EXCEPT ![s][c] = "live"]
    BY <1>2, <2>4 DEF RecvFd, NewConn
  <2>6. InFlight(c) /\ sock[c] = "accepted" /\ ~SubKnows(c) /\ home[c] \in Mains
    BY <1>1, <2>3, <2>4, Deployed DEF IInv, Sound, Fresh, OnePlace, InFlight
  <2>7. /\ mem'[s][c] = "live"
        /\ \A t \in Reactors, d \in Conns : t # s \/ d # c => mem'[t][d] = mem[t][d]
    BY <1>1, <2>5, Cell, Typed
  <2>8. ASSUME NEW d \in Conns \ {c} PROVE Owner(d)' = Owner(d)
    <3>1. tables'[d] = tables[d]  BY <1>1, <2>5, Typed
    <3>2. Referenced(d)' <=> Referenced(d)  BY <2>3, <2>4, <3>1 DEF Referenced, InFlight
    <3>3. QED  BY <2>1, <2>7, <3>2, OwnerKept DEF Keeps
  <2>9. Owner(c) \in Mains  BY <2>6 DEF OwnerIs, Referenced
  <2>10. Owner(c)' = s
    <3>1. tables'[c] # {}  BY <1>1, <2>5, Typed
    <3>2. QED  BY <2>1, <2>6, <2>7, <3>1 DEF OwnerIs, Referenced
  <2>11. H!Migrate(c)  BY <2>1, <2>8, <2>9, <2>10, AbstractMove DEF H!Migrate
  <2>12. QED  BY <2>11 DEF H!Next
<1>3. ASSUME NEW c \in Conns, Read(s, c) PROVE [H!Next]_H!vars
  <2>1. /\ UNCHANGED deploy /\ UNCHANGED <<sock, tables, pipe, mem>> /\ <<c, "in">> \in batch[s]
        /\ unread' = [unread EXCEPT ![c] = 0]
    BY <1>3 DEF Read, Handle, kernel
  <2>2. \A d \in Conns : Owner(d)' = Owner(d)
    BY <2>1, OwnerKept DEF Keeps, Referenced, InFlight, Sent
  <2>3. Owner(c) \in Subs
    <3>1. Sound(c)  BY DEF IInv
    <3>2. mem[s][c] = "live" /\ tables[c] # {}  BY <2>1, <3>1 DEF Sound, Registration
    <3>3. sock[c] = "accepted"  BY <3>1, <3>2 DEF Sound, Fresh
    <3>4. QED  BY <3>2, <3>3 DEF OwnerIs, Referenced
  <2>4. 0 \in 0 .. unread[c]
    <3>1. unread[c] \in 0 .. 2  BY <1>1, Typed
    <3>2. QED  BY <3>1
  <2>5. [d \in Conns |-> Owner(d)]' = [d \in Conns |-> Owner(d)]  BY <2>2
  <2>6. H!Take(c)  BY <2>1, <2>3, <2>4, <2>5 DEF H!Take, deploy
  <2>7. QED  BY <2>6 DEF H!Next
<1>4. QED  BY <1>2, <1>3

\* With its last descriptor a connection has no owner any more; only a main reactor
\* that could not send it closes it without a sub reactor that had it.
LEMMA CloseRefines ==
  ASSUME IInv, \A c \in Conns : OwnerIs(c) /\ OwnerIs(c)', NEW e \in Reactors, CloseFd(e)
  PROVE  [H!Next]_H!vars
<1> USE Distinct
<1>1. TypeOK /\ UNCHANGED deploy /\ UNCHANGED <<unread, sock, pipe, mem>> /\ pc[e] = "close"
  BY DEF IInv, CloseFd, client
<1>2. PICK c \in Conns : c = cur[e]  BY <1>1, Ending
<1>3. tables' = [tables EXCEPT ![c] = @ \ {Table(e)}]  BY <1>2 DEF CloseFd
<1>4. /\ Sound(c) /\ sock[c] = "accepted" /\ Table(e) \in tables[c]
      /\ e \in Mains => home[c] = e
      /\ e \in Subs => mem[e][c] = "live"
  BY <1>1, <1>2, Ending DEF IInv
<1>5. \A d \in Conns : InFlight(d)' <=> InFlight(d)  BY <1>1 DEF InFlight, Sent
<1>6. ASSUME NEW d \in Conns \ {c} PROVE Owner(d)' = Owner(d)
  <2>1. tables'[d] = tables[d]  BY <1>1, <1>3, Typed
  <2>2. QED  BY <1>1, <1>5, <2>1, OwnerKept DEF Keeps, Referenced
<1>7. Referenced(c)  BY <1>4 DEF Referenced
<1>8. CASE Referenced(c)'
  <2>1. Owner(c)' = Owner(c)  BY <1>1, <1>7, <1>8, OwnerKept DEF Keeps
  <2>2. QED  BY <1>1, <1>6, <2>1, AbstractStutter
<1>9. CASE ~Referenced(c)'
  <2>1. Owner(c)' = Gone  BY <1>1, <1>4, <1>9 DEF OwnerIs
  <2>2. CASE SubKnows(c)
    <3>1. Owner(c) \in Subs  BY <1>1, <1>4, <1>7, <2>2, OwnerIsReactor
    <3>2. H!Close(c)  BY <1>1, <1>6, <2>1, <3>1, AbstractMove DEF H!Close
    <3>3. QED  BY <3>2 DEF H!Next
  <2>3. CASE ~SubKnows(c)
    <3>1. e \in Mains /\ home[c] = e  BY <1>4, <2>3 DEF SubKnows
    <3>2. ~InFlight(c)  BY <1>5, <1>9 DEF Referenced
    <3>3. "toomany" \in options  BY <1>1, <1>2, <1>4, <2>3, <3>1, <3>2 DEF Sound, MainHandles
    <3>4. Owner(c) \in Mains  BY <1>1, <1>4, <1>7, <2>3, OwnerIsReactor
    <3>5. H!Move(c, Mains, {Gone})  BY <1>1, <1>6, <2>1, <3>4, AbstractMove
    <3>6. QED  BY <3>3, <3>5 DEF H!GiveUp, H!Next
  <2>4. QED  BY <2>2, <2>3
<1>10. QED  BY <1>8, <1>9

\* The steps that are not about who has a connection.
LEMMA RestStutters ==
  ASSUME IInv, \A c \in Conns : OwnerIs(c) /\ OwnerIs(c)', UNCHANGED deploy,
         UNCHANGED <<unread, sock, tables, pipe>>,
         mem' = mem \/ \E e \in Reactors : Delete(e)
  PROVE  UNCHANGED H!vars
<1>1. \A c \in Conns, s \in Subs : mem'[s][c] # "none" <=> mem[s][c] # "none"
  <2>1. ASSUME NEW e \in Reactors, Delete(e), NEW c \in Conns, NEW s \in Subs
        PROVE  mem'[s][c] # "none" <=> mem[s][c] # "none"
    <3>1. TypeOK /\ s \in Reactors  BY Distinct DEF IInv
    <3>2. cur[e] \in Conns /\ mem[e][cur[e]] = "live"  BY <2>1, Ending DEF Delete
    <3>3. mem' = [mem EXCEPT ![e][cur[e]] = "freed"]  BY <2>1 DEF Delete
    <3>4. mem \in [Reactors -> [Conns -> {"none", "live", "freed"}]]  BY <3>1, Typed
    <3>5. QED  BY <3>1, <3>2, <3>3, <3>4
  <2>2. QED  BY <2>1
<1>2. \A c \in Conns : Owner(c)' = Owner(c)
  BY <1>1, OwnerKept DEF Keeps, Referenced, InFlight, Sent
<1>3. QED  BY <1>2, AbstractStutter

\* What a client may rely on, whatever the number of reactors and the deployment:
\* the servers with main and sub reactors implement Handoff.
THEOREM Refinement == Spec => HandoffSpec
<1>1. Init => H!Init
  <2> SUFFICES ASSUME Init PROVE H!Init  OBVIOUS
  <2>1. \A c \in Conns : Owner(c) = None  BY DEF Init, Owner
  <2>2. QED  BY <2>1 DEF Init, H!Init
<1>2. IInv' => (\A c \in Conns : OwnerIs(c))'  BY Owners, PTL
<1>3. IInv /\ IInv' /\ [Next]_vars => [H!Next]_H!vars
  <2>1. SUFFICES ASSUME IInv, IInv', [Next]_vars PROVE [H!Next]_H!vars  OBVIOUS
  <2> USE Distinct
  <2>2. \A c \in Conns : OwnerIs(c) /\ OwnerIs(c)'  BY <1>2, <2>1, Owners
  <2>3. CASE Client  BY <2>1, <2>2, <2>3, ClientRefines
  <2>4. ASSUME NEW e \in Reactors, CloseFd(e) PROVE [H!Next]_H!vars
    BY <2>1, <2>2, <2>4, CloseRefines
  <2>5. ASSUME NEW e \in Reactors, EpollWait(e) \/ Delete(e) PROVE [H!Next]_H!vars
    BY <2>1, <2>2, <2>5, RestStutters DEF EpollWait, Delete, client, kernel, conn
  <2>6. ASSUME NEW m \in Mains,
               \/ StartAccept(m) \/ EndAccept(m) \/ \E c \in Conns : ClearEvent(m, c)
        PROVE  [H!Next]_H!vars
    BY <2>1, <2>2, <2>6, RestStutters
       DEF StartAccept, EndAccept, ClearEvent, client, kernel, conn
  <2>7. ASSUME NEW s \in Subs,
               \/ AcceptMains(s) \/ EpollCtl(s)
               \/ \E c \in Conns : Fails(s, c) \/ Write(s, c)
        PROVE  [H!Next]_H!vars
    BY <2>1, <2>2, <2>7, RestStutters
       DEF AcceptMains, EpollCtl, Fails, Write, client, kernel, conn
  <2>8. ASSUME NEW m \in Mains, Main(m) PROVE [H!Next]_H!vars
    BY <2>1, <2>2, <2>4, <2>5, <2>6, <2>8, MainRefines DEF Main
  <2>9. ASSUME NEW s \in Subs, Sub(s) PROVE [H!Next]_H!vars
    BY <2>1, <2>2, <2>4, <2>5, <2>7, <2>9, SubRefines DEF Sub
  <2>10. CASE UNCHANGED vars
    BY <2>1, <2>2, <2>10, RestStutters DEF vars, client, kernel, conn
  <2>11. QED  BY <2>1, <2>3, <2>8, <2>9, <2>10 DEF Next
<1>4. QED  BY <1>1, <1>3, Invariance, PTL DEF Spec, HandoffSpec, H!Spec
=============================================================================
