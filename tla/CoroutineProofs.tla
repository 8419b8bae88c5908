-------------------------- MODULE CoroutineProofs --------------------------
(***************************************************************************)
(* The coroutines, for a pool of any size.  First the scheduler: its       *)
(* account of who runs agrees with the machine.  The invariant ties three  *)
(* things together: the state of a coroutine, where its context continues, *)
(* and who has the processor.                                              *)
(* Then the servers that run on it: a connection and the coroutine that    *)
(* serves it belong to each other, for any number of connections, although *)
(* the pool uses its ids again.  The scheduler's invariant is not proved   *)
(* again: every step of the server is one of the scheduler too.            *)
(***************************************************************************)
EXTENDS CoroutineServer, TLAPS

\* -1 is no coroutine, 0 no block.
LEMMA IdsFacts == /\ Ids \subseteq Int /\ Main \notin Ids
                  /\ NoStack \notin Stacks /\ kInvalidRoutineId = Main
BY CoroutineAssumption DEF Ids, Main, kInvalidRoutineId, NoStack, Stacks

\* A new coroutine takes an idle place and a free stack.
LEMMA CreateIInv ==
  ASSUME ScheduleIInv, NEW i \in Ids, CoroutineCreate(i),
         InMain \/ \E j \in Ids : InUser(j)
  PROVE  ScheduleIInv'
<1>a. /\ ScheduleTypeOK /\ Placed /\ Recorded /\ Stacked
      /\ state[i] = "Idle" /\ at[i] = "none" /\ cpu # i
      /\ UNCHANGED <<runningCoroutineId, isMasterCoroutine, cpu, mainAt>>
      /\ state' = [state EXCEPT ![i] = "Ready"] /\ at' = [at EXCEPT ![i] = "start"]
  BY DEF ScheduleIInv, Placed, CoroutineCreate, CoroutineInit
<1>b. PICK s \in Stacks \ heap :
        stack' = [stack EXCEPT ![i] = s] /\ heap' = heap \cup {s}
  BY DEF CoroutineCreate, CoroutineInit
<1>c. \A j \in Ids : /\ state'[j] = IF j = i THEN "Ready" ELSE state[j]
                     /\ at'[j] = IF j = i THEN "start" ELSE at[j]
                     /\ stack'[j] = IF j = i THEN s ELSE stack[j]
  BY <1>a, <1>b DEF ScheduleTypeOK
<1>1. ScheduleTypeOK'  BY <1>a, <1>b DEF ScheduleTypeOK
<1>2. Placed'  BY <1>a, <1>c DEF Placed
<1>3. Recorded'
  <2>1. \A j \in Ids : InUser(j)' => InUser(j)  BY <1>a, <1>c DEF InUser
  <2>2. runningCoroutineId # kInvalidRoutineId => runningCoroutineId \in Ids
    BY <1>a DEF ScheduleTypeOK
  <2>3. QED  BY <2>1, <2>2, <1>a, <1>c DEF Recorded, InMain
<1>4. Stacked'
  <2>1. s # NoStack /\ s \notin heap  BY <1>b, IdsFacts
  <2>2. mainAt # "cleaned" => \A j \in Ids : stack[j] # NoStack => stack[j] # s
    BY <2>1, <1>a DEF Stacked
  <2>3. QED  BY <2>1, <2>2, <1>a, <1>b, <1>c DEF Stacked
<1>5. QED  BY <1>1, <1>2, <1>3, <1>4 DEF ScheduleIInv

\* The main coroutine gives the processor to a coroutine that waits for it.
LEMMA SwitchIInv ==
  ASSUME ScheduleIInv, NEW i \in Ids, InMain, Runnable(i), SwitchTo(i)
  PROVE  ScheduleIInv'
<1>a. /\ ScheduleTypeOK /\ Placed /\ Recorded /\ Stacked
      /\ cpu = Main /\ mainAt = "user" /\ at[i] \in {"start", "yielded"}
      /\ cpu' = i /\ runningCoroutineId' = i
      /\ UNCHANGED <<isMasterCoroutine, stack, heap, at, mainAt>>
      /\ state' = [state EXCEPT ![i] = "Run"]
  BY DEF ScheduleIInv, Placed, InMain, Runnable, SwitchTo, memory
<1>b. \A j \in Ids : state'[j] = IF j = i THEN "Run" ELSE state[j]
  BY <1>a DEF ScheduleTypeOK
<1>c. \A j \in Ids : cpu # j  BY <1>a, IdsFacts
<1>1. ScheduleTypeOK'  BY <1>a DEF ScheduleTypeOK
<1>2. Placed'  BY <1>a, <1>b, <1>c DEF Placed
<1>3. Recorded'
  <2>1. ~InMain'  BY <1>a, IdsFacts DEF InMain
  <2>2. \A j \in Ids : ~InUser(j)'  BY <1>a DEF InUser
  <2>3. QED  BY <2>1, <2>2, <1>a, <1>b DEF Recorded
<1>4. Stacked'
  <2>1. state[i] # "Idle"  BY DEF Runnable
  <2>2. QED  BY <2>1, <1>a, <1>b DEF Stacked
<1>5. QED  BY <1>1, <1>2, <1>3, <1>4 DEF ScheduleIInv

\* The coroutine notes that it is not the main one.
LEMMA EnterIInv ==
  ASSUME ScheduleIInv, NEW i \in Ids, Enter(i)
  PROVE  ScheduleIInv'
<1>a. /\ ScheduleTypeOK /\ Placed /\ Recorded /\ Stacked
      /\ cpu = i /\ isMasterCoroutine' = FALSE /\ at' = [at EXCEPT ![i] = "user"]
      /\ at[i] \in {"start", "yielded"}
      /\ UNCHANGED <<state, runningCoroutineId, stack, heap, cpu, mainAt>>
  BY DEF ScheduleIInv, Enter, memory
<1>b. \A j \in Ids : at'[j] = IF j = i THEN "user" ELSE at[j]
  BY <1>a DEF ScheduleTypeOK
<1>1. ScheduleTypeOK'  BY <1>a DEF ScheduleTypeOK
<1>2. Placed'  BY <1>a, <1>b DEF Placed
<1>3. Recorded'
  <2>1. ~InMain'  BY <1>a, IdsFacts DEF InMain
  <2>2. QED  BY <2>1, <1>a DEF Recorded
<1>4. Stacked'  BY <1>a DEF Stacked
<1>5. QED  BY <1>1, <1>2, <1>3, <1>4 DEF ScheduleIInv

\* CoroutineYield and the end of CoroutineRun give the processor back.
LEMMA LeaveIInv ==
  ASSUME ScheduleIInv, NEW i \in Ids, CoroutineYield(i) \/ Finish(i)
  PROVE  ScheduleIInv'
<1>a. /\ ScheduleTypeOK /\ Placed /\ Recorded /\ Stacked
      /\ cpu = i /\ runningCoroutineId = i /\ InUser(i)
      /\ cpu' = Main /\ mainAt' = "resumed" /\ mainAt = "user"
      /\ UNCHANGED <<isMasterCoroutine, stack, heap>>
  BY DEF ScheduleIInv, CoroutineYield, Finish, memory, InUser, Recorded
<1>b. PICK st \in {"Suspend", "Idle"} :
        /\ state' = [state EXCEPT ![i] = st]
        /\ at' = [at EXCEPT ![i] = IF st = "Idle" THEN "none" ELSE "yielded"]
        /\ runningCoroutineId' = IF st = "Idle" THEN kInvalidRoutineId ELSE runningCoroutineId
  <2>1. CASE CoroutineYield(i)  BY <2>1, <1>a DEF CoroutineYield
  <2>2. CASE Finish(i)  BY <2>2 DEF Finish
  <2>3. QED  BY <2>1, <2>2
<1>c. \A j \in Ids :
        /\ state'[j] = IF j = i THEN st ELSE state[j]
        /\ at'[j] = IF j = i THEN (IF st = "Idle" THEN "none" ELSE "yielded") ELSE at[j]
  BY <1>a, <1>b DEF ScheduleTypeOK
<1>d. \A j \in Ids : cpu' # j  BY <1>a, IdsFacts
<1>1. ScheduleTypeOK'  BY <1>a, <1>b DEF ScheduleTypeOK
<1>2. Placed'  BY <1>a, <1>b, <1>c, <1>d DEF Placed
<1>3. Recorded'  BY <1>a, <1>b, <1>c, <1>d DEF Recorded, InMain, InUser
<1>4. Stacked'
  <2>1. state[i] # "Idle"  BY <1>a DEF Placed
  <2>2. QED  BY <2>1, <1>a, <1>c DEF Stacked
<1>5. QED  BY <1>1, <1>2, <1>3, <1>4 DEF ScheduleIInv

\* The steps of the main coroutine that are not a switch.
LEMMA MainIInv ==
  ASSUME ScheduleIInv, ResumeReturn \/ ScheduleClean
  PROVE  ScheduleIInv'
<1>a. ScheduleTypeOK /\ Placed /\ Recorded /\ Stacked  BY DEF ScheduleIInv
<1>1. CASE ResumeReturn
  BY <1>1, <1>a, IdsFacts
  DEF ResumeReturn, ScheduleIInv, ScheduleTypeOK, Placed, Recorded, Stacked, InMain, InUser, memory
<1>2. CASE ScheduleClean
  <2>1. ScheduleTypeOK'  BY <1>2, <1>a DEF ScheduleClean, ScheduleTypeOK, account
  <2>2. Placed'  BY <1>2, <1>a DEF ScheduleClean, Placed, account
  <2>3. Recorded'
    BY <1>2, <1>a, IdsFacts DEF ScheduleClean, Recorded, InMain, InUser, account
  <2>4. Stacked'  BY <1>2 DEF ScheduleClean, Stacked
  <2>5. QED  BY <2>1, <2>2, <2>3, <2>4 DEF ScheduleIInv
<1>3. QED  BY <1>1, <1>2

\* Every step.
LEMMA NextIInv ==
  ASSUME ScheduleIInv, [CoroutineNext]_schedule
  PROVE  ScheduleIInv'
<1>1. CASE UNCHANGED schedule
  BY <1>1 DEF ScheduleIInv, ScheduleTypeOK, Placed, Recorded, Stacked, InMain, InUser,
              schedule, account, memory, machine
<1>2. CASE CoroutineResume  BY <1>2, SwitchIInv DEF CoroutineResume
<1>3. CASE ResumeReturn \/ ScheduleClean  BY <1>3, MainIInv
<1>4. ASSUME NEW i \in Ids, CoroutineCreate(i) /\ (InMain \/ \E j \in Ids : InUser(j))
      PROVE  ScheduleIInv'
  BY <1>4, CreateIInv
<1>5. ASSUME NEW i \in Ids, CoroutineResumeById(i)
      PROVE  ScheduleIInv'
  BY <1>5, SwitchIInv DEF CoroutineResumeById
<1>6. ASSUME NEW i \in Ids, Enter(i) \/ CoroutineYield(i) \/ Finish(i)
      PROVE  ScheduleIInv'
  BY <1>6, EnterIInv, LeaveIInv
<1>7. QED  BY <1>1, <1>2, <1>3, <1>4, <1>5, <1>6 DEF CoroutineNext

\* The invariant holds of every reachable state.
THEOREM ScheduleInvariance == CoroutineSpec => []ScheduleIInv
<1>1. ScheduleInit => ScheduleIInv
  BY IdsFacts DEF ScheduleInit, ScheduleIInv, ScheduleTypeOK, Placed, Recorded, Stacked,
                  InMain, InUser
<1>2. ScheduleIInv /\ [CoroutineNext]_schedule => ScheduleIInv'  BY NextIInv
<1>3. QED  BY <1>1, <1>2, PTL DEF CoroutineSpec

\* The types, for a pool of any size.
THEOREM ScheduleTypes == CoroutineSpec => []ScheduleTypeOK
<1>1. ScheduleIInv => ScheduleTypeOK  BY DEF ScheduleIInv
<1>2. QED  BY <1>1, ScheduleInvariance, PTL

\* As long as ScheduleRunning says so there is a coroutine to resume.
LEMMA RunningIsRunnable == ScheduleIInv => RunningMeansRunnable
<1>1. ASSUME ScheduleIInv, InMain PROVE ScheduleRunning <=> \E i \in Ids : Runnable(i)
  <2>1. \A i \in Ids : state[i] # "Idle" <=> Runnable(i)
    BY <1>1, IdsFacts DEF ScheduleIInv, ScheduleTypeOK, Placed, InMain, Runnable
  <2>2. runningCoroutineId # kInvalidRoutineId =>
          runningCoroutineId \in Ids /\ state[runningCoroutineId] # "Idle"
    BY <1>1 DEF ScheduleIInv, ScheduleTypeOK, Recorded
  <2>3. QED  BY <2>1, <2>2 DEF ScheduleRunning
<1>2. QED  BY <1>1 DEF RunningMeansRunnable

\* The scheduler's account is right whenever the program runs, so that no
\* assertion of coroutine.cpp fails as long as the calls are legal.
THEOREM AccountIsRight == CoroutineSpec => []Accounted
<1>1. ASSUME ScheduleIInv PROVE Accounted
  <2>1. InMain => isMasterCoroutine /\ \A i \in Ids : state[i] # "Run"
    BY <1>1, IdsFacts DEF ScheduleIInv, Placed, Recorded, InMain
  <2>2. QED  BY <2>1, <1>1, RunningIsRunnable DEF ScheduleIInv, Placed, Recorded, Accounted
<1>2. QED  BY <1>1, ScheduleInvariance, PTL

\* No two coroutines in use share a stack, and none has lost its own.
THEOREM StacksAreOwn == CoroutineSpec => []OwnStack
<1>1. ScheduleIInv => OwnStack  BY DEF ScheduleIInv, Stacked, OwnStack
<1>2. QED  BY <1>1, ScheduleInvariance, PTL

\* A coroutine changes its state only as the comment on State says.
THEOREM StatesMoveAsDocumented == CoroutineSpec => StateTransitions
<1> DEFINE Moves ==
      \A i \in Ids : state'[i] # state[i] => <<state[i], state'[i]>> \in StateMoves
<1>1. ASSUME ScheduleIInv, [CoroutineNext]_schedule PROVE [Moves]_schedule
  <2>a. ScheduleTypeOK /\ Placed /\ Recorded  BY <1>1 DEF ScheduleIInv
  <2>1. CASE UNCHANGED schedule  BY <2>1
  <2>2. ASSUME NEW i \in Ids, Runnable(i), SwitchTo(i) PROVE Moves
    BY <2>2, <2>a DEF Runnable, SwitchTo, ScheduleTypeOK, StateMoves
  <2>3. ASSUME NEW i \in Ids, CoroutineCreate(i) PROVE Moves
    BY <2>3, <2>a DEF CoroutineCreate, CoroutineInit, ScheduleTypeOK, StateMoves
  <2>4. ASSUME NEW i \in Ids, CoroutineYield(i) \/ Finish(i) PROVE Moves
    <3>1. runningCoroutineId = i /\ state[i] = "Run"
      BY <2>4, <2>a DEF CoroutineYield, Finish, InUser, Placed, Recorded
    <3>2. QED
      BY <2>4, <3>1, <2>a DEF CoroutineYield, Finish, ScheduleTypeOK, StateMoves
  <2>5. CASE UNCHANGED state  BY <2>5
  <2>6. QED
    BY <1>1, <2>1, <2>2, <2>3, <2>4, <2>5
    DEF CoroutineNext, CoroutineResume, CoroutineResumeById, ResumeReturn, ScheduleClean,
        Enter, account
<1>2. QED  BY <1>1, ScheduleInvariance, PTL DEF CoroutineSpec, StateTransitions
-----------------------------------------------------------------------------
(* The servers. *)

\* The types of what the invariant speaks of.
LEMMA Typed ==
  ASSUME IInv
  PROVE  /\ state \in [Ids -> {"Idle", "Ready", "Run", "Suspend"}]
         /\ cid \in [Conns -> Ids \cup {kInvalidRoutineId}]
         /\ owner \in [Ids -> Conns \cup {None}]
         /\ hpc \in [Ids -> {"none", "read", "mod", "write", "free"}]
         /\ mem \in [Conns -> {"new", "backlog", "live", "freed"}]
         /\ reg \in [Conns -> {"none", "in", "out"}]
         /\ got \in [Conns -> 0 .. 2] /\ left \in [Conns -> 0 .. 2]
         /\ unread \in [Conns -> 0 .. 2] /\ cur \in Conns \cup {None}
         /\ batch \subseteq (Conns \cup {None}) \X {"in", "out"}
         /\ ScheduleIInv
         /\ Main \notin Ids /\ kInvalidRoutineId \notin Ids /\ None \notin Conns
BY IdsFacts, CoroutineServerAssumption DEF IInv, TypeOK, ScheduleTypeOK

\* The step changes nothing the invariant says of the connections and the coroutines.
Same(d) ==
  /\ mem'[d] = mem[d] /\ reg'[d] = reg[d] /\ got'[d] = got[d] /\ left'[d] = left[d]
  /\ cid'[d] = cid[d]

\* Where every program starts.
LEMMA InitIInv == Init => IInv
<1> SUFFICES ASSUME Init PROVE IInv  OBVIOUS
<1>1. ScheduleIInv
  BY IdsFacts DEF Init, ScheduleInit, ScheduleIInv, ScheduleTypeOK, Placed, Recorded, Stacked,
                  InMain, InUser
<1>2. TypeOK
  <2>1. load.requests \in Nat  BY CoroutineServerAssumption DEF Init
  <2>2. asked \in 0 .. 2 * load.requests  BY <2>1 DEF Init
  <2>3. QED  BY <1>1, <2>2 DEF Init, TypeOK, ScheduleIInv
<1>3. Batched /\ (\A c \in Conns : Bound(c)) /\ (\A i \in Ids : Serving(i))
  BY DEF Init, ScheduleInit, Batched, Bound, Serving
<1>4. QED  BY <1>1, <1>2, <1>3 DEF IInv
-----------------------------------------------------------------------------
(* The clients. *)

\* A client changes what waits in the buffers, and connects.
LEMMA ClientStep == ASSUME IInv, Client PROVE IInv'
<1> USE Typed
<1>1. PICK c \in Conns : Connect(c) \/ ClientSend(c) \/ ClientRecv(c) \/ ClientClose(c)
  BY DEF Client
<1>2. UNCHANGED schedule /\ UNCHANGED <<reg, got, left, cid, owner, hpc, batch, loop, cur>>
  BY <1>1 DEF Connect, ClientSend, ClientRecv, ClientClose, conn, handler, reactor
<1>3. ScheduleIInv' /\ UNCHANGED <<state, cpu, mainAt>>
  BY <1>2, NextIInv DEF schedule, account, machine
<1>4. mem' = mem \/ (mem[c] = "new" /\ mem' = [mem EXCEPT ![c] = "backlog"])
  BY <1>1 DEF Connect, ClientSend, ClientRecv, ClientClose, conn
<1>5. /\ unread' \in [Conns -> 0 .. 2]
      /\ \A d \in Conns : got[d] + unread'[d] <= 2
  <2>1. \A d \in Conns : got[d] + unread[d] <= 2  BY DEF IInv, Bound
  <2>2. CASE ClientSend(c)
    <3>1. got[c] \in 0 .. 2 /\ unread[c] \in 0 .. 2 /\ got[c] + unread[c] < 2
      BY <2>2 DEF ClientSend
    <3>2. unread[c] + 1 \in 0 .. 2 /\ got[c] + (unread[c] + 1) <= 2  BY <3>1
    <3>3. QED  BY <2>1, <2>2, <3>2 DEF ClientSend
  <2>3. CASE ~ClientSend(c)
    BY <1>1, <2>1, <2>3 DEF Connect, ClientRecv, ClientClose, client
  <2>4. QED  BY <2>2, <2>3
<1>6. TypeOK'
  <2>1. mem' \in [Conns -> {"new", "backlog", "live", "freed"}]  BY <1>4
  <2>2. /\ load' = load /\ asked' \in 0 .. 2 * load.requests
        /\ peer' \in [Conns -> BOOLEAN] /\ room' \in [Conns -> 0 .. 1]
    <3>1. load.requests \in Nat  BY CoroutineServerAssumption DEF IInv, TypeOK
    <3>2. asked \in 0 .. 2 * load.requests /\ peer \in [Conns -> BOOLEAN] /\ room \in [Conns -> 0 .. 1]
      BY DEF IInv, TypeOK
    <3>3. asked < 2 * load.requests => asked + 1 \in 0 .. 2 * load.requests  BY <3>1, <3>2
    <3>4. CASE Connect(c)  BY <3>2, <3>4 DEF Connect, client
    <3>5. CASE ClientSend(c)  BY <3>2, <3>3, <3>5 DEF ClientSend
    <3>6. CASE ClientRecv(c)  BY <3>2, <3>6 DEF ClientRecv
    <3>7. CASE ClientClose(c)  BY <3>2, <3>7 DEF ClientClose
    <3>8. QED  BY <1>1, <3>4, <3>5, <3>6, <3>7
  <2>3. QED  BY <1>2, <1>3, <1>5, <2>1, <2>2 DEF IInv, TypeOK, ScheduleIInv
<1>7. \A d \in Conns : /\ mem[d] = "live" <=> mem'[d] = "live"
                       /\ mem[d] \in {"new", "backlog"} <=> mem'[d] \in {"new", "backlog"}
  BY <1>4
<1>8. \A d \in Conns : Bound(d)'
  BY <1>2, <1>3, <1>5, <1>7 DEF IInv, Bound
<1>9. \A i \in Ids : Serving(i)'  BY <1>2, <1>3, <1>7 DEF IInv, Serving
<1>10. Batched'  BY <1>2, <1>3, <1>7 DEF IInv, Batched, InMain
<1>11. QED  BY <1>3, <1>6, <1>8, <1>9, <1>10 DEF IInv
-----------------------------------------------------------------------------
(* The event loop. *)

\* While the main coroutine runs no other does.
LEMMA EpollWaitStep == ASSUME IInv, EpollWait \/ EndOfBatch PROVE IInv'
<1> USE Typed
<1>1. /\ UNCHANGED schedule
      /\ UNCHANGED <<load, peer, unread, room, asked, mem, reg, got, left, cid, owner, hpc, cur>>
      /\ InMain /\ loop \in {"wait", "events"} /\ loop' \in {"wait", "events"}
  BY DEF EpollWait, EndOfBatch, client, conn, handler
<1>2. ScheduleIInv' /\ UNCHANGED <<state, cpu, mainAt>>
  BY <1>1, NextIInv DEF schedule, account, machine
<1>3. /\ batch' \subseteq (Conns \cup {None}) \X {"in", "out"}
      /\ \A event \in batch' : event[1] # None => mem[event[1]] = "live"
      /\ \A e, f \in batch' : e[1] = f[1] => e = f
  <2>1. CASE EndOfBatch  BY <2>1 DEF EndOfBatch, IInv, Batched
  <2>2. CASE EpollWait
    <3>1. \A event \in batch' : event \in (Conns \cup {None}) \X {"in", "out"} /\
            IF event[1] = None THEN event = <<None, "in">> ELSE event = <<event[1], reg[event[1]]>>
      BY <2>2 DEF EpollWait, Ready
    <3>2. \A event \in batch' : event[1] # None => reg[event[1]] \in {"in", "out"}
      BY <2>2 DEF EpollWait, Ready
    <3>3. QED  BY <3>1, <3>2 DEF IInv, Bound
  <2>3. QED  BY <2>1, <2>2
<1>4. TypeOK'  BY <1>1, <1>2, <1>3 DEF IInv, TypeOK, ScheduleIInv
<1>5. Batched'
  <2>1. cur = None /\ cpu = Main  BY <1>1 DEF IInv, Batched, InMain
  <2>2. QED  BY <1>1, <1>2, <1>3, <2>1 DEF Batched
<1>6. \A d \in Conns : Bound(d)'  BY <1>1, <1>2 DEF IInv, Bound
<1>7. \A i \in Ids : Serving(i)'  BY <1>1, <1>2 DEF IInv, Serving
<1>8. QED  BY <1>2, <1>4, <1>5, <1>6, <1>7 DEF IInv

\* Every connection of the backlog gets an EventData that has no coroutine yet.
LEMMA AcceptStep == ASSUME IInv, Accept PROVE IInv'
<1> USE Typed
<1>1. /\ UNCHANGED schedule
      /\ UNCHANGED <<load, peer, unread, room, asked, got, left, cid, owner, hpc, loop, cur>>
      /\ InMain /\ loop = "events" /\ batch' = batch \ {<<None, "in">>}
      /\ mem' = [c \in Conns |-> IF mem[c] = "backlog" THEN "live" ELSE mem[c]]
      /\ reg' = [c \in Conns |-> IF mem[c] = "backlog" THEN "in" ELSE reg[c]]
  BY DEF Accept, client, handler
<1>2. ScheduleIInv' /\ UNCHANGED <<state, cpu, mainAt>>
  BY <1>1, NextIInv DEF schedule, account, machine
<1>3. TypeOK'
  <2>1. /\ mem' \in [Conns -> {"new", "backlog", "live", "freed"}]
        /\ reg' \in [Conns -> {"none", "in", "out"}]
    BY <1>1
  <2>2. QED  BY <1>1, <1>2, <2>1 DEF IInv, TypeOK, ScheduleIInv
<1>4. \A d \in Conns : Bound(d)'  BY <1>1, <1>2 DEF IInv, Bound
<1>5. \A i \in Ids : Serving(i)'  BY <1>1, <1>2 DEF IInv, Serving
<1>6. Batched'  BY <1>1, <1>2 DEF IInv, Batched, InMain
<1>7. QED  BY <1>2, <1>3, <1>4, <1>5, <1>6 DEF IInv

\* An event is taken; it is about a connection that is not being handled.
LEMMA Taken ==
  ASSUME IInv, NEW c \in Conns, Take(c), UNCHANGED <<cpu, mainAt>>
  PROVE  /\ Batched' /\ mem[c] = "live" /\ cpu = Main
         /\ batch' \subseteq batch /\ cur' = c /\ loop' = "wake"
         /\ UNCHANGED <<load, peer, unread, room, asked, mem, reg, got, left>>
<1> USE Typed
<1>1. PICK event \in batch : event[1] = c /\ batch' = batch \ {event}  BY DEF Take
<1>2. InMain /\ cur' = c /\ loop' = "wake"
      /\ UNCHANGED <<load, peer, unread, room, asked, mem, reg, got, left>>
  BY DEF Take, client
<1>3. mem[c] = "live" /\ \A e \in batch' : e[1] # c  BY <1>1 DEF IInv, Batched
<1>4. cpu = Main /\ cpu' = Main /\ InMain'  BY <1>2 DEF InMain
<1>5. Batched'  BY <1>1, <1>2, <1>3, <1>4 DEF IInv, Batched
<1>6. QED  BY <1>1, <1>2, <1>3, <1>4, <1>5

\* The coroutine that is created, if one is, was nobody's.
LEMMA FirstEventStep == ASSUME IInv, NEW c \in Conns, FirstEvent(c) PROVE IInv'
<1> USE Typed
<1>1. Take(c) /\ cid[c] = kInvalidRoutineId /\ InMain  BY DEF FirstEvent, Take
<1>2. CASE UNCHANGED <<schedule, cid, handler>>
  <2>1. ScheduleIInv' /\ UNCHANGED <<state, cpu, mainAt>>
    BY <1>2, NextIInv DEF schedule, account, machine
  <2>2. /\ Batched' /\ batch' \subseteq batch /\ cur' = c /\ loop' = "wake"
        /\ UNCHANGED <<load, peer, unread, room, asked, mem, reg, got, left, cid, owner, hpc>>
    BY <1>1, <1>2, <2>1, Taken DEF handler
  <2>3. TypeOK'  BY <2>1, <2>2 DEF IInv, TypeOK, ScheduleIInv
  <2>4. \A d \in Conns : Bound(d)'  BY <2>1, <2>2 DEF IInv, Bound
  <2>5. \A i \in Ids : Serving(i)'  BY <2>1, <2>2 DEF IInv, Serving
  <2>6. QED  BY <2>1, <2>2, <2>3, <2>4, <2>5 DEF IInv
<1>3. ASSUME NEW i \in Ids, CoroutineCreate(i), cid' = [cid EXCEPT ![c] = i],
             owner' = [owner EXCEPT ![i] = c], hpc' = [hpc EXCEPT ![i] = "read"]
      PROVE  IInv'
  <2>1. ScheduleIInv'  BY <1>1, <1>3, CreateIInv
  <2>2. /\ state[i] = "Idle" /\ state' = [state EXCEPT ![i] = "Ready"]
        /\ UNCHANGED <<cpu, mainAt>>
    BY <1>3 DEF CoroutineCreate, CoroutineInit
  <2>3. /\ Batched' /\ batch' \subseteq batch /\ cur' = c /\ loop' = "wake" /\ mem[c] = "live"
        /\ UNCHANGED <<load, peer, unread, room, asked, mem, reg, got, left>>
    BY <1>1, <2>2, Taken
  <2>4. /\ cid' \in [Conns -> Ids \cup {kInvalidRoutineId}] /\ owner' \in [Ids -> Conns \cup {None}]
        /\ hpc' \in [Ids -> {"none", "read", "mod", "write", "free"}]
    BY <1>3
  <2>5. TypeOK'  BY <2>1, <2>3, <2>4 DEF IInv, TypeOK, ScheduleIInv
  <2>6. ASSUME NEW d \in Conns PROVE Bound(d)'
    <3>1. CASE d = c  BY <1>1, <1>3, <2>2, <2>3, <3>1 DEF IInv, Bound
    <3>2. CASE d # c
      <4>1. Bound(d) /\ cid'[d] = cid[d]  BY <1>3, <3>2 DEF IInv
      <4>2. mem[d] = "live" /\ cid[d] # kInvalidRoutineId =>
              cid[d] \in Ids /\ cid[d] # i
        BY <2>2, <4>1 DEF Bound
      <4>3. QED  BY <1>3, <2>2, <2>3, <4>1, <4>2 DEF Bound
    <3>3. QED  BY <3>1, <3>2
  <2>7. ASSUME NEW j \in Ids PROVE Serving(j)'
    <3>1. CASE j = i
      <4>1. reg[c] = "in" /\ got[c] = 0  BY <1>1, <2>3 DEF IInv, Bound
      <4>2. QED  BY <1>3, <2>2, <2>3, <3>1, <4>1 DEF Serving
    <3>2. CASE j # i
      <4>1. state[j] # "Idle" => owner[j] \in Conns \ {c}  BY <1>1 DEF IInv, Serving
      <4>2. QED  BY <1>3, <2>2, <2>3, <3>2, <4>1 DEF IInv, Serving
    <3>3. QED  BY <3>1, <3>2
  <2>8. QED  BY <2>1, <2>3, <2>5, <2>6, <2>7 DEF IInv
<1>4. QED  BY <1>2, <1>3 DEF FirstEvent

\* A later event of the connection.
LEMMA NextEventStep == ASSUME IInv, NEW c \in Conns, NextEvent(c) PROVE IInv'
<1> USE Typed
<1>1. Take(c) /\ UNCHANGED <<schedule, cid, handler>>  BY DEF NextEvent
<1>2. ScheduleIInv' /\ UNCHANGED <<state, cpu, mainAt>>
  BY <1>1, NextIInv DEF schedule, account, machine
<1>3. /\ Batched' /\ batch' \subseteq batch /\ cur' = c /\ loop' = "wake"
      /\ UNCHANGED <<load, peer, unread, room, asked, mem, reg, got, left, cid, owner, hpc>>
  BY <1>1, <1>2, Taken DEF handler
<1>4. TypeOK'  BY <1>2, <1>3 DEF IInv, TypeOK, ScheduleIInv
<1>5. \A d \in Conns : Bound(d)'  BY <1>2, <1>3 DEF IInv, Bound
<1>6. \A i \in Ids : Serving(i)'  BY <1>2, <1>3 DEF IInv, Serving
<1>7. QED  BY <1>2, <1>3, <1>4, <1>5, <1>6 DEF IInv

\* The coroutine that is woken is that of the connection, and it can run.
LEMMA Wakeable ==
  ASSUME IInv, loop = "wake", cid[cur] # kInvalidRoutineId
  PROVE  /\ cur \in Conns /\ cid[cur] \in Ids /\ owner[cid[cur]] = cur
         /\ InMain /\ Runnable(cid[cur])
<1> USE Typed
<1>1. cur # None /\ InMain /\ mem[cur] = "live"  BY DEF IInv, Batched
<1>2. cur \in Conns /\ cid[cur] \in Ids  BY <1>1
<1>3. state[cid[cur]] # "Idle" /\ owner[cid[cur]] = cur  BY <1>1, <1>2 DEF IInv, Bound
<1>4. state[cid[cur]] # "Run"  BY <1>1, <1>2 DEF ScheduleIInv, Placed, InMain
<1>5. QED  BY <1>1, <1>2, <1>3, <1>4 DEF Runnable

\* The loop gives the processor to the coroutine, or aborts.
LEMMA WakeStep == ASSUME IInv, Wake \/ Abort PROVE IInv'
<1> USE Typed
<1>1. CASE Abort
  <2>1. /\ UNCHANGED schedule /\ loop = "wake" /\ loop' = "aborted"
        /\ UNCHANGED <<load, peer, unread, room, asked, mem, reg, got, left, cid, owner, hpc, batch, cur>>
    BY <1>1 DEF Abort, client, conn, handler
  <2>2. ScheduleIInv' /\ UNCHANGED <<state, cpu, mainAt>>
    BY <2>1, NextIInv DEF schedule, account, machine
  <2>3. TypeOK'  BY <2>1, <2>2 DEF IInv, TypeOK, ScheduleIInv
  <2>4. Batched'  BY <2>1, <2>2 DEF IInv, Batched, InMain
  <2>5. \A d \in Conns : Bound(d)'  BY <2>1, <2>2 DEF IInv, Bound
  <2>6. \A i \in Ids : Serving(i)'  BY <2>1, <2>2 DEF IInv, Serving
  <2>7. QED  BY <2>2, <2>3, <2>4, <2>5, <2>6 DEF IInv
<1>2. CASE Wake
  <2>1. PICK i \in Ids : i = cid[cur] /\ owner[i] = cur /\ InMain /\ Runnable(i)
    BY <1>2, Wakeable DEF Wake
  <2>2. /\ SwitchTo(i) /\ loop = "wake" /\ loop' = "events" /\ cur' = None
        /\ UNCHANGED <<load, peer, unread, room, asked, mem, reg, got, left, cid, owner, hpc, batch>>
    BY <1>2, <2>1 DEF Wake, Woken, CoroutineResumeById, client, conn, handler
  <2>3. ScheduleIInv'  BY <2>1, <2>2, SwitchIInv
  <2>4. state' = [state EXCEPT ![i] = "Run"] /\ cpu' = i /\ state[i] # "Idle"
    BY <2>1, <2>2 DEF SwitchTo, Runnable
  <2>5. TypeOK'  BY <2>2, <2>3 DEF IInv, TypeOK, ScheduleIInv
  <2>6. Batched'
    <3>1. \A event \in batch : event[1] # None => mem[event[1]] = "live" /\ event[1] # owner[i]
      BY <2>1 DEF IInv, Batched
    <3>2. QED  BY <2>2, <2>4, <3>1 DEF IInv, Batched
  <2>7. \A d \in Conns : Bound(d)'  BY <2>2, <2>4 DEF IInv, Bound
  <2>8. \A j \in Ids : Serving(j)'  BY <2>2, <2>4 DEF IInv, Serving
  <2>9. QED  BY <2>3, <2>5, <2>6, <2>7, <2>8 DEF IInv
<1>3. QED  BY <1>1, <1>2

\* A switch changes only where the contexts continue.
LEMMA SwitchStep == ASSUME IInv, Switch PROVE IInv'
<1> USE Typed
<1>1. /\ UNCHANGED <<load, peer, unread, room, asked, mem, reg, got, left, cid, owner, hpc>>
      /\ UNCHANGED <<batch, loop, cur>> /\ UNCHANGED <<state, cpu>>
  BY DEF Switch, ResumeReturn, Enter, server, client, conn, handler, reactor
<1>2. ScheduleIInv'  BY NextIInv DEF Switch, CoroutineNext
<1>3. ~InMain
  BY DEF Switch, ResumeReturn, Enter, InMain
<1>4. TypeOK'  BY <1>1, <1>2 DEF IInv, TypeOK, ScheduleIInv
<1>5. Batched'  BY <1>1, <1>3 DEF IInv, Batched
<1>6. \A d \in Conns : Bound(d)'  BY <1>1 DEF IInv, Bound
<1>7. \A i \in Ids : Serving(i)'  BY <1>1 DEF IInv, Serving
<1>8. QED  BY <1>2, <1>4, <1>5, <1>6, <1>7 DEF IInv
-----------------------------------------------------------------------------
(* handlerClient. *)

\* What a running handler knows.
LEMMA Running ==
  ASSUME IInv, NEW i \in Ids, InUser(i)
  PROVE  /\ cpu = i /\ runningCoroutineId = i /\ state[i] = "Run" /\ cpu # Main
         /\ owner[i] \in Conns /\ cid[owner[i]] = i /\ mem[owner[i]] = "live"
         /\ reg[owner[i]] # "none"
         /\ hpc[i] = "read" => reg[owner[i]] = "in" /\ got[owner[i]] < 2
         /\ hpc[i] = "write" => reg[owner[i]] = "out" /\ left[owner[i]] > 0
<1> USE Typed
<1>1. cpu = i /\ runningCoroutineId = i /\ state[i] = "Run"
  BY DEF InUser, ScheduleIInv, Placed, Recorded
<1>2. QED  BY <1>1 DEF IInv, Serving

\* A handler touches its own connection, of which there is no event, and nothing else.
LEMMA HandlerFrame ==
  ASSUME IInv, NEW i \in Ids, NEW c \in Conns, c = owner[i], InUser(i),
         cpu' \in {i, Main}, UNCHANGED <<cid, owner, batch, loop, cur>>,
         \A d \in Conns \ {c} : Same(d) /\ unread'[d] = unread[d],
         \A j \in Ids \ {i} : state'[j] = state[j] /\ hpc'[j] = hpc[j]
  PROVE  /\ Batched'
         /\ \A d \in Conns \ {c} : Bound(d)'
         /\ \A j \in Ids \ {i} : Serving(j)'
<1> USE Typed DEF Same
<1>1. cpu = i /\ cid[c] = i /\ i # Main  BY Running
<1>2. ~InMain /\ cur = None /\ loop \notin {"wake", "aborted"}
  BY <1>1 DEF InMain, IInv, Batched
<1>3. Batched'
  <2>1. \A event \in batch : event[1] # None => event[1] \in Conns \ {c} /\ mem[event[1]] = "live"
    BY <1>1 DEF IInv, Batched
  <2>2. QED  BY <1>1, <1>2, <2>1 DEF IInv, Batched
<1>4. ASSUME NEW d \in Conns \ {c} PROVE Bound(d)'
  <2>1. Bound(d)  BY DEF IInv
  <2>2. mem[d] = "live" /\ cid[d] # kInvalidRoutineId => cid[d] \in Ids \ {i}
    BY <2>1 DEF Bound
  <2>3. QED  BY <2>1, <2>2 DEF Bound
<1>5. ASSUME NEW j \in Ids \ {i} PROVE Serving(j)'
  <2>1. state[j] # "Idle" => owner[j] \in Conns \ {c}  BY <1>1 DEF IInv, Serving
  <2>2. QED  BY <2>1 DEF IInv, Serving
<1>6. QED  BY <1>3, <1>4, <1>5

\* The handler waits, and comes back to the same place.
LEMMA YieldStep == ASSUME IInv, NEW i \in Ids, ReadAgain(i) \/ WriteAgain(i) PROVE IInv'
<1> USE Typed
<1>1. PICK c \in Conns : c = owner[i]  BY Running DEF ReadAgain, WriteAgain, In
<1>2. /\ InUser(i) /\ hpc[i] \in {"read", "write"} /\ CoroutineYield(i)
      /\ UNCHANGED <<load, peer, unread, room, asked, mem, reg, got, left, cid, owner, hpc>>
      /\ UNCHANGED <<batch, loop, cur>>
  BY DEF ReadAgain, WriteAgain, In, server, client, conn, handler, reactor
<1>3. ScheduleIInv'  BY <1>2, LeaveIInv
<1>4. state' = [state EXCEPT ![i] = "Suspend"] /\ cpu' = Main /\ state[i] = "Run"
  BY <1>2, Running DEF CoroutineYield
<1>5. TypeOK'  BY <1>2, <1>3 DEF IInv, TypeOK, ScheduleIInv
<1>6. /\ Batched' /\ \A d \in Conns \ {c} : Bound(d)'
      /\ \A j \in Ids \ {i} : Serving(j)'
  BY <1>1, <1>2, <1>4, HandlerFrame DEF Same
<1>7. Bound(c)'  BY <1>2, <1>4 DEF IInv, Bound
<1>8. Serving(i)'  BY <1>2, <1>4 DEF IInv, Serving
<1>9. QED  BY <1>3, <1>5, <1>6, <1>7, <1>8 DEF IInv

\* The handler goes on, and what it changes is its own connection's.
LEMMA GoOn ==
  ASSUME IInv, NEW i \in Ids, InUser(i), UNCHANGED schedule,
         NEW place \in {"read", "mod", "write", "free"}, Goto(i, place)
  PROVE  /\ ScheduleIInv' /\ UNCHANGED <<state, cpu, mainAt, owner>>
         /\ hpc' \in [Ids -> {"none", "read", "mod", "write", "free"}] /\ hpc'[i] = place
         /\ \A j \in Ids \ {i} : hpc'[j] = hpc[j]
BY Typed, NextIInv DEF schedule, account, machine, Goto

\* read(), and the end of a request.
LEMMA ReadSomeStep == ASSUME IInv, NEW i \in Ids, ReadSome(i) PROVE IInv'
<1> USE Typed
<1>1. PICK c \in Conns : c = owner[i]  BY Running DEF ReadSome, In
<1>2. /\ InUser(i) /\ UNCHANGED schedule /\ hpc[i] = "read"
      /\ got' = [got EXCEPT ![c] = @ + unread[c]] /\ unread' = [unread EXCEPT ![c] = 0]
      /\ UNCHANGED <<load, peer, room, asked, mem, reg, left, cid, batch, loop, cur>>
  BY <1>1 DEF ReadSome, In, reactor
<1>3. PICK place \in {"read", "mod"} : Goto(i, place) /\ (place = "read" => got'[c] # 2)
  BY <1>1 DEF ReadSome
<1>4. /\ ScheduleIInv' /\ UNCHANGED <<state, cpu, mainAt, owner>>
      /\ hpc' \in [Ids -> {"none", "read", "mod", "write", "free"}] /\ hpc'[i] = place
      /\ \A j \in Ids \ {i} : hpc'[j] = hpc[j]
  BY <1>2, <1>3, GoOn
<1>5. /\ cpu = i /\ state[i] = "Run" /\ cid[c] = i /\ mem[c] = "live" /\ reg[c] = "in"
  BY <1>1, <1>2, Running
<1>6. /\ got' \in [Conns -> 0 .. 2] /\ unread' \in [Conns -> 0 .. 2]
      /\ got'[c] + unread'[c] <= 2 /\ (got'[c] # 2 => got'[c] < 2)
      /\ \A d \in Conns \ {c} : got'[d] = got[d] /\ unread'[d] = unread[d]
  <2>1. got[c] \in 0 .. 2 /\ unread[c] \in 0 .. 2 /\ got[c] + unread[c] <= 2  BY DEF IInv, Bound
  <2>2. got[c] + unread[c] \in 0 .. 2  BY <2>1
  <2>3. QED  BY <1>2, <2>2
<1>7. TypeOK'  BY <1>2, <1>4, <1>6 DEF IInv, TypeOK, ScheduleIInv
<1>8. /\ Batched' /\ \A d \in Conns \ {c} : Bound(d)'
      /\ \A j \in Ids \ {i} : Serving(j)'
  BY <1>1, <1>2, <1>4, <1>5, <1>6, HandlerFrame DEF Same
<1>9. Bound(c)'  BY <1>1, <1>2, <1>4, <1>5, <1>6 DEF Bound
<1>10. Serving(i)'  BY <1>1, <1>2, <1>3, <1>4, <1>5, <1>6 DEF Serving
<1>11. QED  BY <1>4, <1>7, <1>8, <1>9, <1>10 DEF IInv

\* The end of the stream, or an error, of read() or write().
LEMMA FailsStep == ASSUME IInv, NEW i \in Ids, ReadFails(i) \/ WriteFails(i) PROVE IInv'
<1> USE Typed
<1>1. PICK c \in Conns : c = owner[i]  BY Running DEF ReadFails, WriteFails, In
<1>2. /\ InUser(i) /\ UNCHANGED schedule /\ Goto(i, "free")
      /\ UNCHANGED <<load, peer, unread, room, asked, mem, reg, got, left, cid, batch, loop, cur>>
  BY DEF ReadFails, WriteFails, In, client, conn, reactor
<1>3. /\ ScheduleIInv' /\ UNCHANGED <<state, cpu, mainAt, owner>>
      /\ hpc' \in [Ids -> {"none", "read", "mod", "write", "free"}] /\ hpc'[i] = "free"
      /\ \A j \in Ids \ {i} : hpc'[j] = hpc[j]
  BY <1>2, GoOn
<1>4. cpu = i /\ state[i] = "Run"  BY <1>2, Running
<1>5. TypeOK'  BY <1>2, <1>3 DEF IInv, TypeOK, ScheduleIInv
<1>6. /\ Batched' /\ \A d \in Conns \ {c} : Bound(d)'
      /\ \A j \in Ids \ {i} : Serving(j)'
  BY <1>1, <1>2, <1>3, <1>4, HandlerFrame DEF Same
<1>7. Bound(c)'  BY <1>2, <1>3 DEF IInv, Bound
<1>8. Serving(i)'  BY <1>2, <1>3, <1>4 DEF IInv, Serving
<1>9. QED  BY <1>3, <1>5, <1>6, <1>7, <1>8 DEF IInv

\* The request is complete, and the reply is next.
LEMMA ModToWriteStep == ASSUME IInv, NEW i \in Ids, ModToWrite(i) PROVE IInv'
<1> USE Typed
<1>1. PICK c \in Conns : c = owner[i]  BY Running DEF ModToWrite, In
<1>2. /\ InUser(i) /\ UNCHANGED schedule /\ Goto(i, "write")
      /\ left' = [left EXCEPT ![c] = 2] /\ reg' = [reg EXCEPT ![c] = "out"]
      /\ UNCHANGED <<load, peer, unread, room, asked, mem, got, cid, batch, loop, cur>>
  BY <1>1 DEF ModToWrite, In, client, reactor
<1>3. /\ ScheduleIInv' /\ UNCHANGED <<state, cpu, mainAt, owner>>
      /\ hpc' \in [Ids -> {"none", "read", "mod", "write", "free"}] /\ hpc'[i] = "write"
      /\ \A j \in Ids \ {i} : hpc'[j] = hpc[j]
  BY <1>2, GoOn
<1>4. cpu = i /\ state[i] = "Run" /\ cid[c] = i /\ mem[c] = "live"  BY <1>1, <1>2, Running
<1>5. TypeOK'
  <2>1. left' \in [Conns -> 0 .. 2] /\ reg' \in [Conns -> {"none", "in", "out"}]  BY <1>2
  <2>2. QED  BY <1>2, <1>3, <2>1 DEF IInv, TypeOK, ScheduleIInv
<1>6. /\ Batched' /\ \A d \in Conns \ {c} : Bound(d)'
      /\ \A j \in Ids \ {i} : Serving(j)'
  BY <1>1, <1>2, <1>3, <1>4, HandlerFrame DEF Same
<1>7. Bound(c)'  BY <1>1, <1>2, <1>3, <1>4 DEF IInv, Bound
<1>8. Serving(i)'  BY <1>1, <1>2, <1>3, <1>4 DEF Serving
<1>9. QED  BY <1>3, <1>5, <1>6, <1>7, <1>8 DEF IInv

\* write(), and after the last half the next request.
LEMMA WriteSomeStep == ASSUME IInv, NEW i \in Ids, WriteSome(i) PROVE IInv'
<1> USE Typed
<1>1. PICK c \in Conns : c = owner[i]  BY Running DEF WriteSome, In
<1>2. /\ InUser(i) /\ UNCHANGED schedule /\ hpc[i] = "write" /\ room[c] > 0
      /\ left' = [left EXCEPT ![c] = @ - 1] /\ room' = [room EXCEPT ![c] = 0]
      /\ UNCHANGED <<load, peer, unread, asked, mem, cid, batch, loop, cur>>
  BY <1>1 DEF WriteSome, In, reactor
<1>3. PICK place \in {"read", "write"} :
        /\ Goto(i, place)
        /\ place = "write" => left[c] > 1 /\ UNCHANGED <<got, reg>>
        /\ place = "read" => got' = [got EXCEPT ![c] = 0] /\ reg' = [reg EXCEPT ![c] = "in"]
  BY <1>1 DEF WriteSome
<1>4. /\ ScheduleIInv' /\ UNCHANGED <<state, cpu, mainAt, owner>>
      /\ hpc' \in [Ids -> {"none", "read", "mod", "write", "free"}] /\ hpc'[i] = place
      /\ \A j \in Ids \ {i} : hpc'[j] = hpc[j]
  BY <1>2, <1>3, GoOn
<1>5. /\ cpu = i /\ state[i] = "Run" /\ cid[c] = i /\ mem[c] = "live"
      /\ reg[c] = "out" /\ left[c] > 0
  BY <1>1, <1>2, Running
<1>6. /\ left' \in [Conns -> 0 .. 2] /\ left'[c] = left[c] - 1
      /\ \A d \in Conns \ {c} : left'[d] = left[d]
  <2>1. left[c] \in 0 .. 2 /\ left[c] - 1 \in 0 .. 2  BY <1>5
  <2>2. QED  BY <1>2, <2>1
<1>7. /\ got' \in [Conns -> 0 .. 2] /\ reg' \in [Conns -> {"none", "in", "out"}]
      /\ \A d \in Conns \ {c} : got'[d] = got[d] /\ reg'[d] = reg[d]
      /\ IF place = "write" THEN got'[c] = got[c] /\ reg'[c] = "out"
         ELSE got'[c] = 0 /\ reg'[c] = "in"
  BY <1>3, <1>5
<1>8. TypeOK'
  <2>1. room' \in [Conns -> 0 .. 1]  BY <1>2 DEF IInv, TypeOK
  <2>2. QED  BY <1>2, <1>4, <1>6, <1>7, <2>1 DEF IInv, TypeOK, ScheduleIInv
<1>9. /\ Batched' /\ \A d \in Conns \ {c} : Bound(d)'
      /\ \A j \in Ids \ {i} : Serving(j)'
  BY <1>1, <1>2, <1>4, <1>5, <1>6, <1>7, HandlerFrame DEF Same
<1>10. Bound(c)'
  <2>1. got'[c] + unread[c] <= 2  BY <1>7 DEF IInv, Bound
  <2>2. QED  BY <1>1, <1>2, <1>4, <1>5, <2>1 DEF Bound
<1>11. Serving(i)'
  <2>1. left[c] \in 0 .. 2  OBVIOUS
  <2>2. place = "write" => left'[c] > 0  BY <1>3, <1>6, <2>1
  <2>3. QED  BY <1>1, <1>2, <1>4, <1>5, <1>7, <2>2 DEF Serving
<1>12. QED  BY <1>4, <1>8, <1>9, <1>10, <1>11 DEF IInv

\* releaseConn; the coroutine is idle and its connection is gone.
LEMMA ReleaseStep == ASSUME IInv, NEW i \in Ids, Release(i) PROVE IInv'
<1> USE Typed
<1>1. PICK c \in Conns : c = owner[i]  BY Running DEF Release, In
<1>2. /\ InUser(i) /\ Finish(i) /\ hpc' = [hpc EXCEPT ![i] = "none"] /\ owner' = owner
      /\ reg' = [reg EXCEPT ![c] = "none"] /\ mem' = [mem EXCEPT ![c] = "freed"]
      /\ UNCHANGED <<load, peer, unread, room, asked, got, left, cid, batch, loop, cur>>
  BY <1>1 DEF Release, In, Goto, client, reactor
<1>3. ScheduleIInv'  BY <1>2, LeaveIInv
<1>4. state' = [state EXCEPT ![i] = "Idle"] /\ cpu' = Main /\ cid[c] = i
  BY <1>1, <1>2, Running DEF Finish
<1>5. TypeOK'
  <2>1. /\ reg' \in [Conns -> {"none", "in", "out"}]
        /\ mem' \in [Conns -> {"new", "backlog", "live", "freed"}]
        /\ hpc' \in [Ids -> {"none", "read", "mod", "write", "free"}]
    BY <1>2
  <2>2. QED  BY <1>2, <1>3, <2>1 DEF IInv, TypeOK, ScheduleIInv
<1>6. /\ Batched' /\ \A d \in Conns \ {c} : Bound(d)'
      /\ \A j \in Ids \ {i} : Serving(j)'
  BY <1>1, <1>2, <1>4, HandlerFrame DEF Same
<1>7. Bound(c)'  BY <1>2, <1>4 DEF IInv, Bound
<1>8. Serving(i)'  BY <1>4 DEF Serving
<1>9. QED  BY <1>3, <1>5, <1>6, <1>7, <1>8 DEF IInv
-----------------------------------------------------------------------------
(* The invariant. *)

\* A step of anybody.
LEMMA StepIInv == IInv /\ [Next]_vars => IInv'
<1> SUFFICES ASSUME IInv, [Next]_vars PROVE IInv'  OBVIOUS
<1>1. CASE Client  BY <1>1, ClientStep
<1>2. CASE Process
  BY <1>2, EpollWaitStep, AcceptStep, WakeStep, SwitchStep, FirstEventStep, NextEventStep,
     ReadSomeStep, YieldStep, FailsStep, ModToWriteStep, WriteSomeStep, ReleaseStep DEF Process
<1>3. CASE UNCHANGED vars
  <2>1. /\ UNCHANGED schedule
        /\ UNCHANGED <<load, peer, unread, room, asked, mem, reg, got, left, cid, owner, hpc>>
        /\ UNCHANGED <<batch, loop, cur>>
    BY <1>3 DEF vars, server, client, conn, handler, reactor
  <2>2. ScheduleIInv' /\ UNCHANGED <<state, cpu, mainAt>>
    BY <2>1, NextIInv, Typed DEF schedule, account, machine
  <2>3. TypeOK'  BY <2>1, <2>2 DEF IInv, TypeOK, ScheduleIInv
  <2>4. Batched'  BY <2>1, <2>2 DEF IInv, Batched, InMain
  <2>5. \A d \in Conns : Bound(d)'  BY <2>1, <2>2 DEF IInv, Bound
  <2>6. \A i \in Ids : Serving(i)'  BY <2>1, <2>2 DEF IInv, Serving
  <2>7. QED  BY <2>2, <2>3, <2>4, <2>5, <2>6 DEF IInv
<1>4. QED  BY <1>1, <1>2, <1>3 DEF Next

\* IInv holds of a server with a pool of any size and any number of connections.
THEOREM Invariance == Spec => []IInv
<1>1. QED  BY InitIInv, StepIInv, PTL DEF Spec

\* The scheduler, the event loop and the handlers have the types of their fields.
THEOREM TypeCorrect == Spec => []TypeOK
<1>1. IInv => TypeOK  BY DEF IInv
<1>2. QED  BY <1>1, Invariance, PTL

\* No event wakes the handler of another client, and nothing that is to run refers
\* to a deleted EventData, although ids and coroutines are used again.
THEOREM CoroutinesAreOwn == Spec => []OwnCoroutine
<1>1. IInv => OwnCoroutine
  <2> SUFFICES ASSUME IInv PROVE OwnCoroutine  OBVIOUS
  <2>1. \A c \in Conns : mem[c] = "live" /\ cid[c] # kInvalidRoutineId =>
          state[cid[c]] # "Idle" /\ owner[cid[c]] = c
    BY DEF IInv, Bound
  <2>2. \A i \in Ids : state[i] # "Idle" =>
          cid[owner[i]] = i /\ mem[owner[i]] = "live" /\ reg[owner[i]] # "none"
    BY DEF IInv, Serving
  <2>3. QED  BY <2>1, <2>2 DEF IInv, Batched, OwnCoroutine
<1>2. QED  BY <1>1, Invariance, PTL

\* A suspended handler is registered for the event it waits for.
THEOREM SuspendedAreWoken == Spec => []SuspendedWaits
<1>1. IInv => SuspendedWaits
  <2> SUFFICES ASSUME IInv PROVE SuspendedWaits  OBVIOUS
  <2>1. ASSUME NEW i \in Ids, state[i] = "Suspend"
        PROVE  \/ hpc[i] = "read" /\ reg[owner[i]] = "in" /\ got[owner[i]] < 2
               \/ hpc[i] = "write" /\ reg[owner[i]] = "out" /\ left[owner[i]] > 0
    BY <2>1 DEF IInv, Serving
  <2>2. QED  BY <2>1 DEF IInv, Bound, SuspendedWaits
<1>2. QED  BY <1>1, Invariance, PTL

\* The result of CoroutineResumeById may be ignored: the coroutine of a connection
\* with an event can always run, so NotRunnable is never returned.
THEOREM NeverNotRunnable ==
  Spec => [](loop = "wake" /\ cid[cur] # kInvalidRoutineId => Runnable(cid[cur]))
<1>1. IInv => (loop = "wake" /\ cid[cur] # kInvalidRoutineId => Runnable(cid[cur]))
  BY Wakeable
<1>2. QED  BY <1>1, Invariance, PTL

\* The server is a legal user of the scheduler: what is proved of every program
\* that uses it holds here.
THEOREM UsesScheduler == Spec => CoroutineSpec
<1>1. Init => ScheduleInit  BY DEF Init
<1>2. IInv /\ [Next]_vars => [CoroutineNext]_schedule
  <2> SUFFICES ASSUME IInv, [Next]_vars PROVE [CoroutineNext]_schedule  OBVIOUS
  <2>1. CASE Client
    BY <2>1 DEF Client, Connect, ClientSend, ClientRecv, ClientClose
  <2>2. CASE EpollWait \/ EndOfBatch \/ Accept \/ Abort
    BY <2>2 DEF EpollWait, EndOfBatch, Accept, Abort
  <2>3. CASE Wake
    <3>1. cid[cur] \in Ids  BY <2>3, Wakeable DEF Wake
    <3>2. QED  BY <2>3, <3>1 DEF Wake, CoroutineNext
  <2>4. CASE Switch  BY <2>4 DEF Switch, CoroutineNext
  <2>5. ASSUME NEW c \in Conns, FirstEvent(c) \/ NextEvent(c) PROVE [CoroutineNext]_schedule
    BY <2>5 DEF FirstEvent, NextEvent, Take, CoroutineNext
  <2>6. ASSUME NEW i \in Ids,
               \/ ReadSome(i) \/ ReadFails(i) \/ ModToWrite(i) \/ WriteSome(i) \/ WriteFails(i)
        PROVE  UNCHANGED schedule
    BY <2>6 DEF ReadSome, ReadFails, ModToWrite, WriteSome, WriteFails
  <2>7. ASSUME NEW i \in Ids, ReadAgain(i) \/ WriteAgain(i) \/ Release(i)
        PROVE  CoroutineNext
    BY <2>7 DEF ReadAgain, WriteAgain, Release, CoroutineNext
  <2>8. CASE UNCHANGED vars  BY <2>8 DEF vars
  <2>9. QED  BY <2>1, <2>2, <2>3, <2>4, <2>5, <2>6, <2>7, <2>8 DEF Next, Process
<1>3. QED  BY <1>1, <1>2, Invariance, PTL DEF Spec, CoroutineSpec
=============================================================================
