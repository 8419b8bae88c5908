----------------------------- MODULE Coroutine -----------------------------
(***************************************************************************)
(* The coroutine scheduler of coroutine.h and coroutine.cpp: a pool of     *)
(* coroutines in one thread, each with its own stack, and the main         *)
(* coroutine that resumes them.  The program that uses it makes any legal  *)
(* sequence of calls.                                                      *)
(*                                                                         *)
(* Who really has the processor (cpu) and where every context continues    *)
(* (at) are the machine's business, makecontext and swapcontext; the       *)
(* scheduler keeps its own account of it in state, runningCoroutineId and  *)
(* isMasterCoroutine, and corrects it on both sides of a switch.           *)
(***************************************************************************)
EXTENDS Integers, FiniteSets

CONSTANTS
  coroutineCnt,  \* the size of the pool
  MaxStacks      \* bound on the stacks the program ever allocates

ASSUME CoroutineAssumption ==
  /\ coroutineCnt \in Nat \ {0}
  /\ MaxStacks \in Nat

kInvalidRoutineId == -1
Ids    == 0 .. coroutineCnt - 1
Main   == kInvalidRoutineId  \* as a value of cpu
Stacks == 1 .. MaxStacks
NoStack == 0

VARIABLES
  state,               \* state[i]: "Idle", "Ready", "Run", "Suspend"
  runningCoroutineId,
  isMasterCoroutine,
  stack,               \* stack[i]: the block coroutine i has, or NoStack (nullptr)
  heap,                \* the blocks that are allocated
  cpu,                 \* the coroutine that is executing, or Main
  at,                  \* at[i]: where it is: "none", "start" (of CoroutineRun),
                       \* "user" (in its entry function), "yielded"
  mainAt               \* where the main coroutine is: "user", "resumed", "cleaned"

account  == <<state, runningCoroutineId, isMasterCoroutine>>
memory   == <<stack, heap>>
machine  == <<cpu, at, mainAt>>
schedule == <<account, memory, machine>>

ScheduleInit ==
  /\ state = [i \in Ids |-> "Idle"]
  /\ runningCoroutineId = kInvalidRoutineId
  /\ isMasterCoroutine = TRUE
  /\ stack = [i \in Ids |-> NoStack] /\ heap = {}
  /\ cpu = Main /\ at = [i \in Ids |-> "none"] /\ mainAt = "user"
-----------------------------------------------------------------------------
InMain    == cpu = Main /\ mainAt = "user"
InUser(i) == cpu = i /\ at[i] = "user"
Runnable(i) == state[i] \in {"Ready", "Suspend"}

\* Mutant: every coroutine gets the same stack.
CoroutineInitShared(i) ==
  /\ state' = [state EXCEPT ![i] = "Ready"]
  /\ MaxStacks > 0
  /\ stack' = [stack EXCEPT ![i] = 1] /\ heap' = {1}
  /\ at' = [at EXCEPT ![i] = "start"]

\* A new stack for every use of a coroutine; the one it had is not freed.
CoroutineInit(i) ==
  /\ state' = [state EXCEPT ![i] = "Ready"]
  /\ \E s \in Stacks \ heap :
       /\ stack' = [stack EXCEPT ![i] = s]
       /\ heap' = heap \cup {s}
  /\ at' = [at EXCEPT ![i] = "start"]

\* The first idle coroutine.  When there is none the result is
\* kInvalidRoutineId and nothing changes.
CoroutineCreate(i) ==
  /\ state[i] = "Idle" /\ \A j \in Ids : j < i => state[j] # "Idle"
  /\ CoroutineInit(i)
  /\ UNCHANGED <<runningCoroutineId, isMasterCoroutine, cpu, mainAt>>

Exhausted == \A i \in Ids : state[i] # "Idle"

\* Mutant: ids counted from one.
SwitchToOneBased(i) ==
  /\ state' = [state EXCEPT ![i] = "Run"]
  /\ runningCoroutineId' = i + 1
  /\ cpu' = i
  /\ UNCHANGED <<isMasterCoroutine, memory, at, mainAt>>

\* swapcontext from the main coroutine to coroutine i.
SwitchTo(i) ==
  /\ state' = [state EXCEPT ![i] = "Run"]
  /\ runningCoroutineId' = i
  /\ cpu' = i
  /\ UNCHANGED <<isMasterCoroutine, memory, at, mainAt>>

CoroutineResumeById(i) == InMain /\ Runnable(i) /\ SwitchTo(i)

\* All priorities are 0, so the first runnable coroutine is taken.
CoroutineResume ==
  /\ InMain
  /\ \E i \in Ids : Runnable(i) /\ (\A j \in Ids : j < i => ~Runnable(j)) /\ SwitchTo(i)

\* Mutant: only the first entry is noted.
EnterStart(i) ==
  /\ cpu = i /\ at[i] \in {"start", "yielded"}
  /\ isMasterCoroutine' = IF at[i] = "start" THEN FALSE ELSE isMasterCoroutine
  /\ at' = [at EXCEPT ![i] = "user"]
  /\ UNCHANGED <<state, runningCoroutineId, memory, cpu, mainAt>>

\* CoroutineRun, and what follows swapcontext in CoroutineYield, once the
\* processor is there.
Enter(i) ==
  /\ cpu = i /\ at[i] \in {"start", "yielded"}
  /\ isMasterCoroutine' = FALSE
  /\ at' = [at EXCEPT ![i] = "user"]
  /\ UNCHANGED <<state, runningCoroutineId, memory, cpu, mainAt>>

CoroutineYield(i) ==
  /\ InUser(i)
  /\ state' = [state EXCEPT ![runningCoroutineId] = "Suspend"]
  /\ at' = [at EXCEPT ![runningCoroutineId] = "yielded"]
  /\ cpu' = Main /\ mainAt' = "resumed"
  /\ UNCHANGED <<runningCoroutineId, isMasterCoroutine, memory>>

\* The entry function returns, and uc_link leads back to the main coroutine.
Finish(i) ==
  /\ InUser(i)
  /\ state' = [state EXCEPT ![i] = "Idle"]
  /\ runningCoroutineId' = kInvalidRoutineId
  /\ at' = [at EXCEPT ![i] = "none"]
  /\ cpu' = Main /\ mainAt' = "resumed"
  /\ UNCHANGED <<isMasterCoroutine, memory>>

\* What follows swapcontext in CoroutineResume and CoroutineResumeById.
ResumeReturn ==
  /\ cpu = Main /\ mainAt = "resumed"
  /\ isMasterCoroutine' = TRUE
  /\ mainAt' = "user"
  /\ UNCHANGED <<state, runningCoroutineId, memory, cpu, at>>

ScheduleClean ==
  /\ InMain
  /\ heap' = heap \ {stack[i] : i \in Ids}
  /\ mainAt' = "cleaned"
  /\ UNCHANGED <<account, stack, cpu, at>>

ScheduleRunning ==
  runningCoroutineId # kInvalidRoutineId \/ \E i \in Ids : state[i] # "Idle"
-----------------------------------------------------------------------------
\* Coroutines are created by the main coroutine and by others.
CoroutineNext ==
  \/ CoroutineResume \/ ResumeReturn \/ ScheduleClean
  \/ \E i \in Ids :
       \/ CoroutineCreate(i) /\ (InMain \/ \E j \in Ids : InUser(j))
       \/ CoroutineResumeById(i) \/ Enter(i) \/ CoroutineYield(i) \/ Finish(i)

CoroutineSpec == ScheduleInit /\ [][CoroutineNext]_schedule
-----------------------------------------------------------------------------
(* Properties. *)

\* The types of struct Schedule and struct Coroutine.
ScheduleTypeOK ==
  /\ state \in [Ids -> {"Idle", "Ready", "Run", "Suspend"}]
  /\ runningCoroutineId \in Ids \cup {kInvalidRoutineId}
  /\ isMasterCoroutine \in BOOLEAN
  /\ stack \in [Ids -> Stacks \cup {NoStack}] /\ heap \subseteq Stacks
  /\ cpu \in Ids \cup {Main}
  /\ at \in [Ids -> {"none", "start", "user", "yielded"}]
  /\ mainAt \in {"user", "resumed", "cleaned"}

\* The loop of the tests, resume while ScheduleRunning, never finds nothing to
\* resume: runningCoroutineId keeps the id of a suspended coroutine, and must
\* not keep that of a finished one.
RunningMeansRunnable ==
  InMain => (ScheduleRunning <=> \E i \in Ids : Runnable(i))

\* Whenever a function of the program runs, the scheduler's account is right:
\* its assertions hold, and CoroutineYield and CoroutineRun, which look up
\* runningCoroutineId, find the coroutine that called them.  ScheduleRunning
\* says whether there is a coroutine to resume.
Accounted ==
  /\ InMain => isMasterCoroutine /\ \A i \in Ids : state[i] # "Run"
  /\ \A i \in Ids : cpu = i =>
       /\ runningCoroutineId = i
       /\ \A j \in Ids : state[j] = "Run" <=> j = i
       /\ InUser(i) => ~isMasterCoroutine
  /\ RunningMeansRunnable

\* Every coroutine that has begun, or may, has a stack of its own.
OwnStack ==
  mainAt # "cleaned" =>
    \A i, j \in Ids : state[i] # "Idle" =>
      stack[i] \in heap /\ (i # j => stack[i] # stack[j])

\* The transitions the comment on State allows.
StateMoves ==
  {<<"Idle", "Ready">>, <<"Ready", "Run">>, <<"Run", "Suspend">>,
   <<"Suspend", "Run">>, <<"Run", "Idle">>}
StateTransitions ==
  [][\A i \in Ids : state'[i] # state[i] => <<state[i], state'[i]>> \in StateMoves]_schedule
-----------------------------------------------------------------------------
(* The inductive invariant. *)

\* Where a context continues agrees with the state of its coroutine.
Placed ==
  \A i \in Ids :
    /\ state[i] = "Idle" <=> at[i] = "none"
    /\ state[i] = "Ready" => at[i] = "start"
    /\ state[i] = "Suspend" => at[i] = "yielded"
    /\ state[i] = "Run" <=> cpu = i
    /\ at[i] = "user" => cpu = i

Recorded ==
  /\ \A i \in Ids : cpu = i => runningCoroutineId = i /\ mainAt = "user"
  /\ \A i \in Ids : InUser(i) => ~isMasterCoroutine
  /\ InMain => isMasterCoroutine
  /\ runningCoroutineId # kInvalidRoutineId => state[runningCoroutineId] # "Idle"

\* A stack belongs to one coroutine, also after it has finished.
Stacked ==
  mainAt # "cleaned" =>
    /\ \A i \in Ids : state[i] # "Idle" => stack[i] # NoStack
    /\ \A i \in Ids : stack[i] # NoStack => stack[i] \in heap
    /\ \A i, j \in Ids : i # j /\ stack[i] # NoStack => stack[i] # stack[j]

ScheduleIInv == ScheduleTypeOK /\ Placed /\ Recorded /\ Stacked
=============================================================================
