# A formal model of TinyEchoServer

TinyEchoServer is one echo service written some twenty ways: blocking, with a
process or a thread for each connection, with select, poll and epoll, as single
and multiple reactors, half-sync half-async, and with coroutines; and a
benchmark client to compare them. The protocol is the same everywhere: a head
of four bytes holds the length of a body, and the server sends the body back.

The programs are small, and what can go wrong in them is not in any single
function. It is in what happens between two of them: between `read()` and the
next `epoll_ctl`, between a pointer put into a queue and a `delete`, between
`swapcontext` and the fields it was called with, between a partial write and the
event that should bring the rest. That is what these modules are about.

## The parts of the system

| part | state it keeps | operations | what is hard | what makes it correct |
|---|---|---|---|---|
| framing: `codec.hpp`, `packet.hpp`, `conn.hpp` | buffer with three lengths, decode state, reply being sent | `Read`, `DeCode`, `ReAlloc`, `GetMessage`, `EnCode`, `Write`, `Reset` | a stream cut anywhere, a buffer that grows under the decoder, lengths in `uint32_t` | replies are the requests in order; the lengths never cross; nothing of the next request is swallowed |
| `EpollReactorThreadPoolHSHA` | epoll per I/O thread, one queue, a `Conn` per client that no lock protects | I/O handlers, `pushInQueue`, `getQueueData`, worker in two modes | two threads and one `Conn`, `EPOLLONESHOT`, condition variable, `delete` while others run | one thread at a time has a connection; none is forgotten; no wakeup is lost |
| coroutine scheduler: `coroutine.h/.cpp` | state, stack and context of every coroutine; who runs | `CoroutineCreate`, `Resume`, `ResumeById`, `Yield`, `ScheduleRunning`, `ScheduleClean` | a call that returns in another call; fields corrected on both sides of a switch; stacks used again | the scheduler's account of who runs is right on both sides |
| coroutine servers | `EventData` with the id of its coroutine | event loop, `handlerClient` | ids used again while events are pending; a handler suspended in the middle | an event wakes the handler of its own connection |
| single-loop epoll reactors: `EpollReactorSingleProcess`, `...ET`, `EpollReactorThreadPool` | registration and progress of every connection | handler with `-multiio`, `-la`, `-writefirst`, level and edge triggered | an edge that comes while its connection is handled | the loop never goes to sleep on a connection that could go on |
| main and sub reactors: `EpollReactorThreadPoolMS`, `EpollReactorProcessPoolMS` | who has a connection; who has a copy of its descriptor | accept, hand-over (`addToSubReactor`, `SendFd`/`RecvFd`), `-mainread` | a connection in two epolls, a descriptor in flight, a registration that outlives its descriptor | one reactor at a time; nothing is lost on the way; the descriptor is closed in the end |
| benchmark client: `BenchMark/` | state machine of every client, timers, rate limit, counts | `Deal`, `Connect`, `IsValid`, `TryRestart`, three timer callbacks | timers, events and replacement of clients in one loop | clients are never forgotten, the rate limit holds, the run ends |
| `PollReactorSingleProcess`, `SelectReactorSingleProcess` | map of connections, `read_fds`, `write_fds` | scan, handler | client sockets that block; sets changed while a copy is scanned; descriptors `select` cannot take | the loop waits for a client only in the middle of a request or a reply; no event is stale |
| `SingleProcess`, `MultiProcess`, `MultiThread`, `ProcessPool1/2`, `ThreadPool`, `LeaderAndFollower` | a connection per process or thread, a mutex, tables of descriptors | accept, fork, serve, close | `fork`, `accept` or a new thread fails; zombies; copies of descriptors | one task serves a connection; nobody waits while a task that can accept it is free; what is over is closed |
| `Epoll`, `Poll`, `Select` | a set of descriptors | wait, then serve one client to its end | blocking I/O after one event | the same |
| command line: `cmdline.h/.cpp` | the options declared, their values | `BoolOpt` ..., `Parse` | values that look like options; the end of `argv` | what is parsed is what the words mean |
| epoll wrappers, helpers: `epollctl.hpp`, `common.hpp` | none | `ModToReadEvent` ..., `SendFd`, `RecvMsg` ... | their assertions | part of the actions that call them |
| `stat.hpp`, `percentile.hpp`, tests | totals | sums | none between steps | not modelled |

How they interact: every server but those that serve with `RecvMsg` and `SendMsg` is an event loop around
`Conn` (or, with coroutines, around a `Codec` on the coroutine's stack). The
coroutine servers run on the scheduler. Threads share memory only in HSHA (the
queue and the `Conn`s) and in the main and sub reactors as threads (the epoll
instances and the table of descriptors); processes share listening sockets and
pass descriptors over unix sockets. `EpollReactorThreadPool`,
`EpollReactorProcessPoolCoroutine` and the benchmark's threads share nothing
that matters, so one thread or process stands for all of them.

## The modules

| module | models | abstract specification | proofs |
|---|---|---|---|
| `EchoConn` | framing and `Conn`, byte by byte | `Echo` | `EchoConnProofs` |
| `HSHA` | `EpollReactorThreadPoolHSHA` | | `HSHAProofs` |
| `Coroutine` | the scheduler | | `CoroutineProofs` |
| `CoroutineServer` | the coroutine servers; extends `Coroutine` and composes it with the loop and the handlers | | `CoroutineProofs` |
| `Reactor` | the single-loop epoll reactors, and the poll and select reactors | | `ReactorProofs` |
| `MainSub` | main and sub reactors, threads and processes | `Handoff` | `MainSubProofs` |
| `Benchmark` | one thread of the benchmark | | `BenchmarkProofs` |
| `BlockingServer` | the seven blocking servers and `Epoll`, `Poll`, `Select` | | `BlockingServerProofs` |
| `CmdLine` | declaring and parsing options | a declarative reading of `argv`, in `ParsedRight` | `CmdLineProofs` |

`MC...` modules give the constants that are not plain numbers their values for
TLC; a `.cfg` per run does the rest.

**Options are variables that never change.** One module models several programs
or command lines where they differ in a few statements. `options` (in `EchoConn`
`usage`, in `Benchmark` `faults`) is a set of flags chosen in `Init` from a
constant. So one run checks all of them, and a theorem is about all of them.

**Data.** In `EchoConn` bytes are offsets in the stream the client writes: what
the buffer holds is an interval, and a message is a slice. All other modules
take the framing for granted, as `EchoConn` shows it, and let two halves stand
for the bytes of a request or reply: one half is what a partial read or write
transfers. A send buffer holds one half, so that `EAGAIN` happens.

**Steps.** A step ends where another thread, process or client could look: at an
epoll call, a queue operation, `close`, `delete`, `read`, `write`. Kernel
objects (sockets, epoll, unix sockets) are modelled from how the code uses them.
`epoll_wait` of a level triggered epoll reports everything that is ready; clients
act between any two steps.

### EchoConn
`ReadSome(n)` is `Conn::Read` with any count `read()` may return, `DecodeHead`
and `DecodeBody` are the two branches of the loop in `DeCode`, `DeCodeReturn` its
end, `Reply` is `EnCode` and the switch to writing, `WriteSome(n)` is
`Conn::Write`, and `Reset` is `FinishWrite`. The variables are the fields: `cap`,
`use`, `parse` are `len_`, `use_len_`, `parse_len_`; `status` and `bodyLen` are
those of `Codec`. `4 + body_len_` is computed modulo `Wrap`. The flag `reuse`
says that the `Codec` and its buffer are kept (`Conn`); without it a new one is
made for every message (`RecvMsg`, `handlerClient` of the coroutine servers).
The flag `pipelined` says that the client sends ahead.

### HSHA
I/O threads and workers are two families of processes. `reg` is the registration
of a connection: armed one-shot, reported and disarmed, level triggered
`EPOLLOUT`, or none. `batch` holds what `epoll_wait` reported and the thread has
not yet come to, which is where a stale pointer would live. `queue` is `Queue`;
`"get"` and `"asleep"` are a worker before and in `cond_.wait`. Flag `direct` is
`-direct`.

### Coroutine and CoroutineServer
`cpu` says whose context runs, `at` where a context continues: a step is what
runs from one switch to the next, so `SwitchTo`, `Enter`, `CoroutineYield`,
`Finish` and `ResumeReturn` are the two sides of `swapcontext` in the order they
run. In `Coroutine` the program that calls is arbitrary. In `CoroutineServer` it
is the event loop and `handlerClient`, whose position in coroutine `i` is
`hpc[i]`.

### Reactor
`edge[c]` records that something happened since `c` was last reported; with
flag `et` an event is reported only then, or when `epoll_ctl` finds it. Flags
`multiio`, `la`, `writefirst` are the options of the same name. `"one"` is
`OneMessage`, `"finish"` is `FinishWrite`.

Flag `poll` stands for the poll and select reactors. `reg` is then membership in
`read_fds` or `write_fds`; `PollWait` takes what is ready (`Polled`) into `batch`,
which is the array of `pollfd`, or the two copies a select reactor scans, and
`Scan` visits the readable ones first. What is reported ready is: that `poll` or
`select` may be wrong about it is not modelled. Nobody calls
`SetNotBlock` on a client, so `Conn::Read` and `Conn::Write`, which go on until the
message is complete, wait where a reactor with epoll sees `EAGAIN`: `ReadAgain`,
`WriteAgain` are disabled, and with them the whole loop. Flag `few` is `select`
with one descriptor left below `FD_SETSIZE`: `AcceptBelow` closes the others.

### MainSub
With flag `threads` all reactors share one table of descriptors and a main
reactor registers a connection in the epoll of a sub reactor. Without it every
process has a table of its own (`tables`), a descriptor travels in `pipe`, and a
registration in an epoll lives as long as anybody has a copy of the descriptor:
that is why the main reactor must `EPOLL_CTL_DEL` before it closes. `mem[e][c]`
is the `Conn` of `c` made for reactor `e`. Flag `mainread` is `-mainread`. With
flag `toomany` the system is out of descriptors on their way, and `sendmsg` may
fail: nobody looks at the result, so the main reactor closes the connection
(`SendFdFails`), which `Handoff` allows only there. The number of sub reactors and
the main reactor that gets a connection belong to the deployment, chosen in `Init`.

### Benchmark
`GetLastTimer`, `EpollWait`, the handling of the batch and `Timer::Run` are the
loop in `handler`. `Deal` dispatches on the status as the function does. The
three timer callbacks are `ThreadExit`, `Refresh`, `Check`. Time is counted in
periods of the check. A client's three time stamps are not kept: at any check, a
client that waits may be found to have waited too long. Faults: `eintr`, an
interrupted `epoll_wait`; `mismatch`, a server that returns another message.

### BlockingServer
A task is a process or thread, `Main` the one that starts the program. `pc` says
where its loop is: `"lock"` (LeaderAndFollower), `"accept"`, `"spawn"` (`fork` or
`std::thread`), `"serve"` (`handlerClient`), `"close"`, `"exit"`, and for the three
programs that wait first `"wait"` and `"events"`. `tables[c]` holds the tables with
a descriptor of `c`: with flag `processes` one per task, copied by `Spawn` and given
up by `Close` and `Exit`. `home[c]` is the listening socket that gets `c`, one for
all or, with `reuseport`, one per task. What can fail does: `fork` when all of
`Pool` are in use (`ForkFails`), a thread (`ThreadFails`: the exception of
`std::thread` ends the process), `accept` when descriptors run out (flag `few`;
`AcceptFails` in LeaderAndFollower gives the mutex back, elsewhere the loop
changes nothing), and at the start any part of a pool, but not all of it.

### CmdLine
One step declares an option or parses one. A word of `argv` is cut by the table
`Lex` into dashes, name and argument, so that the order of the tests in `ParseOpt`
is kept and its handling of characters is not. `opts[name]` is the `Opt` with that
name, and its `value` stands for the variable of the program. `exit` is what the process
ends with, `"crash"` where the message for bad syntax may read what is no string;
`opt_len` in `Lex` is kept for that. `SetOptCheck` is the error a program makes in its own declarations.

## What the runs show

Every passing run finishes within four minutes on two workers, most within one.

| run | instance | shows |
|---|---|---|
| `conn` | 3 requests, bodies of 0, 1, 3, 6 bytes, head of 2, `uint32_t` of 8 values; `{}`, `reuse`, `pipelined` | the properties of `EchoConn`, termination of `DeCode`, and the refinement of `Echo` |
| `conn_pipelined_reused` | the same, `reuse` and `pipelined` together | `DeCode` does not return: finding 1 |
| `hsha` | 2 I/O threads, 2 workers, 2 connections, one client that does not read; with and without `-direct` | exclusion, memory safety, no stranded connection, no lost wakeup, every request of the other client answered |
| `coroutine` | 3 coroutines, 4 stacks | the account of the scheduler, and stacks |
| `server` | 2 connections with 2 requests, or 3 with 1, 2 coroutines, one client that does not read | events wake the right handler, suspended handlers are registered for what they wait for, the other clients are served |
| `server_exhausted` | 3 connections, 2 coroutines | the process aborts: finding 2 |
| `reactor` | 2 connections, one client that does not read (for a server that blocks, all read), 7 programs and command lines | no event lost, no stale event, the loop blocks only in the middle of a request or a reply, every request read and answered |
| `ms` | 2 connections; 1 main and 1 sub reactor, 1 and 2, or 2 and 1; threads and processes, with and without `-mainread`, and with a `SendFd` that may fail: 7 deployments | one reactor at a time, epoll calls succeed, refinement of `Handoff`, every request answered or the client told, released connections closed for the client |
| `bench` | 2 clients, rate limit 1, 2 requests each, run of 2 periods, one fault or none | registrations, no event for a replaced client, rate limit, timers, the end of the run |
| `blocking` | 3 connections, a pool of 2, 10 programs, two of them also with one descriptor left | one task per connection and no descriptor kept; nobody waits while a task that has its listening socket is free; all is closed in the end |
| `cmdline` | up to 4 words of 9, 5 sets of declarations, with and without `SetUsage` | the parse agrees with the declarative reading |
| `bench_mismatch` | the same with 1 request | an assertion fails: finding 3 |

**Bounds, and why they are enough.** Two connections are the least at which one
can be slow, close, or be served while another waits, and no code treats three
differently from two: connections meet only in a batch of events, the queue, the
round robin, the pool of coroutines and the rate limit. Two threads of each kind
are the least at which two can meet on one connection, and one sleep while the
other works. `EchoConn` has a head that can be cut in two, a body longer than
the buffer the last request left, an empty body, and a length that wraps. With
two halves every partial read and write happens. `MaxInFlight = 1` makes a
`SendFd` wait. Three connections in `BlockingServer` are one more than the pool.
Four words in `CmdLine` are two required options with their arguments apart, or
one of them twice. `Loads` in `CoroutineServer` bounds the
connections and the requests of all clients: two with two requests, or three,
for which the coroutines may not suffice, with one; `MaxUnread` in `Reactor` bounds
what a client has sent ahead, in halves, and 3 is the least that leaves bytes in
the socket after a complete request. `MaxStacks` bounds the stacks ever
allocated. `run_time` ends the clock of `Benchmark`. The limits of 2048 accepts
and events in the code are taken for unlimited. The proofs are about all values
of these constants.

Deadlock is not checked where a run really may stop: a connection that is closed,
clients that have gone or never send again, a program that has ended.

**Fairness.** Every thread or process of a server keeps running (weak fairness of
its next step, whichever it is): the scheduler of the operating system gives
this, and nothing is assumed of the order in which threads run or of who gets a
mutex or a notification. Clients are not obliged to send or to close. Those that
are not in `Slow` read what has been sent to them, which the promise of an answer
needs; in `EchoConn`, `HSHA` and `MainSub` this is in the fairness of the server's
write. A poll or select reactor stops when a client stops in the middle, as its
blocking sockets imply; `FairSpec` of `Reactor` therefore lets every client of such
a server read, and finish the request it has begun (`Midway`), and nothing more:
whether it begins another is its own choice, and `BlocksMidway` says that the loop
never waits for that. A blocking server serves a client to its end, so `Accepted`
of `BlockingServer` promises a free task only, one that has the listening socket
the connection came to: with `reuseport` (`ProcessPool2`) a connection may wait for
a busy task while others are free. `Finished` assumes, in the property itself, that
clients come to an end. In `Benchmark` time goes on, and nothing is assumed of the
server. `Served` is stated for clients outside `Slow`. With bounded requests a client cannot keep
`handlerClient` from yielding for ever; one that always has another request ready
can, and that is listed as a hazard no property covers.

**Mutants.** Definitions called a mutant in a comment (`ReadNoRestart`,
`PushBackNot`, ...) are the model of a plausible mistake in the function whose
definition follows. No specification uses them. For each property of each
passing run one of them, put in the place of the real definition, makes TLC find
the property violated.

## What is proved

The proofs hold for every value of the constants, under the assumption of the
module that declares them. The inductive invariants imply the type invariants;
the runs leave them out, as they leave out `NoOverRead` and `HeldIsDisarmed`,
which are steps on the way to what the runs do check. When a model is changed,
add them to its configuration before repairing the proofs.

**EchoConn** (`EchoConnProofs`). `IInv` is inductive. Besides types it says: the
requests lie on the stream one after the other (`Contiguous`); the buffer begins
at the head of the request being served and does not reach beyond its end
(`Framed`); the decode state agrees with the lengths (`Decoded`); the message is
the body of that request (`Taken`). What makes it inductive is `Bounded`, the
reason why a read stops at the end of the request: a new `Codec` has no more
room than the request needs, and a client that waits has not sent more. From it
follow `BufferSafe`, `EchoInOrder`, `NoOverRead`, and step by step the
refinement of `Echo` (`Refinement`). The assumption `OneAtATime` excludes a kept
`Codec` together with a client that sends ahead: there the claim is false, as
`conn_pipelined_reused` shows.

**HSHA** (`HSHAProofs`). `EPOLLONESHOT` gives exclusion only together with what
every handler does, so the invariant is about places: each connection is at
exactly one of six (`OnePlace`): nobody has it and it is armed; it is among the
read, or the write events of its own I/O thread; in its hands; at one slot of
the queue; with one worker. Each place says what registration, memory and
progress a connection has there. `InUse` ties the places to the program
counters. Every action moves one connection from one place to the next and
leaves the others alone, which is what the lemmas on `Pointers` are for.
`ExclusiveConn`, `HeldIsDisarmed`, `NoUseAfterFree` and `NoStranded` follow, for
any number of threads and connections. `NoLostWakeup` says that while a worker
sleeps, the queue holds no more entries than there are workers on their way to
it and I/O threads about to notify. It is inductive once types are known: a push
adds a thread that will notify, a notification wakes a worker if one sleeps, and
a worker falls asleep only on an empty queue. The proof is about cardinalities,
so the sets of threads are assumed to be finite, as those of a process are.

**Coroutine** (`CoroutineProofs`). `ScheduleIInv` says where each context
continues (`Placed`), that the id kept as running is that of the one that runs
(`Recorded`), and whose a stack is (`Stacked`). `Accounted`, `OwnStack` and the
action property `StateTransitions` follow; that `ScheduleRunning` tells the
truth (`RunningMeansRunnable`) is part of `Accounted`. `StateTransitions`, and
`EchoInOrder` of `EchoConn`, are in no run any more: `Refinement` and `EchoSpec`
say more than the one, the proof covers the other.

**BlockingServer** (`BlockingServerProofs`). `OneServer` is proved for any
number of connections and tasks and for every program the assumption allows. It
is not inductive alone, for three reasons, and `IInv` adds one conjunct for
each. A task that accepts must be the first to have the connection (`Fresh`).
The loop that watches takes a connection out of its events without looking
whether a task has it, which is right because no other task runs in such a
program (`WatchAlone`). What is closed must not be met again in the same round
(`Taken`), or the events would name a descriptor that is no longer watched.

**CoroutineServer** (`CoroutineProofs`). The invariant of the scheduler is
not proved again: every step of the server is a step of `Coroutine` or leaves
the scheduler alone (`UsesScheduler`). On top of it `Bound` says of each
connection that the id in its `EventData` is that of a coroutine which is its
own, and that no other but a live one is registered. `Serving` says the same
from the side of the coroutine, with what `handlerClient` knows at each place
where it can be suspended. `Batched` says that an event is of a live connection
which nobody serves at the moment. Each of the two directions needs the other:
an id is given again as soon as its coroutine ends, so that it is free must
imply that no `EventData` has it. `OwnCoroutine` and `SuspendedWaits` follow,
and that `CoroutineResumeById`, whose result the loop ignores, never answers
`NotRunnable` (`NeverNotRunnable`).

**Reactor** (`ReactorProofs`). `NoLostEvent` speaks of the loop at `epoll_wait`
only, so `IInv` says what holds in between: of a connection that is not being
handled (`Resting`), of one not yet accepted or already released (`Apart`), of
the events reported but not yet come to (`Batched`), and at each place of the
handler (`Handled`). What carries an edge over the gap between the last `EAGAIN`
and the next `epoll_ctl` is the pair of `Resting` and `Handled`: a connection
which could go on is noted as an edge or has an event in the batch, also while
its handler runs. `NoLostEvent`, `NoStaleEvent` and `BlocksMidway` follow for
every set of flags the assumption allows. It excludes `et` or `poll` without
`multiio`, which would be an edge triggered server that reads once, and which no
program of the repository is (`EpollReactorSingleProcessET` always reads until
`EAGAIN`, and `Conn` without `O_NONBLOCK` until the message is complete); `poll`
together with `et` or `writefirst`, which the programs with `poll` and `select`
have no code for; and `few` without `poll`.

**MainSub** (`MainSubProofs`). The invariant is about one connection at a time
(`Sound`): what holds before it is accepted (`Fresh`), that a registration has a
live `Conn` and a descriptor behind it and an event a registration
(`Registration`), that the main reactor, a unix socket or one sub reactor has it
and not two of them (`OnePlace`), and what the reactor that handles it knows
(`MainHandles`, `SubHandles`). `Pipes` adds that a descriptor is sent once,
without which the same connection could arrive twice, and `Idle` that a reactor
has a connection exactly while it handles one. `OneReactor` is not inductive
alone: it does not see a connection in a unix socket, nor a main reactor that
still has to close its copy of the descriptor. It follows, as `NoUseAfterFree`
does. `Refinement` says that the servers implement `Handoff`, for any number of
reactors of both kinds, any capacity of the unix sockets, and threads as well as
processes. There is a lemma for each kind of step: `accept` is `Accept`; the
main reactor's registration in the epoll of the sub reactor, as threads, or
`RecvFd`, as processes, is `Migrate`, while `SendFd` changes no owner; the last
`close` of a descriptor is `Close`, or `GiveUp` where `SendFd` has failed; bytes
that come or are read are `Arrive` and `Take`; and the rest are stutters.
`Gone`, the owner of a connection that nobody has any more, is assumed to be no
reactor.

**Benchmark** (`BenchmarkProofs`). `Registered` is inductive once types are
known, but the types are not: what bounds the counts of a client is how they go
together with its status and with the bytes still to come (`Counted`).
`LimitKept` says that what has been begun and what is still allowed add up to no
more than the limit; `TimersKept` is `OneTimer` for single timers instead of
counts, and says when the loop has one in hand. From `Counted` and `AbortKept`
follows `OnlyMismatchAborts`: the assertion of `getDealStat` fails only after
the server returned something else than it was sent. It is the other half of
finding 3, for any number of clients and requests.

**CmdLine** (`CmdLineProofs`). `ParsedRight` compares the parse with a reading of
`argv` that does not go from left to right: `OptionAt` is the set of words that
are options and not arguments of the word before, defined by that condition
alone. It says nothing until the program ends, so `IInv` adds what holds on the
way. `Progress`: `Parse` stands at the start of an option, has found nothing
wrong before it, and every option holds the last value given so far, or its
default if there is none. `Declared`: the options are those declared up to now,
each name once, which is why setting one leaves the others alone; and while they
are being declared nothing has been parsed, so that what a word means cannot
change afterwards (`SameMeaning`). A set with the property of `OptionAt` must
exist for every number of words before anything can be said of it; that is an
induction over data, and is proved with a least counterexample (`MarksExist`),
for which the library has a fact without an operator parameter. The assumption
on the constants is what the functions of `cmdline.h` give: a bool is declared
by `BoolOpt` only, with the default `false`, and `atoll` is defined for what an
option may have as its argument. `TypeOK` says of values that they are defaults or
come from words of `argv`, so that none is taken from beyond its end; it says
nothing of what the message for bad syntax reads, which does lie beyond it in
`BadOptCrash`. `ParsedRight` says that this is the only way to a crash.

Every invariant a passing run checks is thus also proved, and the two
refinements, of `Echo` and of `Handoff`. Only model-checked are the liveness
properties (`DeCodeReturns`, `Served`, `ClosedForClient`, `Accepted`, `Finished`,
`Ends`), because fairness and `ENABLED` are out of the prover's reach.

## Findings

1. `src/codec.hpp:44`: `DeCode` never returns when bytes are left after a complete
   message. This takes a `Conn` that kept the large buffer of an earlier request
   and a client that sends ahead (`conn_pipelined_reused`).
2. `src/EpollReactorSingleProcessCoroutine/epollreactorsingleprocesscoroutine.cpp:148`:
   the id of `CoroutineCreate` is not checked; with the pool exhausted the
   assertion of `CoroutineResumeById` ends the server (`server_exhausted`).
3. `src/BenchMark/client.hpp:258`: a reply that is not the message sent is counted
   as a failure but as no kind of failure; the assertion in `getDealStat` ends the
   benchmark (`bench_mismatch`).

Seen on the way, and listed as hazards: an interrupted `epoll_wait` in the
benchmark loses the timer it had taken out of the heap (`bench` includes it; `Ends`
and `OneTimer` hold without it); a worker with `-direct` spins on a client that
does not read, so that as many such clients as workers stop the server (`hsha`
has one for two workers); `SendFd`'s result is ignored (`ms` includes it); the
message for bad syntax prints `argv[opt_len]`, indexed by the length of the option
(`src/cmdline.cpp:101`): another word, the `NULL` at the end, or what lies beyond
it (a lone `---la`), where it may crash (`cmdline` includes it as `BadOptCrash`).
Listed, but not in a run: every use of a pooled coroutine allocates a stack of 8 KB (`src/coroutine.cpp:26`) and
`ScheduleClean` frees the last one only, so the coroutine servers lose one with
every connection. Neither listed nor in a run: a check of the benchmark at its end counts only the clients
that are still valid (`src/BenchMark/clientmanager.hpp:46`); `src/BenchMark/percentile.hpp:53` reads
beyond a vector of one sample; a `connect` that fails at once leaves its descriptor
open (`src/BenchMark/client.hpp:159`).

## Not modelled, and why

Failures of allocation, and of descriptor limits except where `accept` meets them
in `BlockingServer`; signals other than `SIGCHLD` and the interruption above
(`SIGPIPE`); the end of a process while others go on: the code has no handling of
them to model. Formatting, logging, the characters of command lines, socket
options. Statistics: sums under a mutex, and arithmetic on doubles. In
`MainSub` a reply is written in one piece: the partial ones are in `Reactor`,
whose handler is the same. The write path of a `Conn` in `HSHA` without
`-direct` is level triggered and retried by events, as in `Reactor`.

## Plan

Done first were the framing, which every program uses, and the programs in which
several threads, processes or coroutines share a connection; then the remaining
servers and the command line; then the proofs, first for the framing, the
threads and the scheduler, then for all others. What is left are the hazards no
property covers (see `PROJECT.json`), and lemmas on the way to the liveness
properties: which steps are enabled when somebody waits.
