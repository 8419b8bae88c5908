----------------------------- MODULE Benchmark -----------------------------
(***************************************************************************)
(* One thread of BenchMark: an epoll loop that drives the state machines   *)
(* of its EchoClients and, between two rounds, runs the timer that is due  *)
(* first: the end of the run, the check of the clients, or the refresh of  *)
(* the rate limit.  Threads share nothing but the totals of stat.hpp.      *)
(*                                                                         *)
(* The two halves of a request, and of a reply, stand for its bytes.  Time *)
(* is counted in units of the check's period.  A client that waits may be  *)
(* found to have waited too long at any check: its three time stamps are   *)
(* not kept.  Nothing calls Timer::Cancel, so no timer is ever cancelled.  *)
(***************************************************************************)
EXTENDS Integers, FiniteSets

CONSTANTS
  Slots,           \* the indices of clients_
  max_req_count,
  rate_limit,
  run_time,        \* when the run is to end; the clock goes no further
  refresh_period,  \* of rateLimitRefresh, where that of clientManagerCheck is 1
  Faults           \* what may happen in a run: a set of sets, see below

ASSUME BenchmarkAssumption ==
  /\ max_req_count \in Nat \ {0} /\ rate_limit \in Nat
  /\ run_time \in Nat \ {0} /\ refresh_period \in Nat \ {0}
  /\ Faults \subseteq SUBSET
       {"eintr",      \* epoll_wait is interrupted by a signal
        "mismatch"}   \* the server returns something else than it was sent

VARIABLES
  faults,           \* the member of Faults that is the case; it does not change
  now,
  timers,           \* timers_: a set of <<callback, abs_time_ms_>>
  timer_data,       \* the timer taken out of the heap, at most one
  client,           \* clients_, with what the kernel and the server know of each
  temp_rate_limit,
  begun,            \* history: requests begun since the last refresh
  batch,            \* the clients in events not yet dealt with
  pc                \* where the loop is: "top", "wait", "events", "ended", "aborted"

loop == <<timers, timer_data, pc>>
vars == <<faults, now, timers, timer_data, client, temp_rate_limit, begun, batch, pc>>

Statuses == {"Connecting", "ConnectSuccess", "SendRequest", "RecvResponse", "Success",
             "Failure", "Finish", "Stop"}

\* An EchoClient after Connect: connected at once, on its way, or failed.
NewClients ==
  {[status  |-> s,
    send    |-> 0,    \* send_len_, in halves
    got     |-> 0,    \* halves of the reply in codec_
    success |-> 0,    \* success_count_
    failure |-> IF s = "Failure" THEN 1 ELSE 0,    \* failure_count_
    detail  |-> IF s = "Failure" THEN 1 ELSE 0,    \* sum of the three other counts
    reg     |-> IF s = "Failure" THEN "none" ELSE "out",  \* registration in epoll
    link    |-> CASE s = "Connecting" -> "pending" [] s = "ConnectSuccess" -> "up"
                  [] s = "Failure" -> "none",
    unread  |-> 0] : s \in {"Connecting", "ConnectSuccess", "Failure"}}

Init ==
  /\ faults \in Faults
  /\ now = 0
  /\ timers = {<<"exit", run_time>>, <<"check", 1>>, <<"refresh", refresh_period>>}
  /\ timer_data = {}
  /\ client \in [Slots -> NewClients]
  /\ temp_rate_limit = rate_limit /\ begun = 0
  /\ batch = {} /\ pc = "top"
-----------------------------------------------------------------------------
(* The clock, the network, and the server. *)

Tick ==
  /\ pc \notin {"ended", "aborted"} /\ now < run_time
  /\ now' = now + 1
  /\ UNCHANGED <<faults, client, temp_rate_limit, begun, batch, loop>>

Become(c, fields) ==
  client' = [client EXCEPT ![c] = [f \in DOMAIN @ |-> IF f \in DOMAIN fields THEN fields[f] ELSE @[f]]]

Connection(c) ==
  /\ \/ /\ client[c].link = "pending"
        /\ \E l \in {"up", "refused"} : Become(c, [link |-> l])
     \/ client[c].link = "up" /\ Become(c, [link |-> "down"])
  /\ UNCHANGED <<faults, now, temp_rate_limit, begun, batch, loop>>

\* The server has read a request, and sends half of the reply.
ServerReply(c) ==
  /\ client[c].link = "up" /\ client[c].send = 2
  /\ client[c].got + client[c].unread < 2
  /\ Become(c, [unread |-> client[c].unread + 1])
  /\ UNCHANGED <<faults, now, temp_rate_limit, begun, batch, loop>>

Server ==
  /\ pc \notin {"ended", "aborted"}
  /\ \E c \in Slots : Connection(c) \/ ServerReply(c)
-----------------------------------------------------------------------------
(* handler. *)

\* GetLastTimer: one of those that are due first.
GetLastTimer ==
  /\ pc = "top"
  /\ \/ timers = {} /\ timer_data' = {} /\ UNCHANGED timers
     \/ \E t \in timers :
          /\ \A u \in timers : t[2] <= u[2]
          /\ timer_data' = {t} /\ timers' = timers \ {t}
  /\ pc' = "wait"
  /\ UNCHANGED <<faults, now, client, temp_rate_limit, begun, batch>>

Ready ==
  {c \in Slots :
     \/ client[c].reg = "out" /\ client[c].link # "pending"
     \/ client[c].reg = "in" /\ (client[c].unread > 0 \/ client[c].link = "down")}

\* Without events it returns when the timer is due, at once when there is none.
EpollWait ==
  /\ pc = "wait"
  /\ Ready = {} => \A t \in timer_data : now >= t[2]
  /\ batch' = Ready
  /\ pc' = "events"
  /\ UNCHANGED <<faults, now, timers, timer_data, client, temp_rate_limit, begun>>

\* The loop continues; the timer has left the heap and is not run.
EpollWaitFails ==
  /\ pc = "wait" /\ "eintr" \in faults
  /\ pc' = "top"
  /\ UNCHANGED <<faults, now, timers, timer_data, client, temp_rate_limit, begun, batch>>
-----------------------------------------------------------------------------
(* EchoClient::Deal. *)

\* The event of c is dealt with, and c becomes what the fields say.
Deal(c, status, fields) ==
  /\ pc = "events" /\ c \in batch /\ client[c].status \in status
  /\ batch' = batch \ {c}
  /\ Become(c, fields)
  /\ UNCHANGED <<faults, now, loop>>

\* ClearEvent(epoll_fd_, fd_).
Closed(status) == [status |-> status, reg |-> "none", link |-> "none", unread |-> 0]

\* Failure, with n of the detailed counts incremented.
Failed(c, n) ==
  [f \in {"status", "reg", "link", "unread", "failure", "detail"} |->
     CASE f = "failure" -> client[c].failure + 1
       [] f = "detail" -> client[c].detail + n
       [] OTHER -> Closed("Failure")[f]]

CheckConnect(c) ==
  /\ \/ client[c].link \in {"up", "down"} /\ Deal(c, {"Connecting"}, [status |-> "ConnectSuccess"])
     \/ client[c].link \in {"refused", "down"} /\ Deal(c, {"Connecting"}, Failed(c, 1))
  /\ UNCHANGED <<temp_rate_limit, begun>>

Sending == {"ConnectSuccess", "SendRequest"}

\* The rate limit is used up: ClearEvent without close.
StopSending(c) ==
  /\ temp_rate_limit <= 0
  /\ Deal(c, Sending, [status |-> "Stop", reg |-> "none"])
  /\ UNCHANGED <<temp_rate_limit, begun>>

\* Mutant: a write of less than a request does not count.
UseLimitSuccess(c, n) ==
  /\ temp_rate_limit' = IF client[c].send + n = 2 THEN temp_rate_limit - 1 ELSE temp_rate_limit
  /\ begun' = IF client[c].send = 0 /\ n > 0 THEN begun + 1 ELSE begun

UseLimit(c, n) ==
  /\ temp_rate_limit' = temp_rate_limit - 1
  /\ begun' = IF client[c].send = 0 /\ n > 0 THEN begun + 1 ELSE begun

\* write() takes n halves, none if it is interrupted.
SendRequest(c, n) ==
  /\ temp_rate_limit > 0 /\ UseLimit(c, n)
  /\ n <= 2 - client[c].send
  /\ LET send == client[c].send + n IN
       \/ send < 2 /\ Deal(c, Sending, [status |-> "SendRequest", send |-> send])
       \/ send = 2 /\ Deal(c, Sending, [status |-> "RecvResponse", send |-> send, reg |-> "in"])

SendFails(c) ==
  /\ temp_rate_limit > 0 /\ UseLimit(c, 0)
  /\ client[c].link # "up"
  /\ Deal(c, Sending, Failed(c, 1))

\* read() returns n halves of the reply, none if it is interrupted.
RecvResponse(c, n) ==
  /\ n <= client[c].unread
  /\ LET got == client[c].got + n
         read == [got |-> got, unread |-> client[c].unread - n]
     IN  \/ got < 2 /\ Deal(c, {"RecvResponse"}, read)
         \/ /\ got = 2
            /\ Deal(c, {"RecvResponse"},
                    [status |-> "Success", got |-> 2, unread |-> 0, reg |-> "out"])
         \/ got = 2 /\ "mismatch" \in faults /\ Deal(c, {"RecvResponse"}, Failed(c, 0))
  /\ UNCHANGED <<temp_rate_limit, begun>>

\* The end of the connection, or an error.
RecvFails(c) ==
  /\ client[c].unread = 0 /\ client[c].link = "down"
  /\ \/ Deal(c, {"RecvResponse"}, Closed("Finish"))
     \/ Deal(c, {"RecvResponse"}, Failed(c, 1))
  /\ UNCHANGED <<temp_rate_limit, begun>>

\* success_count_ reaches max_req_count: Finish, with ClearEvent.
Succeeded(c, last) ==
  Deal(c, {"Success"},
       [status  |-> IF last THEN "Finish" ELSE "SendRequest",
        send    |-> 0,
        got     |-> 0,
        success |-> client[c].success + 1,
        reg     |-> IF last THEN "none" ELSE "out",
        link    |-> IF last THEN "none" ELSE client[c].link])

\* Mutant: the count is compared before it is incremented.
DealSuccessOneMore(c) ==
  /\ Succeeded(c, client[c].success >= max_req_count)
  /\ UNCHANGED <<temp_rate_limit, begun>>

DealSuccess(c) ==
  /\ Succeeded(c, client[c].success + 1 >= max_req_count)
  /\ UNCHANGED <<temp_rate_limit, begun>>

EchoClient ==
  \E c \in Slots :
    \/ CheckConnect(c) \/ StopSending(c) \/ SendFails(c) \/ RecvFails(c) \/ DealSuccess(c)
    \/ \E n \in 0 .. 2 : SendRequest(c, n) \/ RecvResponse(c, n)
-----------------------------------------------------------------------------
(* Timer::Run and the three callbacks. *)

NoTimer ==
  /\ pc = "events" /\ batch = {} /\ timer_data = {}
  /\ pc' = "top"
  /\ UNCHANGED <<faults, now, timers, timer_data, client, temp_rate_limit, begun, batch>>

\* A timer that has not expired goes back to the heap.  Mutant: it does not.
PushBackNot(t) ==
  /\ now < t[2]
  /\ UNCHANGED timers

PushBack(t) ==
  /\ now < t[2]
  /\ timers' = timers \cup {t}

Requeue ==
  /\ pc = "events" /\ batch = {}
  /\ \E t \in timer_data : PushBack(t)
  /\ timer_data' = {} /\ pc' = "top"
  /\ UNCHANGED <<faults, now, client, temp_rate_limit, begun, batch>>

\* The callback named name runs, when all events are dealt with and its time has
\* come.
Run(name) ==
  /\ pc = "events" /\ batch = {}
  /\ \E t \in timer_data : t[1] = name /\ now >= t[2]
  /\ timer_data' = {}
  /\ UNCHANGED <<faults, now, batch>>

Register(name, period) ==
  timers' = timers \cup {<<name, now + period>>}

\* GetStatData leaves out the clients that are not valid, and then stops the loop.
ThreadExit ==
  /\ Run("exit")
  /\ pc' = "ended"
  /\ UNCHANGED <<timers, client, temp_rate_limit, begun>>

Refresh ==
  /\ Run("refresh") /\ Register("refresh", refresh_period)
  /\ temp_rate_limit' = rate_limit /\ begun' = 0
  /\ pc' = "top"
  /\ UNCHANGED client

\* IsValid, where waited says whether the client has waited too long.
IsValid(c, waited) ==
  /\ client[c].status \notin {"Failure", "Finish"}
  /\ waited => client[c].status \notin {"Connecting", "SendRequest", "RecvResponse"}

\* The assertions of getDealStat, after IsValid has counted the failure of a
\* client that waited too long, in failure_count_ and in one of the others.
StatIsRight(c) ==
  LET n == IF client[c].status \in {"Failure", "Finish"} THEN 0 ELSE 1
  IN  /\ client[c].failure + n <= 1
      /\ client[c].failure + n = client[c].detail + n

\* Mutant: the client is not registered again.
TryRestartSilent(c) ==
  IF client[c].status = "Stop" /\ temp_rate_limit > 0
  THEN [client[c] EXCEPT !.status = "SendRequest"]
  ELSE client[c]

TryRestart(c) ==
  IF client[c].status = "Stop" /\ temp_rate_limit > 0
  THEN [client[c] EXCEPT !.status = "SendRequest", !.reg = "out"]
  ELSE client[c]

\* CheckClientStatusAndDeal.
Check ==
  /\ Run("check")
  /\ \E waited \in [Slots -> BOOLEAN] :
       LET invalid == {c \in Slots : ~IsValid(c, waited[c])} IN
         IF \A c \in invalid : StatIsRight(c)
         THEN /\ \E new \in [invalid -> NewClients] :
                   client' = [c \in Slots |-> IF c \in invalid THEN new[c] ELSE TryRestart(c)]
              /\ Register("check", 1)
              /\ pc' = "top"
         ELSE /\ pc' = "aborted"
              /\ UNCHANGED <<client, timers>>
  /\ UNCHANGED <<temp_rate_limit, begun>>

Thread ==
  \/ GetLastTimer \/ EpollWait \/ EpollWaitFails \/ EchoClient
  \/ NoTimer \/ Requeue \/ ThreadExit \/ Refresh \/ Check

Next == Thread \/ Tick \/ Server

Spec == Init /\ [][Next]_vars

\* The thread is scheduled and time goes on; nothing is assumed of the server.
FairSpec == Spec /\ WF_vars(Thread) /\ WF_vars(Tick)
-----------------------------------------------------------------------------
(* Properties. *)

Running == pc \notin {"ended", "aborted"}

\* No client succeeds more often than -max_req_count says.
EchoClients ==
  [status : Statuses, send : 0 .. 2, got : 0 .. 2,
   success : 0 .. max_req_count, failure : 0 .. 1, detail : 0 .. 1,
   reg : {"none", "in", "out"},
   link : {"none", "pending", "refused", "up", "down"},
   unread : 0 .. 2]

\* Types.
TypeOK ==
  /\ faults \in Faults /\ now \in 0 .. run_time
  /\ timers \cup timer_data \subseteq
       {"exit", "check", "refresh"} \X (0 .. run_time + refresh_period + 1)
  /\ client \in [Slots -> EchoClients]
  /\ temp_rate_limit \in 0 .. rate_limit /\ begun \in Nat
  /\ batch \subseteq Slots
  /\ pc \in {"top", "wait", "events", "ended", "aborted"}

Awaited(c) ==
  CASE client[c].status \in {"Connecting", "ConnectSuccess", "SendRequest", "Success"} -> "out"
    [] client[c].status = "RecvResponse" -> "in"
    [] OTHER -> "none"

Expects(c) ==
  \/ client[c].status \in {"SendRequest", "RecvResponse", "Success"}
  \/ client[c].status \in {"Connecting", "ConnectSuccess"} /\ client[c].link # "pending"

\* What epoll is to report for a client is always what its status waits for, so
\* that no client is forgotten, and none spins: through partial writes, the stop
\* at the rate limit, the restart from a timer, and the replacement of a client.
\* An event of a round is about the client that caused it: a client still to be
\* dealt with has not been deleted, stopped or replaced since epoll_wait, so Deal
\* never takes its last, unintended way to Failure.
Registered ==
  /\ \A c \in Slots : client[c].reg = Awaited(c)
  /\ \A c \in batch : Expects(c)

\* Between two refreshes all clients together begin no more requests than
\* -rate_limit allows, whichever of them is stopped and restarted in between.
RateLimited == begun <= rate_limit

\* Each of the three timers is pending exactly once while the loop runs, in the
\* heap or in the hands of the loop; an interrupted epoll_wait may lose one, but
\* nothing ever doubles one.
OneTimer ==
  \A name \in {"exit", "check", "refresh"} :
    LET pending == {t \in timers \cup timer_data : t[1] = name}
    IN  /\ Cardinality(pending) <= 1 /\ timers \cap timer_data = {}
        /\ Running /\ "eintr" \notin faults => pending # {}

\* Unless a timer is lost, the run ends, whatever the server does.
Ends == "eintr" \notin faults => <>~Running

\* The assertions of getDealStat hold.
NoAbort == pc # "aborted"
-----------------------------------------------------------------------------
(* The inductive invariant. *)

\* What the counts of a client leave room for: the rest of its reply, another
\* success, and, unless it has failed, one failure, which has its reason.
Counted(c) ==
  /\ client[c].got + client[c].unread <= 2
  /\ client[c].status # "Finish" => client[c].success < max_req_count
  /\ client[c].status # "Failure" => client[c].failure = 0 /\ client[c].detail = 0
  /\ "mismatch" \notin faults => client[c].failure = client[c].detail

\* Every use of the limit is at most the beginning of one request.
LimitKept == begun + temp_rate_limit <= rate_limit

\* No two timers have one callback, the loop has at most one of them, and none when
\* it asks for the next, unless epoll_wait was interrupted.
TimersKept ==
  /\ timers \cap timer_data = {}
  /\ \A t, u \in timers \cup timer_data : t[1] = u[1] => t = u
  /\ \A t, u \in timer_data : t = u
  /\ "eintr" \notin faults =>
       /\ pc = "top" => timer_data = {}
       /\ Running => \A name \in {"exit", "check", "refresh"} :
                       \E t \in timers \cup timer_data : t[1] = name

\* Only a failure without a reason fails the assertions.
AbortKept == pc = "aborted" => "mismatch" \in faults

IInv ==
  /\ TypeOK /\ Registered /\ LimitKept /\ TimersKept /\ AbortKept
  /\ \A c \in Slots : Counted(c)
=============================================================================
