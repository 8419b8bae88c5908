-------------------------- MODULE BenchmarkProofs --------------------------
(***************************************************************************)
(* For any number of clients and any limit: what a thread of the benchmark *)
(* waits for, how many requests it begins, its timers, and what can fail   *)
(* its assertions.                                                         *)
(***************************************************************************)
EXTENDS Benchmark, FiniteSetTheorems, TLAPS

\* The fields of a client.
LEMMA Fields ==
  ASSUME NEW r \in EchoClients
  PROVE  /\ DOMAIN r = {"status", "send", "got", "success", "failure", "detail", "reg", "link",
                        "unread"}
         /\ r.status \in Statuses /\ r.send \in 0 .. 2 /\ r.got \in 0 .. 2
         /\ r.success \in 0 .. max_req_count /\ r.failure \in 0 .. 1 /\ r.detail \in 0 .. 1
         /\ r.reg \in {"none", "in", "out"} /\ r.unread \in 0 .. 2
         /\ r.link \in {"none", "pending", "refused", "up", "down"}
BY DEF EchoClients

\* A client after Connect.
LEMMA NewClient ==
  ASSUME NEW r \in NewClients
  PROVE  /\ r \in EchoClients /\ r.got = 0 /\ r.unread = 0 /\ r.success = 0
         /\ \/ r.status \in {"Connecting", "ConnectSuccess"} /\ r.reg = "out"
            \/ r.status = "Failure" /\ r.reg = "none"
         /\ r.failure = r.detail
         /\ r.status # "Failure" => r.failure = 0 /\ r.detail = 0
<1>1. PICK s \in {"Connecting", "ConnectSuccess", "Failure"} :
        r = [status |-> s, send |-> 0, got |-> 0, success |-> 0,
             failure |-> IF s = "Failure" THEN 1 ELSE 0,
             detail |-> IF s = "Failure" THEN 1 ELSE 0,
             reg |-> IF s = "Failure" THEN "none" ELSE "out",
             link |-> CASE s = "Connecting" -> "pending" [] s = "ConnectSuccess" -> "up"
                        [] s = "Failure" -> "none",
             unread |-> 0]
  BY DEF NewClients
<1>2. max_req_count \in Nat  BY BenchmarkAssumption
<1>3. QED  BY <1>1, <1>2 DEF EchoClients, Statuses

\* Where every run starts.
LEMMA InitIInv == Init => IInv
<1> SUFFICES ASSUME Init PROVE IInv  OBVIOUS
<1>1. \A c \in Slots : client[c] \in NewClients  BY DEF Init
<1>2. \A c \in Slots : Counted(c) /\ client[c].reg = Awaited(c)
  BY <1>1, NewClient, BenchmarkAssumption DEF Counted, Awaited
<1>3. client \in [Slots -> EchoClients]  BY NewClient DEF Init
<1>4. TypeOK  BY <1>3, BenchmarkAssumption DEF Init, TypeOK
<1>5. TimersKept /\ AbortKept  BY DEF Init, TimersKept, AbortKept
<1>6. QED  BY <1>2, <1>4, <1>5, BenchmarkAssumption DEF Init, IInv, Registered, LimitKept
-----------------------------------------------------------------------------
(* One client. *)

\* A step that changes one client, and may use the limit, leaves the rest alone.
LEMMA OneClient ==
  ASSUME IInv, NEW c \in Slots, UNCHANGED <<faults, now, timers, timer_data, pc>>,
         client'[c] \in EchoClients, client' = [client EXCEPT ![c] = client'[c]],
         batch' \subseteq batch, c \in batch' => Expects(c)',
         client'[c].reg = Awaited(c)', Counted(c)',
         temp_rate_limit' \in 0 .. rate_limit, begun' \in Nat, LimitKept'
  PROVE  IInv'
<1>1. client \in [Slots -> EchoClients] /\ batch \subseteq Slots  BY DEF IInv, TypeOK
<1>2. client' \in [Slots -> EchoClients] /\ \A d \in Slots \ {c} : client'[d] = client[d]
  BY <1>1
<1>3. TypeOK'  BY <1>1, <1>2 DEF IInv, TypeOK
<1>4. Registered'
  <2>1. \A d \in Slots : client'[d].reg = Awaited(d)'
    BY <1>2 DEF IInv, Registered, Awaited
  <2>2. \A d \in batch' : Expects(d)'  BY <1>1, <1>2 DEF IInv, Registered, Expects
  <2>3. QED  BY <2>1, <2>2 DEF Registered
<1>5. TimersKept' /\ AbortKept'  BY DEF IInv, TimersKept, AbortKept, Running
<1>6. \A d \in Slots : Counted(d)'  BY <1>2 DEF IInv, Counted
<1>7. QED  BY <1>3, <1>4, <1>5, <1>6 DEF IInv

\* What Become does to a record.
LEMMA Becomes ==
  ASSUME TypeOK, NEW c \in Slots, NEW fields, Become(c, fields),
         DOMAIN fields \subseteq {"status", "send", "got", "success", "failure", "detail", "reg",
                                  "link", "unread"}
  PROVE  /\ client' = [client EXCEPT ![c] = client'[c]]
         /\ client'[c] =
              [status  |-> IF "status" \in DOMAIN fields THEN fields["status"] ELSE client[c].status,
               send    |-> IF "send" \in DOMAIN fields THEN fields["send"] ELSE client[c].send,
               got     |-> IF "got" \in DOMAIN fields THEN fields["got"] ELSE client[c].got,
               success |-> IF "success" \in DOMAIN fields THEN fields["success"] ELSE client[c].success,
               failure |-> IF "failure" \in DOMAIN fields THEN fields["failure"] ELSE client[c].failure,
               detail  |-> IF "detail" \in DOMAIN fields THEN fields["detail"] ELSE client[c].detail,
               reg     |-> IF "reg" \in DOMAIN fields THEN fields["reg"] ELSE client[c].reg,
               link    |-> IF "link" \in DOMAIN fields THEN fields["link"] ELSE client[c].link,
               unread  |-> IF "unread" \in DOMAIN fields THEN fields["unread"] ELSE client[c].unread]
<1>1. client \in [Slots -> EchoClients]  BY DEF TypeOK
<1>2. client' = [client EXCEPT ![c] = [f \in DOMAIN client[c] |->
                   IF f \in DOMAIN fields THEN fields[f] ELSE client[c][f]]]
  BY DEF Become
<1>3. DOMAIN client[c] = {"status", "send", "got", "success", "failure", "detail", "reg", "link",
                          "unread"}
  BY <1>1, Fields
<1>4. client'[c] = [f \in DOMAIN client[c] |->
                      IF f \in DOMAIN fields THEN fields[f] ELSE client[c][f]]
  BY <1>1, <1>2
<1>5. client' = [client EXCEPT ![c] = client'[c]]  BY <1>2, <1>4
<1>6. QED  BY <1>3, <1>4, <1>5

\* The network and the server, for one client.
LEMMA ServerStep == ASSUME IInv, Server PROVE IInv'
<1>0. TypeOK /\ client \in [Slots -> EchoClients]  BY DEF IInv, TypeOK
<1>1. PICK c \in Slots : Connection(c) \/ ServerReply(c)  BY DEF Server
<1>2. UNCHANGED <<faults, now, temp_rate_limit, begun, batch, timers, timer_data, pc>>
  BY <1>1 DEF Connection, ServerReply, loop
<1>3. client[c].reg = Awaited(c) /\ Counted(c) /\ (c \in batch => Expects(c))
  BY DEF IInv, Registered
<1>4. /\ temp_rate_limit' \in 0 .. rate_limit /\ begun' \in Nat /\ LimitKept'
  BY <1>2 DEF IInv, TypeOK, LimitKept
<1>5. ASSUME NEW l \in {"up", "refused", "down"}, Become(c, [link |-> l]) PROVE IInv'
  <2>1. /\ client' = [client EXCEPT ![c] = client'[c]]
        /\ client'[c] = [status |-> client[c].status, send |-> client[c].send,
                         got |-> client[c].got, success |-> client[c].success,
                         failure |-> client[c].failure, detail |-> client[c].detail,
                         reg |-> client[c].reg, link |-> l, unread |-> client[c].unread]
    BY <1>0, <1>5, Becomes
  <2>2. client'[c] \in EchoClients  BY <1>0, <2>1, Fields DEF EchoClients
  <2>3. /\ client'[c].reg = Awaited(c)' /\ Counted(c)' /\ (c \in batch' => Expects(c)')
    BY <1>2, <1>3, <2>1 DEF Awaited, Counted, Expects
  <2>4. QED  BY <1>2, <1>4, <2>1, <2>2, <2>3, OneClient
<1>6. CASE ServerReply(c)
  <2>1. /\ client' = [client EXCEPT ![c] = client'[c]]
        /\ client'[c] = [status |-> client[c].status, send |-> client[c].send,
                         got |-> client[c].got, success |-> client[c].success,
                         failure |-> client[c].failure, detail |-> client[c].detail,
                         reg |-> client[c].reg, link |-> client[c].link,
                         unread |-> client[c].unread + 1]
    BY <1>0, <1>6, Becomes DEF ServerReply
  <2>2. client[c].got + client[c].unread < 2 /\ client[c].got \in 0 .. 2 /\ client[c].unread \in 0 .. 2
    BY <1>0, <1>6, Fields DEF ServerReply
  <2>3. client'[c] \in EchoClients  BY <1>0, <2>1, <2>2, Fields DEF EchoClients
  <2>4. client'[c].reg = Awaited(c)' /\ Counted(c)' /\ (c \in batch' => Expects(c)')
    BY <1>2, <1>3, <2>1, <2>2 DEF Awaited, Counted, Expects
  <2>5. QED  BY <1>2, <1>4, <2>1, <2>3, <2>4, OneClient
<1>7. QED  BY <1>1, <1>5, <1>6 DEF Connection
-----------------------------------------------------------------------------
(* EchoClient::Deal. *)

\* Dealing with an event takes it out of the round.
LEMMA DealFacts ==
  ASSUME NEW c \in Slots, NEW status, NEW fields, Deal(c, status, fields)
  PROVE  /\ UNCHANGED <<faults, now, timers, timer_data, pc>>
         /\ batch' \subseteq batch /\ c \notin batch'
         /\ client[c].status \in status /\ Become(c, fields)
BY DEF Deal, loop

\* The limit is not touched.
LEMMA LimitUntouched ==
  ASSUME IInv, UNCHANGED <<temp_rate_limit, begun>>
  PROVE  temp_rate_limit' \in 0 .. rate_limit /\ begun' \in Nat /\ LimitKept'
BY DEF IInv, TypeOK, LimitKept

\* A write uses the limit once, whether or not it begins a request.
LEMMA LimitUsed ==
  ASSUME IInv, NEW c \in Slots, NEW n \in 0 .. 2, temp_rate_limit > 0, UseLimit(c, n)
  PROVE  temp_rate_limit' \in 0 .. rate_limit /\ begun' \in Nat /\ LimitKept'
<1>1. /\ temp_rate_limit \in 0 .. rate_limit /\ begun \in Nat /\ rate_limit \in Nat
      /\ begun + temp_rate_limit <= rate_limit
  BY BenchmarkAssumption DEF IInv, TypeOK, LimitKept
<1>2. temp_rate_limit' = temp_rate_limit - 1 /\ (begun' = begun \/ begun' = begun + 1)
  BY DEF UseLimit
<1>3. QED  BY <1>1, <1>2 DEF LimitKept

\* The connection is there, or has failed.
LEMMA FailedIs ==
  ASSUME TypeOK, NEW c \in Slots, NEW n \in 0 .. 1, Become(c, Failed(c, n))
  PROVE  /\ client' = [client EXCEPT ![c] = client'[c]]
         /\ client'[c] = [status |-> "Failure", send |-> client[c].send, got |-> client[c].got,
                          success |-> client[c].success, failure |-> client[c].failure + 1,
                          detail |-> client[c].detail + n, reg |-> "none", link |-> "none",
                          unread |-> 0]
<1>1. Failed(c, n) = [status |-> "Failure", reg |-> "none", link |-> "none", unread |-> 0,
                      failure |-> client[c].failure + 1, detail |-> client[c].detail + n]
  BY DEF Failed, Closed
<1>2. Become(c, [status |-> "Failure", reg |-> "none", link |-> "none", unread |-> 0,
                 failure |-> client[c].failure + 1, detail |-> client[c].detail + n])
  BY <1>1
<1>3. QED  BY <1>2, Becomes

\* Failure counts a client that has not failed before.
LEMMA FailedStep ==
  ASSUME IInv, NEW c \in Slots, NEW n \in 0 .. 1, NEW status, Deal(c, status, Failed(c, n)),
         "Failure" \notin status, "Finish" \notin status, n = 1 \/ "mismatch" \in faults,
         temp_rate_limit' \in 0 .. rate_limit, begun' \in Nat, LimitKept'
  PROVE  IInv'
<1>0. TypeOK /\ client \in [Slots -> EchoClients] /\ Counted(c)  BY DEF IInv, TypeOK
<1>1. /\ UNCHANGED <<faults, now, timers, timer_data, pc>>
      /\ batch' \subseteq batch /\ c \notin batch' /\ client[c].status \in status
      /\ Become(c, Failed(c, n))
  BY DealFacts
<1>2. /\ client' = [client EXCEPT ![c] = client'[c]]
      /\ client'[c] = [status |-> "Failure", send |-> client[c].send, got |-> client[c].got,
                       success |-> client[c].success, failure |-> client[c].failure + 1,
                       detail |-> client[c].detail + n, reg |-> "none", link |-> "none",
                       unread |-> 0]
  BY <1>0, <1>1, FailedIs
<1>3. client[c].failure = 0 /\ client[c].detail = 0 /\ client[c].success < max_req_count
  BY <1>0, <1>1 DEF Counted
<1>4. client'[c] \in EchoClients  BY <1>0, <1>2, <1>3, Fields DEF EchoClients, Statuses
<1>5. client'[c].reg = Awaited(c)'  BY <1>2 DEF Awaited
<1>6. Counted(c)'  BY <1>0, <1>1, <1>2, <1>3, Fields DEF Counted
<1>7. QED  BY <1>1, <1>2, <1>4, <1>5, <1>6, OneClient

\* The connect is complete.
LEMMA CheckConnectStep == ASSUME IInv, NEW c \in Slots, CheckConnect(c) PROVE IInv'
<1>0. TypeOK /\ client \in [Slots -> EchoClients] /\ Counted(c) /\ client[c].reg = Awaited(c)
  BY DEF IInv, TypeOK, Registered
<1>1. temp_rate_limit' \in 0 .. rate_limit /\ begun' \in Nat /\ LimitKept'
  BY LimitUntouched DEF CheckConnect
<1>2. CASE Deal(c, {"Connecting"}, [status |-> "ConnectSuccess"])
  <2>1. /\ UNCHANGED <<faults, now, timers, timer_data, pc>>
        /\ batch' \subseteq batch /\ c \notin batch' /\ client[c].status = "Connecting"
        /\ Become(c, [status |-> "ConnectSuccess"])
    BY <1>2, DealFacts
  <2>2. /\ client' = [client EXCEPT ![c] = client'[c]]
        /\ client'[c] = [status |-> "ConnectSuccess", send |-> client[c].send,
                         got |-> client[c].got, success |-> client[c].success,
                         failure |-> client[c].failure, detail |-> client[c].detail,
                         reg |-> client[c].reg, link |-> client[c].link,
                         unread |-> client[c].unread]
    BY <1>0, <2>1, Becomes
  <2>3. client'[c] \in EchoClients  BY <1>0, <2>2, Fields DEF EchoClients, Statuses
  <2>4. client'[c].reg = Awaited(c)'  BY <1>0, <2>1, <2>2 DEF Awaited
  <2>5. Counted(c)'  BY <1>0, <2>1, <2>2 DEF Counted
  <2>6. QED  BY <1>1, <2>1, <2>2, <2>3, <2>4, <2>5, OneClient
<1>3. CASE Deal(c, {"Connecting"}, Failed(c, 1))  BY <1>1, <1>3, FailedStep
<1>4. QED  BY <1>2, <1>3 DEF CheckConnect

\* A client that is stopped is not registered, one that is started again is.
LEMMA StopSendingStep == ASSUME IInv, NEW c \in Slots, StopSending(c) PROVE IInv'
<1>0. TypeOK /\ client \in [Slots -> EchoClients] /\ Counted(c)  BY DEF IInv, TypeOK
<1>1. temp_rate_limit' \in 0 .. rate_limit /\ begun' \in Nat /\ LimitKept'
  BY LimitUntouched DEF StopSending
<1>2. /\ UNCHANGED <<faults, now, timers, timer_data, pc>>
      /\ batch' \subseteq batch /\ c \notin batch' /\ client[c].status \in Sending
      /\ Become(c, [status |-> "Stop", reg |-> "none"])
  BY DealFacts DEF StopSending
<1>3. /\ client' = [client EXCEPT ![c] = client'[c]]
      /\ client'[c] = [status |-> "Stop", send |-> client[c].send,
                       got |-> client[c].got, success |-> client[c].success,
                       failure |-> client[c].failure, detail |-> client[c].detail,
                       reg |-> "none", link |-> client[c].link, unread |-> client[c].unread]
  BY <1>0, <1>2, Becomes
<1>4. client'[c] \in EchoClients  BY <1>0, <1>3, Fields DEF EchoClients, Statuses
<1>5. client'[c].reg = Awaited(c)'  BY <1>3 DEF Awaited
<1>6. Counted(c)'  BY <1>0, <1>2, <1>3 DEF Counted, Sending
<1>7. QED  BY <1>1, <1>2, <1>3, <1>4, <1>5, <1>6, OneClient

\* A request that is sent in parts waits for room, one that is sent for its reply.
LEMMA SendRequestStep ==
  ASSUME IInv, NEW c \in Slots, NEW n \in 0 .. 2, SendRequest(c, n) PROVE IInv'
<1>0. TypeOK /\ client \in [Slots -> EchoClients] /\ Counted(c) /\ client[c].reg = Awaited(c)
  BY DEF IInv, TypeOK, Registered
<1>1. temp_rate_limit' \in 0 .. rate_limit /\ begun' \in Nat /\ LimitKept'
  BY LimitUsed DEF SendRequest
<1>2. client[c].send \in 0 .. 2 /\ n <= 2 - client[c].send  BY <1>0, Fields DEF SendRequest
<1>3. CASE client[c].send + n < 2
           /\ Deal(c, Sending, [status |-> "SendRequest", send |-> client[c].send + n])
  <2>1. /\ UNCHANGED <<faults, now, timers, timer_data, pc>>
        /\ batch' \subseteq batch /\ c \notin batch' /\ client[c].status \in Sending
        /\ Become(c, [status |-> "SendRequest", send |-> client[c].send + n])
    BY <1>3, DealFacts
  <2>2. /\ client' = [client EXCEPT ![c] = client'[c]]
        /\ client'[c] = [status |-> "SendRequest", send |-> client[c].send + n,
                         got |-> client[c].got, success |-> client[c].success,
                         failure |-> client[c].failure, detail |-> client[c].detail,
                         reg |-> client[c].reg, link |-> client[c].link,
                         unread |-> client[c].unread]
    BY <1>0, <2>1, Becomes
  <2>3. client'[c] \in EchoClients  BY <1>0, <1>2, <1>3, <2>2, Fields DEF EchoClients, Statuses
  <2>4. client'[c].reg = Awaited(c)'  BY <1>0, <2>1, <2>2 DEF Awaited, Sending
  <2>5. Counted(c)'  BY <1>0, <2>1, <2>2 DEF Counted, Sending
  <2>6. QED  BY <1>1, <2>1, <2>2, <2>3, <2>4, <2>5, OneClient
<1>4. CASE client[c].send + n = 2
           /\ Deal(c, Sending, [status |-> "RecvResponse", send |-> client[c].send + n, reg |-> "in"])
  <2>1. /\ UNCHANGED <<faults, now, timers, timer_data, pc>>
        /\ batch' \subseteq batch /\ c \notin batch' /\ client[c].status \in Sending
        /\ Become(c, [status |-> "RecvResponse", send |-> client[c].send + n, reg |-> "in"])
    BY <1>4, DealFacts
  <2>2. /\ client' = [client EXCEPT ![c] = client'[c]]
        /\ client'[c] = [status |-> "RecvResponse", send |-> client[c].send + n,
                         got |-> client[c].got, success |-> client[c].success,
                         failure |-> client[c].failure, detail |-> client[c].detail,
                         reg |-> "in", link |-> client[c].link, unread |-> client[c].unread]
    BY <1>0, <2>1, Becomes
  <2>3. client'[c] \in EchoClients  BY <1>0, <1>4, <2>2, Fields DEF EchoClients, Statuses
  <2>4. client'[c].reg = Awaited(c)'  BY <2>2 DEF Awaited
  <2>5. Counted(c)'  BY <1>0, <2>1, <2>2 DEF Counted, Sending
  <2>6. QED  BY <1>1, <2>1, <2>2, <2>3, <2>4, <2>5, OneClient
<1>5. QED  BY <1>3, <1>4 DEF SendRequest

\* write() fails.
LEMMA SendFailsStep == ASSUME IInv, NEW c \in Slots, SendFails(c) PROVE IInv'
<1>1. temp_rate_limit' \in 0 .. rate_limit /\ begun' \in Nat /\ LimitKept'
  BY LimitUsed DEF SendFails
<1>2. Deal(c, Sending, Failed(c, 1)) /\ "Failure" \notin Sending /\ "Finish" \notin Sending
  BY DEF SendFails, Sending
<1>3. QED  BY <1>1, <1>2, FailedStep

\* The reply comes in parts; it may be another than the request.
LEMMA RecvResponseStep ==
  ASSUME IInv, NEW c \in Slots, NEW n \in 0 .. 2, RecvResponse(c, n) PROVE IInv'
<1>0. TypeOK /\ client \in [Slots -> EchoClients] /\ Counted(c) /\ client[c].reg = Awaited(c)
  BY DEF IInv, TypeOK, Registered
<1>1. temp_rate_limit' \in 0 .. rate_limit /\ begun' \in Nat /\ LimitKept'
  BY LimitUntouched DEF RecvResponse
<1>2. /\ client[c].got \in 0 .. 2 /\ client[c].unread \in 0 .. 2 /\ n <= client[c].unread
      /\ client[c].got + client[c].unread <= 2
  BY <1>0, Fields DEF RecvResponse, Counted
<1>3. CASE Deal(c, {"RecvResponse"}, [got |-> client[c].got + n, unread |-> client[c].unread - n])
  <2>1. /\ UNCHANGED <<faults, now, timers, timer_data, pc>>
        /\ batch' \subseteq batch /\ c \notin batch' /\ client[c].status = "RecvResponse"
        /\ Become(c, [got |-> client[c].got + n, unread |-> client[c].unread - n])
    BY <1>3, DealFacts
  <2>2. /\ client' = [client EXCEPT ![c] = client'[c]]
        /\ client'[c] = [status |-> client[c].status, send |-> client[c].send,
                         got |-> client[c].got + n, success |-> client[c].success,
                         failure |-> client[c].failure, detail |-> client[c].detail,
                         reg |-> client[c].reg, link |-> client[c].link,
                         unread |-> client[c].unread - n]
    BY <1>0, <2>1, Becomes
  <2>3. client'[c] \in EchoClients
    <3>1. client[c].got + n \in 0 .. 2 /\ client[c].unread - n \in 0 .. 2  BY <1>2
    <3>2. client[c] \in EchoClients  BY <1>0
    <3>3. /\ client[c].status \in Statuses /\ client[c].send \in 0 .. 2
          /\ client[c].success \in 0 .. max_req_count
          /\ client[c].failure \in 0 .. 1 /\ client[c].detail \in 0 .. 1
          /\ client[c].reg \in {"none", "in", "out"}
          /\ client[c].link \in {"none", "pending", "refused", "up", "down"}
      BY <3>2, Fields
    <3>4. QED  BY <2>2, <3>1, <3>3 DEF EchoClients
  <2>4. client'[c].reg = Awaited(c)'  BY <1>0, <2>2 DEF Awaited
  <2>5. Counted(c)'  BY <1>0, <1>2, <2>1, <2>2 DEF Counted
  <2>6. QED  BY <1>1, <2>1, <2>2, <2>3, <2>4, <2>5, OneClient
<1>4. CASE Deal(c, {"RecvResponse"}, [status |-> "Success", got |-> 2, unread |-> 0, reg |-> "out"])
  <2>1. /\ UNCHANGED <<faults, now, timers, timer_data, pc>>
        /\ batch' \subseteq batch /\ c \notin batch' /\ client[c].status = "RecvResponse"
        /\ Become(c, [status |-> "Success", got |-> 2, unread |-> 0, reg |-> "out"])
    BY <1>4, DealFacts
  <2>2. /\ client' = [client EXCEPT ![c] = client'[c]]
        /\ client'[c] = [status |-> "Success", send |-> client[c].send,
                         got |-> 2, success |-> client[c].success,
                         failure |-> client[c].failure, detail |-> client[c].detail,
                         reg |-> "out", link |-> client[c].link, unread |-> 0]
    BY <1>0, <2>1, Becomes
  <2>3. client'[c] \in EchoClients  BY <1>0, <2>2, Fields DEF EchoClients, Statuses
  <2>4. client'[c].reg = Awaited(c)'  BY <2>2 DEF Awaited
  <2>5. Counted(c)'  BY <1>0, <2>1, <2>2 DEF Counted
  <2>6. QED  BY <1>1, <2>1, <2>2, <2>3, <2>4, <2>5, OneClient
<1>5. CASE "mismatch" \in faults /\ Deal(c, {"RecvResponse"}, Failed(c, 0))
  BY <1>1, <1>5, FailedStep
<1>6. QED  BY <1>3, <1>4, <1>5 DEF RecvResponse

\* The server closes the connection, or read() fails.
LEMMA RecvFailsStep == ASSUME IInv, NEW c \in Slots, RecvFails(c) PROVE IInv'
<1>0. TypeOK /\ client \in [Slots -> EchoClients] /\ Counted(c)  BY DEF IInv, TypeOK
<1>1. temp_rate_limit' \in 0 .. rate_limit /\ begun' \in Nat /\ LimitKept'
  BY LimitUntouched DEF RecvFails
<1>2. CASE Deal(c, {"RecvResponse"}, Closed("Finish"))
  <2>1. /\ UNCHANGED <<faults, now, timers, timer_data, pc>>
        /\ batch' \subseteq batch /\ c \notin batch' /\ client[c].status = "RecvResponse"
        /\ Become(c, [status |-> "Finish", reg |-> "none", link |-> "none", unread |-> 0])
    BY <1>2, DealFacts DEF Closed
  <2>2. /\ client' = [client EXCEPT ![c] = client'[c]]
        /\ client'[c] = [status |-> "Finish", send |-> client[c].send,
                         got |-> client[c].got, success |-> client[c].success,
                         failure |-> client[c].failure, detail |-> client[c].detail,
                         reg |-> "none", link |-> "none", unread |-> 0]
    BY <1>0, <2>1, Becomes
  <2>3. client'[c] \in EchoClients  BY <1>0, <2>2, Fields DEF EchoClients, Statuses
  <2>4. client'[c].reg = Awaited(c)'  BY <2>2 DEF Awaited
  <2>5. Counted(c)'  BY <1>0, <2>1, <2>2, Fields DEF Counted
  <2>6. QED  BY <1>1, <2>1, <2>2, <2>3, <2>4, <2>5, OneClient
<1>3. CASE Deal(c, {"RecvResponse"}, Failed(c, 1))  BY <1>1, <1>3, FailedStep
<1>4. QED  BY <1>2, <1>3 DEF RecvFails

\* The next request, or the end of the client.
LEMMA DealSuccessStep == ASSUME IInv, NEW c \in Slots, DealSuccess(c) PROVE IInv'
<1>0. TypeOK /\ client \in [Slots -> EchoClients] /\ Counted(c)  BY DEF IInv, TypeOK
<1>1. temp_rate_limit' \in 0 .. rate_limit /\ begun' \in Nat /\ LimitKept'
  BY LimitUntouched DEF DealSuccess
<1> DEFINE last == client[c].success + 1 >= max_req_count
<1>2. /\ UNCHANGED <<faults, now, timers, timer_data, pc>>
      /\ batch' \subseteq batch /\ c \notin batch' /\ client[c].status = "Success"
      /\ Become(c, [status  |-> IF last THEN "Finish" ELSE "SendRequest",
                    send    |-> 0,
                    got     |-> 0,
                    success |-> client[c].success + 1,
                    reg     |-> IF last THEN "none" ELSE "out",
                    link    |-> IF last THEN "none" ELSE client[c].link])
  BY DealFacts DEF DealSuccess, Succeeded
<1>3. /\ client' = [client EXCEPT ![c] = client'[c]]
      /\ client'[c] = [status |-> IF last THEN "Finish" ELSE "SendRequest", send |-> 0,
                       got |-> 0, success |-> client[c].success + 1,
                       failure |-> client[c].failure, detail |-> client[c].detail,
                       reg |-> IF last THEN "none" ELSE "out",
                       link |-> IF last THEN "none" ELSE client[c].link,
                       unread |-> client[c].unread]
  BY <1>0, <1>2, Becomes
<1>4. /\ client[c].success < max_req_count /\ client[c].success \in 0 .. max_req_count
      /\ max_req_count \in Nat
  BY <1>0, <1>2, Fields, BenchmarkAssumption DEF Counted
<1>5. client'[c] \in EchoClients  BY <1>0, <1>3, <1>4, Fields DEF EchoClients, Statuses
<1>6. client'[c].reg = Awaited(c)'  BY <1>3 DEF Awaited
<1>7. Counted(c)'  BY <1>0, <1>2, <1>3, <1>4, Fields DEF Counted
<1>8. QED  BY <1>1, <1>2, <1>3, <1>5, <1>6, <1>7, OneClient
-----------------------------------------------------------------------------
(* The loop and the timers. *)

\* What is known of the clients, the limit and the assertions.
Clients ==
  /\ client \in [Slots -> EchoClients]
  /\ \A c \in Slots : client[c].reg = Awaited(c) /\ Counted(c)

\* It stays while they do.
LEMMA ClientsStay ==
  ASSUME IInv, UNCHANGED <<faults, client, temp_rate_limit, begun>>
  PROVE  /\ Clients' /\ LimitKept' /\ (\A c \in batch : Expects(c)')
         /\ temp_rate_limit' \in 0 .. rate_limit /\ begun' \in Nat /\ faults' \in Faults
BY DEF IInv, TypeOK, Registered, Clients, LimitKept, Expects, Awaited, Counted

\* Time goes on.
LEMMA TickStep == ASSUME IInv, Tick PROVE IInv'
<1>1. /\ UNCHANGED <<faults, client, temp_rate_limit, begun, batch, timers, timer_data, pc>>
      /\ now' = now + 1 /\ now < run_time
  BY DEF Tick, loop
<1>2. now' \in 0 .. run_time  BY <1>1, BenchmarkAssumption DEF IInv, TypeOK
<1>3. TypeOK'  BY <1>1, <1>2, ClientsStay DEF IInv, TypeOK, Clients
<1>4. TimersKept' /\ AbortKept'  BY <1>1 DEF IInv, TimersKept, AbortKept, Running
<1>5. QED  BY <1>1, <1>3, <1>4, ClientsStay DEF IInv, Clients, Registered

\* The loop takes the timer that is due first.
LEMMA GetLastTimerStep == ASSUME IInv, GetLastTimer PROVE IInv'
<1>1. /\ UNCHANGED <<faults, now, client, temp_rate_limit, begun, batch>>
      /\ pc = "top" /\ pc' = "wait"
  BY DEF GetLastTimer
<1>2. \/ timers = {} /\ timer_data' = {} /\ timers' = {}
      \/ \E t \in timers : timer_data' = {t} /\ timers' = timers \ {t}
  BY DEF GetLastTimer
<1>3. timers' \cup timer_data' = timers /\ timers' \cap timer_data' = {}
      /\ \A t, u \in timer_data' : t = u
  BY <1>2
<1>4. TypeOK'
  <2>1. timers' \cup timer_data' \subseteq
          {"exit", "check", "refresh"} \X (0 .. run_time + refresh_period + 1)
    BY <1>3 DEF IInv, TypeOK
  <2>2. QED  BY <1>1, <2>1, ClientsStay DEF IInv, TypeOK, Clients
<1>5. TimersKept'
  <2>1. ASSUME "eintr" \notin faults, NEW name \in {"exit", "check", "refresh"}
        PROVE  \E t \in timers : t[1] = name
    BY <1>1, <2>1 DEF IInv, TimersKept, Running
  <2>2. \A t, u \in timers : t[1] = u[1] => t = u  BY DEF IInv, TimersKept
  <2>3. QED  BY <1>1, <1>3, <2>1, <2>2 DEF TimersKept
<1>6. AbortKept'  BY <1>1 DEF AbortKept
<1>7. QED  BY <1>1, <1>4, <1>5, <1>6, ClientsStay DEF IInv, Clients, Registered

\* A client is reported for what its status waits for.
LEMMA EpollWaitStep == ASSUME IInv, EpollWait PROVE IInv'
<1>1. /\ UNCHANGED <<faults, now, timers, timer_data, client, temp_rate_limit, begun>>
      /\ pc = "wait" /\ pc' = "events" /\ batch' = Ready
  BY DEF EpollWait
<1>2. batch' \subseteq Slots  BY <1>1 DEF Ready
<1>3. TypeOK'  BY <1>1, <1>2, ClientsStay DEF IInv, TypeOK, Clients
<1>4. \A c \in Ready : Expects(c)'
  <2> SUFFICES ASSUME NEW c \in Ready PROVE Expects(c)  BY <1>1 DEF Expects
  <2>1. /\ c \in Slots /\ client[c].reg = Awaited(c) /\ client[c].status \in Statuses
        /\ client[c].reg \in {"in", "out"} /\ (client[c].reg = "out" => client[c].link # "pending")
    BY Fields DEF Ready, IInv, TypeOK, Registered
  <2>2. QED  BY <2>1 DEF Expects, Awaited, Statuses
<1>5. TimersKept' /\ AbortKept'  BY <1>1 DEF IInv, TimersKept, AbortKept, Running
<1>6. QED  BY <1>1, <1>3, <1>4, <1>5, ClientsStay DEF IInv, Clients, Registered

\* Without a timer that is due the loop begins again.
LEMMA NoTimerStep == ASSUME IInv, EpollWaitFails \/ NoTimer PROVE IInv'
<1>1. /\ UNCHANGED <<faults, now, timers, timer_data, client, temp_rate_limit, begun, batch>>
      /\ pc \in {"wait", "events"} /\ pc' = "top" /\ ("eintr" \in faults \/ timer_data = {})
  BY DEF EpollWaitFails, NoTimer
<1>2. TypeOK'  BY <1>1, ClientsStay DEF IInv, TypeOK, Clients
<1>3. TimersKept' /\ AbortKept'  BY <1>1 DEF IInv, TimersKept, AbortKept, Running
<1>4. QED  BY <1>1, <1>2, <1>3, ClientsStay DEF IInv, Clients, Registered

\* A timer with another time takes the place of the one with its callback.
LEMMA TimerBack ==
  ASSUME IInv, NEW t \in timer_data, NEW time \in 0 .. run_time + refresh_period + 1,
         UNCHANGED faults,
         pc = "events", pc' = "top", timer_data' = {}, timers' = timers \cup {<<t[1], time>>}
  PROVE  /\ TimersKept'
         /\ timers' \cup timer_data' \subseteq
              {"exit", "check", "refresh"} \X (0 .. run_time + refresh_period + 1)
<1>1. /\ timers \cup timer_data \subseteq
           {"exit", "check", "refresh"} \X (0 .. run_time + refresh_period + 1)
      /\ timers \cap timer_data = {} /\ timer_data = {t}
      /\ \A u, v \in timers \cup timer_data : u[1] = v[1] => u = v
  BY DEF IInv, TypeOK, TimersKept
<1>2. \A u \in timers : u[1] # t[1]  BY <1>1
<1>3. \A u, v \in timers' : u[1] = v[1] => u = v  BY <1>1, <1>2
<1>4. ASSUME "eintr" \notin faults, NEW name \in {"exit", "check", "refresh"}
      PROVE  \E u \in timers' : u[1] = name
  <2>1. PICK u \in timers \cup timer_data : u[1] = name
    BY <1>4 DEF IInv, TimersKept, Running
  <2>2. CASE u \in timers  BY <2>1, <2>2
  <2>3. CASE u = t
    <3>1. <<t[1], time>> \in timers' /\ <<t[1], time>>[1] = name  BY <2>1, <2>3
    <3>2. QED  BY <3>1
  <2>4. QED  BY <1>1, <2>1, <2>2, <2>3
<1>5. TimersKept'  BY <1>3, <1>4 DEF TimersKept
<1>6. QED  BY <1>1, <1>5

\* A timer that is not due goes back.
LEMMA RequeueStep == ASSUME IInv, Requeue PROVE IInv'
<1>1. /\ UNCHANGED <<faults, now, client, temp_rate_limit, begun, batch>>
      /\ pc = "events" /\ pc' = "top" /\ timer_data' = {}
  BY DEF Requeue
<1>2. PICK t \in timer_data : timers' = timers \cup {t}  BY DEF Requeue, PushBack
<1>3. t \in {"exit", "check", "refresh"} \X (0 .. run_time + refresh_period + 1)
  BY DEF IInv, TypeOK
<1>4. t = <<t[1], t[2]>> /\ t[2] \in 0 .. run_time + refresh_period + 1  BY <1>3
<1>5. /\ TimersKept'
      /\ timers' \cup timer_data' \subseteq
           {"exit", "check", "refresh"} \X (0 .. run_time + refresh_period + 1)
  BY <1>1, <1>2, <1>4, TimerBack
<1>6. TypeOK'  BY <1>1, <1>5, ClientsStay DEF IInv, TypeOK, Clients
<1>7. QED  BY <1>1, <1>5, <1>6, ClientsStay DEF IInv, Clients, Registered, AbortKept

\* A callback that registers its timer again does so within the clock's range.
LEMMA RegisteredTimer ==
  ASSUME IInv, NEW name, NEW period \in {1, refresh_period}, Run(name), Register(name, period),
         pc' = "top"
  PROVE  /\ TimersKept'
         /\ timers' \cup timer_data' \subseteq
              {"exit", "check", "refresh"} \X (0 .. run_time + refresh_period + 1)
<1>1. PICK t \in timer_data : t[1] = name  BY DEF Run
<1>2. now + period \in 0 .. run_time + refresh_period + 1
  BY BenchmarkAssumption DEF IInv, TypeOK
<1>3. QED  BY <1>1, <1>2, TimerBack DEF Run, Register

\* The run ends.
LEMMA ThreadExitStep == ASSUME IInv, ThreadExit PROVE IInv'
<1>1. /\ UNCHANGED <<faults, now, timers, client, temp_rate_limit, begun, batch>>
      /\ timer_data' = {} /\ pc' = "ended"
  BY DEF ThreadExit, Run
<1>2. TypeOK'  BY <1>1, ClientsStay DEF IInv, TypeOK, Clients
<1>3. TimersKept' /\ AbortKept'  BY <1>1 DEF IInv, TimersKept, AbortKept, Running
<1>4. QED  BY <1>1, <1>2, <1>3, ClientsStay DEF IInv, Clients, Registered

\* The limit is there again, for all that begin from now on.
LEMMA RefreshStep == ASSUME IInv, Refresh PROVE IInv'
<1>1. /\ UNCHANGED <<faults, now, client, batch>> /\ pc' = "top"
      /\ temp_rate_limit' = rate_limit /\ begun' = 0
  BY DEF Refresh, Run
<1>2. /\ TimersKept'
      /\ timers' \cup timer_data' \subseteq
           {"exit", "check", "refresh"} \X (0 .. run_time + refresh_period + 1)
  BY <1>1, RegisteredTimer DEF Refresh
<1>3. temp_rate_limit' \in 0 .. rate_limit /\ begun' \in Nat /\ LimitKept'
  BY <1>1, BenchmarkAssumption DEF LimitKept
<1>4. TypeOK'  BY <1>1, <1>2, <1>3 DEF IInv, TypeOK
<1>5. Registered' /\ AbortKept' /\ \A c \in Slots : Counted(c)'
  BY <1>1 DEF IInv, Registered, Awaited, Expects, AbortKept, Counted
<1>6. QED  BY <1>2, <1>3, <1>4, <1>5 DEF IInv

\* A client that is not valid is replaced, one that was stopped is registered again.
LEMMA Checked ==
  ASSUME IInv, Check, pc' = "top"
  PROVE  Clients' /\ faults' = faults
<1>1. UNCHANGED <<faults, temp_rate_limit>>  BY DEF Check, Run
<1>2. PICK invalid \in SUBSET Slots : \E new \in [invalid -> NewClients] :
        client' = [c \in Slots |-> IF c \in invalid THEN new[c] ELSE TryRestart(c)]
  BY DEF Check
<1>3. PICK new \in [invalid -> NewClients] :
        client' = [c \in Slots |-> IF c \in invalid THEN new[c] ELSE TryRestart(c)]
  BY <1>2
<1>4. ASSUME NEW c \in Slots
      PROVE  client'[c] \in EchoClients /\ client'[c].reg = Awaited(c)' /\ Counted(c)'
  <2>1. CASE c \in invalid
    <3>1. client'[c] \in NewClients  BY <1>3, <2>1
    <3>2. QED  BY <3>1, NewClient, BenchmarkAssumption DEF Awaited, Counted
  <2>2. CASE c \notin invalid
    <3>1. client'[c] = TryRestart(c) /\ client[c] \in EchoClients
      BY <1>3, <2>2 DEF IInv, TypeOK
    <3>2. client[c].reg = Awaited(c) /\ Counted(c)  BY DEF IInv, Registered
    <3>3. CASE client[c].status = "Stop" /\ temp_rate_limit > 0
      <4>1. client'[c] = [client[c] EXCEPT !.status = "SendRequest", !.reg = "out"]
        BY <3>1, <3>3 DEF TryRestart
      <4>2. client'[c] = [status |-> "SendRequest", send |-> client[c].send,
                          got |-> client[c].got, success |-> client[c].success,
                          failure |-> client[c].failure, detail |-> client[c].detail,
                          reg |-> "out", link |-> client[c].link, unread |-> client[c].unread]
        BY <3>1, <4>1 DEF EchoClients
      <4>3. QED  BY <1>1, <3>1, <3>2, <3>3, <4>2, Fields DEF EchoClients, Statuses, Awaited, Counted
    <3>4. CASE ~(client[c].status = "Stop" /\ temp_rate_limit > 0)
      <4>1. client'[c] = client[c]  BY <3>1, <3>4 DEF TryRestart
      <4>2. QED  BY <1>1, <3>1, <3>2, <4>1 DEF Awaited, Counted
    <3>5. QED  BY <3>3, <3>4
  <2>3. QED  BY <2>1, <2>2
<1>5. client' \in [Slots -> EchoClients]  BY <1>3, <1>4
<1>6. QED  BY <1>1, <1>4, <1>5 DEF Clients

\* The assertions hold of every client that is not valid, unless one has failed without a
\* reason.
LEMMA StatsAreRight ==
  ASSUME IInv, NEW c \in Slots, "mismatch" \notin faults
  PROVE  StatIsRight(c)
<1>1. client[c] \in EchoClients /\ Counted(c)  BY DEF IInv, TypeOK
<1>2. client[c].failure \in 0 .. 1 /\ client[c].detail = client[c].failure  BY <1>1, Fields DEF Counted
<1>3. client[c].status # "Failure" => client[c].failure = 0  BY <1>1 DEF Counted
<1>4. QED  BY <1>2, <1>3 DEF StatIsRight

\* The check of the clients.
LEMMA CheckStep == ASSUME IInv, Check PROVE IInv'
<1>1. UNCHANGED <<faults, now, temp_rate_limit, begun, batch>> /\ batch = {}
      /\ pc = "events" /\ timer_data' = {}
  BY DEF Check, Run
<1>2. temp_rate_limit' \in 0 .. rate_limit /\ begun' \in Nat /\ LimitKept'
  BY <1>1, LimitUntouched
<1>3. CASE pc' = "top" /\ Register("check", 1)
  <2>1. Clients'  BY <1>3, Checked
  <2>2. /\ TimersKept'
        /\ timers' \cup timer_data' \subseteq
             {"exit", "check", "refresh"} \X (0 .. run_time + refresh_period + 1)
    BY <1>3, RegisteredTimer DEF Check
  <2>3. TypeOK'  BY <1>1, <1>2, <1>3, <2>1, <2>2 DEF IInv, TypeOK, Clients
  <2>4. Registered' /\ AbortKept' /\ \A c \in Slots : Counted(c)'
    BY <1>1, <1>3, <2>1 DEF Registered, Clients, AbortKept
  <2>5. QED  BY <1>2, <2>2, <2>3, <2>4 DEF IInv
<1>4. CASE pc' = "aborted" /\ UNCHANGED <<client, timers>>
           /\ \E c \in Slots : ~StatIsRight(c)
  <2>1. "mismatch" \in faults  BY <1>4, StatsAreRight
  <2>2. Clients'  BY <1>1, <1>4, ClientsStay
  <2>3. TypeOK'  BY <1>1, <1>2, <1>4, <2>2 DEF IInv, TypeOK, Clients
  <2>4. Registered' /\ AbortKept' /\ \A c \in Slots : Counted(c)'
    BY <1>1, <1>4, <2>1, <2>2 DEF Registered, Clients, AbortKept
  <2>5. TimersKept'  BY <1>1, <1>4 DEF IInv, TimersKept, Running
  <2>6. QED  BY <1>2, <2>3, <2>4, <2>5 DEF IInv
<1>5. QED  BY <1>3, <1>4 DEF Check
-----------------------------------------------------------------------------
\* The invariant is inductive.
LEMMA StepIInv == IInv /\ [Next]_vars => IInv'
<1> SUFFICES ASSUME IInv, [Next]_vars PROVE IInv'  OBVIOUS
<1>1. CASE UNCHANGED vars
  <2>1. UNCHANGED <<faults, now, timers, timer_data, client, temp_rate_limit, begun, batch, pc>>
    BY <1>1 DEF vars
  <2>2. TypeOK' /\ TimersKept' /\ AbortKept'
    BY <2>1 DEF IInv, TypeOK, TimersKept, AbortKept, Running
  <2>3. QED  BY <2>1, <2>2, ClientsStay DEF IInv, Clients, Registered
<1>2. CASE Tick  BY <1>2, TickStep
<1>3. CASE Server  BY <1>3, ServerStep
<1>4. CASE EchoClient
  BY <1>4, CheckConnectStep, StopSendingStep, SendFailsStep, RecvFailsStep, DealSuccessStep,
     SendRequestStep, RecvResponseStep DEF EchoClient
<1>5. CASE GetLastTimer \/ EpollWait \/ EpollWaitFails \/ NoTimer \/ Requeue
  BY <1>5, GetLastTimerStep, EpollWaitStep, NoTimerStep, RequeueStep
<1>6. CASE ThreadExit \/ Refresh \/ Check
  BY <1>6, ThreadExitStep, RefreshStep, CheckStep
<1>7. QED  BY <1>1, <1>2, <1>3, <1>4, <1>5, <1>6 DEF Next, Thread

\* What every reachable state satisfies.
THEOREM Invariance == Spec => []IInv
BY InitIInv, StepIInv, PTL DEF Spec

\* Types, and no client succeeds more often than it is asked to.
THEOREM TypeCorrect == Spec => []TypeOK
<1>1. IInv => TypeOK  BY DEF IInv
<1>2. QED  BY <1>1, Invariance, PTL

\* Every client waits for the event its status needs, through stops, restarts and
\* replacements, and an event is dealt with by the client that caused it.
THEOREM ClientsAreRegistered == Spec => []Registered
<1>1. IInv => Registered  BY DEF IInv
<1>2. QED  BY <1>1, Invariance, PTL

\* The clients of a thread begin no more requests in a period than -rate_limit says,
\* however many they are.
THEOREM LimitHolds == Spec => []RateLimited
<1>1. IInv => RateLimited
  <2> SUFFICES ASSUME IInv PROVE RateLimited  OBVIOUS
  <2>1. temp_rate_limit \in 0 .. rate_limit /\ rate_limit \in Nat /\ begun \in Nat
        /\ begun + temp_rate_limit <= rate_limit
    BY BenchmarkAssumption DEF IInv, TypeOK, LimitKept
  <2>2. QED  BY <2>1 DEF RateLimited
<1>2. QED  BY <1>1, Invariance, PTL

\* Each callback has at most one timer, and exactly one until the run ends unless a signal
\* interrupts epoll_wait.
THEOREM TimersAreSingle == Spec => []OneTimer
<1>1. IInv => OneTimer
  <2> SUFFICES ASSUME IInv, NEW name \in {"exit", "check", "refresh"}
               PROVE  LET pending == {t \in timers \cup timer_data : t[1] = name}
                      IN  /\ Cardinality(pending) <= 1 /\ timers \cap timer_data = {}
                          /\ Running /\ "eintr" \notin faults => pending # {}
    BY DEF OneTimer
  <2> DEFINE pending == {t \in timers \cup timer_data : t[1] = name}
  <2>1. pending = {} \/ \E t : pending = {t}  BY DEF IInv, TimersKept
  <2>2. Cardinality(pending) \in {0, 1}
    <3> HIDE DEF pending
    <3>1. QED  BY <2>1, FS_EmptySet, FS_Singleton
  <2>3. Running /\ "eintr" \notin faults => pending # {}  BY DEF IInv, TimersKept
  <2>4. timers \cap timer_data = {}  BY DEF IInv, TimersKept
  <2>5. QED  BY <2>2, <2>3, <2>4
<1>2. QED  BY <1>1, Invariance, PTL

\* The assertions of getDealStat fail only after the server has returned something else than
\* it was sent, which Failure counts without a reason.
THEOREM OnlyMismatchAborts == Spec => [](NoAbort \/ "mismatch" \in faults)
<1>1. IInv => NoAbort \/ "mismatch" \in faults  BY DEF IInv, AbortKept, NoAbort
<1>2. QED  BY <1>1, Invariance, PTL
=============================================================================
