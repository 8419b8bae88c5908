--------------------------- MODULE ReactorProofs ---------------------------
(***************************************************************************)
(* No event is lost, none is stale, and a loop that blocks does so only in *)
(* the middle of a request or a reply: for every program and command line, *)
(* and any number of connections.                                          *)
(***************************************************************************)
EXTENDS Reactor, TLAPS

\* The types of what the invariant speaks of, and what the programs have in common.
LEMMA Typed ==
  ASSUME TypeOK
  PROVE  /\ peer \in [Conns -> BOOLEAN] /\ edge \in [Conns -> BOOLEAN]
         /\ unread \in [Conns -> Nat] /\ room \in [Conns -> 0 .. 1]
         /\ mem \in [Conns -> {"new", "backlog", "live", "freed"}]
         /\ reg \in [Conns -> {"none", "in", "out"}]
         /\ got \in [Conns -> 0 .. 2] /\ left \in [Conns -> 0 .. 2]
         /\ batch \subseteq (Conns \cup {None}) \X {"in", "out"}
         /\ cur \in (Conns \cup {None}) \X {"in", "out"}
         /\ None \notin Conns
         /\ "et" \in options \/ Blocking => "multiio" \in options
         /\ Blocking => "et" \notin options /\ "writefirst" \notin options
         /\ "few" \in options => Blocking
<1>1. options \in Options /\ MaxUnread \in Nat  BY ReactorAssumption DEF TypeOK
<1>2. unread \in [Conns -> Nat]  BY <1>1 DEF TypeOK
<1>3. QED  BY <1>1, <1>2, ReactorAssumption DEF TypeOK, Blocking

\* Where every program starts.
LEMMA InitIInv == Init => IInv
<1> SUFFICES ASSUME Init PROVE IInv  OBVIOUS
<1>1. TypeOK  BY ReactorAssumption DEF Init, TypeOK, NoEvent
<1>2. QED  BY <1>1 DEF Init, IInv, Batched, Handled, Handling, Resting, Apart
-----------------------------------------------------------------------------
(* The clients. *)

\* What a client does makes its connection ready for more, and epoll notes that.
LEMMA ClientEffect ==
  ASSUME TypeOK, Client
  PROVE  /\ TypeOK' /\ UNCHANGED <<options, reg, got, left, batch, pc, cur>>
         /\ \A d \in Conns :
              /\ Readable(d) => Readable(d)'
              /\ Writable(d) => Writable(d)'
              /\ edge[d] => edge'[d]
              /\ Due(d)' => Due(d) \/ edge'[d]
              /\ mem'[d] = mem[d] \/ (mem[d] = "new" /\ mem'[d] = "backlog")
<1> USE Typed
<1>1. PICK c \in Conns : Connect(c) \/ ClientSend(c) \/ ClientRecv(c) \/ ClientClose(c)
  BY DEF Client
<1>2. UNCHANGED <<options, reg, got, left, batch, pc, cur>>
  BY <1>1 DEF Connect, ClientSend, ClientRecv, ClientClose, reactor
<1>3. CASE Connect(c)
  <2>1. mem[c] = "new" /\ mem' = [mem EXCEPT ![c] = "backlog"] /\ UNCHANGED <<peer, unread, room, edge>>
    BY <1>3 DEF Connect, socket
  <2>2. mem' \in [Conns -> {"new", "backlog", "live", "freed"}]  BY <2>1
  <2>3. TypeOK'  BY <1>2, <2>1, <2>2 DEF TypeOK
  <2>4. QED  BY <1>2, <2>1, <2>3 DEF Readable, Writable, Due
<1>4. CASE ClientSend(c)
  <2>1. /\ unread' = [unread EXCEPT ![c] = @ + 1] /\ unread[c] < MaxUnread
        /\ edge' = [edge EXCEPT ![c] = @ \/ reg[c] \in {"in"}]
        /\ UNCHANGED <<peer, room, mem>>
    BY <1>4 DEF ClientSend, Notice
  <2>2. unread[c] \in Nat /\ unread'[c] = unread[c] + 1
        /\ \A d \in Conns \ {c} : unread'[d] = unread[d]
    BY <2>1
  <2>3. /\ edge' \in [Conns -> BOOLEAN] /\ (edge'[c] <=> edge[c] \/ reg[c] = "in")
        /\ \A d \in Conns \ {c} : edge'[d] = edge[d]
    BY <2>1
  <2>4. TypeOK'
    <3>1. unread' \in [Conns -> 0 .. MaxUnread]  BY <2>1, ReactorAssumption DEF TypeOK
    <3>2. QED  BY <1>2, <2>1, <2>3, <3>1 DEF TypeOK
  <2>5. QED  BY <1>2, <2>1, <2>2, <2>3, <2>4 DEF Readable, Writable, Due
<1>5. CASE ClientRecv(c)
  <2>1. /\ room' = [room EXCEPT ![c] = 1]
        /\ edge' = [edge EXCEPT ![c] = @ \/ reg[c] \in {"out"}]
        /\ UNCHANGED <<peer, unread, mem>>
    BY <1>5 DEF ClientRecv, Notice
  <2>2. /\ room' \in [Conns -> 0 .. 1] /\ room'[c] = 1
        /\ \A d \in Conns \ {c} : room'[d] = room[d]
    BY <2>1
  <2>3. /\ edge' \in [Conns -> BOOLEAN] /\ (edge'[c] <=> edge[c] \/ reg[c] = "out")
        /\ \A d \in Conns \ {c} : edge'[d] = edge[d]
    BY <2>1
  <2>4. TypeOK'  BY <1>2, <2>1, <2>2, <2>3 DEF TypeOK
  <2>5. QED  BY <1>2, <2>1, <2>2, <2>3, <2>4 DEF Readable, Writable, Due
<1>6. CASE ClientClose(c)
  <2>1. /\ peer' = [peer EXCEPT ![c] = FALSE]
        /\ edge' = [edge EXCEPT ![c] = @ \/ reg[c] \in {"in", "out"}]
        /\ UNCHANGED <<unread, room, mem>>
    BY <1>6 DEF ClientClose, Notice
  <2>2. /\ peer' \in [Conns -> BOOLEAN] /\ ~peer'[c]
        /\ \A d \in Conns \ {c} : peer'[d] = peer[d]
    BY <2>1
  <2>3. /\ edge' \in [Conns -> BOOLEAN] /\ (edge'[c] <=> edge[c] \/ reg[c] \in {"in", "out"})
        /\ \A d \in Conns \ {c} : edge'[d] = edge[d]
    BY <2>1
  <2>4. TypeOK'  BY <1>2, <2>1, <2>2, <2>3 DEF TypeOK
  <2>5. QED  BY <1>2, <2>1, <2>2, <2>3, <2>4 DEF Readable, Writable, Due
<1>7. QED  BY <1>1, <1>3, <1>4, <1>5, <1>6

\* So nothing that is due is overlooked.
LEMMA ClientStep == ASSUME IInv, Client PROVE IInv'
<1> USE Typed
<1>1. TypeOK  BY DEF IInv
<1>2. /\ TypeOK' /\ UNCHANGED <<options, reg, got, left, batch, pc, cur>>
      /\ \A d \in Conns :
           /\ Readable(d) => Readable(d)'
           /\ Writable(d) => Writable(d)'
           /\ edge[d] => edge'[d]
           /\ Due(d)' => Due(d) \/ edge'[d]
           /\ mem'[d] = mem[d] \/ (mem[d] = "new" /\ mem'[d] = "backlog")
  BY <1>1, ClientEffect
<1>3. \A d \in Conns : Due(d) => Due(d)'  BY <1>2 DEF Due
<1>4. Batched'
  <2>1. \A event \in batch : event[1] # None => event[1] \in Conns  BY <1>1
  <2>2. QED  BY <1>2, <1>3, <2>1 DEF IInv, Batched, Handling, Blocking
<1>5. Handled'  BY <1>2 DEF IInv, Handled, Handling, Blocking
<1>6. ASSUME NEW d \in Conns PROVE Resting(d)' /\ Apart(d)'
  <2>1. Resting(d) /\ Apart(d)  BY DEF IInv
  <2>2. Resting(d)'  BY <1>2, <2>1 DEF Resting, Handling
  <2>3. Apart(d)'  BY <1>2, <2>1 DEF Apart
  <2>4. QED  BY <2>2, <2>3
<1>7. QED  BY <1>2, <1>4, <1>5, <1>6 DEF IInv
-----------------------------------------------------------------------------
(* The loop. *)

\* epoll_wait reports what is due, and poll and select find it.
LEMMA WaitStep == ASSUME IInv, EpollWait \/ PollWait PROVE IInv'
<1> USE Typed
<1>0. TypeOK  BY DEF IInv
<1>1. /\ UNCHANGED <<options, peer, unread, room, mem, reg, got, left, cur>>
      /\ pc = "wait" /\ pc' = "events" /\ batch = {}
  BY DEF EpollWait, PollWait, socket, conn, IInv, Batched
<1>2. /\ \A event \in batch' : event[1] # None =>
           event[1] \in Conns /\ event[2] = reg[event[1]] /\ Due(event[1])
      /\ batch' \subseteq (Conns \cup {None}) \X {"in", "out"}
  <2>1. CASE EpollWait
    <3>1. batch' = Ready  BY <2>1 DEF EpollWait
    <3>2. \A c \in Reported : c \in Conns /\ Due(c)  BY DEF Reported
    <3>3. QED  BY <1>0, <3>1, <3>2 DEF Ready, Due
  <2>2. CASE PollWait
    <3>1. batch' = {<<c, reg[c]>> : c \in Polled} \cup (Ready \cap {NoEvent})
      BY <2>2 DEF PollWait
    <3>2. \A c \in Polled : c \in Conns /\ Due(c)  BY DEF Polled
    <3>3. QED  BY <1>0, <3>1, <3>2 DEF NoEvent, Due
  <2>3. QED  BY <2>1, <2>2
<1>3. edge' \in [Conns -> BOOLEAN]
  BY <1>0 DEF EpollWait, PollWait, conn
<1>4. \A c \in Conns : "et" \in options /\ Due(c) /\ edge[c] =>
        edge'[c] \/ \E event \in batch' : event[1] = c
  <2>1. CASE EpollWait
    <3> SUFFICES ASSUME NEW c \in Conns, Due(c), edge[c]
                 PROVE edge'[c] \/ \E event \in batch' : event[1] = c
      OBVIOUS
    <3>1. c \in Reported  BY DEF Reported
    <3>2. <<c, reg[c]>> \in batch'  BY <2>1, <3>1 DEF EpollWait, Ready
    <3>3. QED  BY <3>2
  <2>2. CASE PollWait  BY <1>0, <2>2 DEF PollWait, Blocking
  <2>3. QED  BY <2>1, <2>2
<1>5. TypeOK'  BY <1>0, <1>1, <1>2, <1>3 DEF TypeOK
<1>6. Batched'
  <2>1. \A c \in Conns : reg[c] # "none" => mem[c] = "live"  BY DEF IInv, Apart
  <2>2. \A c \in Conns : Due(c) => Due(c)' /\ reg[c] # "none"  BY <1>1 DEF Due, Readable, Writable
  <2>3. QED  BY <1>1, <1>2, <2>1, <2>2 DEF Batched, Handling, Blocking
<1>7. Handled'  BY <1>1 DEF Handled, Handling
<1>8. ASSUME NEW c \in Conns PROVE Resting(c)' /\ Apart(c)'
  <2>1. Due(c)' <=> Due(c)  BY <1>1 DEF Due, Readable, Writable
  <2>2. Resting(c) /\ Apart(c) /\ ~Handling  BY <1>1 DEF IInv, Handling
  <2>3. Resting(c)'  BY <1>1, <1>4, <2>1, <2>2 DEF Resting
  <2>4. QED  BY <1>1, <2>2, <2>3 DEF Apart
<1>9. QED  BY <1>5, <1>6, <1>7, <1>8 DEF IInv

\* The last event is handled.
LEMMA EndOfBatchStep == ASSUME IInv, EndOfBatch PROVE IInv'
<1>1. /\ UNCHANGED <<options, peer, unread, room, mem, reg, edge, got, left, batch, cur>>
      /\ pc = "events" /\ pc' = "wait" /\ batch = {}
  BY DEF EndOfBatch, socket, conn
<1>2. TypeOK'  BY <1>1 DEF IInv, TypeOK
<1>3. Batched' /\ Handled'  BY <1>1 DEF Batched, Handled, Handling
<1>4. ASSUME NEW c \in Conns PROVE Resting(c)' /\ Apart(c)'
  BY <1>1 DEF IInv, Resting, Apart, Handling, Due, Readable, Writable
<1>5. QED  BY <1>2, <1>3, <1>4 DEF IInv

\* The new connections are registered, and reported if their request is there.
LEMMA AcceptStep == ASSUME IInv, Accept \/ AcceptBelow PROVE IInv'
<1> USE Typed
<1>0. TypeOK  BY DEF IInv
<1>1. /\ UNCHANGED <<options, peer, unread, room, got, left, pc, cur>>
      /\ pc = "events" /\ batch' = batch \ {<<None, "in">>}
  BY DEF Accept, AcceptBelow, socket, NoEvent
<1>2. PICK new \in SUBSET Backlog :
        /\ \A c \in Conns \ Backlog : mem'[c] = mem[c] /\ reg'[c] = reg[c] /\ edge'[c] = edge[c]
        /\ \A c \in Backlog \ new : mem'[c] \in {"backlog", "freed"} /\ reg'[c] = reg[c]
        /\ \A c \in new : /\ mem'[c] = "live" /\ reg'[c] = "in"
                          /\ "et" \in options => (edge'[c] <=> Readable(c))
        /\ mem' \in [Conns -> {"new", "backlog", "live", "freed"}]
        /\ reg' \in [Conns -> {"none", "in", "out"}] /\ edge' \in [Conns -> BOOLEAN]
  <2>1. CASE Accept
    <3>1. PICK new \in SUBSET Backlog :
            /\ mem' = [c \in Conns |-> IF c \in new THEN "live" ELSE mem[c]]
            /\ reg' = [c \in Conns |-> IF c \in new THEN "in" ELSE reg[c]]
            /\ edge' = [c \in Conns |-> IF c \in new THEN Readable(c) ELSE edge[c]]
      BY <2>1 DEF Accept
    <3>2. \A c \in Conns : Readable(c) \in BOOLEAN  BY <1>0 DEF Readable
    <3>3. edge' \in [Conns -> BOOLEAN]  BY <1>0, <3>1, <3>2
    <3>4. QED  BY <1>0, <3>1, <3>3 DEF Backlog
  <2>2. CASE AcceptBelow
    <3>1. PICK new \in SUBSET Backlog :
            /\ mem' = [c \in Conns |-> IF c \in new THEN "live"
                                       ELSE IF c \in Backlog THEN "freed" ELSE mem[c]]
            /\ reg' = [c \in Conns |-> IF c \in new THEN "in" ELSE reg[c]]
            /\ edge' = edge
      BY <2>2 DEF AcceptBelow
    <3>2. "et" \notin options  BY <1>0, <2>2 DEF AcceptBelow
    <3>3. QED  BY <1>0, <3>1, <3>2 DEF Backlog
  <2>3. QED  BY <2>1, <2>2
<1>3. \A c \in Backlog : c \in Conns /\ mem[c] = "backlog" /\ reg[c] = "none" /\ got[c] = 0 /\ left[c] = 0
  BY DEF Backlog, IInv, Apart
<1>4. TypeOK'
  <2>1. batch' \subseteq (Conns \cup {None}) \X {"in", "out"}  BY <1>0, <1>1
  <2>2. QED  BY <1>0, <1>1, <1>2, <2>1 DEF TypeOK
<1>5. Batched'
  <2> SUFFICES ASSUME NEW event \in batch', event[1] # None
               PROVE  /\ mem'[event[1]] = "live" /\ reg'[event[1]] = event[2]
                      /\ Blocking => Due(event[1])'
    BY <1>1 DEF Batched, Handling, Blocking
  <2>1. /\ event[1] \in Conns /\ mem[event[1]] = "live" /\ reg[event[1]] = event[2]
        /\ Blocking => Due(event[1])
    BY <1>0, <1>1 DEF IInv, Batched
  <2>2. event[1] \notin Backlog  BY <1>3, <2>1
  <2>3. QED  BY <1>1, <1>2, <2>1, <2>2 DEF Due, Readable, Writable
<1>6. Handled'  BY <1>1 DEF Handled, Handling
<1>7. ASSUME NEW c \in Conns PROVE Resting(c)' /\ Apart(c)'
  <2>1. CASE c \in new
    <3>1. "et" \in options /\ Due(c)' => edge'[c]  BY <1>1, <1>2, <2>1 DEF Due, Readable
    <3>2. QED  BY <1>1, <1>2, <1>3, <2>1, <3>1 DEF Resting, Apart
  <2>2. CASE c \in Backlog \ new  BY <1>1, <1>2, <1>3, <2>2 DEF Resting, Apart
  <2>3. CASE c \notin Backlog
    <3>1. Resting(c) /\ Apart(c) /\ ~Handling  BY <1>1 DEF IInv, Handling
    <3>2. Due(c)' <=> Due(c)  BY <1>1, <1>2, <2>3 DEF Due, Readable, Writable
    <3>3. (\E event \in batch : event[1] = c) => \E event \in batch' : event[1] = c
      BY <1>0, <1>1
    <3>4. Resting(c)'  BY <1>1, <1>2, <2>3, <3>1, <3>2, <3>3 DEF Resting
    <3>5. QED  BY <1>1, <1>2, <2>3, <3>1, <3>4 DEF Apart
  <2>4. QED  BY <2>1, <2>2, <2>3
<1>8. QED  BY <1>4, <1>5, <1>6, <1>7 DEF IInv

\* The next event is taken.
LEMMA HandleStep == ASSUME IInv, NEW c \in Conns, Handle(c) \/ Scan(c) PROVE IInv'
<1> USE Typed
<1>0. TypeOK  BY DEF IInv
<1>1. /\ UNCHANGED <<options, peer, unread, room, mem, reg, edge, got, left>>
      /\ pc = "events" /\ cur' \in batch /\ cur'[1] = c /\ batch' = batch \ {cur'}
      /\ pc' = IF cur'[2] = "in" THEN "read" ELSE "write"
  BY DEF Handle, Scan, socket, conn
<1>2. \A d \in Conns : (Due(d)' <=> Due(d)) /\ (Readable(d)' <=> Readable(d)) /\ (Writable(d)' <=> Writable(d))
  BY <1>1 DEF Due, Readable, Writable
<1>3. c # None /\ mem[c] = "live" /\ reg[c] = cur'[2] /\ (Blocking => Due(c)) /\ ~Handling
  BY <1>0, <1>1 DEF IInv, Batched, Handling
<1>4. cur' \in (Conns \cup {None}) \X {"in", "out"} /\ cur'[2] \in {"in", "out"}  BY <1>0, <1>1
<1>5. TypeOK'
  <2>1. batch' \subseteq (Conns \cup {None}) \X {"in", "out"}  BY <1>0, <1>1
  <2>2. QED  BY <1>0, <1>1, <1>4, <2>1 DEF TypeOK
<1>6. Batched'
  <2>1. \A event \in batch' : event[1] # c
    <3> SUFFICES ASSUME NEW event \in batch', event[1] = c PROVE FALSE  OBVIOUS
    <3>1. event \in batch /\ event[2] = reg[c]  BY <1>1, <1>3 DEF IInv, Batched
    <3>2. event = cur'  BY <1>0, <1>1, <1>3, <1>4, <3>1
    <3>3. QED  BY <1>1, <3>2
  <2>2. \A event \in batch' : event \in batch /\ (event[1] # None => event[1] \in Conns)
    BY <1>0, <1>1
  <2>3. QED  BY <1>1, <1>2, <2>1, <2>2 DEF IInv, Batched, Blocking
<1>7. Handled'
  <2>1. Resting(c)  BY DEF IInv
  <2>2. CASE cur'[2] = "in"
    <3>1. reg[c] = "in" /\ got[c] < 2 /\ left[c] = 0  BY <1>3, <2>1, <2>2 DEF Resting
    <3>2. Blocking => Readable(c)  BY <1>3, <3>1 DEF Due
    <3>3. QED  BY <1>1, <1>2, <1>3, <2>2, <3>1, <3>2 DEF Handled, Blocking
  <2>3. CASE cur'[2] = "out"
    <3>1. reg[c] = "out" /\ got[c] = 2 /\ left[c] > 0  BY <1>3, <2>1, <2>3 DEF Resting
    <3>2. Blocking => Writable(c)  BY <1>3, <3>1 DEF Due
    <3>3. QED  BY <1>1, <1>2, <1>3, <2>3, <3>1, <3>2 DEF Handled, Blocking
  <2>4. QED  BY <1>4, <2>2, <2>3
<1>8. ASSUME NEW d \in Conns PROVE Resting(d)' /\ Apart(d)'
  <2>1. Resting(d) /\ Apart(d)  BY DEF IInv
  <2>2. Apart(d)'  BY <1>1, <2>1 DEF Apart
  <2>3. CASE d = c  BY <1>1, <2>2, <2>3 DEF Resting, Handling
  <2>4. CASE d # c
    <3>1. (\E event \in batch : event[1] = d) => \E event \in batch' : event[1] = d
      BY <1>1, <2>4
    <3>2. QED  BY <1>1, <1>2, <1>3, <2>1, <2>2, <3>1 DEF Resting
  <2>5. QED  BY <2>3, <2>4
<1>9. QED  BY <1>5, <1>6, <1>7, <1>8 DEF IInv
-----------------------------------------------------------------------------
(* The handlers. *)

\* A step of a handler leaves the other connections, and their events, alone.
LEMMA OneConnection ==
  ASSUME IInv, Handling, NEW c \in Conns, cur[1] = c,
         UNCHANGED <<options, batch, cur>>, pc' # "wait",
         \A d \in Conns \ {c} :
           /\ peer'[d] = peer[d] /\ unread'[d] = unread[d] /\ room'[d] = room[d]
           /\ mem'[d] = mem[d] /\ reg'[d] = reg[d] /\ edge'[d] = edge[d]
           /\ got'[d] = got[d] /\ left'[d] = left[d],
         TypeOK', Handled', Resting(c)', Apart(c)'
  PROVE  IInv'
<1>0. TypeOK  BY DEF IInv
<1>1. \A d \in Conns \ {c} : Due(d)' <=> Due(d)  BY DEF Due, Readable, Writable
<1>2. Batched'
  <2> SUFFICES ASSUME NEW event \in batch, event[1] # None
               PROVE  /\ mem'[event[1]] = "live" /\ reg'[event[1]] = event[2]
                      /\ event[1] # cur[1] /\ (Blocking => Due(event[1])')
    BY DEF Batched, Blocking
  <2>1. /\ event[1] \in Conns /\ mem[event[1]] = "live" /\ reg[event[1]] = event[2]
        /\ event[1] # c /\ (Blocking => Due(event[1]))
    BY <1>0, Typed DEF IInv, Batched
  <2>2. QED  BY <1>1, <2>1
<1>3. ASSUME NEW d \in Conns PROVE Resting(d)' /\ Apart(d)'
  <2>1. CASE d = c  BY <2>1
  <2>2. CASE d # c
    <3>1. Resting(d) /\ Apart(d)  BY DEF IInv
    <3>2. Resting(d)'  BY <1>1, <2>2, <3>1 DEF Resting
    <3>3. Apart(d)'  BY <2>2, <3>1 DEF Apart
    <3>4. QED  BY <3>2, <3>3
  <2>3. QED  BY <2>1, <2>2
<1>4. QED  BY <1>2, <1>3 DEF IInv

\* read() takes what there is; a program that reads once, or has the whole request, goes on.
LEMMA ReadSomeStep ==
  ASSUME IInv, NEW c \in Conns, NEW n \in 1 .. 2, ReadSome(c, n) PROVE IInv'
<1> USE Typed
<1>0. TypeOK  BY DEF IInv
<1>1. /\ UNCHANGED <<options, peer, room, mem, reg, edge, left, batch, cur>>
      /\ pc = "read" /\ cur[1] = c /\ n <= unread[c] /\ n <= 2 - got[c]
      /\ got' = [got EXCEPT ![c] = @ + n] /\ unread' = [unread EXCEPT ![c] = @ - n]
      /\ pc' = IF got'[c] = 2 \/ "multiio" \notin options THEN "one" ELSE "read"
  BY DEF ReadSome
<1>2. Handling  BY <1>1 DEF Handling
<1>3. /\ mem[c] = "live" /\ reg[c] = cur[2] /\ cur[2] = "in" /\ got[c] < 2 /\ left[c] = 0
      /\ Blocking => Readable(c) \/ got[c] = 1
  BY <1>1, <1>2 DEF IInv, Handled
<1>4. got'[c] = got[c] + n /\ unread'[c] = unread[c] - n /\ n \in {1, 2} /\ got[c] \in {0, 1, 2}
      /\ unread[c] \in Nat
  BY <1>0, <1>1
<1>5. got' \in [Conns -> 0 .. 2]  BY <1>0, <1>1, <1>4
<1>6. TypeOK'
  <2>1. unread[c] \in 0 .. MaxUnread /\ MaxUnread \in Nat  BY ReactorAssumption DEF TypeOK, IInv
  <2>2. unread' \in [Conns -> 0 .. MaxUnread]  BY <1>1, <1>4, <2>1 DEF TypeOK, IInv
  <2>3. QED  BY <1>0, <1>1, <1>5, <2>2 DEF TypeOK
<1>7. Handled'
  <2>1. got'[c] \in {1, 2} /\ (pc' = "read" => got'[c] = 1)  BY <1>1, <1>4, <1>0
  <2>2. ("et" \in options \/ Blocking) /\ pc' = "one" => got'[c] = 2  BY <1>0, <1>1
  <2>3. QED  BY <1>1, <1>3, <2>1, <2>2 DEF Handled, Handling, Blocking
<1>8. Resting(c)' /\ Apart(c)'  BY <1>1, <1>3 DEF Resting, Apart, Handling
<1>9. QED  BY <1>0, <1>1, <1>2, <1>6, <1>7, <1>8, OneConnection

\* The socket is empty: what comes after that is an edge of its own.
LEMMA ReadAgainStep == ASSUME IInv, NEW c \in Conns, ReadAgain(c) PROVE IInv'
<1> USE Typed
<1>0. TypeOK  BY DEF IInv
<1>1. /\ UNCHANGED <<options, peer, unread, room, mem, reg, edge, got, left, batch, cur>>
      /\ ~Blocking /\ pc = "read" /\ cur[1] = c /\ unread[c] = 0 /\ peer[c] /\ pc' = "one"
  BY DEF ReadAgain, socket, conn
<1>2. Handling  BY <1>1 DEF Handling
<1>3. mem[c] = "live" /\ reg[c] = cur[2] /\ cur[2] = "in" /\ got[c] < 2 /\ left[c] = 0
  BY <1>1, <1>2 DEF IInv, Handled
<1>4. TypeOK'  BY <1>0, <1>1 DEF TypeOK
<1>5. ~Due(c)'  BY <1>1, <1>3 DEF Due, Readable
<1>6. Handled'  BY <1>1, <1>3, <1>5 DEF Handled, Handling, Blocking
<1>7. Resting(c)' /\ Apart(c)'  BY <1>1, <1>3 DEF Resting, Apart, Handling
<1>8. QED  BY <1>1, <1>2, <1>4, <1>6, <1>7, OneConnection

\* The client has gone.
LEMMA FailsStep ==
  ASSUME IInv, NEW c \in Conns, Fails(c, "read") \/ Fails(c, "write") PROVE IInv'
<1>0. TypeOK  BY DEF IInv
<1>1. /\ UNCHANGED <<options, peer, unread, room, mem, reg, edge, got, left, batch, cur>>
      /\ pc \in {"read", "write"} /\ cur[1] = c /\ pc' = "free"
  BY DEF Fails, socket, conn
<1>2. Handling  BY <1>1 DEF Handling
<1>3. mem[c] = "live" /\ reg[c] = cur[2]  BY <1>1, <1>2 DEF IInv, Handled
<1>4. TypeOK'  BY <1>0, <1>1 DEF TypeOK
<1>5. Handled'  BY <1>1, <1>3 DEF Handled, Handling
<1>6. Resting(c)' /\ Apart(c)'  BY <1>1, <1>3 DEF Resting, Apart, Handling
<1>7. QED  BY <1>1, <1>2, <1>4, <1>5, <1>6, OneConnection

\* The request is complete, or the loop comes back when there is more of it.
LEMMA OneMessageStep == ASSUME IInv, NEW c \in Conns, OneMessage(c) PROVE IInv'
<1> USE Typed
<1>0. TypeOK  BY DEF IInv
<1>1. /\ UNCHANGED <<options, peer, unread, room, mem, reg, edge, got, batch, cur>>
      /\ ~Blocking /\ pc = "one" /\ cur[1] = c
      /\ \/ got[c] < 2 /\ pc' = "events" /\ left' = left
         \/ /\ got[c] = 2 /\ left' = [left EXCEPT ![c] = 2]
            /\ pc' = IF "writefirst" \in options THEN "write" ELSE "finish"
  BY DEF OneMessage, socket
<1>2. Handling  BY <1>1 DEF Handling
<1>3. /\ mem[c] = "live" /\ reg[c] = cur[2] /\ cur[2] = "in" /\ left[c] = 0
      /\ "et" \in options /\ got[c] < 2 /\ Due(c) => edge[c]
  BY <1>1, <1>2 DEF IInv, Handled
<1>4. TypeOK'
  <2>1. left' \in [Conns -> 0 .. 2]  BY <1>0, <1>1
  <2>2. QED  BY <1>0, <1>1, <2>1 DEF TypeOK
<1>5. Due(c)' <=> Due(c)  BY <1>1 DEF Due, Readable, Writable
<1>6. CASE got[c] < 2
  <2>1. UNCHANGED left /\ pc' = "events"  BY <1>0, <1>1, <1>6
  <2>2. Handled'  BY <2>1 DEF Handled, Handling
  <2>3. Resting(c)'  BY <1>1, <1>3, <1>5, <1>6, <2>1 DEF Resting
  <2>4. Apart(c)'  BY <1>1, <1>3 DEF Apart
  <2>5. QED  BY <1>1, <1>2, <1>4, <2>1, <2>2, <2>3, <2>4, OneConnection
<1>7. CASE got[c] = 2
  <2>1. /\ left' = [left EXCEPT ![c] = 2] /\ left'[c] = 2 /\ pc' \in {"write", "finish"}
        /\ \A d \in Conns \ {c} : left'[d] = left[d]
    BY <1>0, <1>1, <1>7
  <2>2. Handled'  BY <1>1, <1>3, <1>7, <2>1 DEF Handled, Handling, Blocking
  <2>3. Resting(c)' /\ Apart(c)'  BY <1>1, <1>3, <2>1 DEF Resting, Apart, Handling
  <2>4. QED  BY <1>1, <1>2, <1>4, <2>1, <2>2, <2>3, OneConnection
<1>8. QED  BY <1>1, <1>6, <1>7

\* write() fills the send buffer; a program that writes once, or has sent all, goes on.
LEMMA WriteSomeStep == ASSUME IInv, NEW c \in Conns, WriteSome(c) PROVE IInv'
<1> USE Typed
<1>0. TypeOK  BY DEF IInv
<1>1. /\ UNCHANGED <<options, peer, unread, mem, reg, edge, got, batch, cur>>
      /\ pc = "write" /\ cur[1] = c /\ room[c] > 0
      /\ room' = [room EXCEPT ![c] = 0] /\ left' = [left EXCEPT ![c] = @ - 1]
      /\ pc' = IF left'[c] = 0 \/ "multiio" \notin options THEN "finish" ELSE "write"
  BY DEF WriteSome
<1>2. Handling  BY <1>1 DEF Handling
<1>3. /\ mem[c] = "live" /\ reg[c] = cur[2] /\ got[c] = 2 /\ left[c] > 0
      /\ Blocking => cur[2] = "out"
  BY <1>1, <1>2 DEF IInv, Handled
<1>4. left[c] \in {1, 2} /\ left'[c] = left[c] - 1 /\ left'[c] \in {0, 1}  BY <1>0, <1>1, <1>3
<1>5. TypeOK'
  <2>1. left' \in [Conns -> 0 .. 2] /\ room' \in [Conns -> 0 .. 1]  BY <1>0, <1>1, <1>4
  <2>2. QED  BY <1>0, <1>1, <2>1 DEF TypeOK
<1>6. Handled'
  <2>1. pc' = "write" => left'[c] = 1  BY <1>1, <1>4
  <2>2. ("et" \in options \/ Blocking) /\ pc' = "finish" => left'[c] = 0  BY <1>0, <1>1
  <2>3. QED  BY <1>1, <1>3, <2>1, <2>2 DEF Handled, Handling, Blocking
<1>7. Resting(c)' /\ Apart(c)'  BY <1>1, <1>3 DEF Resting, Apart, Handling
<1>8. \A d \in Conns \ {c} : room'[d] = room[d] /\ left'[d] = left[d]  BY <1>0, <1>1
<1>9. QED  BY <1>1, <1>2, <1>5, <1>6, <1>7, <1>8, OneConnection

\* The send buffer is full: room made after that is an edge of its own.
LEMMA WriteAgainStep == ASSUME IInv, NEW c \in Conns, WriteAgain(c) PROVE IInv'
<1> USE Typed
<1>0. TypeOK  BY DEF IInv
<1>1. /\ UNCHANGED <<options, peer, unread, room, mem, reg, edge, got, left, batch, cur>>
      /\ ~Blocking /\ pc = "write" /\ cur[1] = c /\ room[c] = 0 /\ peer[c] /\ pc' = "finish"
  BY DEF WriteAgain, socket, conn
<1>2. Handling  BY <1>1 DEF Handling
<1>3. mem[c] = "live" /\ reg[c] = cur[2] /\ got[c] = 2 /\ left[c] > 0
  BY <1>1, <1>2 DEF IInv, Handled
<1>4. TypeOK'  BY <1>0, <1>1 DEF TypeOK
<1>5. cur[2] = "out" => ~Due(c)'  BY <1>1, <1>3 DEF Due, Writable
<1>6. Handled'  BY <1>1, <1>3, <1>5 DEF Handled, Handling, Blocking
<1>7. Resting(c)' /\ Apart(c)'  BY <1>1, <1>3 DEF Resting, Apart, Handling
<1>8. QED  BY <1>1, <1>2, <1>4, <1>6, <1>7, OneConnection

\* The next step is registered, and epoll_ctl looks whether it can be taken already.
LEMMA FinishWriteStep == ASSUME IInv, NEW c \in Conns, FinishWrite(c) PROVE IInv'
<1> USE Typed
<1>0. TypeOK  BY DEF IInv
<1>1. /\ UNCHANGED <<options, peer, unread, room, mem, left, batch, cur>>
      /\ ~Blocking /\ pc = "finish" /\ cur[1] = c /\ pc' = "events"
  BY DEF FinishWrite, socket
<1>2. Handling  BY <1>1 DEF Handling
<1>3. /\ mem[c] = "live" /\ reg[c] = cur[2] /\ got[c] = 2
      /\ "et" \in options /\ left[c] > 0 /\ cur[2] = "out" /\ Due(c) => edge[c]
  BY <1>1, <1>2 DEF IInv, Handled
<1>4. Readable(c) \in BOOLEAN /\ Writable(c) \in BOOLEAN  BY <1>0 DEF Readable, Writable
<1>5. Handled'  BY <1>1 DEF Handled, Handling
<1>6. (Readable(c)' <=> Readable(c)) /\ (Writable(c)' <=> Writable(c))
  BY <1>1 DEF Readable, Writable
<1>7. CASE left[c] = 0
  <2>1. /\ got' = [got EXCEPT ![c] = 0] /\ reg' = [reg EXCEPT ![c] = "in"]
        /\ edge' = [edge EXCEPT ![c] = Readable(c)]
    BY <1>0, <1>7 DEF FinishWrite, EpollCtl
  <2>2. /\ got' \in [Conns -> 0 .. 2] /\ reg' \in [Conns -> {"none", "in", "out"}]
        /\ edge' \in [Conns -> BOOLEAN]
    BY <1>0, <1>4, <2>1
  <2>3. got'[c] = 0 /\ reg'[c] = "in" /\ (edge'[c] <=> Readable(c))  BY <1>0, <2>1
  <2>4. \A d \in Conns \ {c} : got'[d] = got[d] /\ reg'[d] = reg[d] /\ edge'[d] = edge[d]
    BY <1>0, <2>1
  <2>5. TypeOK'  BY <1>0, <1>1, <2>2 DEF TypeOK
  <2>6. Resting(c)'  BY <1>1, <1>6, <1>7, <2>3 DEF Resting, Due
  <2>7. Apart(c)'  BY <1>1, <1>3 DEF Apart
  <2>8. QED  BY <1>1, <1>2, <1>5, <2>4, <2>5, <2>6, <2>7, OneConnection
<1>8. CASE left[c] > 0 /\ cur[2] = "in"
  <2>1. /\ got' = got /\ reg' = [reg EXCEPT ![c] = "out"]
        /\ edge' = [edge EXCEPT ![c] = Writable(c)]
    BY <1>0, <1>8 DEF FinishWrite, EpollCtl
  <2>2. reg' \in [Conns -> {"none", "in", "out"}] /\ edge' \in [Conns -> BOOLEAN]
    BY <1>0, <1>4, <2>1
  <2>3. reg'[c] = "out" /\ (edge'[c] <=> Writable(c))  BY <1>0, <2>1
  <2>4. \A d \in Conns \ {c} : got'[d] = got[d] /\ reg'[d] = reg[d] /\ edge'[d] = edge[d]
    BY <1>0, <2>1
  <2>5. TypeOK'  BY <1>0, <1>1, <2>1, <2>2 DEF TypeOK
  <2>6. Resting(c)'  BY <1>1, <1>3, <1>6, <1>8, <2>1, <2>3 DEF Resting, Due
  <2>7. Apart(c)'  BY <1>1, <1>3 DEF Apart
  <2>8. QED  BY <1>1, <1>2, <1>5, <2>4, <2>5, <2>6, <2>7, OneConnection
<1>9. CASE left[c] > 0 /\ cur[2] = "out"
  <2>1. UNCHANGED <<got, reg, edge>>  BY <1>0, <1>9 DEF FinishWrite
  <2>2. TypeOK'  BY <1>0, <1>1, <2>1 DEF TypeOK
  <2>3. Due(c)' <=> Due(c)  BY <1>6, <2>1 DEF Due
  <2>4. Resting(c)'  BY <1>1, <1>3, <1>9, <2>1, <2>3 DEF Resting
  <2>5. Apart(c)'  BY <1>1, <1>3 DEF Apart
  <2>6. QED  BY <1>1, <1>2, <1>5, <2>1, <2>2, <2>4, <2>5, OneConnection
<1>10. QED  BY <1>0, <1>7, <1>8, <1>9, left[c] \in 0 .. 2, cur[2] \in {"in", "out"}

\* The connection is out of epoll, or of the sets, before it is freed.
LEMMA ReleaseConnStep == ASSUME IInv, NEW c \in Conns, ReleaseConn(c) PROVE IInv'
<1> USE Typed
<1>0. TypeOK  BY DEF IInv
<1>1. /\ UNCHANGED <<options, peer, unread, room, edge, got, left, batch, cur>>
      /\ pc = "free" /\ cur[1] = c /\ pc' = "events"
      /\ reg' = [reg EXCEPT ![c] = "none"] /\ mem' = [mem EXCEPT ![c] = "freed"]
  BY DEF ReleaseConn, socket
<1>2. Handling  BY <1>1 DEF Handling
<1>3. reg' \in [Conns -> {"none", "in", "out"}] /\ mem' \in [Conns -> {"new", "backlog", "live", "freed"}]
  BY <1>0, <1>1
<1>4. TypeOK'  BY <1>0, <1>1, <1>3 DEF TypeOK
<1>5. Handled'  BY <1>1 DEF Handled, Handling
<1>6. reg'[c] = "none" /\ mem'[c] = "freed"  BY <1>0, <1>1
<1>7. Resting(c)' /\ Apart(c)'  BY <1>6 DEF Resting, Apart
<1>8. QED  BY <1>0, <1>1, <1>2, <1>4, <1>5, <1>7, OneConnection

\* The connection moves from one set to the other.
LEMMA MoveStep ==
  ASSUME IInv, NEW c \in Conns, MoveToWrite(c) \/ MoveToRead(c) PROVE IInv'
<1> USE Typed
<1>0. TypeOK  BY DEF IInv
<1>1. /\ UNCHANGED <<options, peer, unread, room, mem, edge, batch, cur>>
      /\ Blocking /\ pc \in {"one", "finish"} /\ cur[1] = c /\ pc' = "events"
  BY DEF MoveToWrite, MoveToRead, socket
<1>2. Handling  BY <1>1 DEF Handling
<1>3. mem[c] = "live" /\ got[c] = 2 /\ left[c] = 0  BY <1>1, <1>2 DEF IInv, Handled
<1>4. Handled'  BY <1>1 DEF Handled, Handling
<1>5. "et" \notin options'  BY <1>0, <1>1
<1>6. /\ \/ reg' = [reg EXCEPT ![c] = "out"] /\ left' = [left EXCEPT ![c] = 2] /\ got' = got
         \/ reg' = [reg EXCEPT ![c] = "in"] /\ got' = [got EXCEPT ![c] = 0] /\ left' = left
  BY DEF MoveToWrite, MoveToRead
<1>7. TypeOK'
  <2>1. /\ reg' \in [Conns -> {"none", "in", "out"}]
        /\ got' \in [Conns -> 0 .. 2] /\ left' \in [Conns -> 0 .. 2]
    BY <1>0, <1>6
  <2>2. QED  BY <1>0, <1>1, <2>1 DEF TypeOK
<1>8. \A d \in Conns \ {c} : reg'[d] = reg[d] /\ got'[d] = got[d] /\ left'[d] = left[d]
  BY <1>0, <1>6
<1>9. \/ reg'[c] = "out" /\ left'[c] = 2 /\ got'[c] = 2
      \/ reg'[c] = "in" /\ got'[c] = 0 /\ left'[c] = 0
  BY <1>0, <1>3, <1>6
<1>10. Resting(c)' /\ Apart(c)'  BY <1>1, <1>3, <1>5, <1>9 DEF Resting, Apart
<1>11. QED  BY <1>1, <1>2, <1>4, <1>7, <1>8, <1>10, OneConnection
-----------------------------------------------------------------------------
\* The invariant is inductive.
LEMMA StepIInv == IInv /\ [Next]_vars => IInv'
<1> SUFFICES ASSUME IInv, [Next]_vars PROVE IInv'  OBVIOUS
<1>1. CASE UNCHANGED vars
  <2>1. UNCHANGED <<options, peer, unread, room, mem, reg, edge, got, left, batch, pc, cur>>
    BY <1>1 DEF vars, socket, conn, reactor
  <2>2. TypeOK' /\ Batched' /\ Handled'
    BY <2>1 DEF IInv, TypeOK, Batched, Handled, Handling, Blocking, Due, Readable, Writable
  <2>3. ASSUME NEW c \in Conns PROVE Resting(c)' /\ Apart(c)'
    BY <2>1 DEF IInv, Resting, Apart, Handling, Due, Readable, Writable
  <2>4. QED  BY <2>2, <2>3 DEF IInv
<1>2. CASE Client  BY <1>2, ClientStep
<1>3. CASE Process
  <2>1. CASE EpollWait \/ PollWait  BY <2>1, WaitStep
  <2>2. CASE EndOfBatch  BY <2>2, EndOfBatchStep
  <2>3. CASE Accept \/ AcceptBelow  BY <2>3, AcceptStep
  <2>4. ASSUME NEW c \in Conns, Handle(c) \/ Scan(c) PROVE IInv'
    BY <2>4, HandleStep
  <2>5. ASSUME NEW c \in Conns, NEW n \in 1 .. 2, ReadSome(c, n) PROVE IInv'
    BY <2>5, ReadSomeStep
  <2>6. ASSUME NEW c \in Conns, ReadAgain(c) PROVE IInv'  BY <2>6, ReadAgainStep
  <2>7. ASSUME NEW c \in Conns, Fails(c, "read") \/ Fails(c, "write") PROVE IInv'
    BY <2>7, FailsStep
  <2>8. ASSUME NEW c \in Conns, OneMessage(c) PROVE IInv'  BY <2>8, OneMessageStep
  <2>9. ASSUME NEW c \in Conns, WriteSome(c) PROVE IInv'  BY <2>9, WriteSomeStep
  <2>10. ASSUME NEW c \in Conns, WriteAgain(c) PROVE IInv'  BY <2>10, WriteAgainStep
  <2>11. ASSUME NEW c \in Conns, FinishWrite(c) PROVE IInv'  BY <2>11, FinishWriteStep
  <2>12. ASSUME NEW c \in Conns, ReleaseConn(c) PROVE IInv'  BY <2>12, ReleaseConnStep
  <2>13. ASSUME NEW c \in Conns, MoveToWrite(c) \/ MoveToRead(c) PROVE IInv'
    BY <2>13, MoveStep
  <2>14. QED
    BY <1>3, <2>1, <2>2, <2>3, <2>4, <2>5, <2>6, <2>7, <2>8, <2>9, <2>10, <2>11, <2>12,
       <2>13 DEF Process
<1>4. QED  BY <1>1, <1>2, <1>3 DEF Next

\* What every reachable state satisfies, from which the properties follow.
THEOREM Invariance == Spec => []IInv
BY InitIInv, StepIInv, PTL DEF Spec

\* Conn and the loop keep their types: got and left stay within the buffer of the Codec.
THEOREM TypeCorrect == Spec => []TypeOK
<1>1. IInv => TypeOK  BY DEF IInv
<1>2. QED  BY <1>1, Invariance, PTL

\* Back at epoll_wait or poll, what has happened to a connection is reported, also when it
\* happened between the EAGAIN of its handler and the epoll_ctl that followed.
THEOREM NothingIsLost == Spec => []NoLostEvent
<1>1. IInv => NoLostEvent
  <2> SUFFICES ASSUME IInv, pc = "wait", NEW c \in Conns, mem[c] = "live"
               PROVE  /\ \/ reg[c] = "in" /\ got[c] < 2 /\ left[c] = 0
                         \/ reg[c] = "out" /\ got[c] = 2 /\ left[c] > 0
                      /\ Due(c) => <<c, reg[c]>> \in Ready
    BY DEF NoLostEvent
  <2>1. batch = {} /\ ~Handling /\ Resting(c)  BY DEF IInv, Batched, Handling
  <2>2. Due(c) => c \in Reported  BY <2>1 DEF Resting, Reported
  <2>3. QED  BY <2>1, <2>2 DEF Resting, Ready
<1>2. QED  BY <1>1, Invariance, PTL

\* A handler, also of an event late in the batch, finds its connection live and waiting for
\* that very event.
THEOREM NothingIsStale == Spec => []NoStaleEvent
<1>1. IInv => NoStaleEvent
  <2> SUFFICES ASSUME IInv,
                      NEW event \in batch \cup (IF pc \in {"wait", "events"} THEN {} ELSE {cur}),
                      event[1] # None
               PROVE  mem[event[1]] = "live" /\ reg[event[1]] = event[2]
    BY DEF NoStaleEvent
  <2>1. CASE event \in batch  BY <2>1 DEF IInv, Batched
  <2>2. CASE Handling /\ event = cur  BY <2>2 DEF IInv, Handled
  <2>3. QED  BY <2>1, <2>2 DEF Handling
<1>2. QED  BY <1>1, Invariance, PTL

\* The blocking read() and write() of the reactors without epoll wait for a client only in
\* the middle of its request or of its reply.
THEOREM OnlyMidwayBlocks == Spec => []BlocksMidway
<1>1. IInv => BlocksMidway
  <2> SUFFICES ASSUME IInv, NEW c \in Conns, Blocking, cur[1] = c, peer[c]
               PROVE  /\ pc = "read" /\ unread[c] = 0 => got[c] = 1
                      /\ pc = "write" /\ room[c] = 0 => left[c] = 1
    BY DEF BlocksMidway
  <2>1. ASSUME pc = "read", unread[c] = 0 PROVE got[c] = 1
    BY <2>1 DEF IInv, Handled, Handling, Readable
  <2>2. ASSUME pc = "write", room[c] = 0 PROVE left[c] = 1
    BY <2>2 DEF IInv, Handled, Handling, Writable
  <2>3. QED  BY <2>1, <2>2
<1>2. QED  BY <1>1, Invariance, PTL
=============================================================================
