------------------------------ MODULE EchoConn ------------------------------
(***************************************************************************)
(* One connection, byte by byte: the framing of codec.hpp over the buffer  *)
(* of packet.hpp, driven the way every server drives it: read until one    *)
(* message is complete, encode the reply, write until it is sent, start    *)
(* over.  Conn keeps its Codec and Resets it between two requests; RecvMsg *)
(* and the coroutine handlers construct a new Codec for each.              *)
(*                                                                         *)
(* Bytes are offsets in the stream the client writes: the buffer holds the *)
(* bytes base .. base + use - 1, and a message is the slice [at, len].  A  *)
(* read or write that returns EINTR or EAGAIN changes nothing and is a     *)
(* stuttering step; any other count up to the limit may be transferred.    *)
(***************************************************************************)
EXTENDS Integers, Sequences

CONSTANTS
  HeadLen,      \* TINY_ECHO_HEAD_LEN
  Wrap,         \* the number of uint32_t values: 4 + body_len_ is taken modulo it
  BodyLens,     \* the body lengths a client may announce
  MaxRequests,  \* bound on the requests of one connection
  Usages        \* the ways in which a Codec is used, see below

ASSUME EchoConnAssumption ==
  /\ HeadLen \in Nat \ {0}
  /\ Wrap \in Nat /\ HeadLen < Wrap
  /\ BodyLens \subseteq 0 .. Wrap - 1
  /\ MaxRequests \in Nat
  /\ Usages \subseteq SUBSET
       {"reuse",       \* the server keeps its Codec: Conn
        "pipelined"}   \* the client may send a request before the last reply

VARIABLES
  usage,     \* the member of Usages that is the case; it does not change
  wire,      \* the requests on the stream: sequence of [at, len] (at: of the head)
  tail,      \* length of the stream
  peer,      \* FALSE once the client has closed or reset the connection
  base,      \* stream offset of pkt_.data_[0]
  cap,       \* pkt_.len_
  use,       \* pkt_.use_len_
  parse,     \* pkt_.parse_len_
  status,    \* decode_status_
  bodyLen,   \* body_len_
  msg,       \* msg_, at most one message: {} is nullptr
  message,   \* Conn::message_, the message being echoed ({} before the first)
  sendLen,   \* Conn::send_len_
  pktUse,    \* use_len_ of the packet being sent
  replies,   \* the replies written completely
  pc         \* where the thread is: "read", in DeCode ("head", "body"), "write", "closed"

stream == <<usage, wire, tail, peer>>
packet == <<base, cap, use, parse>>
codec  == <<status, bodyLen, msg>>
reply  == <<message, sendLen, pktUse, replies>>
vars   == <<stream, packet, codec, reply, pc>>

Init ==
  /\ usage \in Usages
  /\ wire = <<>> /\ tail = 0 /\ peer = TRUE
  /\ base = 0 /\ cap = HeadLen /\ use = 0 /\ parse = 0
  /\ status = "HEAD" /\ bodyLen = 0 /\ msg = {}
  /\ message = {} /\ sendLen = 0 /\ pktUse = 0 /\ replies = <<>>
  /\ pc = "read"
-----------------------------------------------------------------------------
(* The client. *)

\* A request is put on the stream.  A client that is not pipelining has read
\* the whole of every earlier reply.
ClientSend(b) ==
  /\ peer
  /\ Len(wire) < MaxRequests
  /\ "pipelined" \in usage \/ Len(replies) = Len(wire)
  /\ wire' = Append(wire, [at |-> tail, len |-> b])
  /\ tail' = tail + HeadLen + b
  /\ UNCHANGED <<usage, peer, packet, codec, reply, pc>>

\* The client goes away, perhaps with a part of its last request unsent.
ClientClose ==
  /\ peer /\ peer' = FALSE
  /\ UNCHANGED <<usage, wire, tail, packet, codec, reply, pc>>
-----------------------------------------------------------------------------
(* Reading and decoding. *)

CanWriteLen  == cap - use
NeedParseLen == use - parse

\* read() fills the free part of the buffer, and DeCode begins.
ReadSome(n) ==
  /\ pc = "read" /\ status # "FINISH"
  /\ n \in 1 .. CanWriteLen
  /\ base + use + n <= tail
  /\ use' = use + n
  /\ pc' = "head"
  /\ UNCHANGED <<stream, base, cap, parse, codec, reply>>

\* read() returns 0 or an error, and the connection is released.  It returns
\* 0 at the end of the stream, and also when it is given a buffer of length 0.
ReadFails ==
  /\ pc = "read" /\ status # "FINISH"
  /\ ~peer \/ CanWriteLen = 0
  /\ pc' = "closed"
  /\ UNCHANGED <<stream, packet, codec, reply>>

\* The length a head at stream offset o announces; any, if o is not a head.
HeaderAt(o) ==
  LET heads == {i \in DOMAIN wire : wire[i].at = o}
  IN  IF heads = {} THEN BodyLens ELSE {wire[i].len : i \in heads}

\* Mutant: without the test of the length.
ReAllocAlways(b) == (HeadLen + b) % Wrap

\* Packet::ReAlloc never shrinks; its argument is the sum of an int and a
\* uint32_t, hence a uint32_t.
ReAlloc(b) == LET len == (HeadLen + b) % Wrap IN IF len < cap THEN cap ELSE len

\* Mutant: the announced length counts the head.
DecodeHeadTotal ==
  /\ pc = "head" /\ status = "HEAD"
  /\ NeedParseLen >= HeadLen
  /\ \E b \in HeaderAt(base + parse) :
       /\ bodyLen' = HeadLen + b
       /\ cap' = ReAlloc(b)
  /\ parse' = parse + HeadLen
  /\ status' = "BODY"
  /\ pc' = "body"
  /\ UNCHANGED <<stream, base, use, msg, reply>>

DecodeHead ==
  /\ pc = "head" /\ status = "HEAD"
  /\ NeedParseLen >= HeadLen
  /\ \E b \in HeaderAt(base + parse) :
       /\ bodyLen' = b
       /\ cap' = ReAlloc(b)
  /\ parse' = parse + HeadLen
  /\ status' = "BODY"
  /\ pc' = "body"
  /\ UNCHANGED <<stream, base, use, msg, reply>>

\* The body is looked at when the loop comes round with bytes left to parse,
\* and right after the head even when there are none.
AtBody == status = "BODY" /\ (pc = "body" \/ (pc = "head" /\ NeedParseLen > 0))

DecodeBody ==
  /\ AtBody
  /\ NeedParseLen >= bodyLen
  /\ msg' = IF msg = {} THEN {[at |-> base + parse, len |-> bodyLen]} ELSE msg
  /\ parse' = parse + bodyLen
  /\ status' = "FINISH"
  /\ pc' = "head"
  /\ UNCHANGED <<stream, base, cap, use, bodyLen, reply>>

\* Mutant: no break on an incomplete body.
DeCodeReturnHead ==
  /\ \/ pc = "head" /\ NeedParseLen = 0
     \/ pc = "head" /\ status = "HEAD" /\ NeedParseLen < HeadLen
  /\ pc' = "read"
  /\ UNCHANGED <<stream, packet, codec, reply>>

\* DeCode returns: nothing left to parse, or decode_break.  There is no branch
\* for bytes left after FINISH: the loop then spins, and no action is enabled.
DeCodeReturn ==
  /\ \/ pc = "head" /\ NeedParseLen = 0
     \/ pc = "head" /\ status = "HEAD" /\ NeedParseLen < HeadLen
     \/ AtBody /\ NeedParseLen < bodyLen
  /\ pc' = "read"
  /\ UNCHANGED <<stream, packet, codec, reply>>
-----------------------------------------------------------------------------
(* Replying. *)

\* Read returns at once on FINISH; OneMessage takes the message out of the
\* codec and EnCode prepares the packet.
Reply ==
  /\ pc = "read" /\ status = "FINISH"
  /\ \E m \in msg :
       /\ message' = {m}
       /\ pktUse' = HeadLen + m.len
  /\ msg' = {}
  /\ pc' = "write"
  /\ UNCHANGED <<stream, packet, status, bodyLen, sendLen, replies>>

\* Mutant: a partial write counts as a reply.
WriteSomeOnce(n) ==
  /\ pc = "write"
  /\ n \in 1 .. pktUse - sendLen
  /\ sendLen' = sendLen + n
  /\ \E m \in message : replies' = Append(replies, m)
  /\ UNCHANGED <<stream, packet, codec, message, pktUse, pc>>

WriteSome(n) ==
  /\ pc = "write"
  /\ n \in 1 .. pktUse - sendLen
  /\ sendLen' = sendLen + n
  /\ \/ sendLen' < pktUse /\ UNCHANGED replies
     \/ /\ sendLen' = pktUse
        /\ \E m \in message : replies' = Append(replies, m)
  /\ UNCHANGED <<stream, packet, codec, message, pktUse, pc>>

WriteFails ==
  /\ pc = "write" /\ sendLen # pktUse
  /\ ~peer
  /\ pc' = "closed"
  /\ UNCHANGED <<stream, packet, codec, reply>>

\* Mutant: send_len_ keeps its value.
ResetNotSendLen ==
  /\ pc = "write" /\ sendLen = pktUse
  /\ base' = base + use /\ use' = 0 /\ parse' = 0
  /\ cap' = IF "reuse" \in usage THEN cap ELSE HeadLen
  /\ status' = "HEAD" /\ bodyLen' = 0 /\ msg' = {}
  /\ pktUse' = 0
  /\ pc' = "read"
  /\ UNCHANGED <<stream, message, sendLen, replies>>

\* FinishWrite: Conn::Reset, or the next round with a new Codec.  What the
\* buffer still holds is forgotten, so the next byte read is base + use.
Reset ==
  /\ pc = "write" /\ sendLen = pktUse
  /\ base' = base + use /\ use' = 0 /\ parse' = 0
  /\ cap' = IF "reuse" \in usage THEN cap ELSE HeadLen
  /\ status' = "HEAD" /\ bodyLen' = 0 /\ msg' = {}
  /\ sendLen' = 0 /\ pktUse' = 0
  /\ pc' = "read"
  /\ UNCHANGED <<stream, message, replies>>
-----------------------------------------------------------------------------
Client == ClientClose \/ \E b \in BodyLens : ClientSend(b)

Server ==
  \/ \E n \in 1 .. CanWriteLen : ReadSome(n)
  \/ ReadFails \/ DecodeHead \/ DecodeBody \/ DeCodeReturn \/ Reply
  \/ \E n \in 1 .. pktUse - sendLen : WriteSome(n)
  \/ WriteFails \/ Reset

Next == Client \/ Server

Spec == Init /\ [][Next]_vars

\* The server thread is not stopped for ever, epoll is level triggered and
\* the client drains its replies: an enabled step of the server is taken.
FairSpec == Spec /\ WF_vars(Server)
-----------------------------------------------------------------------------
(* Properties. *)

Request == [at : Nat, len : BodyLens]
Slice == [at : Nat, len : Nat]

\* The types of conn.hpp, codec.hpp and packet.hpp.
TypeOK ==
  /\ usage \in Usages
  /\ wire \in Seq(Request) /\ tail \in Nat /\ peer \in BOOLEAN
  /\ base \in Nat /\ cap \in Nat /\ use \in Nat /\ parse \in Nat
  /\ status \in {"HEAD", "BODY", "FINISH"}
  /\ bodyLen \in BodyLens \cup {0}
  /\ msg \subseteq Slice /\ message \subseteq Slice
  /\ sendLen \in Nat /\ pktUse \in Nat
  /\ replies \in Seq(Slice)
  /\ pc \in {"read", "head", "body", "write", "closed"}

\* The three lengths of a Packet never cross: CanWriteLen and NeedParseLen are
\* differences of size_t, and a wrapped one would be a read() beyond the buffer.
BufferSafe == parse <= use /\ use <= cap /\ sendLen <= pktUse

\* The body of request i, as a slice of the stream.
Body(i) == [at |-> wire[i].at + HeadLen, len |-> wire[i].len]

\* What the client reads back is what it asked, in the order it asked, however
\* the stream was cut into reads and writes.
EchoInOrder ==
  /\ Len(replies) <= Len(wire)
  /\ \A i \in DOMAIN replies : replies[i] = Body(i)

\* A Codec never holds bytes of the request after the one it decodes: Reset
\* would forget them, and DeCode has no branch for them.
NoOverRead == status = "FINISH" => use = parse

\* DeCode's loop ends: it parses as long as bytes are left, and makes progress.
DeCodeReturns == pc \in {"head", "body"} ~> pc = "read"

\* Every request is answered unless the connection is given up.
Served == \A k \in 1 .. MaxRequests :
            Len(wire) >= k ~> (Len(replies) >= k \/ pc = "closed")

\* A connection implements the echo service a client expects.
E == INSTANCE Echo WITH
       asked <- [i \in DOMAIN wire |-> Body(i)], answered <- replies, open <- pc # "closed"
EchoSpec == E!Spec
-----------------------------------------------------------------------------
(* The inductive invariant. *)

End(i) == wire[i].at + HeadLen + wire[i].len

\* The requests lie on the stream one after the other.
Contiguous ==
  /\ \A i \in DOMAIN wire : wire[i].at = IF i = 1 THEN 0 ELSE End(i - 1)
  /\ \A i, j \in DOMAIN wire : i < j => End(i) <= wire[j].at
  /\ \A i \in DOMAIN wire : End(i) <= tail
  /\ tail = IF wire = <<>> THEN 0 ELSE End(Len(wire))

\* The request the server is busy with: the one whose reply is not complete,
\* or the last replied one until FinishWrite has been seen.
Current == IF pc = "write" /\ sendLen = pktUse THEN Len(replies) ELSE Len(replies) + 1
InProgress == Current \in DOMAIN wire

\* The buffer starts at the head of the current request and does not reach
\* beyond its end.
Framed ==
  /\ base + use <= tail
  /\ InProgress => /\ base = wire[Current].at
                   /\ use <= HeadLen + wire[Current].len
  /\ ~InProgress => base = tail

Decoded ==
  /\ status = "HEAD" => parse = 0
  /\ status = "BODY" => /\ InProgress /\ parse = HeadLen
                        /\ bodyLen = wire[Current].len
  /\ status = "FINISH" => /\ InProgress
                          /\ use = HeadLen + wire[Current].len /\ parse = use
  /\ pc = "body" => status = "BODY"
  /\ pc = "write" => status = "FINISH"

Taken ==
  /\ pc \in {"read", "head", "body"} =>
       /\ sendLen = 0
       /\ msg = IF status = "FINISH" THEN {Body(Current)} ELSE {}
  /\ pc = "write" => /\ message = {Body(Current)}
                     /\ pktUse = HeadLen + wire[Current].len

\* Why a read stops at the end of the request: a new Codec offers no more room
\* than the request needs, and a client that waits has sent nothing more.
Bounded ==
  /\ "reuse" \notin usage =>
       /\ status = "HEAD" => cap = HeadLen
       /\ status # "HEAD" => cap <= HeadLen + wire[Current].len
  /\ "pipelined" \notin usage => Len(wire) <= Len(replies) + 1

\* A server that keeps its Codec is used by clients that wait for each reply;
\* the run conn_pipelined_reused shows that they have to.
OneAtATime == \A u \in Usages : "reuse" \in u => "pipelined" \notin u

IInv == /\ TypeOK /\ BufferSafe /\ EchoInOrder
        /\ Contiguous /\ Framed /\ Decoded /\ Taken /\ Bounded
=============================================================================
