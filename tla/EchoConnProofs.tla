--------------------------- MODULE EchoConnProofs ---------------------------
(***************************************************************************)
(* For every head length, width of the length field and set of body        *)
(* lengths, and for clients that wait or servers that use a new Codec for  *)
(* each request (OneAtATime): the buffer starts with the request that is   *)
(* being served and does not reach beyond it, so that the lengths of a     *)
(* Packet never cross, the message is the body of the request, and Reset   *)
(* forgets nothing.  Every conjunct of IInv is a numbered step of the      *)
(* proofs of the actions that can disturb it.                              *)
(***************************************************************************)
EXTENDS EchoConn, TLAPS

\* A remainder is no larger than what is divided.
LEMMA ModBound ==
  ASSUME NEW a \in Nat, NEW k \in Nat \ {0}
  PROVE  a % k \in Nat /\ a % k <= a
  OBVIOUS

\* An index without a successor is the last one.
LEMMA LastIndex ==
  ASSUME NEW a \in Nat, NEW k \in 1 .. a, ~(k + 1 \in 1 .. a)
  PROVE  k = a
  OBVIOUS

\* ReAlloc never shrinks the buffer, and never grows it beyond the request, also
\* when the length wraps.
LEMMA ReAllocBound ==
  ASSUME NEW b \in BodyLens, cap \in Nat
  PROVE  /\ ReAlloc(b) \in Nat /\ ReAlloc(b) >= cap
         /\ ReAlloc(b) = cap \/ ReAlloc(b) <= HeadLen + b
<1>1. HeadLen + b \in Nat /\ Wrap \in Nat \ {0}  BY EchoConnAssumption
<1>2. (HeadLen + b) % Wrap \in Nat /\ (HeadLen + b) % Wrap <= HeadLen + b  BY <1>1, ModBound
<1>3. QED  BY <1>2 DEF ReAlloc

\* What Append does to the indices.
LEMMA AppendFacts ==
  ASSUME NEW S, NEW s \in Seq(S), NEW e \in S
  PROVE  /\ Append(s, e) \in Seq(S)
         /\ Len(Append(s, e)) = Len(s) + 1
         /\ DOMAIN Append(s, e) = 1 .. Len(s) + 1
         /\ \A k \in DOMAIN s : Append(s, e)[k] = s[k]
         /\ Append(s, e)[Len(s) + 1] = e
  OBVIOUS

\* The domain of a sequence, and the type of its elements.
LEMMA SeqFacts ==
  ASSUME NEW S, NEW s \in Seq(S)
  PROVE  /\ Len(s) \in Nat /\ DOMAIN s = 1 .. Len(s)
         /\ \A k \in DOMAIN s : s[k] \in S
  OBVIOUS

\* The sequences of the model, and the offsets in wire, are numbers.
LEMMA WireFacts ==
  ASSUME TypeOK
  PROVE  /\ Len(wire) \in Nat /\ DOMAIN wire = 1 .. Len(wire)
         /\ Len(replies) \in Nat /\ DOMAIN replies = 1 .. Len(replies)
         /\ Current \in Nat
         /\ \A k \in DOMAIN wire : /\ wire[k] \in Request
                                  /\ wire[k].at \in Nat
                                  /\ wire[k].len \in Nat /\ wire[k].len \in BodyLens
<1>1. Len(wire) \in Nat /\ DOMAIN wire = 1 .. Len(wire)  BY SeqFacts DEF TypeOK
<1>2. Len(replies) \in Nat /\ DOMAIN replies = 1 .. Len(replies)  BY SeqFacts DEF TypeOK
<1>3. Current \in Nat  BY <1>2 DEF Current
<1>4. \A k \in DOMAIN wire : wire[k] \in Request  BY SeqFacts DEF TypeOK
<1>5. \A k \in DOMAIN wire : wire[k].at \in Nat /\ wire[k].len \in BodyLens
  BY <1>4 DEF Request
<1>6. BodyLens \subseteq Nat  BY EchoConnAssumption
<1>7. QED  BY <1>1, <1>2, <1>3, <1>4, <1>5, <1>6

\* The head at the start of the buffer is that of the current request.
LEMMA HeaderOfCurrent ==
  ASSUME IInv, pc = "head", status = "HEAD", NeedParseLen >= HeadLen
  PROVE  InProgress /\ HeaderAt(base + parse) = {wire[Current].len}
<1>1. TypeOK /\ HeadLen \in Nat \ {0}  BY EchoConnAssumption DEF IInv
<1>2. base \in Nat /\ parse = 0 /\ use \in Nat /\ use >= HeadLen /\ tail \in Nat
  BY <1>1 DEF IInv, TypeOK, Decoded, NeedParseLen
<1>3. InProgress  BY <1>1, <1>2 DEF IInv, Framed
<1>4. base + parse = wire[Current].at  BY <1>2, <1>3 DEF IInv, Framed
<1>5. \A k \in DOMAIN wire : wire[k].at = wire[Current].at => k = Current
  <2>1. TAKE k \in DOMAIN wire
  <2>2. /\ k \in Nat /\ Current \in Nat /\ Current \in DOMAIN wire
        /\ wire[k].at \in Nat /\ wire[k].len \in Nat
        /\ wire[Current].at \in Nat /\ wire[Current].len \in Nat
    BY <1>1, <1>3, WireFacts DEF InProgress
  <2>3. k < Current => wire[k].at + HeadLen + wire[k].len <= wire[Current].at
    BY <2>2 DEF IInv, Contiguous, End
  <2>4. Current < k => wire[Current].at + HeadLen + wire[Current].len <= wire[k].at
    BY <2>2 DEF IInv, Contiguous, End
  <2>5. QED  BY <2>2, <2>3, <2>4, <1>1
<1>6. {k \in DOMAIN wire : wire[k].at = base + parse} = {Current}
  BY <1>3, <1>4, <1>5 DEF InProgress
<1>7. QED  BY <1>3, <1>6 DEF HeaderAt

\* A new request lies behind all others, and what the server has is untouched.
LEMMA ClientSendIInv ==
  ASSUME IInv, NEW b \in BodyLens, ClientSend(b)
  PROVE  IInv'
<1> DEFINE r == [at |-> tail, len |-> b]
<1> USE DEF IInv
<1>a. /\ TypeOK /\ wire \in Seq(Request) /\ tail \in Nat /\ b \in Nat
      /\ HeadLen \in Nat \ {0}
  BY EchoConnAssumption DEF TypeOK
<1>b. PICK n \in Nat : n = Len(wire)  BY <1>a, WireFacts
<1>c. r \in Request  BY <1>a DEF Request
<1>d. wire' = Append(wire, r) /\ tail' = tail + HeadLen + b  BY DEF ClientSend
<1>e. /\ wire' \in Seq(Request) /\ Len(wire') = n + 1 /\ DOMAIN wire' = 1 .. n + 1
      /\ \A k \in 1 .. n : wire'[k] = wire[k]
      /\ wire'[n + 1] = r
  BY <1>a, <1>b, <1>c, <1>d, AppendFacts, WireFacts
<1>f. DOMAIN wire = 1 .. n  BY <1>a, <1>b, WireFacts
<1>g. UNCHANGED <<packet, codec, reply, pc, Current>>
  BY DEF ClientSend, Current, reply
<1>h. InProgress => InProgress' /\ wire'[Current] = wire[Current] /\ Body(Current)' = Body(Current)
  BY <1>e, <1>f, <1>g DEF InProgress, Body
<1>i. \A k \in 1 .. n : wire[k].at \in Nat /\ wire[k].len \in Nat
  BY <1>a, <1>f, WireFacts
<1> HIDE DEF r
<1>j. r.at = tail /\ r.len = b  BY DEF r
<1>1. TypeOK'
  BY <1>a, <1>d, <1>e, <1>g, EchoConnAssumption DEF TypeOK, ClientSend, packet, codec, reply
<1>2. BufferSafe'  BY <1>g DEF BufferSafe, packet, reply
<1>3. EchoInOrder'
  <2>1. replies' = replies /\ Len(replies) \in Nat /\ DOMAIN replies = 1 .. Len(replies)
    BY <1>a, <1>g, WireFacts DEF reply
  <2>2. Len(replies) <= n /\ \A k \in DOMAIN replies : replies[k] = Body(k)
    BY <1>b DEF EchoInOrder
  <2>3. \A k \in DOMAIN replies : replies[k] = Body(k)'
    BY <2>1, <2>2, <1>b, <1>e DEF Body
  <2>4. QED  BY <2>1, <2>2, <2>3, <1>b, <1>e DEF EchoInOrder
<1>4. Contiguous'
  <2>1. \A k \in 1 .. n : End(k)' = End(k) /\ End(k) \in Nat /\ End(k) <= tail
    <3>1. TAKE k \in 1 .. n
    <3>2. End(k) <= tail  BY <1>f DEF Contiguous
    <3>3. wire'[k] = wire[k] /\ wire[k].at \in Nat /\ wire[k].len \in Nat
      BY <1>e, <1>i
    <3>4. End(k)' = End(k) /\ End(k) \in Nat  BY <1>a, <3>3, SMTT(30) DEF End
    <3>5. QED  BY <3>2, <3>4
  <2>2. wire'[n + 1].at + HeadLen + wire'[n + 1].len = tail'  BY <1>d, <1>e, <1>j
  <2>3. \A k \in DOMAIN wire' : wire'[k].at = IF k = 1 THEN 0 ELSE End(k - 1)'
    <3>1. TAKE k \in DOMAIN wire'
    <3>2. CASE k \in 1 .. n
      <4>1. wire'[k].at = IF k = 1 THEN 0 ELSE End(k - 1)
        BY <3>2, <1>e, <1>f DEF Contiguous
      <4>2. k # 1 => k - 1 \in 1 .. n  BY <3>2
      <4>3. k # 1 => End(k - 1)' = End(k - 1)  BY <4>2, <2>1
      <4>4. QED  BY <4>1, <4>3
    <3>3. CASE k = n + 1
      <4>1. wire'[k].at = tail  BY <3>3, <1>e, <1>j
      <4>2. tail = IF n = 0 THEN 0 ELSE End(n)
        BY <1>a, <1>b, SeqFacts DEF Contiguous
      <4>3. n # 0 => End(n)' = End(n) /\ k - 1 = n  BY <2>1, <3>3
      <4>4. QED  BY <3>3, <4>1, <4>2, <4>3
    <3>4. QED  BY <3>2, <3>3, <1>e
  <2>4. \A k, j \in DOMAIN wire' : k < j => End(k)' <= wire'[j].at
    <3>1. TAKE k, j \in DOMAIN wire'
    <3>2. HAVE k < j
    <3>3. k \in 1 .. n  BY <3>2, <1>e
    <3>4. CASE j \in 1 .. n
      BY <3>2, <3>3, <3>4, <2>1, <1>e, <1>f DEF Contiguous
    <3>5. CASE j = n + 1  BY <3>3, <3>5, <2>1, <1>e, <1>j
    <3>6. QED  BY <3>4, <3>5, <1>e
  <2>5. \A k \in DOMAIN wire' : End(k)' <= tail'
    <3>1. TAKE k \in DOMAIN wire'
    <3>2. CASE k \in 1 .. n  BY <3>2, <2>1, <1>a, <1>d
    <3>3. CASE k = n + 1  BY <3>3, <2>2, <1>a, <1>d DEF End
    <3>4. QED  BY <3>2, <3>3, <1>e
  <2>6. wire' # <<>> /\ tail' = End(Len(wire))'  BY <2>2, <1>e DEF End
  <2>7. QED  BY <2>3, <2>4, <2>5, <2>6 DEF Contiguous
<1>5. Framed'
  <2>0. base \in Nat /\ use \in Nat /\ base' = base /\ use' = use
    BY <1>a, <1>g DEF TypeOK, packet
  <2>1. CASE InProgress
    <3>1. base + use <= tail'  BY <2>0, <1>a, <1>d DEF Framed
    <3>2. base = wire'[Current].at /\ use <= HeadLen + wire'[Current].len
      BY <2>1, <1>h DEF Framed
    <3>3. QED  BY <2>0, <2>1, <3>1, <3>2, <1>g, <1>h DEF Framed
  <2>2. CASE ~InProgress
    <3>1. base = tail /\ use = 0  BY <2>0, <2>2, <1>a DEF Framed
    <3>2. Current = n + 1
      <4>1. pc # "write"  BY <2>2 DEF Decoded
      <4>2. Current = Len(replies) + 1 /\ Len(replies) \in Nat
        BY <4>1, <1>a, WireFacts DEF Current
      <4>3. Len(replies) <= n  BY <1>b DEF EchoInOrder
      <4>4. QED  BY <4>2, <4>3, <2>2, <1>f DEF InProgress
    <3>3. wire'[Current] = r /\ InProgress'  BY <3>2, <1>e, <1>g DEF InProgress
    <3>4. wire'[Current'] = r /\ Current' = Current  BY <3>3, <1>g
    <3>5. base' = tail /\ use' = 0 /\ tail \in Nat /\ tail' = tail + HeadLen + b
      BY <3>1, <2>0, <1>a, <1>d
    <3>6. base' = wire'[Current'].at /\ use' <= HeadLen + wire'[Current'].len
      BY <3>4, <3>5, <1>a, <1>j
    <3>7. base' + use' <= tail'  BY <3>5, <1>a
    <3>8. QED  BY <3>3, <3>6, <3>7 DEF Framed
  <2>3. QED  BY <2>1, <2>2
<1>6. Decoded'  BY <1>g, <1>h DEF Decoded, packet, codec
<1>7. Taken'
  <2>1. pc \in {"read", "head", "body"} /\ status = "FINISH" => Body(Current)' = Body(Current)
    BY <1>h DEF Decoded
  <2>2. pc = "write" => Body(Current)' = Body(Current) /\ wire'[Current] = wire[Current]
    BY <1>h DEF Decoded
  <2>3. QED  BY <2>1, <2>2, <1>g DEF Taken, codec, reply
<1>8. Bounded'
  <2>1. "pipelined" \notin usage => Len(wire') <= Len(replies') + 1
    BY <1>b, <1>e, <1>g DEF ClientSend, reply
  <2>2. status # "HEAD" => wire'[Current] = wire[Current]
    BY <1>h DEF Decoded, TypeOK
  <2>3. QED  BY <2>1, <2>2, <1>g DEF Bounded, ClientSend, packet, codec
<1>9. QED  BY <1>1, <1>2, <1>3, <1>4, <1>5, <1>6, <1>7, <1>8

\* Only where the thread stands changes, and the current request stays it.
LEMMA ReadFailsIInv ==
  ASSUME IInv, ReadFails
  PROVE  IInv'
<1>1. UNCHANGED <<stream, packet, codec, reply, Current>> /\ pc' = "closed"
  BY DEF ReadFails, Current, reply
<1>2. QED
  BY <1>1 DEF IInv, TypeOK, BufferSafe, EchoInOrder, Contiguous, Framed, Decoded, Taken, Bounded,
      InProgress, End, Body, stream, packet, codec, reply

LEMMA WriteFailsIInv ==
  ASSUME IInv, WriteFails
  PROVE  IInv'
<1>1. UNCHANGED <<stream, packet, codec, reply, Current>> /\ pc' = "closed"
  BY DEF WriteFails, Current, reply
<1>2. QED
  BY <1>1 DEF IInv, TypeOK, BufferSafe, EchoInOrder, Contiguous, Framed, Decoded, Taken, Bounded,
      InProgress, End, Body, stream, packet, codec, reply

LEMMA DeCodeReturnIInv ==
  ASSUME IInv, DeCodeReturn
  PROVE  IInv'
<1>1. /\ UNCHANGED <<stream, packet, codec, reply, Current>>
      /\ pc \in {"head", "body"} /\ pc' = "read"
  BY DEF DeCodeReturn, AtBody, Current, reply
<1>2. QED
  BY <1>1 DEF IInv, TypeOK, BufferSafe, EchoInOrder, Contiguous, Framed, Decoded, Taken, Bounded,
      InProgress, End, Body, stream, packet, codec, reply

\* A read stays inside the buffer, and the buffer inside the current request.
LEMMA ReadSomeIInv ==
  ASSUME IInv, OneAtATime, NEW n \in 1 .. CanWriteLen, ReadSome(n)
  PROVE  IInv'
<1> USE DEF IInv
<1>a. /\ TypeOK /\ HeadLen \in Nat \ {0} /\ Len(wire) \in Nat /\ DOMAIN wire = 1 .. Len(wire)
      /\ base \in Nat /\ cap \in Nat /\ use \in Nat /\ n \in Nat \ {0} /\ tail \in Nat
      /\ Len(replies) \in Nat
  BY EchoConnAssumption, WireFacts DEF TypeOK, CanWriteLen, BufferSafe
<1>b. /\ UNCHANGED <<stream, base, cap, parse, codec, reply, Current>>
      /\ pc = "read" /\ pc' = "head" /\ status # "FINISH"
      /\ use' = use + n /\ use' <= cap /\ base + use + n <= tail
  BY <1>a DEF ReadSome, CanWriteLen, Current, reply
<1>c. InProgress /\ Current = Len(replies) + 1
  <2>1. Current = Len(replies) + 1  BY <1>b DEF Current
  <2>2. base # tail  BY <1>a, <1>b
  <2>3. QED  BY <2>1, <2>2 DEF Framed
<1>d. wire[Current].at \in Nat /\ wire[Current].len \in Nat
  BY <1>a, <1>c, WireFacts DEF InProgress
<1>1. TypeOK'  BY <1>a, <1>b DEF TypeOK, stream, codec, reply
<1>2. BufferSafe'  BY <1>a, <1>b DEF BufferSafe, TypeOK, reply
<1>3. EchoInOrder'  BY <1>b DEF EchoInOrder, Body, stream, reply
<1>4. Contiguous'  BY <1>b DEF Contiguous, End, stream
<1>5. Framed'
  <2>1. use' <= HeadLen + wire[Current].len
    <3>1. CASE "reuse" \notin usage
      <4>1. cap <= HeadLen + wire[Current].len
        BY <3>1, <1>a, <1>d DEF Bounded
      <4>2. QED  BY <4>1, <1>a, <1>b, <1>d, SMTT(30)
    <3>2. CASE "reuse" \in usage
      <4>0. Len(wire) <= Len(replies) + 1
        BY <3>2, <1>a, OneAtATime DEF OneAtATime, Bounded, TypeOK
      <4>a. Len(replies) + 1 \in 1 .. Len(wire)  BY <1>a, <1>c DEF InProgress
      <4>b. ~(Len(replies) + 1 + 1 \in 1 .. Len(wire))  BY <4>0, <1>a
      <4>c. Len(replies) + 1 = Len(wire)  BY <4>a, <4>b, <1>a, LastIndex
      <4>1. Len(wire) = Current  BY <4>c, <1>c
      <4>2. wire # <<>>  BY <4>a, <1>a
      <4>3. tail = wire[Current].at + HeadLen + wire[Current].len
        BY <4>1, <4>2 DEF Contiguous, End
      <4>4. base = wire[Current].at  BY <1>c DEF Framed
      <4>5. base + use' <= base + HeadLen + wire[Current].len
        BY <4>3, <4>4, <1>a, <1>b, <1>d
      <4>6. QED  BY <4>5, <1>a, <1>b, <1>d
    <3>3. QED  BY <3>1, <3>2
  <2>2. InProgress'  BY <1>b, <1>c DEF InProgress, stream
  <2>3. QED  BY <2>1, <2>2, <1>b, <1>c DEF Framed, stream, TypeOK
<1>6. Decoded'  BY <1>b DEF Decoded, InProgress, stream, codec
<1>7. Taken'  BY <1>b DEF Taken, Body, stream, codec, reply
<1>8. Bounded'  BY <1>b DEF Bounded, stream, codec, reply
<1>9. QED  BY <1>1, <1>2, <1>3, <1>4, <1>5, <1>6, <1>7, <1>8

\* The announced length is that of the current request, and the buffer can take
\* no more than it.
LEMMA DecodeHeadIInv ==
  ASSUME IInv, DecodeHead
  PROVE  IInv'
<1> DEFINE b == wire[Current].len
<1> USE DEF IInv
<1>a. /\ TypeOK /\ HeadLen \in Nat \ {0} /\ cap \in Nat /\ use \in Nat /\ base \in Nat
      /\ use <= cap
  BY EchoConnAssumption DEF TypeOK, BufferSafe
<1>b. InProgress /\ HeaderAt(base + parse) = {b}  BY HeaderOfCurrent DEF DecodeHead
<1>c. b \in BodyLens /\ b \in Nat  BY <1>a, <1>b, WireFacts DEF InProgress
<1>d. parse = 0 /\ use >= HeadLen  BY <1>a DEF DecodeHead, Decoded, NeedParseLen
<1>e. /\ UNCHANGED <<stream, base, use, msg, reply, Current>>
      /\ pc = "head" /\ pc' = "body" /\ status = "HEAD" /\ status' = "BODY"
      /\ parse' = HeadLen /\ bodyLen' = b /\ cap' = ReAlloc(b)
  <2>1. bodyLen' = b /\ cap' = ReAlloc(b)  BY <1>b DEF DecodeHead
  <2>2. QED  BY <1>a, <1>d, <2>1 DEF DecodeHead, Current, reply
<1>f. cap' \in Nat /\ cap' >= cap /\ (cap' = cap \/ cap' <= HeadLen + b)
  BY <1>a, <1>c, <1>e, ReAllocBound
<1>g. UNCHANGED wire  BY <1>e DEF stream
<1>1. TypeOK'  BY <1>a, <1>c, <1>e, <1>f DEF TypeOK, stream, reply
<1>2. BufferSafe'  BY <1>a, <1>d, <1>e, <1>f DEF BufferSafe, reply
<1>3. EchoInOrder'  BY <1>e, <1>g DEF EchoInOrder, Body, reply
<1>4. Contiguous'  BY <1>e DEF Contiguous, End, stream
<1>5. Framed'  BY <1>e DEF Framed, InProgress, stream
<1>6. Decoded'  BY <1>b, <1>e, <1>g DEF Decoded, InProgress
<1>7. Taken'  BY <1>e DEF Taken, reply
<1>8. Bounded'
  <2>1. "reuse" \notin usage => cap' <= HeadLen + b
    BY <1>a, <1>c, <1>e, <1>f DEF Bounded
  <2>2. "pipelined" \notin usage => Len(wire') <= Len(replies') + 1
    BY <1>e, <1>g DEF Bounded, reply
  <2>3. QED  BY <2>1, <2>2, <1>e, <1>g DEF Bounded, stream
<1>9. QED  BY <1>1, <1>2, <1>3, <1>4, <1>5, <1>6, <1>7, <1>8

\* The decoded message is the body of the current request.
LEMMA DecodeBodyIInv ==
  ASSUME IInv, DecodeBody
  PROVE  IInv'
<1> DEFINE b == wire[Current].len
<1> USE DEF IInv
<1>a. /\ TypeOK /\ HeadLen \in Nat \ {0} /\ cap \in Nat /\ use \in Nat /\ base \in Nat
      /\ use <= cap
  BY EchoConnAssumption DEF TypeOK, BufferSafe
<1>b. status = "BODY" /\ pc \in {"head", "body"}  BY DEF DecodeBody, AtBody
<1>c. InProgress /\ parse = HeadLen /\ bodyLen = b  BY <1>b DEF Decoded
<1>d. b \in Nat /\ wire[Current].at \in Nat
  BY <1>a, <1>c, WireFacts DEF InProgress
<1>e. /\ UNCHANGED <<stream, base, cap, use, bodyLen, reply, Current>>
      /\ pc' = "head" /\ status' = "FINISH" /\ parse' = HeadLen + b
  BY <1>b, <1>c DEF DecodeBody, Current, reply
<1>f. use' = HeadLen + b /\ base = wire[Current].at
  BY <1>a, <1>c, <1>d, <1>e DEF DecodeBody, NeedParseLen, Framed
<1>g. msg = {} /\ sendLen = 0  BY <1>b DEF Taken
<1>h. msg' = {Body(Current)}
  BY <1>c, <1>f, <1>g DEF DecodeBody, Body
<1>i. UNCHANGED wire /\ Body(Current)' = Body(Current) /\ Body(Current) \in Slice
  BY <1>a, <1>d, <1>e DEF stream, Body, Slice
<1>1. TypeOK'  BY <1>a, <1>d, <1>e, <1>h, <1>i DEF TypeOK, stream, reply
<1>2. BufferSafe'  BY <1>a, <1>d, <1>e, <1>f DEF BufferSafe, reply
<1>3. EchoInOrder'  BY <1>e, <1>i DEF EchoInOrder, Body, reply
<1>4. Contiguous'  BY <1>e DEF Contiguous, End, stream
<1>5. Framed'  BY <1>e DEF Framed, InProgress, stream
<1>6. Decoded'  BY <1>c, <1>e, <1>f, <1>i DEF Decoded, InProgress
<1>7. Taken'  BY <1>e, <1>g, <1>h, <1>i DEF Taken, reply
<1>8. Bounded'  BY <1>b, <1>e, <1>i DEF Bounded, stream, reply
<1>9. QED  BY <1>1, <1>2, <1>3, <1>4, <1>5, <1>6, <1>7, <1>8

\* The message taken out of the codec is the one to be sent.
LEMMA ReplyIInv ==
  ASSUME IInv, Reply
  PROVE  IInv'
<1> USE DEF IInv
<1>a. /\ TypeOK /\ HeadLen \in Nat \ {0} /\ sendLen = 0
      /\ pc = "read" /\ status = "FINISH" /\ InProgress /\ msg = {Body(Current)}
  BY EchoConnAssumption DEF Reply, Taken, Decoded
<1>b. wire[Current].at \in Nat /\ wire[Current].len \in Nat
  BY <1>a, WireFacts DEF InProgress
<1>c. Body(Current) \in Slice /\ Body(Current).len = wire[Current].len
  BY <1>a, <1>b DEF Body, Slice
<1>d. /\ message' = {Body(Current)} /\ pktUse' = HeadLen + wire[Current].len
      /\ msg' = {} /\ pc' = "write"
      /\ UNCHANGED <<stream, packet, status, bodyLen, sendLen, replies>>
  BY <1>a, <1>c DEF Reply
<1>e. Current' = Current /\ UNCHANGED wire
  <2>1. sendLen' # pktUse'  BY <1>a, <1>b, <1>d
  <2>2. QED  BY <2>1, <1>a, <1>d DEF Current, stream
<1>f. Body(Current)' = Body(Current)  BY <1>e DEF Body
<1>1. TypeOK'  BY <1>a, <1>b, <1>c, <1>d DEF TypeOK, stream, packet
<1>2. BufferSafe'  BY <1>a, <1>b, <1>d DEF BufferSafe, packet
<1>3. EchoInOrder'  BY <1>d, <1>e DEF EchoInOrder, Body
<1>4. Contiguous'  BY <1>d DEF Contiguous, End, stream
<1>5. Framed'  BY <1>d, <1>e DEF Framed, InProgress, stream, packet
<1>6. Decoded'  BY <1>a, <1>d, <1>e DEF Decoded, InProgress, packet
<1>7. Taken'  BY <1>d, <1>e, <1>f DEF Taken
<1>8. Bounded'  BY <1>d, <1>e DEF Bounded, stream, packet
<1>9. QED  BY <1>1, <1>2, <1>3, <1>4, <1>5, <1>6, <1>7, <1>8

\* The reply that becomes complete is the one to the current request.
LEMMA WriteSomeIInv ==
  ASSUME IInv, NEW n \in 1 .. pktUse - sendLen, WriteSome(n)
  PROVE  IInv'
<1> USE DEF IInv
<1>a. /\ TypeOK /\ pktUse \in Nat /\ sendLen \in Nat /\ n \in Nat \ {0}
      /\ pc = "write" /\ status = "FINISH" /\ sendLen # pktUse
      /\ Len(wire) \in Nat /\ DOMAIN wire = 1 .. Len(wire)
      /\ Len(replies) \in Nat /\ DOMAIN replies = 1 .. Len(replies)
  BY WireFacts DEF WriteSome, TypeOK, Decoded
<1>b. /\ Current = Len(replies) + 1 /\ InProgress /\ Current \in 1 .. Len(wire)
      /\ message = {Body(Current)}
  BY <1>a DEF Current, Decoded, Taken, InProgress
<1>c. /\ UNCHANGED <<stream, packet, codec, message, pktUse, pc>>
      /\ sendLen' = sendLen + n /\ sendLen' \in Nat /\ sendLen' <= pktUse
  BY <1>a DEF WriteSome
<1>d. wire[Current].at \in Nat /\ wire[Current].len \in Nat
  BY <1>a, <1>b, WireFacts DEF InProgress
<1>e. UNCHANGED wire /\ Body(Current) \in Slice
  BY <1>c, <1>d, EchoConnAssumption DEF stream, Body, Slice
<1>f. \/ sendLen' # pktUse' /\ replies' = replies
      \/ sendLen' = pktUse' /\ replies' = Append(replies, Body(Current))
  BY <1>a, <1>b, <1>c DEF WriteSome
<1>g. /\ replies' \in Seq(Slice) /\ Current' = Current
      /\ Len(replies) <= Len(replies') /\ Len(replies') <= Len(wire)
      /\ Len(replies') \in Nat /\ DOMAIN replies' = 1 .. Len(replies')
      /\ \A k \in DOMAIN replies' : replies'[k] = Body(k)
  <2>1. replies \in Seq(Slice) /\ \A k \in DOMAIN replies : replies[k] = Body(k)
    BY <1>a DEF TypeOK, EchoInOrder
  <2>2. CASE sendLen' # pktUse' /\ replies' = replies
    BY <2>1, <2>2, <1>a, <1>b, <1>c DEF Current
  <2>3. CASE sendLen' = pktUse' /\ replies' = Append(replies, Body(Current))
    <3>1. /\ replies' \in Seq(Slice) /\ Len(replies') = Len(replies) + 1
          /\ DOMAIN replies' = 1 .. Len(replies) + 1
          /\ \A k \in DOMAIN replies : replies'[k] = replies[k]
          /\ replies'[Len(replies) + 1] = Body(Current)
      BY <2>1, <2>3, <1>e, AppendFacts
    <3>2. Current' = Current  BY <2>3, <3>1, <1>a, <1>b, <1>c DEF Current
    <3>3. \A k \in DOMAIN replies' : replies'[k] = Body(k)
      BY <3>1, <2>1, <1>a, <1>b
    <3>4. QED  BY <3>1, <3>2, <3>3, <1>a, <1>b
  <2>4. QED  BY <2>2, <2>3, <1>f
<1>h. \A k : Body(k)' = Body(k)  BY <1>e DEF Body
<1>1. TypeOK'  BY <1>a, <1>c, <1>g DEF TypeOK, stream, packet, codec
<1>2. BufferSafe'  BY <1>a, <1>c DEF BufferSafe, packet
<1>3. EchoInOrder'  BY <1>e, <1>g, <1>h DEF EchoInOrder
<1>4. Contiguous'  BY <1>c DEF Contiguous, End, stream
<1>5. Framed'  BY <1>c, <1>g DEF Framed, InProgress, stream, packet
<1>6. Decoded'  BY <1>c, <1>e, <1>g DEF Decoded, InProgress, packet, codec
<1>7. Taken'  BY <1>a, <1>c, <1>e, <1>g, <1>h DEF Taken
<1>8. Bounded'  BY <1>a, <1>c, <1>e, <1>g DEF Bounded, stream, packet, codec
<1>9. QED  BY <1>1, <1>2, <1>3, <1>4, <1>5, <1>6, <1>7, <1>8

\* Reset forgets nothing: the buffer ended with the current request.
LEMMA ResetIInv ==
  ASSUME IInv, Reset
  PROVE  IInv'
<1> USE DEF IInv
<1>a. /\ TypeOK /\ HeadLen \in Nat \ {0} /\ cap \in Nat /\ base \in Nat /\ use \in Nat
      /\ pc = "write" /\ status = "FINISH" /\ sendLen = pktUse
      /\ Len(wire) \in Nat /\ DOMAIN wire = 1 .. Len(wire)
      /\ Len(replies) \in Nat
  BY EchoConnAssumption, WireFacts DEF Reset, TypeOK, Decoded
<1>b. /\ Current = Len(replies) /\ Current \in 1 .. Len(wire)
      /\ base = wire[Current].at /\ use = HeadLen + wire[Current].len
  BY <1>a DEF Current, Decoded, InProgress, Framed
<1>c. wire[Current].at \in Nat /\ wire[Current].len \in Nat  BY <1>a, <1>b, WireFacts
<1>d. /\ UNCHANGED <<stream, message, replies>> /\ UNCHANGED wire /\ UNCHANGED tail
      /\ base' = base + use /\ use' = 0 /\ parse' = 0
      /\ cap' = IF "reuse" \in usage THEN cap ELSE HeadLen
      /\ status' = "HEAD" /\ bodyLen' = 0 /\ msg' = {} /\ sendLen' = 0 /\ pktUse' = 0
      /\ pc' = "read" /\ Current' = Current + 1
  BY <1>a, <1>b DEF Reset, stream, Current
<1>e. base' = End(Current) /\ base' \in Nat  BY <1>a, <1>b, <1>c, <1>d, SMTT(30) DEF End
<1>1. TypeOK'  BY <1>a, <1>d, <1>e DEF TypeOK, stream
<1>2. BufferSafe'  BY <1>a, <1>d DEF BufferSafe
<1>3. EchoInOrder'  BY <1>d DEF EchoInOrder, Body
<1>4. Contiguous'  BY <1>d DEF Contiguous, End
<1>5. Framed'
  <2>1. base' + use' <= tail'  BY <1>a, <1>b, <1>d, <1>e DEF Contiguous
  <2>2. CASE InProgress'
    <3>1. Current + 1 \in DOMAIN wire  BY <2>2, <1>d DEF InProgress
    <3>2. wire[Current + 1].at = End(Current)
      BY <3>1, <1>a, <1>b DEF Contiguous
    <3>3. wire[Current + 1].len \in Nat  BY <3>1, <1>a, WireFacts
    <3>4. QED  BY <2>1, <2>2, <3>2, <3>3, <1>a, <1>d, <1>e DEF Framed
  <2>3. CASE ~InProgress'
    <3>0. ~(Current + 1 \in DOMAIN wire)  BY <2>3, <1>d DEF InProgress
    <3>1. Current = Len(wire)  BY <3>0, <1>a, <1>b, LastIndex
    <3>a. wire # <<>>  BY <1>a, <1>b
    <3>2. tail = End(Current)  BY <3>1, <3>a DEF Contiguous
    <3>3. QED  BY <2>1, <2>3, <3>2, <1>d, <1>e DEF Framed
  <2>4. QED  BY <2>2, <2>3
<1>6. Decoded'  BY <1>d DEF Decoded
<1>7. Taken'  BY <1>d DEF Taken
<1>8. Bounded'  BY <1>a, <1>d DEF Bounded, stream
<1>9. QED  BY <1>1, <1>2, <1>3, <1>4, <1>5, <1>6, <1>7, <1>8

\* A client that goes away changes nothing the server has.
LEMMA ClientCloseIInv ==
  ASSUME IInv, ClientClose
  PROVE  IInv'
<1>1. UNCHANGED <<usage, wire, tail, packet, codec, reply, pc, Current>> /\ peer' \in BOOLEAN
  BY DEF ClientClose, Current, reply
<1>2. QED
  BY <1>1 DEF IInv, TypeOK, BufferSafe, EchoInOrder, Contiguous, Framed, Decoded, Taken, Bounded,
      InProgress, End, Body, packet, codec, reply

\* The initial states.
LEMMA InitIInv ==
  ASSUME Init
  PROVE  IInv
<1>1. TypeOK  BY EchoConnAssumption DEF Init, TypeOK
<1>2. ~InProgress  BY DEF Init, InProgress, Current
<1>3. QED
  BY <1>1, <1>2, EchoConnAssumption
  DEF Init, IInv, BufferSafe, EchoInOrder, Contiguous, Framed, Decoded, Taken, Bounded

\* Every step.
LEMMA NextIInv ==
  ASSUME IInv, OneAtATime, [Next]_vars
  PROVE  IInv'
<1>1. CASE UNCHANGED vars
  BY <1>1 DEF IInv, TypeOK, BufferSafe, EchoInOrder, Contiguous, Framed, Decoded, Taken, Bounded,
      InProgress, Current, End, Body, vars, stream, packet, codec, reply
<1>2. CASE Client
  BY <1>2, ClientCloseIInv, ClientSendIInv DEF Client
<1>3. CASE Server
  BY <1>3, ReadSomeIInv, ReadFailsIInv, DecodeHeadIInv, DecodeBodyIInv, DeCodeReturnIInv,
     ReplyIInv, WriteSomeIInv, WriteFailsIInv, ResetIInv DEF Server
<1>4. QED  BY <1>1, <1>2, <1>3 DEF Next
-----------------------------------------------------------------------------
\* The inductive invariant holds of every reachable state.
THEOREM Invariance ==
  ASSUME OneAtATime
  PROVE  Spec => []IInv
<1>1. Init => IInv  BY InitIInv
<1>2. IInv /\ [Next]_vars => IInv'  BY OneAtATime, NextIInv
<1>3. QED  BY <1>1, <1>2, PTL DEF Spec

\* Types, whatever is sent and however read() and write() cut it.
THEOREM TypeCorrect ==
  ASSUME OneAtATime
  PROVE  Spec => []TypeOK
<1>1. IInv => TypeOK  BY DEF IInv
<1>2. QED  BY <1>1, OneAtATime, Invariance, PTL

\* No length of a Packet wraps below zero: a read or a write stays inside the
\* buffer.
THEOREM BuffersAreSafe ==
  ASSUME OneAtATime
  PROVE  Spec => []BufferSafe
<1>1. IInv => BufferSafe  BY DEF IInv
<1>2. QED  BY <1>1, OneAtATime, Invariance, PTL

\* The replies are the requests, in order, once each.
THEOREM RepliesAreEchoes ==
  ASSUME OneAtATime
  PROVE  Spec => []EchoInOrder
<1>1. IInv => EchoInOrder  BY DEF IInv
<1>2. QED  BY <1>1, OneAtATime, Invariance, PTL

\* A Codec is never left with bytes of the next request.
THEOREM NothingIsOverRead ==
  ASSUME OneAtATime
  PROVE  Spec => []NoOverRead
<1>1. IInv => NoOverRead  BY DEF IInv, Decoded, NoOverRead
<1>2. QED  BY <1>1, OneAtATime, Invariance, PTL

\* Requests already on the stream stay as they are.
LEMMA StreamGrows ==
  ASSUME IInv, NEW b \in BodyLens, ClientSend(b)
  PROVE  E!Ask
<1> DEFINE r == [at |-> tail, len |-> b]
<1>1. wire \in Seq(Request) /\ r \in Request /\ wire' = Append(wire, r)
  BY DEF IInv, TypeOK, ClientSend, Request
<1>2. /\ Len(wire) \in Nat /\ DOMAIN wire = 1 .. Len(wire)
      /\ DOMAIN wire' = 1 .. Len(wire) + 1
      /\ \A k \in DOMAIN wire : wire'[k] = wire[k]
  BY <1>1, AppendFacts, SeqFacts
<1>3. UNCHANGED <<replies, pc # "closed">>  BY DEF ClientSend, reply
<1>4. Len([i \in DOMAIN wire |-> Body(i)])' = Len([i \in DOMAIN wire |-> Body(i)]) + 1
  BY <1>2
<1>5. \A k \in DOMAIN wire : Body(k)' = Body(k)  BY <1>2 DEF Body
<1>6. QED  BY <1>2, <1>3, <1>4, <1>5 DEF E!Ask

\* Every connection is an echo service: what a client is promised by Echo.
THEOREM Refinement ==
  ASSUME OneAtATime
  PROVE  Spec => EchoSpec
<1>1. Init => E!Init  BY DEF Init, E!Init
<1>2. IInv /\ IInv' /\ [Next]_vars => [E!Next]_E!vars
  <2>1. SUFFICES ASSUME IInv, IInv', [Next]_vars PROVE [E!Next]_E!vars
    OBVIOUS
  <2>2. CASE UNCHANGED vars
    BY <2>2 DEF vars, stream, reply, Body, E!vars
  <2>3. ASSUME UNCHANGED <<wire, replies>>, pc # "closed" => pc' # "closed",
               pc = "closed" => pc' = "closed"
        PROVE  [E!Next]_E!vars
    BY <2>3 DEF Body, E!vars
  <2>4. ASSUME UNCHANGED <<wire, replies>>, pc # "closed", pc' = "closed"
        PROVE  E!Close
    BY <2>4 DEF Body, E!Close
  <2>5. CASE Client
    <3>1. ASSUME NEW b \in BodyLens, ClientSend(b) PROVE E!Ask
      BY <2>1, <3>1, StreamGrows
    <3>2. CASE ClientClose  BY <3>2, <2>3 DEF ClientClose, reply
    <3>3. QED  BY <2>5, <3>1, <3>2 DEF Client, E!Next
  <2>6. ASSUME NEW n \in 1 .. pktUse - sendLen, WriteSome(n) PROVE [E!Next]_E!vars
    <3>1. wire' = wire /\ pc = "write" /\ pc' = pc  BY <2>6 DEF WriteSome, stream
    <3>2. CASE replies' = replies  BY <3>1, <3>2, <2>3
    <3>3. CASE replies' # replies
      <4>1. \E m \in message : replies' = Append(replies, m)
        BY <3>3, <2>6 DEF WriteSome
      <4>2. Len(replies) \in Nat /\ Len(replies') = Len(replies) + 1
        BY <4>1, <2>1 DEF IInv, TypeOK
      <4>3. Len(replies') <= Len(wire) /\ Len(wire) \in Nat /\ DOMAIN wire = 1 .. Len(wire)
        BY <2>1, <3>1, WireFacts DEF IInv, EchoInOrder
      <4>4. replies' = Append(replies, Body(Len(replies) + 1))
        <5>1. PICK m \in message : replies' = Append(replies, m)  BY <4>1
        <5>2. m \in Slice /\ replies \in Seq(Slice)  BY <2>1 DEF IInv, TypeOK
        <5>3. replies'[Len(replies) + 1] = m /\ DOMAIN replies' = 1 .. Len(replies) + 1
          BY <5>1, <5>2, AppendFacts
        <5>4. \A k \in DOMAIN replies' : replies'[k] = Body(k)'
          BY <2>1 DEF IInv, EchoInOrder
        <5>5. \A k : Body(k)' = Body(k)  BY <3>1 DEF Body
        <5>6. Len(replies) + 1 \in DOMAIN replies'  BY <5>3, <4>2
        <5>7. m = Body(Len(replies) + 1)  BY <5>3, <5>4, <5>5, <5>6
        <5>8. QED  BY <5>1, <5>7
      <4>5. QED  BY <3>1, <4>2, <4>3, <4>4 DEF Body, E!Next, E!Answer
    <3>4. QED  BY <3>2, <3>3
  <2>7. CASE Server
    <3>1. CASE \E n \in 1 .. CanWriteLen : ReadSome(n)
      BY <3>1, <2>3 DEF ReadSome, stream, reply
    <3>2. CASE DecodeHead \/ DecodeBody \/ DeCodeReturn
      BY <3>2, <2>3 DEF DecodeHead, DecodeBody, DeCodeReturn, AtBody, stream, reply
    <3>3. CASE Reply \/ Reset
      BY <3>3, <2>3 DEF Reply, Reset, stream
    <3>4. CASE ReadFails \/ WriteFails
      BY <3>4, <2>4 DEF ReadFails, WriteFails, stream, reply, E!Next
    <3>5. QED  BY <2>7, <2>6, <3>1, <3>2, <3>3, <3>4 DEF Server
  <2>8. QED  BY <2>1, <2>2, <2>5, <2>7 DEF Next
<1>3. QED  BY <1>1, <1>2, OneAtATime, Invariance, PTL DEF Spec, EchoSpec, E!Spec
=============================================================================
