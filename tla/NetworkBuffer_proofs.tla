------------------------ MODULE NetworkBuffer_proofs ------------------------
(***************************************************************************)
(* The input buffer: what skip() on the main thread and receive() on the   *)
(* worker leave of it, for every size, every table and every chunking, and *)
(* what a packet handler therefore sees: MessageStream is implemented.     *)
(***************************************************************************)
EXTENDS Network_proofs

\* What is left of a buffer is a buffer, and skipping is finished or it is empty.
LEMMA DroppedProperties ==
    ASSUME NEW S, NEW b \in Seq(S), NEW n \in Nat
    PROVE  /\ Dropped(b, n).buf \in Seq(S)
           /\ Len(Dropped(b, n).buf) <= Len(b)
           /\ Dropped(b, n).skip \in Nat
           /\ Dropped(b, n).skip = 0 \/ Dropped(b, n).buf = <<>>
           /\ n = 0 => Dropped(b, n).buf = b
  <1>0. Len(b) \in Nat
    OBVIOUS
  <1>1. CASE Len(b) >= n
    <2>1. \A i \in (n + 1)..Len(b) : b[i] \in S
      BY <1>0
    <2>2. /\ SubSeq(b, n + 1, Len(b)) \in Seq(S)
          /\ Len(SubSeq(b, n + 1, Len(b))) = IF n + 1 <= Len(b) THEN Len(b) - (n + 1) + 1 ELSE 0
      BY <1>0, <2>1, SubSeqProperties
    <2>3. n = 0 => SubSeq(b, n + 1, Len(b)) = b
      BY SubSeqFull
    <2> QED
      BY <1>0, <1>1, <2>2, <2>3 DEF Dropped
  <1>2. CASE ~(Len(b) >= n)
    BY <1>0, <1>2, EmptySeq DEF Dropped
  <1> QED
    BY <1>1, <1>2

\* The bytes of a message, and the part of the wire a receive takes or leaves.
LEMMA BytesType == ASSUME NEW m \in Message PROVE Bytes(m) \in Seq(Byte)
  <1>1. m.len \in Nat
    BY DEF Message
  <1>2. \A i \in 1..m.len : [msg |-> m, off |-> i] \in Byte
    BY <1>1 DEF Byte
  <1> QED
    BY <1>1, <1>2 DEF Bytes

LEMMA Chunk ==
    ASSUME NEW S, NEW w \in Seq(S), NEW n \in 1..Len(w)
    PROVE  /\ SubSeq(w, 1, n) \in Seq(S) /\ Len(SubSeq(w, 1, n)) = n
           /\ SubSeq(w, n + 1, Len(w)) \in Seq(S)
  <1>1. Len(w) \in Nat /\ (\A i \in 1..n : w[i] \in S) /\ (\A i \in (n + 1)..Len(w) : w[i] \in S)
    OBVIOUS
  <1>2. SubSeq(w, 1, n) \in Seq(S) /\ Len(SubSeq(w, 1, n)) = IF 1 <= n THEN n - 1 + 1 ELSE 0
    BY <1>1, SubSeqProperties
  <1>3. SubSeq(w, n + 1, Len(w)) \in Seq(S)
    BY <1>1, SubSeqProperties
  <1> QED
    BY <1>2, <1>3

----------------------------------------------------------------------------
\* The part of TypeOK about messages and the server.
StreamType ==
    /\ mPauseDispatch \in BOOLEAN
    /\ msg \in [head : Byte \cup {NoByte}, len : Nat]
    /\ wire \in Seq(Byte) /\ peer \in {"open", "closed"}
    /\ sent \in 0..MaxMsgs /\ pre \in Nat
    /\ mSocket \in Sessions \cup {NULL}

BufferInv ==
    /\ StreamType
    /\ mInBuffer \in Seq(Byte) /\ Len(mInBuffer) <= BUFFER_SIZE
    /\ mToSkip \in Nat
    /\ SkipOnlyWhenEmpty
    /\ pc = "read" => Len(mInBuffer) > 1

LEMMA BufferInit == Init => BufferInv
  <1> SUFFICES ASSUME Init PROVE BufferInv
    OBVIOUS
  <1>1. StreamType
    <2>1. msg \in [head : Byte \cup {NoByte}, len : Nat]
      BY DEF Init
    <2>2. wire \in Seq(Byte)
      BY EmptySeq DEF Init
    <2>3. sent \in 0..MaxMsgs /\ pre \in Nat
      BY BufferAssumption DEF Init
    <2> QED
      BY <2>1, <2>2, <2>3 DEF Init, StreamType
  <1>2. mInBuffer \in Seq(Byte) /\ Len(mInBuffer) = 0
    BY EmptySeq DEF Init
  <1>3. pc # "read" /\ mToSkip = 0
    BY DEF Init
  <1> QED
    BY <1>1, <1>2, <1>3, BufferAssumption DEF BufferInv, SkipOnlyWhenEmpty

\* skip(), called by the main thread alone.
LEMMA SkipKeeps ==
    ASSUME BufferInv, NEW n \in Nat, skip(n), pc' # "read", StreamType'
    PROVE  BufferInv'
  <1>1. mToSkip + n \in Nat
    BY DEF BufferInv
  <1>2. mInBuffer' = Dropped(mInBuffer, mToSkip + n).buf /\ mToSkip' = Dropped(mInBuffer,
       mToSkip + n).skip
    BY DEF skip
  <1>3. /\ mInBuffer' \in Seq(Byte) /\ mToSkip' \in Nat
        /\ Len(mInBuffer') <= Len(mInBuffer) /\ SkipOnlyWhenEmpty'
    BY <1>1, <1>2, DroppedProperties DEF BufferInv, SkipOnlyWhenEmpty
  <1> QED
    BY <1>3, BufferAssumption DEF BufferInv

\* receive() appends at most what fits; it never shrinks a buffer that has bytes.
LEMMA ReceiveKeeps ==
    ASSUME BufferInv, NEW s \in Sessions, Receive(s) PROVE BufferInv'
  <1> USE DEF BufferInv, StreamType
  <1>1. PICK n \in 1..Len(wire) :
          /\ n <= BUFFER_SIZE - Len(mInBuffer)
          /\ wire' = SubSeq(wire, n + 1, Len(wire))
          /\ mInBuffer' = Dropped(mInBuffer \o SubSeq(wire, 1, n), mToSkip).buf
          /\ mToSkip' = Dropped(mInBuffer \o SubSeq(wire, 1, n), mToSkip).skip
    BY DEF Receive, Room
  <1> DEFINE c == SubSeq(wire, 1, n)
             b == mInBuffer \o c
  <1>2. c \in Seq(Byte) /\ Len(c) = n /\ wire' \in Seq(Byte)
    BY <1>1, Chunk
  <1>3. b \in Seq(Byte) /\ Len(b) = Len(mInBuffer) + n
    BY <1>2, ConcatProperties
  <1> HIDE DEF b, c
  <1>4. mInBuffer' = Dropped(b, mToSkip).buf /\ mToSkip' = Dropped(b, mToSkip).skip
    BY <1>1 DEF b, c
  <1>5. /\ mInBuffer' \in Seq(Byte) /\ mToSkip' \in Nat /\ Len(mInBuffer') <= Len(b)
        /\ SkipOnlyWhenEmpty'
    BY <1>3, <1>4, DroppedProperties DEF SkipOnlyWhenEmpty
  <1>6. Len(mInBuffer') <= BUFFER_SIZE
    BY <1>1, <1>3, <1>5, BufferAssumption
  <1>7. pc = "read" => Len(mInBuffer') > 1
    <2>1. pc = "read" => mToSkip = 0 /\ Len(mInBuffer) > 1
      BY EmptySeq DEF SkipOnlyWhenEmpty
    <2>2. mToSkip = 0 => mInBuffer' = b
      BY <1>3, <1>4, DroppedProperties
    <2> QED
      BY <1>3, <2>1, <2>2
  <1>8. UNCHANGED <<pc, msg, mPauseDispatch, peer, sent, pre, mSocket>>
    BY DEF Receive, conn, main
  <1> QED
    BY <1>2, <1>5, <1>6, <1>7, <1>8

\* The header is looked up in a buffer that has one.
LEMMA ReadKeeps == ASSUME BufferInv, ReadMessage PROVE BufferInv'
  <1>1. mInBuffer[1] \in Byte
    BY DEF ReadMessage, Goto, BufferInv
  <1>2. mInBuffer[1].msg.len \in Nat
    BY <1>1 DEF Byte, Message
  <1>3. PacketLen(mInBuffer[1].msg.kind) \in Nat \cup {-1}
    BY TableAssumption DEF PacketLen
  <1>4. msg' \in [head : Byte \cup {NoByte}, len : Nat]
    BY <1>1, <1>2, <1>3 DEF ReadMessage
  <1> QED
    BY <1>4 DEF ReadMessage, Goto, conn, inbound, server, BufferInv, StreamType, SkipOnlyWhenEmpty

\* Steps that leave the buffer, the server and the message alone.
Elsewhere ==
    /\ UNCHANGED <<inbound, server, msg, mSocket>>
    /\ mPauseDispatch' \in BOOLEAN
    /\ pc' # "read"

LEMMA ElsewhereKeeps == ASSUME BufferInv, Elsewhere PROVE BufferInv'
  BY DEF Elsewhere, BufferInv, StreamType, SkipOnlyWhenEmpty, inbound, server

LEMMA ServerKeeps == ASSUME BufferInv, ServerSend PROVE BufferInv'
  <1>1. PICK p \in Packets :
          wire' = wire \o Bytes([sess |-> mSocket, idx |-> sent + 1, kind |-> p.kind,
          len |-> p.len])
    BY DEF ServerSend
  <1> DEFINE m == [sess |-> mSocket, idx |-> sent + 1, kind |-> p.kind, len |-> p.len]
  <1>2. sent' \in 0..MaxMsgs /\ sent + 1 \in 0..MaxMsgs /\ mSocket \in Sessions
    BY BufferAssumption DEF ServerSend, BufferInv, StreamType
  <1>3. m \in Message
    BY <1>2, PacketAssumption DEF Message, Kinds
  <1>4. wire' \in Seq(Byte)
    BY <1>1, <1>3, BytesType, ConcatProperties DEF BufferInv, StreamType
  <1> QED
    BY <1>2, <1>4 DEF ServerSend, conn, inbound, main, BufferInv, StreamType, SkipOnlyWhenEmpty

LEMMA OpenKeeps == ASSUME BufferInv, NEW s \in Sessions, Open(s) PROVE BufferInv'
  <1>1. Prefix(s, pre) \in Message
    BY BufferAssumption DEF Prefix, Message, BufferInv, StreamType
  <1>2. wire' \in Seq(Byte)
    BY <1>1, BytesType DEF Open
  <1> QED
    BY <1>2, BufferAssumption DEF Open, inbound, main, BufferInv, StreamType, SkipOnlyWhenEmpty

LEMMA JoinKeeps == ASSUME BufferInv, Join, CallOrder PROVE BufferInv'
  <1>1. wire' \in Seq(Byte)
    BY EmptySeq DEF Join, WaitThread, BufferInv, StreamType
  <1> QED
    BY <1>1 DEF Join, WaitThread, Goto, CallOrder, inbound, BufferInv, StreamType,
       SkipOnlyWhenEmpty

LEMMA ConnectKeeps == ASSUME BufferInv, Connect PROVE BufferInv'
  <1>1. pre' \in Nat /\ pc' # "read"
    BY BufferAssumption DEF Connect, NotInUse, Goto
  <1>2. UNCHANGED <<msg, mPauseDispatch, wire, peer, sent, mSocket>>
    BY DEF Connect, NotInUse, ConnectWithoutAddress, ConnectWithoutThread, ConnectStarts, Reset,
       conn
  <1>3. StreamType'
    BY <1>1, <1>2 DEF BufferInv, StreamType
  <1>4. CASE UNCHANGED inbound
    BY <1>1, <1>3, <1>4 DEF inbound, BufferInv, SkipOnlyWhenEmpty
  <1>5. CASE mInBuffer' = <<>> /\ mToSkip' = 0
    <2>1. mInBuffer' \in Seq(Byte) /\ Len(mInBuffer') = 0
      BY <1>5, EmptySeq
    <2> QED
      BY <1>1, <1>3, <1>5, <2>1, BufferAssumption DEF BufferInv, SkipOnlyWhenEmpty
  <1>6. UNCHANGED inbound \/ (mInBuffer' = <<>> /\ mToSkip' = 0)
    BY DEF Connect, NotInUse, ConnectWithoutAddress, ConnectWithoutThread, ConnectStarts, Reset
  <1> QED
    BY <1>4, <1>5, <1>6

LEMMA WorkerKeeps == ASSUME BufferInv, NEW s \in Sessions, Worker(s) PROVE BufferInv'
  <1>1. CASE ResolveFails(s) \/ Resolve(s) \/ OpenFails(s)
    BY <1>1 DEF ResolveFails, Resolve, OpenFails, inbound, main, server, BufferInv, StreamType,
       SkipOnlyWhenEmpty
  <1>2. CASE Publish(s) \/ Alloc(s) \/ Loop(s) \/ Wait(s) \/ ReceiveEnd(s) \/ ReceiveFails(s)
    BY <1>2 DEF Publish, Alloc, Loop, Wait, ReceiveEnd, ReceiveFails, conn, inbound, main, server,
       BufferInv, StreamType, SkipOnlyWhenEmpty
  <1> QED
    BY <1>1, <1>2, OpenKeeps, ReceiveKeeps DEF Worker

LEMMA BufferNext == BufferInv /\ CallOrder /\ [Next]_vars => BufferInv'
  <1> SUFFICES ASSUME BufferInv, CallOrder, [Next]_vars PROVE BufferInv'
    OBVIOUS
  <1>0. mPauseDispatch \in BOOLEAN
    BY DEF BufferInv, StreamType
  <1>1. CASE FlushNetwork \/ FlushSend \/ Flush \/ Send
    <2>1. Elsewhere
      BY <1>0, <1>1 DEF FlushNetwork, FlushSend, Flush, Send, Goto, CallOrder, Elsewhere, conn
    <2> QED
      BY <2>1, ElsewhereKeeps
  <1>2. CASE Handle \/ HandleRedirect \/ CheckError \/ GameConnect \/ Disconnect \/ Reconnect \/ Delete
    <2>1. Elsewhere
      BY <1>0, <1>2 DEF Handle, HandleRedirect, CheckError, GameConnect, Disconnect, Reconnect,
         StartDisconnect, Delete, Goto, Elsewhere, conn
    <2> QED
      BY <2>1, ElsewhereKeeps
  <1>3. CASE Write \/ WriteFix \/ WriteExpand \/ HandleReply \/ HandleReplyFix \/ HandleReplyExpand
    <2>1. Elsewhere
      BY <1>0, <1>3 DEF Write, WriteFix, WriteExpand, HandleReply, HandleReplyFix,
         HandleReplyExpand,
         WritePacket, FixSendBuffer, Expand, Goto, Elsewhere, conn
    <2> QED
      BY <2>1, ElsewhereKeeps
  <1>4. CASE Dispatch
    BY <1>4, BufferAssumption DEF Dispatch, messageReady, Goto, conn, inbound, server, BufferInv,
       StreamType, SkipOnlyWhenEmpty
  <1>5. CASE ReadMessage
    BY <1>5, ReadKeeps
  <1>6. CASE SkipMessage
    <2>1. msg.len \in Nat /\ pc' # "read" /\ skip(msg.len) /\ StreamType'
      BY <1>6 DEF SkipMessage, Goto, conn, server, BufferInv, StreamType
    <2> QED
      BY <2>1, SkipKeeps
  <1>7. CASE Hello
    <2>1. PrefixLen \in Nat /\ pc' # "read" /\ skip(PrefixLen) /\ StreamType'
      BY <1>7, BufferAssumption DEF Hello, Goto, conn, server, BufferInv, StreamType
    <2> QED
      BY <2>1, SkipKeeps
  <1>8. CASE Join
    BY <1>8, JoinKeeps
  <1>9. CASE Connect
    BY <1>9, ConnectKeeps
  <1>10. ASSUME NEW s \in Sessions, Worker(s) PROVE BufferInv'
    BY <1>10, WorkerKeeps
  <1>11. CASE ServerSend
    BY <1>11, ServerKeeps
  <1>12. CASE ServerClose
    BY <1>12 DEF ServerClose, conn, inbound, main, BufferInv, StreamType, SkipOnlyWhenEmpty
  <1>13. CASE UNCHANGED vars
    BY <1>13 DEF vars, conn, inbound, main, server, BufferInv, StreamType, SkipOnlyWhenEmpty
  <1> QED
    BY <1>1, <1>2, <1>3, <1>4, <1>5, <1>6, <1>7, <1>8, <1>9, <1>10, <1>11, <1>12, <1>13
       DEF Next, Main, Terminated

THEOREM BufferCorrect == Spec => []BufferInv
  <1>1. ConnInv => CallOrder
    BY DEF ConnInv
  <1> QED
    BY <1>1, BufferInit, BufferNext, ConnCorrect, PTL DEF Spec

\* Both threads together never leave bytes in the buffer that are to be skipped,
\* so a handler's message is never moved while the handler reads it.
THEOREM SkipOnlyWhenEmptyHolds == Spec => []SkipOnlyWhenEmpty
  <1>1. BufferInv => SkipOnlyWhenEmpty
    BY DEF BufferInv
  <1> QED
    BY <1>1, BufferCorrect, PTL

\* Type correctness, with the received bytes inside their array.
THEOREM TypeCorrect == Spec => []TypeOK
  <1>1. ConnInv /\ BufferInv /\ OutInv => TypeOK
    BY DEF ConnInv, ConnType, BufferInv, StreamType, OutInv, TypeOK
  <1> QED
    BY <1>1, BufferCorrect, OutCorrect, PTL

----------------------------------------------------------------------------
(* The stream: what was received and what was not.  Everything is said of  *)
(* positions, so that it holds of a part of a stream as it does of all.    *)

\* What position i of st says of a later one, j.
Follow(st, i, j) ==
    /\ j - i <= st[i].msg.len - st[i].off
         => st[j] = [msg |-> st[i].msg, off |-> st[i].off + (j - i)]
    /\ j - i = st[i].msg.len - st[i].off + 1
         => st[j].off = 1 /\ st[j].msg.idx = st[i].msg.idx + 1
    /\ st[i].msg.idx <= st[j].msg.idx
    /\ st[i].msg.idx = st[j].msg.idx => st[i].msg = st[j].msg

NoneMissing(st) ==
    \A i \in 1..Len(st) : \A n \in st[1].msg.idx .. st[i].msg.idx :
        \E j \in 1..i : st[j].msg.idx = n

\* The bytes of messages that follow one another, though perhaps not all of the first and
\* of the last one.
Runs(st) ==
    /\ \A i \in 1..Len(st) : 1 <= st[i].off /\ st[i].off <= st[i].msg.len
    /\ \A i, j \in 1..Len(st) : i <= j => Follow(st, i, j)
    /\ NoneMissing(st)

\* The last message, number n, is there to its end.
Whole(st, n) ==
    /\ \A i \in 1..Len(st) : st[i].msg.len - st[i].off <= Len(st) - i
    /\ st # <<>> => st[Len(st)].msg.idx = n

LEMMA ByteFacts ==
    ASSUME NEW b \in Byte
    PROVE  /\ b.msg \in Message /\ b.off \in Nat
           /\ b.msg.idx \in Nat /\ b.msg.len \in Nat
           /\ b = [msg |-> b.msg, off |-> b.off]
  BY BufferAssumption DEF Byte, Message

LEMMA BytesAre ==
    ASSUME NEW m \in Message
    PROVE  /\ Bytes(m) \in Seq(Byte) /\ m.len \in Nat /\ Len(Bytes(m)) = m.len
           /\ \A i \in 1..m.len : Bytes(m)[i] = [msg |-> m, off |-> i]
  <1>1. m.len \in Nat
    BY DEF Message
  <1> QED
    BY <1>1, BytesType DEF Bytes

\* A byte is never of an earlier message than one before it, and no number is left out.
LEMMA Ordered ==
    ASSUME NEW st \in Seq(Byte), Runs(st), NEW i \in 1..Len(st), NEW j \in 1..Len(st), i <= j
    PROVE  /\ st[i].msg.idx <= st[j].msg.idx
           /\ st[i].msg.idx = st[j].msg.idx => st[i].msg = st[j].msg
           /\ j - i <= st[i].msg.len - st[i].off
                 => st[j].msg = st[i].msg /\ st[j].off = st[i].off + (j - i)
           /\ j - i = st[i].msg.len - st[i].off + 1
                 => st[j].off = 1 /\ st[j].msg.idx = st[i].msg.idx + 1
  <1>1. Follow(st, i, j)
    BY DEF Runs
  <1> QED
    BY <1>1 DEF Follow

LEMMA Numbers ==
    ASSUME NEW st \in Seq(Byte), Runs(st), NEW i \in 1..Len(st), NEW n \in Nat,
           st[1].msg.idx <= n, n <= st[i].msg.idx, st[1].msg.idx \in Nat, st[i].msg.idx \in Nat
    PROVE  \E j \in 1..i : st[j].msg.idx = n
  <1>1. n \in st[1].msg.idx .. st[i].msg.idx
    OBVIOUS
  <1> QED
    BY <1>1 DEF Runs, NoneMissing

\* t is st and message m behind it.
Extends(t, st, m) ==
    /\ Len(t) = Len(st) + m.len
    /\ \A i \in 1..Len(st) : t[i] = st[i]
    /\ \A i \in 1..Len(t) : i > Len(st) => t[i] = [msg |-> m, off |-> i - Len(st)]

LEMMA Longer ==
    ASSUME NEW st \in Seq(Byte), NEW m \in Message, NEW t, t = st \o Bytes(m)
    PROVE  m.len \in Nat /\ m.idx \in Nat /\ t \in Seq(Byte) /\ Extends(t, st, m)
  <1>1. m.idx \in Nat /\ Len(st) \in Nat
    BY BufferAssumption DEF Message
  <1> DEFINE b == Bytes(m)
  <1>2. /\ b \in Seq(Byte) /\ m.len \in Nat /\ Len(b) = m.len
        /\ \A i \in 1..m.len : b[i] = [msg |-> m, off |-> i]
    BY BytesAre
  <1>3. t = st \o b
    OBVIOUS
  <1> HIDE DEF b
  <1>4. /\ t \in Seq(Byte) /\ Len(t) = Len(st) + m.len
        /\ \A i \in 1..Len(st) + m.len : t[i] = IF i <= Len(st) THEN st[i] ELSE b[i - Len(st)]
    BY <1>2, <1>3, ConcatProperties
  <1>5. ASSUME NEW i \in 1..Len(t), i > Len(st) PROVE t[i] = [msg |-> m, off |-> i - Len(st)]
    <2>1. i - Len(st) \in 1..m.len /\ t[i] = b[i - Len(st)]
      BY <1>1, <1>2, <1>4, <1>5
    <2> QED
      BY <1>2, <2>1
  <1> QED
    BY <1>1, <1>2, <1>4, <1>5 DEF Extends

\* What is left when the first k bytes go, the last ones, or both.
LEMMA RunsPart ==
    ASSUME NEW st \in Seq(Byte), NEW t \in Seq(Byte), NEW k \in Nat, Runs(st),
           Len(t) + k <= Len(st), \A i \in 1..Len(t) : t[i] = st[i + k]
    PROVE  Runs(t)
  <1>1. /\ Len(st) \in Nat /\ Len(t) \in Nat
        /\ \A i \in 1..Len(st) : st[i] \in Byte
        /\ \A i \in 1..Len(t) : i + k \in 1..Len(st)
    OBVIOUS
  <1>2. \A i \in 1..Len(st) : /\ st[i].off \in Nat /\ st[i].msg.idx \in Nat
                              /\ st[i].msg.len \in Nat
    BY <1>1, ByteFacts
  <1>3. \A i \in 1..Len(t) : 1 <= t[i].off /\ t[i].off <= t[i].msg.len
    BY <1>1 DEF Runs
  <1>4. ASSUME NEW i \in 1..Len(t), NEW j \in 1..Len(t), i <= j PROVE Follow(t, i, j)
    <2>1. Follow(st, i + k, j + k)
      BY <1>1, <1>4 DEF Runs
    <2>2. (j + k) - (i + k) = j - i
      OBVIOUS
    <2> QED
      BY <2>1, <2>2 DEF Follow
  <1>5. NoneMissing(t)
    <2> SUFFICES ASSUME NEW i \in 1..Len(t), NEW n \in t[1].msg.idx .. t[i].msg.idx
                 PROVE  \E j \in 1..i : t[j].msg.idx = n
      BY DEF NoneMissing
    <2>1. /\ 1 \in 1..Len(t) /\ 1 \in 1..Len(st) /\ 1 + k \in 1..Len(st) /\ i + k \in 1..Len(st)
          /\ t[1] = st[1 + k] /\ t[i] = st[i + k]
      BY <1>1
    <2>2. st[1].msg.idx <= st[1 + k].msg.idx
      <3>1. 1 <= 1 + k
        OBVIOUS
      <3>2. Follow(st, 1, 1 + k)
        BY <2>1, <3>1 DEF Runs
      <3> QED
        BY <3>2 DEF Follow
    <2>3. PICK j \in 1..(i + k) : st[j].msg.idx = n
      <3>1. n \in Nat /\ st[1].msg.idx <= n /\ n <= st[i + k].msg.idx
        BY <1>2, <2>1, <2>2, SMTT(30)
      <3> QED
        BY <1>2, <2>1, <3>1, Numbers
    <2>4. CASE j > k
      <3>1. j - k \in 1..i /\ j - k \in 1..Len(t) /\ (j - k) + k = j
        BY <2>4
      <3>2. t[j - k].msg.idx = n
        BY <2>3, <3>1
      <3> QED
        BY <3>1, <3>2
    <2>5. CASE j <= k
      <3>1. j \in 1..Len(st) /\ j <= 1 + k
        BY <1>1, <2>5
      <3>2. st[j].msg.idx <= st[1 + k].msg.idx
        BY <2>1, <3>1 DEF Runs, Follow
      <3>3. t[1].msg.idx = n
        BY <1>2, <2>1, <2>3, <3>1, <3>2
      <3> QED
        BY <3>3
    <2> QED
      BY <2>4, <2>5, SMTT(30)
  <1> QED
    BY <1>3, <1>4, <1>5 DEF Runs

LEMMA WholePart ==
    ASSUME NEW st \in Seq(Byte), NEW t \in Seq(Byte), NEW k \in Nat, NEW n, Whole(st, n),
           Len(t) + k = Len(st), \A i \in 1..Len(t) : t[i] = st[i + k]
    PROVE  Whole(t, n)
  <1>1. /\ Len(st) \in Nat /\ Len(t) \in Nat
        /\ \A i \in 1..Len(t) : i + k \in 1..Len(st)
    OBVIOUS
  <1>2. \A i \in 1..Len(t) : t[i].msg.len - t[i].off <= Len(t) - i
    <2> TAKE i \in 1..Len(t)
    <2>1. st[i + k].msg.len - st[i + k].off <= Len(st) - (i + k)
      BY <1>1 DEF Whole
    <2>2. Len(st) - (i + k) = Len(t) - i
      BY <1>1
    <2> QED
      BY <2>1, <2>2
  <1>3. ASSUME t # <<>> PROVE t[Len(t)].msg.idx = n
    <2>1. Len(t) # 0
      BY <1>3, EmptySeq
    <2>2. st # <<>> /\ t[Len(t)] = st[Len(st)]
      BY <1>1, <2>1, EmptySeq
    <2> QED
      BY <2>2 DEF Whole
  <1> QED
    BY <1>2, <1>3 DEF Whole

\* One message more at the end.
LEMMA RunsLonger ==
    ASSUME NEW st \in Seq(Byte), NEW t \in Seq(Byte), NEW m \in Message, Runs(st),
           m.len \in Nat, m.idx \in Nat, m.len >= 1, Whole(st, m.idx - 1), Extends(t, st, m)
    PROVE  Runs(t) /\ Whole(t, m.idx)
  <1> DEFINE L == Len(st)
  <1>1. L \in Nat /\ Len(t) \in Nat /\ Len(t) = L + m.len /\ (L # 0 => st # <<>> /\ L \in 1..L)
    BY EmptySeq DEF Extends
  <1>2. ASSUME NEW i \in 1..L
        PROVE  /\ i \in 1..Len(t) /\ t[i] = st[i] /\ L # 0
               /\ st[i].off \in Nat /\ st[i].msg.idx \in Nat /\ st[i].msg.len \in Nat
               /\ 1 <= st[i].off /\ st[i].off <= st[i].msg.len
               /\ st[i].msg.len - st[i].off <= L - i
    <2>1. st[i] \in Byte
      OBVIOUS
    <2>2. st[i].off \in Nat /\ st[i].msg.idx \in Nat /\ st[i].msg.len \in Nat
      BY <2>1, ByteFacts
    <2>3. st[i].msg.len - st[i].off <= L - i
      BY DEF Whole
    <2>4. 1 <= st[i].off /\ st[i].off <= st[i].msg.len
      BY DEF Runs
    <2>5. i \in 1..Len(t) /\ t[i] = st[i] /\ L # 0
      BY <1>1 DEF Extends
    <2> QED
      BY <2>2, <2>3, <2>4, <2>5
  <1>3. ASSUME NEW i \in 1..Len(t), i > L
        PROVE  t[i].msg = m /\ t[i].off = i - L /\ i - L \in Nat
    <2>1. t[i] = [msg |-> m, off |-> i - L]
      BY <1>3 DEF Extends
    <2>2. i - L \in Nat
      BY <1>1, <1>3
    <2> QED
      BY <2>1, <2>2
  <1>4. L # 0 => st[L].msg.idx = m.idx - 1
    BY <1>1 DEF Whole
  <1>5. \A i \in 1..L : st[i].msg.idx <= m.idx - 1
    <2> TAKE i \in 1..L
    <2>1. st[i].msg.idx <= st[L].msg.idx
      BY <1>1, <1>2, Ordered, SMTT(30)
    <2> QED
      BY <1>1, <1>2, <1>4, <2>1
  <1> HIDE DEF L
  <1>6. ASSUME NEW i \in 1..Len(t), NEW j \in 1..Len(t), i <= j PROVE Follow(t, i, j)
    <2>1. CASE j <= L
      <3>1. i \in 1..L /\ j \in 1..L
        BY <1>1, <1>6, <2>1
      <3>2. Follow(st, i, j) /\ t[i] = st[i] /\ t[j] = st[j]
        BY <1>2, <1>6, <3>1 DEF Runs, L
      <3> QED
        BY <3>2 DEF Follow
    <2>2. CASE i > L
      <3>1. /\ t[i] = [msg |-> m, off |-> i - L] /\ t[j] = [msg |-> m, off |-> j - L]
            /\ i \in Nat /\ j \in Nat
        BY <1>1, <1>6, <2>2 DEF Extends, L
      <3>2. j - i # m.len - (i - L) + 1 /\ j - L = (i - L) + (j - i)
        BY <1>1, <3>1
      <3> QED
        BY <1>1, <3>1, <3>2 DEF Follow
    <2>3. CASE i <= L /\ j > L
      <3>1. /\ i \in 1..L /\ i \in Nat /\ j \in Nat /\ L # 0
            /\ t[i] = st[i] /\ t[j].msg = m /\ t[j].off = j - L
        BY <1>1, <1>2, <1>3, <2>3, SMTT(30)
      <3>2. st[i].msg.len \in Nat /\ st[i].off \in Nat /\ st[i].msg.len - st[i].off <= L - i
        BY <1>2, <3>1
      <3>3. /\ ~(j - i <= st[i].msg.len - st[i].off)
            /\ j - i = st[i].msg.len - st[i].off + 1
                 => j = L + 1 /\ L - i <= st[i].msg.len - st[i].off
        <4>1. ASSUME NEW a \in Nat, NEW b \in Nat, a - b <= L - i
              PROVE  /\ ~(j - i <= a - b)
                     /\ j - i = a - b + 1 => j = L + 1 /\ L - i <= a - b
          BY <1>1, <2>3, <3>1, <4>1, SMTT(30)
        <4> QED
          BY <3>2, <4>1
      <3>4. ASSUME j - i = st[i].msg.len - st[i].off + 1
            PROVE  j - L = 1 /\ m.idx = st[i].msg.idx + 1
        <4>1. j = L + 1 /\ L - i <= st[i].msg.len - st[i].off
          BY <3>3, <3>4
        <4>2. L \in 1..L /\ i <= L
          BY <1>1, <2>3, <3>1
        <4>3. st[L].msg = st[i].msg
          BY <3>1, <4>1, <4>2, Ordered DEF L
        <4>4. st[L].msg.idx = m.idx - 1
          BY <1>4, <3>1
        <4>5. st[i].msg.idx = m.idx - 1
          BY <4>3, <4>4
        <4> QED
          BY <1>1, <4>1, <4>5
      <3>5. st[i].msg.idx \in Nat /\ st[i].msg.idx <= m.idx - 1
        BY <1>2, <1>5, <3>1
      <3>6. st[i].msg.idx <= m.idx /\ st[i].msg.idx # m.idx
        BY <3>5
      <3> QED
        BY <3>1, <3>3, <3>4, <3>6 DEF Follow
    <2> QED
      BY <1>1, <2>1, <2>2, <2>3
  <1>7. NoneMissing(t)
    <2> SUFFICES ASSUME NEW i \in 1..Len(t), NEW n \in t[1].msg.idx .. t[i].msg.idx
                 PROVE  \E j \in 1..i : t[j].msg.idx = n
      BY DEF NoneMissing
    <2>1. CASE n = t[i].msg.idx
      BY <1>1, <2>1
    <2>2. CASE i <= L
      <3>1. i \in 1..L /\ 1 \in 1..L
        BY <1>1, <2>2
      <3>2. t[1] = st[1] /\ t[i] = st[i]
        BY <1>2, <3>1
      <3>3. PICK j \in 1..i : st[j].msg.idx = n
        BY <3>1, <3>2 DEF Runs, NoneMissing, L
      <3>4. j \in 1..L
        BY <1>1, <3>1
      <3> QED
        BY <1>2, <3>3, <3>4
    <2>3. CASE i > L /\ n # t[i].msg.idx
      <3>1. t[i].msg.idx = m.idx
        BY <1>3, <2>3
      <3>2. L # 0
        <4>1. SUFFICES ASSUME L = 0 PROVE FALSE
          OBVIOUS
        <4>2. t[1].msg.idx = m.idx
          BY <1>1, <1>3, <4>1
        <4> QED
          BY <2>3, <3>1, <4>2
      <3>3. 1 \in 1..L /\ L \in 1..L
        BY <1>1, <3>2
      <3>4. t[1] = st[1] /\ st[1].msg.idx \in Nat /\ st[L].msg.idx = m.idx - 1
        BY <1>2, <1>4, <3>2, <3>3
      <3>5. n \in Nat /\ st[1].msg.idx <= n /\ n <= st[L].msg.idx /\ st[L].msg.idx \in Nat
        <4>1. n \in st[1].msg.idx .. m.idx /\ n # m.idx
          BY <2>3, <3>1, <3>4
        <4>2. st[L].msg.idx \in Nat
          BY <1>2, <3>3
        <4> QED
          BY <3>4, <4>1, <4>2, SMTT(30)
      <3>6. PICK j \in 1..L : st[j].msg.idx = n
        BY <3>3, <3>4, <3>5, Numbers DEF L
      <3>7. t[j].msg.idx = n
        BY <1>2, <3>6
      <3>8. j \in 1..i
        BY <1>1, <2>3, <3>6
      <3> QED
        BY <3>7, <3>8
    <2> QED
      BY <1>1, <2>1, <2>2, <2>3
  <1>8. \A i \in 1..Len(t) : 1 <= t[i].off /\ t[i].off <= t[i].msg.len
    <2> TAKE i \in 1..Len(t)
    <2>1. CASE i \in 1..L
      BY <1>2, <2>1
    <2>2. CASE i > L
      BY <1>1, <1>3, <2>2
    <2> QED
      BY <1>1, <2>1, <2>2
  <1>9. \A i \in 1..Len(t) : t[i].msg.len - t[i].off <= Len(t) - i
    <2> TAKE i \in 1..Len(t)
    <2>1. CASE i \in 1..L
      <3>1. t[i] = st[i] /\ st[i].msg.len - st[i].off <= L - i
            /\ st[i].msg.len \in Nat /\ st[i].off \in Nat
        BY <1>2, <2>1
      <3>2. L - i <= Len(t) - i /\ L - i \in Int /\ Len(t) - i \in Int
        BY <1>1
      <3>3. ASSUME NEW a \in Nat, NEW b \in Nat, a - b <= L - i PROVE a - b <= Len(t) - i
        BY <3>2, <3>3
      <3>4. st[i].msg.len - st[i].off <= Len(t) - i
        BY <3>1, <3>3
      <3> QED
        BY <3>1, <3>4
    <2>2. CASE i > L
      <3>1. t[i].msg = m /\ t[i].off = i - L
        BY <1>3, <2>2
      <3> QED
        BY <1>1, <3>1
    <2> QED
      BY <1>1, <2>1, <2>2
  <1>10. t[Len(t)].msg.idx = m.idx
    <2>1. Len(t) \in 1..Len(t) /\ Len(t) > L
      BY <1>1
    <2> QED
      BY <1>3, <2>1
  <1> QED
    BY <1>6, <1>7, <1>8, <1>9, <1>10 DEF Runs, Whole

----------------------------------------------------------------------------
(* What the stream of this connection consists of, and where it begins.    *)

FromServer(m, s, n) ==
    /\ m.sess = s
    /\ m.idx = 0 => m = Prefix(s, n)
    /\ m.idx > 0 => \E p \in Packets : m.kind = p.kind /\ m.len = p.len

Content ==
    /\ Runs(stream)
    /\ \A i \in 1..Len(stream) : FromServer(stream[i].msg, sess, pre)
    /\ mSocket # NULL => Whole(stream, sent)
    /\ mSocket = NULL => wire = <<>>

\* The packet that greets the server is not written, the prefix not skipped.
Greeting ==
    /\ mToSkip = 0 /\ pre = PrefixLen /\ PrefixLen > 0
    /\ stream # <<>> => stream[1].msg.idx = 0 /\ stream[1].off = 1
    /\ mSocket = NULL <=> stream = <<>>

\* The stream begins with a message, or with what is left of the prefix.
Talking ==
    /\ stream # <<>> =>
         \/ mToSkip = 0 /\ stream[1].off = 1 /\ stream[1].msg.idx > 0
         \/ /\ mToSkip > 0 /\ mSocket # NULL
            /\ stream[1].msg.idx = 0 /\ stream[1].off = pre + 1 - mToSkip
    /\ mSocket # NULL /\ stream = <<>> => mToSkip = 0

Beginning ==
    /\ pc = "hello" => Greeting
    /\ pc # "hello" => Talking
    /\ \A s \in Sessions : worker[s] \in {"resolve", "open"} =>
          mInBuffer = <<>> /\ (pc # "hello" => mToSkip = pre)

\* The message being handled is there, at the beginning of the buffer.
Reading ==
    /\ pc = "read" => messageReady
    /\ Handling => /\ mInBuffer # <<>> /\ msg.head = mInBuffer[1]
                   /\ msg.len = msg.head.msg.len /\ msg.len <= Len(mInBuffer)
    /\ pc = "exited" => /\ mInBuffer # <<>> /\ msg.head = mInBuffer[1]
                        /\ msg.head.msg.kind \notin DOMAIN Table

StreamInv == Content /\ Beginning /\ Reading

LEMMA StreamInit == Init => StreamInv
  <1> SUFFICES ASSUME Init PROVE StreamInv
    OBVIOUS
  <1>1. stream = <<>> /\ wire = <<>> /\ Len(stream) = 0
    BY DEF Init, stream
  <1>2. Runs(stream)
    BY <1>1 DEF Runs, NoneMissing
  <1>3. Content
    BY <1>1, <1>2 DEF Init, Content
  <1>4. Beginning
    BY <1>1 DEF Init, Beginning, Talking
  <1>5. Reading
    BY DEF Init, Reading, Handling
  <1> QED
    BY <1>3, <1>4, <1>5 DEF StreamInv

LEMMA StreamIs ==
    ASSUME BufferInv
    PROVE  /\ stream \in Seq(Byte) /\ Len(stream) = Len(mInBuffer) + Len(wire)
           /\ Len(mInBuffer) \in Nat /\ Len(wire) \in Nat
           /\ \A i \in 1..Len(mInBuffer) : stream[i] = mInBuffer[i]
           /\ stream # <<>> => Len(stream) >= 1 /\ 1 \in 1..Len(stream)
           /\ mInBuffer # <<>> => mToSkip = 0 /\ stream # <<>> /\ stream[1] = mInBuffer[1]
  <1>1. mInBuffer \in Seq(Byte) /\ wire \in Seq(Byte) /\ SkipOnlyWhenEmpty
    BY DEF BufferInv, StreamType
  <1>2. /\ stream \in Seq(Byte) /\ Len(stream) = Len(mInBuffer) + Len(wire)
        /\ \A i \in 1..Len(mInBuffer) + Len(wire) :
              stream[i] = IF i <= Len(mInBuffer) THEN mInBuffer[i] ELSE wire[i - Len(mInBuffer)]
    BY <1>1, ConcatProperties DEF stream
  <1>3. Len(mInBuffer) \in Nat /\ Len(wire) \in Nat /\ Len(stream) \in Nat
    BY <1>1, <1>2
  <1>4. \A i \in 1..Len(mInBuffer) : stream[i] = mInBuffer[i]
    BY <1>2, <1>3
  <1>5. stream # <<>> => Len(stream) # 0
    BY <1>2, EmptySeq
  <1>6. mInBuffer # <<>> => Len(mInBuffer) # 0
    BY <1>1, EmptySeq
  <1>7. Len(stream) # 0 => stream # <<>>
    BY EmptySeq
  <1> QED
    BY <1>1, <1>2, <1>3, <1>4, <1>5, <1>6, <1>7 DEF SkipOnlyWhenEmpty

\* Steps that leave the stream and the message that is handled alone.
Calm ==
    /\ UNCHANGED <<mInBuffer, wire, mToSkip, mSocket, sess, pre, sent, msg>>
    /\ pc' = "hello" <=> pc = "hello"
    /\ \A s \in Sessions : worker'[s] \in {"resolve", "open"} => worker[s] \in {"resolve", "open"}
    /\ pc' = "read" => pc = "read"
    /\ pc' = "exited" => pc = "exited"
    /\ Handling' => Handling

LEMMA CalmKeeps == ASSUME StreamInv, Calm PROVE StreamInv'
  <1>1. stream' = stream
    BY DEF stream, Calm
  <1>2. Content'
    BY <1>1 DEF StreamInv, Content, Calm
  <1>3. Beginning'
    <2>1. pc' = "hello" => Greeting'
      BY <1>1 DEF StreamInv, Beginning, Greeting, Calm
    <2>2. pc' # "hello" => Talking'
      BY <1>1 DEF StreamInv, Beginning, Talking, Calm
    <2>3. \A s \in Sessions : worker'[s] \in {"resolve", "open"} =>
             mInBuffer' = <<>> /\ (pc' # "hello" => mToSkip' = pre')
      BY DEF StreamInv, Beginning, Calm
    <2> QED
      BY <2>1, <2>2, <2>3 DEF Beginning
  <1>4. Reading'
    <2>1. messageReady' = messageReady
      BY DEF messageReady, Calm
    <2> QED
      BY <2>1 DEF StreamInv, Reading, Calm
  <1> QED
    BY <1>2, <1>3, <1>4 DEF StreamInv

LEMMA CalmMain ==
    ASSUME ConnInv,
           \/ FlushNetwork \/ FlushSend \/ Flush \/ Send \/ Handle \/ HandleRedirect \/ CheckError
           \/ Write \/ WriteFix \/ WriteExpand \/ HandleReply \/ HandleReplyFix
           \/ HandleReplyExpand \/ Disconnect \/ Reconnect \/ GameConnect \/ Delete
    PROVE  Calm
  <1>1. CASE FlushNetwork \/ FlushSend \/ Flush \/ Send
    BY <1>1 DEF FlushNetwork, FlushSend, Flush, Send, Goto, conn, inbound, server, Calm, Handling,
       ConnInv, CallOrder
  <1>2. CASE Handle \/ HandleRedirect \/ CheckError \/ GameConnect
    BY <1>2 DEF Handle, HandleRedirect, CheckError, GameConnect, Goto, conn, inbound, server,
       Calm, Handling
  <1>3. CASE Write \/ WriteFix \/ WriteExpand
    BY <1>3 DEF Write, WriteFix, WriteExpand, WritePacket, FixSendBuffer, Expand, Goto, conn,
       inbound, server, Calm, Handling
  <1>4. CASE HandleReply \/ HandleReplyFix \/ HandleReplyExpand
    BY <1>4 DEF HandleReply, HandleReplyFix, HandleReplyExpand, WritePacket, FixSendBuffer,
       Expand, Goto, conn, inbound, server, Calm, Handling
  <1>5. CASE Disconnect \/ Reconnect \/ Delete
    BY <1>5 DEF Disconnect, Reconnect, Delete, StartDisconnect, NotInUse, Goto, inbound, server,
       Calm, Handling
  <1> QED
    BY <1>1, <1>2, <1>3, <1>4, <1>5

LEMMA CalmWorker ==
    ASSUME ConnInv, NEW s \in Sessions,
           \/ ResolveFails(s) \/ Resolve(s) \/ OpenFails(s) \/ Publish(s) \/ Alloc(s) \/ Loop(s)
           \/ Wait(s) \/ ReceiveEnd(s) \/ ReceiveFails(s)
    PROVE  Calm
  <1>1. \A to \in WorkerLabels : \A z \in Sessions :
           [worker EXCEPT ![s] = to][z] = IF z = s THEN to ELSE worker[z]
    BY DEF ConnInv, ConnType
  <1>2. CASE ResolveFails(s) \/ Resolve(s)
    BY <1>1, <1>2 DEF ResolveFails, Resolve, Step, inbound, main, server, Calm, Handling,
       WorkerLabels
  <1>3. CASE OpenFails(s)
    <2>1. mSocket = NULL
      BY <1>3 DEF OpenFails, Step, ConnInv, SocketOrder
    <2> QED
      BY <1>1, <1>3, <2>1 DEF OpenFails, Step, inbound, main, server, Calm, Handling, WorkerLabels
  <1>4. CASE Publish(s) \/ Alloc(s) \/ ReceiveEnd(s) \/ ReceiveFails(s) \/ Loop(s) \/ Wait(s)
    <2>1. \E to \in {"alloc", "loop", "select", "done"} : worker' = [worker EXCEPT ![s] = to]
      BY <1>4 DEF Publish, Alloc, ReceiveEnd, ReceiveFails, Loop, Wait, Step
    <2>2. UNCHANGED <<inbound, main, server, sess, mSocket>>
      BY <1>4 DEF Publish, Alloc, ReceiveEnd, ReceiveFails, Loop, Wait, conn
    <2>3. \A z \in Sessions : worker'[z] \in {"resolve", "open"} => worker[z] \in {"resolve", "open"}
      BY <1>1, <2>1 DEF WorkerLabels
    <2> QED
      BY <2>2, <2>3 DEF inbound, main, server, Calm, Handling
  <1> QED
    BY <1>2, <1>3, <1>4

LEMMA CalmRest == ASSUME ServerClose \/ UNCHANGED vars PROVE Calm
  BY DEF ServerClose, vars, conn, inbound, main, server, Calm, Handling

\* t is st without its first k bytes.
Behind(t, st, k) ==
    /\ t \in Seq(Byte) /\ Len(t) + k = Len(st)
    /\ \A i \in 1..Len(t) : t[i] = st[i + k]

\* What skip() and receive() drop is at the beginning: k bytes.
LEMMA DroppedIs ==
    ASSUME NEW b \in Seq(Byte), NEW n \in Nat
    PROVE  \E k \in 0..Len(b) :
              /\ Behind(Dropped(b, n).buf, b, k)
              /\ k <= n /\ Dropped(b, n).skip = n - k
              /\ n - k > 0 => k = Len(b)
  <1>0. Len(b) \in Nat
    OBVIOUS
  <1>1. CASE Len(b) >= n
    <2> DEFINE r == SubSeq(b, n + 1, Len(b))
    <2>1. \A i \in (n + 1)..Len(b) : b[i] \in Byte
      BY <1>0
    <2>2. /\ r \in Seq(Byte)
          /\ Len(r) = IF n + 1 <= Len(b) THEN Len(b) - (n + 1) + 1 ELSE 0
          /\ \A i \in 1..Len(b) - (n + 1) + 1 : r[i] = b[(n + 1) + i - 1]
      BY <1>0, <2>1, SubSeqProperties
    <2>3. Dropped(b, n).buf = r /\ Dropped(b, n).skip = 0
      BY <1>1 DEF Dropped
    <2> HIDE DEF r
    <2>4. n \in 0..Len(b) /\ Len(r) = Len(b) - n /\ \A i \in 1..Len(b) - n : r[i] = b[i + n]
      BY <1>0, <1>1, <2>2
    <2>5. Behind(r, b, n)
      BY <1>0, <2>2, <2>4 DEF Behind
    <2> QED
      BY <1>0, <2>3, <2>4, <2>5
  <1>2. CASE ~(Len(b) >= n)
    <2>1. Dropped(b, n).buf = <<>> /\ Dropped(b, n).skip = n - Len(b)
      BY <1>0, <1>2 DEF Dropped
    <2>2. <<>> \in Seq(Byte) /\ Len(<<>>) = 0
      BY EmptySeq
    <2>3. Behind(<<>>, b, Len(b))
      BY <1>0, <2>2 DEF Behind
    <2>4. Len(b) \in 0..Len(b) /\ Len(b) <= n
      BY <1>0, <1>2
    <2> QED
      BY <1>0, <2>1, <2>3, <2>4
  <1> QED
    BY <1>1, <1>2

LEMMA RestBehind ==
    ASSUME NEW b \in Seq(Byte), NEW c, NEW w \in Seq(Byte), NEW k \in 0..Len(b), Behind(c, b, k)
    PROVE  Behind(c \o w, b \o w, k)
  <1>1. /\ c \in Seq(Byte) /\ Len(b) \in Nat /\ Len(c) \in Nat /\ Len(w) \in Nat /\ k \in Nat
        /\ Len(c) = Len(b) - k /\ \A i \in 1..Len(c) : c[i] = b[i + k]
    BY DEF Behind
  <1>2. /\ Len(b \o w) = Len(b) + Len(w)
        /\ \A i \in 1..Len(b) + Len(w) : (b \o w)[i] = IF i <= Len(b) THEN b[i] ELSE w[i - Len(b)]
    BY ConcatProperties
  <1>3. /\ c \o w \in Seq(Byte) /\ Len(c \o w) = Len(c) + Len(w)
        /\ \A i \in 1..Len(c) + Len(w) : (c \o w)[i] = IF i <= Len(c) THEN c[i] ELSE w[i - Len(c)]
    BY <1>1, ConcatProperties
  <1>4. ASSUME NEW i \in 1..Len(c) + Len(w) PROVE (c \o w)[i] = (b \o w)[i + k]
    <2>1. i + k \in 1..Len(b) + Len(w) /\ i \in Nat
      BY <1>1
    <2>2. CASE i <= Len(c)
      BY <1>1, <1>2, <1>3, <2>1, <2>2
    <2>3. CASE i > Len(c)
      <3>1. i + k > Len(b) /\ (i + k) - Len(b) = i - Len(c)
        BY <1>1, <2>1, <2>3
      <3> QED
        BY <1>1, <1>2, <1>3, <2>1, <2>3, <3>1
    <2> QED
      BY <1>1, <2>1, <2>2, <2>3
  <1> QED
    BY <1>1, <1>2, <1>3, <1>4 DEF Behind

\* The stream without its first k bytes.
Without(k) == Behind(stream', stream, k)

LEMMA ContentWithout ==
    ASSUME BufferInv, Content, NEW k \in Nat, Without(k), UNCHANGED <<mSocket, sess, pre, sent>>,
           mSocket = NULL => wire' = <<>>
    PROVE  Content'
  <1>1. stream \in Seq(Byte) /\ stream' \in Seq(Byte)
    BY StreamIs DEF Without, Behind
  <1>2. /\ Len(stream') \in Nat /\ Len(stream') + k = Len(stream)
        /\ \A i \in 1..Len(stream') : stream'[i] = stream[i + k] /\ i + k \in 1..Len(stream)
    BY <1>1 DEF Without, Behind
  <1>3. Runs(stream')
    BY <1>1, <1>2, RunsPart, SMTT(30) DEF Content
  <1>4. mSocket # NULL => Whole(stream', sent)
    BY <1>1, <1>2, WholePart DEF Content
  <1>5. \A i \in 1..Len(stream') : FromServer(stream'[i].msg, sess, pre)
    BY <1>2 DEF Content
  <1> QED
    BY <1>3, <1>4, <1>5 DEF Content

\* skip(n) on the main thread.
LEMMA SkipDrops ==
    ASSUME BufferInv, NEW n \in Nat, skip(n), UNCHANGED wire
    PROVE  \E k \in 0..Len(mInBuffer) :
              /\ Without(k) /\ k <= mToSkip + n /\ mToSkip' = mToSkip + n - k
              /\ mToSkip + n - k > 0 => k = Len(mInBuffer)
              /\ k = Len(mInBuffer) => mInBuffer' = <<>>
  <1>1. mToSkip + n \in Nat /\ mInBuffer \in Seq(Byte) /\ wire \in Seq(Byte) /\ mToSkip \in Nat
    BY DEF BufferInv, StreamType
  <1>2. /\ mInBuffer' = Dropped(mInBuffer, mToSkip + n).buf
        /\ mToSkip' = Dropped(mInBuffer, mToSkip + n).skip
    BY DEF skip
  <1> DEFINE q == mToSkip + n
  <1>3. q \in Nat
    BY <1>1
  <1> HIDE DEF q
  <1>4. PICK k \in 0..Len(mInBuffer) :
          /\ Behind(mInBuffer', mInBuffer, k)
          /\ k <= q /\ mToSkip' = q - k
          /\ q - k > 0 => k = Len(mInBuffer)
    <2>1. mInBuffer' = Dropped(mInBuffer, q).buf /\ mToSkip' = Dropped(mInBuffer, q).skip
      BY <1>2 DEF q
    <2> QED
      BY <1>1, <1>3, <2>1, DroppedIs
  <1>5. Without(k)
    <2>1. Behind(mInBuffer' \o wire, mInBuffer \o wire, k)
      BY <1>1, <1>4, RestBehind
    <2> QED
      BY <2>1 DEF Without, stream
  <1>6. k = Len(mInBuffer) => mInBuffer' = <<>>
    <2>1. mInBuffer' \in Seq(Byte) /\ Len(mInBuffer') + k = Len(mInBuffer)
      BY <1>4 DEF Behind
    <2>2. k = Len(mInBuffer) => Len(mInBuffer') = 0
      BY <1>1, <2>1
    <2> QED
      BY <2>1, <2>2, EmptySeq
  <1> QED
    BY <1>1, <1>4, <1>5, <1>6 DEF q

\* receive() on the worker.
LEMMA ReceiveDrops ==
    ASSUME BufferInv, NEW s \in Sessions, Receive(s)
    PROVE  \E k \in Nat :
              /\ Without(k) /\ k <= mToSkip /\ mToSkip' = mToSkip - k
              /\ mToSkip = 0 => /\ Len(mInBuffer') >= Len(mInBuffer)
                                /\ \A i \in 1..Len(mInBuffer) : mInBuffer'[i] = mInBuffer[i]
  <1>1. /\ mInBuffer \in Seq(Byte) /\ wire \in Seq(Byte) /\ mToSkip \in Nat
    BY DEF BufferInv, StreamType
  <1>2. PICK n \in 1..Len(wire) :
          /\ wire' = SubSeq(wire, n + 1, Len(wire))
          /\ mInBuffer' = Dropped(mInBuffer \o SubSeq(wire, 1, n), mToSkip).buf
          /\ mToSkip' = Dropped(mInBuffer \o SubSeq(wire, 1, n), mToSkip).skip
    BY DEF Receive, Room
  <1> DEFINE c == SubSeq(wire, 1, n)
             b == mInBuffer \o c
  <1>3. c \in Seq(Byte) /\ Len(c) = n /\ wire' \in Seq(Byte)
    BY <1>1, <1>2, Chunk
  <1>4. c \o wire' = wire
    BY <1>1, <1>2, ConcatAdjacentSubSeq, SubSeqFull
  <1>5. /\ b \in Seq(Byte) /\ Len(b) = Len(mInBuffer) + n
        /\ \A i \in 1..Len(mInBuffer) : b[i] = mInBuffer[i]
    BY <1>1, <1>3, ConcatProperties
  <1>6. b \o wire' = stream
    <2>1. (mInBuffer \o c) \o wire' = mInBuffer \o (c \o wire')
      BY <1>1, <1>3, ConcatAssociative
    <2> QED
      BY <1>4, <2>1 DEF stream
  <1> HIDE DEF b, c
  <1>7. mInBuffer' = Dropped(b, mToSkip).buf /\ mToSkip' = Dropped(b, mToSkip).skip
    BY <1>2 DEF b, c
  <1>8. PICK k \in 0..Len(b) :
          Behind(mInBuffer', b, k) /\ k <= mToSkip /\ mToSkip' = mToSkip - k
    BY <1>1, <1>5, <1>7, DroppedIs
  <1>9. k \in Nat /\ Without(k)
    <2>1. Behind(mInBuffer' \o wire', b \o wire', k)
      BY <1>3, <1>5, <1>8, RestBehind
    <2> QED
      BY <1>5, <1>6, <2>1 DEF Without, stream
  <1>10. ASSUME mToSkip = 0
         PROVE  /\ Len(mInBuffer') >= Len(mInBuffer)
                /\ \A i \in 1..Len(mInBuffer) : mInBuffer'[i] = mInBuffer[i]
    <2>1. k = 0 /\ Len(mInBuffer) \in Nat /\ n \in Nat
      BY <1>1, <1>8, <1>10
    <2>2. \A i \in 1..Len(mInBuffer) : i \in 1..Len(b) - k /\ i + k = i
      BY <1>5, <2>1
    <2> QED
      BY <1>5, <1>8, <2>1, <2>2 DEF Behind
  <1> QED
    BY <1>8, <1>9, <1>10

\* Bytes were skipped, but none of a message.
OnlyPrefixGone ==
    \/ stream' = stream
    \/ \E k \in Nat :
          /\ Without(k) /\ stream # <<>> /\ stream[1].msg.idx = 0
          /\ stream' = <<>> => stream[Len(stream)].msg.idx = 0
          /\ stream' # <<>> => stream'[1].msg.idx <= 1

\* What is skipped while the prefix is there: q bytes were to go, k of them went.
LEMMA Skipping ==
    ASSUME BufferInv, Content, stream # <<>>, mSocket # NULL, UNCHANGED <<mSocket, pre>>,
           NEW q \in Nat, q > 0, stream[1].msg.idx = 0, stream[1].off = pre + 1 - q,
           NEW k \in Nat, k <= q, Without(k), mToSkip' = q - k
    PROVE  Talking' /\ OnlyPrefixGone
  <1>1. stream \in Seq(Byte) /\ Len(stream) \in Nat /\ 1 \in 1..Len(stream) /\ pre \in Nat
    BY StreamIs DEF BufferInv, StreamType
  <1>2. stream[1].msg.len = pre
    BY <1>1 DEF Content, FromServer, Prefix
  <1>3. q <= Len(stream)
    <2>1. stream[1].msg.len - stream[1].off <= Len(stream) - 1
      BY <1>1 DEF Content, Whole
    <2> QED
      BY <1>1, <1>2, <2>1
  <1>4. /\ stream' \in Seq(Byte) /\ Len(stream') \in Nat /\ Len(stream') = Len(stream) - k
        /\ \A i \in 1..Len(stream') : stream'[i] = stream[i + k]
    BY <1>1 DEF Without, Behind
  <1>5. CASE k < q
    <2>1. Len(stream') >= 1 /\ 1 \in 1..Len(stream') /\ 1 + k \in 1..Len(stream) /\ 1 <= 1 + k
      BY <1>1, <1>3, <1>4, <1>5
    <2>2. (1 + k) - 1 <= stream[1].msg.len - stream[1].off
      BY <1>1, <1>2, <1>5
    <2>3. /\ stream[1 + k].msg = stream[1].msg
          /\ stream[1 + k].off = stream[1].off + ((1 + k) - 1)
      BY <1>1, <2>1, <2>2, Ordered DEF Content
    <2>4. stream'[1].msg.idx = 0 /\ stream'[1].off = pre + 1 - (q - k)
      <3>1. stream'[1] = stream[1 + k]
        BY <1>4, <2>1
      <3>2. (pre + 1 - q) + ((1 + k) - 1) = pre + 1 - (q - k)
        BY <1>1
      <3> QED
        BY <2>3, <3>1, <3>2
    <2>5. mToSkip' > 0 /\ stream' # <<>>
      BY <1>5, <2>1, EmptySeq
    <2>6. Talking'
      BY <2>4, <2>5 DEF Talking
    <2>7. OnlyPrefixGone
      BY <2>4, <2>5 DEF OnlyPrefixGone
    <2> QED
      BY <2>6, <2>7
  <1>6. CASE k = q
    <2>1. mToSkip' = 0
      BY <1>6
    <2>2. ASSUME stream' # <<>> PROVE stream'[1].off = 1 /\ stream'[1].msg.idx = 1
      <3>1. Len(stream') >= 1
        BY <1>4, <2>2, EmptySeq
      <3>2. 1 \in 1..Len(stream') /\ 1 + k \in 1..Len(stream) /\ 1 <= 1 + k
        BY <1>1, <1>4, <3>1
      <3>3. (1 + k) - 1 = stream[1].msg.len - stream[1].off + 1
        BY <1>1, <1>2, <1>6
      <3>4. stream[1 + k].off = 1 /\ stream[1 + k].msg.idx = stream[1].msg.idx + 1
        BY <1>1, <3>2, <3>3, Ordered DEF Content
      <3> QED
        BY <1>4, <3>2, <3>4
    <2>3. ASSUME stream' = <<>> PROVE stream[Len(stream)].msg.idx = 0
      <3>1. Len(stream') = 0
        BY <2>3, EmptySeq
      <3>2. Len(stream) = q /\ Len(stream) \in 1..Len(stream) /\ 1 <= Len(stream)
        BY <1>1, <1>4, <1>6, <3>1, SMTT(30)
      <3>3. Len(stream) - 1 <= stream[1].msg.len - stream[1].off
        BY <1>1, <1>2, <3>2
      <3>4. Runs(stream)
        BY DEF Content
      <3>5. stream[Len(stream)].msg = stream[1].msg
        BY <1>1, <3>2, <3>3, <3>4, Ordered
      <3> QED
        BY <3>5
    <2>4. Talking'
      BY <2>1, <2>2 DEF Talking
    <2>5. OnlyPrefixGone
      BY <2>2, <2>3 DEF OnlyPrefixGone
    <2> QED
      BY <2>4, <2>5
  <1> QED
    BY <1>5, <1>6

\* The stream is the same if nothing is dropped.
LEMMA WithoutNone == ASSUME BufferInv, Without(0) PROVE stream' = stream
  <1>1. /\ stream \in Seq(Byte) /\ stream' \in Seq(Byte) /\ Len(stream') = Len(stream)
        /\ \A i \in 1..Len(stream') : stream'[i] = stream[i]
    BY StreamIs DEF Without, Behind
  <1> QED
    BY <1>1, SeqEqual

\* skip(len) removes the message that was handled and nothing else.
LEMMA SkipIs ==
    ASSUME BufferInv, StreamInv, SkipMessage
    PROVE  /\ Without(msg.len) /\ mToSkip' = 0 /\ msg.len \in Nat
           /\ pc = "skip" /\ mInBuffer # <<>> /\ stream # <<>>
           /\ stream[1].msg.idx > 0
           /\ UNCHANGED <<wire, mSocket, sess, pre, sent, msg, worker>>
           /\ stream' = <<>> => stream[Len(stream)].msg.idx = stream[1].msg.idx
           /\ stream' # <<>> => /\ stream'[1].off = 1
                                /\ stream'[1].msg.idx = stream[1].msg.idx + 1
  <1>1. pc = "skip" /\ Handling /\ mInBuffer # <<>>
    BY DEF SkipMessage, Goto, Handling, StreamInv, Reading
  <1>2. /\ mToSkip = 0 /\ stream # <<>> /\ stream[1] = mInBuffer[1] /\ 1 \in 1..Len(stream)
        /\ stream \in Seq(Byte) /\ Len(stream) \in Nat /\ Len(mInBuffer) \in Nat
    BY <1>1, StreamIs
  <1>3. /\ msg.len \in Nat /\ msg.len <= Len(mInBuffer)
        /\ stream[1] = msg.head /\ msg.len = stream[1].msg.len
    BY <1>1, <1>2 DEF StreamInv, Reading, BufferInv, StreamType
  <1>4. skip(msg.len) /\ UNCHANGED <<wire, mSocket, sess, pre, sent, msg, worker>>
    BY DEF SkipMessage, conn, server
  <1>5. Without(msg.len) /\ mToSkip' = 0
    <2>1. PICK k \in 0..Len(mInBuffer) :
            /\ Without(k) /\ k <= mToSkip + msg.len /\ mToSkip' = mToSkip + msg.len - k
            /\ mToSkip + msg.len - k > 0 => k = Len(mInBuffer)
      BY <1>3, <1>4, SkipDrops
    <2>2. k = msg.len
      BY <1>2, <1>3, <2>1
    <2> QED
      BY <1>2, <1>3, <2>1, <2>2
  <1>6. stream[1].off = 1 /\ stream[1].msg.idx > 0 /\ stream[1].msg.idx \in Nat
    BY <1>1, <1>2, ByteFacts DEF StreamInv, Beginning, Talking
  <1>7. /\ stream' \in Seq(Byte) /\ Len(stream') + msg.len = Len(stream)
        /\ \A i \in 1..Len(stream') : stream'[i] = stream[i + msg.len]
    BY <1>5 DEF Without, Behind
  <1>8. Runs(stream)
    BY DEF StreamInv, Content
  <1>9. ASSUME stream' # <<>>
        PROVE  stream'[1].off = 1 /\ stream'[1].msg.idx = stream[1].msg.idx + 1
    <2>1. Len(stream') \in Nat /\ Len(stream') >= 1
      BY <1>7, <1>9, EmptySeq
    <2>2. /\ 1 \in 1..Len(stream') /\ 1 + msg.len \in 1..Len(stream) /\ 1 <= 1 + msg.len
          /\ (1 + msg.len) - 1 = stream[1].msg.len - stream[1].off + 1
      <3>1. ASSUME NEW n \in Nat, NEW l \in Nat, NEW r \in Nat, r >= 1, r + n = l
            PROVE  1 \in 1..r /\ 1 + n \in 1..l /\ 1 <= 1 + n /\ (1 + n) - 1 = n - 1 + 1
        BY <3>1
      <3> QED
        BY <1>2, <1>3, <1>6, <1>7, <2>1, <3>1
    <2>3. stream[1 + msg.len].off = 1 /\ stream[1 + msg.len].msg.idx = stream[1].msg.idx + 1
      BY <1>2, <1>8, <2>2, Ordered
    <2> QED
      BY <1>7, <2>2, <2>3
  <1>10. ASSUME stream' = <<>> PROVE stream[Len(stream)].msg.idx = stream[1].msg.idx
    <2>1. Len(stream') = 0
      BY <1>10, EmptySeq
    <2>2. Len(stream) = msg.len /\ Len(stream) \in 1..Len(stream) /\ 1 <= Len(stream)
      BY <1>2, <1>3, <1>7, <2>1
    <2>3. Len(stream) - 1 <= stream[1].msg.len - stream[1].off
      BY <1>2, <1>3, <1>6, <2>2
    <2>4. stream[Len(stream)].msg = stream[1].msg
      BY <1>2, <1>8, <2>2, <2>3, Ordered
    <2> QED
      BY <2>4
  <1> QED
    BY <1>1, <1>2, <1>3, <1>4, <1>5, <1>6, <1>9, <1>10

LEMMA StreamSkip == ASSUME BufferInv, StreamInv, SkipMessage PROVE StreamInv'
  <1>1. /\ Without(msg.len) /\ mToSkip' = 0 /\ msg.len \in Nat /\ pc = "skip"
        /\ mInBuffer # <<>> /\ stream # <<>> /\ stream[1].msg.idx > 0
        /\ UNCHANGED <<wire, mSocket, sess, pre, sent, msg, worker>>
        /\ stream' # <<>> => /\ stream'[1].off = 1
                             /\ stream'[1].msg.idx = stream[1].msg.idx + 1
    BY SkipIs
  <1>2. Content'
    BY <1>1, ContentWithout DEF StreamInv, Content
  <1>3. Talking'
    <2>1. stream[1].msg.idx \in Nat
      <3>1. stream \in Seq(Byte) /\ 1 \in 1..Len(stream)
        BY <1>1, StreamIs
      <3> QED
        BY <3>1, ByteFacts
    <2>2. stream' # <<>> => stream'[1].off = 1 /\ stream'[1].msg.idx > 0
      BY <1>1, <2>1
    <2> QED
      BY <1>1, <2>2 DEF Talking
  <1>4. pc' \in {"check", "dispatch"}
    BY DEF SkipMessage, Goto
  <1>5. Beginning'
    BY <1>1, <1>3, <1>4 DEF StreamInv, Beginning
  <1>6. Reading'
    BY <1>4 DEF Reading, Handling
  <1> QED
    BY <1>2, <1>5, <1>6 DEF StreamInv

LEMMA StreamHello == ASSUME BufferInv, StreamInv, Hello PROVE StreamInv' /\ OnlyPrefixGone
  <1>1. Greeting /\ pc' = "frame"
    BY DEF Hello, Goto, StreamInv, Beginning
  <1>2. skip(PrefixLen) /\ UNCHANGED <<wire, mSocket, sess, pre, sent, msg, worker>>
    BY DEF Hello, conn, server
  <1>3. pre \in Nat /\ PrefixLen \in Nat /\ pre = PrefixLen /\ pre > 0 /\ mToSkip = 0
    BY <1>1, BufferAssumption DEF Greeting, BufferInv, StreamType
  <1>4. PICK k \in 0..Len(mInBuffer) :
          /\ Without(k) /\ k <= mToSkip + PrefixLen /\ mToSkip' = mToSkip + PrefixLen - k
          /\ k = Len(mInBuffer) => mInBuffer' = <<>>
    BY <1>2, <1>3, SkipDrops
  <1>5. k \in Nat /\ k <= pre /\ mToSkip' = pre - k
    BY <1>3, <1>4, StreamIs
  <1>6. Content'
    BY <1>2, <1>4, <1>5, ContentWithout DEF StreamInv, Content
  <1>7. Talking' /\ OnlyPrefixGone
    <2>1. CASE mSocket = NULL
      <3>1. stream = <<>> /\ Len(stream) = 0
        BY <1>1, <2>1, EmptySeq DEF Greeting
      <3>2. stream' \in Seq(Byte) /\ Len(stream') = 0
        BY <1>4, <1>5, <3>1 DEF Without, Behind
      <3>3. stream' = <<>>
        BY <3>2, EmptySeq
      <3> QED
        BY <1>2, <2>1, <3>1, <3>3 DEF Talking, OnlyPrefixGone
    <2>2. CASE mSocket # NULL
      <3>1. stream # <<>> /\ stream[1].msg.idx = 0 /\ stream[1].off = pre + 1 - pre
        BY <1>1, <1>3, <2>2 DEF Greeting
      <3> QED
        BY <1>2, <1>3, <1>4, <1>5, <2>2, <3>1, Skipping DEF StreamInv
    <2> QED
      BY <2>1, <2>2
  <1>8. ASSUME NEW s \in Sessions, worker'[s] \in {"resolve", "open"}
        PROVE  mInBuffer' = <<>> /\ mToSkip' = pre'
    <2>1. mInBuffer = <<>>
      BY <1>2, <1>8 DEF StreamInv, Beginning
    <2>2. k = 0 /\ Len(mInBuffer) = 0
      BY <1>4, <2>1
    <2> QED
      BY <1>2, <1>3, <1>4, <1>5, <2>2
  <1>9. Beginning'
    BY <1>1, <1>7, <1>8 DEF Beginning
  <1>10. Reading'
    BY <1>1 DEF Reading, Handling
  <1> QED
    BY <1>6, <1>7, <1>9, <1>10 DEF StreamInv

\* The thread that receives, or that opened the socket, is the only one.
LEMMA OnlyThread ==
    ASSUME ConnInv, NEW s \in Sessions, worker[s] \notin {"none", "joined"},
           NEW to \in WorkerLabels \ {"resolve", "open"}, worker' = [worker EXCEPT ![s] = to]
    PROVE  s = sess /\ \A z \in Sessions : worker'[z] \notin {"resolve", "open"}
  <1>1. s = mWorkerThread /\ s = sess /\ \A z \in Sessions : Live(z) => z = s
    BY DEF ConnInv, ThreadOrder, Live, Sessions, NULL
  <1>2. \A z \in Sessions : worker'[z] = IF z = s THEN to ELSE worker[z]
    BY DEF ConnInv, ConnType
  <1> QED
    BY <1>1, <1>2 DEF Live

\* What Reading says stays true while nothing but the end of the stream changes.
LEMMA ReadingLonger ==
    ASSUME BufferInv, Reading, UNCHANGED main, Len(mInBuffer') \in Nat,
           Len(mInBuffer') >= Len(mInBuffer),
           \A i \in 1..Len(mInBuffer) : mInBuffer'[i] = mInBuffer[i]
    PROVE  Reading'
  <1>1. mInBuffer \in Seq(Byte) /\ Len(mInBuffer) \in Nat
    BY DEF BufferInv
  <1>2. UNCHANGED <<pc, ret, msg>> /\ Handling' = Handling
    BY DEF main, Handling
  <1>3. mInBuffer # <<>> => mInBuffer'[1] = mInBuffer[1] /\ mInBuffer' # <<>>
    <2> HAVE mInBuffer # <<>>
    <2>1. Len(mInBuffer) >= 1 /\ 1 \in 1..Len(mInBuffer)
      BY <1>1, EmptySeq
    <2>2. Len(mInBuffer') # 0
      BY <1>1, <2>1
    <2> QED
      BY <2>1, <2>2, EmptySeq
  <1>4. messageReady => messageReady'
    <2> HAVE messageReady
    <2>1. Len(mInBuffer) >= 2 /\ mInBuffer'[1] = mInBuffer[1]
      BY <1>1 DEF messageReady
    <2>2. mInBuffer[1] \in Byte
      BY <1>1, <2>1
    <2>3. mInBuffer[1].msg.len \in Nat /\ PacketLen(mInBuffer[1].msg.kind) \in Nat \cup {-1}
      BY <2>2, ByteFacts, TableAssumption DEF PacketLen
    <2> QED
      BY <1>1, <2>1, <2>3 DEF messageReady, VarHeader
  <1>5. Handling => msg.len \in Nat
    BY DEF BufferInv, StreamType
  <1>6. Handling => msg.len <= Len(mInBuffer')
    BY <1>1, <1>5 DEF Reading
  <1> QED
    BY <1>2, <1>3, <1>4, <1>6 DEF Reading

LEMMA StreamReceive ==
    ASSUME ConnInv, BufferInv, BufferInv', StreamInv, NEW s \in Sessions, Receive(s)
    PROVE  StreamInv' /\ OnlyPrefixGone
  <1>1. /\ worker[s] = "select" /\ worker' = [worker EXCEPT ![s] = "loop"] /\ ~Stopped
        /\ UNCHANGED <<mSocket, sess, pre, sent, msg, pc>> /\ UNCHANGED main
    BY DEF Receive, Step, conn, main
  <1>2. mSocket = s /\ mSocket # NULL
    BY <1>1 DEF ConnInv, SocketOrder, Sessions, NULL
  <1>3. \A z \in Sessions : worker'[z] \notin {"resolve", "open"}
    BY <1>1, OnlyThread DEF WorkerLabels
  <1>4. PICK k \in Nat :
          /\ Without(k) /\ k <= mToSkip /\ mToSkip' = mToSkip - k
          /\ mToSkip = 0 => /\ Len(mInBuffer') >= Len(mInBuffer)
                            /\ \A i \in 1..Len(mInBuffer) : mInBuffer'[i] = mInBuffer[i]
    BY ReceiveDrops
  <1>5. mToSkip \in Nat /\ Len(mInBuffer') \in Nat
    BY DEF BufferInv
  <1>6. Content'
    BY <1>1, <1>2, <1>4, ContentWithout DEF StreamInv, Content
  <1>7. CASE mToSkip = 0
    <2>1. k = 0 /\ mToSkip' = mToSkip
      BY <1>4, <1>5, <1>7
    <2>2. stream' = stream
      BY <1>4, <2>1, WithoutNone
    <2>3. Beginning'
      BY <1>1, <1>3, <2>1, <2>2 DEF StreamInv, Beginning, Greeting, Talking
    <2>4. Reading'
      BY <1>1, <1>4, <1>5, <1>7, ReadingLonger DEF StreamInv
    <2> QED
      BY <1>6, <2>2, <2>3, <2>4 DEF StreamInv, OnlyPrefixGone
  <1>8. CASE mToSkip # 0
    <2>1. mInBuffer = <<>> /\ mToSkip > 0
      BY <1>5, <1>8 DEF BufferInv, SkipOnlyWhenEmpty
    <2>2. pc # "hello"
      BY <1>8 DEF StreamInv, Beginning, Greeting
    <2>3. Talking /\ stream # <<>>
      BY <1>2, <1>8, <2>2 DEF StreamInv, Beginning, Talking
    <2>4. stream[1].msg.idx = 0 /\ stream[1].off = pre + 1 - mToSkip
      BY <1>8, <2>3 DEF Talking
    <2>5. Talking' /\ OnlyPrefixGone
      BY <1>1, <1>2, <1>4, <1>5, <2>1, <2>3, <2>4, Skipping DEF StreamInv
    <2>6. ~Handling /\ pc # "read" /\ pc # "exited"
      <3>1. Len(mInBuffer) = 0
        BY <2>1, EmptySeq
      <3> QED
        BY <1>1, <2>1, <3>1 DEF StreamInv, Reading, messageReady, Stopped
    <2>7. Reading'
      BY <1>1, <2>6 DEF Reading, Handling, main
    <2> QED
      BY <1>1, <1>3, <1>6, <2>2, <2>5, <2>7 DEF StreamInv, Beginning
  <1> QED
    BY <1>7, <1>8

LEMMA StreamDispatch == ASSUME StreamInv, Dispatch PROVE StreamInv'
  <1>1. /\ UNCHANGED <<mInBuffer, wire, mToSkip, mSocket, sess, pre, sent, msg, worker>>
        /\ pc # "hello" /\ pc' \in {"read", "check"} /\ (pc' = "read" => messageReady)
    BY DEF Dispatch, Goto, conn, inbound, server
  <1>2. stream' = stream /\ messageReady' = messageReady
    BY <1>1 DEF stream, messageReady
  <1>3. Content' /\ Beginning'
    BY <1>1, <1>2 DEF StreamInv, Content, Beginning, Talking
  <1>4. Reading'
    BY <1>1, <1>2 DEF Reading, Handling
  <1> QED
    BY <1>3, <1>4 DEF StreamInv

\* The first bytes of the buffer are those of a message of the current connection that
\* is there to its end, unless it is of a kind nobody registered.
LEMMA HeadOfMessage ==
    ASSUME BufferInv, StreamInv, pc = "read", NEW h, h = mInBuffer[1]
    PROVE  /\ mInBuffer # <<>> /\ h = stream[1] /\ h \in Byte /\ h.off = 1
           /\ h.msg.idx > 0 /\ h.msg.sess = sess
           /\ \E p \in Packets : h.msg.kind = p.kind /\ h.msg.len = p.len
           /\ h.msg.kind \in DOMAIN Table =>
                 /\ h.msg.len # 0 /\ h.msg.len <= Len(mInBuffer)
                 /\ PacketLen(h.msg.kind) = -1 \/ PacketLen(h.msg.kind) = h.msg.len
  <1>1. messageReady /\ Len(mInBuffer) >= 2 /\ mInBuffer \in Seq(Byte)
    BY DEF StreamInv, Reading, messageReady, BufferInv
  <1>2. mInBuffer # <<>> /\ 1 \in 1..Len(mInBuffer)
    BY <1>1, EmptySeq
  <1>3. mToSkip = 0 /\ h = stream[1] /\ stream # <<>> /\ 1 \in 1..Len(stream)
    BY <1>2, StreamIs
  <1>4. h.off = 1 /\ h.msg.idx > 0
    BY <1>3 DEF StreamInv, Beginning, Talking
  <1>5. h \in Byte /\ h.msg.len \in Nat
    BY <1>1, <1>2, ByteFacts
  <1>6. h.msg.sess = sess /\ \E p \in Packets : h.msg.kind = p.kind /\ h.msg.len = p.len
    BY <1>3, <1>4 DEF StreamInv, Content, FromServer
  <1>7. ASSUME h.msg.kind \in DOMAIN Table
        PROVE  /\ h.msg.len # 0 /\ h.msg.len <= Len(mInBuffer)
               /\ PacketLen(h.msg.kind) = -1 \/ PacketLen(h.msg.kind) = h.msg.len
    <2>1. PICK p \in Packets : h.msg.kind = p.kind /\ h.msg.len = p.len
      BY <1>6
    <2>2. /\ p.len \in Nat /\ 2 <= p.len
          /\ IF Table[p.kind] = -1 THEN p.len >= VarHeader ELSE p.len = Table[p.kind]
      BY <1>7, <2>1, PacketAssumption
    <2>3. PacketLen(h.msg.kind) = Table[p.kind]
      BY <1>7, <2>1 DEF PacketLen
    <2>4. CASE Table[p.kind] = -1
      BY <1>1, <2>1, <2>2, <2>3, <2>4 DEF messageReady
    <2>5. CASE Table[p.kind] # -1
      <3>1. PacketLen(h.msg.kind) = h.msg.len /\ h.msg.len # 0 /\ PacketLen(h.msg.kind) # -1
        BY <2>1, <2>2, <2>3, <2>5
      <3> QED
        BY <1>1, <1>5, <3>1 DEF messageReady
    <2> QED
      BY <2>4, <2>5
  <1> QED
    BY <1>2, <1>3, <1>4, <1>5, <1>6, <1>7

LEMMA StreamRead == ASSUME BufferInv, StreamInv, ReadMessage PROVE StreamInv'
  <1> DEFINE h == mInBuffer[1]
             len == IF PacketLen(h.msg.kind) = -1 THEN h.msg.len ELSE PacketLen(h.msg.kind)
  <1>1. /\ UNCHANGED <<mInBuffer, wire, mToSkip, mSocket, sess, pre, sent, worker>>
        /\ pc = "read" /\ msg' = [head |-> h, len |-> len]
        /\ pc' = IF len = 0 THEN "exited" ELSE "handler"
    BY DEF ReadMessage, Goto, conn, inbound, server
  <1>2. /\ mInBuffer # <<>> /\ h \in Byte
        /\ h.msg.kind \in DOMAIN Table =>
              /\ h.msg.len # 0 /\ h.msg.len <= Len(mInBuffer)
              /\ PacketLen(h.msg.kind) = -1 \/ PacketLen(h.msg.kind) = h.msg.len
    BY <1>1, HeadOfMessage
  <1>3. h.msg.kind \notin DOMAIN Table => len = 0
    BY DEF PacketLen
  <1>4. h.msg.kind \in DOMAIN Table => len = h.msg.len /\ len # 0
    BY <1>2
  <1> HIDE DEF len, h
  <1>5. stream' = stream
    BY <1>1 DEF stream
  <1>6. Content' /\ Beginning'
    BY <1>1, <1>5 DEF StreamInv, Content, Beginning, Talking
  <1>7. Reading'
    <2>1. CASE h.msg.kind \in DOMAIN Table
      BY <1>1, <1>2, <1>4, <2>1 DEF Reading, Handling, h
    <2>2. CASE h.msg.kind \notin DOMAIN Table
      BY <1>1, <1>2, <1>3, <2>2 DEF Reading, Handling, h
    <2> QED
      BY <2>1, <2>2
  <1> QED
    BY <1>6, <1>7 DEF StreamInv

\* Closing the socket cuts the stream at the end of the buffer.
LEMMA StreamJoin == ASSUME ConnInv, BufferInv, StreamInv, Join PROVE StreamInv'
  <1>1. /\ UNCHANGED <<mInBuffer, mToSkip, sess, pre, sent, msg, ret>>
        /\ pc = "join" /\ pc' = ret /\ mSocket' = NULL /\ wire' = <<>>
    BY DEF Join, Goto, inbound, StreamInv, Content
  <1>2. /\ mInBuffer \in Seq(Byte) /\ wire \in Seq(Byte) /\ Len(mInBuffer) \in Nat
        /\ stream \in Seq(Byte) /\ Len(stream) \in Nat /\ Len(mInBuffer) <= Len(stream)
        /\ \A i \in 1..Len(mInBuffer) : stream[i] = mInBuffer[i]
    BY StreamIs DEF BufferInv, StreamType
  <1>3. stream' = mInBuffer
    BY <1>1, <1>2, ConcatEmptySeq DEF stream
  <1>4. Runs(stream')
    <2>1. Len(mInBuffer) + 0 <= Len(stream) /\ \A i \in 1..Len(mInBuffer) : mInBuffer[i] = stream[i + 0]
      BY <1>2
    <2> QED
      BY <1>2, <1>3, <2>1, RunsPart DEF StreamInv, Content
  <1>5. \A i \in 1..Len(stream') : FromServer(stream'[i].msg, sess, pre)
    <2> TAKE i \in 1..Len(stream')
    <2>1. i \in 1..Len(mInBuffer) /\ i \in 1..Len(stream) /\ stream'[i] = stream[i]
      BY <1>2, <1>3
    <2> QED
      BY <2>1 DEF StreamInv, Content
  <1>6. Content'
    BY <1>1, <1>4, <1>5 DEF Content
  <1>7. ret \in {"frame", "connect", "skip", "deleted"}
    BY <1>1 DEF ConnInv, CallOrder
  <1>8. Talking'
    <2>1. mInBuffer # <<>> => mToSkip = 0 /\ stream # <<>> /\ stream[1] = mInBuffer[1]
      BY StreamIs
    <2>2. Talking
      BY <1>1 DEF StreamInv, Beginning
    <2> QED
      BY <1>1, <1>3, <2>1, <2>2 DEF Talking
  <1>9. \A z \in Sessions : worker'[z] \notin {"resolve", "open"}
    BY DEF Join, WaitThread, ConnInv, ConnType, ThreadOrder, Live
  <1>10. Beginning'
    BY <1>1, <1>7, <1>8, <1>9 DEF Beginning
  <1>11. Reading'
    BY <1>1, <1>7 DEF StreamInv, Reading, Handling
  <1> QED
    BY <1>6, <1>10, <1>11 DEF StreamInv

LEMMA EmptyContent == ASSUME NEW st, st = <<>>, NEW n PROVE Runs(st) /\ Whole(st, n)
  <1>1. Len(st) = 0
    BY EmptySeq
  <1> QED
    BY <1>1 DEF Runs, NoneMissing, Whole

\* connect() finds nothing on the wire; unless it has no address it empties the buffer.
LEMMA StreamConnect == ASSUME ConnInv, BufferInv, StreamInv, Connect PROVE StreamInv'
  <1>1. /\ pc = "connect" /\ NotInUse /\ mSocket = NULL /\ \A z \in Sessions : ~Live(z)
        /\ UNCHANGED <<msg, wire, sent, ret>> /\ mSocket' = NULL /\ wire = <<>>
    <2>1. pc = "connect" /\ UNCHANGED <<msg, wire, sent, ret>>
      BY DEF Connect, Goto
    <2>2. NotInUse /\ mSocket = NULL /\ \A z \in Sessions : ~Live(z)
      BY <2>1 DEF ConnInv, DisconnectOrder, Disconnected, NotInUse
    <2>3. mSocket' = mSocket
      BY <2>2 DEF Connect, ConnectWithoutAddress, ConnectWithoutThread, ConnectStarts
    <2> QED
      BY <2>1, <2>2, <2>3 DEF StreamInv, Content
  <1>2. PICK n \in {0, PrefixLen} : pre' = n /\ pc' = IF n = 0 THEN "frame" ELSE "hello"
    BY DEF Connect, Goto
  <1>3. Reading'
    BY <1>1, <1>2 DEF Reading, Handling
  <1>4. CASE ConnectWithoutAddress
    <2>1. /\ UNCHANGED <<mInBuffer, mToSkip, sess, worker, stream>>
          /\ pre' = 0 /\ pc' = "frame"
      BY <1>1, <1>2, <1>4 DEF ConnectWithoutAddress, inbound, stream
    <2>2. Talking
      BY <1>1 DEF StreamInv, Beginning
    <2>3. \A i \in 1..Len(stream) : FromServer(stream[i].msg, sess, 0)
      <3> TAKE i \in 1..Len(stream)
      <3>1. /\ stream \in Seq(Byte) /\ stream # <<>> /\ 1 \in 1..Len(stream)
            /\ i \in 1..Len(stream) /\ 1 <= i
        <4>1. stream \in Seq(Byte) /\ Len(stream) \in Nat /\ (stream = <<>> => Len(stream) = 0)
          BY StreamIs, EmptySeq
        <4> QED
          BY <4>1
      <3>2. stream[1].msg.idx > 0
        BY <1>1, <2>2, <3>1 DEF Talking
      <3>3. stream[1].msg.idx <= stream[i].msg.idx
        BY <3>1, Ordered DEF StreamInv, Content
      <3>4. stream[1].msg.idx \in Nat /\ stream[i].msg.idx \in Nat
        BY <3>1, ByteFacts
      <3>5. stream[i].msg.idx > 0
        BY <3>2, <3>3, <3>4
      <3> QED
        BY <3>5 DEF StreamInv, Content, FromServer
    <2>4. Content'
      BY <1>1, <2>1, <2>3 DEF StreamInv, Content
    <2>5. Talking'
      BY <1>1, <2>1, <2>2 DEF Talking
    <2>6. Beginning'
      BY <1>1, <2>1, <2>5 DEF Beginning, Live
    <2> QED
      BY <1>3, <2>4, <2>6 DEF StreamInv
  <1>5. CASE ConnectWithoutThread \/ ConnectStarts
    <2>1. mInBuffer' = <<>> /\ mToSkip' = 0
      BY <1>5 DEF ConnectWithoutThread, ConnectStarts, Reset
    <2>2. stream' = <<>> /\ wire' = <<>> /\ Len(stream') = 0
      BY <1>1, <2>1, ConcatEmptySeq, EmptySeq DEF stream
    <2>3. Content'
      <3>1. Runs(stream')
        BY <2>2, EmptyContent
      <3> QED
        BY <1>1, <2>2, <3>1 DEF Content
    <2>4. Talking'
      BY <1>1, <2>2 DEF Talking
    <2>5. pc' = "hello" => Greeting'
      BY <1>1, <1>2, <2>1, <2>2, BufferAssumption DEF Greeting
    <2>6. pc' # "hello" => mToSkip' = pre'
      BY <1>2, <2>1
    <2>7. Beginning'
      BY <2>1, <2>4, <2>5, <2>6 DEF Beginning
    <2> QED
      BY <1>3, <2>3, <2>7 DEF StreamInv
  <1> QED
    BY <1>1, <1>4, <1>5 DEF Connect

\* A new connection: the stream is the prefix, whether it is to be skipped already or not.
LEMMA StreamOpen ==
    ASSUME ConnInv, BufferInv, StreamInv, NEW s \in Sessions, Open(s) PROVE StreamInv'
  <1> DEFINE m == Prefix(s, pre)
  <1>1. /\ worker[s] = "open" /\ worker' = [worker EXCEPT ![s] = "publish"]
        /\ UNCHANGED <<mInBuffer, mToSkip, sess, pre, msg, pc, ret, main>>
        /\ mSocket' = s /\ s # NULL /\ wire' = Bytes(m) /\ sent' = 0
    BY DEF Open, Step, inbound, main, Sessions, NULL
  <1>2. /\ mSocket = NULL /\ mInBuffer = <<>> /\ (pc # "hello" => mToSkip = pre)
        /\ pre \in Nat
    BY <1>1 DEF ConnInv, SocketOrder, StreamInv, Beginning, BufferInv, StreamType
  <1>3. s = sess /\ \A z \in Sessions : worker'[z] \notin {"resolve", "open"}
    BY <1>1, OnlyThread DEF WorkerLabels
  <1>4. m \in Message /\ m.len = pre /\ m.idx = 0 /\ m.sess = s
    BY <1>2, BufferAssumption DEF Prefix, Message
  <1>5. FromServer(m, s, pre)
    BY <1>4 DEF FromServer
  <1> HIDE DEF m
  <1>6. Bytes(m) \in Seq(Byte) /\ Len(Bytes(m)) = pre /\ \A i \in 1..pre : Bytes(m)[i] = [msg |-> m, off |-> i]
    BY <1>4, BytesAre
  <1>7. stream' = Bytes(m)
    BY <1>1, <1>2, <1>6, ConcatEmptySeq DEF stream
  <1>8. Runs(Bytes(m)) /\ Whole(Bytes(m), 0)
    <2>1. CASE pre = 0
      <3>1. Bytes(m) = <<>>
        BY <1>6, <2>1, EmptySeq
      <3> QED
        BY <3>1, EmptyContent
    <2>2. CASE pre # 0
      <3>1. <<>> \in Seq(Byte) /\ Bytes(m) = <<>> \o Bytes(m)
        BY <1>6, EmptySeq, ConcatEmptySeq
      <3>2. Extends(Bytes(m), <<>>, m)
        BY <1>4, <3>1, Longer
      <3>3. Runs(<<>>) /\ Whole(<<>>, m.idx - 1)
        BY EmptyContent
      <3>4. m.len \in Nat /\ m.idx \in Nat /\ m.len >= 1
        BY <1>2, <1>4, <2>2
      <3>5. Runs(Bytes(m)) /\ Whole(Bytes(m), m.idx)
        BY <1>4, <1>6, <3>1, <3>2, <3>3, <3>4, RunsLonger
      <3> QED
        BY <1>4, <3>5
    <2> QED
      BY <2>1, <2>2
  <1>9. Content'
    BY <1>1, <1>3, <1>5, <1>6, <1>7, <1>8 DEF Content
  <1>10. /\ pre > 0 => stream' # <<>> /\ stream'[1].off = 1 /\ stream'[1].msg.idx = 0
         /\ pre = 0 => stream' = <<>>
    <2>1. pre > 0 => 1 \in 1..pre /\ Bytes(m) # <<>>
      BY <1>2, <1>6, EmptySeq
    <2>2. pre = 0 => Bytes(m) = <<>>
      BY <1>6, EmptySeq
    <2> QED
      BY <1>2, <1>4, <1>6, <1>7, <2>1, <2>2
  <1>11. pc = "hello" => Greeting'
    <2> HAVE pc = "hello"
    <2>1. Greeting /\ pre > 0
      BY DEF StreamInv, Beginning, Greeting
    <2> QED
      BY <1>1, <1>10, <2>1 DEF Greeting
  <1>12. pc # "hello" => Talking'
    <2> HAVE pc # "hello"
    <2>1. mToSkip' = pre /\ pre' = pre /\ mSocket' # NULL
      BY <1>1, <1>2
    <2>2. pre + 1 - pre = 1
      BY <1>2
    <2> QED
      BY <1>2, <1>10, <2>1, <2>2 DEF Talking
  <1>13. Beginning'
    BY <1>1, <1>3, <1>11, <1>12 DEF Beginning
  <1>14. Reading'
    <2>1. Len(mInBuffer') = Len(mInBuffer) /\ Len(mInBuffer) \in Nat
      BY <1>1 DEF BufferInv
    <2> QED
      BY <1>1, <2>1, ReadingLonger DEF StreamInv
  <1> QED
    BY <1>9, <1>13, <1>14 DEF StreamInv

LEMMA StreamSend == ASSUME ConnInv, BufferInv, StreamInv, ServerSend PROVE StreamInv'
  <1>1. PICK p \in Packets :
          wire' = wire \o Bytes([sess |-> mSocket, idx |-> sent + 1, kind |-> p.kind,
          len |-> p.len])
    BY DEF ServerSend
  <1> DEFINE m == [sess |-> mSocket, idx |-> sent + 1, kind |-> p.kind, len |-> p.len]
  <1>2. /\ sent' = sent + 1 /\ sent + 1 \in 0..MaxMsgs /\ mSocket \in Sessions /\ sent \in Nat
        /\ mSocket # NULL /\ UNCHANGED <<mInBuffer, mToSkip, mSocket, sess, pre, main, worker>>
        /\ UNCHANGED <<msg, pc, ret>>
    BY BufferAssumption DEF ServerSend, BufferInv, StreamType, conn, inbound, main
  <1>3. mSocket = sess
    BY <1>2 DEF ConnInv, SocketOrder, ThreadOrder
  <1>4. m \in Message /\ m.len >= 1 /\ m.idx > 0 /\ m.idx = sent + 1 /\ m.idx - 1 = sent
    BY <1>2, PacketAssumption DEF Message, Kinds
  <1>5. FromServer(m, sess, pre)
    BY <1>3, <1>4 DEF FromServer
  <1>6. wire' = wire \o Bytes(m)
    BY <1>1
  <1> HIDE DEF m
  <1>7. /\ stream \in Seq(Byte) /\ Len(stream) \in Nat
        /\ stream' = stream \o Bytes(m)
    <2>1. mInBuffer \in Seq(Byte) /\ wire \in Seq(Byte) /\ Bytes(m) \in Seq(Byte)
      BY <1>4, BytesAre DEF BufferInv, StreamType
    <2>2. (mInBuffer \o wire) \o Bytes(m) = mInBuffer \o (wire \o Bytes(m))
      BY <2>1, ConcatAssociative
    <2>3. stream \in Seq(Byte)
      BY StreamIs
    <2> QED
      BY <1>2, <1>6, <2>2, <2>3 DEF stream
  <1>8. /\ m.len \in Nat /\ m.idx \in Nat
        /\ stream' \in Seq(Byte) /\ Extends(stream', stream, m)
    BY <1>4, <1>7, Longer
  <1>9. Runs(stream') /\ Whole(stream', sent')
    <2>1. Runs(stream) /\ Whole(stream, m.idx - 1)
      BY <1>2, <1>4 DEF StreamInv, Content
    <2>2. Runs(stream') /\ Whole(stream', m.idx)
      BY <1>4, <1>7, <1>8, <2>1, RunsLonger
    <2> QED
      BY <1>2, <1>4, <2>2
  <1>10. \A i \in 1..Len(stream') : FromServer(stream'[i].msg, sess, pre)
    <2> TAKE i \in 1..Len(stream')
    <2>1. CASE i <= Len(stream)
      <3>1. i \in 1..Len(stream) /\ stream'[i] = stream[i]
        BY <1>7, <1>8, <2>1 DEF Extends
      <3> QED
        BY <3>1 DEF StreamInv, Content
    <2>2. CASE i > Len(stream)
      <3>0. stream'[i] = [msg |-> m, off |-> i - Len(stream)]
        BY <1>8, <2>2 DEF Extends
      <3>1. stream'[i].msg = m
        BY <3>0
      <3> QED
        BY <1>5, <3>1
    <2> QED
      BY <1>7, <1>8, <2>1, <2>2
  <1>11. Content'
    BY <1>2, <1>9, <1>10 DEF Content
  <1>12. /\ stream' # <<>>
         /\ stream # <<>> => stream'[1] = stream[1]
         /\ stream = <<>> => stream'[1].off = 1 /\ stream'[1].msg.idx > 0
    <2>1. Len(stream') >= 1 /\ 1 \in 1..Len(stream')
      BY <1>4, <1>7, <1>8 DEF Extends
    <2>2. stream # <<>> => 1 \in 1..Len(stream)
      BY StreamIs
    <2>3. ASSUME stream = <<>> PROVE stream'[1] = [msg |-> m, off |-> 1]
      <3>1. Len(stream) = 0
        BY <2>3, EmptySeq
      <3> QED
        BY <1>8, <2>1, <3>1 DEF Extends
    <2>4. stream' # <<>>
      BY <2>1, EmptySeq
    <2> QED
      BY <1>4, <1>8, <2>2, <2>3, <2>4 DEF Extends
  <1>13. Beginning'
    BY <1>2, <1>12 DEF StreamInv, Beginning, Greeting, Talking
  <1>14. Reading'
    <2>1. Len(mInBuffer') = Len(mInBuffer) /\ Len(mInBuffer) \in Nat
      BY <1>2 DEF BufferInv
    <2> QED
      BY <1>2, <2>1, ReadingLonger DEF StreamInv
  <1> QED
    BY <1>11, <1>13, <1>14 DEF StreamInv

LEMMA StreamNext ==
    ConnInv /\ BufferInv /\ BufferInv' /\ StreamInv /\ [Next]_vars => StreamInv'
  <1> SUFFICES ASSUME ConnInv, BufferInv, BufferInv', StreamInv, [Next]_vars PROVE StreamInv'
    OBVIOUS
  <1>1. CASE FlushNetwork \/ FlushSend \/ Flush \/ Send \/ Handle \/ HandleRedirect \/ CheckError
             \/ Write \/ WriteFix \/ WriteExpand \/ HandleReply \/ HandleReplyFix
             \/ HandleReplyExpand \/ Disconnect \/ Reconnect \/ GameConnect \/ Delete
    BY <1>1, CalmMain, CalmKeeps
  <1>2. CASE Dispatch
    BY <1>2, StreamDispatch
  <1>3. CASE ReadMessage
    BY <1>3, StreamRead
  <1>4. CASE SkipMessage
    BY <1>4, StreamSkip
  <1>5. CASE Hello
    BY <1>5, StreamHello
  <1>6. CASE Join
    BY <1>6, StreamJoin
  <1>7. CASE Connect
    BY <1>7, StreamConnect
  <1>8. ASSUME NEW s \in Sessions, Worker(s) PROVE StreamInv'
    <2>1. CASE Open(s)
      BY <2>1, StreamOpen
    <2>2. CASE Receive(s)
      BY <2>2, StreamReceive
    <2>3. CASE ResolveFails(s) \/ Resolve(s) \/ OpenFails(s) \/ Publish(s) \/ Alloc(s) \/ Loop(s)
               \/ Wait(s) \/ ReceiveEnd(s) \/ ReceiveFails(s)
      BY <2>3, CalmWorker, CalmKeeps
    <2> QED
      BY <1>8, <2>1, <2>2, <2>3 DEF Worker
  <1>9. CASE ServerSend
    BY <1>9, StreamSend
  <1>10. CASE ServerClose \/ UNCHANGED vars
    BY <1>10, CalmRest, CalmKeeps
  <1> QED
    BY <1>1, <1>2, <1>3, <1>4, <1>5, <1>6, <1>7, <1>8, <1>9, <1>10 DEF Next, Main, Terminated

THEOREM StreamCorrect == Spec => [](ConnInv /\ BufferInv /\ StreamInv)
  <1>1. Init => StreamInv
    BY StreamInit
  <1>2. ConnInv /\ BufferInv /\ BufferInv' /\ StreamInv /\ [Next]_vars => StreamInv'
    BY StreamNext
  <1> QED
    BY <1>1, <1>2, ConnCorrect, BufferCorrect, PTL DEF Spec

\* A handler's message is exactly one message of the server the client is connected to.
THEOREM MessageIntactHolds == Spec => []MessageIntact
  <1>1. ConnInv /\ BufferInv /\ StreamInv => MessageIntact
    <2> SUFFICES ASSUME BufferInv, StreamInv, Handling
                 PROVE  /\ msg.head.off = 1 /\ msg.head.msg.idx > 0
                        /\ msg.head.msg.sess = sess
                        /\ SubSeq(mInBuffer, 1, msg.len) = Bytes(msg.head.msg)
      BY DEF MessageIntact
    <2>1. /\ mInBuffer # <<>> /\ msg.head = mInBuffer[1]
          /\ msg.len = msg.head.msg.len /\ msg.len <= Len(mInBuffer) /\ pc # "hello"
      BY DEF StreamInv, Reading, Handling
    <2>2. /\ stream \in Seq(Byte) /\ 1 \in 1..Len(stream) /\ stream[1] = msg.head /\ mToSkip = 0
          /\ stream # <<>> /\ Len(stream) = Len(mInBuffer) + Len(wire)
          /\ Len(mInBuffer) \in Nat /\ Len(wire) \in Nat
          /\ \A i \in 1..Len(mInBuffer) : stream[i] = mInBuffer[i]
      BY <2>1, StreamIs
    <2>3. msg.head.off = 1 /\ msg.head.msg.idx > 0
      BY <2>1, <2>2 DEF StreamInv, Beginning, Talking
    <2>4. msg.head.msg.sess = sess
      BY <2>2 DEF StreamInv, Content, FromServer
    <2> DEFINE m == msg.head.msg
    <2>5. m \in Message /\ m.len \in Nat
      BY <2>2, ByteFacts
    <2>6. m.len <= Len(mInBuffer) /\ stream[1].msg = m /\ stream[1].off = 1
      BY <2>1, <2>2, <2>3
    <2> HIDE DEF m
    <2>7. ASSUME NEW i \in 1..m.len PROVE mInBuffer[i] = [msg |-> m, off |-> i]
      <3>1. i \in 1..Len(mInBuffer) /\ i \in 1..Len(stream) /\ 1 <= i
        BY <2>2, <2>5, <2>6
      <3>2. i - 1 <= stream[1].msg.len - stream[1].off
        BY <2>5, <2>6
      <3>0. stream \in Seq(Byte) /\ Runs(stream) /\ 1 \in 1..Len(stream)
        BY <2>2 DEF StreamInv, Content
      <3>3. stream[i].msg = m /\ stream[i].off = 1 + (i - 1)
        BY <2>6, <3>0, <3>1, <3>2, Ordered
      <3>4. stream[i] = [msg |-> stream[i].msg, off |-> stream[i].off]
        BY <2>2, <3>1, ByteFacts
      <3> QED
        BY <2>2, <3>1, <3>3, <3>4
    <2>8. /\ SubSeq(mInBuffer, 1, m.len) \in Seq(Byte)
          /\ Len(SubSeq(mInBuffer, 1, m.len)) = m.len
          /\ \A i \in 1..m.len : SubSeq(mInBuffer, 1, m.len)[i] = mInBuffer[i]
      <3>1. \A i \in 1..m.len : mInBuffer[i] \in Byte
        BY <2>2, <2>5, <2>6 DEF BufferInv
      <3>2. /\ SubSeq(mInBuffer, 1, m.len) \in Seq(Byte)
            /\ Len(SubSeq(mInBuffer, 1, m.len)) = IF 1 <= m.len THEN m.len - 1 + 1 ELSE 0
            /\ \A i \in 1..(m.len - 1 + 1) : SubSeq(mInBuffer, 1, m.len)[i] = mInBuffer[1 + i - 1]
        BY <2>5, <3>1, SubSeqProperties
      <3> QED
        BY <2>5, <3>2
    <2>9. /\ Bytes(m) \in Seq(Byte) /\ Len(Bytes(m)) = m.len
          /\ \A i \in 1..m.len : Bytes(m)[i] = [msg |-> m, off |-> i]
      BY <2>5, BytesAre
    <2>10. SubSeq(mInBuffer, 1, m.len) = Bytes(m)
      <3>1. \A i \in 1..m.len : SubSeq(mInBuffer, 1, m.len)[i] = Bytes(m)[i]
        BY <2>7, <2>8, <2>9
      <3> QED
        BY <2>8, <2>9, <3>1, SeqEqual
    <2> QED
      BY <2>1, <2>3, <2>4, <2>10 DEF m
  <1> QED
    BY <1>1, StreamCorrect, PTL

\* "Wrong packet received" is the server's fault.
THEOREM ExitOnlyOnUnknownHolds == Spec => []ExitOnlyOnUnknown
  <1>1. ConnInv /\ BufferInv /\ StreamInv => ExitOnlyOnUnknown
    <2> SUFFICES ASSUME BufferInv, StreamInv, pc = "exited"
                 PROVE  msg.head.off = 1 /\ msg.head.msg.kind \in Kinds \ DOMAIN Table
      BY DEF ExitOnlyOnUnknown
    <2>1. mInBuffer # <<>> /\ msg.head = mInBuffer[1] /\ msg.head.msg.kind \notin DOMAIN Table
      BY DEF StreamInv, Reading
    <2>2. 1 \in 1..Len(stream) /\ stream[1] = msg.head /\ mToSkip = 0 /\ stream # <<>>
      BY <2>1, StreamIs
    <2>3. msg.head.off = 1 /\ msg.head.msg.idx > 0
      BY <2>2 DEF StreamInv, Beginning, Talking
    <2>4. \E p \in Packets : msg.head.msg.kind = p.kind
      BY <2>2, <2>3 DEF StreamInv, Content, FromServer
    <2> QED
      BY <2>1, <2>3, <2>4 DEF Kinds
  <1> QED
    BY <1>1, StreamCorrect, PTL

----------------------------------------------------------------------------
(* What the handlers are promised: MessageStream is implemented.           *)

\* q is the messages of st in their order.
Lists(q, st) ==
    /\ q \in Seq(Message)
    /\ st = <<>> => q = <<>>
    /\ st # <<>> =>
         /\ Len(q) = st[Len(st)].msg.idx + 1 - First(st)
         /\ \A n \in 1..Len(q) :
               \E j \in 1..Len(st) : st[j].msg.idx = First(st) + n - 1 /\ q[n] = st[j].msg

\* The numbers of the first and of the last message.
LEMMA Ends ==
    ASSUME NEW st \in Seq(Byte), Runs(st), st # <<>>
    PROVE  /\ Len(st) \in Nat /\ 1 \in 1..Len(st) /\ Len(st) \in 1..Len(st)
           /\ st[1].msg.idx \in Nat /\ st[Len(st)].msg.idx \in Nat /\ First(st) \in Nat
           /\ st[1].msg.idx <= First(st) /\ First(st) <= st[Len(st)].msg.idx + 1
           /\ st[1].msg.idx > 0 => First(st) = st[1].msg.idx
           /\ st[1].msg.idx <= 1 => First(st) = 1
           /\ st[1].msg.idx <= st[Len(st)].msg.idx
  <1>1. Len(st) \in Nat /\ 1 \in 1..Len(st) /\ Len(st) \in 1..Len(st) /\ 1 <= Len(st)
    <2>1. Len(st) \in Nat \ {0}
      BY EmptySeq
    <2> QED
      BY <2>1
  <1>2. st[1] \in Byte /\ st[Len(st)] \in Byte
    BY <1>1
  <1>3. st[1].msg.idx \in Nat /\ st[Len(st)].msg.idx \in Nat
    BY <1>2, ByteFacts
  <1>4. st[1].msg.idx <= st[Len(st)].msg.idx
    BY <1>1, Ordered
  <1> QED
    BY <1>1, <1>3, <1>4 DEF First

LEMMA WaitingLists == ASSUME NEW st \in Seq(Byte), Runs(st) PROVE Lists(Waiting(st), st)
  <1>1. CASE st = <<>>
    BY <1>1, EmptySeq DEF Lists, Waiting
  <1>2. CASE st # <<>>
    <2> DEFINE l == st[Len(st)].msg.idx + 1 - First(st)
               e(n) == Numbered(st, First(st) + n - 1)
    <2>1. l \in Nat /\ Len(st) \in Nat /\ First(st) \in Nat
      BY <1>2, Ends
    <2>2. ASSUME NEW n \in 1..l
          PROVE  \E j \in 1..Len(st) : /\ st[j].msg.idx = First(st) + n - 1 /\ e(n) = st[j].msg
                                       /\ st[j].msg \in Message
      <3> DEFINE v == First(st) + n - 1
      <3>1. v \in Nat /\ st[1].msg.idx <= v /\ v <= st[Len(st)].msg.idx
        BY <1>2, <2>1, Ends
      <3>2. DOMAIN st = 1..Len(st)
        OBVIOUS
      <3>3. \E j \in DOMAIN st : st[j].msg.idx = v
        <4>1. Len(st) \in 1..Len(st) /\ st[1].msg.idx \in Nat /\ st[Len(st)].msg.idx \in Nat
          BY <1>2, Ends
        <4> HIDE DEF v
        <4> QED
          BY <3>1, <3>2, <4>1, Numbers, SMTT(30)
      <3> DEFINE c == CHOOSE j \in DOMAIN st : st[j].msg.idx = v
      <3>4. c \in DOMAIN st /\ st[c].msg.idx = v
        BY <3>3
      <3>5. e(n) = st[c].msg
        BY DEF Numbered
      <3> HIDE DEF c
      <3>6. c \in 1..Len(st) /\ st[c].msg \in Message
        BY <3>2, <3>4, ByteFacts
      <3> QED
        BY <3>4, <3>5, <3>6
    <2> HIDE DEF l
    <2>3. Waiting(st) = [n \in 1..l |-> e(n)]
      BY <1>2 DEF Waiting, l
    <2> HIDE DEF e
    <2>4. \A n \in 1..l : e(n) \in Message
      BY <2>2
    <2>5. /\ Waiting(st) \in Seq(Message) /\ Len(Waiting(st)) = l
          /\ \A n \in 1..l : Waiting(st)[n] = e(n)
      BY <2>1, <2>3, <2>4
    <2>6. \A n \in 1..l :
             \E j \in 1..Len(st) : st[j].msg.idx = First(st) + n - 1 /\ Waiting(st)[n] = st[j].msg
      BY <2>2, <2>5
    <2> QED
      BY <1>2, <2>5, <2>6 DEF Lists, l
  <1> QED
    BY <1>1, <1>2

LEMMA SameNumber ==
    ASSUME NEW st \in Seq(Byte), Runs(st), NEW i \in 1..Len(st), NEW j \in 1..Len(st),
           st[i].msg.idx = st[j].msg.idx
    PROVE  st[i].msg = st[j].msg
  <1>1. i <= j \/ j <= i
    OBVIOUS
  <1>2. CASE i <= j
    BY <1>2, Ordered
  <1>3. CASE j <= i
    BY <1>3, Ordered
  <1> QED
    BY <1>1, <1>2, <1>3

\* t is st without its first k bytes and perhaps without bytes at the end.
Part(t, st, k) == Len(t) + k <= Len(st) /\ \A i \in 1..Len(t) : t[i] = st[i + k]

\* Both lists name the message with a number the same way when one stream is a part of the other.
LEMMA PartListed ==
    ASSUME NEW st \in Seq(Byte), NEW t \in Seq(Byte), NEW k \in Nat, Runs(st), Part(t, st, k),
           st # <<>>, t # <<>>, First(st) \in Nat, First(t) \in Nat,
           NEW q, Lists(q, st), NEW r, Lists(r, t),
           NEW n \in 1..Len(r), NEW m \in 1..Len(q), First(t) + n = First(st) + m
    PROVE  r[n] = q[m]
  <1>1. PICK j \in 1..Len(t) : t[j].msg.idx = First(t) + n - 1 /\ r[n] = t[j].msg
    BY DEF Lists
  <1>2. PICK i \in 1..Len(st) : st[i].msg.idx = First(st) + m - 1 /\ q[m] = st[i].msg
    BY DEF Lists
  <1>3. j + k \in 1..Len(st) /\ t[j] = st[j + k]
    <2>1. Len(st) \in Nat /\ Len(t) \in Nat
      OBVIOUS
    <2> QED
      BY <2>1 DEF Part
  <1>4. First(t) + n - 1 = First(st) + m - 1
    <2>1. q \in Seq(Message) /\ r \in Seq(Message)
      BY DEF Lists
    <2>2. Len(q) \in Nat /\ Len(r) \in Nat
      BY <2>1
    <2>3. n \in Nat /\ m \in Nat
      BY <2>2
    <2>4. ASSUME NEW a \in Nat, NEW b \in Nat, a + n = b + m PROVE a + n - 1 = b + m - 1
      BY <2>3, <2>4
    <2> QED
      BY <2>4
  <1>5. st[j + k].msg = st[i].msg
    BY <1>1, <1>2, <1>3, <1>4, SameNumber
  <1> QED
    BY <1>1, <1>2, <1>3, <1>5

LEMMA NoneListed ==
    ASSUME NEW st \in Seq(Byte), Runs(st), st # <<>>, st[Len(st)].msg.idx = 0, NEW q, Lists(q, st)
    PROVE  q = <<>>
  <1>1. Len(q) = st[Len(st)].msg.idx + 1 - First(st) /\ q \in Seq(Message)
    BY DEF Lists
  <1>2. First(st) = 1
    BY Ends
  <1>3. Len(q) = 0
    BY <1>1, <1>2
  <1> QED
    BY <1>1, <1>3, EmptySeq

LEMMA HeadListed ==
    ASSUME NEW st \in Seq(Byte), Runs(st), st # <<>>, st[1].msg.idx > 0, NEW q, Lists(q, st)
    PROVE  q \in Seq(Message) /\ q # <<>> /\ Head(q) = st[1].msg
  <1>1. /\ st[1].msg.idx \in Nat /\ st[Len(st)].msg.idx \in Nat /\ First(st) = st[1].msg.idx
        /\ st[1].msg.idx <= st[Len(st)].msg.idx /\ 1 \in 1..Len(st)
    BY Ends
  <1>2. q \in Seq(Message) /\ Len(q) = st[Len(st)].msg.idx + 1 - st[1].msg.idx
    BY <1>1 DEF Lists
  <1>3. Len(q) >= 1 /\ 1 \in 1..Len(q) /\ q # <<>>
    BY <1>1, <1>2, EmptySeq
  <1>4. PICK j \in 1..Len(st) : st[j].msg.idx = First(st) + 1 - 1 /\ q[1] = st[j].msg
    BY <1>3 DEF Lists
  <1>5. st[j].msg = st[1].msg
    BY <1>1, <1>4, SameNumber
  <1> QED
    BY <1>2, <1>3, <1>4, <1>5

\* What the list becomes when the prefix goes, ...
LEMMA PrefixGone ==
    ASSUME NEW st \in Seq(Byte), NEW t \in Seq(Byte), NEW k \in Nat, Runs(st), Runs(t),
           Behind(t, st, k), st # <<>>, st[1].msg.idx = 0,
           t = <<>> => st[Len(st)].msg.idx = 0, t # <<>> => t[1].msg.idx <= 1,
           NEW q, Lists(q, st), NEW r, Lists(r, t)
    PROVE  r = q
  <1>1. CASE t = <<>>
    BY <1>1, NoneListed DEF Lists
  <1>2. CASE t # <<>>
    <2>1. First(st) = 1 /\ First(t) = 1 /\ Len(st) \in Nat /\ Len(t) \in Nat /\ Len(t) \in 1..Len(t)
      BY <1>2, Ends
    <2>2. Len(t) + k = Len(st) /\ t[Len(t)] = st[Len(t) + k]
      BY <2>1 DEF Behind
    <2>3. Len(r) = Len(q) /\ q \in Seq(Message) /\ r \in Seq(Message)
      BY <1>2, <2>1, <2>2 DEF Lists
    <2>4. ASSUME NEW n \in 1..Len(r) PROVE r[n] = q[n]
      <3>1. n \in 1..Len(q) /\ First(t) + n = First(st) + n
        BY <2>1, <2>3
      <3>2. Part(t, st, k)
        BY <2>1, <2>2 DEF Behind, Part
      <3> QED
        BY <1>2, <2>1, <3>1, <3>2, PartListed
    <2> QED
      BY <2>3, <2>4, SeqEqual
  <1> QED
    BY <1>1, <1>2

\* ... when the first message goes, ...
LEMMA FirstGone ==
    ASSUME NEW st \in Seq(Byte), NEW t \in Seq(Byte), NEW k \in Nat, Runs(st), Runs(t),
           Behind(t, st, k), st # <<>>, st[1].msg.idx > 0,
           t = <<>> => st[Len(st)].msg.idx = st[1].msg.idx,
           t # <<>> => t[1].msg.idx = st[1].msg.idx + 1,
           NEW q, Lists(q, st), NEW r, Lists(r, t)
    PROVE  q # <<>> /\ Head(q) = st[1].msg /\ r = Tail(q)
  <1>1. /\ st[1].msg.idx \in Nat /\ st[Len(st)].msg.idx \in Nat /\ First(st) = st[1].msg.idx
        /\ st[1].msg.idx <= st[Len(st)].msg.idx /\ 1 \in 1..Len(st)
    BY Ends
  <1>2. q \in Seq(Message) /\ r \in Seq(Message) /\ Len(q) = st[Len(st)].msg.idx + 1 - st[1].msg.idx
    BY <1>1 DEF Lists
  <1>3. q # <<>>
    BY HeadListed
  <1>4. Head(q) = st[1].msg
    BY HeadListed
  <1>5. /\ Tail(q) \in Seq(Message) /\ Len(Tail(q)) = Len(q) - 1
        /\ \A i \in 1..Len(Tail(q)) : Tail(q)[i] = q[i + 1]
    BY <1>2, <1>3, HeadTailProperties
  <1>6. CASE t = <<>>
    <2>1. Len(q) = 1 /\ r = <<>>
      BY <1>1, <1>2, <1>6 DEF Lists
    <2>2. Len(Tail(q)) = 0
      BY <1>5, <2>1
    <2>3. Tail(q) = <<>>
      BY <1>5, <2>2, EmptySeq
    <2> QED
      BY <1>3, <1>4, <2>1, <2>3
  <1>7. CASE t # <<>>
    <2>1. /\ Len(st) \in Nat /\ Len(t) \in Nat /\ Len(t) \in 1..Len(t) /\ First(t) = st[1].msg.idx + 1
          /\ First(t) \in Nat /\ First(st) \in Nat
      BY <1>1, <1>7, Ends
    <2>2. Len(t) + k = Len(st) /\ t[Len(t)] = st[Len(t) + k]
      BY <2>1 DEF Behind
    <2>3. Len(r) = st[Len(st)].msg.idx + 1 - First(t)
      BY <1>7, <2>2 DEF Lists
    <2>4. Len(r) = Len(q) - 1
      BY <1>1, <1>2, <2>1, <2>3, SMTT(30)
    <2>5. ASSUME NEW n \in 1..Len(r) PROVE r[n] = Tail(q)[n]
      <3>1. Len(q) \in Nat /\ n \in Nat
        BY <1>2, <2>4
      <3>2. n + 1 \in 1..Len(q) /\ First(t) + n = First(st) + (n + 1) /\ n \in 1..Len(Tail(q))
        <4>1. n + 1 \in 1..Len(q) /\ n \in 1..Len(Tail(q))
          BY <1>5, <2>4, <3>1
        <4>2. ASSUME NEW a \in Nat PROVE (a + 1) + n = a + (n + 1)
          BY <3>1
        <4> QED
          BY <1>1, <2>1, <4>1, <4>2
      <3>3. Part(t, st, k)
        BY <2>1, <2>2 DEF Behind, Part
      <3>4. r[n] = q[n + 1]
        BY <1>7, <2>1, <3>2, <3>3, PartListed
      <3> QED
        BY <1>5, <3>2, <3>4
    <2>6. r = Tail(q)
      BY <1>2, <1>5, <2>4, <2>5, SeqEqual
    <2> QED
      BY <1>3, <1>4, <2>6
  <1> QED
    BY <1>6, <1>7

\* ... when bytes at the end go, ...
LEMMA EndGone ==
    ASSUME NEW st \in Seq(Byte), NEW t \in Seq(Byte), Runs(st), Runs(t), Len(t) <= Len(st),
           \A i \in 1..Len(t) : t[i] = st[i],
           NEW q, Lists(q, st), NEW r, Lists(r, t)
    PROVE  Len(r) <= Len(q) /\ \A n \in 1..Len(r) : r[n] = q[n]
  <1>0. q \in Seq(Message) /\ r \in Seq(Message)
    BY DEF Lists
  <1>1. CASE t = <<>>
    <2>1. r = <<>>
      BY <1>1 DEF Lists
    <2>2. Len(r) = 0 /\ Len(q) \in Nat
      BY <1>0, <2>1, EmptySeq
    <2> QED
      BY <2>2
  <1>2. CASE t # <<>>
    <2>1. Len(t) \in Nat /\ Len(t) \in 1..Len(t) /\ 1 \in 1..Len(t) /\ First(t) \in Nat
          /\ t[Len(t)].msg.idx \in Nat
      BY <1>2, Ends
    <2>2. st # <<>> /\ Len(st) \in Nat
      BY <2>1, EmptySeq
    <2>3. First(st) = First(t)
      BY <2>1 DEF First
    <2>4. /\ t[Len(t)] = st[Len(t)] /\ Len(t) \in 1..Len(st) /\ Len(st) \in 1..Len(st)
          /\ st[Len(st)].msg.idx \in Nat
      BY <2>1, <2>2, Ends
    <2>5. t[Len(t)].msg.idx <= st[Len(st)].msg.idx
      BY <2>4, Ordered
    <2>6. Len(r) <= Len(q)
      <3>1. Len(r) = t[Len(t)].msg.idx + 1 - First(t) /\ Len(q) = st[Len(st)].msg.idx + 1 - First(t)
        BY <1>2, <2>2, <2>3 DEF Lists
      <3> QED
        BY <2>1, <2>4, <2>5, <3>1
    <2>7. ASSUME NEW n \in 1..Len(r) PROVE r[n] = q[n]
      <3>1. n \in 1..Len(q) /\ First(t) + n = First(st) + n
        BY <1>0, <2>3, <2>6
      <3>2. Part(t, st, 0)
        BY <2>1, <2>2 DEF Part
      <3> QED
        BY <1>2, <2>1, <2>2, <2>3, <3>1, <3>2, PartListed
    <2> QED
      BY <2>6, <2>7
  <1> QED
    BY <1>1, <1>2

\* ... and when a message is written.
LEMMA OneMore ==
    ASSUME NEW st \in Seq(Byte), NEW t \in Seq(Byte), NEW m \in Message, Runs(st), Runs(t),
           m.len \in Nat, m.len >= 1, m.idx \in Nat, m.idx >= 1, Whole(st, m.idx - 1),
           Extends(t, st, m), NEW q, Lists(q, st), NEW r, Lists(r, t)
    PROVE  r = Append(q, m)
  <1>0. q \in Seq(Message) /\ r \in Seq(Message)
    BY DEF Lists
  <1>1. /\ Len(st) \in Nat /\ Len(t) \in Nat /\ Len(t) = Len(st) + m.len /\ Len(t) >= 1
        /\ Len(t) \in 1..Len(t) /\ 1 \in 1..Len(t) /\ t # <<>>
        /\ \A i \in 1..Len(st) : t[i] = st[i]
    BY EmptySeq DEF Extends
  <1>2. t[Len(t)].msg = m
    <2>1. t[Len(t)] = [msg |-> m, off |-> Len(t) - Len(st)]
      BY <1>1 DEF Extends
    <2> QED
      BY <2>1
  <1>3. /\ Append(q, m) \in Seq(Message) /\ Len(Append(q, m)) = Len(q) + 1
        /\ \A i \in 1..Len(q) : Append(q, m)[i] = q[i]
        /\ Append(q, m)[Len(q) + 1] = m
    BY <1>0, AppendProperties
  <1>4. First(t) \in Nat /\ First(t) <= m.idx + 1
    BY <1>1, <1>2, Ends
  <1>5. Len(r) = m.idx + 1 - First(t)
    BY <1>1, <1>2 DEF Lists
  <1>6. Len(q) = m.idx - First(t) /\ First(t) <= m.idx
    <2>1. CASE st = <<>>
      <3>1. Len(st) = 0 /\ Len(q) = 0
        BY <2>1, EmptySeq DEF Lists
      <3>2. t[1] = [msg |-> m, off |-> 1 - Len(st)]
        BY <1>1, <3>1 DEF Extends
      <3>3. First(t) = m.idx
        BY <1>1, <3>2, Ends
      <3> QED
        BY <3>1, <3>3
    <2>2. CASE st # <<>>
      <3>1. /\ st[Len(st)].msg.idx = m.idx - 1 /\ First(st) <= st[Len(st)].msg.idx + 1
            /\ First(st) \in Nat /\ 1 \in 1..Len(st)
        BY <2>2, Ends DEF Whole
      <3>2. t[1] = st[1] /\ First(t) = First(st)
        BY <1>1, <3>1 DEF First
      <3>3. Len(q) = st[Len(st)].msg.idx + 1 - First(st)
        BY <2>2 DEF Lists
      <3> QED
        BY <3>1, <3>2, <3>3
    <2> QED
      BY <2>1, <2>2
  <1>7. Len(r) = Len(q) + 1 /\ Len(q) \in Nat
    <2>1. ASSUME NEW f \in Nat PROVE m.idx + 1 - f = (m.idx - f) + 1
      BY <2>1
    <2> QED
      BY <1>0, <1>4, <1>5, <1>6, <2>1
  <1>8. Len(q) <= Len(r) /\ \A n \in 1..Len(q) : q[n] = r[n]
    <2>1. Len(st) <= Len(t)
      BY <1>1
    <2>2. \A i \in 1..Len(st) : st[i] = t[i]
      BY <1>1
    <2> QED
      BY <2>1, <2>2, EndGone
  <1>9. r[Len(q) + 1] = m
    <2>1. Len(q) + 1 \in 1..Len(r)
      BY <1>7
    <2>2. PICK j \in 1..Len(t) : /\ t[j].msg.idx = First(t) + (Len(q) + 1) - 1
                                 /\ r[Len(q) + 1] = t[j].msg
      BY <1>1, <2>1 DEF Lists
    <2>3. t[j].msg.idx = t[Len(t)].msg.idx
      BY <1>2, <1>4, <1>6, <2>2
    <2>4. t[j].msg = t[Len(t)].msg
      BY <1>1, <2>3, SameNumber
    <2> QED
      BY <1>2, <2>2, <2>4
  <1>10. \A n \in 1..Len(r) : r[n] = Append(q, m)[n]
    <2> TAKE n \in 1..Len(r)
    <2>1. n \in 1..Len(q) \/ n = Len(q) + 1
      BY <1>7
    <2> QED
      BY <1>3, <1>8, <1>9, <2>1
  <1> QED
    BY <1>0, <1>3, <1>7, <1>10, SeqEqual

\* The queue of MessageStream, and the list it is or was a moment ago.
Taken == Handling \/ pc = "exited"
List == Waiting(stream)
Queue == IF Taken THEN Tail(List) ELSE List
CanSend == mSocket # NULL /\ peer = "open"

StreamStep == [Stream!Next]_(Stream!vars)

\* The steps of MessageStream, of these four.
LEMMA Stutters ==
    ASSUME UNCHANGED <<stream, Taken, msg, CanSend>> PROVE StreamStep
  BY DEF StreamStep, Stream!vars, Taken, CanSend

LEMMA Closes ==
    ASSUME ~CanSend', UNCHANGED msg, NEW n \in 0..Len(Queue), Queue' = SubSeq(Queue, 1, n)
    PROVE  StreamStep
  BY DEF StreamStep, Stream!Next, Stream!Close, Queue, List, Taken, CanSend

LEMMA Opens ==
    ASSUME ~CanSend, CanSend', UNCHANGED msg, Queue' = <<>> PROVE StreamStep
  BY DEF StreamStep, Stream!Next, Stream!Open, Queue, List, Taken, CanSend

LEMMA Delivers ==
    ASSUME Queue # <<>>, msg'.head.msg = Head(Queue), Queue' = Tail(Queue), CanSend' = CanSend
    PROVE  StreamStep
  BY DEF StreamStep, Stream!Next, Stream!Deliver, Queue, List, Taken, CanSend

LEMMA Sends ==
    ASSUME CanSend, UNCHANGED msg, CanSend',
           NEW s \in Sessions, NEW i \in 1..MaxMsgs, NEW p \in Packets,
           Queue' = Append(Queue, [sess |-> s, idx |-> i, kind |-> p.kind, len |-> p.len])
    PROVE  StreamStep
  BY DEF StreamStep, Stream!Next, Stream!Send, Queue, List, Taken, CanSend

LEMMA ListIs ==
    ASSUME BufferInv, StreamInv
    PROVE  /\ stream \in Seq(Byte) /\ Runs(stream) /\ Lists(List, stream)
           /\ List \in Seq(Message) /\ (stream = <<>> => List = <<>>)
  <1>1. stream \in Seq(Byte) /\ Runs(stream)
    BY StreamIs DEF StreamInv, Content
  <1>2. Lists(List, stream)
    BY <1>1, WaitingLists DEF List
  <1> QED
    BY <1>1, <1>2 DEF Lists

LEMMA ListWillBe ==
    ASSUME BufferInv', StreamInv'
    PROVE  /\ stream' \in Seq(Byte) /\ Runs(stream') /\ Lists(List', stream')
           /\ List' \in Seq(Message) /\ (stream' = <<>> => List' = <<>>)
  <1>1. stream' \in Seq(Byte)
    <2>1. mInBuffer' \in Seq(Byte) /\ wire' \in Seq(Byte)
      BY DEF BufferInv, StreamType
    <2> QED
      BY <2>1, ConcatProperties DEF stream
  <1>2. Runs(stream')
    BY DEF StreamInv, Content
  <1>3. Lists(List', stream')
    BY <1>1, <1>2, WaitingLists DEF List
  <1> QED
    BY <1>1, <1>2, <1>3 DEF Lists

\* A message that is or was handled is the first of the list.
LEMMA TakenIsFirst ==
    ASSUME BufferInv, StreamInv, Taken
    PROVE  /\ mInBuffer # <<>> /\ stream # <<>> /\ stream[1] = mInBuffer[1]
           /\ stream[1].msg.idx > 0 /\ List # <<>>
  <1>1. mInBuffer # <<>> /\ pc # "hello"
    BY DEF Taken, Handling, StreamInv, Reading
  <1>2. mToSkip = 0 /\ stream # <<>> /\ stream[1] = mInBuffer[1]
    BY <1>1, StreamIs
  <1>3. stream[1].msg.idx > 0
    BY <1>1, <1>2 DEF StreamInv, Beginning, Talking
  <1>4. List # <<>>
    BY <1>2, <1>3, ListIs, HeadListed
  <1> QED
    BY <1>1, <1>2, <1>3, <1>4

LEMMA QueueType == ASSUME BufferInv, StreamInv PROVE Queue \in Seq(Message)
  <1>1. Taken => List # <<>>
    BY TakenIsFirst
  <1> QED
    BY <1>1, ListIs, HeadTailProperties DEF Queue

\* Steps that take no message out, and leave the stream as it is.
LEMMA CalmStutters ==
    ASSUME ConnInv,
           \/ FlushNetwork \/ FlushSend \/ Flush \/ Send \/ Handle \/ HandleRedirect \/ CheckError
           \/ Write \/ WriteFix \/ WriteExpand \/ HandleReply \/ HandleReplyFix
           \/ HandleReplyExpand \/ Disconnect \/ Reconnect \/ GameConnect \/ Delete \/ Dispatch
    PROVE  StreamStep
  <1>1. UNCHANGED <<stream, CanSend, msg>>
    BY DEF FlushNetwork, FlushSend, Flush, Send, Handle, HandleRedirect, CheckError, Write,
       WriteFix, WriteExpand, HandleReply, HandleReplyFix, HandleReplyExpand, WritePacket,
       FixSendBuffer, Expand, Disconnect, Reconnect, GameConnect, Delete, StartDisconnect,
       Dispatch, conn, inbound, server, stream, CanSend
  <1>2. Taken' = Taken
    <2>1. CASE FlushNetwork \/ FlushSend \/ Flush \/ Send
      BY <2>1 DEF FlushNetwork, FlushSend, Flush, Send, Goto, Taken, Handling, ConnInv, CallOrder
    <2>2. CASE Handle \/ HandleRedirect \/ CheckError \/ GameConnect \/ Dispatch
      BY <2>2 DEF Handle, HandleRedirect, CheckError, GameConnect, Dispatch, Goto, Taken, Handling
    <2>3. CASE Write \/ WriteFix \/ WriteExpand
      BY <2>3 DEF Write, WriteFix, WriteExpand, WritePacket, FixSendBuffer, Expand, Goto, Taken,
         Handling
    <2>4. CASE HandleReply \/ HandleReplyFix \/ HandleReplyExpand
      BY <2>4 DEF HandleReply, HandleReplyFix, HandleReplyExpand, WritePacket, FixSendBuffer,
         Expand, Goto, Taken, Handling
    <2>5. CASE Disconnect \/ Reconnect \/ Delete
      BY <2>5 DEF Disconnect, Reconnect, Delete, StartDisconnect, NotInUse, Goto, Taken, Handling
    <2> QED
      BY <2>1, <2>2, <2>3, <2>4, <2>5
  <1> QED
    BY <1>1, <1>2, Stutters

LEMMA WorkerStutters ==
    ASSUME ConnInv, NEW s \in Sessions,
           \/ ResolveFails(s) \/ Resolve(s) \/ OpenFails(s) \/ Publish(s) \/ Alloc(s) \/ Loop(s)
           \/ Wait(s) \/ ReceiveEnd(s) \/ ReceiveFails(s)
    PROVE  StreamStep
  <1>1. UNCHANGED <<inbound, main, server>>
    BY DEF ResolveFails, Resolve, OpenFails, Publish, Alloc, Loop, Wait, ReceiveEnd, ReceiveFails
  <1>2. mSocket' = mSocket
    <2>1. CASE OpenFails(s)
      <3>1. mSocket = NULL
        BY <2>1 DEF OpenFails, Step, ConnInv, SocketOrder
      <3> QED
        BY <2>1, <3>1 DEF OpenFails
    <2> QED
      BY <2>1 DEF ResolveFails, Resolve, Publish, Alloc, Loop, Wait, ReceiveEnd, ReceiveFails, conn
  <1>3. UNCHANGED <<stream, CanSend, msg, Taken>>
    BY <1>1, <1>2 DEF inbound, main, server, stream, CanSend, Taken, Handling
  <1> QED
    BY <1>3, Stutters

LEMMA CloseStep == ASSUME BufferInv, StreamInv, ServerClose PROVE StreamStep
  <1>1. ~CanSend' /\ UNCHANGED <<stream, Taken, msg>>
    BY DEF ServerClose, conn, inbound, main, stream, CanSend, Taken, Handling
  <1>2. Queue' = Queue
    BY <1>1 DEF Queue, List
  <1>3. Queue \in Seq(Message)
    BY QueueType
  <1>4. Len(Queue) \in 0..Len(Queue) /\ Queue' = SubSeq(Queue, 1, Len(Queue))
    BY <1>2, <1>3, SubSeqFull
  <1> QED
    BY <1>1, <1>4, Closes

\* Skipping and receiving while the prefix is not all there.
LEMMA PrefixStep ==
    ASSUME BufferInv, BufferInv', StreamInv, StreamInv', OnlyPrefixGone,
           UNCHANGED <<Taken, CanSend, msg>>
    PROVE  StreamStep
  <1>1. CASE stream' = stream
    BY <1>1, Stutters
  <1>2. CASE stream' # stream
    <2>1. PICK k \in Nat :
            /\ Without(k) /\ stream # <<>> /\ stream[1].msg.idx = 0
            /\ stream' = <<>> => stream[Len(stream)].msg.idx = 0
            /\ stream' # <<>> => stream'[1].msg.idx <= 1
      BY <1>2 DEF OnlyPrefixGone
    <2>2. /\ stream \in Seq(Byte) /\ Runs(stream) /\ Lists(List, stream)
          /\ stream' \in Seq(Byte) /\ Runs(stream') /\ Lists(List', stream')
      BY ListIs, ListWillBe
    <2>3. List' = List
      BY <2>1, <2>2, PrefixGone DEF Without
    <2>4. Queue' = Queue
      BY <2>3 DEF Queue
    <2> QED
      BY <2>4 DEF StreamStep, Stream!vars, Queue, List, Taken, CanSend
  <1> QED
    BY <1>1, <1>2

LEMMA SkipStep ==
    ASSUME BufferInv, BufferInv', StreamInv, StreamInv', SkipMessage PROVE StreamStep
  <1>1. /\ Without(msg.len) /\ msg.len \in Nat /\ stream # <<>> /\ stream[1].msg.idx > 0
        /\ pc = "skip" /\ UNCHANGED <<mSocket, msg>>
        /\ stream' = <<>> => stream[Len(stream)].msg.idx = stream[1].msg.idx
        /\ stream' # <<>> => stream'[1].msg.idx = stream[1].msg.idx + 1
    BY SkipIs
  <1>2. /\ stream \in Seq(Byte) /\ Runs(stream) /\ Lists(List, stream)
        /\ stream' \in Seq(Byte) /\ Runs(stream') /\ Lists(List', stream')
    BY ListIs, ListWillBe
  <1>3. List' = Tail(List)
    BY <1>1, <1>2, FirstGone DEF Without
  <1>4. Taken /\ ~Taken' /\ CanSend' = CanSend
    BY <1>1 DEF SkipMessage, Goto, Taken, Handling, CanSend, server
  <1>5. Queue' = Queue
    BY <1>3, <1>4 DEF Queue
  <1> QED
    BY <1>1, <1>4, <1>5 DEF StreamStep, Stream!vars, Queue, List, Taken, CanSend

LEMMA ReadStep ==
    ASSUME BufferInv, BufferInv', StreamInv, StreamInv', ReadMessage PROVE StreamStep
  <1>1. /\ pc = "read" /\ pc' \in {"exited", "handler"} /\ msg'.head = mInBuffer[1]
        /\ UNCHANGED <<stream, CanSend>>
    BY DEF ReadMessage, Goto, conn, inbound, server, stream, CanSend
  <1>2. ~Taken /\ Taken' /\ List' = List
    BY <1>1 DEF Taken, Handling, List
  <1>3. mInBuffer # <<>> /\ mInBuffer[1] = stream[1] /\ mInBuffer[1].msg.idx > 0
    BY <1>1, HeadOfMessage
  <1>4. stream \in Seq(Byte) /\ Runs(stream) /\ stream # <<>> /\ Lists(List, stream)
    BY <1>3, StreamIs, ListIs
  <1>5. List # <<>> /\ Head(List) = stream[1].msg
    BY <1>3, <1>4, HeadListed
  <1> QED
    BY <1>1, <1>2, <1>3, <1>5, Delivers DEF Queue

LEMMA JoinStep ==
    ASSUME ConnInv, BufferInv, BufferInv', StreamInv, StreamInv', Join PROVE StreamStep
  <1>1. /\ pc = "join" /\ pc' = ret /\ mSocket' = NULL /\ wire' = <<>>
        /\ UNCHANGED <<mInBuffer, msg, ret>> /\ ret \in {"frame", "connect", "skip", "deleted"}
    BY DEF Join, Goto, inbound, StreamInv, Content, ConnInv, CallOrder
  <1>2. ~CanSend' /\ Taken' = Taken
    BY <1>1 DEF CanSend, Taken, Handling
  <1>3. /\ mInBuffer \in Seq(Byte) /\ Len(mInBuffer) <= Len(stream)
        /\ \A i \in 1..Len(mInBuffer) : stream[i] = mInBuffer[i]
    <2>1. /\ mInBuffer \in Seq(Byte) /\ Len(stream) = Len(mInBuffer) + Len(wire)
          /\ Len(mInBuffer) \in Nat /\ Len(wire) \in Nat
          /\ \A i \in 1..Len(mInBuffer) : stream[i] = mInBuffer[i]
      BY StreamIs DEF BufferInv
    <2> QED
      BY <2>1
  <1>4. stream' = mInBuffer
    BY <1>1, <1>3, ConcatEmptySeq DEF stream
  <1>5. /\ stream \in Seq(Byte) /\ Runs(stream) /\ Lists(List, stream) /\ List \in Seq(Message)
        /\ stream' \in Seq(Byte) /\ Runs(stream') /\ Lists(List', stream')
        /\ List' \in Seq(Message)
    BY ListIs, ListWillBe
  <1>6. Len(List') <= Len(List) /\ \A n \in 1..Len(List') : List'[n] = List[n]
    <2>1. Len(stream') <= Len(stream) /\ \A i \in 1..Len(stream') : stream'[i] = stream[i]
      BY <1>3, <1>4
    <2> QED
      BY <1>5, <2>1, EndGone
  <1>7. Taken => List # <<>> /\ List' # <<>>
    <2> HAVE Taken
    <2>1. mInBuffer # <<>> /\ stream[1].msg.idx > 0 /\ stream[1] = mInBuffer[1] /\ List # <<>>
      BY TakenIsFirst
    <2> QED
      BY <1>4, <1>5, <2>1, HeadListed
  <1>8. Len(Queue') <= Len(Queue) /\ \A n \in 1..Len(Queue') : Queue'[n] = Queue[n]
    <2>1. CASE ~Taken
      BY <1>2, <1>6, <2>1 DEF Queue
    <2>2. CASE Taken
      <3>1. List # <<>> /\ List' # <<>>
        BY <1>7, <2>2
      <3>2. /\ Tail(List) \in Seq(Message) /\ Len(Tail(List)) = Len(List) - 1
            /\ \A i \in 1..Len(Tail(List)) : Tail(List)[i] = List[i + 1]
        BY <1>5, <3>1, HeadTailProperties
      <3>4. /\ Len(Tail(List')) = Len(List') - 1
            /\ \A i \in 1..Len(Tail(List')) : Tail(List')[i] = List'[i + 1]
        BY <1>5, <3>1, HeadTailProperties
      <3>5. Queue = Tail(List) /\ Queue' = Tail(List')
        BY <1>2, <2>2 DEF Queue
      <3>6. Len(List) \in Nat /\ Len(List') \in Nat
        BY <1>5
      <3>7. Len(Queue') <= Len(Queue)
        BY <1>6, <3>2, <3>4, <3>5, <3>6
      <3>8. ASSUME NEW n \in 1..Len(Queue') PROVE Queue'[n] = Queue[n]
        <4>1. n \in 1..Len(Tail(List')) /\ n \in 1..Len(Tail(List)) /\ n + 1 \in 1..Len(List')
          BY <1>6, <3>2, <3>4, <3>5, <3>6
        <4> QED
          BY <1>6, <3>2, <3>4, <3>5, <4>1
      <3> QED
        BY <3>7, <3>8
    <2> QED
      BY <2>1, <2>2
  <1>9. Queue \in Seq(Message) /\ Queue' \in Seq(Message)
    BY <1>2, <1>5, <1>7, QueueType, HeadTailProperties DEF Queue
  <1>10. Len(Queue') \in 0..Len(Queue) /\ Queue' = SubSeq(Queue, 1, Len(Queue'))
    <2> DEFINE l == Len(Queue')
    <2>1. l \in Nat /\ Len(Queue) \in Nat /\ l <= Len(Queue)
      BY <1>8, <1>9
    <2>2. \A i \in 1..l : Queue[i] \in Message
      BY <1>9, <2>1
    <2>3. /\ SubSeq(Queue, 1, l) \in Seq(Message)
          /\ Len(SubSeq(Queue, 1, l)) = IF 1 <= l THEN l - 1 + 1 ELSE 0
          /\ \A i \in 1..(l - 1 + 1) : SubSeq(Queue, 1, l)[i] = Queue[1 + i - 1]
      BY <2>1, <2>2, SubSeqProperties
    <2> HIDE DEF l
    <2>4. /\ Len(SubSeq(Queue, 1, l)) = l
          /\ \A i \in 1..l : SubSeq(Queue, 1, l)[i] = Queue[i]
      BY <2>1, <2>3
    <2>5. Len(Queue') = l /\ \A i \in 1..l : Queue'[i] = Queue[i]
      BY <1>8 DEF l
    <2>6. \A i \in 1..l : Queue'[i] = SubSeq(Queue, 1, l)[i]
      BY <2>4, <2>5
    <2>7. Queue' = SubSeq(Queue, 1, l)
      BY <1>9, <2>3, <2>4, <2>5, <2>6, SeqEqual
    <2> QED
      BY <2>1, <2>7 DEF l
  <1> QED
    BY <1>1, <1>2, <1>10, Closes

LEMMA OpenStep ==
    ASSUME ConnInv, BufferInv, BufferInv', StreamInv, StreamInv', NEW s \in Sessions, Open(s)
    PROVE  StreamStep
  <1>1. /\ mSocket = NULL /\ mInBuffer = <<>> /\ pc # "exited" /\ s # NULL
        /\ wire' = Bytes(Prefix(s, pre)) /\ mSocket' = s /\ peer' = "open" /\ pre \in Nat
        /\ UNCHANGED <<mInBuffer, msg, Taken>>
    BY DEF Open, Step, Stopped, inbound, main, Taken, Handling, Sessions, NULL, ConnInv,
       SocketOrder, StreamInv, Beginning, BufferInv, StreamType
  <1>2. ~CanSend /\ CanSend' /\ ~Taken'
    BY <1>1 DEF CanSend, Taken, StreamInv, Reading
  <1>3. Prefix(s, pre) \in Message /\ Prefix(s, pre).idx = 0
    BY <1>1, BufferAssumption DEF Prefix, Message
  <1> DEFINE m == Prefix(s, pre)
  <1>4. /\ Bytes(m) \in Seq(Byte) /\ m.len \in Nat /\ Len(Bytes(m)) = m.len
        /\ \A i \in 1..m.len : Bytes(m)[i] = [msg |-> m, off |-> i]
    BY <1>3, BytesAre
  <1>5. stream' = Bytes(m)
    BY <1>1, <1>4, ConcatEmptySeq DEF stream
  <1>6. m.idx = 0
    BY <1>3
  <1> HIDE DEF m
  <1>7. List' = <<>>
    <2>1. CASE stream' = <<>>
      BY <2>1, ListWillBe
    <2>2. CASE stream' # <<>>
      <3>1. stream' \in Seq(Byte) /\ Runs(stream') /\ Lists(List', stream')
        BY ListWillBe
      <3>2. Len(stream') \in 1..m.len /\ Len(stream') = m.len
        BY <1>4, <1>5, <2>2, EmptySeq
      <3>3. stream'[Len(stream')].msg = m
        <4>1. m.len \in 1..m.len /\ stream'[Len(stream')] = Bytes(m)[m.len]
          BY <1>5, <3>2
        <4>2. Bytes(m)[m.len] = [msg |-> m, off |-> m.len]
          BY <1>4, <4>1
        <4> QED
          BY <4>1, <4>2
      <3> QED
        BY <1>6, <2>2, <3>1, <3>3, NoneListed
    <2> QED
      BY <2>1, <2>2
  <1> QED
    BY <1>1, <1>2, <1>7, Opens DEF Queue

LEMMA ConnectStep ==
    ASSUME ConnInv, BufferInv, BufferInv', StreamInv, StreamInv', Connect PROVE StreamStep
  <1>1. /\ pc = "connect" /\ pc' \in {"frame", "hello"} /\ UNCHANGED <<msg, wire, peer>>
        /\ mSocket = NULL /\ mSocket' = NULL /\ wire = <<>>
    <2>1. pc = "connect" /\ UNCHANGED <<msg, wire, peer>> /\ pc' \in {"frame", "hello"}
      BY DEF Connect, Goto
    <2>2. NotInUse /\ mSocket = NULL
      BY <2>1 DEF ConnInv, DisconnectOrder, Disconnected, NotInUse
    <2>3. mSocket' = mSocket
      BY <2>2 DEF Connect, ConnectWithoutAddress, ConnectWithoutThread, ConnectStarts
    <2> QED
      BY <2>1, <2>2, <2>3 DEF StreamInv, Content
  <1>2. ~Taken /\ ~Taken' /\ ~CanSend /\ ~CanSend'
    BY <1>1 DEF Taken, Handling, CanSend
  <1>3. mInBuffer' = mInBuffer \/ mInBuffer' = <<>>
    BY DEF Connect, ConnectWithoutAddress, ConnectWithoutThread, ConnectStarts, Reset, inbound
  <1>4. CASE mInBuffer' = mInBuffer
    <2>1. UNCHANGED <<stream, Taken, msg, CanSend>>
      BY <1>1, <1>4 DEF stream, Taken, Handling, CanSend
    <2> QED
      BY <2>1, Stutters
  <1>5. CASE mInBuffer' = <<>>
    <2>1. stream' = <<>>
      BY <1>1, <1>5, ConcatEmptySeq, EmptySeq DEF stream
    <2>2. Queue' = <<>>
      BY <1>2, <2>1, ListWillBe DEF Queue
    <2>3. Queue \in Seq(Message) /\ Len(Queue) \in Nat
      BY QueueType
    <2>4. 0 \in 0..Len(Queue) /\ SubSeq(Queue, 1, 0) = <<>>
      BY <2>3, SubSeqEmpty
    <2> QED
      BY <1>1, <1>2, <2>2, <2>4, Closes
  <1> QED
    BY <1>3, <1>4, <1>5

LEMMA SendStep ==
    ASSUME BufferInv, BufferInv', StreamInv, StreamInv', ServerSend PROVE StreamStep
  <1>1. PICK p \in Packets :
          wire' = wire \o Bytes([sess |-> mSocket, idx |-> sent + 1, kind |-> p.kind,
          len |-> p.len])
    BY DEF ServerSend
  <1> DEFINE m == [sess |-> mSocket, idx |-> sent + 1, kind |-> p.kind, len |-> p.len]
  <1>2. /\ sent + 1 \in 1..MaxMsgs /\ mSocket \in Sessions /\ sent \in Nat /\ mSocket # NULL
        /\ CanSend /\ CanSend' /\ UNCHANGED <<mInBuffer, msg, Taken>>
    BY BufferAssumption DEF ServerSend, BufferInv, StreamType, conn, inbound, main, CanSend,
       Taken, Handling
  <1>3. /\ m \in Message /\ m.len \in Nat /\ m.len >= 1 /\ m.idx \in Nat /\ m.idx >= 1
        /\ m.idx - 1 = sent
    BY <1>2, PacketAssumption, BufferAssumption DEF Message, Kinds
  <1>4. wire' = wire \o Bytes(m)
    BY <1>1
  <1> HIDE DEF m
  <1>5. /\ stream \in Seq(Byte) /\ Runs(stream) /\ Lists(List, stream) /\ List \in Seq(Message)
        /\ stream' \in Seq(Byte) /\ Runs(stream') /\ Lists(List', stream')
    BY ListIs, ListWillBe
  <1>6. stream' = stream \o Bytes(m)
    <2>1. mInBuffer \in Seq(Byte) /\ wire \in Seq(Byte) /\ Bytes(m) \in Seq(Byte)
      BY <1>3, BytesAre DEF BufferInv, StreamType
    <2>2. (mInBuffer \o wire) \o Bytes(m) = mInBuffer \o (wire \o Bytes(m))
      BY <2>1, ConcatAssociative
    <2> QED
      BY <1>2, <1>4, <2>2 DEF stream
  <1>7. Extends(stream', stream, m)
    BY <1>3, <1>5, <1>6, Longer
  <1>8. Whole(stream, m.idx - 1)
    BY <1>2, <1>3 DEF StreamInv, Content
  <1>9. List' = Append(List, m)
    BY <1>3, <1>5, <1>7, <1>8, OneMore
  <1>10. Queue' = Append(Queue, m)
    <2>1. Taken => List # <<>>
      BY TakenIsFirst
    <2>2. List # <<>> => Tail(Append(List, m)) = Append(Tail(List), m)
      BY <1>3, <1>5, HeadTailAppend
    <2> QED
      BY <1>2, <1>9, <2>1, <2>2 DEF Queue
  <1> QED
    BY <1>2, <1>10, Sends DEF m

LEMMA ImplementsNext ==
    ConnInv /\ BufferInv /\ BufferInv' /\ StreamInv /\ StreamInv' /\ [Next]_vars
        => [Stream!Next]_(Stream!vars)
  <1> SUFFICES ASSUME ConnInv, BufferInv, BufferInv', StreamInv, StreamInv', [Next]_vars
               PROVE  StreamStep
    BY DEF StreamStep
  <1>1. CASE FlushNetwork \/ FlushSend \/ Flush \/ Send \/ Handle \/ HandleRedirect \/ CheckError
             \/ Write \/ WriteFix \/ WriteExpand \/ HandleReply \/ HandleReplyFix
             \/ HandleReplyExpand \/ Disconnect \/ Reconnect \/ GameConnect \/ Delete \/ Dispatch
    BY <1>1, CalmStutters
  <1>2. CASE ReadMessage
    BY <1>2, ReadStep
  <1>3. CASE SkipMessage
    BY <1>3, SkipStep
  <1>4. CASE Hello
    <2>1. OnlyPrefixGone
      BY <1>4, StreamHello
    <2>2. UNCHANGED <<Taken, CanSend, msg>>
      BY <1>4 DEF Hello, Goto, conn, server, Taken, Handling, CanSend
    <2> QED
      BY <2>1, <2>2, PrefixStep
  <1>5. CASE Join
    BY <1>5, JoinStep
  <1>6. CASE Connect
    BY <1>6, ConnectStep
  <1>7. ASSUME NEW s \in Sessions, Worker(s) PROVE StreamStep
    <2>1. CASE Open(s)
      BY <2>1, OpenStep
    <2>2. CASE Receive(s)
      <3>1. OnlyPrefixGone
        BY <2>2, StreamReceive
      <3>2. UNCHANGED <<Taken, CanSend, msg>>
        BY <2>2 DEF Receive, conn, main, Taken, Handling, CanSend
      <3> QED
        BY <3>1, <3>2, PrefixStep
    <2>3. CASE ResolveFails(s) \/ Resolve(s) \/ OpenFails(s) \/ Publish(s) \/ Alloc(s) \/ Loop(s)
               \/ Wait(s) \/ ReceiveEnd(s) \/ ReceiveFails(s)
      BY <2>3, WorkerStutters
    <2> QED
      BY <1>7, <2>1, <2>2, <2>3 DEF Worker
  <1>8. CASE ServerSend
    BY <1>8, SendStep
  <1>9. CASE ServerClose
    BY <1>9, CloseStep
  <1>10. CASE UNCHANGED vars
    <2>1. UNCHANGED <<stream, Taken, msg, CanSend>>
      BY <1>10 DEF vars, conn, inbound, main, server, stream, Taken, Handling, CanSend
    <2> QED
      BY <2>1, Stutters
  <1> QED
    BY <1>1, <1>2, <1>3, <1>4, <1>5, <1>6, <1>7, <1>8, <1>9, <1>10 DEF Next, Main, Terminated

LEMMA ImplementsInit == Init => Stream!Init
  <1> SUFFICES ASSUME Init PROVE Stream!Init
    OBVIOUS
  <1>1. stream = <<>>
    BY DEF Init, stream
  <1>2. Waiting(stream) = <<>> /\ ~Handling /\ pc # "exited"
    BY <1>1 DEF Init, Waiting, Handling
  <1> QED
    BY <1>2 DEF Init, Stream!Init

\* The network layer implements MessageStream: what the two threads do to the buffer,
\* skip() and a redirect in a handler included, hands each message of the connection
\* over whole, once and in its order.
THEOREM StreamImplemented == Spec => StreamSpec
  <1>1. Init => Stream!Init
    BY ImplementsInit
  <1>2. ConnInv /\ BufferInv /\ BufferInv' /\ StreamInv /\ StreamInv' /\ [Next]_vars
            => [Stream!Next]_(Stream!vars)
    BY ImplementsNext
  <1> QED
    BY <1>1, <1>2, StreamCorrect, PTL DEF Spec, StreamSpec, Stream!Spec

=============================================================================
