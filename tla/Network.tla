------------------------------ MODULE Network ------------------------------
(***************************************************************************)
(* The connection of the client to the current server: Ea::Network with    *)
(* the dispatch loop of its subclasses (EAthena and TmwAthena).            *)
(*                                                                         *)
(* Two threads share one object.  The main thread runs the frame loop of   *)
(* Client::gameExec: it calls flushNetwork once per frame and, between two *)
(* calls, connects, disconnects and writes packets.  The worker thread of  *)
(* a connection resolves, opens, and then appends received bytes to        *)
(* mInBuffer.  mMutexIn protects the buffer's bookkeeping, but neither     *)
(* mState nor the bytes a packet handler is reading.                       *)
(*                                                                         *)
(* A byte is the message it belongs to and its position in it, so that a   *)
(* property can say which message a piece of the buffer is.                *)
(***************************************************************************)
EXTENDS Integers, Sequences

CONSTANTS
    BUFFER_SIZE,   \* size of mInBuffer and of mOutBuffer
    BUFFER_LIMIT,  \* receiving pauses, and sending is forced, above this
    PrefixLen,     \* the "4 useless bytes" of char and map servers
    Table,         \* mPackets: registered packet -> its length, or -1 (variable)
    Packets,       \* what a server may send: records [kind, len]
    Pauses,        \* packets whose handler calls pauseDispatch
    Redirects,     \* packets whose handler calls disconnect (map change)
    Replies,       \* packets whose handler writes a packet
    OutSizes,      \* sizes of the packets the client writes
    MaxSessions,   \* bound: calls of connect
    MaxMsgs        \* bound: messages a server sends on one connection

Sessions == 1..MaxSessions
NULL == 0          \* no socket, no thread: sessions are numbered from 1
VarHeader == 4     \* id and length word of a variable-length packet

ASSUME BufferAssumption ==
    /\ BUFFER_SIZE \in Nat /\ BUFFER_LIMIT \in 0..BUFFER_SIZE
    /\ MaxSessions \in Nat /\ MaxMsgs \in Nat /\ PrefixLen \in Nat
ASSUME OutAssumption ==
    /\ OutSizes \subseteq Nat
    /\ \A n \in OutSizes : BUFFER_LIMIT + 2 * n <= BUFFER_SIZE
ASSUME PacketAssumption ==   \* a server keeps to the lengths it registered
    /\ \A p \in Packets : p.len \in Nat /\ 2 <= p.len /\ p.len <= BUFFER_LIMIT
    /\ \A p \in Packets : p.kind \in DOMAIN Table =>
           IF Table[p.kind] = -1 THEN p.len >= VarHeader ELSE p.len = Table[p.kind]

ASSUME TableAssumption ==
    /\ \A k \in DOMAIN Table : Table[k] \in Nat \cup {-1}
    /\ "prefix" \notin DOMAIN Table

\* mPackets[id].len: 0 for an id nobody registered.
PacketLen(kind) == IF kind \in DOMAIN Table THEN Table[kind] ELSE 0

VARIABLES
    mState, mInBuffer, mToSkip, mOutBuffer, mPauseDispatch, mSocket, mWorkerThread,
    pc, ret,      \* main thread: current step, and the step a call returns to
    msg,          \* the MessageIn being handled: its first byte and its length
    worker,       \* step of the thread of each session
    sockets,      \* sockets opened and not yet closed
    wire,         \* bytes the server wrote and the client has not received
    peer,         \* "open", or "closed" once the server closed its end
    sent,         \* messages the server wrote on this connection
    sess,         \* number of threads started so far: the current session
    pre,          \* length of the prefix this session's server sends
    client        \* what Client::setState was last told, as far as the network
                  \* is concerned: "redirected" is CONNECT_GAME or CHANGE_MAP

conn == <<mState, mSocket, mWorkerThread, sockets>>
inbound == <<mInBuffer, mToSkip>>
main == <<pc, ret, msg, mPauseDispatch>>
server == <<wire, peer, sent, pre>>
vars == <<conn, inbound, mOutBuffer, main, worker, server, sess, client>>

----------------------------------------------------------------------------
(* Bytes and the buffer.                                                   *)

Kinds == {p.kind : p \in Packets}
Message == [sess : Sessions, idx : 0..MaxMsgs, kind : Kinds \cup {"prefix"}, len : Nat]
Byte == [msg : Message, off : Nat]

Prefix(s, n) == [sess |-> s, idx |-> 0, kind |-> "prefix", len |-> n]
Bytes(m) == [i \in 1..m.len |-> [msg |-> m, off |-> i]]

\* Mutant: the bytes skipped are counted off and kept.
DroppedKept(b, n) ==
    IF Len(b) >= n THEN [buf |-> SubSeq(b, n + 1, Len(b)), skip |-> 0]
                   ELSE [buf |-> b, skip |-> n - Len(b)]

\* What skip() and receive() leave of buffer b when n bytes are to go:
\* the rest, and how many bytes that have not arrived yet remain to be skipped.
Dropped(b, n) ==
    IF Len(b) >= n THEN [buf |-> SubSeq(b, n + 1, Len(b)), skip |-> 0]
                   ELSE [buf |-> <<>>, skip |-> n - Len(b)]

skip(n) == LET d == Dropped(mInBuffer, mToSkip + n)
           IN mInBuffer' = d.buf /\ mToSkip' = d.skip

\* Mutant: a packet has to be followed by another byte.
messageReadyLate ==
    /\ Len(mInBuffer) >= 2
    /\ LET fixed == PacketLen(mInBuffer[1].msg.kind)
       IN Len(mInBuffer) > IF fixed = -1 THEN mInBuffer[1].msg.len ELSE fixed

\* A variable-length packet is only looked at once a fifth byte is there.
messageReady ==
    /\ Len(mInBuffer) >= 2
    /\ LET fixed == PacketLen(mInBuffer[1].msg.kind)
       IN IF fixed = -1
          THEN Len(mInBuffer) > VarHeader /\ Len(mInBuffer) >= mInBuffer[1].msg.len
          ELSE Len(mInBuffer) >= fixed

\* MessageOut: n bytes written for the current session.
Written(b, n) == b \o [i \in 1..n |-> sess]

NoByte == [msg |-> [sess |-> 0, idx |-> 0, kind |-> "none", len |-> 0], off |-> 0]

Init ==
    /\ mState = "IDLE" /\ mSocket = NULL /\ mWorkerThread = NULL /\ sockets = {}
    /\ mInBuffer = <<>> /\ mToSkip = 0 /\ mOutBuffer = <<>>
    /\ pc = "frame" /\ ret = "frame" /\ mPauseDispatch = FALSE
    /\ msg = [head |-> NoByte, len |-> 0]
    /\ worker = [s \in Sessions |-> "none"]
    /\ wire = <<>> /\ peer = "closed" /\ sent = 0 /\ sess = 0 /\ pre = 0
    /\ client = "other"

----------------------------------------------------------------------------
(* Main thread: GeneralHandler::flushNetwork = flush, dispatchMessages and *)
(* the look at NET_ERROR.                                                  *)

Goto(from, to) == pc = from /\ pc' = to

\* dispatchMessages resets mPauseDispatch; nothing reads it during the flush.
FlushNetwork ==
    /\ Goto("frame", "flush") /\ ret' = "dispatch" /\ mPauseDispatch' = FALSE
    /\ UNCHANGED <<conn, inbound, mOutBuffer, msg, worker, server, sess, client>>

FlushSend ==
    /\ Goto("frame", "flush") /\ ret' = "frame"
    /\ UNCHANGED <<conn, inbound, mOutBuffer, msg, mPauseDispatch, worker, server,
                   sess, client>>

\* flush(): the state is read here, the buffer is sent in the next step.
Flush ==
    /\ Goto("flush", IF mOutBuffer = <<>> \/ mState # "CONNECTED" THEN ret ELSE "send")
    /\ UNCHANGED <<conn, inbound, mOutBuffer, ret, msg, mPauseDispatch, worker, server,
                   sess, client>>

\* TcpNet::send, which may fail; mOutSize is reset either way.
Send ==
    /\ Goto("send", ret)
    /\ mState' \in {mState, "NET_ERROR"}
    /\ mOutBuffer' = <<>>
    /\ UNCHANGED <<mSocket, mWorkerThread, sockets, inbound, ret, msg, mPauseDispatch,
                   worker, server, sess, client>>

\* while (messageReady())
Dispatch ==
    /\ Goto("dispatch", IF messageReady THEN "read" ELSE "check")
    /\ UNCHANGED <<conn, inbound, mOutBuffer, ret, msg, mPauseDispatch, worker, server,
                   sess, client>>

\* The header is read again under the lock; a zero length ends the program.
ReadMessage ==
    LET head == mInBuffer[1]
        fixed == PacketLen(head.msg.kind)
        len == IF fixed = -1 THEN head.msg.len ELSE fixed
    IN /\ Goto("read", IF len = 0 THEN "exited" ELSE "handler")
       /\ msg' = [head |-> head, len |-> len]
       /\ UNCHANGED <<conn, inbound, mOutBuffer, ret, mPauseDispatch, worker, server,
                      sess, client>>

\* A handler that only reads its message; the map-loaded one pauses dispatching.
Handle ==
    /\ Goto("handler", "skip")
    /\ msg.head.msg.kind \notin Redirects
    /\ mPauseDispatch' = (mPauseDispatch \/ msg.head.msg.kind \in Pauses)
    /\ UNCHANGED <<conn, inbound, mOutBuffer, ret, msg, worker, server, sess, client>>

\* processCharMapInfo, processChangeMapServer: disconnect from inside the
\* handler, then setState, which only the main thread reads.
HandleRedirect ==
    /\ Goto("handler", "join") /\ ret' = "skip"
    /\ msg.head.msg.kind \in Redirects
    /\ mState' = "IDLE"
    /\ client' = "redirected"
    /\ UNCHANGED <<mSocket, mWorkerThread, sockets, inbound, mOutBuffer, msg,
                   mPauseDispatch, worker, server, sess>>

\* Mutant: a pause leaves the message in the buffer.
SkipMessageUnlessPaused ==
    /\ Goto("skip", IF mPauseDispatch THEN "check" ELSE "dispatch")
    /\ IF mPauseDispatch THEN UNCHANGED inbound ELSE skip(msg.len)
    /\ UNCHANGED <<conn, mOutBuffer, ret, msg, mPauseDispatch, worker, server, sess,
                   client>>

\* skip(len), then the next message unless dispatching was paused.
SkipMessage ==
    /\ Goto("skip", IF mPauseDispatch THEN "check" ELSE "dispatch")
    /\ skip(msg.len)
    /\ UNCHANGED <<conn, mOutBuffer, ret, msg, mPauseDispatch, worker, server, sess,
                   client>>

\* Mutant: no error while a map server is expected.
CheckErrorUnlessRedirected ==
    /\ Goto("check", "frame")
    /\ client' = IF mState = "NET_ERROR" /\ client # "redirected" THEN "error" ELSE client
    /\ UNCHANGED <<conn, inbound, mOutBuffer, ret, msg, mPauseDispatch, worker, server,
                   sess>>

\* A network error is the user's business as soon as the frame's messages are handled.
CheckError ==
    /\ Goto("check", "frame")
    /\ client' = IF mState = "NET_ERROR" THEN "error" ELSE client
    /\ UNCHANGED <<conn, inbound, mOutBuffer, ret, msg, mPauseDispatch, worker, server,
                   sess>>

----------------------------------------------------------------------------
(* Main thread: writing packets.  MessageOut's constructor calls           *)
(* fixSendBuffer before the packet's bytes are added by expand().          *)

\* Mutant: without a connection nothing is dropped.
KeptAlways == mOutBuffer

\* What a packet is appended to, unless a flush comes first.
Kept == IF Len(mOutBuffer) > BUFFER_LIMIT THEN <<>> ELSE mOutBuffer

\* fixSendBuffer finds the buffer small enough, or drops it when there is no
\* connection; then the packet is written.
WritePacket(from, to) ==
    /\ Goto(from, to)
    /\ Len(mOutBuffer) <= BUFFER_LIMIT \/ mState # "CONNECTED"
    /\ \E n \in OutSizes : mOutBuffer' = Written(Kept, n)
    /\ UNCHANGED <<conn, inbound, ret, msg, mPauseDispatch, worker, server, sess, client>>

\* fixSendBuffer calls flush(), which looks at mState a second time.
FixSendBuffer(from, to) ==
    /\ Goto(from, "flush") /\ ret' = to
    /\ Len(mOutBuffer) > BUFFER_LIMIT /\ mState = "CONNECTED"
    /\ UNCHANGED <<conn, inbound, mOutBuffer, msg, mPauseDispatch, worker, server, sess,
                   client>>

\* The packet that was waiting for that flush is written whatever it did.
Expand(from, to) ==
    /\ Goto(from, to)
    /\ \E n \in OutSizes : mOutBuffer' = Written(mOutBuffer, n)
    /\ UNCHANGED <<conn, inbound, ret, msg, mPauseDispatch, worker, server, sess, client>>

Write == WritePacket("frame", "frame")
WriteFix == FixSendBuffer("frame", "expand")
WriteExpand == Expand("expand", "frame")

\* The same from a handler that answers its packet.
MayReply == pc = "handler" => msg.head.msg.kind \in Replies
HandleReply == MayReply /\ WritePacket("handler", "skip")
HandleReplyFix == MayReply /\ FixSendBuffer("handler", "replyExpand")
HandleReplyExpand == Expand("replyExpand", "skip")

----------------------------------------------------------------------------
(* Main thread: disconnect and connect.                                    *)

\* disconnect() announces itself through mState alone, then waits.
StartDisconnect(to, next) ==
    /\ Goto("frame", "join") /\ ret' = to
    /\ mState' = "IDLE"
    /\ client' = next
    /\ UNCHANGED <<mSocket, mWorkerThread, sockets, inbound, mOutBuffer, msg,
                   mPauseDispatch, worker, server, sess>>

\* The user leaves a server.
Disconnect == StartDisconnect("frame", "other")

\* Net::connectToServer (reload, then LoginHandler::connect) and
\* CharServerHandler::connect: disconnect, then connect.
Reconnect == StartDisconnect("connect", "other")

\* Mutant: disconnect() does not wait.
NotAwaited == UNCHANGED worker

\* Mutant: disconnect() waits for the state, not for the thread.
StateAwaited == mState \in {"IDLE", "NET_ERROR"} /\ UNCHANGED worker

\* WaitThread returns once the worker did; without a worker it returns at once.  With SDL 1.2
\* it also asks whether the thread has an id.  One that SDL_CreateThread has returned has:
\* SDL waits there until the thread runs and has noted its id, and the id stays when the
\* thread ends; with SDL 2 nothing is asked (sdl2helper.cpp, WaitThread).  So a thread that
\* is there is waited for.
WaitThread ==
    /\ \A s \in Sessions : s = mWorkerThread => worker[s] = "done"
    /\ worker' = [s \in Sessions |-> IF s = mWorkerThread THEN "joined" ELSE worker[s]]

\* Then the socket is closed, and with it goes what the client had not received.
Join ==
    /\ Goto("join", ret)
    /\ WaitThread
    /\ mWorkerThread' = NULL
    /\ sockets' = sockets \ {mSocket}
    /\ mSocket' = NULL
    /\ wire' = IF mSocket = NULL THEN wire ELSE <<>>
    /\ peer' = IF mSocket = NULL THEN peer ELSE "closed"
    /\ UNCHANGED <<mState, inbound, mOutBuffer, ret, msg, mPauseDispatch, sent, pre, sess,
                   client>>

\* GameHandler::connect, on entry of CONNECT_GAME or CHANGE_MAP: connect only.
GameConnect ==
    /\ Goto("frame", "connect")
    /\ client = "redirected"
    /\ client' = "other"
    /\ UNCHANGED <<conn, inbound, mOutBuffer, ret, msg, mPauseDispatch, worker, server,
                   sess>>

\* connect() without an address, which only a login server's can lack: the others'
\* are made of an IP address.  Nothing is reset.
ConnectWithoutAddress ==
    /\ pre' = 0
    /\ mState' = "NET_ERROR"
    /\ UNCHANGED <<mSocket, mWorkerThread, sockets, inbound, mOutBuffer, worker, sess>>

\* Mutant: what the last connection still had to skip is skipped on the next.
ResetAllButSkip == mInBuffer' = <<>> /\ mOutBuffer' = <<>> /\ UNCHANGED mToSkip

\* Mutant: packets written for the last connection stay.
ResetAllButOut == mInBuffer' = <<>> /\ mToSkip' = 0 /\ UNCHANGED mOutBuffer

Reset == mInBuffer' = <<>> /\ mToSkip' = 0 /\ mOutBuffer' = <<>>

\* createThread fails.
ConnectWithoutThread ==
    /\ mState' = "NET_ERROR"
    /\ Reset
    /\ UNCHANGED <<mSocket, mWorkerThread, sockets, worker, sess>>

ConnectStarts ==
    /\ sess < MaxSessions
    /\ mState' = "CONNECTING"
    /\ Reset
    /\ sess' = sess + 1
    /\ mWorkerThread' = sess + 1
    /\ worker' = [worker EXCEPT ![sess + 1] = "resolve"]
    /\ UNCHANGED <<mSocket, sockets>>

\* Mutant: only an established connection is in use.
NotConnected == mState # "CONNECTED"

\* What connect() requires, and what the destructor takes for disconnected.
NotInUse == mState \in {"IDLE", "NET_ERROR"}

\* The callers ignore what connect() returns.  pre says whether this server is
\* one that sends the prefix, which its caller then skips.
Connect ==
    /\ \E n \in {0, PrefixLen} :
          pre' = n /\ Goto("connect", IF n = 0 THEN "frame" ELSE "hello")
    /\ IF NotInUse
       THEN ConnectWithoutAddress \/ ConnectWithoutThread \/ ConnectStarts
       ELSE UNCHANGED <<conn, inbound, mOutBuffer, worker, sess>>
    /\ UNCHANGED <<ret, msg, mPauseDispatch, wire, peer, sent, client>>

\* Mutant: the prefix is taken for a message.
HelloWithoutSkip ==
    /\ Goto("hello", "frame")
    /\ \E n \in OutSizes : mOutBuffer' = Written(mOutBuffer, n)
    /\ UNCHANGED <<conn, inbound, ret, msg, mPauseDispatch, worker, server, sess, client>>

\* The login packet of a char or map server, then skip(4).
Hello ==
    /\ Goto("hello", "frame")
    /\ skip(PrefixLen)
    /\ \E n \in OutSizes : mOutBuffer' = Written(mOutBuffer, n)
    /\ UNCHANGED <<conn, ret, msg, mPauseDispatch, worker, server, sess, client>>

\* Network's destructor: a connection in use is disconnected first.  The object is
\* gone afterwards, and with it the locks and buffers a worker would use.
Delete ==
    /\ Goto("frame", IF NotInUse THEN "deleted" ELSE "join")
    /\ ret' = "deleted"
    /\ mState' = IF mState = "NET_ERROR" THEN mState ELSE "IDLE"
    /\ UNCHANGED <<mSocket, mWorkerThread, sockets, inbound, mOutBuffer, msg,
                   mPauseDispatch, worker, server, sess, client>>

Stopped == pc \in {"exited", "deleted"}

----------------------------------------------------------------------------
(* Worker thread of session s: realConnect, then receive.                  *)

Step(s, from, to) ==
    /\ ~Stopped
    /\ worker[s] = from /\ worker' = [worker EXCEPT ![s] = to]

\* resolveHost fails for both names.
ResolveFails(s) ==
    /\ Step(s, "resolve", "done")
    /\ mState' = "NET_ERROR"
    /\ UNCHANGED <<mSocket, mWorkerThread, sockets, inbound, mOutBuffer, main, server,
                   sess, client>>

Resolve(s) ==
    /\ Step(s, "resolve", "open")
    /\ mState' = "CONNECTING"
    /\ UNCHANGED <<mSocket, mWorkerThread, sockets, inbound, mOutBuffer, main, server,
                   sess, client>>

OpenFails(s) ==
    /\ Step(s, "open", "done")
    /\ mSocket' = NULL
    /\ mState' = "NET_ERROR"
    /\ UNCHANGED <<mWorkerThread, sockets, inbound, mOutBuffer, main, server, sess, client>>

\* TcpNet::open: from here on the server can write.
Open(s) ==
    /\ Step(s, "open", "publish")
    /\ mSocket' = s /\ sockets' = sockets \cup {s}
    /\ wire' = Bytes(Prefix(s, pre)) /\ peer' = "open" /\ sent' = 0
    /\ UNCHANGED <<mState, mWorkerThread, inbound, mOutBuffer, main, pre, sess, client>>

Publish(s) ==
    /\ Step(s, "publish", "alloc")
    /\ mState' = "CONNECTED"
    /\ UNCHANGED <<mSocket, mWorkerThread, sockets, inbound, mOutBuffer, main, server,
                   sess, client>>

\* allocSocketSet fails and the thread ends; addSocket fails and it goes on.
Alloc(s) ==
    /\ \/ Step(s, "alloc", "loop") /\ mState' \in {mState, "NET_ERROR"}
       \/ Step(s, "alloc", "done") /\ mState' = "NET_ERROR"
    /\ UNCHANGED <<mSocket, mWorkerThread, sockets, inbound, mOutBuffer, main, server,
                   sess, client>>

\* Mutant: the loop ends on errors alone.
LoopUntilError(s) ==
    /\ Step(s, "loop", IF mState # "NET_ERROR" THEN "select" ELSE "done")
    /\ UNCHANGED <<conn, inbound, mOutBuffer, main, server, sess, client>>

\* while (mState == CONNECTED); the state is not read again before the receive.
Loop(s) ==
    /\ Step(s, "loop", IF mState = "CONNECTED" THEN "select" ELSE "done")
    /\ UNCHANGED <<conn, inbound, mOutBuffer, main, server, sess, client>>

\* checkSockets times out or fails, or the buffer is too full to receive.
Wait(s) ==
    /\ Step(s, "select", "loop")
    /\ UNCHANGED <<conn, inbound, mOutBuffer, main, server, sess, client>>

\* Mutant: as much is received as an empty buffer could take.
RoomWhenEmpty == BUFFER_SIZE

Room == BUFFER_SIZE - Len(mInBuffer)

\* Some of the bytes sent so far, and at once what skip() asked for of them.
Receive(s) ==
    /\ Step(s, "select", "loop")
    /\ Len(mInBuffer) <= BUFFER_LIMIT
    /\ \E n \in 1..Len(wire) :
          /\ n <= Room
          /\ wire' = SubSeq(wire, n + 1, Len(wire))
          /\ LET d == Dropped(mInBuffer \o SubSeq(wire, 1, n), mToSkip)
             IN mInBuffer' = d.buf /\ mToSkip' = d.skip
    /\ UNCHANGED <<conn, mOutBuffer, main, peer, sent, pre, sess, client>>

\* recv() returns 0: the server closed, and everything it sent was received.
ReceiveEnd(s) ==
    /\ Step(s, "select", "loop")
    /\ Len(mInBuffer) <= BUFFER_LIMIT
    /\ wire = <<>> /\ peer = "closed"
    /\ mState' = "IDLE"
    /\ UNCHANGED <<mSocket, mWorkerThread, sockets, inbound, mOutBuffer, main, server,
                   sess, client>>

\* recv() fails.
ReceiveFails(s) ==
    /\ Step(s, "select", "loop")
    /\ Len(mInBuffer) <= BUFFER_LIMIT
    /\ mState' = "NET_ERROR"
    /\ UNCHANGED <<mSocket, mWorkerThread, sockets, inbound, mOutBuffer, main, server,
                   sess, client>>

----------------------------------------------------------------------------
(* The server at the other end.                                            *)

ServerSend ==
    /\ ~Stopped /\ mSocket # NULL /\ peer = "open" /\ sent < MaxMsgs
    /\ sent' = sent + 1
    /\ \E p \in Packets :
          wire' = wire \o Bytes([sess |-> mSocket, idx |-> sent + 1, kind |-> p.kind,
                                 len |-> p.len])
    /\ UNCHANGED <<conn, inbound, mOutBuffer, main, worker, peer, pre, sess, client>>

ServerClose ==
    /\ ~Stopped /\ mSocket # NULL /\ peer = "open"
    /\ peer' = "closed"
    /\ UNCHANGED <<conn, inbound, mOutBuffer, main, worker, wire, sent, pre, sess, client>>

\* The program ended, or this Network object did.
Terminated == Stopped /\ UNCHANGED vars

----------------------------------------------------------------------------
Main ==
    \/ FlushNetwork \/ FlushSend \/ Flush \/ Send
    \/ Dispatch \/ ReadMessage \/ Handle \/ HandleRedirect \/ SkipMessage \/ CheckError
    \/ Write \/ WriteFix \/ WriteExpand
    \/ HandleReply \/ HandleReplyFix \/ HandleReplyExpand
    \/ Disconnect \/ Reconnect \/ Join \/ GameConnect \/ Connect \/ Hello \/ Delete

Worker(s) ==
    \/ ResolveFails(s) \/ Resolve(s) \/ OpenFails(s) \/ Open(s) \/ Publish(s)
    \/ Alloc(s) \/ Loop(s) \/ Wait(s) \/ Receive(s) \/ ReceiveEnd(s) \/ ReceiveFails(s)

Next ==
    \/ Main
    \/ \E s \in Sessions : Worker(s)
    \/ ServerSend \/ ServerClose
    \/ Terminated

Spec == Init /\ [][Next]_vars

\* Steps of a call that has begun: the main thread always runs on.
Calling ==
    \/ Flush \/ Send
    \/ Dispatch \/ ReadMessage \/ Handle \/ HandleRedirect \/ SkipMessage \/ CheckError
    \/ WriteExpand \/ HandleReplyExpand \/ Join \/ Connect \/ Hello

\* gameExec calls flushNetwork in every frame, whatever else the frame does.  A
\* thread that can run is scheduled; checkSockets does not fail for ever on a
\* socket that has something to receive.
Fairness ==
    /\ WF_vars(Calling) /\ SF_vars(FlushNetwork)
    /\ \A s \in Sessions :
          /\ WF_vars(Worker(s))
          /\ SF_vars(Receive(s)) /\ SF_vars(ReceiveEnd(s))

FairSpec == Spec /\ Fairness

----------------------------------------------------------------------------
(* Properties.                                                             *)

Labels == {"frame", "flush", "send", "dispatch", "read", "handler", "skip", "check", "join",
           "connect", "hello", "expand", "replyExpand", "exited", "deleted"}
WorkerLabels == {"none", "resolve", "open", "publish", "alloc", "loop", "select", "done",
                 "joined"}

\* The shape of the state; both buffers stay within their arrays.
TypeOK ==
    /\ mState \in {"IDLE", "CONNECTING", "CONNECTED", "NET_ERROR"}
    /\ mInBuffer \in Seq(Byte) /\ Len(mInBuffer) <= BUFFER_SIZE
    /\ mToSkip \in Nat /\ mPauseDispatch \in BOOLEAN
    /\ mOutBuffer \in Seq(0..MaxSessions)
    /\ mSocket \in Sessions \cup {NULL} /\ mWorkerThread \in Sessions \cup {NULL}
    /\ sockets \subseteq Sessions
    /\ pc \in Labels /\ ret \in Labels
    /\ msg \in [head : Byte \cup {NoByte}, len : Nat]
    /\ worker \in [Sessions -> WorkerLabels]
    /\ wire \in Seq(Byte) /\ peer \in {"open", "closed"}
    /\ sent \in 0..MaxMsgs /\ sess \in 0..MaxSessions /\ pre \in Nat
    /\ client \in {"other", "redirected", "error"}

\* Bytes wait to be skipped only while there is nothing to skip: skip() and
\* receive(), in two threads, never leave a byte in the buffer that is doomed.
SkipOnlyWhenEmpty == mToSkip = 0 \/ mInBuffer = <<>>

\* The main thread is inside a packet handler, or about to skip its packet.
Handling ==
    \/ pc \in {"handler", "skip", "replyExpand"}
    \/ pc \in {"flush", "send"} /\ ret = "replyExpand"
    \/ pc = "join" /\ ret = "skip"

\* A handler reads mInBuffer without the lock, even while it disconnects and while
\* the worker receives: what it reads is exactly one message, from its first to
\* its last byte, of the connection that was opened last.
MessageIntact ==
    Handling => /\ msg.head.off = 1 /\ msg.head.msg.idx > 0
                /\ msg.head.msg.sess = sess
                /\ SubSeq(mInBuffer, 1, msg.len) = Bytes(msg.head.msg)

\* "Wrong packet received. Exiting." (dispatchMessages) means that the server sent
\* a packet nobody registered, never that the client lost its place in the stream.
ExitOnlyOnUnknown ==
    pc = "exited" => msg.head.off = 1 /\ msg.head.msg.kind \in Kinds \ DOMAIN Table

\* What was received and what was not, and which message in it has number n.
stream == mInBuffer \o wire
Numbered(st, n) == st[CHOOSE i \in DOMAIN st : st[i].msg.idx = n].msg

\* The messages from that of the first byte to that of the last; the prefix is none.
First(st) == IF st[1].msg.idx = 0 THEN 1 ELSE st[1].msg.idx
Waiting(st) ==
    IF st = <<>> THEN <<>>
    ELSE [n \in 1..(st[Len(st)].msg.idx + 1 - First(st)) |-> Numbered(st, First(st) + n - 1)]

Stream == INSTANCE MessageStream WITH
    Messages <- {[sess |-> s, idx |-> i, kind |-> p.kind, len |-> p.len] :
                    s \in Sessions, i \in 1..MaxMsgs, p \in Packets},
    NoMessage <- NoByte.msg,
    queue <- IF Handling \/ pc = "exited" THEN Tail(Waiting(stream)) ELSE Waiting(stream),
    last <- msg.head.msg,
    open <- mSocket # NULL /\ peer = "open"

\* The network layer implements MessageStream: the handlers see the messages of the
\* current connection in the order sent, none twice and none left out.
StreamSpec == Stream!Spec

Live(s) == worker[s] \notin {"none", "joined"}

\* One worker thread and one socket at a time, those the object points to: no
\* connect() ever forgets a thread or a socket of an earlier session.
OneConnection ==
    /\ \A s \in Sessions : Live(s) => s = mWorkerThread /\ s = sess
    /\ sockets = IF mSocket = NULL THEN {} ELSE {mSocket}

\* Whoever is about to connect finds the object disconnected, although a worker
\* may set mState after disconnect() did: connect() never refuses, and the map
\* server that a handler announced is reached from a clean object too.
DisconnectedBeforeConnect ==
    pc = "connect" \/ (client = "redirected" /\ pc # "join") =>
        /\ mState \in {"IDLE", "NET_ERROR"}
        /\ mSocket = NULL
        /\ \A s \in Sessions : ~Live(s)

\* The unbounded expand() stays inside mOutBuffer.  When the worker drops the
\* connection between the two looks at mState, fixSendBuffer neither sends nor
\* drops; one more packet fits, and the next one finds the connection gone.
OutBufferFits == Len(mOutBuffer) <= BUFFER_SIZE

\* A packet is sent on the connection it was written for, or not at all.
SentWhereWritten ==
    pc = "send" => \A i \in 1..Len(mOutBuffer) : mOutBuffer[i] = mSocket

\* A destroyed object leaves no thread behind that is still connecting: only one
\* that has seen, or will see at its next look, that the connection ended.
DeletedAfterConnecting ==
    pc = "deleted" => \A s \in Sessions : worker[s] \notin {"resolve", "open", "publish"}

----------------------------------------------------------------------------
(* Liveness.                                                               *)

\* Message i of session s has an undelivered first byte in b.
Has(b, s, i) == \E k \in 1..Len(b) : b[k].off = 1 /\ b[k].msg.sess = s /\ b[k].msg.idx = i

\* A variable-length packet without content, with nothing behind it.
Withheld(s, i) ==
    \E k \in 1..Len(mInBuffer) :
        /\ mInBuffer[k].msg.sess = s /\ mInBuffer[k].msg.idx = i
        /\ PacketLen(mInBuffer[k].msg.kind) = -1 /\ mInBuffer[k].msg.len = VarHeader

Handled(s, i) == msg.head.msg.sess = s /\ msg.head.msg.idx = i

\* Whatever the server sends reaches its handler, unless the connection ends or the
\* packet is one that waits for a fifth byte: neither the pause of receiving above
\* BUFFER_LIMIT nor that of dispatching after a map change lasts.
Delivered ==
    \A s \in Sessions, i \in 1..MaxMsgs :
        Has(mInBuffer \o wire, s, i) ~>
            \/ Handled(s, i) \/ Withheld(s, i)
            \/ mState \in {"IDLE", "NET_ERROR"} \/ pc = "join" \/ Stopped

\* The only disconnect() that never returns is one behind whose back the worker
\* reached the server: it set mState to CONNECTED after disconnect() had set it to
\* IDLE, and goes on receiving from a server that never closes the connection, or
\* pausing on a full buffer that the waiting main thread does not empty.
DisconnectReturns ==
    <>[](pc = "join") =>
        <>[](mState = "CONNECTED" /\ (peer = "open" \/ Len(mInBuffer) > BUFFER_LIMIT))

\* A network error reaches the user, in whichever thread it happened, unless the
\* end of the connection, a disconnect or a new connection replaces it first.
ErrorReported ==
    mState = "NET_ERROR" ~> client = "error" \/ mState # "NET_ERROR" \/ Stopped

=============================================================================
