--------------------------- MODULE Network_proofs ---------------------------
(***************************************************************************)
(* What holds of Network for every size of the buffers, every table of     *)
(* packets and any number of sessions and messages.                        *)
(***************************************************************************)
EXTENDS Network, TLAPS, SequenceTheorems

----------------------------------------------------------------------------
(* Threads and sockets.                                                    *)

Connecting(s) == worker[s] \in {"resolve", "open", "publish"}
Receiving(s) == worker[s] \in {"alloc", "loop", "select"}

\* The part of TypeOK that does not speak of bytes.
ConnType ==
    /\ mState \in {"IDLE", "CONNECTING", "CONNECTED", "NET_ERROR"}
    /\ mSocket \in Sessions \cup {NULL} /\ mWorkerThread \in Sessions \cup {NULL}
    /\ sockets \subseteq Sessions
    /\ pc \in Labels /\ ret \in Labels
    /\ worker \in [Sessions -> WorkerLabels]
    /\ sess \in 0..MaxSessions
    /\ client \in {"other", "redirected", "error"}

\* Threads are created in order, and every thread but the last was joined.
ThreadOrder ==
    /\ \A s \in Sessions : s > sess => worker[s] = "none"
    /\ \A s \in Sessions : Live(s) <=> s = mWorkerThread
    /\ mWorkerThread \in {NULL, sess}

\* The socket is the one the last thread opened, and no other is open.
SocketOrder ==
    /\ sockets = IF mSocket = NULL THEN {} ELSE {mSocket}
    /\ mSocket # NULL => mSocket = mWorkerThread
    /\ \A s \in Sessions : worker[s] \in {"resolve", "open"} => mSocket = NULL
    /\ \A s \in Sessions : worker[s] \in {"publish", "alloc", "loop", "select"} => mSocket = s

\* mState is only as far as the thread that set it: CONNECTED needs a thread that
\* receives, CONNECTING one that connects.
StateFollowsThread ==
    /\ mState = "CONNECTED" => \E s \in Sessions : Receiving(s) /\ mSocket = s
    /\ mState = "CONNECTING" => \E s \in Sessions : Connecting(s)

\* Between disconnect() and connect() nothing is left to disconnect.
Disconnected ==
    /\ mState \in {"IDLE", "NET_ERROR"} /\ mSocket = NULL
    /\ \A s \in Sessions : ~Live(s)

DisconnectOrder ==
    /\ pc = "connect" \/ (pc = "join" /\ ret = "connect") => client # "redirected"
    /\ pc = "connect" \/ (client = "redirected" /\ pc # "join") => Disconnected

\* Where a call returns to.
CallOrder ==
    /\ pc \in {"flush", "send"} => ret \in {"frame", "dispatch", "expand", "replyExpand"}
    /\ pc = "join" => ret \in {"frame", "connect", "skip", "deleted"}

ConnInv ==
    /\ ConnType /\ CallOrder
    /\ ThreadOrder /\ SocketOrder /\ StateFollowsThread /\ DisconnectOrder

LEMMA ConnInit == Init => ConnInv
  BY BufferAssumption DEF Init, ConnInv, ConnType, ThreadOrder, SocketOrder,
     StateFollowsThread, DisconnectOrder, CallOrder, Live, Labels, WorkerLabels, Sessions, NULL

\* The main thread touches neither thread nor socket in most of its steps.
MainQuiet ==
    \/ FlushNetwork \/ FlushSend \/ Flush \/ Dispatch \/ ReadMessage \/ Handle
    \/ SkipMessage \/ Write \/ WriteFix \/ WriteExpand \/ HandleReply
    \/ HandleReplyFix \/ HandleReplyExpand \/ Hello

LEMMA ConnMainQuiet == ConnInv /\ MainQuiet => ConnInv'
  <1> SUFFICES ASSUME ConnInv, MainQuiet PROVE ConnInv'
    OBVIOUS
  <1>1. UNCHANGED <<mState, mSocket, mWorkerThread, sockets, worker, sess, client>>
    BY DEF MainQuiet, FlushNetwork, FlushSend, Flush, Dispatch, ReadMessage, Handle,
       SkipMessage, Write, WriteFix, WriteExpand, HandleReply, HandleReplyFix,
       HandleReplyExpand, Hello, WritePacket, FixSendBuffer, Expand, conn
  <1>2. pc' \in Labels /\ ret' \in Labels /\ pc' # "connect" /\ pc' # "join" /\ CallOrder'
    <2>1. CASE Flush
      BY <2>1 DEF Flush, Goto, ConnInv, ConnType, CallOrder, Labels
    <2>2. CASE FlushNetwork \/ FlushSend \/ WriteFix \/ HandleReplyFix
      BY <2>2 DEF FlushNetwork, FlushSend, WriteFix, HandleReplyFix, FixSendBuffer, Goto,
         ConnInv, ConnType, CallOrder, Labels
    <2>3. CASE Dispatch \/ ReadMessage \/ Handle \/ SkipMessage \/ Hello
      BY <2>3 DEF Dispatch, ReadMessage, Handle, SkipMessage, Hello, Goto,
         ConnInv, ConnType, CallOrder, Labels
    <2>4. CASE Write \/ WriteExpand \/ HandleReply \/ HandleReplyExpand
      BY <2>4 DEF Write, WriteExpand, HandleReply, HandleReplyExpand, WritePacket, Kept, Expand,
         Goto, ConnInv, ConnType, CallOrder, Labels
    <2> QED
      BY <2>1, <2>2, <2>3, <2>4 DEF MainQuiet
  <1>3. client = "redirected" => pc # "join"
    BY DEF MainQuiet, FlushNetwork, FlushSend, Flush, Dispatch, ReadMessage, Handle,
       SkipMessage, Write, WriteFix, WriteExpand, HandleReply, HandleReplyFix,
       HandleReplyExpand, Hello, WritePacket, FixSendBuffer, Expand, Goto
  <1> QED
    BY <1>1, <1>2, <1>3 DEF ConnInv, ConnType, ThreadOrder, SocketOrder,
       StateFollowsThread, DisconnectOrder, Disconnected, Live, Connecting, Receiving

\* Steps that write mState alone, or end flushNetwork.
LEMMA ConnMainState == ConnInv /\ (Send \/ CheckError) => ConnInv'
  <1>1. ConnInv /\ Send => ConnInv'
    BY DEF Send, Goto, ConnInv, ConnType, CallOrder, ThreadOrder, SocketOrder,
       StateFollowsThread, DisconnectOrder, Disconnected, Live, Connecting, Receiving, Labels
  <1>2. ConnInv /\ CheckError => ConnInv'
    BY DEF CheckError, Goto, conn, ConnInv, ConnType, CallOrder, ThreadOrder, SocketOrder,
       StateFollowsThread, DisconnectOrder, Disconnected, Live, Connecting, Receiving, Labels
  <1> QED
    BY <1>1, <1>2

LEMMA ConnMainDisconnect ==
    ConnInv /\ (HandleRedirect \/ Disconnect \/ Reconnect \/ Delete \/ GameConnect) => ConnInv'
  <1>1. ConnInv /\ HandleRedirect => ConnInv'
    BY DEF HandleRedirect, Goto, ConnInv, ConnType, CallOrder, ThreadOrder, SocketOrder,
       StateFollowsThread, DisconnectOrder, Disconnected, Live, Connecting, Receiving, Labels
  <1>2. ConnInv /\ (Disconnect \/ Reconnect) => ConnInv'
    BY DEF Disconnect, Reconnect, StartDisconnect, Goto, ConnInv, ConnType, CallOrder,
       ThreadOrder, SocketOrder, StateFollowsThread, DisconnectOrder, Disconnected, Live,
       Connecting, Receiving, Labels
  <1>3. ConnInv /\ Delete => ConnInv'
    BY DEF Delete, NotInUse, Goto, ConnInv, ConnType, CallOrder, ThreadOrder, SocketOrder,
       StateFollowsThread, DisconnectOrder, Disconnected, Live, Connecting, Receiving, Labels
  <1>4. ConnInv /\ GameConnect => ConnInv'
    BY DEF GameConnect, conn, Goto, ConnInv, ConnType, CallOrder, ThreadOrder, SocketOrder,
       StateFollowsThread, DisconnectOrder, Disconnected, Live, Connecting, Receiving, Labels
  <1> QED
    BY <1>1, <1>2, <1>3, <1>4

\* After the wait the last thread is joined: the state it left is final.
LEMMA ConnJoin == ConnInv /\ Join => ConnInv'
  <1> SUFFICES ASSUME ConnInv, Join PROVE ConnInv'
    OBVIOUS
  <1> USE DEF Sessions, NULL
  <1>1. \A s \in Sessions : Live(s) => worker[s] = "done"
    BY DEF Join, WaitThread, ConnInv, ThreadOrder
  <1>2. mState \in {"IDLE", "NET_ERROR"}
    BY <1>1 DEF ConnInv, ConnType, StateFollowsThread, Connecting, Receiving, Live
  <1>3. \A s \in Sessions : worker'[s] \in {"none", "joined"}
    BY DEF Join, WaitThread, ConnInv, ConnType, ThreadOrder, Live
  <1>4. Disconnected'
    BY <1>2, <1>3 DEF Join, WaitThread, Disconnected, Live
  <1>5. worker' \in [Sessions -> WorkerLabels]
    BY DEF Join, WaitThread, ConnInv, ConnType, WorkerLabels
  <1>6. \A s \in Sessions : s > sess' => worker'[s] = "none"
    BY BufferAssumption DEF Join, WaitThread, ConnInv, ConnType, ThreadOrder
  <1> QED
    BY <1>3, <1>4, <1>5, <1>6, <1>2, BufferAssumption DEF Join, WaitThread, Goto, ConnInv,
       ConnType, CallOrder,
       ThreadOrder, SocketOrder, StateFollowsThread, DisconnectOrder, Live, Labels

LEMMA ConnConnect == ConnInv /\ Connect => ConnInv'
  <1> SUFFICES ASSUME ConnInv, Connect PROVE ConnInv'
    OBVIOUS
  <1> USE DEF Sessions, NULL
  <1>1. Disconnected /\ client' \in {"other", "error"} /\ pc' \in {"frame", "hello"} /\ ret' = ret
    BY DEF Connect, NotInUse, Goto, ConnInv, ConnType, DisconnectOrder
  <1>2. CASE ConnectWithoutAddress \/ ConnectWithoutThread
    BY <1>1, <1>2 DEF ConnectWithoutAddress, ConnectWithoutThread, Reset, ConnInv, ConnType,
       CallOrder,
       ThreadOrder, SocketOrder, StateFollowsThread, DisconnectOrder, Disconnected, Live,
       Connecting, Receiving, Labels
  <1>3. CASE ConnectStarts
    <2>1. sess + 1 \in Sessions /\ worker[sess + 1] = "none" /\ worker'[sess + 1] = "resolve"
      BY <1>3, BufferAssumption DEF ConnectStarts, Reset, ConnInv, ConnType, ThreadOrder
    <2>2. \A s \in Sessions : s # sess + 1 => worker'[s] = worker[s]
      BY <1>3 DEF ConnectStarts, Reset, ConnInv, ConnType
    <2>3. ConnType' /\ CallOrder'
      BY <1>1, <1>3, <2>1 DEF ConnectStarts, Reset, ConnInv, ConnType, CallOrder, Labels,
         WorkerLabels
    <2>4. ThreadOrder'
      BY <1>1, <1>3, <2>1, <2>2 DEF ConnectStarts, Reset, ConnInv, ConnType, ThreadOrder,
         Disconnected,
         Live
    <2> QED
      BY <1>1, <1>3, <2>1, <2>2, <2>3, <2>4 DEF ConnectStarts, Reset, ConnInv, ConnType,
         SocketOrder,
         StateFollowsThread, DisconnectOrder, Disconnected, Connecting
  <1> QED
    BY <1>1, <1>2, <1>3 DEF Connect, NotInUse, Disconnected

\* A step of a worker is one of a live thread that was not joined, and moves only it.
LEMMA WorkerStep ==
    ASSUME NEW s \in Sessions, ConnInv, Worker(s)
    PROVE  /\ Connecting(s) \/ Receiving(s)
           /\ \E to \in WorkerLabels \ {"none", "resolve", "joined"} :
                 worker' = [worker EXCEPT ![s] = to]
           /\ UNCHANGED <<mWorkerThread, sess, pc, ret, client, mOutBuffer>>
  <1> USE DEF Step, WorkerLabels, Connecting, Receiving, main, conn
  <1>1. CASE ResolveFails(s) \/ Resolve(s) \/ OpenFails(s)
    BY <1>1 DEF ResolveFails, Resolve, OpenFails
  <1>2. CASE Open(s) \/ Publish(s) \/ Alloc(s)
    BY <1>2 DEF Open, Publish, Alloc
  <1>3. CASE Loop(s)
    BY <1>3 DEF Loop
  <1>4. CASE Wait(s) \/ Receive(s) \/ ReceiveEnd(s) \/ ReceiveFails(s)
    BY <1>4 DEF Wait, Receive, ReceiveEnd, ReceiveFails
  <1> QED
    BY <1>1, <1>2, <1>3, <1>4 DEF Worker

LEMMA ConnWorker == ASSUME NEW s \in Sessions PROVE ConnInv /\ Worker(s) => ConnInv'
  <1> SUFFICES ASSUME ConnInv, Worker(s) PROVE ConnInv'
    OBVIOUS
  <1> USE DEF Sessions, NULL
  <1>1. /\ Live(s) /\ s = mWorkerThread /\ s = sess /\ s # NULL
        /\ \A t \in Sessions : t # s => worker'[t] = worker[t] /\ ~Live(t)
        /\ worker' \in [Sessions -> WorkerLabels]
        /\ worker'[s] \notin {"none", "joined", "resolve"}
        /\ UNCHANGED <<mWorkerThread, sess, pc, ret, client>>
    <2>1. Live(s) /\ s = mWorkerThread /\ s = sess /\ s # NULL
      BY WorkerStep, BufferAssumption DEF ConnInv, ThreadOrder, Live, Connecting, Receiving
    <2> QED
      BY <2>1, WorkerStep DEF ConnInv, ConnType, ThreadOrder
  <1>2. pc # "connect" /\ (client = "redirected" => pc = "join")
    BY <1>1 DEF ConnInv, DisconnectOrder, Disconnected
  <1>3. mSocket \in {s, NULL} /\ (worker[s] = "open" => mSocket = NULL)
    BY <1>1 DEF ConnInv, ConnType, SocketOrder
  <1>4. SocketOrder' /\ StateFollowsThread' /\ ConnType'
    <2> USE DEF ConnInv, ConnType, SocketOrder, StateFollowsThread, Connecting, Receiving, Step,
            Live, conn, main
    <2>1. CASE ResolveFails(s)
      BY <1>1, <1>3, <2>1 DEF ResolveFails
    <2>2. CASE Resolve(s)
      BY <1>1, <1>3, <2>2 DEF Resolve
    <2>3. CASE OpenFails(s)
      BY <1>1, <1>3, <2>3 DEF OpenFails
    <2>4. CASE Open(s)
      BY <1>1, <1>3, <2>4 DEF Open
    <2>5. CASE Publish(s)
      BY <1>1, <1>3, <2>5 DEF Publish
    <2>6. CASE Alloc(s)
      BY <1>1, <1>3, <2>6 DEF Alloc
    <2>7. CASE Loop(s)
      BY <1>1, <1>3, <2>7 DEF Loop
    <2>8. CASE Wait(s) \/ Receive(s)
      BY <1>1, <1>3, <2>8 DEF Wait, Receive
    <2>9. CASE ReceiveEnd(s) \/ ReceiveFails(s)
      BY <1>1, <1>3, <2>9 DEF ReceiveEnd, ReceiveFails
    <2> QED
      BY <2>1, <2>2, <2>3, <2>4, <2>5, <2>6, <2>7, <2>8, <2>9 DEF Worker
  <1> QED
    BY <1>1, <1>2, <1>4 DEF ConnInv, CallOrder, ThreadOrder, DisconnectOrder, Live

LEMMA ConnNext == ConnInv /\ [Next]_vars => ConnInv'
  <1> SUFFICES ASSUME ConnInv, [Next]_vars PROVE ConnInv'
    OBVIOUS
  <1>1. CASE Main
    BY <1>1, ConnMainQuiet, ConnMainState, ConnMainDisconnect, ConnJoin, ConnConnect
       DEF Main, MainQuiet
  <1>2. CASE \E s \in Sessions : Worker(s)
    BY <1>2, ConnWorker
  <1>3. CASE UNCHANGED <<conn, main, worker, sess, client>>
    BY <1>3 DEF conn, main, ConnInv, ConnType, CallOrder, ThreadOrder, SocketOrder,
       StateFollowsThread, DisconnectOrder, Disconnected, Live, Connecting, Receiving
  <1> QED
    BY <1>1, <1>2, <1>3 DEF Next, ServerSend, ServerClose, Terminated, vars

\* The invariant of threads, sockets and mState holds in every behaviour.
THEOREM ConnCorrect == Spec => []ConnInv
  <1> QED
    BY ConnInit, ConnNext, PTL DEF Spec

\* No connect() forgets a thread or a socket, for any number of connections.
THEOREM OneConnectionHolds == Spec => []OneConnection
  <1>1. ConnInv => OneConnection
    BY DEF ConnInv, ThreadOrder, SocketOrder, OneConnection, Live, Sessions, NULL
  <1> QED
    BY <1>1, ConnCorrect, PTL

\* connect() always finds the object disconnected, whatever a worker wrote to mState.
THEOREM DisconnectedBeforeConnectHolds == Spec => []DisconnectedBeforeConnect
  <1>1. ConnInv => DisconnectedBeforeConnect
    BY DEF ConnInv, DisconnectOrder, Disconnected, DisconnectedBeforeConnect
  <1> QED
    BY <1>1, ConnCorrect, PTL

----------------------------------------------------------------------------
(* The output buffer.                                                      *)

Quiet == \A s \in Sessions : ~Connecting(s)

\* A connecting thread is announced by mState, except to a disconnect() that waits
\* for it; nothing is sent, and no object destroyed, while there is one.
ConnectingKnown ==
    /\ pc # "join" /\ ~Quiet => mState = "CONNECTING"
    /\ pc \in {"send", "deleted"} => Quiet
    /\ pc = "send" => mSocket = sess

\* Room for one more packet after a look by fixSendBuffer, and for two.
Within1 == \E a \in OutSizes \cup {0} : Len(mOutBuffer) <= BUFFER_LIMIT + a
Within2 == \E a, b \in OutSizes \cup {0} : Len(mOutBuffer) <= BUFFER_LIMIT + a + b

\* Nothing turns mState to CONNECTED again before connect() empties the buffer.
Lost == mState # "CONNECTED" /\ Quiet

OutInv ==
    /\ mOutBuffer \in Seq(0..MaxSessions)
    /\ \A i \in 1..Len(mOutBuffer) : mOutBuffer[i] = sess
    /\ Within1 \/ (Within2 /\ Lost)
    /\ pc \in {"flush", "send"} /\ ret \in {"expand", "replyExpand"} => Within1 /\ Quiet
    /\ pc \in {"expand", "replyExpand"} =>
          Len(mOutBuffer) <= BUFFER_LIMIT \/ (Within1 /\ Lost)
    /\ pc = "hello" => mOutBuffer = <<>>

LEMMA KnownInit == Init => ConnectingKnown
  BY DEF Init, ConnectingKnown, Quiet, Connecting

LEMMA OutInit == Init => OutInv
  BY BufferAssumption, OutAssumption DEF Init, OutInv, Within1, Within2, Lost, Quiet, Connecting

\* While mState is CONNECTED the only thread is past connecting.
LEMMA ConnectedQuiet == ConnInv /\ mState = "CONNECTED" => Quiet /\ mSocket = sess
  BY DEF ConnInv, StateFollowsThread, ThreadOrder, Quiet, Connecting, Receiving, Live, Sessions,
     NULL

LEMMA KnownNext == ConnInv /\ ConnectingKnown /\ [Next]_vars => ConnectingKnown'
  <1> SUFFICES ASSUME ConnInv, ConnectingKnown, [Next]_vars PROVE ConnectingKnown'
    OBVIOUS
  <1> USE DEF ConnectingKnown, Quiet, Connecting
  <1>1. CASE Flush
    BY <1>1, ConnectedQuiet DEF Flush, Goto, conn, ConnInv, CallOrder
  <1>2. CASE MainQuiet /\ ~Flush
    BY <1>2 DEF MainQuiet, FlushNetwork, FlushSend, Dispatch, ReadMessage, Handle,
       SkipMessage, Write, WriteFix, WriteExpand, HandleReply, HandleReplyFix,
       HandleReplyExpand, Hello, WritePacket, FixSendBuffer, Expand, Goto, conn
  <1>3. CASE Send \/ CheckError
    BY <1>3 DEF Send, CheckError, Goto, conn, ConnInv, CallOrder
  <1>4. CASE HandleRedirect \/ Disconnect \/ Reconnect \/ GameConnect
    BY <1>4 DEF HandleRedirect, Disconnect, Reconnect, StartDisconnect, GameConnect, Goto, conn
  <1>5. CASE Delete
    BY <1>5 DEF Delete, NotInUse, Goto
  <1>6. CASE Join
    <2>1. \A s \in Sessions : ~Connecting(s)'
      BY <1>6 DEF Join, WaitThread, ConnInv, ConnType, ThreadOrder, Live, NULL, Sessions
    <2> QED
      BY <1>6, <2>1 DEF Join, WaitThread, Goto, ConnInv, CallOrder
  <1>7. CASE Connect
    <2>1. Quiet /\ mState \in {"IDLE", "NET_ERROR"}
      BY <1>7 DEF Connect, NotInUse, Goto, ConnInv, DisconnectOrder, Disconnected, Live
    <2>2. pc' \in {"frame", "hello"}
      BY <1>7 DEF Connect, NotInUse, Goto
    <2> QED
      BY <1>7, <2>1, <2>2 DEF Connect, NotInUse, ConnectWithoutAddress, ConnectWithoutThread,
         ConnectStarts, Reset
  <1>8. ASSUME NEW s \in Sessions, Worker(s) PROVE ConnectingKnown'
    <2>1. /\ \A t \in Sessions : t # s => ~Connecting(t) /\ ~Connecting(t)'
          /\ UNCHANGED <<pc, sess>>
      <3>1. PICK to \in WorkerLabels : worker' = [worker EXCEPT ![s] = to]
        BY <1>8, WorkerStep
      <3>2. s = mWorkerThread /\ \A t \in Sessions : t # s => ~Live(t)
        BY <1>8, WorkerStep DEF ConnInv, ThreadOrder, Live, Receiving
      <3>3. \A t \in Sessions : t # s => worker'[t] = worker[t]
        BY <3>1 DEF ConnInv, ConnType
      <3> QED
        BY <1>8, <3>2, <3>3, WorkerStep DEF Live
    <2>2. Receiving(s) => UNCHANGED mSocket /\ ~Connecting(s)'
      BY <1>8 DEF Worker, ResolveFails, Resolve, OpenFails, Open, Publish, Alloc, Loop, Wait,
         Receive, ReceiveEnd, ReceiveFails, Step, conn, ConnInv, ConnType, Receiving
    <2>3. CASE pc \in {"send", "deleted"}
      BY <2>1, <2>2, <2>3, <1>8, WorkerStep
    <2>4. CASE pc \notin {"send", "deleted"}
      <3>1. pc # "join" /\ Connecting(s)' => mState' = "CONNECTING"
        <4>1. CASE Resolve(s) \/ Open(s)
          BY <4>1, <1>8, <2>1 DEF Resolve, Open, Step, main
        <4>2. CASE ~(Resolve(s) \/ Open(s) \/ Receiving(s))
          BY <4>2, <1>8 DEF Worker, ResolveFails, OpenFails, Publish, Alloc, Loop, Wait, Receive,
             ReceiveEnd, ReceiveFails, Step, ConnInv, ConnType, Receiving
        <4> QED
          BY <4>1, <4>2, <2>2
      <3> QED
        BY <2>1, <2>4, <3>1
    <2> QED
      BY <2>3, <2>4
  <1>9. CASE UNCHANGED <<conn, main, worker, sess>>
    BY <1>9 DEF conn, main
  <1> QED
    BY <1>1, <1>2, <1>3, <1>4, <1>5, <1>6, <1>7, <1>8, <1>9 DEF Next, Main, MainQuiet, ServerSend,
       ServerClose, Terminated, vars

LEMMA WrittenBytes ==
    ASSUME NEW b \in Seq(0..MaxSessions), NEW n \in Nat, sess \in 0..MaxSessions
    PROVE  /\ Written(b, n) \in Seq(0..MaxSessions)
           /\ Len(Written(b, n)) = Len(b) + n
           /\ \A i \in 1..(Len(b) + n) :
                 Written(b, n)[i] = IF i <= Len(b) THEN b[i] ELSE sess
  <1> DEFINE e == [i \in 1..n |-> sess]
  <1>1. e \in Seq(0..MaxSessions) /\ Len(e) = n
    OBVIOUS
  <1>2. \A i \in 1..n : e[i] = sess
    OBVIOUS
  <1> HIDE DEF e
  <1>3. Written(b, n) = b \o e
    BY DEF Written, e
  <1>4. /\ b \o e \in Seq(0..MaxSessions)
        /\ Len(b \o e) = Len(b) + Len(e)
        /\ \A i \in 1..(Len(b) + Len(e)) : (b \o e)[i] = IF i <= Len(b) THEN b[i] ELSE e[i - Len(b)]
    BY <1>1, ConcatProperties
  <1>5. \A i \in 1..(Len(b) + n) : ~(i <= Len(b)) => i - Len(b) \in 1..n
    OBVIOUS
  <1> QED
    BY <1>1, <1>2, <1>3, <1>4, <1>5

LEMMA OutNext == ConnInv /\ ConnectingKnown /\ OutInv /\ [Next]_vars => OutInv'
  <1> SUFFICES ASSUME ConnInv, ConnectingKnown, OutInv, [Next]_vars PROVE OutInv'
    OBVIOUS
  <1> USE BufferAssumption, OutAssumption
  <1> DEFINE unwritten == UNCHANGED <<mOutBuffer, sess>>
  <1>a. sess \in 0..MaxSessions /\ Len(mOutBuffer) \in Nat
    BY DEF ConnInv, ConnType, OutInv
  \* The packet of n bytes written to a buffer b that holds what belongs there.
  <1>b. ASSUME NEW b \in Seq(0..MaxSessions), \A i \in 1..Len(b) : b[i] = sess,
               NEW n \in OutSizes, mOutBuffer' = Written(b, n), sess' = sess
        PROVE  /\ mOutBuffer' \in Seq(0..MaxSessions)
               /\ \A i \in 1..Len(mOutBuffer') : mOutBuffer'[i] = sess'
               /\ Len(mOutBuffer') = Len(b) + n
    <2>1. n \in Nat
      BY OutAssumption
    <2>2. \A i \in 1..(Len(b) + n) : mOutBuffer'[i] = IF i <= Len(b) THEN b[i] ELSE sess
      BY <1>a, <1>b, <2>1, WrittenBytes
    <2>3. mOutBuffer' \in Seq(0..MaxSessions) /\ Len(mOutBuffer') = Len(b) + n
      BY <1>a, <1>b, <2>1, WrittenBytes
    <2>4. \A i \in 1..Len(mOutBuffer') : mOutBuffer'[i] = sess
      <3> TAKE i \in 1..Len(mOutBuffer')
      <3>1. i \in 1..(Len(b) + n) /\ Len(b) \in Nat
        BY <1>b, <2>3
      <3>2. i <= Len(b) => i \in 1..Len(b)
        BY <3>1
      <3> QED
        BY <1>b, <2>2, <3>1, <3>2
    <2> QED
      BY <1>b, <2>3, <2>4
  <1>c. ASSUME unwritten, UNCHANGED <<mState, worker>> PROVE Lost' = Lost /\ Quiet' = Quiet
    BY <1>c DEF Lost, Quiet, Connecting
  <1>1. CASE MainQuiet
    <2>0. UNCHANGED <<mState, worker, sess>>
      BY <1>1 DEF MainQuiet, FlushNetwork, FlushSend, Flush, Dispatch, ReadMessage, Handle,
         SkipMessage, Write, WriteFix, WriteExpand, HandleReply, HandleReplyFix,
         HandleReplyExpand, Hello, WritePacket, FixSendBuffer, Expand, conn
    <2>z. Quiet' = Quiet /\ Lost' = Lost
      BY <2>0 DEF Lost, Quiet, Connecting
    <2>1. CASE Flush
      BY <1>a, <2>0, <2>z, <2>1, ConnectedQuiet DEF Flush, Goto, OutInv, ConnInv, CallOrder,
         Within1, Within2, Lost
    <2>2. CASE WriteFix \/ HandleReplyFix
      BY <1>a, <2>0, <2>z, <2>2, ConnectedQuiet
         DEF WriteFix, HandleReplyFix, FixSendBuffer, Goto, OutInv, Within1, Within2, Lost
    <2>3. CASE FlushNetwork \/ FlushSend \/ Dispatch \/ ReadMessage \/ Handle \/ SkipMessage
      BY <2>0, <2>z, <2>3 DEF FlushNetwork, FlushSend, Dispatch, ReadMessage, Handle,
         SkipMessage, Goto,
         OutInv, Within1, Within2
    <2>4. CASE Write \/ HandleReply
      <3> DEFINE b == IF Len(mOutBuffer) > BUFFER_LIMIT THEN <<>> ELSE mOutBuffer
      <3>1. PICK n \in OutSizes : mOutBuffer' = Written(b, n)
        BY <2>4 DEF Write, HandleReply, WritePacket, Kept
      <3>2. b \in Seq(0..MaxSessions) /\ (\A i \in 1..Len(b) : b[i] = sess) /\ Len(b) <= BUFFER_LIMIT
        <4>1. CASE Len(mOutBuffer) > BUFFER_LIMIT
          BY <4>1, EmptySeq
        <4>2. CASE ~(Len(mOutBuffer) > BUFFER_LIMIT)
          BY <1>a, <4>2 DEF OutInv
        <4> QED
          BY <4>1, <4>2
      <3>3. Len(mOutBuffer') = Len(b) + n /\ Len(b) \in Nat
        BY <1>b, <2>0, <3>1, <3>2
      <3>4. Within1'
        BY <3>2, <3>3 DEF Within1
      <3>5. pc' \notin {"flush", "send", "expand", "replyExpand", "hello"}
        BY <2>4 DEF Write, HandleReply, WritePacket, Kept, Goto
      <3> QED
        BY <1>b, <2>0, <3>1, <3>2, <3>4, <3>5 DEF OutInv
    <2>5. CASE WriteExpand \/ HandleReplyExpand
      <3>1. PICK n \in OutSizes : mOutBuffer' = Written(mOutBuffer, n)
        BY <2>5 DEF WriteExpand, HandleReplyExpand, Expand
      <3>2. mOutBuffer \in Seq(0..MaxSessions) /\ (\A i \in 1..Len(mOutBuffer) : mOutBuffer[i] = sess)
        BY DEF OutInv
      <3>3. Len(mOutBuffer') = Len(mOutBuffer) + n
        BY <1>b, <2>0, <3>1, <3>2
      <3>4. pc \in {"expand", "replyExpand"} /\ pc' \in {"frame", "skip"}
        BY <2>5 DEF WriteExpand, HandleReplyExpand, Expand, Goto
      <3>5. Within1' \/ (Within2' /\ Lost')
        <4>1. CASE Len(mOutBuffer) <= BUFFER_LIMIT
          BY <1>a, <3>3, <4>1 DEF Within1
        <4>2. CASE Within1 /\ Lost
          BY <1>a, <2>z, <3>3, <4>2 DEF Within1, Within2
        <4> QED
          BY <3>4, <4>1, <4>2 DEF OutInv
      <3> QED
        BY <1>b, <2>0, <3>1, <3>2, <3>4, <3>5 DEF OutInv
    <2>6. CASE Hello
      <3>1. PICK n \in OutSizes : mOutBuffer' = Written(mOutBuffer, n)
        BY <2>6 DEF Hello
      <3>2. mOutBuffer = <<>> /\ mOutBuffer \in Seq(0..MaxSessions)
        BY <2>6 DEF Hello, Goto, OutInv
      <3>3. /\ mOutBuffer' \in Seq(0..MaxSessions)
            /\ \A i \in 1..Len(mOutBuffer') : mOutBuffer'[i] = sess'
            /\ Len(mOutBuffer') = Len(mOutBuffer) + n
        BY <1>b, <2>0, <3>1, <3>2 DEF OutInv
      <3>4. Within1'
        BY <3>2, <3>3, EmptySeq DEF Within1
      <3>5. pc' = "frame"
        BY <2>6 DEF Hello, Goto
      <3> QED
        BY <3>3, <3>4, <3>5 DEF OutInv
    <2> QED
      BY <1>1, <2>1, <2>2, <2>3, <2>4, <2>5, <2>6 DEF MainQuiet
  <1>2. CASE Send
    <2>1. mOutBuffer' = <<>> /\ sess' = sess /\ pc' # "hello" /\ pc' \notin {"flush", "send"}
      BY <1>2 DEF Send, Goto, ConnInv, CallOrder
    <2> QED
      BY <2>1 DEF OutInv, Within1
  <1>3. CASE CheckError \/ HandleRedirect \/ Disconnect \/ Reconnect \/ GameConnect \/ Delete
    <2>1. UNCHANGED <<mOutBuffer, sess,
         worker>> /\ (mState' = "CONNECTED" => mState = "CONNECTED")
      BY <1>3 DEF CheckError, HandleRedirect, Disconnect, Reconnect, StartDisconnect, GameConnect,
         Delete, conn
    <2>2. pc' \notin {"flush", "send", "expand", "replyExpand", "hello"}
      BY <1>3 DEF CheckError, HandleRedirect, Disconnect, Reconnect, StartDisconnect, GameConnect,
         Delete, Goto
    <2> QED
      BY <2>1, <2>2 DEF OutInv, Within1, Within2, Lost, Quiet, Connecting
  <1>4. CASE Join
    <2>1. \A s \in Sessions : Connecting(s)' => Connecting(s)
      BY <1>4 DEF Join, WaitThread, Connecting, ConnInv, ConnType
    <2>2. /\ UNCHANGED <<mOutBuffer, sess, mState>>
          /\ pc' \notin {"flush", "send", "expand", "replyExpand", "hello"}
      BY <1>4 DEF Join, WaitThread, Goto, ConnInv, CallOrder
    <2> QED
      BY <2>1, <2>2 DEF OutInv, Within1, Within2, Lost, Quiet
  <1>5. CASE Connect
    <2>1. mState \in {"IDLE", "NET_ERROR"} /\ pc' \in {"frame", "hello"}
      BY <1>5 DEF Connect, NotInUse, Goto, ConnInv, DisconnectOrder, Disconnected
    <2>2. CASE ConnectWithoutAddress
      <3>1. pc' = "frame" /\ UNCHANGED <<mOutBuffer, sess, worker>> /\ mState' = "NET_ERROR"
        BY <1>5, <2>2 DEF Connect, NotInUse, ConnectWithoutAddress, Goto
      <3> QED
        BY <3>1 DEF OutInv, Within1, Within2, Lost, Quiet, Connecting
    <2>3. CASE ConnectWithoutThread \/ ConnectStarts
      <3>1. mOutBuffer' = <<>>
        BY <2>3 DEF ConnectWithoutThread, ConnectStarts, Reset
      <3> QED
        BY <2>1, <3>1 DEF OutInv, Within1
    <2> QED
      BY <1>5, <2>1, <2>2, <2>3 DEF Connect, NotInUse
  <1>6. ASSUME NEW s \in Sessions, Worker(s) PROVE OutInv'
    <2>1. UNCHANGED <<mOutBuffer, sess, pc, ret>>
      BY <1>6, WorkerStep
    <2>2. Quiet => Quiet' /\ (mState' = "CONNECTED" => mState = "CONNECTED")
      <3>1. ASSUME Quiet PROVE Receiving(s) /\ ~Publish(s)
        BY <1>6, <3>1, WorkerStep DEF Quiet, Connecting, Publish, Step
      <3>2. ASSUME Quiet PROVE Quiet'
        <4>1. \A t \in Sessions : t # s => worker'[t] = worker[t]
          BY <1>6, WorkerStep DEF ConnInv, ConnType
        <4>2. ~Connecting(s)'
          BY <1>6, <3>1, <3>2 DEF Worker, ResolveFails, Resolve, OpenFails, Open, Publish,
             Alloc, Loop,
             Wait, Receive, ReceiveEnd, ReceiveFails, Step, ConnInv, ConnType, Connecting,
             Receiving
        <4> QED
          BY <3>2, <4>1, <4>2 DEF Quiet, Connecting
      <3>3. ASSUME Quiet PROVE mState' = "CONNECTED" => mState = "CONNECTED"
        BY <1>6, <3>1, <3>3 DEF Worker, ResolveFails, Resolve, OpenFails, Open, Alloc, Loop,
           Wait, Receive,
           ReceiveEnd, ReceiveFails, conn
      <3> QED
        BY <3>2, <3>3
    <2> QED
      BY <2>1, <2>2 DEF OutInv, Within1, Within2, Lost
  <1>7. CASE UNCHANGED <<conn, mOutBuffer, main, worker, sess>>
    BY <1>7 DEF conn, main, OutInv, Within1, Within2, Lost, Quiet, Connecting
  <1> QED
    BY <1>1, <1>2, <1>3, <1>4, <1>5, <1>6, <1>7 DEF Next, Main, MainQuiet, ServerSend,
       ServerClose, Terminated, vars

THEOREM OutCorrect == Spec => [](ConnInv /\ ConnectingKnown /\ OutInv)
  <1>1. Init => ConnInv /\ ConnectingKnown /\ OutInv
    BY ConnInit, KnownInit, OutInit
  <1>2. (ConnInv /\ ConnectingKnown /\ OutInv) /\ [Next]_vars => (ConnInv /\ ConnectingKnown /\ OutInv)'
    BY ConnNext, KnownNext, OutNext
  <1> QED
    BY <1>1, <1>2, PTL DEF Spec

\* mOutBuffer never overflows, provided that two packets fit above BUFFER_LIMIT.
THEOREM OutBufferFitsHolds == Spec => []OutBufferFits
  <1>1. OutInv => OutBufferFits
    <2> SUFFICES ASSUME OutInv PROVE OutBufferFits
      OBVIOUS
    <2> USE BufferAssumption, OutAssumption DEF OutInv, OutBufferFits
    <2>0. Len(mOutBuffer) \in Nat
      OBVIOUS
    <2>1. PICK a, b \in OutSizes \cup {0} : Len(mOutBuffer) <= BUFFER_LIMIT + a + b
      BY <2>0 DEF Within1, Within2
    <2>2. a \in Nat /\ b \in Nat
      OBVIOUS
    <2>3. \A n \in OutSizes \cup {0} : BUFFER_LIMIT + n + n <= BUFFER_SIZE
      OBVIOUS
    <2>4. BUFFER_LIMIT + a + a <= BUFFER_SIZE /\ BUFFER_LIMIT + b + b <= BUFFER_SIZE
      BY <2>3
    <2> QED
      BY <2>0, <2>1, <2>2, <2>4
  <1> QED
    BY <1>1, OutCorrect, PTL

\* No packet reaches another server than the one it was written for.
THEOREM SentWhereWrittenHolds == Spec => []SentWhereWritten
  <1>1. ConnectingKnown /\ OutInv => SentWhereWritten
    BY DEF ConnectingKnown, OutInv, SentWhereWritten
  <1> QED
    BY <1>1, OutCorrect, PTL

\* The destructor leaves no connecting thread behind.
THEOREM DeletedAfterConnectingHolds == Spec => []DeletedAfterConnecting
  <1>1. ConnectingKnown => DeletedAfterConnecting
    BY DEF ConnectingKnown, Quiet, Connecting, DeletedAfterConnecting
  <1> QED
    BY <1>1, OutCorrect, PTL

=============================================================================
