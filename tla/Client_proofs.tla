---------------------------- MODULE Client_proofs ----------------------------
(***************************************************************************)
(* Theorems about the client, for every bound on messages and requests and *)
(* for the careful and the careless user alike.                            *)
(***************************************************************************)
EXTENDS Client, TLAPS

Conns == [mState : {"CONNECTING", "CONNECTED"} \cup Unconnected, server : Servers,
          inbox : Seq(Messages), asked : Seq(Requests),
          playing : BOOLEAN, wanted : BOOLEAN, stray : BOOLEAN]

\* Game and state go together.
GameExists == mGame <=> mOldState = "GAME"

\* A server that is not connected owes nothing, and a live connection is one that the
\* client made and still wants.
Closed(c) ==
    /\ c.mState \in Unconnected => c.asked = <<>> /\ ~c.playing
    /\ c.mState \notin Unconnected => c.wanted

ConnOK(c) == c \in Conns /\ Len(c.inbox) <= MaxInbox /\ Closed(c)

IInv == TypeOK /\ GameExists /\ Closed(conn)

----------------------------------------------------------------------------
LEMMA ConnType == ASSUME IInv PROVE ConnOK(conn)
  BY DEF IInv, TypeOK, ConnOK, Conns

LEMMA DisconnectedOK ==
    ASSUME NEW c, ConnOK(c), NEW d \in Disconnected(c)
    PROVE  ConnOK(d) /\ d.mState \in Unconnected
  <1>1. PICK s \in Unconnected :
            d = [c EXCEPT !.mState = s, !.asked = <<>>, !.playing = FALSE, !.wanted = FALSE]
    BY DEF Disconnected, Unconnected
  <1>2. <<>> \in Seq(Requests)
    OBVIOUS
  <1> QED
    BY <1>1, <1>2 DEF ConnOK, Conns, Closed

LEMMA ConnectedOK ==
    ASSUME NEW c, ConnOK(c), NEW to \in Servers, NEW request \in Requests
    PROVE  ConnOK(Connected(c, to, request))
  <1>1. CASE c.mState \in Unconnected
    <2>1. <<request>> \in Seq(Requests) /\ <<>> \in Seq(Messages) /\ Len(<<>>) = 0
      OBVIOUS
    <2> QED
      BY <1>1, <2>1, ClientAssumption DEF ConnOK, Conns, Closed, Connected, Unconnected
  <1>2. CASE c.mState \notin Unconnected
    <2>1. Append(c.asked, request) \in Seq(Requests)
      BY DEF ConnOK, Conns
    <2> QED
      BY <1>2, <2>1 DEF ConnOK, Conns, Closed, Connected
  <1> QED
    BY <1>1, <1>2

LEMMA SentOK ==
    ASSUME NEW c, ConnOK(c), NEW request \in Requests
    PROVE  ConnOK(Sent(c, request))
  <1>1. Append(c.asked, request) \in Seq(Requests)
    BY DEF ConnOK, Conns
  <1> QED
    BY <1>1 DEF ConnOK, Conns, Closed, Sent

LEMMA TakenOK ==
    ASSUME IInv, conn.inbox # <<>>
    PROVE  ConnOK(Taken)
  <1>1. Tail(conn.inbox) \in Seq(Messages) /\ Len(Tail(conn.inbox)) <= MaxInbox
    BY ConnType, ClientAssumption DEF ConnOK, Conns
  <1> QED
    BY <1>1, ConnType DEF ConnOK, Conns, Closed, Taken

Flags ==
    /\ mGame \in BOOLEAN /\ loaded \in BOOLEAN /\ mCharacters \in BOOLEAN
    /\ mVersionResponse \in BOOLEAN
    /\ GameExists

\* IInv without what it says of the connection.
Rest ==
    /\ Flags
    /\ mState \in States /\ mOldState \in States /\ worlds \in 0 .. 2
    /\ given \subseteq {"server", "login", "default"}
    /\ mCurrentDialog \in {"none", "open", "locked"}
    /\ okDialogs \subseteq Modal \cup {"lost", "forgotten"}
    /\ pc \in {"events", "net", "error", "gui", "slow", "before", "enter", "done"}

LEMMA Parts == ASSUME IInv PROVE Rest /\ ConnOK(conn)
  BY DEF IInv, TypeOK, Rest, Flags, ConnOK, Conns

LEMMA Whole == ASSUME Rest, ConnOK(conn) PROVE IInv
  BY DEF IInv, TypeOK, Rest, Flags, ConnOK, Conns

LEMMA WholeNext == ASSUME Rest', ConnOK(conn') PROVE IInv'
  BY DEF IInv, TypeOK, Rest, Flags, ConnOK, Conns, GameExists

\* The other variables keep what is said of them when they keep their values.
LEMMA RestKept ==
    ASSUME Rest, UNCHANGED <<mState, mOldState, mGame, data, given, mCurrentDialog, okDialogs>>,
           pc' \in {"events", "net", "error", "gui", "slow", "before", "enter", "done"}
    PROVE  Rest'
  BY DEF Rest, Flags, GameExists, data

LEMMA InitInv == Init => IInv
  <1> SUFFICES ASSUME Init PROVE IInv
    OBVIOUS
  <1>1. Rest
    <2>1. Flags
      BY Zenon DEF Init, Flags, GameExists
    <2> QED
      <3>1. mState \in States /\ mOldState \in States
        BY DEF Init, States
      <3>2. given \subseteq {"server", "login", "default"} /\ okDialogs = {}
        BY DEF Init
      <3> QED
        BY <2>1, <3>1, <3>2 DEF Init, Rest
  <1>2. <<>> \in Seq(Messages) /\ <<>> \in Seq(Requests) /\ Len(<<>>) = 0
    OBVIOUS
  <1>3. ConnOK(conn)
    BY <1>2, ClientAssumption DEF Init, ConnOK, Conns, Closed, Unconnected, Servers
  <1> QED
    BY <1>1, <1>3, Whole

LEMMA OutsideInv == ASSUME IInv, Outside PROVE IInv'
  <1>1. Rest'
    <2>1. UNCHANGED <<mState, mOldState, mGame, data, given, mCurrentDialog, okDialogs, pc>>
      BY DEF Outside, Establish, Break, Answer, AnswerLoaded, Redirect, Problem, Serving,
             Environment
    <2>2. Rest
      BY Parts
    <2>3. pc' \in {"events", "net", "error", "gui", "slow", "before", "enter", "done"}
      BY <2>1, <2>2 DEF Rest
    <2> QED
      BY <2>1, <2>2, <2>3, RestKept
  <1>2. ConnOK(conn)
    BY ConnType
  <1>3. <<>> \in Seq(Requests)
    OBVIOUS
  <1>4. ASSUME NEW m \in Messages, Len(conn.inbox) < MaxInbox
        PROVE  Append(conn.inbox, m) \in Seq(Messages)
                 /\ Len(Append(conn.inbox, m)) <= MaxInbox
    BY <1>2, <1>4, ClientAssumption DEF ConnOK, Conns
  <1>5. conn.asked # <<>> => Tail(conn.asked) \in Seq(Requests)
    BY <1>2 DEF ConnOK, Conns
  <1>6. ASSUME Establish PROVE ConnOK(conn')
    BY <1>2, <1>6 DEF Establish, ConnOK, Conns, Closed, Unconnected
  <1>7. ASSUME Break PROVE ConnOK(conn')
    BY <1>2, <1>3, <1>7 DEF Break, ConnOK, Conns, Closed, Unconnected
  <1>8. ASSUME Answer PROVE ConnOK(conn')
    <2>1. PICK m \in Replies(Head(conn.asked)) :
            conn' = [conn EXCEPT !.asked = Tail(@), !.inbox = Append(@, m),
                                 !.playing = @ /\ m # "charSwitch"]
      BY <1>8 DEF Answer
    <2>2. m \in Messages
      BY DEF Replies, Messages
    <2>3. conn.asked # <<>> /\ Len(conn.inbox) < MaxInbox /\ conn.mState = "CONNECTED"
      BY <1>8 DEF Answer, Serving
    <2> QED
      BY <1>2, <1>4, <1>5, <2>1, <2>2, <2>3 DEF ConnOK, Conns, Closed, Unconnected
  <1>9. ASSUME AnswerLoaded PROVE ConnOK(conn')
    BY <1>2, <1>5, <1>9 DEF AnswerLoaded, Serving, ConnOK, Conns, Closed, Unconnected
  <1>10. ASSUME Redirect PROVE ConnOK(conn')
    BY <1>2, <1>3, <1>4, <1>10
       DEF Redirect, Serving, Messages, ConnOK, Conns, Closed, Unconnected
  <1>11. ASSUME Problem PROVE ConnOK(conn')
    BY <1>2, <1>3, <1>4, <1>11
       DEF Problem, Serving, Messages, ConnOK, Conns, Closed, Unconnected
  <1> QED
    BY <1>1, <1>6, <1>7, <1>8, <1>9, <1>10, <1>11, WholeNext DEF Outside

LEMMA HandlersInv == ASSUME IInv, FlushNetwork PROVE IInv'
  <1>1. Rest'
    <2>1. Rest
      BY Parts
    <2>2. UNCHANGED <<mOldState, mGame, loaded, given, mCurrentDialog, okDialogs>>
      BY DEF FlushNetwork, ProcessServerVersion, ProcessLoginData, ProcessCharLogin,
             ProcessCharMapInfo, ProcessChangeMapServer, ProcessMapLogin, ProcessOther,
             Dispatched, Flushed, Handle, data
    <2>3. /\ mCharacters' \in {TRUE, FALSE, mCharacters}
          /\ mVersionResponse' \in {TRUE, mVersionResponse}
          /\ worlds' \in 1 .. 2 \cup {worlds}
      BY DEF FlushNetwork, ProcessServerVersion, ProcessLoginData, ProcessCharLogin,
             ProcessCharMapInfo, ProcessChangeMapServer, ProcessMapLogin, ProcessOther,
             Dispatched, Flushed, data
    <2>4. mState' \in States
      BY <2>1 DEF FlushNetwork, ProcessServerVersion, ProcessLoginData, ProcessCharLogin,
             ProcessCharMapInfo, ProcessChangeMapServer, ProcessMapLogin, ProcessOther,
             Dispatched, Flushed, Rest, States, LoginStates, CharStates, TravelStates, Switches
    <2>5. pc' \in {"net", "error", "gui"}
      BY DEF FlushNetwork, ProcessServerVersion, ProcessLoginData, ProcessCharLogin,
             ProcessCharMapInfo, ProcessChangeMapServer, ProcessMapLogin, ProcessOther,
             Dispatched, Flushed, Handle
    <2>6. Flags'
      BY <2>1, <2>2, <2>3, Zenon DEF Rest, Flags, GameExists
    <2> QED
      BY <2>1, <2>2, <2>3, <2>4, <2>5, <2>6 DEF Rest
  <1>2. conn.inbox # <<>> => ConnOK(Taken)
    BY TakenOK
  <1>3. ConnOK(conn')
    BY <1>2, ConnType, DisconnectedOK
       DEF FlushNetwork, ProcessServerVersion, ProcessLoginData, ProcessCharLogin,
           ProcessCharMapInfo, ProcessChangeMapServer, ProcessMapLogin, ProcessOther,
           Dispatched, Flushed, Handle
  <1> QED
    BY <1>1, <1>3, WholeNext

LEMMA EventsInv == ASSUME IInv, NoEvent \/ CloseWindow \/ SlowLogic \/ NoEntry PROVE IInv'
  <1>1. Rest /\ ConnOK(conn)
    BY Parts
  <1>2. UNCHANGED <<mOldState, mGame, data, given, mCurrentDialog, conn>>
    BY DEF NoEvent, CloseWindow, SlowLogic, NoEntry
  <1>3. mState' \in States
    BY <1>1 DEF NoEvent, CloseWindow, SlowLogic, NoEntry, Rest, States
  <1>4. okDialogs' \subseteq Modal \cup {"lost", "forgotten"}
    BY <1>1 DEF NoEvent, CloseWindow, SlowLogic, NoEntry, Rest
  <1>5. pc' \in {"events", "net", "before", "done"}
    BY DEF NoEvent, CloseWindow, SlowLogic, NoEntry
  <1>6. Flags'
    BY <1>1, <1>2, Zenon DEF data, Rest, Flags, GameExists
  <1>7. Rest'
    BY <1>1, <1>2, <1>3, <1>4, <1>5, <1>6 DEF data, Rest
  <1> QED
    BY <1>1, <1>2, <1>7, WholeNext

LEMMA UserInv == ASSUME IInv, UserActs PROVE IInv'
  <1>1. Rest /\ ConnOK(conn)
    BY Parts
  <1>2. UNCHANGED <<mOldState, mGame, loaded, worlds, mVersionResponse, given>> /\ pc' = "slow"
    BY DEF UserActs, NoAction, AnswerDialog, CancelConnection, LogIn, SelectCharacter,
           ChangePassword, LeaveCharacters, OpenQuit, AnswerQuit, AnswerOk, Chooses, User, Acts
  <1>3. mState' \in States
    <2>1. ASSUME AnswerDialog \/ CancelConnection \/ LogIn \/ ChangePassword
          PROVE  mState' \in States
      BY <2>1 DEF AnswerDialog, Answers, CancelConnection, Cancels, LogIn, ChangePassword,
             Chooses, States, LoginStates, CharStates, TravelStates, Switches
    <2>2. ASSUME NoAction \/ SelectCharacter \/ LeaveCharacters \/ OpenQuit \/ AnswerQuit
                   \/ AnswerOk
          PROVE  mState' \in States
      BY <1>1, <2>2 DEF NoAction, SelectCharacter, LeaveCharacters, OpenQuit, AnswerQuit,
             AnswerOk, Rest, States, LoginStates, CharStates, TravelStates, Switches
    <2> QED
      BY <2>1, <2>2 DEF UserActs
  <1>4. mCharacters' \in {FALSE, mCharacters} /\ mCurrentDialog' \in {"locked", mCurrentDialog}
    BY DEF UserActs, NoAction, AnswerDialog, CancelConnection, LogIn, SelectCharacter,
           ChangePassword, LeaveCharacters, OpenQuit, AnswerQuit, AnswerOk, Chooses
  <1>5. okDialogs' \subseteq okDialogs \cup {"quit"}
    BY DEF UserActs, NoAction, AnswerDialog, CancelConnection, LogIn, SelectCharacter,
           ChangePassword, LeaveCharacters, OpenQuit, AnswerQuit, AnswerOk, Chooses, User
  <1>6. conn' \in {conn, Sent(conn, "select"), Sent(conn, "restart")}
    BY DEF UserActs, NoAction, AnswerDialog, CancelConnection, LogIn, SelectCharacter,
           ChangePassword, LeaveCharacters, OpenQuit, AnswerQuit, AnswerOk, Chooses
  <1>7. ConnOK(conn')
    BY <1>1, <1>6, SentOK DEF Requests
  <1>8. Flags'
    BY <1>1, <1>2, <1>4, Zenon DEF Rest, Flags, GameExists
  <1>9. Rest'
    BY <1>1, <1>2, <1>3, <1>4, <1>5, <1>8 DEF Rest, Modal
  <1> QED
    BY <1>7, <1>9, WholeNext

LEMMA BeforeInv == ASSUME IInv, BeforeEntry PROVE IInv'
  <1>1. Rest /\ ConnOK(conn)
    BY Parts
  <1>2. /\ UNCHANGED <<mOldState, mGame, loaded, mCharacters, mVersionResponse, given,
                       mCurrentDialog, okDialogs>>
        /\ pc' = "enter"
    BY DEF BeforeEntry, StateConnectGame1, StateConnectServer1, StateWorldSelect1,
           StateOther1, Before
  <1>3. mState' \in {"PRE_LOGIN", mState} /\ worlds' \in {0, worlds}
    BY DEF BeforeEntry, StateConnectGame1, StateConnectServer1, StateWorldSelect1, StateOther1
  <1>4. ConnOK(conn')
    <2>1. \/ conn' = conn \/ conn' \in Disconnected(conn)
          \/ \E c \in Disconnected(conn) : conn' = Connected(c, "login", "version")
      BY DEF BeforeEntry, StateConnectGame1, StateConnectServer1, StateWorldSelect1,
             StateOther1
    <2> QED
      BY <1>1, <2>1, DisconnectedOK, ConnectedOK DEF Servers, Requests
  <1>5. Flags'
    BY <1>1, <1>2, Zenon DEF Rest, Flags, GameExists
  <1>6. Rest'
    BY <1>1, <1>2, <1>3, <1>5 DEF Rest, States, LoginStates
  <1> QED
    BY <1>4, <1>6, WholeNext

\* What all entries have in common.
LEMMA EnteringStates ==
    ASSUME Entry, ~NoEntry
    PROVE  \E s \in States, to \in States, d \in {"none", "open", "locked"} : Entering(s, to, d)
  <1>1. CASE EnterChooseServer \/ EnterLogin \/ EnterLocal
    BY <1>1 DEF EnterChooseServer, EnterLogin, EnterLocal, States, LoginStates, CharStates
  <1>2. CASE EnterAttempt \/ EnterLoadData \/ EnterGetCharacters \/ EnterCharSelect
    BY <1>2 DEF EnterAttempt, EnterLoadData, EnterGetCharacters, EnterCharSelect, States,
                LoginStates, CharStates
  <1>3. CASE EnterTravel \/ EnterGame \/ EnterAccountResult \/ EnterSwitchServer
    BY <1>3 DEF EnterTravel, EnterGame, EnterAccountResult, EnterSwitchServer, States,
                CharStates, TravelStates, Switches
  <1>4. CASE EnterSwitchLogin \/ EnterSwitchCharacter \/ EnterExit \/ EnterError
    BY <1>4 DEF EnterSwitchLogin, EnterSwitchCharacter, EnterExit, EnterError, States,
                LoginStates, CharStates, Switches
  <1> QED
    BY <1>1, <1>2, <1>3, <1>4 DEF Entry

LEMMA EnteringConn ==
    ASSUME ConnOK(conn), Entry
    PROVE  ConnOK(conn')
  <1>1. CASE EnterChooseServer \/ EnterLogin \/ EnterLocal \/ EnterLoadData
               \/ EnterAccountResult \/ EnterExit \/ NoEntry
    BY <1>1 DEF EnterChooseServer, EnterLogin, EnterLocal, EnterLoadData, EnterAccountResult,
                EnterExit, NoEntry
  <1>2. CASE EnterAttempt \/ EnterCharSelect \/ EnterGame
    <2>1. conn' = conn \/ \E r \in Requests : conn' = Sent(conn, r)
      BY <1>2 DEF EnterAttempt, EnterCharSelect, EnterGame, Requests
    <2> QED
      BY <2>1, SentOK
  <1>3. CASE EnterGetCharacters \/ EnterSwitchLogin
    <2>1. \E c \in Disconnected(conn), to \in Servers, r \in Requests :
             conn' = Connected(c, to, r)
      BY <1>3 DEF EnterGetCharacters, EnterSwitchLogin, Servers, Requests
    <2> QED
      BY <2>1, DisconnectedOK, ConnectedOK
  <1>4. CASE EnterTravel
    BY <1>4, ConnectedOK DEF EnterTravel, Servers, Requests
  <1>5. CASE EnterSwitchServer \/ EnterSwitchCharacter \/ EnterError
    BY <1>5, DisconnectedOK DEF EnterSwitchServer, EnterSwitchCharacter, EnterError
  <1> QED
    BY <1>1, <1>2, <1>3, <1>4, <1>5 DEF Entry

LEMMA EntryInv == ASSUME IInv, Entry, ~NoEntry PROVE IInv'
  <1>1. Rest /\ ConnOK(conn)
    BY Parts
  <1>2. PICK s \in States, to \in States, d \in {"none", "open", "locked"} : Entering(s, to, d)
    BY EnteringStates
  <1>3. mOldState' = s /\ mState' = to /\ mCurrentDialog' = d /\ mOldState # s
    BY <1>2 DEF Entering
  <1>4. UNCHANGED <<worlds, mVersionResponse>> /\ pc' \in {"done", "events"}
    BY <1>2 DEF Entering
  <1>5. loaded' \in {TRUE, FALSE, loaded} /\ given' \subseteq given
    BY DEF Entry, EnterChooseServer, EnterLogin, EnterLocal, EnterAttempt, EnterLoadData,
           EnterGetCharacters, EnterCharSelect, EnterTravel, EnterGame, EnterAccountResult,
           EnterSwitchServer, EnterSwitchLogin, EnterSwitchCharacter, EnterExit, EnterError,
           Keeping, NoEntry
  <1>6. okDialogs' \subseteq okDialogs \cup {"forgotten", "account", "error"}
    BY DEF Entry, EnterChooseServer, EnterLogin, EnterLocal, EnterAttempt, EnterLoadData,
           EnterGetCharacters, EnterCharSelect, EnterTravel, EnterGame, EnterAccountResult,
           EnterSwitchServer, EnterSwitchLogin, EnterSwitchCharacter, EnterExit, EnterError,
           Keeping, NoEntry
  <1>7. Flags'
    <2>1. mCharacters' \in BOOLEAN
      BY <1>2, Zenon DEF Entering, ListKept
    <2>2. mGame' \in BOOLEAN /\ (mGame' <=> s = "GAME")
      <3>1. mGame' = (s = "GAME" \/ GameKept)
        BY <1>2 DEF Entering
      <3>2. ~GameKept
        BY <1>1 DEF Rest, Flags, GameExists, GameKept
      <3> QED
        BY <3>1, <3>2, Zenon
    <2>3. loaded' \in BOOLEAN /\ mVersionResponse' \in BOOLEAN
      BY <1>1, <1>4, <1>5, Zenon DEF Rest, Flags
    <2> QED
      BY <1>3, <2>1, <2>2, <2>3, Zenon DEF Flags, GameExists
  <1>8. Rest'
    BY <1>1, <1>3, <1>4, <1>5, <1>6, <1>7 DEF Rest, Modal
  <1>9. ConnOK(conn')
    BY <1>1, EnteringConn
  <1> QED
    BY <1>8, <1>9, WholeNext

LEMMA StutterInv == ASSUME IInv, UNCHANGED vars PROVE IInv'
  <1>1. Rest /\ ConnOK(conn)
    BY Parts
  <1>2. Rest'
    BY <1>1, RestKept DEF vars, Rest
  <1> QED
    BY <1>1, <1>2, WholeNext DEF vars

LEMMA Inductive == Spec => []IInv
  <1>1. IInv /\ [Next]_vars => IInv'
    BY OutsideInv, HandlersInv, EventsInv, UserInv, BeforeInv, EntryInv, StutterInv
       DEF Next, MainLoop, Entry
  <1> QED
    BY InitInv, <1>1, PTL DEF Spec

\* Every variable keeps its type: dialogs, requests and messages are none but those the
\* code knows, and the buffer holds no more than it may.
THEOREM ClientTypeOK == Spec => []TypeOK
  BY Inductive, PTL DEF IInv

\* Game and state go together: GameExists is the part of GameReady that says so.
THEOREM GameInItsState == Spec => []GameExists
  BY Inductive, PTL DEF IInv

=============================================================================
