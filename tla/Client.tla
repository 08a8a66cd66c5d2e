------------------------------- MODULE Client -------------------------------
(***************************************************************************)
(* Client::gameExec, the state machine every session runs through, with    *)
(* the tmwAthena handlers that change its state, the dialogs the user      *)
(* answers, and the connection they share.                                 *)
(*                                                                         *)
(* The main loop is a sequence of phases.  "events": the window system may *)
(* ask to quit; "net": flushNetwork dispatches messages and looks for an   *)
(* error; "gui": the user answers a dialog; "before": what the loop does   *)
(* in a state in every frame; "enter": when mState is not mOldState, the   *)
(* old state is left and the new one entered.  Handlers, the user and the  *)
(* entry all assign mState, and only the last of them in a frame counts.   *)
(*                                                                         *)
(* The worker thread and the servers run between any two of these steps.   *)
(* A server is modelled from how the handlers use it: it answers what it   *)
(* was asked, in order, or says there is a problem.                        *)
(***************************************************************************)
EXTENDS Integers, Sequences, FiniteSets

CONSTANTS
    Careless,   \* what the user does of: "cancel" the connection to the game server; answer
                \* a "stale" dialog, that an earlier state left open; log in "again" while
                \* the answer to the first time is under way
    MaxInbox,   \* bound: messages received and not dispatched
    MaxAsked    \* bound: requests not answered when the user makes another one

ASSUME ClientAssumption ==
    Careless \subseteq {"cancel", "stale", "again"} /\ MaxInbox \in Nat /\ MaxAsked \in Nat

VARIABLES
    mState, mOldState,
    mGame,             \* whether the Game object exists
    loaded,            \* whether loadData's databases are there
    mCharacters,       \* whether the list of characters is
    worlds,            \* how many worlds the login server named
    mVersionResponse,
    given,             \* what the command line gives and was not used yet
    mCurrentDialog,    \* the dialog of mOldState: "none", "open" or "locked"
    okDialogs,         \* the open dialogs that outlive the state they are opened in
    conn,              \* the connection
    pc

data == <<loaded, mCharacters, worlds, mVersionResponse>>
vars == <<mState, mOldState, mGame, data, given, mCurrentDialog, okDialogs, conn, pc>>

LoginStates == {"PRE_LOGIN", "LOGIN", "LOGIN_ATTEMPT", "REGISTER_PREP", "REGISTER",
                "REGISTER_ATTEMPT", "WORLD_SELECT", "UPDATE"}
CharStates == {"GET_CHARACTERS", "CHAR_SELECT", "CHANGEPASSWORD", "CHANGEPASSWORD_ATTEMPT",
               "CHANGEPASSWORD_SUCCESS", "ACCOUNTCHANGE_ERROR"}
TravelStates == {"CONNECT_GAME", "CHANGE_MAP"}
Switches == {"SWITCH_SERVER", "SWITCH_LOGIN", "SWITCH_WORLD", "SWITCH_CHARACTER"}
States == LoginStates \cup CharStates \cup TravelStates \cup Switches
            \cup {"START", "CHOOSE_SERVER", "CONNECT_SERVER", "LOAD_DATA", "GAME", "ERROR",
                  "EXIT", "FORCE_QUIT"}

----------------------------------------------------------------------------
(* The connection: Network::connect and disconnect, and the two ends.      *)
(* asked is what the server at the other end has not answered; inbox what  *)
(* was received, which stays there when the connection is closed and goes  *)
(* when the next one is made.  Two fields are history, for the properties: *)
(* wanted, the client made the connection and has not given it up since;   *)
(* stray, it has dispatched a message of a connection it had given up.     *)

Servers == {"login", "char", "map"}
Requests == {"version", "login", "characters", "select", "password", "map", "loaded",
             "restart"}
Messages == {"version", "loginData", "loginError", "charLogin", "charError", "charMapInfo",
             "passwordOk", "passwordNo", "mapLogin", "changeMap", "charSwitch", "problem"}

Unconnected == {"IDLE", "NET_ERROR"}

\* The worker may find an error after mState = IDLE and before it is waited for.
Disconnected(c) ==
    {[c EXCEPT !.mState = s, !.asked = <<>>, !.playing = FALSE, !.wanted = FALSE] :
        s \in IF c.mState \in Unconnected THEN {"IDLE"} ELSE Unconnected}

\* A connection that is there already is not replaced; what is sent goes to it.
Connected(c, to, request) ==
    IF c.mState \in Unconnected
    THEN [mState |-> "CONNECTING", server |-> to, inbox |-> <<>>, asked |-> <<request>>,
          playing |-> FALSE, wanted |-> TRUE, stray |-> c.stray]
    ELSE [c EXCEPT !.asked = Append(@, request)]

Sent(c, request) ==
    IF c.mState \in Unconnected THEN c ELSE [c EXCEPT !.asked = Append(@, request)]

Asks(requests) == \E i \in DOMAIN conn.asked : conn.asked[i] \in requests
Received(messages) == \E i \in DOMAIN conn.inbox : conn.inbox[i] \in messages

Environment ==
    /\ pc # "done"
    /\ UNCHANGED <<mState, mOldState, mGame, data, given, mCurrentDialog, okDialogs, pc>>

Establish ==
    /\ conn.mState = "CONNECTING"
    /\ conn' = [conn EXCEPT !.mState = "CONNECTED"]
    /\ Environment

\* An error that the worker finds; or recv() returns 0, the server has closed.
Break ==
    /\ conn.mState \notin Unconnected
    /\ \E s \in IF conn.mState = "CONNECTED" THEN Unconnected ELSE {"NET_ERROR"} :
         conn' = [conn EXCEPT !.mState = s, !.asked = <<>>, !.playing = FALSE]
    /\ Environment

Replies(request) ==
    CASE request = "version" -> {"version"}
      [] request = "login" -> {"loginData", "loginError"}
      [] request = "characters" -> {"charLogin", "charError"}
      [] request = "select" -> {"charMapInfo", "charError"}
      [] request = "password" -> {"passwordOk", "passwordNo"}
      [] request = "map" -> {"mapLogin", "problem"}
      [] request = "restart" -> {"charSwitch"}
      [] OTHER -> {}

Serving ==
    /\ conn.mState = "CONNECTED" /\ Len(conn.inbox) < MaxInbox
    /\ Environment

Answer ==
    /\ Serving /\ conn.asked # <<>>
    /\ \E m \in Replies(Head(conn.asked)) :
         conn' = [conn EXCEPT !.asked = Tail(@), !.inbox = Append(@, m),
                              !.playing = @ /\ m # "charSwitch"]

\* The map server hears that the map is loaded, and may later redirect the player.
AnswerLoaded ==
    /\ Serving /\ conn.asked # <<>> /\ Head(conn.asked) = "loaded"
    /\ conn' = [conn EXCEPT !.asked = Tail(@), !.playing = TRUE]

Redirect ==
    /\ Serving /\ conn.playing
    /\ conn' = [conn EXCEPT !.asked = <<>>, !.playing = FALSE,
                            !.inbox = Append(@, "changeMap")]

Problem ==
    /\ Serving
    /\ conn' = [conn EXCEPT !.asked = <<>>, !.playing = FALSE,
                            !.inbox = Append(@, "problem")]

----------------------------------------------------------------------------
Init ==
    /\ mState = "CHOOSE_SERVER" /\ mOldState = "START"
    /\ mGame = FALSE /\ loaded = FALSE /\ mCharacters = FALSE /\ worlds = 0
    /\ mVersionResponse = FALSE
    /\ given \in SUBSET {"server", "login", "default"}
    /\ mCurrentDialog = "none" /\ okDialogs = {}
    /\ conn = [mState |-> "IDLE", server |-> "login", inbox |-> <<>>, asked |-> <<>>,
               playing |-> FALSE, wanted |-> FALSE, stray |-> FALSE]
    /\ pc = "events"

\* EventsManager::handleEvents.  In the game the loop goes on with this frame.
NoEvent ==
    /\ pc = "events" /\ pc' = "net"
    /\ UNCHANGED <<mState, mOldState, mGame, data, given, mCurrentDialog, okDialogs, conn>>

CloseWindow ==
    /\ pc = "events" /\ pc' = IF mGame THEN "net" ELSE "done"
    /\ mState' = "EXIT"
    /\ UNCHANGED <<mOldState, mGame, data, given, mCurrentDialog, okDialogs, conn>>

----------------------------------------------------------------------------
(* GeneralHandler::flushNetwork: the handlers.                             *)

Handle(m) ==
    /\ pc = "net" /\ conn.inbox # <<>> /\ Head(conn.inbox) = m
    /\ UNCHANGED <<mOldState, mGame, loaded, given, mCurrentDialog, okDialogs>>

Taken == [conn EXCEPT !.inbox = Tail(@), !.stray = @ \/ ~conn.wanted]

ProcessServerVersion ==
    /\ Handle("version")
    /\ mState' = "LOGIN" /\ mVersionResponse' = TRUE
    /\ conn' = Taken /\ UNCHANGED <<mCharacters, worlds, pc>>

\* A mistake the runs must find: the worlds of the last answer are not cleared.
ProcessLoginDataKeeps ==
    /\ Handle("loginData")
    /\ mState' = "WORLD_SELECT" /\ worlds' \in worlds + 1 .. worlds + 2
    /\ conn' = Taken /\ UNCHANGED <<mCharacters, mVersionResponse, pc>>

ProcessLoginData ==
    /\ Handle("loginData")
    /\ mState' = "WORLD_SELECT" /\ worlds' \in 1 .. 2
    /\ conn' = Taken /\ UNCHANGED <<mCharacters, mVersionResponse, pc>>

ProcessCharLogin ==
    /\ Handle("charLogin")
    /\ mState' = "CHAR_SELECT" /\ mCharacters' = TRUE
    /\ conn' = Taken /\ UNCHANGED <<worlds, mVersionResponse, pc>>

ProcessCharMapInfo ==
    /\ Handle("charMapInfo")
    /\ mState' = "CONNECT_GAME" /\ mCharacters' = FALSE
    /\ conn' \in Disconnected(Taken) /\ UNCHANGED <<worlds, mVersionResponse, pc>>

ProcessChangeMapServer ==
    /\ Handle("changeMap")
    /\ mState' = "CHANGE_MAP"
    /\ conn' \in Disconnected(Taken) /\ UNCHANGED <<mCharacters, worlds, mVersionResponse, pc>>

\* pauseDispatch: the messages that follow have to wait for the Game.
ProcessMapLogin ==
    /\ Handle("mapLogin")
    /\ mState' = "GAME" /\ pc' = "error"
    /\ conn' = Taken /\ UNCHANGED <<mCharacters, worlds, mVersionResponse>>

\* processCharPasswordResponse, processCharSwitchResponse, and the handlers of errors:
\* they assign mState and nothing else.
ProcessOther ==
    /\ \E to \in [m : {"passwordOk"}, to : {"CHANGEPASSWORD_SUCCESS"}]
                 \cup [m : {"passwordNo"}, to : {"ACCOUNTCHANGE_ERROR"}]
                 \cup [m : {"charSwitch"}, to : {"SWITCH_CHARACTER"}]
                 \cup [m : {"loginError", "charError", "problem"}, to : {"ERROR"}] :
         Handle(to.m) /\ mState' = to.to
    /\ conn' = Taken /\ UNCHANGED <<mCharacters, worlds, mVersionResponse, pc>>

Dispatched ==
    /\ pc = "net" /\ conn.inbox = <<>> /\ pc' = "error"
    /\ UNCHANGED <<mState, mOldState, mGame, data, given, mCurrentDialog, okDialogs, conn>>

\* A mistake the runs must find: flushNetwork that does not look for an error.
FlushedBlind ==
    /\ pc = "error" /\ pc' = "gui"
    /\ UNCHANGED <<mState, mOldState, mGame, data, given, mCurrentDialog, okDialogs, conn>>

Flushed ==
    /\ pc = "error" /\ pc' = "gui"
    /\ mState' = IF conn.mState = "NET_ERROR" THEN "ERROR" ELSE mState
    /\ UNCHANGED <<mOldState, mGame, data, given, mCurrentDialog, okDialogs, conn>>

FlushNetwork ==
    \/ ProcessServerVersion \/ ProcessLoginData \/ ProcessCharLogin \/ ProcessCharMapInfo
    \/ ProcessChangeMapServer \/ ProcessMapLogin \/ ProcessOther
    \/ Dispatched \/ Flushed

----------------------------------------------------------------------------
(* The user: at most one action in a frame.                                *)

Modal == {"error", "account", "quit"}

Acts == pc = "gui" /\ pc' = "slow"
            /\ UNCHANGED <<mOldState, mGame, loaded, worlds, mVersionResponse, given>>

\* The dialog of a state is answered, unless another one is in front of it.
User(state) ==
    /\ Acts /\ mCurrentDialog # "none" /\ mOldState = state /\ okDialogs \cap Modal = {}
    /\ UNCHANGED okDialogs

Chooses(choices) ==
    /\ \E choice \in choices : User(choice[1]) /\ mState' = choice[2]
    /\ UNCHANGED <<mCharacters, mCurrentDialog, conn>>

NoAction == Acts /\ UNCHANGED <<mState, mCharacters, mCurrentDialog, okDialogs, conn>>

Answers ==
    {<<"CHOOSE_SERVER", "CONNECT_SERVER">>, <<"CHOOSE_SERVER", "EXIT">>,
     <<"CHOOSE_SERVER", "FORCE_QUIT">>,
     <<"LOGIN", "REGISTER_PREP">>, <<"LOGIN", "SWITCH_SERVER">>,
     <<"WORLD_SELECT", "UPDATE">>, <<"WORLD_SELECT", "SWITCH_LOGIN">>,
     <<"UPDATE", "LOAD_DATA">>, <<"UPDATE", "LOGIN">>,
     <<"REGISTER", "LOGIN">>,
     <<"CHANGEPASSWORD", "CHAR_SELECT">>,
     <<"CHANGEPASSWORD", "CHANGEPASSWORD_ATTEMPT">>}

AnswerDialog == Chooses(Answers)

\* ConnectionDialog::action, with the state each dialog is made for.
Cancels ==
    {<<"CONNECT_SERVER", "SWITCH_SERVER">>, <<"REGISTER_PREP", "LOGIN">>,
     <<"LOGIN_ATTEMPT", "SWITCH_SERVER">>, <<"GET_CHARACTERS", "SWITCH_SERVER">>,
     <<"CHANGE_MAP", "SWITCH_CHARACTER">>}
    \cup IF "cancel" \in Careless THEN {<<"CONNECT_GAME", "CHOOSE_SERVER">>} ELSE {}

CancelConnection == Chooses(Cancels)

LoggingIn == Asks({"login"}) \/ Received({"loginData", "loginError"})

\* LoginDialog and RegisterDialog::canSubmit.
LogIn ==
    /\ "again" \in Careless \/ ~LoggingIn
    /\ Len(conn.asked) < MaxAsked
    /\ Chooses({<<"LOGIN", "LOGIN_ATTEMPT">>}
               \cup IF mState = "REGISTER" THEN {<<"REGISTER", "REGISTER_ATTEMPT">>} ELSE {})

\* CharSelectDialog::attemptCharacterSelect; lock() disables all but the way out.
SelectCharacter ==
    /\ User("CHAR_SELECT") /\ mCharacters /\ mCurrentDialog = "open"
    /\ Len(conn.asked) < MaxAsked
    /\ mCurrentDialog' = "locked"
    /\ conn' = Sent(conn, "select") /\ UNCHANGED <<mState, mCharacters>>

ChangePassword ==
    /\ User("CHAR_SELECT") /\ mCurrentDialog = "open"
    /\ mState' = "CHANGEPASSWORD" /\ UNCHANGED <<mCharacters, mCurrentDialog, conn>>

LeaveCharacters ==
    /\ User("CHAR_SELECT")
    /\ mState' = "SWITCH_WORLD" /\ mCharacters' = FALSE /\ UNCHANGED <<mCurrentDialog, conn>>

OpenQuit ==
    /\ Acts /\ mGame /\ okDialogs' = okDialogs \cup {"quit"}
    /\ UNCHANGED <<mState, mCharacters, mCurrentDialog, conn>>

AnswerQuit ==
    /\ Acts /\ "quit" \in okDialogs /\ okDialogs' = okDialogs \ {"quit"}
    /\ \/ mState' \in {"EXIT", mState} /\ UNCHANGED conn
       \/ conn.mState = "CONNECTED" /\ mState' = "SWITCH_SERVER" /\ UNCHANGED conn
       \/ /\ mState = "GAME" /\ Len(conn.asked) < MaxAsked
          /\ conn' = Sent(conn, "restart") /\ UNCHANGED mState
    /\ UNCHANGED <<mCharacters, mCurrentDialog>>

\* The state that has opened a dialog is still there when it is answered.
InTime(d) ==
    \/ d = "account" /\ mOldState \in {"CHANGEPASSWORD_SUCCESS", "ACCOUNTCHANGE_ERROR"}
    \/ d = "error" /\ mOldState = "ERROR"
    \/ d = "lost" /\ mOldState = "GAME"

\* ErrorListener and AccountListener.
AnswerOk ==
    /\ Acts
    /\ \E d \in okDialogs :
         /\ "stale" \in Careless \/ InTime(d)
         /\ okDialogs' = okDialogs \ {d}
         /\ \/ d = "account" /\ mState' = "CHAR_SELECT"
            \/ d \in {"error", "lost", "forgotten"} /\ mState' \in {"CHOOSE_SERVER", "FORCE_QUIT"}
    /\ UNCHANGED <<mCharacters, mCurrentDialog, conn>>

UserActs ==
    \/ NoAction \/ AnswerDialog \/ CancelConnection \/ LogIn
    \/ SelectCharacter \/ ChangePassword \/ LeaveCharacters
    \/ OpenQuit \/ AnswerQuit \/ AnswerOk

\* Game::slowLogic, on its disconnectedDialog.
SlowLogic ==
    /\ pc = "slow" /\ pc' = "before"
    /\ okDialogs' =
         IF ~mGame THEN okDialogs
         ELSE IF conn.mState = "CONNECTED" THEN okDialogs \ {"lost"}
         ELSE IF mState \in {"CHANGE_MAP", "ERROR"} THEN okDialogs
         ELSE okDialogs \cup {"lost"}
    /\ UNCHANGED <<mState, mOldState, mGame, data, given, mCurrentDialog, conn>>

----------------------------------------------------------------------------
(* gameExec, before it looks whether the state has changed.                *)

Before ==
    /\ pc = "before" /\ pc' = "enter"
    /\ UNCHANGED <<mOldState, mGame, loaded, mCharacters, mVersionResponse, given,
                   mCurrentDialog, okDialogs>>

StateConnectGame1 ==
    /\ Before /\ mState = "CONNECT_GAME"
    /\ IF conn.mState = "CONNECTED" /\ conn.server = "login" THEN conn' \in Disconnected(conn)
                                                           ELSE UNCHANGED conn
    /\ UNCHANGED <<mState, worlds>>

\* Net::connectToServer drops what there was of a connection and of worlds.
StateConnectServer1 ==
    /\ Before /\ mState = "CONNECT_SERVER"
    /\ IF mOldState = "CHOOSE_SERVER"
       THEN /\ \E c \in Disconnected(conn) : conn' = Connected(c, "login", "version")
            /\ worlds' = 0 /\ UNCHANGED mState
       ELSE /\ mState' = IF mVersionResponse /\ conn.mState = "CONNECTED" THEN "PRE_LOGIN"
                                                                        ELSE mState
            /\ UNCHANGED <<conn, worlds>>

StateWorldSelect1 ==
    /\ Before /\ mState = "WORLD_SELECT"
    /\ mState' = IF mOldState = "UPDATE" /\ worlds < 2 THEN "PRE_LOGIN" ELSE mState
    /\ UNCHANGED <<conn, worlds>>

StateOther1 ==
    /\ Before /\ mState \notin {"CONNECT_GAME", "CONNECT_SERVER", "WORLD_SELECT"}
    /\ UNCHANGED <<mState, conn, worlds>>

BeforeEntry ==
    StateConnectGame1 \/ StateConnectServer1 \/ StateWorldSelect1 \/ StateOther1

----------------------------------------------------------------------------
(* gameExec: the old state is left and the new one entered.                *)

\* A mistake the runs must find: the list is dropped whatever comes next.
ListDropped == mCharacters /\ mOldState # "CHAR_SELECT"

\* The list of characters is dropped with the dialog that shows it.
ListKept == mCharacters /\ ~(mOldState = "CHAR_SELECT" /\ mState # "CHANGEPASSWORD")

\* A mistake the runs must find: the game is kept when an error ends it.
GameKeptInError == mGame /\ (mOldState # "GAME" \/ mState = "ERROR")

GameKept == mGame /\ mOldState # "GAME"

\* The loop ends when the state that is entered leads to EXIT at once.
Entering(state, to, dialog) ==
    /\ pc = "enter" /\ mState = state /\ mOldState # state
    /\ mOldState' = state /\ mState' = to /\ mCurrentDialog' = dialog
    /\ mCharacters' = ListKept
    /\ mGame' = (state = "GAME" \/ GameKept)
    /\ pc' = IF to = "EXIT" THEN "done" ELSE "events"
    /\ UNCHANGED <<worlds, mVersionResponse>>

Keeping == UNCHANGED <<loaded, given, okDialogs>>

EnterChooseServer ==
    /\ \/ "server" \notin given /\ Entering("CHOOSE_SERVER", "CHOOSE_SERVER", "open")
       \/ "server" \in given /\ Entering("CHOOSE_SERVER", "CONNECT_SERVER", "none")
    /\ given' = given \ {"server"} /\ loaded' = FALSE /\ UNCHANGED <<okDialogs, conn>>

EnterLogin ==
    /\ \/ "login" \notin given /\ Entering("LOGIN", "LOGIN", "open")
       \/ "login" \in given /\ Entering("LOGIN", "LOGIN_ATTEMPT", "none")
    /\ given' = given \ {"login"} /\ UNCHANGED <<loaded, okDialogs, conn>>

\* CONNECT_SERVER, PRE_LOGIN, REGISTER, REGISTER_PREP, CHANGEPASSWORD, WORLD_SELECT and
\* UPDATE: a dialog, or the next state at once.  initUpdatesDir may find an error.
EnterLocal ==
    /\ \/ \E s \in {"CONNECT_SERVER", "REGISTER", "CHANGEPASSWORD", "UPDATE"} :
            Entering(s, s, "open")
       \/ Entering("PRE_LOGIN", "PRE_LOGIN", "none")
       \/ Entering("REGISTER_PREP", "REGISTER", "open")
       \/ worlds > 1 /\ "default" \notin given /\ Entering("WORLD_SELECT", "WORLD_SELECT", "open")
       \/ ~(worlds > 1 /\ "default" \notin given) /\ Entering("WORLD_SELECT", "UPDATE", "none")
       \/ Entering("UPDATE", "LOAD_DATA", "none")
       \/ Entering("UPDATE", "ERROR", "open")
    /\ Keeping /\ UNCHANGED conn

EnterAttempt ==
    /\ \/ Entering("LOGIN_ATTEMPT", "LOGIN_ATTEMPT", "open") /\ conn' = Sent(conn, "login")
       \/ Entering("REGISTER_ATTEMPT", "REGISTER_ATTEMPT", "none") /\ conn' = Sent(conn, "login")
       \/ /\ Entering("CHANGEPASSWORD_ATTEMPT", "CHANGEPASSWORD_ATTEMPT", "none")
          /\ conn' = Sent(conn, "password")
    /\ Keeping

EnterLoadData ==
    /\ Entering("LOAD_DATA", "GET_CHARACTERS", "none")
    /\ loaded' = TRUE /\ UNCHANGED <<given, okDialogs, conn>>

\* A mistake the runs must find: the connection to the login server is kept.
EnterGetCharactersBusy ==
    /\ Entering("GET_CHARACTERS", "GET_CHARACTERS", "open")
    /\ conn' = Connected(conn, "char", "characters")
    /\ Keeping

\* CharServerHandler::connect disconnects first.
EnterGetCharacters ==
    /\ Entering("GET_CHARACTERS", "GET_CHARACTERS", "open")
    /\ \E c \in Disconnected(conn) : conn' = Connected(c, "char", "characters")
    /\ Keeping

\* A character that the command line or the configuration names is chosen at once.
EnterCharSelect ==
    /\ \/ Entering("CHAR_SELECT", "CHAR_SELECT", "open") /\ UNCHANGED conn
       \/ /\ Entering("CHAR_SELECT", "CHAR_SELECT", "locked")
          /\ "default" \in given /\ mCharacters /\ conn' = Sent(conn, "select")
    /\ given' = given \ {"default"} /\ UNCHANGED <<loaded, okDialogs>>

\* A mistake the runs must find: only the first map server is connected to.
EnterTravelOnce ==
    /\ \E s \in TravelStates :
         /\ Entering(s, s, "open")
         /\ conn' = IF s = "CONNECT_GAME" THEN Connected(conn, "map", "map") ELSE conn
    /\ Keeping

EnterTravel ==
    /\ \E s \in TravelStates : Entering(s, s, "open")
    /\ conn' = Connected(conn, "map", "map")
    /\ Keeping

\* The new Game forgets the disconnectedDialog of the last one, which stays open.
EnterGame ==
    /\ Entering("GAME", "GAME", "none")
    /\ okDialogs' = IF "lost" \in okDialogs THEN (okDialogs \ {"lost"}) \cup {"forgotten"}
                                            ELSE okDialogs
    /\ conn' = Sent(conn, "loaded") /\ UNCHANGED <<loaded, given>>

EnterAccountResult ==
    /\ \E s \in {"CHANGEPASSWORD_SUCCESS", "ACCOUNTCHANGE_ERROR"} : Entering(s, s, "none")
    /\ okDialogs' = okDialogs \cup {"account"} /\ UNCHANGED <<loaded, given, conn>>

\* A mistake the runs must find: the connection outlives the choice of another server.
EnterSwitchServerBusy ==
    /\ Entering("SWITCH_SERVER", "CHOOSE_SERVER", "none")
    /\ Keeping /\ UNCHANGED conn

EnterSwitchServer ==
    /\ Entering("SWITCH_SERVER", "CHOOSE_SERVER", "none")
    /\ conn' \in Disconnected(conn) /\ Keeping

EnterSwitchLogin ==
    /\ \/ Entering("SWITCH_WORLD", IF worlds > 1 THEN "LOGIN_ATTEMPT" ELSE "LOGIN", "none")
       \/ Entering("SWITCH_LOGIN", "LOGIN", "none")
    /\ \E c \in Disconnected(conn) : conn' = Connected(c, "login", "version")
    /\ Keeping

EnterSwitchCharacter ==
    /\ Entering("SWITCH_CHARACTER", "GET_CHARACTERS", "none")
    /\ conn' \in Disconnected(conn) /\ Keeping

EnterExit ==
    /\ Entering("FORCE_QUIT", "EXIT", "none") \/ Entering("EXIT", "EXIT", "none")
    /\ Keeping /\ UNCHANGED conn

EnterError ==
    /\ Entering("ERROR", "ERROR", "none")
    /\ okDialogs' = okDialogs \cup {"error"}
    /\ conn' \in Disconnected(conn) /\ UNCHANGED <<loaded, given>>

NoEntry ==
    /\ pc = "enter" /\ mState = mOldState /\ pc' = "events"
    /\ UNCHANGED <<mState, mOldState, mGame, data, given, mCurrentDialog, okDialogs, conn>>

Entry ==
    \/ EnterChooseServer \/ EnterLogin \/ EnterLocal \/ EnterAttempt \/ EnterLoadData
    \/ EnterGetCharacters \/ EnterCharSelect \/ EnterTravel \/ EnterGame
    \/ EnterAccountResult \/ EnterSwitchServer \/ EnterSwitchLogin \/ EnterSwitchCharacter
    \/ EnterExit \/ EnterError \/ NoEntry

----------------------------------------------------------------------------
MainLoop ==
    NoEvent \/ CloseWindow \/ FlushNetwork \/ UserActs \/ SlowLogic \/ BeforeEntry \/ Entry

Outside == Establish \/ Break \/ Answer \/ AnswerLoaded \/ Redirect \/ Problem

Next == MainLoop \/ Outside

\* The main loop runs on, and the user does not act in every one of its frames.
Spec == Init /\ [][Next]_vars /\ WF_vars(MainLoop) /\ SF_vars(NoAction)

----------------------------------------------------------------------------
TypeOK ==
    /\ mState \in States /\ mOldState \in States
    /\ mGame \in BOOLEAN /\ loaded \in BOOLEAN /\ mCharacters \in BOOLEAN
    /\ worlds \in 0 .. 2 /\ mVersionResponse \in BOOLEAN
    /\ given \subseteq {"server", "login", "default"}
    /\ mCurrentDialog \in {"none", "open", "locked"}
    /\ okDialogs \subseteq Modal \cup {"lost", "forgotten"}
    /\ conn \in [mState : {"CONNECTING", "CONNECTED"} \cup Unconnected, server : Servers,
                 inbox : Seq(Messages), asked : Seq(Requests),
                 playing : BOOLEAN, wanted : BOOLEAN, stray : BOOLEAN]
    /\ Len(conn.inbox) <= MaxInbox
    /\ pc \in {"events", "net", "error", "gui", "slow", "before", "enter", "done"}

\* The user does one of the things that Careless allows.
Lapse ==
    \/ User("CONNECT_GAME") /\ mState' = "CHOOSE_SERVER"
    \/ LogIn /\ LoggingIn
    \/ AnswerOk /\ \E d \in okDialogs : okDialogs' = okDialogs \ {d} /\ ~InTime(d)

\* A frame begins and nothing is under way between the states.
Settled == pc = "events" /\ mState = mOldState

\* Which server a state talks to.
RightFor(state, server) ==
    \/ server = "login" /\ state \in LoginStates \cup {"CONNECT_SERVER"}
    \/ server = "char" /\ state \in CharStates
    \/ server = "map" /\ state \in TravelStates \cup {"GAME"}

\* A live connection is the one that the state talks over: none is left behind by a state
\* that was left, and no state but these has one.  And as long as nothing that a server said
\* before it was given up is acted on, every such state has the connection it needs.
RightServer ==
    Settled =>
        /\ conn.mState \notin Unconnected => RightFor(mState, conn.server)
        /\ ~conn.stray /\ (\E s \in Servers : RightFor(mState, s))
               => conn.wanted /\ RightFor(mState, conn.server)

\* The Game exists in the state GAME and in no other, and never without its databases,
\* which CHOOSE_SERVER unloads and only LOAD_DATA brings back.
GameReady == (mGame <=> mOldState = "GAME") /\ (mGame => loaded)

\* The list that the character dialog shows, and the pointers into it, are not dropped
\* while the dialog is there.
CharactersShown == Settled /\ mState = "CHAR_SELECT" => mCharacters

Awaits(state, requests, messages) ==
    Settled /\ mState = state
        => \/ Asks(requests) \/ Received(messages \cup {"problem"})
           \/ conn.mState \in Unconnected /\ (conn.wanted \/ conn.stray)

\* A state that waits for an answer has asked for it: nobody waits for what no server was
\* asked, unless the connection broke.
WaitsForAnswer ==
    /\ \A s \in {"CONNECT_SERVER", "PRE_LOGIN"} : Awaits(s, {"version"}, {"version"})
    /\ \A s \in {"LOGIN_ATTEMPT", "REGISTER_ATTEMPT"} :
         Awaits(s, {"login"}, {"loginData", "loginError"})
    /\ Awaits("GET_CHARACTERS", {"characters"}, {"charLogin", "charError"})
    /\ Awaits("CHANGEPASSWORD_ATTEMPT", {"password"}, {"passwordOk", "passwordNo"})
    /\ \A s \in TravelStates : Awaits(s, {"map"}, {"mapLogin"})

\* An error of the connection is shown, unless the connection is given up first.
ErrorShown ==
    (conn.mState = "NET_ERROR")
        ~> (conn.mState # "NET_ERROR" \/ "error" \in okDialogs \/ pc = "done")

\* Sessions run as Session says, until a message of a connection given up is acted on.
stage ==
    IF conn.stray THEN "over"
    ELSE CASE mOldState \in LoginStates \cup {"LOAD_DATA", "SWITCH_LOGIN", "SWITCH_WORLD"}
                 -> "login"
           [] mOldState \in CharStates \cup {"SWITCH_CHARACTER"} -> "characters"
           [] mOldState \in TravelStates -> "travelling"
           [] mOldState = "GAME" -> "game"
           [] mOldState \in {"EXIT", "FORCE_QUIT"} -> "over"
           [] OTHER -> "out"

S == INSTANCE Session
SessionSpec == S!Spec

\* What QuitDialog's constructor takes for granted: in the states it lists nobody is
\* logged in.  LOGIN, LOGIN_ATTEMPT, UPDATE and LOAD_DATA are talked over with the login
\* server; a character server or a map server has let the player in.
NotLoggedIn ==
    Settled /\ mState \in {"CHOOSE_SERVER", "CONNECT_SERVER", "LOGIN", "PRE_LOGIN",
                           "LOGIN_ATTEMPT", "UPDATE", "LOAD_DATA"}
        => ~(conn.mState = "CONNECTED" /\ conn.server \in {"char", "map"})
=============================================================================
