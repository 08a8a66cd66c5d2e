------------------------ MODULE ClientSession_proofs ------------------------
(***************************************************************************)
(* Theorems about a session: which server the client talks to in which     *)
(* state, that it has asked for what it waits for, that the game has its   *)
(* data and the dialog its characters, and that sessions run as Session    *)
(* says; for every bound on messages and requests and whatever Careless    *)
(* allows, in every behaviour in which the user does none of it.           *)
(***************************************************************************)
EXTENDS Client_proofs

\* What the code does not see to: the user waits for answers and answers what is asked.
Careful == [][~Lapse]_vars

Live(c) == c.mState \notin Unconnected

----------------------------------------------------------------------------
(* What servers are asked, and what they say.                              *)

AskedOf(s) ==
    CASE s = "login" -> {"version", "login"}
      [] s = "char" -> {"characters", "select", "password"}
      [] s = "map" -> {"map", "loaded", "restart"}

SaidBy(s) ==
    CASE s = "login" -> {"version", "loginData", "loginError", "problem"}
      [] s = "char" -> {"charLogin", "charError", "charMapInfo", "passwordOk", "passwordNo",
                        "problem"}
      [] s = "map" -> {"mapLogin", "changeMap", "charSwitch", "problem"}

\* Nothing but these is unanswered, and nothing but these was received.
Only(c, requests, messages) ==
    /\ \A i \in DOMAIN c.asked : c.asked[i] \in requests
    /\ \A i \in DOMAIN c.inbox : c.inbox[i] \in messages \cup {"problem"}

Quiet(c) == Only(c, {}, {})

\* At most one request, unanswered or with its answer not dispatched.
AtMostOne(c) ==
    /\ \A i, j \in DOMAIN c.asked : i = j
    /\ \A i, j \in DOMAIN c.inbox : c.inbox[i] # "problem" /\ c.inbox[j] # "problem" => i = j
    /\ \A i \in DOMAIN c.asked, j \in DOMAIN c.inbox : c.inbox[j] = "problem"

\* The version first, and then at most one attempt to log in.
VersionFirst(c) ==
    /\ \A i, j \in DOMAIN c.asked : i < j => c.asked[i] = "version" /\ c.asked[j] = "login"
    /\ \A i, j \in DOMAIN c.inbox :
         i < j /\ c.inbox[i] # "problem" /\ c.inbox[j] # "problem"
            => c.inbox[i] = "version" /\ c.inbox[j] # "version"
    /\ \A i \in DOMAIN c.asked, j \in DOMAIN c.inbox :
         c.inbox[j] # "problem" => c.inbox[j] = "version" /\ c.asked[i] = "login"

Kinds(c) ==
    /\ Only(c, AskedOf(c.server), SaidBy(c.server))
    /\ c.playing => c.server = "map"
    /\ c.mState = "CONNECTING" => c.inbox = <<>>

----------------------------------------------------------------------------
(* Where the client is while it wants a connection.                        *)

Home(s) ==
    CASE s = "login" -> LoginStates \cup {"CONNECT_SERVER", "LOAD_DATA", "SWITCH_LOGIN",
                                          "SWITCH_WORLD"}
      [] s = "char" -> CharStates
      [] s = "map" -> TravelStates \cup {"GAME"}

Ways(s) ==
    Home(s) \cup {"SWITCH_SERVER", "ERROR", "EXIT"}
      \cup CASE s = "login" -> {}
             [] s = "char" -> {"SWITCH_WORLD"}
             [] s = "map" -> {"SWITCH_CHARACTER"}

\* The connection to the map server broke, and the user left with the dialog that says so.
GoneFromGame ==
    /\ conn.server = "map" /\ ~Live(conn) /\ conn.inbox = <<>>
    /\ \/ mOldState = "GAME" /\ pc \in {"slow", "before", "enter"}
          /\ mState \in {"CHOOSE_SERVER", "FORCE_QUIT"}
       \/ /\ mOldState = "CHOOSE_SERVER"
          /\ mState \in {"CHOOSE_SERVER", "CONNECT_SERVER", "FORCE_QUIT", "ERROR", "EXIT"}
          /\ mState = "CONNECT_SERVER" => pc # "enter"

Placed ==
    conn.wanted /\ pc # "done" =>
        \/ mOldState \in Home(conn.server) /\ mState \in Ways(conn.server)
        \/ conn.server = "login" /\ mOldState = "LOAD_DATA" /\ mState = "GET_CHARACTERS"
        \/ /\ conn.server = "login" /\ pc = "enter"
           /\ mOldState = "CHOOSE_SERVER" /\ mState = "CONNECT_SERVER"
        \/ GoneFromGame

BeforeGame(c) == AtMostOne(c) /\ Only(c, {"map"}, {"mapLogin"}) /\ ~c.playing
Arrived(c) == Only(c, {"restart"}, {"charSwitch"}) /\ ~c.playing
InGame(c) == Only(c, {"loaded", "restart"}, {"changeMap", "charSwitch"})

\* The map server is asked to let the player in once, and says nothing of other maps
\* before the game has told it that the map is there.
MapLine ==
    conn.wanted /\ conn.server = "map" /\ pc # "done" =>
        \/ /\ mOldState \in TravelStates /\ mState # "GAME" /\ BeforeGame(conn)
           /\ mState \in TravelStates => mState = mOldState
        \/ /\ mOldState \in TravelStates /\ mState \notin TravelStates /\ Arrived(conn)
           /\ pc \notin {"events", "net"}
        \/ mOldState \in {"GAME", "CHOOSE_SERVER"} /\ mState \notin TravelStates /\ InGame(conn)

\* The dialog that says the connection is lost is right.
LostRight ==
    /\ "lost" \in okDialogs /\ mOldState = "GAME" =>
         /\ ~Live(conn)
         /\ conn.wanted /\ pc \in {"error", "gui"} => conn.inbox = <<>>
    /\ conn.mState = "CONNECTING" => "GAME" \notin {mState, mOldState}

PInv == Kinds(conn) /\ Placed /\ MapLine /\ LostRight

----------------------------------------------------------------------------
(* What is unanswered, in which state.                                     *)

\* The character server is asked one thing at a time; the dialog of the characters is
\* locked while it is, and no other state of theirs is entered before it has answered.
CharLine ==
    /\ conn.server = "char" => AtMostOne(conn)
    /\ conn.server = "char" /\ conn.wanted /\ pc # "done" =>
         /\ mOldState = "GET_CHARACTERS" => Only(conn, {"characters"}, {"charLogin", "charError"})
         /\ mOldState = "CHAR_SELECT" =>
              /\ Only(conn, {"select"}, {"charMapInfo", "charError"})
              /\ mCurrentDialog # "locked" => Quiet(conn)
              /\ pc \in {"events", "net", "error", "gui"} =>
                   mState \notin CharStates \ {"CHAR_SELECT"}
         /\ mOldState = "CHANGEPASSWORD_ATTEMPT" =>
              Only(conn, {"password"}, {"passwordOk", "passwordNo"})
         /\ mOldState \in {"CHANGEPASSWORD", "CHANGEPASSWORD_SUCCESS", "ACCOUNTCHANGE_ERROR"}
               \/ mState \in CharStates \ {mOldState} => Quiet(conn)

Chosen == {"WORLD_SELECT", "UPDATE", "LOAD_DATA"}

\* The login server is asked once whether it lets the player in, and not again before it
\* has answered.
LoginLine ==
    conn.server = "login" /\ conn.wanted /\ pc # "done" =>
        /\ VersionFirst(conn)
        /\ mOldState \in Chosen \/ mState \in Chosen \cup {"GET_CHARACTERS"} => Quiet(conn)
        /\ mOldState \in {"UPDATE", "LOAD_DATA"} => mState # "WORLD_SELECT"
        /\ mState \in {"LOGIN_ATTEMPT", "REGISTER_ATTEMPT"} /\ mState # mOldState => ~LoggingIn

\* What the command line gives to log in with was not used before the first login.
FirstLogin ==
    "login" \in given =>
        /\ mOldState \in {"START", "CHOOSE_SERVER", "CONNECT_SERVER", "PRE_LOGIN",
                          "SWITCH_SERVER", "ERROR", "EXIT", "FORCE_QUIT"}
        /\ mState \in {"CHOOSE_SERVER", "CONNECT_SERVER", "PRE_LOGIN", "LOGIN",
                       "SWITCH_SERVER", "ERROR", "EXIT", "FORCE_QUIT"}
        /\ conn.server = "login" /\ Only(conn, {"version"}, {"version"})

LInv == CharLine /\ LoginLine /\ FirstLogin

----------------------------------------------------------------------------
(* What was received of a connection given up, and what follows.           *)

SomeAnswer == \E i \in DOMAIN conn.inbox : conn.inbox[i] # "problem"

\* It is dispatched in the first frame after it.
LeftOver ==
    /\ ~conn.wanted /\ pc # "done" /\ SomeAnswer =>
         /\ mOldState \in {"ERROR", "SWITCH_SERVER", "SWITCH_CHARACTER", "GAME"}
         /\ pc \in {"events", "net"}
    /\ \A i, j \in DOMAIN conn.inbox :
         conn.inbox[i] = "mapLogin" /\ i # j => conn.inbox[j] = "problem"

\* Without a connection, and before any of it is dispatched.
Nowhere ==
    ~conn.wanted /\ ~conn.stray /\ pc # "done" =>
        \/ /\ mOldState \in {"START", "CHOOSE_SERVER", "ERROR", "SWITCH_SERVER"}
           /\ mState \in {"CHOOSE_SERVER", "ERROR", "EXIT", "FORCE_QUIT"}
        \/ mOldState = "CHOOSE_SERVER" /\ mState = "CONNECT_SERVER" /\ pc # "enter"
        \/ mOldState = "SWITCH_CHARACTER" /\ mState \in {"GET_CHARACTERS", "ERROR", "EXIT"}
        \/ /\ mOldState = "CHAR_SELECT" /\ pc # "events" /\ mCurrentDialog = "locked"
           /\ mState \in {"CONNECT_GAME", "ERROR", "SWITCH_WORLD", "EXIT"}
        \/ /\ mOldState = "GAME" /\ pc # "events"
           /\ mState \in {"CHANGE_MAP", "ERROR", "EXIT", "CHOOSE_SERVER", "FORCE_QUIT"}

NeedData == CharStates \cup TravelStates \cup {"GAME", "SWITCH_CHARACTER"}

\* The databases are there wherever the way leads to the game.
DataThere ==
    /\ mState \in NeedData \/ mOldState \in NeedData => loaded
    /\ conn.server \in {"char", "map"} /\ (Live(conn) \/ SomeAnswer) => loaded

Password == {"CHANGEPASSWORD", "CHANGEPASSWORD_ATTEMPT", "CHANGEPASSWORD_SUCCESS",
             "ACCOUNTCHANGE_ERROR"}

\* The list of characters is there wherever the way leads back to it.
ListThere ==
    /\ mState \in Password \cup {"CHAR_SELECT"} \/ mOldState \in Password => mCharacters
    /\ mOldState = "CHAR_SELECT" =>
         /\ mCurrentDialog # "locked" /\ pc \in {"events", "net", "error", "gui"} => mCharacters
         /\ mState \notin Password \ {"CHANGEPASSWORD"}
    /\ Asks({"password"}) \/ Received({"passwordOk", "passwordNo"}) => mCharacters

Owed(requests, messages) == Asks(requests) \/ Received(messages \cup {"problem"})

\* While a connection lives, what a state waits for is on its way.
OnItsWay ==
    Live(conn) /\ pc # "done" =>
        /\ mState \in {"CONNECT_SERVER", "PRE_LOGIN"} => Owed({"version"}, {"version"})
        /\ mState = mOldState =>
             /\ mState \in {"LOGIN_ATTEMPT", "REGISTER_ATTEMPT"} =>
                  Owed({"login"}, {"loginData", "loginError"})
             /\ mState = "GET_CHARACTERS" => Owed({"characters"}, {"charLogin", "charError"})
             /\ mState = "CHANGEPASSWORD_ATTEMPT" =>
                  Owed({"password"}, {"passwordOk", "passwordNo"})
             /\ mState \in TravelStates => Owed({"map"}, {"mapLogin"})

\* These states lead on at once and nothing leads back to them; with EXIT the loop ends.
LeadsOn ==
    /\ mOldState \in {"LOAD_DATA", "SWITCH_LOGIN", "SWITCH_WORLD"} => mState # mOldState
    /\ mOldState \in {"EXIT", "FORCE_QUIT"} => pc = "done"

WInv == LeadsOn /\ LeftOver /\ Nowhere /\ DataThere /\ ListThere /\ OnItsWay

----------------------------------------------------------------------------
(* What the operations of the connection do to what is said of it.         *)

LEMMA TakenIs ==
    ASSUME ConnOK(conn), conn.inbox # <<>>
    PROVE  /\ DOMAIN Taken.inbox = 1 .. Len(conn.inbox) - 1
           /\ \A i \in DOMAIN Taken.inbox : Taken.inbox[i] = conn.inbox[i + 1]
           /\ 1 \in DOMAIN conn.inbox /\ conn.inbox[1] = Head(conn.inbox)
           /\ \A i \in DOMAIN Taken.inbox : i + 1 \in DOMAIN conn.inbox
           /\ Taken.asked = conn.asked /\ Taken.server = conn.server
           /\ Taken.mState = conn.mState /\ Taken.playing = conn.playing
           /\ Taken.wanted = conn.wanted
           /\ Taken.stray = (conn.stray \/ ~conn.wanted)
  BY DEF ConnOK, Conns, Taken

LEMMA TakenKeeps ==
    ASSUME ConnOK(conn), conn.inbox # <<>>
    PROVE  /\ \A R, M : Only(conn, R, M) => Only(Taken, R, M)
           /\ AtMostOne(conn) => AtMostOne(Taken)
           /\ VersionFirst(conn) => VersionFirst(Taken)
           /\ Kinds(conn) => Kinds(Taken)
  <1>1. \A R, M : Only(conn, R, M) => Only(Taken, R, M)
    BY TakenIs DEF Only
  <1>2. AtMostOne(conn) => AtMostOne(Taken)
    <2> SUFFICES ASSUME AtMostOne(conn) PROVE AtMostOne(Taken)
      OBVIOUS
    <2>1. \A i, j \in DOMAIN Taken.asked : i = j
      BY TakenIs DEF AtMostOne
    <2>2. ASSUME NEW i \in DOMAIN Taken.inbox, NEW j \in DOMAIN Taken.inbox,
                 Taken.inbox[i] # "problem", Taken.inbox[j] # "problem"
          PROVE  i = j
      <3>1. i + 1 = j + 1
        BY <2>2, TakenIs DEF AtMostOne
      <3>2. i \in Int /\ j \in Int
        BY <2>2, TakenIs
      <3> QED
        BY <3>1, <3>2
    <2>3. \A i \in DOMAIN Taken.asked, j \in DOMAIN Taken.inbox : Taken.inbox[j] = "problem"
      BY TakenIs DEF AtMostOne
    <2> QED
      BY <2>1, <2>2, <2>3 DEF AtMostOne
  <1>3. VersionFirst(conn) => VersionFirst(Taken)
    <2> SUFFICES ASSUME VersionFirst(conn) PROVE VersionFirst(Taken)
      OBVIOUS
    <2>1. ASSUME NEW i \in DOMAIN Taken.inbox, NEW j \in DOMAIN Taken.inbox, i < j,
                 Taken.inbox[i] # "problem", Taken.inbox[j] # "problem"
          PROVE  Taken.inbox[i] = "version" /\ Taken.inbox[j] # "version"
      <3>1. i + 1 < j + 1
        BY <2>1, TakenIs
      <3> QED
        BY <2>1, <3>1, TakenIs DEF VersionFirst
    <2>2. \A i \in DOMAIN Taken.asked, j \in DOMAIN Taken.inbox :
             Taken.inbox[j] # "problem"
                => Taken.inbox[j] = "version" /\ Taken.asked[i] = "login"
      BY TakenIs DEF VersionFirst
    <2>3. \A i, j \in DOMAIN Taken.asked :
             i < j => Taken.asked[i] = "version" /\ Taken.asked[j] = "login"
      BY TakenIs DEF VersionFirst
    <2> QED
      BY <2>1, <2>2, <2>3 DEF VersionFirst
  <1>4. conn.mState # "CONNECTING" \/ ~Kinds(conn)
    BY DEF Kinds
  <1> QED
    BY <1>1, <1>2, <1>3, <1>4, TakenIs DEF Kinds

\* What is left when the answer has been taken.
LEMMA TakenQuiet ==
    ASSUME ConnOK(conn), conn.inbox # <<>>, Head(conn.inbox) # "problem",
           \/ AtMostOne(conn)
           \/ VersionFirst(conn) /\ Head(conn.inbox) # "version"
    PROVE  Quiet(Taken)
  <1>1. \A i \in DOMAIN Taken.inbox : Taken.inbox[i] = "problem"
    <2> SUFFICES ASSUME NEW i \in DOMAIN Taken.inbox, Taken.inbox[i] # "problem" PROVE FALSE
      OBVIOUS
    <2>1. i + 1 # 1 /\ i + 1 > 1 /\ conn.inbox[i + 1] # "problem"
      BY TakenIs
    <2> QED
      BY <2>1, TakenIs DEF AtMostOne, VersionFirst
  <1>2. \A i \in DOMAIN Taken.asked : FALSE
    BY TakenIs DEF AtMostOne, VersionFirst
  <1> QED
    BY <1>1, <1>2 DEF Quiet, Only

LEMMA DisconnectedIs ==
    ASSUME NEW c, c \in Conns, NEW d \in Disconnected(c)
    PROVE  /\ d.asked = <<>> /\ d.inbox = c.inbox /\ d.server = c.server
           /\ d.stray = c.stray /\ ~d.wanted /\ ~d.playing /\ ~Live(d)
           /\ d.mState # "CONNECTING" /\ d.mState # "CONNECTED"
           /\ DOMAIN d.asked = {}
  <1>1. PICK s \in Unconnected :
            d = [c EXCEPT !.mState = s, !.asked = <<>>, !.playing = FALSE, !.wanted = FALSE]
    BY DEF Disconnected, Unconnected
  <1>2. \A e : e = <<>> => DOMAIN e = {}
    OBVIOUS
  <1>3. d.asked = <<>>
    BY <1>1 DEF Conns
  <1>4. DOMAIN d.asked = {}
    BY <1>2, <1>3
  <1> QED
    BY <1>1, <1>3, <1>4 DEF Conns, Live, Unconnected

LEMMA ConnectedIs ==
    ASSUME NEW c, c \in Conns, ~Live(c), NEW to, NEW request, NEW d, d = Connected(c, to, request)
    PROVE  /\ d.asked = <<request>> /\ d.inbox = <<>> /\ d.server = to
           /\ d.stray = c.stray /\ d.wanted /\ ~d.playing /\ d.mState = "CONNECTING" /\ Live(d)
           /\ DOMAIN d.asked = {1} /\ d.asked[1] = request /\ DOMAIN d.inbox = {}
  BY DEF Connected, Conns, Live, Unconnected

LEMMA SentIs ==
    ASSUME NEW c, c \in Conns, NEW request, NEW d, d = Sent(c, request)
    PROVE  /\ d.inbox = c.inbox /\ d.server = c.server /\ d.stray = c.stray
           /\ d.wanted = c.wanted /\ d.playing = c.playing /\ d.mState = c.mState
           /\ ~Live(c) => d = c
           /\ Live(c) => /\ DOMAIN d.asked = 1 .. Len(c.asked) + 1
                         /\ \A i \in DOMAIN c.asked : i \in DOMAIN d.asked
                                                      /\ d.asked[i] = c.asked[i]
                         /\ Len(c.asked) + 1 \in DOMAIN d.asked
                         /\ d.asked[Len(c.asked) + 1] = request
                         /\ \A i \in DOMAIN d.asked :
                              i \in DOMAIN c.asked \/ i = Len(c.asked) + 1
  BY DEF Sent, Conns, Live

LEMMA SentKeeps ==
    ASSUME NEW c, c \in Conns, NEW request, NEW d, d = Sent(c, request)
    PROVE  /\ \A R, M : Only(c, R, M) => Only(d, R \cup {request}, M)
           /\ Quiet(c) => AtMostOne(d)
  <1>1. \A R, M : Only(c, R, M) => Only(d, R \cup {request}, M)
    BY SentIs DEF Only
  <1>2. Quiet(c) => AtMostOne(d)
    <2>1. Quiet(c) => Len(c.asked) = 0
      BY DEF Quiet, Only, Conns
    <2> QED
      BY <2>1, SentIs DEF Quiet, Only, AtMostOne
  <1> QED
    BY <1>1, <1>2

LEMMA OnlyMore ==
    ASSUME NEW c, NEW R, NEW M, NEW R2, NEW M2, Only(c, R, M),
           R \subseteq R2, M \subseteq M2 \cup {"problem"}
    PROVE  Only(c, R2, M2)
  BY DEF Only

LEMMA DisconnectedKinds ==
    ASSUME NEW c, c \in Conns, Kinds(c), NEW d \in Disconnected(c)
    PROVE  Kinds(d)
  BY DisconnectedIs DEF Kinds, Only

LEMMA ConnectedKinds ==
    ASSUME NEW c, c \in Conns, ~Live(c), NEW to, NEW request \in AskedOf(to),
           NEW d, d = Connected(c, to, request)
    PROVE  Kinds(d)
  BY ConnectedIs DEF Kinds, Only

LEMMA SentKinds ==
    ASSUME NEW c, c \in Conns, Kinds(c), NEW request, Live(c) => request \in AskedOf(c.server),
           NEW d, d = Sent(c, request)
    PROVE  Kinds(d)
  BY SentIs DEF Kinds, Only

----------------------------------------------------------------------------
(* What the worker and the server do to the connection.                    *)

LEMMA OutsideFrame ==
    ASSUME IInv, Outside
    PROVE  /\ Live(conn) /\ conn.wanted /\ pc # "done"
           /\ UNCHANGED <<mState, mOldState, mGame, data, given, mCurrentDialog, okDialogs, pc>>
           /\ conn'.server = conn.server /\ conn'.stray = conn.stray /\ conn'.wanted
           /\ conn'.mState = "CONNECTING" =>
                 conn.mState = "CONNECTING" /\ conn'.inbox = conn.inbox
           /\ conn'.playing => conn.playing \/ (conn.asked # <<>> /\ Head(conn.asked) = "loaded")
  BY ConnType DEF ConnOK, Conns, Closed, Live, Unconnected, Outside, Establish, Break, Answer,
     AnswerLoaded, Redirect, Problem, Serving, Environment

\* What is unanswered becomes less; what is received, by one message at most.
LEMMA OutsideQueues ==
    ASSUME IInv, Outside
    PROVE  \/ /\ conn'.asked \in {conn.asked, <<>>} /\ conn'.inbox = conn.inbox
           \/ /\ conn.asked # <<>> /\ conn'.asked = Tail(conn.asked)
              /\ \E m \in Replies(Head(conn.asked)) : conn'.inbox = Append(conn.inbox, m)
           \/ /\ conn.asked # <<>> /\ conn'.asked = Tail(conn.asked)
              /\ Head(conn.asked) = "loaded" /\ conn'.inbox = conn.inbox
           \/ /\ conn'.asked = <<>> /\ conn.playing
              /\ conn'.inbox = Append(conn.inbox, "changeMap")
           \/ conn'.asked = <<>> /\ conn'.inbox = Append(conn.inbox, "problem")
  BY ConnType DEF ConnOK, Conns, Outside, Establish, Break, Answer, AnswerLoaded, Redirect,
     Problem, Serving, Environment

\* The same, one element at a time.
LEMMA OutsideAsked ==
    ASSUME IInv, Outside, NEW i \in DOMAIN conn'.asked
    PROVE  /\ i \in Int /\ i > 0
           /\ \E k \in DOMAIN conn.asked : conn'.asked[i] = conn.asked[k]
           /\ conn'.asked # conn.asked =>
                i + 1 \in DOMAIN conn.asked /\ conn'.asked[i] = conn.asked[i + 1]
  <1>1. conn.asked \in Seq(Requests)
    BY ConnType DEF ConnOK, Conns
  <1>2. CASE conn'.asked = conn.asked
    BY <1>1, <1>2
  <1>3. CASE conn'.asked = <<>>
    BY <1>3
  <1>4. CASE conn.asked # <<>> /\ conn'.asked = Tail(conn.asked)
    BY <1>1, <1>4
  <1> QED
    BY <1>2, <1>3, <1>4, OutsideQueues

LEMMA OutsideOld ==
    ASSUME IInv, Outside, NEW i \in DOMAIN conn.inbox
    PROVE  i \in DOMAIN conn'.inbox /\ conn'.inbox[i] = conn.inbox[i]
  <1>1. conn.inbox \in Seq(Messages)
    BY ConnType DEF ConnOK, Conns
  <1>2. conn'.inbox = conn.inbox \/ \E m : conn'.inbox = Append(conn.inbox, m)
    BY OutsideQueues
  <1> QED
    BY <1>1, <1>2

LEMMA OutsideNew ==
    ASSUME IInv, Outside, NEW i \in DOMAIN conn'.inbox, i \notin DOMAIN conn.inbox,
           conn'.inbox[i] # "problem"
    PROVE  /\ i = Len(conn.inbox) + 1
           /\ \/ conn'.inbox[i] = "changeMap" /\ conn.playing /\ DOMAIN conn'.asked = {}
              \/ /\ 1 \in DOMAIN conn.asked /\ conn'.inbox[i] \in Replies(conn.asked[1])
                 /\ \A j \in DOMAIN conn'.asked : /\ j \in Int /\ j > 0
                                                  /\ j + 1 \in DOMAIN conn.asked
                                                  /\ conn'.asked[j] = conn.asked[j + 1]
  <1>1. conn.inbox \in Seq(Messages) /\ conn.asked \in Seq(Requests)
    BY ConnType DEF ConnOK, Conns
  <1>2. ASSUME NEW m, conn'.inbox = Append(conn.inbox, m)
        PROVE  i = Len(conn.inbox) + 1 /\ conn'.inbox[i] = m
    BY <1>1, <1>2
  <1>3. CASE conn'.asked = <<>> /\ conn'.inbox = Append(conn.inbox, "problem")
    BY <1>2, <1>3
  <1>4. CASE /\ conn'.asked = <<>> /\ conn.playing
             /\ conn'.inbox = Append(conn.inbox, "changeMap")
    BY <1>2, <1>4
  <1>5. CASE /\ conn.asked # <<>> /\ conn'.asked = Tail(conn.asked)
             /\ \E m \in Replies(Head(conn.asked)) : conn'.inbox = Append(conn.inbox, m)
    <2>1. /\ \A j \in DOMAIN conn'.asked : /\ j \in Int /\ j > 0
                                           /\ j + 1 \in DOMAIN conn.asked
                                           /\ conn'.asked[j] = conn.asked[j + 1]
          /\ 1 \in DOMAIN conn.asked /\ conn.asked[1] = Head(conn.asked)
      BY <1>1, <1>5
    <2>2. i = Len(conn.inbox) + 1 /\ conn'.inbox[i] \in Replies(conn.asked[1])
      BY <1>2, <1>5, <2>1
    <2> QED
      BY <2>1, <2>2
  <1> QED
    BY <1>3, <1>4, <1>5, OutsideQueues

LEMMA OutsideOnly ==
    ASSUME IInv, Outside, NEW R, NEW M, Only(conn, R, M),
           \A r \in R : Replies(r) \subseteq M \cup {"problem"},
           conn.playing => "changeMap" \in M
    PROVE  Only(conn', R, M)
  <1>1. \A i \in DOMAIN conn'.asked : conn'.asked[i] \in R
    BY OutsideAsked DEF Only
  <1>2. ASSUME NEW i \in DOMAIN conn'.inbox PROVE conn'.inbox[i] \in M \cup {"problem"}
    <2>1. CASE i \in DOMAIN conn.inbox
      BY <2>1, OutsideOld DEF Only
    <2>2. CASE i \notin DOMAIN conn.inbox
      BY <2>2, OutsideNew DEF Only
    <2> QED
      BY <2>1, <2>2
  <1> QED
    BY <1>1, <1>2 DEF Only

LEMMA OutsideAtMostOne ==
    ASSUME IInv, Outside, ~conn.playing, AtMostOne(conn)
    PROVE  AtMostOne(conn')
  <1>1. \A i, j \in DOMAIN conn'.asked : i = j
    <2> SUFFICES ASSUME NEW i \in DOMAIN conn'.asked, NEW j \in DOMAIN conn'.asked PROVE i = j
      OBVIOUS
    <2>1. CASE conn'.asked = conn.asked
      BY <2>1 DEF AtMostOne
    <2>2. CASE conn'.asked # conn.asked
      <3>1. i + 1 \in DOMAIN conn.asked /\ j + 1 \in DOMAIN conn.asked
        BY <2>2, OutsideAsked
      <3>2. i + 1 = j + 1
        BY <3>1 DEF AtMostOne
      <3>3. i \in Int /\ j \in Int
        BY OutsideAsked
      <3> QED
        BY <3>2, <3>3
    <2> QED
      BY <2>1, <2>2
  <1>2. ASSUME NEW i \in DOMAIN conn'.inbox, i \notin DOMAIN conn.inbox,
               conn'.inbox[i] # "problem"
        PROVE  /\ \A j \in DOMAIN conn.inbox : conn.inbox[j] = "problem"
               /\ DOMAIN conn'.asked = {}
               /\ i = Len(conn.inbox) + 1
    <2>1. /\ i = Len(conn.inbox) + 1 /\ 1 \in DOMAIN conn.asked
          /\ \A j \in DOMAIN conn'.asked : j \in Int /\ j > 0 /\ j + 1 \in DOMAIN conn.asked
      BY <1>2, OutsideNew
    <2>2. \A j \in DOMAIN conn'.asked : FALSE
      BY <2>1 DEF AtMostOne
    <2> QED
      BY <2>1, <2>2 DEF AtMostOne
  <1>3. \A i, j \in DOMAIN conn'.inbox :
          conn'.inbox[i] # "problem" /\ conn'.inbox[j] # "problem" => i = j
    BY <1>2, OutsideAsked, OutsideOld DEF AtMostOne
  <1>4. \A i \in DOMAIN conn'.asked, j \in DOMAIN conn'.inbox : conn'.inbox[j] = "problem"
    BY <1>2, OutsideAsked, OutsideOld DEF AtMostOne
  <1> QED
    BY <1>1, <1>3, <1>4 DEF AtMostOne

LEMMA OutsideVersionFirst ==
    ASSUME IInv, Outside, ~conn.playing, VersionFirst(conn),
           \A i \in DOMAIN conn.asked : conn.asked[i] \in {"version", "login"}
    PROVE  VersionFirst(conn')
  <1>1. \A i, j \in DOMAIN conn'.asked :
           i < j => conn'.asked[i] = "version" /\ conn'.asked[j] = "login"
    <2> SUFFICES ASSUME NEW i \in DOMAIN conn'.asked, NEW j \in DOMAIN conn'.asked, i < j
                 PROVE  conn'.asked[i] = "version" /\ conn'.asked[j] = "login"
      OBVIOUS
    <2>1. CASE conn'.asked = conn.asked
      BY <2>1 DEF VersionFirst
    <2>2. CASE conn'.asked # conn.asked
      <3>1. /\ i + 1 \in DOMAIN conn.asked /\ j + 1 \in DOMAIN conn.asked
            /\ conn'.asked[i] = conn.asked[i + 1] /\ conn'.asked[j] = conn.asked[j + 1]
        BY <2>2, OutsideAsked
      <3>2. i \in Int /\ j \in Int
        BY OutsideAsked
      <3>3. i + 1 < j + 1
        BY <3>2
      <3> QED
        BY <3>1, <3>3 DEF VersionFirst
    <2> QED
      BY <2>1, <2>2
  <1>2. ASSUME NEW i \in DOMAIN conn'.inbox, i \notin DOMAIN conn.inbox,
               conn'.inbox[i] # "problem"
        PROVE  /\ i = Len(conn.inbox) + 1 /\ 1 \in DOMAIN conn.asked
               /\ conn'.inbox[i] \in Replies(conn.asked[1])
               /\ \A j \in DOMAIN conn'.asked : /\ j \in Int /\ j > 0
                                                /\ j + 1 \in DOMAIN conn.asked
                                                /\ conn'.asked[j] = conn.asked[j + 1]
    BY <1>2, OutsideNew
  <1>3. ASSUME NEW j \in DOMAIN conn'.asked, NEW i \in DOMAIN conn'.inbox,
               conn'.inbox[i] # "problem"
        PROVE  conn'.inbox[i] = "version" /\ conn'.asked[j] = "login"
    <2>1. CASE i \in DOMAIN conn.inbox
      <3>1. PICK k \in DOMAIN conn.asked : conn'.asked[j] = conn.asked[k]
        BY OutsideAsked
      <3>2. conn'.inbox[i] = conn.inbox[i]
        BY <2>1, OutsideOld
      <3> QED
        BY <1>3, <2>1, <3>1, <3>2 DEF VersionFirst
    <2>2. CASE i \notin DOMAIN conn.inbox
      <3>1. /\ 1 \in DOMAIN conn.asked /\ j + 1 \in DOMAIN conn.asked /\ 1 < j + 1
            /\ conn'.asked[j] = conn.asked[j + 1]
            /\ conn'.inbox[i] \in Replies(conn.asked[1])
        BY <1>2, <1>3, <2>2
      <3>2. conn.asked[1] = "version" /\ conn.asked[j + 1] = "login"
        BY <3>1 DEF VersionFirst
      <3> QED
        BY <3>1, <3>2 DEF Replies
    <2> QED
      BY <2>1, <2>2
  <1>4. ASSUME NEW i \in DOMAIN conn'.inbox, NEW j \in DOMAIN conn'.inbox, i < j,
               conn'.inbox[i] # "problem", conn'.inbox[j] # "problem"
        PROVE  conn'.inbox[i] = "version" /\ conn'.inbox[j] # "version"
    <2>1. i \in DOMAIN conn.inbox /\ conn'.inbox[i] = conn.inbox[i]
      <3>1. conn.inbox \in Seq(Messages)
        BY ConnType DEF ConnOK, Conns
      <3>2. i \in DOMAIN conn.inbox
        <4> SUFFICES ASSUME i \notin DOMAIN conn.inbox PROVE FALSE
          OBVIOUS
        <4>1. i = Len(conn.inbox) + 1
          BY <1>4, OutsideNew
        <4>2. j = Len(conn.inbox) + 1 \/ j \in DOMAIN conn.inbox
          BY <1>4, OutsideNew
        <4> QED
          BY <1>4, <3>1, <4>1, <4>2
      <3> QED
        BY <3>2, OutsideOld
    <2>2. CASE j \in DOMAIN conn.inbox
      BY <1>4, <2>1, <2>2, OutsideOld DEF VersionFirst
    <2>3. CASE j \notin DOMAIN conn.inbox
      <3>1. 1 \in DOMAIN conn.asked /\ conn'.inbox[j] \in Replies(conn.asked[1])
        BY <1>2, <1>4, <2>3
      <3>2. conn.inbox[i] = "version" /\ conn.asked[1] = "login"
        BY <1>4, <2>1, <3>1 DEF VersionFirst
      <3> QED
        BY <2>1, <3>1, <3>2 DEF Replies
    <2> QED
      BY <2>2, <2>3
  <1> QED
    BY <1>1, <1>3, <1>4 DEF VersionFirst

----------------------------------------------------------------------------
(* PInv: the server and the state go together.                             *)

LEMMA InitPlaced == Init => PInv
  <1> SUFFICES ASSUME Init PROVE PInv
    OBVIOUS
  <1>1. conn.asked = <<>> /\ conn.inbox = <<>> /\ conn.server = "login" /\ conn.mState = "IDLE"
          /\ conn.playing = FALSE /\ conn.wanted = FALSE
    BY DEF Init
  <1>2. \A e : e = <<>> => DOMAIN e = {}
    OBVIOUS
  <1>3. Kinds(conn)
    BY <1>1, <1>2 DEF Kinds, Only
  <1>4. Placed /\ MapLine
    BY <1>1 DEF Placed, MapLine
  <1>5. LostRight
    BY <1>1 DEF Init, LostRight
  <1> QED
    BY <1>3, <1>4, <1>5 DEF PInv

LEMMA OutsidePlaced == ASSUME IInv, PInv, Outside PROVE PInv'
  <1>1. Kinds(conn)'
    <2>1. \/ conn.server = "login" \/ conn.server = "char" \/ conn.server = "map"
      BY ConnType DEF ConnOK, Conns, Servers
    <2>2. Only(conn', AskedOf(conn.server), SaidBy(conn.server))
      <3>1. \A r \in AskedOf(conn.server) : Replies(r) \subseteq SaidBy(conn.server) \cup {"problem"}
        BY <2>1 DEF AskedOf, SaidBy, Replies
      <3>2. conn.playing => "changeMap" \in SaidBy(conn.server)
        BY DEF PInv, Kinds, SaidBy
      <3> QED
        BY <3>1, <3>2, OutsideOnly DEF PInv, Kinds
    <2>3. conn'.playing => conn.server = "map"
      <3>1. ASSUME conn.asked # <<>>, Head(conn.asked) = "loaded" PROVE conn.server = "map"
        <4>1. 1 \in DOMAIN conn.asked /\ conn.asked[1] = "loaded"
          BY <3>1, ConnType DEF ConnOK, Conns
        <4> QED
          BY <2>1, <4>1 DEF PInv, Kinds, Only, AskedOf
      <3> QED
        BY <3>1, OutsideFrame DEF PInv, Kinds
    <2> QED
      BY <2>2, <2>3, OutsideFrame DEF PInv, Kinds
  <1>2. Placed'
    BY OutsideFrame DEF PInv, Placed, GoneFromGame, Live
  <1>3. MapLine'
    <2> SUFFICES ASSUME conn.server = "map" PROVE MapLine'
      BY OutsideFrame DEF MapLine
    <2>1. BeforeGame(conn) => BeforeGame(conn')
      <3>1. BeforeGame(conn) => Only(conn', {"map"}, {"mapLogin"})
        BY OutsideOnly DEF BeforeGame, Replies
      <3>2. BeforeGame(conn) => ~conn'.playing
        BY OutsideFrame, ConnType DEF BeforeGame, Only, ConnOK, Conns
      <3> QED
        BY <3>1, <3>2, OutsideAtMostOne DEF BeforeGame
    <2>2. Arrived(conn) => Arrived(conn')
      <3>1. Arrived(conn) => Only(conn', {"restart"}, {"charSwitch"})
        BY OutsideOnly DEF Arrived, Replies
      <3>2. Arrived(conn) => ~conn'.playing
        BY OutsideFrame, ConnType DEF Arrived, Only, ConnOK, Conns
      <3> QED
        BY <3>1, <3>2 DEF Arrived
    <2>3. InGame(conn) => InGame(conn')
      BY OutsideOnly DEF InGame, Replies
    <2> QED
      BY <2>1, <2>2, <2>3, OutsideFrame DEF PInv, MapLine
  <1>4. LostRight'
    BY OutsideFrame DEF PInv, LostRight
  <1> QED
    BY <1>1, <1>2, <1>3, <1>4 DEF PInv

LEMMA TakenPlaced ==
    ASSUME IInv, PInv, NEW m, Handle(m), conn' = Taken, mState' # "GAME", UNCHANGED pc,
           conn.wanted => mState' \in Ways(conn.server) /\ mState' \notin TravelStates
    PROVE  PInv'
  <1>1. conn.inbox # <<>> /\ pc = "net" /\ UNCHANGED <<mOldState, okDialogs>>
    BY DEF Handle
  <1>2. ConnOK(conn)
    BY ConnType
  <1>3. /\ conn'.wanted = conn.wanted /\ conn'.server = conn.server
        /\ conn'.mState = conn.mState /\ conn'.playing = conn.playing
    BY <1>1, <1>2, TakenIs
  <1>4. Kinds(conn')
    BY <1>1, <1>2, TakenKeeps DEF PInv
  <1>5. Placed'
    BY <1>1, <1>3 DEF PInv, Placed, GoneFromGame, Home
  <1>6. MapLine'
    <2>1. BeforeGame(conn) => BeforeGame(conn')
      BY <1>1, <1>2, <1>3, TakenKeeps DEF BeforeGame
    <2>2. InGame(conn) => InGame(conn')
      BY <1>1, <1>2, TakenKeeps DEF InGame
    <2> QED
      BY <1>1, <1>3, <2>1, <2>2 DEF PInv, MapLine
  <1>7. LostRight'
    BY <1>1, <1>2, <1>3 DEF PInv, LostRight, Live, Kinds
  <1> QED
    BY <1>4, <1>5, <1>6, <1>7 DEF PInv

LEMMA GivenUpPlaced ==
    ASSUME IInv, PInv, NEW c, c \in Conns, Kinds(c), conn' \in Disconnected(c),
           "lost" \notin okDialogs' \/ mOldState' # "GAME"
              \/ UNCHANGED <<okDialogs, mOldState>>
    PROVE  PInv'
  <1>1. ~conn'.wanted /\ ~Live(conn') /\ conn'.mState # "CONNECTING"
    BY DisconnectedIs
  <1>2. Kinds(conn')
    BY DisconnectedKinds
  <1>3. Placed' /\ MapLine' /\ LostRight'
    BY <1>1 DEF Placed, MapLine, LostRight, Live
  <1> QED
    BY <1>2, <1>3 DEF PInv

LEMMA HandlersPlaced == ASSUME IInv, PInv, FlushNetwork PROVE PInv'
  <1>1. ASSUME NEW m, Handle(m)
        PROVE  /\ conn.inbox # <<>> /\ ConnOK(conn) /\ m \in SaidBy(conn.server) \cup {"problem"}
               /\ ConnOK(Taken) /\ Taken \in Conns /\ Kinds(Taken)
               /\ UNCHANGED <<mOldState, okDialogs>>
    <2>1. conn.inbox # <<>> /\ ConnOK(conn) /\ Head(conn.inbox) = m
      BY <1>1, ConnType DEF Handle
    <2>2. 1 \in DOMAIN conn.inbox /\ conn.inbox[1] = m
      BY <2>1, TakenIs
    <2>3. m \in SaidBy(conn.server) \cup {"problem"}
      BY <2>2 DEF PInv, Kinds, Only
    <2> QED
      BY <1>1, <2>1, <2>3, TakenOK, TakenKeeps DEF PInv, ConnOK, Handle
  <1>2. conn.server \in Servers
    BY ConnType DEF ConnOK, Conns
  <1>3. CASE ProcessServerVersion \/ ProcessLoginData
    BY <1>1, <1>2, <1>3, TakenPlaced
       DEF ProcessServerVersion, ProcessLoginData, Servers, SaidBy, Ways, Home, LoginStates,
           TravelStates
  <1>4. CASE ProcessCharLogin
    BY <1>1, <1>2, <1>4, TakenPlaced
       DEF ProcessCharLogin, Servers, SaidBy, Ways, Home, CharStates, TravelStates
  <1>5. CASE ProcessCharMapInfo \/ ProcessChangeMapServer
    BY <1>1, <1>5, GivenUpPlaced DEF ProcessCharMapInfo, ProcessChangeMapServer
  <1>6. CASE ProcessOther
    <2>1. PICK to \in [m : {"passwordOk"}, to : {"CHANGEPASSWORD_SUCCESS"}]
                 \cup [m : {"passwordNo"}, to : {"ACCOUNTCHANGE_ERROR"}]
                 \cup [m : {"charSwitch"}, to : {"SWITCH_CHARACTER"}]
                 \cup [m : {"loginError", "charError", "problem"}, to : {"ERROR"}] :
             Handle(to.m) /\ mState' = to.to
      BY <1>6 DEF ProcessOther
    <2>2. conn' = Taken /\ UNCHANGED pc
      BY <1>6 DEF ProcessOther
    <2>3. to.m \in SaidBy(conn.server) \cup {"problem"}
      BY <1>1, <2>1
    <2>4. to.to \in Ways(conn.server) /\ to.to \notin TravelStates /\ to.to # "GAME"
      BY <1>2, <2>1, <2>3 DEF Servers, SaidBy, Ways, Home, CharStates, TravelStates
    <2> QED
      BY <2>1, <2>2, <2>4, TakenPlaced
  <1>7. CASE ProcessMapLogin
    <2>1. /\ Handle("mapLogin") /\ mState' = "GAME" /\ pc' = "error" /\ conn' = Taken
          /\ pc = "net"
      BY <1>7 DEF ProcessMapLogin, Handle
    <2>2. /\ ConnOK(conn) /\ conn.inbox # <<>> /\ 1 \in DOMAIN conn.inbox
          /\ conn.inbox[1] = "mapLogin" /\ Head(conn.inbox) = "mapLogin"
      BY <1>1, <2>1, TakenIs DEF Handle
    <2>3. conn.server = "map"
      BY <1>1, <1>2, <2>1 DEF Servers, SaidBy
    <2>4. /\ conn'.wanted = conn.wanted /\ conn'.server = "map"
          /\ conn'.mState = conn.mState /\ conn'.playing = conn.playing
      BY <2>1, <2>2, <2>3, TakenIs
    <2>5. conn.wanted => mOldState \in TravelStates /\ BeforeGame(conn)
      BY <2>1, <2>2, <2>3 DEF PInv, MapLine, Arrived, InGame, Only
    <2>6. conn.wanted => Arrived(conn')
      <3>1. conn.wanted => Quiet(conn')
        BY <2>1, <2>2, <2>5, TakenQuiet DEF BeforeGame
      <3> QED
        BY <2>4, <2>5, <3>1, OnlyMore DEF BeforeGame, Quiet, Arrived
    <2>7. UNCHANGED <<mOldState, okDialogs>> /\ Kinds(conn')
      BY <1>1, <2>1
    <2>8. Placed'
      BY <2>1, <2>4, <2>5, <2>7 DEF Placed, Home, Ways
    <2>9. MapLine'
      BY <2>1, <2>4, <2>5, <2>6, <2>7 DEF MapLine, TravelStates
    <2>10. LostRight'
      BY <2>1, <2>2, <2>4, <2>5, <2>7 DEF PInv, LostRight, Live, TravelStates, Kinds
    <2> QED
      BY <2>7, <2>8, <2>9, <2>10 DEF PInv
  <1>8. CASE Dispatched \/ Flushed
    <2>1. /\ UNCHANGED <<mOldState, okDialogs, conn>>
          /\ \/ pc = "net" /\ pc' = "error" /\ conn.inbox = <<>> /\ UNCHANGED mState
             \/ pc = "error" /\ pc' = "gui" /\ mState' \in {mState, "ERROR"}
      BY <1>8 DEF Dispatched, Flushed
    <2>2. Placed'
      BY <2>1, <1>2 DEF PInv, Placed, GoneFromGame, Live, Home, Ways, Servers
    <2>3. MapLine'
      BY <2>1 DEF PInv, MapLine, TravelStates
    <2> QED
      BY <2>1, <2>2, <2>3 DEF PInv, LostRight, Live
  <1> QED
    BY <1>3, <1>4, <1>5, <1>6, <1>7, <1>8 DEF FlushNetwork

LEMMA EventsPlaced ==
    ASSUME IInv, PInv, NoEvent \/ CloseWindow \/ SlowLogic \/ NoEntry PROVE PInv'
  <1>1. UNCHANGED <<mOldState, mGame, conn>> /\ conn.server \in Servers
    BY ConnType DEF NoEvent, CloseWindow, SlowLogic, NoEntry, ConnOK, Conns
  <1>2. CASE NoEvent \/ CloseWindow
    <2>1. /\ pc = "events" /\ pc' \in {"net", "done"} /\ mState' \in {mState, "EXIT"}
          /\ UNCHANGED okDialogs
      BY <1>2 DEF NoEvent, CloseWindow
    <2>2. Placed'
      BY <1>1, <2>1 DEF PInv, Placed, GoneFromGame, Live, Home, Ways, Servers
    <2> QED
      BY <1>1, <2>1, <2>2 DEF PInv, MapLine, LostRight, Live, TravelStates
  <1>3. CASE SlowLogic
    <2>1. pc = "slow" /\ pc' = "before" /\ UNCHANGED mState
      BY <1>3 DEF SlowLogic
    <2>2. "lost" \in okDialogs' /\ mOldState = "GAME" => ~Live(conn)
      <3>1. mOldState = "GAME" => mGame
        BY DEF IInv, GameExists
      <3>2. mOldState = "GAME" => conn.mState # "CONNECTING"
        BY DEF PInv, LostRight
      <3>3. CASE conn.mState = "CONNECTED"
        BY <1>3, <3>1, <3>3 DEF SlowLogic
      <3>4. CASE conn.mState # "CONNECTED"
        BY <3>2, <3>4, ConnType DEF ConnOK, Conns, Live
      <3> QED
        BY <3>3, <3>4
    <2> QED
      BY <1>1, <2>1, <2>2 DEF PInv, Placed, GoneFromGame, MapLine, LostRight, Live
  <1>4. CASE NoEntry
    <2>1. /\ pc = "enter" /\ pc' = "events" /\ mState = mOldState
          /\ UNCHANGED <<mState, okDialogs>>
      BY <1>4 DEF NoEntry
    <2> QED
      BY <1>1, <2>1 DEF PInv, Placed, GoneFromGame, MapLine, LostRight, Live
  <1> QED
    BY <1>2, <1>3, <1>4

LEMMA BeforePlaced == ASSUME IInv, PInv, BeforeEntry PROVE PInv'
  <1>1. UNCHANGED <<mOldState, okDialogs>> /\ pc = "before" /\ pc' = "enter"
    BY DEF BeforeEntry, StateConnectGame1, StateConnectServer1, StateWorldSelect1, StateOther1,
           Before
  <1>2. conn.server \in Servers /\ ConnOK(conn) /\ conn \in Conns
    BY ConnType DEF ConnOK, Conns
  <1>3. ASSUME UNCHANGED conn,
               \/ mState' = mState
               \/ mState \in LoginStates \cup {"CONNECT_SERVER"} /\ mState' = "PRE_LOGIN",
               mState = "CONNECT_SERVER" => mOldState # "CHOOSE_SERVER"
        PROVE  PInv'
    <2>1. conn.wanted /\ mState' # mState => conn.server = "login" /\ mState' \in Ways("login")
                                             /\ mOldState \in Home("login")
      BY <1>1, <1>2, <1>3 DEF PInv, Placed, GoneFromGame, Home, Ways, Servers, LoginStates,
                              CharStates, TravelStates
    <2>2. Placed'
      BY <1>1, <1>3, <2>1 DEF PInv, Placed, GoneFromGame, Live
    <2>3. MapLine'
      BY <1>1, <1>3, <2>1 DEF PInv, MapLine
    <2>4. LostRight'
      BY <1>1, <1>3 DEF PInv, LostRight, Live, LoginStates
    <2> QED
      BY <1>3, <2>2, <2>3, <2>4 DEF PInv
  <1>4. CASE StateConnectGame1
    <2>1. Kinds(conn)
      BY DEF PInv
    <2>2. CASE conn' \in Disconnected(conn)
      BY <1>1, <1>2, <2>1, <2>2, GivenUpPlaced
    <2>3. CASE UNCHANGED <<mState, conn>> /\ mState # "CONNECT_SERVER"
      BY <1>3, <2>3
    <2> QED
      BY <1>4, <2>2, <2>3 DEF StateConnectGame1
  <1>5. CASE StateWorldSelect1 \/ StateOther1
    BY <1>3, <1>5 DEF StateWorldSelect1, StateOther1, LoginStates
  <1>6. CASE StateConnectServer1 /\ mOldState # "CHOOSE_SERVER"
    BY <1>3, <1>6 DEF StateConnectServer1
  <1>7. CASE StateConnectServer1 /\ mOldState = "CHOOSE_SERVER"
    <2>1. PICK c \in Disconnected(conn) : conn' = Connected(c, "login", "version")
      BY <1>7 DEF StateConnectServer1
    <2>2. c \in Conns /\ ~Live(c)
      BY <1>2, DisconnectedOK, DisconnectedIs DEF ConnOK
    <2>3. Kinds(conn') /\ conn'.server = "login" /\ conn'.wanted
      BY <2>1, <2>2, ConnectedKinds, ConnectedIs DEF AskedOf
    <2>4. mState = "CONNECT_SERVER" /\ UNCHANGED mState
      BY <1>7 DEF StateConnectServer1
    <2> QED
      BY <1>1, <1>7, <2>3, <2>4 DEF PInv, Placed, MapLine, LostRight
  <1> QED
    BY <1>4, <1>5, <1>6, <1>7 DEF BeforeEntry

LEMMA UserFrame ==
    ASSUME UserActs
    PROVE  /\ pc = "gui" /\ pc' = "slow" /\ UNCHANGED <<mOldState, mGame, loaded, worlds, given>>
           /\ okDialogs' \subseteq okDialogs \cup {"quit"}
  BY DEF UserActs, NoAction, AnswerDialog, CancelConnection, LogIn, SelectCharacter,
         ChangePassword, LeaveCharacters, OpenQuit, AnswerQuit, AnswerOk, Chooses, User, Acts

\* Where the user goes from a state, without a word to the server.
Goals(state) ==
    CASE state = "CHOOSE_SERVER" -> {"CONNECT_SERVER", "EXIT", "FORCE_QUIT"}
      [] state = "LOGIN" -> {"REGISTER_PREP", "SWITCH_SERVER", "LOGIN_ATTEMPT"}
      [] state = "WORLD_SELECT" -> {"UPDATE", "SWITCH_LOGIN"}
      [] state = "UPDATE" -> {"LOAD_DATA", "LOGIN"}
      [] state = "REGISTER" -> {"LOGIN", "REGISTER_ATTEMPT"}
      [] state = "CHANGEPASSWORD" -> {"CHAR_SELECT", "CHANGEPASSWORD_ATTEMPT"}
      [] state \in {"CONNECT_SERVER", "LOGIN_ATTEMPT", "GET_CHARACTERS"} -> {"SWITCH_SERVER"}
      [] state = "REGISTER_PREP" -> {"LOGIN"}
      [] state = "CHANGE_MAP" -> {"SWITCH_CHARACTER"}
      [] state = "CHAR_SELECT" -> {"CHANGEPASSWORD", "SWITCH_WORLD"}
      [] state \in {"CHANGEPASSWORD_SUCCESS", "ACCOUNTCHANGE_ERROR"} -> {"CHAR_SELECT"}
      [] state = "ERROR" -> {"CHOOSE_SERVER", "FORCE_QUIT"}
      [] OTHER -> {}

\* What a careful user does.
LEMMA UserCases ==
    ASSUME ~Lapse, UserActs
    PROVE  \/ UNCHANGED <<mState, mCharacters, mCurrentDialog, conn>>
           \/ UNCHANGED <<mCharacters, mCurrentDialog, conn>> /\ mState' = "EXIT"
           \/ /\ UNCHANGED <<mCurrentDialog, conn>> /\ mState' \in Goals(mOldState)
              /\ mCharacters' = mCharacters \/ mState' = "SWITCH_WORLD"
              /\ mState' = "CHANGEPASSWORD" => mCurrentDialog = "open"
              /\ mState' \in {"LOGIN_ATTEMPT", "REGISTER_ATTEMPT"} => ~LoggingIn
              /\ mState' = "REGISTER_ATTEMPT" => mState = "REGISTER"
           \/ /\ mOldState = "CHAR_SELECT" /\ mCharacters /\ mCurrentDialog = "open"
              /\ mCurrentDialog' = "locked"
              /\ conn' = Sent(conn, "select") /\ UNCHANGED <<mState, mCharacters>>
           \/ /\ conn.mState = "CONNECTED" /\ mState' = "SWITCH_SERVER"
              /\ UNCHANGED <<mCharacters, mCurrentDialog, conn>>
           \/ /\ mState = "GAME" /\ conn' = Sent(conn, "restart")
              /\ UNCHANGED <<mState, mCharacters, mCurrentDialog>>
           \/ /\ mOldState = "GAME" /\ "lost" \in okDialogs
              /\ mState' \in {"CHOOSE_SERVER", "FORCE_QUIT"}
              /\ UNCHANGED <<mCharacters, mCurrentDialog, conn>>
  <1>1. CASE NoAction \/ OpenQuit \/ SelectCharacter \/ AnswerQuit
    BY <1>1 DEF NoAction, OpenQuit, SelectCharacter, AnswerQuit, User
  <1>2. CASE AnswerDialog
    BY <1>2 DEF AnswerDialog, Chooses, Answers, User, Goals
  <1>3. CASE CancelConnection
    BY <1>3 DEF CancelConnection, Chooses, Cancels, User, Goals, Lapse
  <1>4. CASE LogIn
    BY <1>4 DEF LogIn, Chooses, User, Goals, Lapse
  <1>5. CASE ChangePassword \/ LeaveCharacters
    BY <1>5 DEF ChangePassword, LeaveCharacters, User, Goals
  <1>6. CASE AnswerOk
    BY <1>6 DEF AnswerOk, InTime, Goals, Lapse
  <1> QED
    BY <1>1, <1>2, <1>3, <1>4, <1>5, <1>6 DEF UserActs

LEMMA SentPlaced ==
    ASSUME IInv, PInv, UserActs, UNCHANGED mState, NEW request, conn' = Sent(conn, request),
           \/ mOldState = "CHAR_SELECT" /\ request = "select"
           \/ mState = "GAME" /\ request = "restart"
    PROVE  PInv'
  <1>1. conn.server \in Servers /\ conn \in Conns /\ (Live(conn) => conn.wanted)
    BY ConnType DEF ConnOK, Conns, Closed, Live
  <1>2. /\ pc = "gui" /\ pc' = "slow" /\ UNCHANGED mOldState
        /\ okDialogs' \subseteq okDialogs \cup {"quit"}
    BY UserFrame
  <1>3. /\ conn'.server = conn.server /\ conn'.wanted = conn.wanted
        /\ conn'.mState = conn.mState /\ conn'.playing = conn.playing
        /\ ~Live(conn) => conn' = conn
    BY <1>1, SentIs
  <1>4. conn.wanted => \/ conn.server = "char" /\ request = "select"
                       \/ conn.server = "map" /\ request = "restart"
    BY <1>1, <1>2 DEF PInv, Placed, GoneFromGame, Home, Ways, Servers, LoginStates, CharStates,
                      TravelStates
  <1>5. Kinds(conn')
    BY <1>1, <1>4, SentKinds DEF PInv, AskedOf
  <1>6. Placed'
    BY <1>2, <1>3 DEF PInv, Placed, GoneFromGame, Live
  <1>7. MapLine'
    <2>1. CASE ~(conn.wanted /\ conn.server = "map")
      BY <1>3, <2>1 DEF MapLine
    <2>2. CASE conn.wanted /\ conn.server = "map"
      <3>1. request = "restart" /\ mState = "GAME"
        BY <1>1, <1>2, <1>4, <2>2 DEF PInv, Placed, GoneFromGame, Home, CharStates, TravelStates
      <3>2. Arrived(conn) => Arrived(conn')
        <4>1. Arrived(conn) => Only(conn', {"restart"} \cup {"restart"}, {"charSwitch"})
          BY <1>1, <3>1, SentKeeps DEF Arrived
        <4>2. {"restart"} \cup {"restart"} = {"restart"}
          OBVIOUS
        <4> QED
          BY <1>3, <4>1, <4>2 DEF Arrived
      <3>3. InGame(conn) => InGame(conn')
        <4>1. InGame(conn) => Only(conn', {"loaded", "restart"} \cup {"restart"},
                                   {"changeMap", "charSwitch"})
          BY <1>1, <3>1, SentKeeps DEF InGame
        <4>2. {"loaded", "restart"} \cup {"restart"} = {"loaded", "restart"}
          OBVIOUS
        <4> QED
          BY <4>1, <4>2 DEF InGame
      <3> QED
        BY <1>2, <1>3, <3>1, <3>2, <3>3 DEF PInv, MapLine
    <2> QED
      BY <2>1, <2>2
  <1>8. LostRight'
    BY <1>2, <1>3 DEF PInv, LostRight, Live
  <1> QED
    BY <1>5, <1>6, <1>7, <1>8 DEF PInv

LEMMA UserPlaced == ASSUME ~Lapse, IInv, PInv, UserActs PROVE PInv'
  <1>1. /\ pc = "gui" /\ pc' = "slow" /\ UNCHANGED mOldState
        /\ okDialogs' \subseteq okDialogs \cup {"quit"}
    BY UserFrame
  <1>2. conn.server \in Servers /\ conn \in Conns /\ (Live(conn) => conn.wanted)
    BY ConnType DEF ConnOK, Conns, Closed, Live
  <1>3. CASE UNCHANGED <<mState, conn>>
    BY <1>1, <1>3 DEF PInv, Placed, GoneFromGame, MapLine, LostRight, Live
  <1>4. CASE /\ UNCHANGED conn
             /\ \/ mState' = "EXIT"
                \/ mState' \in Goals(mOldState)
                \/ conn.mState = "CONNECTED" /\ mState' = "SWITCH_SERVER"
    <2>1. mState' # "GAME" /\ mState' \notin TravelStates
      BY <1>4 DEF Goals, TravelStates
    <2>2. Placed'
      BY <1>1, <1>2, <1>4 DEF PInv, Placed, GoneFromGame, Live, Goals, Home, Ways, Servers,
         LoginStates, CharStates, TravelStates, Unconnected
    <2> QED
      BY <1>1, <1>4, <2>1, <2>2 DEF PInv, MapLine, LostRight, Live
  <1>5. CASE /\ mOldState = "GAME" /\ "lost" \in okDialogs /\ UNCHANGED conn
             /\ mState' \in {"CHOOSE_SERVER", "FORCE_QUIT"}
    <2>1. ~Live(conn) /\ (conn.wanted => conn.inbox = <<>>)
      BY <1>1, <1>5 DEF PInv, LostRight
    <2>2. conn.wanted => conn.server = "map"
      BY <1>1, <1>2, <1>5 DEF PInv, Placed, GoneFromGame, Home, Servers, LoginStates, CharStates
    <2> QED
      BY <1>1, <1>5, <2>1, <2>2 DEF PInv, Placed, GoneFromGame, MapLine, LostRight, Live,
         TravelStates
  <1>6. CASE /\ UNCHANGED mState
             /\ \E r : /\ conn' = Sent(conn, r)
                       /\ \/ mOldState = "CHAR_SELECT" /\ r = "select"
                          \/ mState = "GAME" /\ r = "restart"
    BY <1>6, SentPlaced
  <1> QED
    BY <1>3, <1>4, <1>5, <1>6, UserCases

\* Where the entry of a state leads at once.
Leads(state) ==
    CASE state = "CHOOSE_SERVER" -> {"CHOOSE_SERVER", "CONNECT_SERVER"}
      [] state = "LOGIN" -> {"LOGIN", "LOGIN_ATTEMPT"}
      [] state = "REGISTER_PREP" -> {"REGISTER"}
      [] state = "WORLD_SELECT" -> {"WORLD_SELECT", "UPDATE"}
      [] state = "UPDATE" -> {"UPDATE", "LOAD_DATA", "ERROR"}
      [] state = "LOAD_DATA" -> {"GET_CHARACTERS"}
      [] state = "SWITCH_WORLD" -> {"LOGIN_ATTEMPT", "LOGIN"}
      [] state = "SWITCH_LOGIN" -> {"LOGIN"}
      [] state = "SWITCH_SERVER" -> {"CHOOSE_SERVER"}
      [] state = "SWITCH_CHARACTER" -> {"GET_CHARACTERS"}
      [] state = "FORCE_QUIT" -> {"EXIT"}
      [] OTHER -> {state}

LEMMA EntryFrame ==
    ASSUME Entry, ~NoEntry
    PROVE  /\ pc = "enter" /\ mOldState # mState /\ mOldState' = mState
           /\ mState' \in Leads(mState)
           /\ pc' = IF mState' = "EXIT" THEN "done" ELSE "events"
           /\ mCharacters' = ListKept
           /\ given' \subseteq given /\ (mState = "LOGIN" => "login" \notin given')
           /\ mState = "LOGIN" /\ mState' = "LOGIN_ATTEMPT" => "login" \in given
           /\ mState = "GAME" => "lost" \notin okDialogs'
           /\ mState = "LOAD_DATA" => loaded'
           /\ mState \notin {"LOAD_DATA", "CHOOSE_SERVER"} => loaded' = loaded
  <1>1. CASE EnterChooseServer \/ EnterLogin \/ EnterLocal
    BY <1>1 DEF EnterChooseServer, EnterLogin, EnterLocal, Entering, Leads, Keeping
  <1>2. CASE EnterAttempt \/ EnterLoadData \/ EnterGetCharacters \/ EnterCharSelect
    BY <1>2 DEF EnterAttempt, EnterLoadData, EnterGetCharacters, EnterCharSelect, Entering,
                Leads, Keeping
  <1>3. CASE EnterTravel \/ EnterGame \/ EnterAccountResult \/ EnterSwitchServer
    BY <1>3 DEF EnterTravel, EnterGame, EnterAccountResult, EnterSwitchServer, Entering,
                TravelStates, Leads, Keeping
  <1>4. CASE EnterSwitchLogin \/ EnterSwitchCharacter \/ EnterExit \/ EnterError
    BY <1>4 DEF EnterSwitchLogin, EnterSwitchCharacter, EnterExit, EnterError, Entering,
                Leads, Keeping
  <1> QED
    BY <1>1, <1>2, <1>3, <1>4 DEF Entry

Asking == {<<"LOGIN_ATTEMPT", "login">>, <<"REGISTER_ATTEMPT", "login">>,
           <<"CHANGEPASSWORD_ATTEMPT", "password">>, <<"CHAR_SELECT", "select">>,
           <<"GAME", "loaded">>}

\* What becomes of the connection.
LEMMA EntryCases ==
    ASSUME Entry, ~NoEntry
    PROVE  \/ /\ UNCHANGED conn
              /\ mState \in {"CHOOSE_SERVER", "LOGIN", "CONNECT_SERVER", "REGISTER",
                             "CHANGEPASSWORD", "UPDATE", "PRE_LOGIN", "REGISTER_PREP",
                             "WORLD_SELECT", "LOAD_DATA", "CHAR_SELECT", "FORCE_QUIT", "EXIT",
                             "CHANGEPASSWORD_SUCCESS", "ACCOUNTCHANGE_ERROR"}
              /\ mState = "CHAR_SELECT" => mCurrentDialog' = "open"
           \/ /\ \E request : <<mState, request>> \in Asking /\ conn' = Sent(conn, request)
              /\ mState = "CHAR_SELECT" => mCurrentDialog' = "locked" /\ mCharacters
           \/ /\ mState = "GET_CHARACTERS"
              /\ \E c \in Disconnected(conn) : conn' = Connected(c, "char", "characters")
           \/ /\ mState \in {"SWITCH_WORLD", "SWITCH_LOGIN"}
              /\ \E c \in Disconnected(conn) : conn' = Connected(c, "login", "version")
           \/ mState \in TravelStates /\ conn' = Connected(conn, "map", "map")
           \/ /\ mState \in {"SWITCH_SERVER", "SWITCH_CHARACTER", "ERROR"}
              /\ conn' \in Disconnected(conn)
  <1>1. CASE EnterChooseServer \/ EnterLogin \/ EnterLocal
    BY <1>1 DEF EnterChooseServer, EnterLogin, EnterLocal, Entering
  <1>2. CASE EnterAttempt
    BY <1>2 DEF EnterAttempt, Entering, Asking
  <1>3. CASE EnterLoadData \/ EnterAccountResult \/ EnterExit
    BY <1>3 DEF EnterLoadData, EnterAccountResult, EnterExit, Entering, Keeping
  <1>4. CASE EnterCharSelect
    BY <1>4 DEF EnterCharSelect, Entering, Asking
  <1>5. CASE EnterGame
    BY <1>5 DEF EnterGame, Entering, Asking
  <1>6. CASE EnterGetCharacters \/ EnterSwitchLogin
    BY <1>6 DEF EnterGetCharacters, EnterSwitchLogin, Entering
  <1>7. CASE EnterTravel
    BY <1>7 DEF EnterTravel, Entering
  <1>8. CASE EnterSwitchServer \/ EnterSwitchCharacter \/ EnterError
    BY <1>8 DEF EnterSwitchServer, EnterSwitchCharacter, EnterError, Entering
  <1> QED
    BY <1>1, <1>2, <1>3, <1>4, <1>5, <1>6, <1>7, <1>8 DEF Entry

\* The server that a state which is entered talks to.
LEMMA EntryServer ==
    ASSUME IInv, PInv, pc = "enter", mOldState # mState
    PROVE  /\ conn.wanted /\ mState \in LoginStates \cup {"CONNECT_SERVER", "LOAD_DATA"} =>
                conn.server = "login"
           /\ conn.wanted /\ mState \in Home("char") =>
                conn.server = "char" \/ mState = "GET_CHARACTERS"
           /\ conn.wanted /\ mState \in Home("map") => conn.server = "map"
           /\ mState \in TravelStates => ~Live(conn)
           /\ conn.wanted => mState # "CHOOSE_SERVER" \/ GoneFromGame
           /\ conn.wanted /\ mState = "GAME" => Arrived(conn) \/ InGame(conn)
  <1>1. conn.server \in Servers /\ (Live(conn) => conn.wanted)
    BY ConnType DEF ConnOK, Conns, Closed, Live
  <1>2. /\ conn.wanted /\ mState \in LoginStates \cup {"CONNECT_SERVER", "LOAD_DATA"} =>
             conn.server = "login"
        /\ conn.wanted /\ mState \in Home("char") =>
             conn.server = "char" \/ mState = "GET_CHARACTERS"
        /\ conn.wanted /\ mState \in Home("map") => conn.server = "map"
        /\ conn.wanted => mState # "CHOOSE_SERVER" \/ GoneFromGame
    BY <1>1 DEF PInv, Placed, GoneFromGame, Home, Ways, Servers, LoginStates, CharStates,
                TravelStates
  <1>3. mState \in TravelStates => ~Live(conn)
    BY <1>1, <1>2 DEF PInv, MapLine, Home
  <1>4. conn.wanted /\ mState = "GAME" => Arrived(conn) \/ InGame(conn)
    BY <1>2 DEF PInv, MapLine, Home
  <1> QED
    BY <1>2, <1>3, <1>4

LEMMA EntryPlaced == ASSUME IInv, PInv, Entry, ~NoEntry PROVE PInv'
  <1>1. /\ conn.server \in Servers /\ conn \in Conns /\ ConnOK(conn)
        /\ Live(conn) => conn.wanted
    BY ConnType DEF ConnOK, Conns, Closed, Live
  <1>2. /\ pc = "enter" /\ mOldState # mState /\ mOldState' = mState /\ mState' \in Leads(mState)
        /\ pc' = IF mState' = "EXIT" THEN "done" ELSE "events"
        /\ mState = "GAME" => "lost" \notin okDialogs'
    BY EntryFrame
  <1>3. Kinds(conn)
    BY DEF PInv
  <1>4. CASE /\ UNCHANGED conn
             /\ mState \in {"CHOOSE_SERVER", "LOGIN", "CONNECT_SERVER", "REGISTER",
                            "CHANGEPASSWORD", "UPDATE", "PRE_LOGIN", "REGISTER_PREP",
                            "WORLD_SELECT", "LOAD_DATA", "CHAR_SELECT", "FORCE_QUIT", "EXIT",
                            "CHANGEPASSWORD_SUCCESS", "ACCOUNTCHANGE_ERROR"}
    <2>1. mState' # "GAME" /\ mState' \notin TravelStates
      BY <1>2, <1>4 DEF Leads, TravelStates
    <2>2. Placed'
      <3>1. CASE mState = "CHOOSE_SERVER"
        BY <1>2, <1>4, <3>1, EntryServer DEF Placed, GoneFromGame, Leads, Live
      <3>2. CASE mState \in {"FORCE_QUIT", "EXIT"}
        BY <1>2, <3>2 DEF Placed, Leads
      <3>3. CASE mState \notin {"CHOOSE_SERVER", "FORCE_QUIT", "EXIT"}
        BY <1>2, <1>4, <3>3, EntryServer DEF Placed, Leads, Home, Ways, LoginStates, CharStates
      <3> QED
        BY <3>1, <3>2, <3>3
    <2>3. MapLine'
      <3>1. CASE mState = "CHOOSE_SERVER"
        BY <1>2, <1>4, <2>1, <3>1, EntryServer DEF PInv, MapLine, GoneFromGame, TravelStates
      <3>2. CASE mState \in {"FORCE_QUIT", "EXIT"}
        BY <1>2, <3>2 DEF MapLine, Leads
      <3>3. CASE mState \notin {"CHOOSE_SERVER", "FORCE_QUIT", "EXIT"}
        BY <1>2, <1>4, <3>3, EntryServer DEF MapLine, Leads, Home, LoginStates, CharStates
      <3> QED
        BY <3>1, <3>2, <3>3
    <2>4. LostRight'
      BY <1>2, <1>4, <2>1 DEF LostRight
    <2> QED
      BY <1>3, <1>4, <2>2, <2>3, <2>4 DEF PInv
  <1>5. ASSUME NEW request, <<mState, request>> \in Asking, conn' = Sent(conn, request)
        PROVE  PInv'
    <2>1. /\ conn'.server = conn.server /\ conn'.wanted = conn.wanted
          /\ conn'.mState = conn.mState /\ conn'.playing = conn.playing
      BY <1>1, <1>5, SentIs
    <2>2. /\ mState' = mState
          /\ conn.wanted =>
               \/ /\ conn.server = "login" /\ request = "login"
                  /\ mState \in {"LOGIN_ATTEMPT", "REGISTER_ATTEMPT"}
               \/ /\ conn.server = "char" /\ request \in {"password", "select"}
                  /\ mState \in {"CHANGEPASSWORD_ATTEMPT", "CHAR_SELECT"}
               \/ conn.server = "map" /\ request = "loaded" /\ mState = "GAME"
      BY <1>2, <1>5, EntryServer DEF Asking, Leads, Home, LoginStates, CharStates
    <2>3. Kinds(conn')
      <3>1. Live(conn) => request \in AskedOf(conn.server)
        BY <1>1, <2>2 DEF AskedOf
      <3> QED
        BY <1>1, <1>3, <1>5, <3>1, SentKinds
    <2>4. Placed'
      BY <1>2, <2>1, <2>2 DEF Placed, Home, Ways, LoginStates, CharStates
    <2>5. MapLine'
      <3>1. CASE ~(conn.wanted /\ conn.server = "map")
        BY <2>1, <3>1 DEF MapLine
      <3>2. CASE conn.wanted /\ conn.server = "map"
        <4>1. request = "loaded" /\ mState = "GAME"
          BY <2>2, <3>2
        <4>2. Arrived(conn) \/ InGame(conn)
          BY <1>2, <3>2, <4>1, EntryServer
        <4>3. Only(conn, {"loaded", "restart"}, {"changeMap", "charSwitch"})
          BY <4>2, OnlyMore DEF Arrived, InGame
        <4>4. Only(conn', {"loaded", "restart"} \cup {"loaded"}, {"changeMap", "charSwitch"})
          BY <1>1, <1>5, <4>1, <4>3, SentKeeps
        <4>5. InGame(conn')
          BY <4>4, OnlyMore DEF InGame
        <4> QED
          BY <1>2, <2>2, <4>1, <4>5 DEF MapLine, TravelStates
      <3> QED
        BY <3>1, <3>2
    <2>6. LostRight'
      BY <1>2, <1>3, <2>1, <2>2 DEF PInv, LostRight, Live
    <2> QED
      BY <2>3, <2>4, <2>5, <2>6 DEF PInv
  <1>6. ASSUME NEW c \in Conns, ~Live(c), NEW to, NEW request \in AskedOf(to),
               conn' = Connected(c, to, request),
               \/ mState = "GET_CHARACTERS" /\ to = "char"
               \/ mState \in {"SWITCH_WORLD", "SWITCH_LOGIN"} /\ to = "login"
        PROVE  PInv'
    <2>1. conn'.server = to /\ Kinds(conn')
      BY <1>6, ConnectedIs, ConnectedKinds
    <2>2. Placed' /\ MapLine' /\ LostRight'
      BY <1>2, <1>6, <2>1 DEF Placed, MapLine, LostRight, Leads, Home, Ways, LoginStates,
                              CharStates
    <2> QED
      BY <2>1, <2>2 DEF PInv
  <1>7. ASSUME mState \in TravelStates, conn' = Connected(conn, "map", "map")
        PROVE  PInv'
    <2>1. ~Live(conn)
      BY <1>2, <1>7, EntryServer
    <2>2. /\ conn'.server = "map" /\ conn'.wanted /\ ~conn'.playing /\ conn'.inbox = <<>>
          /\ DOMAIN conn'.asked = {1} /\ conn'.asked[1] = "map" /\ DOMAIN conn'.inbox = {}
      BY <1>1, <1>7, <2>1, ConnectedIs
    <2>3. Kinds(conn')
      BY <1>1, <1>7, <2>1, ConnectedKinds DEF AskedOf
    <2>4. BeforeGame(conn')
      BY <2>2 DEF BeforeGame, AtMostOne, Only
    <2>5. mState' = mState /\ mState' # "GAME"
      BY <1>2, <1>7 DEF Leads, TravelStates
    <2>6. Placed' /\ MapLine' /\ LostRight'
      BY <1>2, <1>7, <2>2, <2>4, <2>5 DEF Placed, MapLine, LostRight, Home, Ways
    <2> QED
      BY <2>3, <2>6 DEF PInv
  <1>8. CASE /\ mState \in {"SWITCH_SERVER", "SWITCH_CHARACTER", "ERROR"}
             /\ conn' \in Disconnected(conn)
    BY <1>1, <1>2, <1>3, <1>8, GivenUpPlaced
  <1>9. \A c \in Disconnected(conn) : c \in Conns /\ ~Live(c)
    BY <1>1, DisconnectedOK, DisconnectedIs DEF ConnOK
  <1>10. "characters" \in AskedOf("char") /\ "version" \in AskedOf("login")
    BY DEF AskedOf
  <1> QED
    BY <1>4, <1>5, <1>6, <1>7, <1>8, <1>9, <1>10, EntryCases

LEMMA StutterPlaced == ASSUME PInv, UNCHANGED vars PROVE PInv'
  BY DEF vars, data, PInv, Placed, GoneFromGame, MapLine, LostRight, Live

LEMMA PlacedInductive == Spec /\ Careful => []PInv
  <1>1. IInv /\ PInv /\ [Next]_vars /\ [~Lapse]_vars => PInv'
    BY OutsidePlaced, HandlersPlaced, EventsPlaced, UserPlaced, BeforePlaced, EntryPlaced,
       StutterPlaced DEF Next, MainLoop, Entry
  <1> QED
    BY InitPlaced, Inductive, <1>1, PTL DEF Spec, Careful

----------------------------------------------------------------------------
(* LInv: what is unanswered.                                               *)

\* Nobody is being let in when nothing but the version was asked and said.
LEMMA NotLoggingIn ==
    ASSUME Kinds(conn), conn.server = "login"
    PROVE  ~LoggingIn <=> Only(conn, {"version"}, {"version"})
  BY DEF Kinds, Only, AskedOf, SaidBy, LoggingIn, Asks, Received

LEMMA SentVersionFirst ==
    ASSUME NEW c \in Conns, VersionFirst(c), Only(c, {"version"}, {"version"}),
           NEW d, d = Sent(c, "login")
    PROVE  VersionFirst(d)
  <1>1. CASE ~Live(c)
    BY <1>1, SentIs
  <1>2. CASE Live(c)
    <2>1. /\ DOMAIN c.asked = 1 .. Len(c.asked) /\ Len(c.asked) \in Nat
          /\ d.inbox = c.inbox
      BY SentIs DEF Conns
    <2>2. /\ DOMAIN d.asked = 1 .. Len(c.asked) + 1
          /\ \A i \in DOMAIN c.asked : d.asked[i] = "version"
          /\ d.asked[Len(c.asked) + 1] = "login"
      BY <1>2, SentIs DEF Only
    <2>3. Len(c.asked) <= 1
      <3> SUFFICES ASSUME Len(c.asked) > 1 PROVE FALSE
        BY <2>1
      <3>1. 1 \in DOMAIN c.asked /\ 2 \in DOMAIN c.asked /\ 1 < 2
        BY <2>1
      <3> QED
        BY <3>1 DEF VersionFirst, Only
    <2>4. \A i, j \in DOMAIN d.asked : i < j => d.asked[i] = "version" /\ d.asked[j] = "login"
      BY <2>1, <2>2, <2>3
    <2>5. ASSUME NEW i \in DOMAIN d.asked, NEW j \in DOMAIN d.inbox, d.inbox[j] # "problem"
          PROVE  d.inbox[j] = "version" /\ d.asked[i] = "login"
      <3>1. d.inbox[j] = "version"
        BY <2>1, <2>5 DEF Only
      <3>2. i \notin DOMAIN c.asked
        BY <2>1, <2>5 DEF VersionFirst, Only
      <3> QED
        BY <2>1, <2>2, <3>1, <3>2
    <2> QED
      BY <2>1, <2>4, <2>5 DEF VersionFirst
  <1> QED
    BY <1>1, <1>2

LEMMA GivenUpLines ==
    ASSUME NEW c, c \in Conns, NEW d \in Disconnected(c)
    PROVE  /\ AtMostOne(c) => AtMostOne(d)
           /\ \A R, M : Only(c, R, M) => Only(d, R, M)
  BY DisconnectedIs DEF AtMostOne, Only

LEMMA ConnectedLines ==
    ASSUME NEW c, c \in Conns, ~Live(c), NEW to, NEW request, NEW d, d = Connected(c, to, request)
    PROVE  AtMostOne(d) /\ VersionFirst(d) /\ Only(d, {request}, {})
  <1>1. DOMAIN d.asked = {1} /\ d.asked[1] = request /\ DOMAIN d.inbox = {}
    BY ConnectedIs
  <1> QED
    BY <1>1 DEF AtMostOne, VersionFirst, Only

LEMMA InitLines == Init => LInv
  <1> SUFFICES ASSUME Init PROVE LInv
    OBVIOUS
  <1>1. conn.server = "login" /\ conn.wanted = FALSE /\ conn.asked = <<>> /\ conn.inbox = <<>>
    BY DEF Init
  <1>2. \A e : e = <<>> => DOMAIN e = {}
    OBVIOUS
  <1>3. FirstLogin
    BY <1>1, <1>2 DEF Init, FirstLogin, Only
  <1> QED
    BY <1>1, <1>3 DEF LInv, CharLine, LoginLine

LEMMA OutsideLines == ASSUME IInv, PInv, LInv, Outside PROVE LInv'
  <1>1. /\ Live(conn) /\ conn.wanted /\ conn'.wanted /\ conn'.server = conn.server
        /\ UNCHANGED <<mState, mOldState, given, mCurrentDialog, pc>> /\ pc # "done"
    BY OutsideFrame
  <1>2. conn.server # "map" => ~conn.playing
    BY DEF PInv, Kinds
  <1>3. conn.server # "map" /\ Quiet(conn) => Quiet(conn')
    BY <1>2, OutsideOnly DEF Quiet
  <1>4. CharLine'
    <2> SUFFICES ASSUME conn.server = "char" PROVE CharLine'
      BY <1>1 DEF CharLine
    <2>1. AtMostOne(conn')
      BY <1>2, OutsideAtMostOne DEF LInv, CharLine
    <2>2. Only(conn, {"characters"}, {"charLogin", "charError"})
             => Only(conn', {"characters"}, {"charLogin", "charError"})
      BY <1>2, OutsideOnly DEF Replies
    <2>3. Only(conn, {"select"}, {"charMapInfo", "charError"})
             => Only(conn', {"select"}, {"charMapInfo", "charError"})
      BY <1>2, OutsideOnly DEF Replies
    <2>4. Only(conn, {"password"}, {"passwordOk", "passwordNo"})
             => Only(conn', {"password"}, {"passwordOk", "passwordNo"})
      BY <1>2, OutsideOnly DEF Replies
    <2> QED
      BY <1>1, <1>3, <2>1, <2>2, <2>3, <2>4 DEF LInv, CharLine
  <1>5. Only(conn, {"version"}, {"version"}) /\ conn.server = "login"
           => Only(conn', {"version"}, {"version"})
    BY <1>2, OutsideOnly DEF Replies
  <1>6. LoginLine'
    <2> SUFFICES ASSUME conn.server = "login" PROVE LoginLine'
      BY <1>1 DEF LoginLine
    <2>1. VersionFirst(conn')
      <3>1. \A i \in DOMAIN conn.asked : conn.asked[i] \in {"version", "login"}
        BY DEF PInv, Kinds, Only, AskedOf
      <3> QED
        BY <1>1, <1>2, <3>1, OutsideVersionFirst DEF LInv, LoginLine
    <2>2. ~LoggingIn => ~LoggingIn'
      <3>1. ~LoggingIn => Only(conn', {"version"}, {"version"})
        BY <1>5, NotLoggingIn DEF PInv
      <3> QED
        BY <3>1 DEF Only, LoggingIn, Asks, Received
    <2> QED
      BY <1>1, <1>3, <2>1, <2>2 DEF LInv, LoginLine
  <1>7. FirstLogin'
    BY <1>1, <1>5 DEF LInv, FirstLogin
  <1> QED
    BY <1>4, <1>6, <1>7 DEF LInv

\* What a handler that only takes its message does.
LEMMA TakenLines ==
    ASSUME IInv, PInv, LInv, NEW m, Handle(m), conn' = Taken, pc' \in {"net", "error"},
           m = "problem" => mState' = "ERROR",
           mState' \in CharStates => m \in {"charLogin", "passwordOk", "passwordNo"},
           m \in {"passwordOk", "passwordNo"} \/ mState' \notin CharStates \ {"CHAR_SELECT"},
           mState' \in LoginStates \cup {"LOAD_DATA"} =>
              \/ m = "version" /\ mState' = "LOGIN"
              \/ m = "loginData" /\ mState' = "WORLD_SELECT",
           m \in {"version", "problem"} => mState' \in {"LOGIN", "ERROR"}
    PROVE  LInv'
  <1>1. /\ conn.inbox # <<>> /\ pc = "net" /\ Head(conn.inbox) = m
        /\ UNCHANGED <<mOldState, given, mCurrentDialog>>
    BY DEF Handle
  <1>2. ConnOK(conn)
    BY ConnType
  <1>3. /\ conn'.wanted = conn.wanted /\ conn'.server = conn.server
        /\ 1 \in DOMAIN conn.inbox /\ conn.inbox[1] = m
    BY <1>1, <1>2, TakenIs
  <1>4. \A R, M : Only(conn, R, M) => Only(conn', R, M) /\ m \in M \cup {"problem"}
    <2>1. \A R, M : Only(conn, R, M) => Only(conn', R, M)
      BY <1>1, <1>2, TakenKeeps
    <2>2. \A R, M : Only(conn, R, M) => m \in M \cup {"problem"}
      BY <1>3 DEF Only
    <2> QED
      BY <2>1, <2>2
  <1>5. Quiet(conn) => Quiet(conn') /\ m = "problem"
    BY <1>4 DEF Quiet
  <1>6. CharLine'
    <2> SUFFICES ASSUME conn.server = "char" PROVE CharLine'
      BY <1>3 DEF CharLine
    <2>1. AtMostOne(conn) /\ AtMostOne(conn')
      BY <1>1, <1>2, TakenKeeps DEF LInv, CharLine
    <2>2. m # "problem" => Quiet(conn')
      BY <1>1, <1>2, <2>1, TakenQuiet
    <2> QED
      BY <1>1, <1>3, <1>4, <1>5, <2>1, <2>2 DEF LInv, CharLine, CharStates
  <1>7. LoginLine'
    <2> SUFFICES ASSUME conn.server = "login", conn.wanted PROVE LoginLine'
      BY <1>3 DEF LoginLine
    <2>1. VersionFirst(conn) /\ VersionFirst(conn')
      BY <1>1, <1>2, TakenKeeps DEF LInv, LoginLine
    <2>2. m = "loginData" => Quiet(conn')
      BY <1>1, <1>2, <2>1, TakenQuiet
    <2>3. mOldState \in Chosen => Quiet(conn)
      BY <1>1 DEF LInv, LoginLine
    <2>4. m \in SaidBy("login")
      BY <1>4 DEF PInv, Kinds, SaidBy
    <2>5. mState' # "GET_CHARACTERS" /\ mState' \notin {"LOGIN_ATTEMPT", "REGISTER_ATTEMPT"}
      BY <2>4 DEF SaidBy, CharStates, LoginStates
    <2>6. mState' \in Chosen => m = "loginData" /\ mState' = "WORLD_SELECT"
      BY DEF Chosen, LoginStates
    <2> QED
      BY <1>1, <1>3, <1>5, <2>1, <2>2, <2>3, <2>5, <2>6 DEF LoginLine, Chosen
  <1>8. FirstLogin'
    BY <1>1, <1>3, <1>4 DEF LInv, FirstLogin
  <1> QED
    BY <1>6, <1>7, <1>8 DEF LInv

LEMMA HandlersLines == ASSUME IInv, PInv, LInv, FlushNetwork PROVE LInv'
  <1>1. ConnOK(conn) /\ conn.server \in Servers
    BY ConnType DEF ConnOK, Conns
  <1>2. CASE ProcessServerVersion
    BY <1>2, TakenLines DEF ProcessServerVersion, Handle, CharStates, LoginStates
  <1>3. CASE ProcessLoginData
    BY <1>3, TakenLines DEF ProcessLoginData, Handle, CharStates, LoginStates
  <1>4. CASE ProcessCharLogin
    BY <1>4, TakenLines DEF ProcessCharLogin, Handle, CharStates, LoginStates
  <1>5. CASE ProcessMapLogin
    BY <1>5, TakenLines DEF ProcessMapLogin, Handle, CharStates, LoginStates
  <1>6. CASE ProcessOther
    <2>1. PICK to \in [m : {"passwordOk"}, to : {"CHANGEPASSWORD_SUCCESS"}]
                 \cup [m : {"passwordNo"}, to : {"ACCOUNTCHANGE_ERROR"}]
                 \cup [m : {"charSwitch"}, to : {"SWITCH_CHARACTER"}]
                 \cup [m : {"loginError", "charError", "problem"}, to : {"ERROR"}] :
             Handle(to.m) /\ mState' = to.to
      BY <1>6 DEF ProcessOther
    <2>2. conn' = Taken /\ pc' = "net"
      BY <1>6, <2>1 DEF ProcessOther, Handle
    <2> QED
      BY <2>1, <2>2, TakenLines DEF CharStates, LoginStates
  <1>7. CASE ProcessCharMapInfo \/ ProcessChangeMapServer
    <2>1. /\ conn.inbox # <<>> /\ Head(conn.inbox) \in {"charMapInfo", "changeMap"}
          /\ conn' \in Disconnected(Taken) /\ UNCHANGED <<mOldState, given, mCurrentDialog>>
      BY <1>7 DEF ProcessCharMapInfo, ProcessChangeMapServer, Handle
    <2>2. /\ Taken \in Conns /\ Taken.server = conn.server /\ 1 \in DOMAIN conn.inbox
          /\ conn.inbox[1] = Head(conn.inbox)
      BY <1>1, <2>1, TakenOK, TakenIs DEF ConnOK
    <2>3. conn'.server = conn.server /\ ~conn'.wanted
      BY <2>1, <2>2, DisconnectedIs
    <2>4. AtMostOne(conn) => AtMostOne(conn')
      BY <1>1, <2>1, <2>2, TakenKeeps, GivenUpLines
    <2>5. "login" \notin given
      BY <2>1, <2>2 DEF LInv, FirstLogin, Only
    <2> QED
      BY <2>1, <2>3, <2>4, <2>5 DEF LInv, CharLine, LoginLine, FirstLogin
  <1>8. CASE Dispatched \/ Flushed
    <2>1. /\ UNCHANGED <<mOldState, given, mCurrentDialog, conn>> /\ mState' \in {mState, "ERROR"}
          /\ pc \in {"net", "error"} /\ pc' \in {"error", "gui"}
      BY <1>8 DEF Dispatched, Flushed
    <2>2. CharLine'
      BY <2>1 DEF LInv, CharLine, CharStates
    <2>3. LoginLine'
      BY <2>1 DEF LInv, LoginLine, Chosen, LoggingIn, Asks, Received
    <2>4. FirstLogin'
      BY <2>1 DEF LInv, FirstLogin
    <2> QED
      BY <2>2, <2>3, <2>4 DEF LInv
  <1> QED
    BY <1>2, <1>3, <1>4, <1>5, <1>6, <1>7, <1>8 DEF FlushNetwork

LEMMA EventsLines ==
    ASSUME IInv, PInv, LInv, NoEvent \/ CloseWindow \/ SlowLogic \/ NoEntry PROVE LInv'
  <1>1. /\ UNCHANGED <<mOldState, given, mCurrentDialog, conn>> /\ mState' \in {mState, "EXIT"}
        /\ \/ pc = "events" /\ pc' \in {"net", "done"}
           \/ pc = "slow" /\ pc' = "before"
           \/ pc = "enter" /\ pc' = "events" /\ mState = mOldState /\ UNCHANGED mState
    BY DEF NoEvent, CloseWindow, SlowLogic, NoEntry
  <1>2. CharLine'
    BY <1>1 DEF LInv, CharLine, CharStates
  <1>3. LoginLine'
    BY <1>1 DEF LInv, LoginLine, Chosen, LoggingIn, Asks, Received
  <1>4. FirstLogin'
    BY <1>1 DEF LInv, FirstLogin
  <1> QED
    BY <1>2, <1>3, <1>4 DEF LInv

LEMMA BeforeLines == ASSUME IInv, PInv, LInv, BeforeEntry PROVE LInv'
  <1>1. /\ UNCHANGED <<mOldState, given, mCurrentDialog>> /\ pc = "before" /\ pc' = "enter"
        /\ mState' \in {mState, "PRE_LOGIN"}
    BY DEF BeforeEntry, StateConnectGame1, StateConnectServer1, StateWorldSelect1, StateOther1,
           Before
  <1>2. ConnOK(conn) /\ conn \in Conns
    BY ConnType DEF ConnOK
  <1>3. CASE UNCHANGED conn
    <2>1. CharLine'
      BY <1>1, <1>3 DEF LInv, CharLine, CharStates
    <2>2. LoginLine'
      BY <1>1, <1>3 DEF LInv, LoginLine, Chosen, LoggingIn, Asks, Received
    <2>3. FirstLogin'
      BY <1>1, <1>3 DEF LInv, FirstLogin
    <2> QED
      BY <2>1, <2>2, <2>3 DEF LInv
  <1>4. CASE StateConnectGame1 /\ conn' \in Disconnected(conn)
    <2>1. /\ conn'.server = conn.server /\ ~conn'.wanted
          /\ AtMostOne(conn) => AtMostOne(conn')
      BY <1>2, <1>4, DisconnectedIs, GivenUpLines
    <2>2. mState = "CONNECT_GAME"
      BY <1>4 DEF StateConnectGame1
    <2> QED
      BY <1>1, <2>1, <2>2 DEF LInv, CharLine, LoginLine, FirstLogin
  <1>5. CASE /\ StateConnectServer1 /\ mOldState = "CHOOSE_SERVER"
             /\ \E c \in Disconnected(conn) : conn' = Connected(c, "login", "version")
    <2>1. PICK c \in Disconnected(conn) : conn' = Connected(c, "login", "version")
      BY <1>5
    <2>2. c \in Conns /\ ~Live(c)
      BY <1>2, DisconnectedOK, DisconnectedIs DEF ConnOK
    <2>3. VersionFirst(conn') /\ Only(conn', {"version"}, {}) /\ conn'.server = "login"
      BY <2>1, <2>2, ConnectedLines, ConnectedIs
    <2>4. Only(conn', {"version"}, {"version"})
      BY <2>3, OnlyMore
    <2>5. mState = "CONNECT_SERVER"
      BY <1>5 DEF StateConnectServer1
    <2> QED
      BY <1>1, <1>5, <2>3, <2>4, <2>5 DEF LInv, CharLine, LoginLine, FirstLogin, Chosen
  <1> QED
    BY <1>3, <1>4, <1>5 DEF BeforeEntry, StateConnectGame1, StateConnectServer1,
       StateWorldSelect1, StateOther1

LEMMA UserLines == ASSUME ~Lapse, IInv, PInv, LInv, UserActs PROVE LInv'
  <1>1. pc = "gui" /\ pc' = "slow" /\ UNCHANGED <<mOldState, given>>
    BY UserFrame
  <1>2. /\ conn.server \in Servers /\ conn \in Conns /\ (Live(conn) => conn.wanted)
    BY ConnType DEF ConnOK, Conns, Closed, Live
  <1>3. CASE UNCHANGED <<mState, mCurrentDialog, conn>>
    BY <1>1, <1>3 DEF LInv, CharLine, LoginLine, FirstLogin, LoggingIn, Asks, Received
  <1>4. CASE /\ UNCHANGED <<mCurrentDialog, conn>>
             /\ mState' \in {"EXIT", "SWITCH_SERVER"} \/ mState' \in Goals(mOldState)
             /\ mState' = "CHANGEPASSWORD" => mCurrentDialog = "open"
             /\ mState' \in {"LOGIN_ATTEMPT", "REGISTER_ATTEMPT"} => ~LoggingIn
    <2>1. CharLine'
      BY <1>1, <1>4 DEF LInv, CharLine, Goals, CharStates
    <2>2. LoginLine'
      <3>1. mState' \in Chosen \cup {"GET_CHARACTERS"} => mOldState \in Chosen
        BY <1>4 DEF Goals, Chosen
      <3>2. mState' # "WORLD_SELECT" /\ LoggingIn' = LoggingIn
        BY <1>4 DEF Goals, LoggingIn, Asks, Received
      <3> QED
        BY <1>1, <1>4, <3>1, <3>2 DEF LInv, LoginLine
    <2>3. FirstLogin'
      BY <1>1, <1>4 DEF LInv, FirstLogin, Goals
    <2> QED
      BY <2>1, <2>2, <2>3 DEF LInv
  <1>5. CASE /\ mOldState = "GAME" /\ mState' \in {"CHOOSE_SERVER", "FORCE_QUIT"}
             /\ UNCHANGED <<mCurrentDialog, conn>>
    BY <1>1, <1>5 DEF LInv, CharLine, LoginLine, FirstLogin, Chosen, CharStates
  <1>6. CASE /\ mOldState = "CHAR_SELECT" /\ mCurrentDialog = "open" /\ mCurrentDialog' = "locked"
             /\ conn' = Sent(conn, "select") /\ UNCHANGED mState
    <2>1. conn'.server = conn.server /\ conn'.wanted = conn.wanted /\ (~Live(conn) => conn' = conn)
      BY <1>2, <1>6, SentIs
    <2>2. conn.wanted => conn.server = "char"
      BY <1>1, <1>2, <1>6 DEF PInv, Placed, GoneFromGame, Home, Servers, LoginStates,
                              TravelStates
    <2>3. conn.wanted => Quiet(conn) /\ mState \notin CharStates \ {"CHAR_SELECT"}
      BY <1>1, <1>6, <2>2 DEF LInv, CharLine
    <2>4. conn.wanted => Only(conn', {"select"}, {"charMapInfo", "charError"})
      <3>1. conn.wanted => Only(conn', {} \cup {"select"}, {})
        BY <1>2, <1>6, <2>3, SentKeeps DEF Quiet
      <3> QED
        BY <3>1, OnlyMore
    <2>5. conn'.server = "char" => AtMostOne(conn')
      <3>1. conn.wanted => AtMostOne(conn')
        BY <1>2, <1>6, <2>3, SentKeeps
      <3> QED
        BY <1>2, <2>1, <3>1 DEF LInv, CharLine
    <2>6. CharLine'
      BY <1>1, <1>6, <2>1, <2>3, <2>4, <2>5 DEF CharLine
    <2>7. "login" \notin given
      BY <1>6 DEF LInv, FirstLogin
    <2> QED
      BY <1>1, <2>1, <2>2, <2>6, <2>7 DEF LInv, LoginLine, FirstLogin
  <1>7. CASE mState = "GAME" /\ conn' = Sent(conn, "restart") /\ UNCHANGED <<mState, mCurrentDialog>>
    <2>1. conn'.server = conn.server /\ conn'.wanted = conn.wanted /\ (~Live(conn) => conn' = conn)
      BY <1>2, <1>7, SentIs
    <2>2. conn.wanted => conn.server = "map"
      BY <1>1, <1>2, <1>7 DEF PInv, Placed, GoneFromGame, Home, Ways, Servers, LoginStates,
                              CharStates, TravelStates
    <2>3. "login" \notin given
      BY <1>7 DEF LInv, FirstLogin
    <2> QED
      BY <1>1, <1>2, <2>1, <2>2, <2>3 DEF LInv, CharLine, LoginLine, FirstLogin
  <1> QED
    BY <1>3, <1>4, <1>5, <1>6, <1>7, UserCases

LEMMA EntryLines == ASSUME IInv, PInv, LInv, Entry, ~NoEntry PROVE LInv'
  <1>1. /\ pc = "enter" /\ mOldState # mState /\ mOldState' = mState /\ mState' \in Leads(mState)
        /\ pc' = IF mState' = "EXIT" THEN "done" ELSE "events"
        /\ given' \subseteq given /\ (mState = "LOGIN" => "login" \notin given')
        /\ mState = "LOGIN" /\ mState' = "LOGIN_ATTEMPT" => "login" \in given
    BY EntryFrame
  <1>2. /\ conn.server \in Servers /\ conn \in Conns /\ ConnOK(conn) /\ (Live(conn) => conn.wanted)
    BY ConnType DEF ConnOK, Conns, Closed, Live
  <1>3. CASE /\ UNCHANGED conn
             /\ mState \in {"CHOOSE_SERVER", "LOGIN", "CONNECT_SERVER", "REGISTER",
                            "CHANGEPASSWORD", "UPDATE", "PRE_LOGIN", "REGISTER_PREP",
                            "WORLD_SELECT", "LOAD_DATA", "CHAR_SELECT", "FORCE_QUIT", "EXIT",
                            "CHANGEPASSWORD_SUCCESS", "ACCOUNTCHANGE_ERROR"}
             /\ mState = "CHAR_SELECT" => mCurrentDialog' = "open"
    <2>1. CharLine'
      <3>1. CASE mState \in CharStates
        <4>1. conn.server = "char" /\ conn.wanted => Quiet(conn)
          BY <1>1, <3>1 DEF LInv, CharLine
        <4>2. mState' = mState /\ mState \notin {"GET_CHARACTERS", "CHANGEPASSWORD_ATTEMPT"}
          BY <1>1, <1>3, <3>1 DEF Leads, CharStates
        <4>3. Quiet(conn) => Only(conn, {"select"}, {"charMapInfo", "charError"})
          BY OnlyMore DEF Quiet
        <4> QED
          BY <1>1, <1>3, <4>1, <4>2, <4>3 DEF LInv, CharLine, CharStates
      <3>2. CASE mState \notin CharStates
        <4>1. conn.wanted => conn.server # "char" \/ mState \in {"FORCE_QUIT", "EXIT"}
          BY <1>1, <1>3, <3>2, EntryServer DEF GoneFromGame, LoginStates, CharStates
        <4> QED
          BY <1>1, <1>3, <4>1 DEF LInv, CharLine, Leads
      <3> QED
        BY <3>1, <3>2
    <2>2. FirstLogin'
      BY <1>1, <1>3 DEF LInv, FirstLogin, Leads
    <2>3. LoginLine'
      <3>1. mState' \in Chosen \cup {"GET_CHARACTERS"} /\ mState' # mState => mState \in Chosen
        BY <1>1, <1>3 DEF Leads, Chosen
      <3>2. mState \in {"UPDATE", "LOAD_DATA"} => mState' # "WORLD_SELECT"
        BY <1>1 DEF Leads
      <3>3. mState' \in {"LOGIN_ATTEMPT", "REGISTER_ATTEMPT"} /\ conn.server = "login" => ~LoggingIn
        <4>1. mState' \in {"LOGIN_ATTEMPT", "REGISTER_ATTEMPT"} => "login" \in given
          BY <1>1, <1>3 DEF Leads
        <4> QED
          BY <4>1, NotLoggingIn DEF PInv, LInv, FirstLogin
      <3>4. LoggingIn' = LoggingIn
        BY <1>3 DEF LoggingIn, Asks, Received
      <3> QED
        BY <1>1, <1>3, <3>1, <3>2, <3>3, <3>4 DEF LInv, LoginLine, Chosen
    <2> QED
      BY <2>1, <2>2, <2>3 DEF LInv
  <1>4. ASSUME NEW request, <<mState, request>> \in Asking, conn' = Sent(conn, request),
               mState = "CHAR_SELECT" => mCurrentDialog' = "locked"
        PROVE  LInv'
    <2>1. conn'.server = conn.server /\ conn'.wanted = conn.wanted /\ (~Live(conn) => conn' = conn)
      BY <1>2, <1>4, SentIs
    <2>2. /\ mState' = mState
          /\ conn.wanted =>
               \/ /\ conn.server = "login" /\ request = "login"
                  /\ mState \in {"LOGIN_ATTEMPT", "REGISTER_ATTEMPT"}
               \/ /\ conn.server = "char"
                  /\ \/ mState = "CHANGEPASSWORD_ATTEMPT" /\ request = "password"
                     \/ mState = "CHAR_SELECT" /\ request = "select"
               \/ conn.server = "map"
      BY <1>1, <1>4, EntryServer DEF Asking, Leads, Home, LoginStates, CharStates
    <2>3. CharLine'
      <3>1. CASE conn.server = "char" /\ conn.wanted
        <4>1. Quiet(conn)
          BY <1>1, <2>2, <3>1 DEF LInv, CharLine, CharStates
        <4>2. AtMostOne(conn') /\ Only(conn', {} \cup {request}, {})
          BY <1>2, <1>4, <4>1, SentKeeps DEF Quiet
        <4>3. /\ request = "password" => Only(conn', {"password"}, {"passwordOk", "passwordNo"})
              /\ request = "select" => Only(conn', {"select"}, {"charMapInfo", "charError"})
          BY <4>2, OnlyMore
        <4> QED
          BY <1>1, <1>4, <2>1, <2>2, <3>1, <4>2, <4>3 DEF CharLine, CharStates
      <3>2. CASE ~(conn.server = "char" /\ conn.wanted)
        BY <1>2, <2>1, <3>2 DEF LInv, CharLine
      <3> QED
        BY <3>1, <3>2
    <2>4. LoginLine'
      <3>1. CASE conn.server = "login" /\ conn.wanted
        <4>1. VersionFirst(conn) /\ ~LoggingIn
          BY <1>1, <2>2, <3>1 DEF LInv, LoginLine
        <4>2. Only(conn, {"version"}, {"version"})
          BY <3>1, <4>1, NotLoggingIn DEF PInv
        <4>3. VersionFirst(conn')
          BY <1>2, <1>4, <2>2, <3>1, <4>1, <4>2, SentVersionFirst
        <4> QED
          BY <1>1, <2>2, <3>1, <4>3 DEF LoginLine, Chosen
      <3>2. CASE ~(conn.server = "login" /\ conn.wanted)
        BY <2>1, <3>2 DEF LoginLine
      <3> QED
        BY <3>1, <3>2
    <2>5. "login" \notin given'
      BY <1>1, <1>4 DEF LInv, FirstLogin, Asking
    <2> QED
      BY <2>3, <2>4, <2>5 DEF LInv, FirstLogin
  <1>5. ASSUME NEW c \in Conns, ~Live(c), NEW to, NEW request, conn' = Connected(c, to, request),
               \/ mState = "GET_CHARACTERS" /\ to = "char" /\ request = "characters"
               \/ mState \in {"SWITCH_WORLD", "SWITCH_LOGIN"} /\ to = "login" /\ request = "version"
               \/ mState \in TravelStates /\ to = "map"
        PROVE  LInv'
    <2>1. conn'.server = to /\ AtMostOne(conn') /\ VersionFirst(conn') /\ Only(conn', {request}, {})
      BY <1>5, ConnectedIs, ConnectedLines
    <2>2. CharLine'
      <3>1. to = "char" => Only(conn', {"characters"}, {"charLogin", "charError"})
        BY <1>5, <2>1, OnlyMore
      <3> QED
        BY <1>1, <1>5, <2>1, <3>1 DEF CharLine, Leads, CharStates
    <2>3. LoginLine'
      <3>1. to = "login" => Only(conn', {"version"}, {"version"})
        BY <1>5, <2>1, OnlyMore
      <3>2. to = "login" => ~LoggingIn'
        BY <3>1 DEF LoggingIn, Asks, Received, Only
      <3> QED
        BY <1>1, <1>5, <2>1, <3>2 DEF LoginLine, Leads, Chosen
    <2>4. "login" \notin given'
      BY <1>1, <1>5 DEF LInv, FirstLogin, TravelStates
    <2> QED
      BY <2>2, <2>3, <2>4 DEF LInv, FirstLogin
  <1>6. CASE /\ mState \in {"SWITCH_SERVER", "SWITCH_CHARACTER", "ERROR"}
             /\ conn' \in Disconnected(conn)
    <2>1. /\ conn'.server = conn.server /\ ~conn'.wanted
          /\ AtMostOne(conn) => AtMostOne(conn')
          /\ \A R, M : Only(conn, R, M) => Only(conn', R, M)
      BY <1>2, <1>6, DisconnectedIs, GivenUpLines
    <2>2. FirstLogin'
      BY <1>1, <1>6, <2>1 DEF LInv, FirstLogin, Leads
    <2> QED
      BY <2>1, <2>2 DEF LInv, CharLine, LoginLine
  <1>7. \A c \in Disconnected(conn) : c \in Conns /\ ~Live(c)
    BY <1>2, DisconnectedOK, DisconnectedIs DEF ConnOK
  <1>8. mState \in TravelStates => ~Live(conn)
    BY <1>1, EntryServer
  <1> QED
    BY <1>2, <1>3, <1>4, <1>5, <1>6, <1>7, <1>8, EntryCases

LEMMA StutterLines == ASSUME LInv, UNCHANGED vars PROVE LInv'
  BY DEF vars, data, LInv, CharLine, LoginLine, FirstLogin, LoggingIn, Asks, Received

LEMMA LinesInductive == Spec /\ Careful => []LInv
  <1>1. IInv /\ PInv /\ LInv /\ [Next]_vars /\ [~Lapse]_vars => LInv'
    BY OutsideLines, HandlersLines, EventsLines, UserLines, BeforeLines, EntryLines,
       StutterLines DEF Next, MainLoop, Entry
  <1> QED
    BY InitLines, Inductive, PlacedInductive, <1>1, PTL DEF Spec, Careful

----------------------------------------------------------------------------
(* WInv: what the layers below make of the states.                         *)

LEMMA InitWay == Init => WInv
  <1> SUFFICES ASSUME Init PROVE WInv
    OBVIOUS
  <1>1. /\ conn.asked = <<>> /\ conn.inbox = <<>> /\ conn.server = "login"
        /\ conn.mState = "IDLE" /\ conn.wanted = FALSE
    BY DEF Init
  <1>2. \A e : e = <<>> => DOMAIN e = {}
    OBVIOUS
  <1>3. ~SomeAnswer /\ ~Live(conn) /\ ~Asks({"password"}) /\ ~Received({"passwordOk", "passwordNo"})
    BY <1>1, <1>2 DEF SomeAnswer, Live, Unconnected, Asks, Received
  <1>4. LeftOver
    BY <1>1, <1>2, <1>3 DEF LeftOver
  <1>5. mState = "CHOOSE_SERVER" /\ mOldState = "START" /\ pc = "events"
    BY DEF Init
  <1>6. DataThere /\ ListThere
    BY <1>3, <1>5, <1>1
       DEF DataThere, ListThere, NeedData, Password, CharStates, TravelStates
  <1> QED
    BY <1>3, <1>4, <1>5, <1>6 DEF WInv, LeadsOn, Nowhere, OnItsWay

LEMMA OutsideOwed ==
    ASSUME IInv, Outside, Live(conn'), ~conn.playing, NEW R, NEW M, Owed(R, M),
           \A r \in R : Replies(r) \subseteq M \cup {"problem"}, "loaded" \notin R
    PROVE  Owed(R, M)'
  <1>1. conn.inbox \in Seq(Messages) /\ conn.asked \in Seq(Requests)
    BY ConnType DEF ConnOK, Conns
  <1>2. ASSUME Received(M \cup {"problem"}) PROVE Received(M \cup {"problem"})'
    BY <1>2, OutsideOld DEF Received
  <1>3. ASSUME Asks(R), UNCHANGED conn.asked PROVE Asks(R)'
    BY <1>3 DEF Asks
  <1>4. ASSUME NEW m, m \in M \cup {"problem"}, conn'.inbox = Append(conn.inbox, m)
        PROVE  Received(M \cup {"problem"})'
    <2>1. Len(conn.inbox) + 1 \in DOMAIN conn'.inbox /\ conn'.inbox[Len(conn.inbox) + 1] = m
      BY <1>1, <1>4
    <2> QED
      BY <1>4, <2>1 DEF Received
  <1>5. ASSUME Asks(R), conn.asked # <<>>, conn'.asked = Tail(conn.asked),
               Head(conn.asked) \notin R
        PROVE  Asks(R)'
    <2>1. PICK k \in DOMAIN conn.asked : conn.asked[k] \in R
      BY <1>5 DEF Asks
    <2>2. k # 1 /\ k \in Int /\ k >= 1
      BY <1>1, <1>5, <2>1
    <2>3. k - 1 \in DOMAIN conn'.asked /\ conn'.asked[k - 1] = conn.asked[k]
      BY <1>1, <1>5, <2>1, <2>2
    <2> QED
      BY <2>1, <2>3 DEF Asks
  <1>6. CASE Establish
    BY <1>2, <1>3, <1>6 DEF Establish, Owed, Asks, Received
  <1>7. CASE Break
    <2>1. conn'.mState \in Unconnected
      BY <1>7, ConnType DEF Break, ConnOK, Conns, Unconnected
    <2> QED
      BY <2>1 DEF Live
  <1>8. CASE Answer
    <2>1. PICK m \in Replies(Head(conn.asked)) :
             conn' = [conn EXCEPT !.asked = Tail(@), !.inbox = Append(@, m),
                                  !.playing = @ /\ m # "charSwitch"]
      BY <1>8 DEF Answer
    <2>2. conn'.asked = Tail(conn.asked) /\ conn'.inbox = Append(conn.inbox, m)
            /\ conn.asked # <<>>
      BY <1>8, <2>1, ConnType DEF Answer, ConnOK, Conns
    <2>3. CASE Head(conn.asked) \in R
      BY <1>4, <2>1, <2>2, <2>3 DEF Owed
    <2>4. CASE Head(conn.asked) \notin R
      BY <1>2, <1>5, <2>2, <2>4 DEF Owed
    <2> QED
      BY <2>3, <2>4
  <1>9. CASE AnswerLoaded
    <2>1. conn'.asked = Tail(conn.asked) /\ conn.asked # <<>> /\ Head(conn.asked) = "loaded"
      BY <1>9, ConnType DEF AnswerLoaded, ConnOK, Conns
    <2> QED
      BY <1>2, <1>5, <2>1 DEF Owed
  <1>10. CASE Redirect \/ Problem
    <2>1. conn'.inbox = Append(conn.inbox, "problem")
      BY <1>10, ConnType DEF Redirect, Problem, ConnOK, Conns
    <2> QED
      BY <1>4, <2>1 DEF Owed
  <1> QED
    BY <1>6, <1>7, <1>8, <1>9, <1>10 DEF Outside

LEMMA OutsideWay == ASSUME IInv, PInv, LInv, WInv, Outside PROVE WInv'
  <1>1. /\ Live(conn) /\ conn.wanted /\ conn'.wanted /\ conn'.server = conn.server
        /\ pc # "done"
        /\ UNCHANGED <<mState, mOldState, loaded, mCharacters, mCurrentDialog, pc>>
    BY OutsideFrame DEF data
  <1>2. conn.server \in Servers
    BY ConnType DEF ConnOK, Conns
  <1>3. LeadsOn'
    BY <1>1 DEF WInv, LeadsOn
  <1>4. LeftOver'
    <2>1. PInv'
      BY OutsidePlaced
    <2>2. ASSUME NEW i \in DOMAIN conn'.inbox, NEW j \in DOMAIN conn'.inbox,
                 conn'.inbox[i] = "mapLogin", i # j
          PROVE  conn'.inbox[j] = "problem"
      <3>1. conn'.server = "map"
        BY <1>1, <1>2, <2>1, <2>2 DEF PInv, Kinds, Only, SaidBy, Servers
      <3>2. BeforeGame(conn')
        BY <1>1, <2>1, <2>2, <3>1 DEF PInv, MapLine, Arrived, InGame, Only
      <3> QED
        BY <2>2, <3>2 DEF BeforeGame, AtMostOne
    <2> QED
      BY <1>1, <2>2 DEF LeftOver
  <1>5. Nowhere'
    BY <1>1 DEF Nowhere
  <1>6. DataThere'
    BY <1>1 DEF WInv, DataThere
  <1>7. ListThere'
    <2>1. Asks({"password"})' => Asks({"password"})
      BY OutsideAsked DEF Asks
    <2>2. Received({"passwordOk", "passwordNo"})'
             => Received({"passwordOk", "passwordNo"}) \/ Asks({"password"})
      <3> SUFFICES ASSUME NEW i \in DOMAIN conn'.inbox,
                          conn'.inbox[i] \in {"passwordOk", "passwordNo"},
                          ~Received({"passwordOk", "passwordNo"})
                   PROVE  Asks({"password"})
        BY DEF Received
      <3>1. i \notin DOMAIN conn.inbox
        BY OutsideOld DEF Received
      <3>2. 1 \in DOMAIN conn.asked /\ conn'.inbox[i] \in Replies(conn.asked[1])
        BY <3>1, OutsideNew
      <3>3. conn.asked[1] = "password"
        BY <3>2 DEF Replies
      <3> QED
        BY <3>2, <3>3 DEF Asks
    <2> QED
      BY <1>1, <2>1, <2>2 DEF WInv, ListThere
  <1>8. OnItsWay'
    <2> SUFFICES ASSUME Live(conn') PROVE OnItsWay'
      BY DEF OnItsWay
    <2>1. conn.server # "map" => ~conn.playing
      BY DEF PInv, Kinds
    <2>2. mState \in {"CONNECT_SERVER", "PRE_LOGIN"} => ~conn.playing
      BY <1>1, <1>2, <2>1 DEF PInv, Placed, GoneFromGame, Home, Ways, TravelStates
    <2>3. mState = mOldState /\ mState \in LoginStates \cup CharStates => ~conn.playing
      BY <1>1, <1>2, <2>1 DEF PInv, Placed, GoneFromGame, Home, Ways, TravelStates, LoginStates,
                              CharStates
    <2>4. mState = mOldState /\ mState \in TravelStates => ~conn.playing
      BY <1>1, <2>1 DEF PInv, MapLine, BeforeGame, Arrived, TravelStates
    <2>5. \A r \in {"version", "login", "characters", "password", "map"} : r # "loaded"
      OBVIOUS
    <2>6. /\ Replies("version") \subseteq {"version"} \cup {"problem"}
          /\ Replies("login") \subseteq {"loginData", "loginError"} \cup {"problem"}
          /\ Replies("characters") \subseteq {"charLogin", "charError"} \cup {"problem"}
          /\ Replies("password") \subseteq {"passwordOk", "passwordNo"} \cup {"problem"}
          /\ Replies("map") \subseteq {"mapLogin"} \cup {"problem"}
      BY DEF Replies
    <2>7. ~conn.playing =>
            /\ Owed({"version"}, {"version"}) => Owed({"version"}, {"version"})'
            /\ Owed({"login"}, {"loginData", "loginError"})
                  => Owed({"login"}, {"loginData", "loginError"})'
            /\ Owed({"characters"}, {"charLogin", "charError"})
                  => Owed({"characters"}, {"charLogin", "charError"})'
            /\ Owed({"password"}, {"passwordOk", "passwordNo"})
                  => Owed({"password"}, {"passwordOk", "passwordNo"})'
            /\ Owed({"map"}, {"mapLogin"}) => Owed({"map"}, {"mapLogin"})'
      BY <2>6, OutsideOwed
    <2> QED
      BY <1>1, <2>2, <2>3, <2>4, <2>7 DEF WInv, OnItsWay, LoginStates, CharStates
  <1> QED
    BY <1>3, <1>4, <1>5, <1>6, <1>7, <1>8 DEF WInv

\* What the messages that are handled say of the state they are handled in.
LEMMA HandledIn ==
    ASSUME IInv, PInv, LInv, WInv, conn.inbox # <<>>, pc = "net"
    PROVE  /\ Head(conn.inbox) \in SaidBy(conn.server) \cup {"problem"}
           /\ Head(conn.inbox) # "problem" => SomeAnswer
           /\ Head(conn.inbox) \in {"passwordOk", "passwordNo"} =>
                mCharacters /\ mOldState # "CHAR_SELECT"
           /\ Head(conn.inbox) = "charMapInfo" =>
                /\ AtMostOne(conn)
                /\ conn.wanted => mOldState = "CHAR_SELECT" /\ mCurrentDialog = "locked"
                /\ ~conn.wanted => mOldState \notin Password \cup {"CHAR_SELECT"}
           /\ Head(conn.inbox) = "changeMap" => (conn.wanted => mOldState = "GAME")
           /\ Head(conn.inbox) = "mapLogin" =>
                \A i \in DOMAIN Taken.inbox : Taken.inbox[i] = "problem"
  <1>1. ConnOK(conn) /\ conn.server \in Servers
    BY ConnType DEF ConnOK, Conns
  <1>2. 1 \in DOMAIN conn.inbox /\ conn.inbox[1] = Head(conn.inbox)
    BY <1>1, TakenIs
  <1>3. \A R, M : Only(conn, R, M) => Head(conn.inbox) \in M \cup {"problem"}
    BY <1>2 DEF Only
  <1>4. Head(conn.inbox) \in SaidBy(conn.server) \cup {"problem"}
    BY <1>3 DEF PInv, Kinds
  <1>5. Head(conn.inbox) # "problem" => SomeAnswer
    BY <1>2 DEF SomeAnswer
  <1>6. Head(conn.inbox) # "problem" /\ ~conn.wanted =>
           mOldState \in {"ERROR", "SWITCH_SERVER", "SWITCH_CHARACTER", "GAME"}
    BY <1>5 DEF WInv, LeftOver
  <1>7. Head(conn.inbox) \in {"charMapInfo", "passwordOk", "passwordNo"} => conn.server = "char"
    BY <1>1, <1>4 DEF Servers, SaidBy
  <1>8. Head(conn.inbox) \in {"passwordOk", "passwordNo"} => mCharacters
    BY <1>2 DEF WInv, ListThere, Received
  <1>9. Head(conn.inbox) \in {"passwordOk", "passwordNo"} => mOldState # "CHAR_SELECT"
    BY <1>3, <1>6, <1>7 DEF LInv, CharLine
  <1>10. Head(conn.inbox) = "charMapInfo" /\ conn.wanted =>
            mOldState = "CHAR_SELECT" /\ mCurrentDialog = "locked"
    <2> SUFFICES ASSUME Head(conn.inbox) = "charMapInfo", conn.wanted
                 PROVE  mOldState = "CHAR_SELECT" /\ mCurrentDialog = "locked"
      OBVIOUS
    <2>1. ~Quiet(conn)
      BY <1>3 DEF Quiet
    <2>2. mOldState \in CharStates
      BY <1>2, <1>7 DEF PInv, Placed, GoneFromGame, Home
    <2>3. mOldState = "CHAR_SELECT"
      BY <1>3, <1>7, <2>1, <2>2 DEF LInv, CharLine, CharStates
    <2> QED
      BY <1>7, <2>1, <2>3 DEF LInv, CharLine
  <1>11. Head(conn.inbox) = "changeMap" => (conn.wanted => mOldState = "GAME")
    <2> SUFFICES ASSUME Head(conn.inbox) = "changeMap", conn.wanted PROVE mOldState = "GAME"
      OBVIOUS
    <2>1. conn.server = "map"
      BY <1>1, <1>4 DEF Servers, SaidBy
    <2>2. mOldState \in {"GAME", "CHOOSE_SERVER"}
      BY <1>3, <2>1 DEF PInv, MapLine, BeforeGame, Arrived
    <2> QED
      BY <1>2, <2>1, <2>2 DEF PInv, Placed, GoneFromGame, Home, TravelStates
  <1>12. Head(conn.inbox) = "mapLogin" =>
            \A i \in DOMAIN Taken.inbox : Taken.inbox[i] = "problem"
    BY <1>1, <1>2, TakenIs DEF WInv, LeftOver, ConnOK, Conns
  <1>13. Head(conn.inbox) = "charMapInfo" => AtMostOne(conn)
    BY <1>7 DEF LInv, CharLine
  <1> QED
    BY <1>4, <1>5, <1>6, <1>8, <1>9, <1>10, <1>11, <1>12, <1>13 DEF Password

\* A message that is taken, of a connection that is kept.
LEMMA TakenWay ==
    ASSUME IInv, PInv, LInv, WInv, NEW m, Handle(m), conn' = Taken,
           pc' = "net" \/ m = "mapLogin",
           mState' \in NeedData => m \notin {"version", "loginData", "loginError", "problem"},
           mState' \notin {"CONNECT_SERVER", "PRE_LOGIN", "LOGIN_ATTEMPT", "REGISTER_ATTEMPT",
                           "GET_CHARACTERS", "CHANGEPASSWORD", "CHANGEPASSWORD_ATTEMPT",
                           "LOAD_DATA", "SWITCH_LOGIN", "SWITCH_WORLD"} \cup TravelStates,
           mState' = "CHAR_SELECT" => mCharacters',
           mState' \in {"CHANGEPASSWORD_SUCCESS", "ACCOUNTCHANGE_ERROR"} =>
              m \in {"passwordOk", "passwordNo"},
           mCharacters' \in {TRUE, mCharacters}
    PROVE  WInv'
  <1>1. /\ conn.inbox # <<>> /\ pc = "net" /\ Head(conn.inbox) = m
        /\ UNCHANGED <<mOldState, loaded, mCurrentDialog>>
    BY DEF Handle
  <1>2. ConnOK(conn) /\ conn.server \in Servers
    BY ConnType DEF ConnOK, Conns
  <1>3. /\ conn'.wanted = conn.wanted /\ conn'.server = conn.server /\ conn'.mState = conn.mState
        /\ conn'.asked = conn.asked /\ conn'.stray = (conn.stray \/ ~conn.wanted)
        /\ \A i \in DOMAIN conn'.inbox :
              i + 1 \in DOMAIN conn.inbox /\ conn'.inbox[i] = conn.inbox[i + 1]
    BY <1>1, <1>2, TakenIs
  <1>4. SomeAnswer' => SomeAnswer
    BY <1>3 DEF SomeAnswer
  <1>5. LeadsOn'
    BY <1>1, <1>2 DEF WInv, LeadsOn
  <1>6. LeftOver'
    <2>1. \A i \in DOMAIN conn'.inbox : i \in Int
      BY <1>1, <1>2, TakenIs
    <2>2. \A i, j \in DOMAIN conn'.inbox :
             conn'.inbox[i] = "mapLogin" /\ i # j => conn'.inbox[j] = "problem"
      <3> SUFFICES ASSUME NEW i \in DOMAIN conn'.inbox, NEW j \in DOMAIN conn'.inbox,
                          conn'.inbox[i] = "mapLogin", i # j
                   PROVE  conn'.inbox[j] = "problem"
        OBVIOUS
      <3>1. i + 1 # j + 1
        BY <2>1
      <3> QED
        BY <1>3, <3>1 DEF WInv, LeftOver
    <2>3. m = "mapLogin" => ~SomeAnswer'
      BY <1>1, HandledIn DEF SomeAnswer
    <2> QED
      BY <1>1, <1>3, <1>4, <2>2, <2>3 DEF WInv, LeftOver
  <1>7. Nowhere'
    BY <1>3 DEF Nowhere
  <1>8. DataThere'
    <2>1. mState' \in NeedData => SomeAnswer /\ conn.server \in {"char", "map"}
      BY <1>1, <1>2, HandledIn DEF Servers, SaidBy
    <2>2. Live(conn') <=> Live(conn)
      BY <1>3 DEF Live
    <2> QED
      BY <1>1, <1>3, <1>4, <2>1, <2>2 DEF WInv, DataThere
  <1>9. ListThere'
    <2>1. mCharacters => mCharacters'
      OBVIOUS
    <2>2. Asks({"password"})' => Asks({"password"})
      BY <1>3 DEF Asks
    <2>3. Received({"passwordOk", "passwordNo"})' => Received({"passwordOk", "passwordNo"})
      BY <1>3 DEF Received
    <2>4. mState' \in Password => mCharacters /\ mOldState # "CHAR_SELECT"
      BY <1>1, HandledIn DEF Password
    <2> QED
      BY <1>1, <2>1, <2>2, <2>3, <2>4 DEF WInv, ListThere
  <1>10. OnItsWay'
    BY <1>1 DEF OnItsWay
  <1> QED
    BY <1>5, <1>6, <1>7, <1>8, <1>9, <1>10 DEF WInv

LEMMA HandlersWay == ASSUME IInv, PInv, LInv, WInv, FlushNetwork PROVE WInv'
  <1>1. ConnOK(conn) /\ conn.server \in Servers /\ mCharacters \in BOOLEAN
    BY ConnType DEF ConnOK, Conns, IInv, TypeOK
  <1>2. CASE ProcessServerVersion \/ ProcessLoginData
    BY <1>2, TakenWay DEF ProcessServerVersion, ProcessLoginData, Handle, NeedData, CharStates,
                          TravelStates
  <1>3. CASE ProcessCharLogin
    BY <1>3, TakenWay DEF ProcessCharLogin, Handle, TravelStates
  <1>4. CASE ProcessMapLogin
    BY <1>4, TakenWay DEF ProcessMapLogin, TravelStates
  <1>5. CASE ProcessOther
    <2>1. PICK to \in [m : {"passwordOk"}, to : {"CHANGEPASSWORD_SUCCESS"}]
                 \cup [m : {"passwordNo"}, to : {"ACCOUNTCHANGE_ERROR"}]
                 \cup [m : {"charSwitch"}, to : {"SWITCH_CHARACTER"}]
                 \cup [m : {"loginError", "charError", "problem"}, to : {"ERROR"}] :
             Handle(to.m) /\ mState' = to.to
      BY <1>5 DEF ProcessOther
    <2>2. conn' = Taken /\ pc' = "net" /\ mCharacters' = mCharacters
      BY <1>5, <2>1 DEF ProcessOther, Handle
    <2>3. to.to \in NeedData => to.m \notin {"version", "loginData", "loginError", "problem"}
      BY <2>1 DEF NeedData, CharStates, TravelStates
    <2> QED
      BY <2>1, <2>2, <2>3, TakenWay DEF TravelStates
  <1>6. CASE ProcessCharMapInfo \/ ProcessChangeMapServer
    <2>1. /\ conn.inbox # <<>> /\ pc = "net" /\ pc' = "net"
          /\ conn' \in Disconnected(Taken) /\ UNCHANGED <<mOldState, loaded, mCurrentDialog>>
          /\ \/ /\ Head(conn.inbox) = "charMapInfo" /\ mState' = "CONNECT_GAME"
                /\ mCharacters' = FALSE
             \/ /\ Head(conn.inbox) = "changeMap" /\ mState' = "CHANGE_MAP"
                /\ mCharacters' = mCharacters
      BY <1>6 DEF ProcessCharMapInfo, ProcessChangeMapServer, Handle
    <2>2. /\ Taken \in Conns /\ Taken.stray = (conn.stray \/ ~conn.wanted)
          /\ Taken.server = conn.server
          /\ \A i \in DOMAIN Taken.inbox :
                i + 1 \in DOMAIN conn.inbox /\ Taken.inbox[i] = conn.inbox[i + 1]
          /\ \A i \in DOMAIN Taken.inbox : i \in Int
      BY <1>1, <2>1, TakenIs, TakenOK DEF ConnOK
    <2>3. /\ ~conn'.wanted /\ ~Live(conn') /\ DOMAIN conn'.asked = {} /\ conn'.server = conn.server
          /\ conn'.stray = (conn.stray \/ ~conn.wanted) /\ conn'.inbox = Taken.inbox
      BY <2>1, <2>2, DisconnectedIs
    <2>4. SomeAnswer' => SomeAnswer
      BY <2>2, <2>3 DEF SomeAnswer
    <2>5. SomeAnswer /\ conn.server \in {"char", "map"}
      BY <1>1, <2>1, HandledIn DEF Servers, SaidBy
    <2>6. LeadsOn'
      BY <2>1 DEF WInv, LeadsOn
    <2>7. LeftOver'
      <3>1. Head(conn.inbox) = "charMapInfo" /\ conn.wanted => ~SomeAnswer'
        <4> SUFFICES ASSUME Head(conn.inbox) = "charMapInfo" PROVE ~SomeAnswer'
          OBVIOUS
        <4>1. Quiet(Taken)
          BY <1>1, <2>1, HandledIn, TakenQuiet
        <4> QED
          BY <2>3, <4>1 DEF Quiet, Only, SomeAnswer
      <3>2. \A i, j \in DOMAIN conn'.inbox :
               conn'.inbox[i] = "mapLogin" /\ i # j => conn'.inbox[j] = "problem"
        <4> SUFFICES ASSUME NEW i \in DOMAIN Taken.inbox, NEW j \in DOMAIN Taken.inbox,
                            Taken.inbox[i] = "mapLogin", i # j
                     PROVE  Taken.inbox[j] = "problem"
          BY <2>3
        <4>1. i + 1 # j + 1
          BY <2>2
        <4> QED
          BY <2>2, <4>1 DEF WInv, LeftOver
      <3>3. Head(conn.inbox) = "changeMap" /\ conn.wanted => mOldState = "GAME"
        BY <2>1, HandledIn
      <3> QED
        BY <2>1, <2>4, <3>1, <3>2, <3>3 DEF WInv, LeftOver
    <2>8. Nowhere'
      BY <2>1, <2>3, HandledIn DEF Nowhere
    <2>9. DataThere'
      BY <2>1, <2>3, <2>4, <2>5 DEF WInv, DataThere
    <2>10. ListThere'
      <3>1. ~Asks({"password"})'
        BY <2>3 DEF Asks
      <3>2. Received({"passwordOk", "passwordNo"})' => Received({"passwordOk", "passwordNo"})
        BY <2>2, <2>3 DEF Received
      <3>3. Head(conn.inbox) = "charMapInfo" => ~Received({"passwordOk", "passwordNo"})'
        <4> SUFFICES ASSUME Head(conn.inbox) = "charMapInfo"
                     PROVE  ~Received({"passwordOk", "passwordNo"})'
          OBVIOUS
        <4>1. Quiet(Taken)
          BY <1>1, <2>1, HandledIn, TakenQuiet
        <4> QED
          BY <2>3, <4>1 DEF Quiet, Only, Received
      <3> QED
        BY <2>1, <3>1, <3>2, <3>3, HandledIn DEF WInv, ListThere, Password
    <2> QED
      BY <2>3, <2>6, <2>7, <2>8, <2>9, <2>10 DEF WInv, OnItsWay
  <1>7. CASE Dispatched \/ Flushed
    <2>1. /\ UNCHANGED <<mOldState, loaded, mCharacters, mCurrentDialog, conn>>
          /\ mState' \in {mState, "ERROR"}
          /\ \/ pc = "net" /\ conn.inbox = <<>> /\ pc' = "error"
             \/ pc = "error" /\ pc' = "gui"
      BY <1>7 DEF Dispatched, Flushed, data
    <2>2. LeadsOn'
      BY <2>1 DEF WInv, LeadsOn
    <2>3. LeftOver'
      <3>1. conn.inbox = <<>> => ~SomeAnswer
        <4>1. \A e : e = <<>> => DOMAIN e = {}
          OBVIOUS
        <4> QED
          BY <4>1 DEF SomeAnswer
      <3>2. SomeAnswer' <=> SomeAnswer
        BY <2>1 DEF SomeAnswer
      <3> QED
        BY <2>1, <3>1, <3>2 DEF WInv, LeftOver
    <2>4. Nowhere'
      BY <2>1 DEF WInv, Nowhere
    <2>5. DataThere'
      BY <2>1 DEF WInv, DataThere, SomeAnswer, Live, NeedData, CharStates, TravelStates
    <2>6. ListThere'
      BY <2>1 DEF WInv, ListThere, Password, Asks, Received
    <2>7. OnItsWay'
      BY <2>1 DEF WInv, OnItsWay, Owed, Asks, Received, Live, TravelStates
    <2> QED
      BY <2>2, <2>3, <2>4, <2>5, <2>6, <2>7 DEF WInv
  <1> QED
    BY <1>2, <1>3, <1>4, <1>5, <1>6, <1>7 DEF FlushNetwork

LEMMA EventsWay ==
    ASSUME IInv, PInv, LInv, WInv, NoEvent \/ CloseWindow \/ SlowLogic \/ NoEntry PROVE WInv'
  <1>1. /\ UNCHANGED <<mOldState, loaded, mCharacters, mCurrentDialog, conn>>
        /\ mState' \in {mState, "EXIT"}
        /\ \/ pc = "events" /\ pc' \in {"net", "done"}
           \/ pc = "slow" /\ pc' = "before" /\ UNCHANGED mState
           \/ pc = "enter" /\ pc' = "events" /\ mState = mOldState /\ UNCHANGED mState
    BY DEF NoEvent, CloseWindow, SlowLogic, NoEntry, data
  <1>2. LeadsOn'
    BY <1>1 DEF WInv, LeadsOn
  <1>3. LeftOver'
    BY <1>1 DEF WInv, LeftOver, SomeAnswer
  <1>4. Nowhere'
    BY <1>1 DEF WInv, Nowhere
  <1>5. DataThere'
    BY <1>1 DEF WInv, DataThere, SomeAnswer, Live, NeedData, CharStates, TravelStates
  <1>6. ListThere'
    BY <1>1 DEF WInv, ListThere, Password, Asks, Received
  <1>7. OnItsWay'
    BY <1>1 DEF WInv, OnItsWay, Owed, Asks, Received, Live, TravelStates
  <1> QED
    BY <1>2, <1>3, <1>4, <1>5, <1>6, <1>7 DEF WInv

LEMMA BeforeWay == ASSUME IInv, PInv, LInv, WInv, BeforeEntry PROVE WInv'
  <1>1. /\ UNCHANGED <<mOldState, loaded, mCharacters, mCurrentDialog>>
        /\ pc = "before" /\ pc' = "enter"
    BY DEF BeforeEntry, StateConnectGame1, StateConnectServer1, StateWorldSelect1, StateOther1,
           Before
  <1>2. /\ ConnOK(conn) /\ conn \in Conns /\ conn.server \in Servers
        /\ Live(conn) => conn.wanted
    BY ConnType DEF ConnOK, Conns, Closed, Live
  <1>3. CASE /\ UNCHANGED conn
             /\ \/ UNCHANGED mState /\ (mState = "CONNECT_SERVER" => mOldState # "CHOOSE_SERVER")
                \/ /\ mState' = "PRE_LOGIN" /\ mState = "CONNECT_SERVER"
                   /\ mOldState # "CHOOSE_SERVER" /\ Live(conn)
                \/ mState' = "PRE_LOGIN" /\ mState = "WORLD_SELECT" /\ mOldState = "UPDATE"
    <2>1. LeadsOn'
      BY <1>1, <1>3 DEF WInv, LeadsOn
    <2>2. LeftOver'
      BY <1>1, <1>3 DEF WInv, LeftOver, SomeAnswer
    <2>3. Nowhere'
      BY <1>1, <1>2, <1>3 DEF WInv, Nowhere
    <2>4. DataThere'
      BY <1>1, <1>3 DEF WInv, DataThere, SomeAnswer, Live, NeedData, CharStates, TravelStates
    <2>5. ListThere'
      BY <1>1, <1>3 DEF WInv, ListThere, Password, Asks, Received
    <2>6. OnItsWay'
      <3>1. mState = "WORLD_SELECT" /\ mOldState = "UPDATE" => ~Live(conn)
        BY <1>1, <1>2 DEF PInv, Placed, GoneFromGame, LInv, LoginLine, Home, Ways, Servers,
                          CharStates, TravelStates
      <3> QED
        BY <1>1, <1>3, <3>1 DEF WInv, OnItsWay, Owed, Asks, Received, Live, TravelStates
    <2> QED
      BY <2>1, <2>2, <2>3, <2>4, <2>5, <2>6 DEF WInv
  <1>4. ~(mState = "CONNECT_GAME" /\ conn.mState = "CONNECTED" /\ conn.server = "login")
    BY <1>1, <1>2 DEF PInv, Placed, GoneFromGame, Home, Ways, LoginStates, Live, Unconnected
  <1>5. CASE /\ StateConnectServer1 /\ mOldState = "CHOOSE_SERVER" /\ UNCHANGED mState
             /\ \E c \in Disconnected(conn) : conn' = Connected(c, "login", "version")
    <2>1. PICK c \in Disconnected(conn) : conn' = Connected(c, "login", "version")
      BY <1>5
    <2>2. c \in Conns /\ ~Live(c)
      BY <1>2, DisconnectedOK, DisconnectedIs DEF ConnOK
    <2>3. /\ conn'.server = "login" /\ conn'.wanted /\ DOMAIN conn'.inbox = {}
          /\ DOMAIN conn'.asked = {1} /\ conn'.asked[1] = "version"
      BY <2>1, <2>2, ConnectedIs
    <2>4. mState = "CONNECT_SERVER"
      BY <1>5 DEF StateConnectServer1
    <2>5. LeadsOn' /\ LeftOver' /\ Nowhere'
      BY <1>1, <1>5, <2>3, <2>4 DEF LeadsOn, LeftOver, SomeAnswer, Nowhere
    <2>6. DataThere'
      BY <1>1, <1>5, <2>3 DEF WInv, DataThere
    <2>7. ListThere'
      BY <1>1, <1>5, <2>3 DEF WInv, ListThere, Asks, Received
    <2>8. OnItsWay'
      BY <1>1, <1>5, <2>3, <2>4 DEF OnItsWay, Owed, Asks
    <2> QED
      BY <2>5, <2>6, <2>7, <2>8 DEF WInv
  <1>6. CASE StateConnectGame1 \/ StateOther1 \/ StateWorldSelect1
    BY <1>1, <1>3, <1>4, <1>6 DEF StateConnectGame1, StateOther1, StateWorldSelect1
  <1>7. CASE StateConnectServer1
    <2>1. CASE mOldState = "CHOOSE_SERVER"
      BY <1>5, <1>7, <2>1 DEF StateConnectServer1
    <2>2. CASE mOldState # "CHOOSE_SERVER"
      BY <1>3, <1>7, <2>2 DEF StateConnectServer1, Live, Unconnected
    <2> QED
      BY <2>1, <2>2
  <1> QED
    BY <1>6, <1>7 DEF BeforeEntry

\* While the characters are shown, no answer about a password is awaited or there.
LEMMA NoPassword ==
    ASSUME IInv, PInv, LInv, WInv, mOldState = "CHAR_SELECT", pc \notin {"events", "net", "done"}
    PROVE  ~Asks({"password"}) /\ ~Received({"passwordOk", "passwordNo"})
  <1>1. conn.server \in Servers /\ (~conn.wanted => conn.asked = <<>>)
    BY ConnType DEF ConnOK, Conns, Closed
  <1>2. CASE conn.wanted
    <2>1. conn.server = "char"
      BY <1>1, <1>2 DEF PInv, Placed, GoneFromGame, Home, Servers, LoginStates, TravelStates
    <2>2. Only(conn, {"select"}, {"charMapInfo", "charError"})
      BY <1>2, <2>1 DEF LInv, CharLine
    <2> QED
      BY <2>2 DEF Only, Asks, Received
  <1>3. CASE ~conn.wanted
    <2>1. ~SomeAnswer
      BY <1>3 DEF WInv, LeftOver
    <2>2. \A e : e = <<>> => DOMAIN e = {}
      OBVIOUS
    <2> QED
      BY <1>1, <1>3, <2>1, <2>2 DEF SomeAnswer, Asks, Received
  <1> QED
    BY <1>2, <1>3

LEMMA SentAsks ==
    ASSUME NEW request, conn \in Conns, conn' = Sent(conn, request)
    PROVE  /\ \A R : Asks(R) => Asks(R)'
           /\ \A R : Asks(R)' => Asks(R) \/ request \in R
           /\ Live(conn) => \A R : request \in R => Asks(R)'
           /\ \A M : Received(M)' <=> Received(M)
           /\ SomeAnswer' <=> SomeAnswer
           /\ conn'.wanted = conn.wanted /\ conn'.server = conn.server /\ conn'.stray = conn.stray
           /\ conn'.inbox = conn.inbox /\ (Live(conn') <=> Live(conn))
           /\ ~Live(conn) => conn' = conn
  <1>1. CASE ~Live(conn)
    <2>1. conn' = conn
      BY <1>1, SentIs
    <2> QED
      BY <1>1, <2>1 DEF Asks, Received, SomeAnswer
  <1>2. CASE Live(conn)
    <2>1. /\ conn'.wanted = conn.wanted /\ conn'.server = conn.server /\ conn'.stray = conn.stray
          /\ conn'.inbox = conn.inbox /\ conn'.mState = conn.mState
      BY SentIs
    <2>2. /\ \A i \in DOMAIN conn.asked : i \in DOMAIN conn'.asked
                                           /\ conn'.asked[i] = conn.asked[i]
          /\ Len(conn.asked) + 1 \in DOMAIN conn'.asked
          /\ conn'.asked[Len(conn.asked) + 1] = request
          /\ \A i \in DOMAIN conn'.asked : i \in DOMAIN conn.asked \/ i = Len(conn.asked) + 1
      BY <1>2, SentIs
    <2>3. /\ \A R : Asks(R) => Asks(R)'
          /\ \A R : Asks(R)' => Asks(R) \/ request \in R
          /\ \A R : request \in R => Asks(R)'
      BY <2>2 DEF Asks
    <2>4. (\A M : Received(M)' <=> Received(M)) /\ (SomeAnswer' <=> SomeAnswer)
      BY <2>1 DEF Received, SomeAnswer
    <2> QED
      BY <1>2, <2>1, <2>3, <2>4 DEF Live
  <1> QED
    BY <1>1, <1>2

LEMMA UserWay == ASSUME ~Lapse, IInv, PInv, LInv, WInv, UserActs PROVE WInv'
  <1>1. pc = "gui" /\ pc' = "slow" /\ UNCHANGED <<mOldState, loaded>>
    BY UserFrame
  <1>2. /\ conn.server \in Servers /\ conn \in Conns /\ (Live(conn) => conn.wanted)
    BY ConnType DEF ConnOK, Conns, Closed, Live
  <1>3. ~conn.wanted => ~SomeAnswer
    BY <1>1 DEF WInv, LeftOver
  <1>4. CASE UNCHANGED <<mState, mCharacters, mCurrentDialog, conn>>
    <2>1. LeftOver'
      BY <1>1, <1>4 DEF WInv, LeftOver, SomeAnswer
    <2>2. DataThere' /\ ListThere'
      BY <1>1, <1>4 DEF WInv, DataThere, SomeAnswer, Live, ListThere, Asks, Received
    <2>3. OnItsWay'
      BY <1>1, <1>4 DEF WInv, OnItsWay, Owed, Asks, Received, Live
    <2> QED
      BY <1>1, <1>4, <2>1, <2>2, <2>3 DEF WInv, LeadsOn, Nowhere
  <1>5. CASE /\ UNCHANGED <<mCurrentDialog, conn>>
             /\ \/ mState' = "EXIT" /\ mCharacters' = mCharacters
                \/ conn.mState = "CONNECTED" /\ mState' = "SWITCH_SERVER"
                     /\ mCharacters' = mCharacters
                \/ /\ mState' \in Goals(mOldState)
                   /\ mCharacters' = mCharacters \/ mState' = "SWITCH_WORLD"
                   /\ mState' = "CHANGEPASSWORD" => mCurrentDialog = "open"
                \/ /\ mOldState = "GAME" /\ mState' \in {"CHOOSE_SERVER", "FORCE_QUIT"}
                   /\ mCharacters' = mCharacters
    <2>1. LeadsOn'
      BY <1>1, <1>5 DEF WInv, LeadsOn, Goals
    <2>2. LeftOver'
      BY <1>1, <1>3, <1>5 DEF WInv, LeftOver, SomeAnswer
    <2>3. Nowhere'
      BY <1>1, <1>2, <1>5 DEF WInv, Nowhere, Goals, Live, Unconnected
    <2>4. DataThere'
      <3>1. mState' \in NeedData => mOldState \in NeedData
        BY <1>5 DEF Goals, NeedData, CharStates, TravelStates
      <3> QED
        BY <1>1, <1>5, <3>1 DEF WInv, DataThere, SomeAnswer, Live
    <2>5. ListThere'
      <3>1. mState' = "SWITCH_WORLD" => mOldState = "CHAR_SELECT"
        BY <1>5 DEF Goals
      <3>2. mOldState = "CHAR_SELECT" =>
              ~Asks({"password"})' /\ ~Received({"passwordOk", "passwordNo"})'
        BY <1>1, <1>5, NoPassword DEF Asks, Received
      <3>3. mState' \in Password \cup {"CHAR_SELECT"} => mCharacters /\ mCharacters' = mCharacters
        BY <1>1, <1>5 DEF WInv, ListThere, Goals, Password
      <3>4. mOldState = "CHAR_SELECT" => mState' \notin Password \ {"CHANGEPASSWORD"}
        BY <1>1, <1>5 DEF Goals, Password
      <3>5. CASE mState' = "SWITCH_WORLD"
        BY <1>1, <3>1, <3>2, <3>5 DEF ListThere, Password
      <3>6. CASE mCharacters' = mCharacters
        BY <1>1, <1>5, <3>3, <3>4, <3>6 DEF WInv, ListThere, Asks, Received
      <3> QED
        BY <1>5, <3>5, <3>6
    <2>6. OnItsWay'
      <3>1. mState' = "CONNECT_SERVER" => ~Live(conn)
        BY <1>1, <1>2, <1>5 DEF Goals, PInv, Placed, GoneFromGame, Home, Servers, LoginStates,
                                CharStates, TravelStates
      <3>2. mState' # "PRE_LOGIN"
        BY <1>5 DEF Goals
      <3>3. mState' = mOldState => mState' \in {"EXIT", "SWITCH_SERVER"}
        BY <1>5 DEF Goals
      <3> QED
        BY <1>1, <1>5, <3>1, <3>2, <3>3 DEF OnItsWay, Live, TravelStates
    <2> QED
      BY <2>1, <2>2, <2>3, <2>4, <2>5, <2>6 DEF WInv
  <1>6. ASSUME NEW request, conn' = Sent(conn, request), UNCHANGED <<mState, mCharacters>>,
               \/ /\ mOldState = "CHAR_SELECT" /\ mCurrentDialog = "open"
                  /\ mCurrentDialog' = "locked" /\ request = "select"
               \/ mState = "GAME" /\ request = "restart" /\ UNCHANGED mCurrentDialog
        PROVE  WInv'
    <2>1. LeadsOn'
      BY <1>1, <1>6 DEF WInv, LeadsOn
    <2>2. LeftOver'
      BY <1>1, <1>2, <1>3, <1>6, SentAsks DEF WInv, LeftOver
    <2>3. Nowhere'
      BY <1>1, <1>2, <1>6, SentAsks DEF WInv, Nowhere
    <2>4. DataThere'
      BY <1>1, <1>2, <1>6, SentAsks DEF WInv, DataThere
    <2>5. ListThere'
      <3>1. Asks({"password"})' => Asks({"password"})
        BY <1>2, <1>6, SentAsks
      <3>2. Received({"passwordOk", "passwordNo"})' => Received({"passwordOk", "passwordNo"})
        BY <1>2, <1>6, SentAsks
      <3> QED
        BY <1>1, <1>6, <3>1, <3>2 DEF WInv, ListThere
    <2>6. OnItsWay'
      <3>1. \A R, M : Owed(R, M) => Owed(R, M)'
        BY <1>2, <1>6, SentAsks DEF Owed
      <3>2. Live(conn') <=> Live(conn)
        BY <1>2, <1>6, SentAsks
      <3> QED
        BY <1>1, <1>6, <3>1, <3>2 DEF WInv, OnItsWay
    <2> QED
      BY <2>1, <2>2, <2>3, <2>4, <2>5, <2>6 DEF WInv
  <1> QED
    BY <1>4, <1>5, <1>6, UserCases

LEMMA EntryWay == ASSUME IInv, PInv, LInv, WInv, Entry, ~NoEntry PROVE WInv'
  <1>1. /\ pc = "enter" /\ mOldState # mState /\ mOldState' = mState /\ mState' \in Leads(mState)
        /\ pc' = IF mState' = "EXIT" THEN "done" ELSE "events"
        /\ mCharacters' = ListKept
        /\ mState = "LOAD_DATA" => loaded'
        /\ mState \notin {"LOAD_DATA", "CHOOSE_SERVER"} => loaded' = loaded
    BY EntryFrame
  <1>2. /\ conn.server \in Servers /\ conn \in Conns /\ ConnOK(conn) /\ (Live(conn) => conn.wanted)
    BY ConnType DEF ConnOK, Conns, Closed, Live
  <1>3. ~conn.wanted => ~SomeAnswer
    BY <1>1 DEF WInv, LeftOver
  <1>4. LeadsOn'
    BY <1>1 DEF LeadsOn, Leads
  <1>5. /\ mState' \in NeedData => mState \in NeedData \cup {"LOAD_DATA"}
        /\ mState' \in Password \cup {"CHAR_SELECT"} => mState' = mState
    BY <1>1 DEF Leads, NeedData, Password, CharStates, TravelStates
  <1>6. mState \in Password \cup {"CHAR_SELECT"} => mCharacters'
    <2>1. mState \in Password \cup {"CHAR_SELECT"} => mCharacters
      BY DEF WInv, ListThere
    <2>2. mOldState = "CHAR_SELECT" =>
            mState \notin (Password \cup {"CHAR_SELECT"}) \ {"CHANGEPASSWORD"}
      BY <1>1 DEF WInv, ListThere
    <2> QED
      BY <1>1, <2>1, <2>2 DEF ListKept
  <1>7. Asks({"password"}) \/ Received({"passwordOk", "passwordNo"}) => mCharacters'
    <2>1. Asks({"password"}) \/ Received({"passwordOk", "passwordNo"}) =>
            mCharacters /\ mOldState # "CHAR_SELECT"
      BY <1>1, NoPassword DEF WInv, ListThere
    <2> QED
      BY <1>1, <2>1 DEF ListKept
  <1>8. /\ mState \in Password \cup {"CHAR_SELECT"} => mCharacters'
        /\ mState' \in Password \cup {"CHAR_SELECT"} => mCharacters'
        /\ mState = "CHAR_SELECT" => mState' = "CHAR_SELECT"
    BY <1>1, <1>5, <1>6 DEF Leads
  <1>9. ASSUME Asks({"password"})' \/ Received({"passwordOk", "passwordNo"})' => mCharacters'
        PROVE  ListThere'
    BY <1>1, <1>8, <1>9 DEF ListThere, Password
  <1>10. mState = "CHOOSE_SERVER" =>
            ~Live(conn) /\ (conn.server \in {"char", "map"} => ~SomeAnswer)
    <2>1. GoneFromGame => ~Live(conn) /\ ~SomeAnswer
      <3>1. \A e : e = <<>> => DOMAIN e = {}
        OBVIOUS
      <3> QED
        BY <3>1 DEF GoneFromGame, SomeAnswer
    <2> QED
      BY <1>1, <1>2, <1>3, <2>1, EntryServer
  <1>11. CASE /\ UNCHANGED conn
              /\ mState \in {"CHOOSE_SERVER", "LOGIN", "CONNECT_SERVER", "REGISTER",
                             "CHANGEPASSWORD", "UPDATE", "PRE_LOGIN", "REGISTER_PREP",
                             "WORLD_SELECT", "LOAD_DATA", "CHAR_SELECT", "FORCE_QUIT", "EXIT",
                             "CHANGEPASSWORD_SUCCESS", "ACCOUNTCHANGE_ERROR"}
    <2>1. /\ SomeAnswer' <=> SomeAnswer
          /\ \A R : Asks(R)' <=> Asks(R)
          /\ \A M : Received(M)' <=> Received(M)
          /\ Live(conn') <=> Live(conn)
      BY <1>11 DEF SomeAnswer, Asks, Received
    <2>2. LeftOver'
      BY <1>1, <1>3, <1>11, <2>1 DEF WInv, LeftOver
    <2>3. Nowhere'
      BY <1>1, <1>11 DEF WInv, Nowhere, Leads
    <2>4. DataThere'
      BY <1>1, <1>5, <1>10, <1>11, <2>1 DEF WInv, DataThere, NeedData, CharStates, TravelStates
    <2>5. ListThere'
      BY <1>7, <1>9, <2>1
    <2>6. OnItsWay'
      <3>1. mState' \in {"CONNECT_SERVER", "PRE_LOGIN"} => mState' = mState \/ ~Live(conn)
        BY <1>1, <1>10, <1>11 DEF Leads
      <3>2. mState' = mState => mState' \notin {"LOGIN_ATTEMPT", "REGISTER_ATTEMPT",
                                   "GET_CHARACTERS", "CHANGEPASSWORD_ATTEMPT"} \cup TravelStates
        BY <1>11 DEF TravelStates
      <3> QED
        BY <1>1, <2>1, <3>1, <3>2 DEF WInv, OnItsWay, Owed
    <2> QED
      BY <1>4, <2>2, <2>3, <2>4, <2>5, <2>6 DEF WInv
  <1>12. ASSUME NEW request, <<mState, request>> \in Asking, conn' = Sent(conn, request)
         PROVE  WInv'
    <2>1. mState' = mState /\ mState \notin {"LOAD_DATA", "CHOOSE_SERVER"}
      BY <1>1, <1>12 DEF Asking, Leads
    <2>2. LeftOver'
      BY <1>1, <1>2, <1>3, <1>12, SentAsks DEF WInv, LeftOver
    <2>3. Nowhere'
      BY <1>1, <1>2, <1>12, <2>1, SentAsks DEF WInv, Nowhere, Asking
    <2>4. DataThere'
      BY <1>1, <1>2, <1>12, <2>1, SentAsks DEF WInv, DataThere
    <2>5. ListThere'
      <3>1. Asks({"password"})' => Asks({"password"}) \/ mState = "CHANGEPASSWORD_ATTEMPT"
        BY <1>2, <1>12, SentAsks DEF Asking
      <3>2. Received({"passwordOk", "passwordNo"})' => Received({"passwordOk", "passwordNo"})
        BY <1>2, <1>12, SentAsks
      <3> QED
        BY <1>7, <1>8, <1>9, <3>1, <3>2 DEF Password
    <2>6. OnItsWay'
      <3> SUFFICES ASSUME Live(conn') PROVE OnItsWay'
        BY DEF OnItsWay
      <3>1. \A R : request \in R => Asks(R)'
        BY <1>2, <1>12, SentAsks
      <3> QED
        BY <1>1, <1>12, <2>1, <3>1 DEF OnItsWay, Owed, Asking, TravelStates
    <2> QED
      BY <1>4, <2>2, <2>3, <2>4, <2>5, <2>6 DEF WInv
  <1>13. ASSUME NEW c \in Conns, ~Live(c), NEW to, NEW request, conn' = Connected(c, to, request),
                \/ mState = "GET_CHARACTERS" /\ to = "char" /\ request = "characters"
                \/ /\ mState \in {"SWITCH_WORLD", "SWITCH_LOGIN"}
                   /\ to = "login" /\ request = "version"
                \/ mState \in TravelStates /\ to = "map" /\ request = "map"
         PROVE  WInv'
    <2>1. /\ conn'.server = to /\ conn'.wanted /\ DOMAIN conn'.inbox = {}
          /\ DOMAIN conn'.asked = {1} /\ conn'.asked[1] = request
      BY <1>13, ConnectedIs
    <2>2. \A R : Asks(R)' <=> request \in R
      BY <2>1 DEF Asks
    <2>3. ~SomeAnswer' /\ (\A M : ~Received(M)')
      BY <2>1 DEF SomeAnswer, Received
    <2>4. LeftOver' /\ Nowhere'
      BY <2>1 DEF LeftOver, Nowhere
    <2>5. DataThere'
      BY <1>1, <1>5, <1>13, <2>1, <2>3 DEF WInv, DataThere, NeedData, CharStates, TravelStates
    <2>6. ListThere'
      BY <1>9, <1>13, <2>2, <2>3
    <2>7. OnItsWay'
      BY <1>1, <1>13, <2>2 DEF OnItsWay, Owed, Leads, TravelStates
    <2> QED
      BY <1>4, <2>4, <2>5, <2>6, <2>7 DEF WInv
  <1>14. CASE /\ mState \in {"SWITCH_SERVER", "SWITCH_CHARACTER", "ERROR"}
              /\ conn' \in Disconnected(conn)
    <2>1. /\ conn'.server = conn.server /\ ~conn'.wanted /\ ~Live(conn')
          /\ DOMAIN conn'.asked = {} /\ conn'.inbox = conn.inbox /\ conn'.stray = conn.stray
      BY <1>2, <1>14, DisconnectedIs
    <2>2. /\ SomeAnswer' <=> SomeAnswer
          /\ \A R : ~Asks(R)'
          /\ \A M : Received(M)' <=> Received(M)
      BY <2>1 DEF SomeAnswer, Asks, Received
    <2>3. LeftOver'
      BY <1>1, <1>14, <2>1 DEF WInv, LeftOver
    <2>4. Nowhere'
      BY <1>1, <1>14 DEF Nowhere, Leads
    <2>5. DataThere'
      BY <1>1, <1>5, <1>14, <2>1, <2>2 DEF WInv, DataThere
    <2>6. ListThere'
      BY <1>7, <1>9, <2>2
    <2> QED
      BY <1>4, <2>1, <2>3, <2>4, <2>5, <2>6 DEF WInv, OnItsWay
  <1>15. \A c \in Disconnected(conn) : c \in Conns /\ ~Live(c)
    BY <1>2, DisconnectedOK, DisconnectedIs DEF ConnOK
  <1>16. mState \in TravelStates => ~Live(conn)
    BY <1>1, EntryServer
  <1> QED
    BY <1>2, <1>11, <1>12, <1>13, <1>14, <1>15, <1>16, EntryCases

LEMMA StutterWay == ASSUME WInv, UNCHANGED vars PROVE WInv'
  <1>1. /\ SomeAnswer' <=> SomeAnswer
        /\ \A R : Asks(R)' <=> Asks(R)
        /\ \A M : Received(M)' <=> Received(M)
        /\ Live(conn') <=> Live(conn)
    BY DEF vars, SomeAnswer, Asks, Received
  <1> QED
    BY <1>1 DEF vars, data, WInv, LeadsOn, LeftOver, Nowhere, DataThere, ListThere, OnItsWay, Owed

LEMMA WayInductive == Spec /\ Careful => [](IInv /\ PInv /\ LInv /\ WInv)
  <1>1. IInv /\ PInv /\ LInv /\ WInv /\ [Next]_vars /\ [~Lapse]_vars => WInv'
    BY OutsideWay, HandlersWay, EventsWay, UserWay, BeforeWay, EntryWay, StutterWay
       DEF Next, MainLoop, Entry
  <1> QED
    BY InitWay, Inductive, PlacedInductive, LinesInductive, <1>1, PTL DEF Spec, Careful

----------------------------------------------------------------------------
(* What the session promises to a user who does not lapse.                 *)

\* GameReady: the game exists in the state GAME and in no other, and never without its
\* databases, although CHOOSE_SERVER unloads them and a character or map server of before
\* may still be heard.
THEOREM GameIsReady == Spec /\ Careful => []GameReady
  <1>1. IInv /\ WInv => GameReady
    <2> SUFFICES ASSUME IInv, WInv PROVE GameReady
      OBVIOUS
    <2>1. mGame <=> mOldState = "GAME"
      BY DEF IInv, GameExists
    <2>2. mOldState = "GAME" => loaded
      BY DEF WInv, DataThere, NeedData
    <2> QED
      BY <2>1, <2>2, Zenon DEF GameReady
  <1> QED
    BY WayInductive, <1>1, PTL

\* CharactersShown: the dialog of the characters has its list whenever the client stays
\* with it; the list is dropped by no handler, no dialog and no entry that leads there.
THEOREM CharactersAreShown == Spec /\ Careful => []CharactersShown
  <1>1. WInv => CharactersShown
    BY DEF WInv, ListThere, CharactersShown
  <1> QED
    BY WayInductive, <1>1, PTL

LEMMA LiveIsRight ==
    ASSUME IInv, PInv, WInv, Settled, conn.wanted, mState # "CHOOSE_SERVER"
    PROVE  RightFor(mState, conn.server)
  <1>1. conn.server \in Servers
    BY ConnType DEF ConnOK, Conns
  <1> QED
    BY <1>1 DEF Settled, PInv, Placed, GoneFromGame, WInv, LeadsOn, Home, Servers, RightFor

\* RightServer: a live connection is the one the state talks over, and a state that talks to
\* a server has its connection, unless something said over an abandoned one was acted on.
THEOREM ServerIsRight == Spec /\ Careful => []RightServer
  <1>1. ASSUME IInv, PInv, WInv PROVE RightServer
    <2> SUFFICES ASSUME Settled PROVE RightServer
      BY DEF RightServer
    <2>1. conn.mState \notin Unconnected => conn.wanted
      BY <1>1, ConnType DEF ConnOK, Closed
    <2>2. conn.wanted /\ mState = "CHOOSE_SERVER" => conn.mState \in Unconnected
      BY <1>1, ConnType DEF Settled, PInv, Placed, GoneFromGame, Live, Home, ConnOK, Conns, Servers,
                      LoginStates, CharStates, TravelStates
    <2>3. ~conn.wanted /\ ~conn.stray => mState \in {"CHOOSE_SERVER", "ERROR"}
      BY <1>1 DEF Settled, WInv, Nowhere
    <2>4. \A s \in Servers : ~RightFor("CHOOSE_SERVER", s) /\ ~RightFor("ERROR", s)
      BY DEF RightFor, LoginStates, CharStates, TravelStates
    <2>5. conn.mState \notin Unconnected => RightFor(mState, conn.server)
      BY <1>1, <2>1, <2>2, LiveIsRight
    <2>6. ~conn.stray /\ (\E s \in Servers : RightFor(mState, s))
             => conn.wanted /\ RightFor(mState, conn.server)
      BY <1>1, <2>3, <2>4, LiveIsRight
    <2> QED
      BY <2>5, <2>6 DEF RightServer
  <1> QED
    BY WayInductive, <1>1, PTL

\* WaitsForAnswer: a state that waits for an answer has asked for it, and the answer or a
\* problem is on its way as long as the connection lives.
THEOREM AnswerIsAwaited == Spec /\ Careful => []WaitsForAnswer
  <1>1. ASSUME IInv, WInv PROVE WaitsForAnswer
    <2>1. ASSUME Settled, conn.mState \in Unconnected, ~conn.wanted, ~conn.stray
          PROVE  mState \in {"CHOOSE_SERVER", "ERROR"}
      BY <1>1, <2>1 DEF Settled, WInv, Nowhere
    <2>2. ASSUME NEW s \in LoginStates \cup CharStates \cup TravelStates \cup {"CONNECT_SERVER"},
                 NEW R, NEW M,
                 Settled /\ Live(conn) /\ mState = s => Owed(R, M)
          PROVE  Awaits(s, R, M)
      BY <2>1, <2>2 DEF Awaits, Owed, Live, LoginStates, CharStates, TravelStates
    <2>3. Live(conn) /\ Settled =>
            /\ mState \in {"CONNECT_SERVER", "PRE_LOGIN"} => Owed({"version"}, {"version"})
            /\ mState \in {"LOGIN_ATTEMPT", "REGISTER_ATTEMPT"} =>
                 Owed({"login"}, {"loginData", "loginError"})
            /\ mState = "GET_CHARACTERS" => Owed({"characters"}, {"charLogin", "charError"})
            /\ mState = "CHANGEPASSWORD_ATTEMPT" =>
                 Owed({"password"}, {"passwordOk", "passwordNo"})
            /\ mState \in TravelStates => Owed({"map"}, {"mapLogin"})
      BY <1>1 DEF WInv, OnItsWay, Settled
    <2>4. \A s \in {"CONNECT_SERVER", "PRE_LOGIN"} : Awaits(s, {"version"}, {"version"})
      BY <2>2, <2>3 DEF LoginStates
    <2>5. \A s \in {"LOGIN_ATTEMPT", "REGISTER_ATTEMPT"} :
             Awaits(s, {"login"}, {"loginData", "loginError"})
      BY <2>2, <2>3 DEF LoginStates
    <2>6. /\ Awaits("GET_CHARACTERS", {"characters"}, {"charLogin", "charError"})
          /\ Awaits("CHANGEPASSWORD_ATTEMPT", {"password"}, {"passwordOk", "passwordNo"})
      BY <2>2, <2>3 DEF CharStates
    <2>7. \A s \in TravelStates : Awaits(s, {"map"}, {"mapLogin"})
      BY <2>2, <2>3
    <2> QED
      BY <2>4, <2>5, <2>6, <2>7 DEF WaitsForAnswer
  <1> QED
    BY WayInductive, <1>1, PTL

\* NotLoggedIn, which a careless user can break, holds for a careful one: where QuitDialog
\* takes for granted that nobody is logged in, nobody is.
THEOREM NobodyLoggedIn == Spec /\ Careful => []NotLoggedIn
  <1>1. RightServer => NotLoggedIn
    BY DEF RightServer, NotLoggedIn, RightFor, Unconnected, CharStates, TravelStates
  <1> QED
    BY ServerIsRight, <1>1, PTL

----------------------------------------------------------------------------
(* SessionSpec: the client implements Session, with stage for the stage.   *)

LEMMA StageOver == (conn.stray => stage = "over") /\ (conn'.stray => stage' = "over")
  <1>1. conn.stray => stage = "over"
    BY DEF stage
  <1>2. conn'.stray => stage' = "over"
    BY DEF stage
  <1> QED
    BY <1>1, <1>2

LEMMA StageIn == stage \in {"out", "login", "characters", "travelling", "game", "over"}
  BY DEF stage

LEMMA StageQuits == stage # "over" /\ stage' = "over" => S!Next
  BY StageIn DEF S!Next, S!Quit, S!Goes

LEMMA StageOf ==
    ASSUME ~conn.stray
    PROVE  /\ mOldState \in LoginStates \cup {"LOAD_DATA", "SWITCH_LOGIN", "SWITCH_WORLD"}
                 => stage = "login"
           /\ mOldState \in CharStates \cup {"SWITCH_CHARACTER"} => stage = "characters"
           /\ mOldState \in TravelStates => stage = "travelling"
           /\ mOldState = "GAME" => stage = "game"
           /\ mOldState \in {"EXIT", "FORCE_QUIT"} => stage = "over"
           /\ mOldState \in {"START", "CHOOSE_SERVER", "CONNECT_SERVER", "SWITCH_SERVER",
                             "ERROR"} => stage = "out"
  BY DEF stage, LoginStates, CharStates, TravelStates

\* What was heard of a connection given up is not forgotten, and nothing else is counted.
LEMMA StrayGrows ==
    ASSUME IInv, [Next]_vars
    PROVE  conn.stray => conn'.stray
  <1>1. ConnOK(conn) /\ conn \in Conns
    BY ConnType DEF ConnOK
  <1>2. ASSUME conn.inbox # <<>> PROVE Taken \in Conns /\ (conn.stray => Taken.stray)
    BY <1>1, <1>2, TakenOK, TakenIs DEF ConnOK
  <1>3. \A c \in Conns : \A d \in Disconnected(c) : d \in Conns \/ ~ConnOK(c)
    BY DisconnectedOK DEF ConnOK
  <1>4. CASE Outside
    BY <1>4, OutsideFrame
  <1>5. CASE FlushNetwork
    <2>1. \/ UNCHANGED conn
          \/ conn.inbox # <<>> /\ (conn' = Taken \/ conn' \in Disconnected(Taken))
      BY <1>5 DEF FlushNetwork, ProcessServerVersion, ProcessLoginData, ProcessCharLogin,
         ProcessCharMapInfo, ProcessChangeMapServer, ProcessMapLogin, ProcessOther, Dispatched,
         Flushed, Handle
    <2> QED
      BY <1>2, <2>1, DisconnectedIs
  <1>6. CASE NoEvent \/ CloseWindow \/ SlowLogic \/ NoEntry \/ UNCHANGED vars
    BY <1>6 DEF NoEvent, CloseWindow, SlowLogic, NoEntry, vars
  <1>7. CASE UserActs
    <2>1. conn' \in {conn, Sent(conn, "select"), Sent(conn, "restart")}
      BY <1>7 DEF UserActs, NoAction, AnswerDialog, CancelConnection, LogIn, SelectCharacter,
         ChangePassword, LeaveCharacters, OpenQuit, AnswerQuit, AnswerOk, Chooses
    <2> QED
      BY <1>1, <2>1, SentIs
  <1>8. CASE BeforeEntry \/ (Entry /\ ~NoEntry)
    <2>1. \/ UNCHANGED conn \/ conn' \in Disconnected(conn)
          \/ \E r : conn' = Sent(conn, r)
          \/ \E to, r : \/ conn' = Connected(conn, to, r)
                        \/ \E c \in Disconnected(conn) : conn' = Connected(c, to, r)
      BY <1>8, EntryCases DEF BeforeEntry, StateConnectGame1, StateConnectServer1,
         StateWorldSelect1, StateOther1
    <2>2. \A c \in Disconnected(conn) : c \in Conns /\ c.stray = conn.stray
      BY <1>1, DisconnectedOK, DisconnectedIs DEF ConnOK
    <2>3. \A c \in Conns : \A to, r : Connected(c, to, r).stray = c.stray
      BY DEF Connected, Conns
    <2>4. \A r : Sent(conn, r).stray = conn.stray
      BY <1>1, SentIs
    <2>5. CASE UNCHANGED conn \/ conn' \in Disconnected(conn) \/ \E r : conn' = Sent(conn, r)
      BY <2>2, <2>4, <2>5
    <2>6. CASE \E to, r : \/ conn' = Connected(conn, to, r)
                          \/ \E c \in Disconnected(conn) : conn' = Connected(c, to, r)
      BY <1>1, <2>2, <2>3, <2>6
    <2> QED
      BY <2>1, <2>5, <2>6
  <1> QED
    BY <1>4, <1>5, <1>6, <1>7, <1>8 DEF Next, MainLoop, Entry

\* Where an entry leads from, before anything of a connection given up was acted on.
LEMMA StageSteps ==
    ASSUME IInv, PInv, LInv, WInv, Entry, ~NoEntry, ~conn.stray, ~conn'.stray
    PROVE  stage' = stage \/ S!Next
  <1>1. pc = "enter" /\ mOldState # mState /\ mOldState' = mState
    BY EntryFrame
  <1>2. conn.server \in Servers
    BY ConnType DEF ConnOK, Conns
  <1>3. /\ mState \in LoginStates \cup {"LOAD_DATA", "SWITCH_LOGIN", "SWITCH_WORLD"}
              => stage' = "login"
        /\ mState \in CharStates \cup {"SWITCH_CHARACTER"} => stage' = "characters"
        /\ mState \in TravelStates => stage' = "travelling"
        /\ mState = "GAME" => stage' = "game"
        /\ mState \in {"EXIT", "FORCE_QUIT"} => stage' = "over"
        /\ mState \in {"START", "CHOOSE_SERVER", "CONNECT_SERVER", "SWITCH_SERVER", "ERROR"}
              => stage' = "out"
    BY <1>1 DEF stage, LoginStates, CharStates, TravelStates
  <1>4. \/ mOldState \in Home("login") /\ mState \in Ways("login")
        \/ mOldState \in Home("char") /\ mState \in Ways("char")
        \/ mOldState \in Home("map") /\ mState \in Ways("map")
        \/ mOldState = "LOAD_DATA" /\ mState = "GET_CHARACTERS"
        \/ mOldState = "CHOOSE_SERVER" /\ mState = "CONNECT_SERVER"
        \/ /\ mOldState \in {"GAME", "START", "CHOOSE_SERVER", "ERROR", "SWITCH_SERVER"}
           /\ mState \in {"CHOOSE_SERVER", "FORCE_QUIT", "ERROR", "EXIT"}
        \/ mOldState = "SWITCH_CHARACTER" /\ mState \in {"GET_CHARACTERS", "ERROR", "EXIT"}
        \/ mOldState = "CHAR_SELECT" /\ mState \in {"CONNECT_GAME", "ERROR", "SWITCH_WORLD", "EXIT"}
        \/ mOldState = "GAME" /\ mState = "CHANGE_MAP"
    <2>1. CASE conn.wanted
      BY <1>1, <1>2, <2>1 DEF PInv, Placed, GoneFromGame, Servers
    <2>2. CASE ~conn.wanted
      BY <1>1, <2>2 DEF WInv, Nowhere
    <2> QED
      BY <2>1, <2>2
  <1>5. CASE mOldState \in Home("login") /\ mState \in Ways("login")
    <2>1. stage \in {"out", "login"}
      BY <1>5, StageOf DEF Home
    <2>2. stage' \in {"out", "login", "over"}
      BY <1>3, <1>5 DEF Ways, Home
    <2> QED
      BY <2>1, <2>2 DEF S!Next, S!Goes, S!Connect, S!Leave, S!Quit
  <1>6. CASE mOldState \in Home("char") /\ mState \in Ways("char")
    <2>1. stage = "characters"
      BY <1>6, StageOf DEF Home
    <2>2. stage' \in {"characters", "login", "out", "over"}
      BY <1>3, <1>6 DEF Ways, Home
    <2> QED
      BY <2>1, <2>2 DEF S!Next, S!Goes, S!Relogin, S!Leave, S!Quit
  <1>7. CASE mOldState \in Home("map") /\ mState \in Ways("map")
    <2>1. stage \in {"travelling", "game"}
      BY <1>7, StageOf DEF Home
    <2>2. /\ stage' \in {"travelling", "game", "characters", "out", "over"}
      BY <1>3, <1>7 DEF Ways, Home
    <2> QED
      BY <2>1, <2>2 DEF S!Next, S!Goes, S!Travel, S!Arrive, S!Return, S!Leave, S!Quit
  <1>8. CASE \/ mOldState = "LOAD_DATA" /\ mState = "GET_CHARACTERS"
             \/ mOldState = "CHOOSE_SERVER" /\ mState = "CONNECT_SERVER"
             \/ mOldState = "GAME" /\ mState = "CHANGE_MAP"
    BY <1>3, <1>8, StageOf DEF CharStates, TravelStates, S!Next, S!Goes, S!Enter, S!Travel
  <1>9. CASE /\ mOldState \in {"GAME", "START", "CHOOSE_SERVER", "ERROR", "SWITCH_SERVER"}
             /\ mState \in {"CHOOSE_SERVER", "FORCE_QUIT", "ERROR", "EXIT"}
    <2>1. stage \in {"game", "out"} /\ stage' \in {"out", "over"}
      BY <1>3, <1>9, StageOf
    <2> QED
      BY <2>1 DEF S!Next, S!Goes, S!Leave, S!Quit
  <1>10. CASE \/ mOldState = "SWITCH_CHARACTER" /\ mState \in {"GET_CHARACTERS", "ERROR", "EXIT"}
              \/ /\ mOldState = "CHAR_SELECT"
                 /\ mState \in {"CONNECT_GAME", "ERROR", "SWITCH_WORLD", "EXIT"}
    <2>1. stage = "characters"
      BY <1>10, StageOf DEF CharStates
    <2>2. stage' \in {"characters", "travelling", "out", "login", "over"}
      BY <1>3, <1>10 DEF CharStates, TravelStates
    <2> QED
      BY <2>1, <2>2 DEF S!Next, S!Goes, S!Travel, S!Relogin, S!Leave, S!Quit
  <1> QED
    BY <1>4, <1>5, <1>6, <1>7, <1>8, <1>9, <1>10

\* SessionSpec: a session goes from stage to stage as Session allows, and nobody gets to the
\* characters or into the game from outside; what was said over a connection given up is
\* the only thing that ends the promise.
THEOREM SessionImplemented == Spec /\ Careful => SessionSpec
  <1>1. Init => S!Init
    BY DEF Init, S!Init, stage, LoginStates, CharStates, TravelStates
  <1>2. IInv /\ PInv /\ LInv /\ WInv /\ [Next]_vars => [S!Next]_stage
    <2> SUFFICES ASSUME IInv, PInv, LInv, WInv, [Next]_vars PROVE stage' = stage \/ S!Next
      OBVIOUS
    <2>1. CASE conn.stray
      BY <2>1, StrayGrows, StageOver
    <2>2. CASE ~conn.stray /\ conn'.stray
      <3>1. stage' = "over"
        BY <2>2, StageOver
      <3> QED
        BY <3>1, StageQuits
    <2>3. CASE ~conn.stray /\ ~conn'.stray /\ Entry /\ ~NoEntry
      BY <2>3, StageSteps
    <2>4. CASE ~conn.stray /\ ~conn'.stray /\ ~(Entry /\ ~NoEntry)
      <3>1. UNCHANGED mOldState
        <4>1. CASE Outside
          BY <4>1, OutsideFrame
        <4>2. CASE FlushNetwork
          BY <4>2 DEF FlushNetwork, ProcessServerVersion, ProcessLoginData, ProcessCharLogin,
             ProcessCharMapInfo, ProcessChangeMapServer, ProcessMapLogin, ProcessOther,
             Dispatched, Flushed, Handle
        <4>3. CASE NoEvent \/ CloseWindow \/ SlowLogic \/ NoEntry \/ UNCHANGED vars
          BY <4>3 DEF NoEvent, CloseWindow, SlowLogic, NoEntry, vars
        <4>4. CASE UserActs
          BY <4>4, UserFrame
        <4>5. CASE BeforeEntry
          BY <4>5 DEF BeforeEntry, StateConnectGame1, StateConnectServer1, StateWorldSelect1,
             StateOther1, Before
        <4> QED
          BY <2>4, <4>1, <4>2, <4>3, <4>4, <4>5 DEF Next, MainLoop, Entry
      <3> QED
        BY <2>4, <3>1 DEF stage
    <2> QED
      BY <2>1, <2>2, <2>3, <2>4
  <1> QED
    BY WayInductive, <1>1, <1>2, PTL DEF Spec, SessionSpec, S!Spec

=============================================================================
