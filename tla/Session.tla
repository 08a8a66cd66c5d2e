------------------------------ MODULE Session ------------------------------
(***************************************************************************)
(* What the state machine of the client promises: a session goes from the  *)
(* login server to the character server, from there to a map server and    *)
(* into the game, and every way back is one of the few that are foreseen.  *)
(* Nobody gets into the game, or to the characters, from outside.  What    *)
(* is "over" is over: nothing more is promised.                            *)
(***************************************************************************)
VARIABLE stage

Init == stage = "out"

Goes(from, to) == stage \in from /\ stage' = to

Connect    == Goes({"out"}, "login")
Enter      == Goes({"login"}, "characters")
Travel     == Goes({"characters", "game"}, "travelling")
Arrive     == Goes({"travelling"}, "game")
Return     == Goes({"travelling", "game"}, "characters")
Relogin    == Goes({"characters"}, "login")
Leave      == Goes({"login", "characters", "travelling", "game"}, "out")
Quit       == Goes({"out", "login", "characters", "travelling", "game"}, "over")

Next == Connect \/ Enter \/ Travel \/ Arrive \/ Return \/ Relogin \/ Leave \/ Quit

Spec == Init /\ [][Next]_stage
=============================================================================
