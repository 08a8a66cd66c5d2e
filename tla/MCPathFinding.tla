--------------------------- MODULE MCPathFinding ---------------------------
(***************************************************************************)
(* Three maps.  On the small one several calls follow each other, more     *)
(* than there are numbers for the lists, and the server puts a tile under  *)
(* water and takes it away again.  On the large one every tile is the      *)
(* start and every tile the destination of one call; there is room for a   *)
(* way of three diagonal steps, the first that the heuristic overrates.    *)
(* The third has two ways: 16 straight steps, which cost 1600, or 10       *)
(* diagonal and 2 straight ones, which cost 1610.  The defect makes the    *)
(* second the cheaper one.                                                 *)
(***************************************************************************)
EXTENDS PathFinding

Player == {"WALL", "AIR", "WATER", "PLAYERWALL"}

\* The mask of a being of walkType "all"; only findPath itself keeps it off the walls.
Everywhere == {}

Call(s, d, m, c) == [start |-> s, dest |-> d, mask |-> m, maxCost |-> c]

SmallCalls ==
    {Call(<<0, 0>>, <<2, 0>>, Player, 0), Call(<<2, 1>>, <<0, 0>>, Player, 0),
     Call(<<0, 0>>, <<2, 0>>, Player, 3), Call(<<1, 0>>, <<1, 0>>, Player, 0)}

Small ==
    [width |-> 3, height |-> 2, blockmask |-> [t \in (0 .. 2) \X (0 .. 1) |-> {}],
     calls |-> <<SmallCalls, SmallCalls, SmallCalls, SmallCalls>>,
     changes |-> {[from |-> <<1, 0>>, to |-> <<1, 0>>, type |-> "WATER"],
                  [from |-> <<1, 0>>, to |-> <<1, 1>>, type |-> "GROUND"]}]

LargeTiles == (0 .. 4) \X (0 .. 3)

Large ==
    [width |-> 5, height |-> 4,
     blockmask |-> [t \in LargeTiles |-> CASE t \in {<<1, 2>>, <<4, 1>>} -> {"WATER"}
                                           [] t = <<1, 0>> -> {"WALL"}
                                           [] OTHER -> {"GROUND"}],
     calls |-> <<{Call(s, d, m, c) : s \in LargeTiles, d \in LargeTiles,
                                     m \in {Player, Everywhere}, c \in {0, 3}}>>,
     changes |-> {}]

\* Along the upper edge, or down to the lower and up again, with room beside each diagonal.
ForkTiles == (0 .. 12) \X (0 .. 7)
Upper(t) == t[2] = 0 \/ (t[1] \in {0, 12} /\ t[2] <= 2)
Lower(t) == LET d == IF t[1] <= 6 THEN t[1] ELSE 12 - t[1]
            IN  IF d = 6 THEN t[2] = 7 ELSE t[2] \in d + 1 .. d + 3 /\ t[2] >= 2

Fork ==
    [width |-> 13, height |-> 8,
     blockmask |-> [t \in ForkTiles |-> IF Upper(t) \/ Lower(t) THEN {} ELSE {"WALL"}],
     calls |-> <<{Call(<<0, 2>>, <<12, 2>>, Player, c) : c \in {0, 16, 17}}>>,
     changes |-> {}]

MCMaps == {Small, Large, Fork}
=============================================================================
