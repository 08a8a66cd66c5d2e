---------------------------- MODULE PathFinding ----------------------------
(***************************************************************************)
(* Map::findPath: A* on the tiles of a map, called again and again on the  *)
(* same MetaTiles.  What a search leaves in them is not cleared before the *)
(* next: two numbers say which list a tile is on, and every search takes   *)
(* two new ones, until they would overflow.                                *)
(*                                                                         *)
(* One action takes one location from the priority queue, which does not   *)
(* say which of several with the same cost comes first, and looks at its   *)
(* neighbours.  Afterwards the path is extracted, one tile in an action.   *)
(* Between two searches the server may change tiles.                       *)
(***************************************************************************)
EXTENDS Integers, Sequences, FiniteSets

CONSTANTS
    Maps,       \* the maps and what happens on them: tiles, the blockmask of each; the calls
                \* that are made, in order, each out of a set; the changes the server makes
    MaxUInt     \* UINT_MAX

Bits == {"WALL", "AIR", "WATER", "GROUND", "GROUNDTOP", "PLAYERWALL", "MONSTERWALL"}

\* A position is a pair of coordinates.  The maximal cost 0 stands for none.
CallArguments == [start : Int \X Int, dest : Int \X Int, mask : SUBSET Bits, maxCost : Nat]

ASSUME MapAssumption ==
    \A map \in Maps :
        /\ map.width \in Nat \ {0} /\ map.height \in Nat \ {0}
        /\ map.blockmask \in [(0 .. map.width - 1) \X (0 .. map.height - 1) -> SUBSET Bits]
        /\ map.calls \in Seq(SUBSET CallArguments)
        /\ map.changes \subseteq [from : Int \X Int, to : Int \X Int, type : Bits]

ASSUME UIntAssumption == MaxUInt \in Nat /\ MaxUInt >= 3

VARIABLES
    map,                        \* the map that is loaded
    blockmask,                  \* the bits of each tile
    whichList, Gcost, parent,   \* the other fields of each MetaTile, as far as they are read
    mOnClosedList, mOnOpenList,
    calls,                      \* the calls still to come
    call, openList, foundPath,  \* the search: arguments, queue, whether dest was reached
    path, position,             \* what is extracted, and where the extraction has got to
    pc

tiles == <<whichList, Gcost, parent>>
lists == <<mOnClosedList, mOnOpenList>>
search == <<call, openList, foundPath>>
vars == <<map, blockmask, tiles, lists, calls, search, path, position, pc>>

Tiles == (0 .. map.width - 1) \X (0 .. map.height - 1)

----------------------------------------------------------------------------
(* The geometry.  Costs are those of the code: basicCost is 100.           *)

AbsDiff(a, b) == IF a < b THEN b - a ELSE a - b

Neighbours(t) ==
    {u \in Tiles : u # t /\ AbsDiff(u[1], t[1]) <= 1 /\ AbsDiff(u[2], t[2]) <= 1}

Diagonal(t, u) == u[1] # t[1] /\ u[2] # t[2]

\* Map::getWalk.
GetWalk(t, mask) == t \in Tiles /\ blockmask[t] \cap mask = {}

\* The tiles beside a diagonal step.
Corners(t, u) == {<<t[1], u[2]>>, <<u[1], t[2]>>}

\* A mistake the runs must find: the corners are not looked at.
CanEnterCutting(t, u) ==
    /\ GetWalk(u, call.mask) \/ u = call.dest
    /\ "WALL" \notin blockmask[u]

CanEnter(t, u) ==
    /\ GetWalk(u, call.mask) \/ u = call.dest
    /\ "WALL" \notin blockmask[u]
    /\ Diagonal(t, u) => \A c \in Corners(t, u) : blockmask[c] \cap call.mask = {}

\* 100 * 362 / 256, and the defect that demotes horizontal and vertical steps.
StepCost(t, u) == IF Diagonal(t, u) THEN 141 ELSE 101

\* The diagonal steps are multiplied as a float, 141.40625 each, and truncated.
Hcost(t) ==
    LET dx == AbsDiff(t[1], call.dest[1])
        dy == AbsDiff(t[2], call.dest[2])
        least == IF dx < dy THEN dx ELSE dy
    IN  AbsDiff(dx, dy) * 100 + (least * 36200) \div 256

----------------------------------------------------------------------------
Init ==
    /\ map \in Maps
    /\ blockmask = map.blockmask
    /\ whichList = [t \in Tiles |-> 0]
    /\ Gcost = [t \in Tiles |-> 0]
    /\ parent = [t \in Tiles |-> <<0, 0>>]
    /\ mOnClosedList = 1 /\ mOnOpenList = 2
    /\ calls = map.calls
    /\ call = [start |-> <<0, 0>>, dest |-> <<0, 0>>, mask |-> {}, maxCost |-> 0]
    /\ openList = {} /\ foundPath = FALSE
    /\ path = <<>> /\ position = <<0, 0>>
    /\ pc = "idle"

\* MapRecv::processSetTilesType: setBlockMask on every tile of a rectangle.
SetTilesType ==
    /\ pc = "idle"
    /\ \E c \in map.changes :
         blockmask' = [t \in Tiles |->
             IF /\ c.from[1] <= t[1] /\ t[1] <= c.to[1]
                /\ c.from[2] <= t[2] /\ t[2] <= c.to[2]
             THEN {c.type} ELSE blockmask[t]]
    /\ UNCHANGED <<map, tiles, lists, calls, search, path, position, pc>>

Coming == IF calls = <<>> THEN {} ELSE Head(calls)

Called(c) ==
    /\ pc = "idle" /\ calls' = Tail(calls)
    /\ call' = c /\ path' = <<>>
    /\ UNCHANGED <<map, blockmask, whichList, parent, lists, position>>

Searchable(c) == c.start \in Tiles /\ GetWalk(c.dest, c.mask)

FindNothing ==
    /\ \E c \in Coming : Called(c) /\ ~Searchable(c)
    /\ UNCHANGED <<Gcost, openList, foundPath, pc>>

\* A mistake the runs must find: the start keeps the cost that an earlier search gave it.
FindPathStale ==
    /\ \E c \in Coming :
         /\ Called(c) /\ Searchable(c)
         /\ openList' = {[tile |-> c.start, tileCost |-> 0]}
    /\ foundPath' = FALSE /\ pc' = "search" /\ UNCHANGED Gcost

\* The queue begins with the start alone, so that its cost there does not matter.
FindPath ==
    /\ \E c \in Coming :
         /\ Called(c) /\ Searchable(c)
         /\ Gcost' = [Gcost EXCEPT ![c.start] = 0]
         /\ openList' = {[tile |-> c.start, tileCost |-> 0]}
    /\ foundPath' = FALSE /\ pc' = "search"

----------------------------------------------------------------------------
Searching == pc = "search" /\ ~foundPath

\* top() and pop(): one of the locations with the lowest cost.
Lowest == {l \in openList : \A k \in openList : l.tileCost <= k.tileCost}

\* A mistake the runs must find: the location is not popped.
SkipUnpopped ==
    /\ Searching
    /\ \E l \in Lowest : whichList[l.tile] = mOnClosedList
    /\ UNCHANGED vars

\* The tile was processed with a lower cost already.
Skip ==
    /\ Searching
    /\ \E l \in Lowest :
         whichList[l.tile] = mOnClosedList /\ openList' = openList \ {l}
    /\ UNCHANGED <<map, blockmask, tiles, lists, calls, call, foundPath, path, position, pc>>

NewCost(t, u) == Gcost[t] + StepCost(t, u)

\* A mistake the runs must find: what is on the open list keeps the cost it has.
ImprovedOnce(t) ==
    {u \in Neighbours(t) :
        /\ whichList[u] \notin {mOnClosedList, mOnOpenList} /\ CanEnter(t, u)
        /\ call.maxCost > 0 => NewCost(t, u) <= call.maxCost * 100}

\* The neighbours of t that get a new cost and t as their parent.
Improved(t) ==
    {u \in Neighbours(t) :
        /\ whichList[u] # mOnClosedList /\ CanEnter(t, u)
        /\ call.maxCost > 0 => NewCost(t, u) <= call.maxCost * 100
        /\ whichList[u] # mOnOpenList \/ NewCost(t, u) < Gcost[u]}

\* The destination ends the search as soon as it is seen; it gets onto no list.
Expand ==
    /\ Searching
    /\ \E l \in Lowest :
         LET t == l.tile
             improved == Improved(t)
             opened == improved \ {call.dest}
         IN  /\ whichList[t] # mOnClosedList
             /\ whichList' = [u \in Tiles |-> IF u = t THEN mOnClosedList
                                              ELSE IF u \in opened THEN mOnOpenList
                                              ELSE whichList[u]]
             /\ Gcost' = [u \in Tiles |-> IF u \in improved THEN NewCost(t, u) ELSE Gcost[u]]
             /\ parent' = [u \in Tiles |-> IF u \in improved THEN t ELSE parent[u]]
             /\ openList' = (openList \ {l}) \cup
                    {[tile |-> u, tileCost |-> NewCost(t, u) + Hcost(u)] : u \in opened}
             /\ foundPath' = (call.dest \in improved)
    /\ UNCHANGED <<map, blockmask, lists, calls, call, path, position, pc>>

Over == pc = "search" /\ (foundPath \/ openList = {})

\* A mistake the runs must find: the numbers begin again and the tiles keep theirs.
RenumberUncleared ==
    /\ IF mOnOpenList > MaxUInt - 2
       THEN mOnClosedList' = 1 /\ mOnOpenList' = 2
       ELSE mOnClosedList' = mOnClosedList + 2 /\ mOnOpenList' = mOnOpenList + 2
    /\ UNCHANGED whichList

\* A mistake the runs must find: the numbers are never begun again.
RenumberUnbounded ==
    /\ mOnClosedList' = mOnClosedList + 2 /\ mOnOpenList' = mOnOpenList + 2
    /\ UNCHANGED whichList

\* Two new numbers, so that nothing is on a list; or the old ones again, and every tile
\* is cleared.
Renumber ==
    IF mOnOpenList > MaxUInt - 2
    THEN /\ mOnClosedList' = 1 /\ mOnOpenList' = 2
         /\ whichList' = [t \in Tiles |-> 0]
    ELSE /\ mOnClosedList' = mOnClosedList + 2 /\ mOnOpenList' = mOnOpenList + 2
         /\ UNCHANGED whichList

EndSearch ==
    /\ Over /\ Renumber
    /\ openList' = {}
    /\ position' = call.dest
    /\ pc' = IF foundPath THEN "extract" ELSE "idle"
    /\ UNCHANGED <<map, blockmask, Gcost, parent, calls, call, foundPath, path>>

Extract ==
    /\ pc = "extract" /\ position # call.start
    /\ path' = <<position>> \o path
    /\ position' = parent[position]
    /\ UNCHANGED <<map, blockmask, tiles, lists, calls, search, pc>>

Return ==
    /\ pc = "extract" /\ position = call.start /\ pc' = "idle"
    /\ UNCHANGED <<map, blockmask, tiles, lists, calls, search, path, position>>

FindsPath == FindPath \/ FindNothing

Running == Skip \/ Expand \/ EndSearch \/ Extract \/ Return

Next == SetTilesType \/ FindsPath \/ Running

\* A call that has begun runs on.
Spec == Init /\ [][Next]_vars /\ WF_vars(Running)

----------------------------------------------------------------------------
TypeOK ==
    /\ map \in Maps
    /\ blockmask \in [Tiles -> SUBSET Bits]
    /\ whichList \in [Tiles -> 0 .. MaxUInt]
    /\ Gcost \in [Tiles -> Nat]
    /\ parent \in [Tiles -> Tiles]
    /\ mOnClosedList \in 1 .. MaxUInt /\ mOnOpenList = mOnClosedList + 1
    /\ mOnOpenList <= MaxUInt
    /\ calls \in Seq(SUBSET CallArguments) /\ call \in CallArguments
    /\ openList \in SUBSET [tile : Tiles, tileCost : Nat]
    /\ foundPath \in BOOLEAN
    /\ path \in Seq(Tiles) /\ position \in Tiles
    /\ pc \in {"idle", "search", "extract"}
    /\ pc # "idle" => Searchable(call)

\* No tile is on a list when a search begins, although none was cleared: the numbers of
\* this search are on no tile, and neither of them has wrapped around.
ListsFresh ==
    pc = "idle" => \A t \in Tiles : whichList[t] \notin {mOnClosedList, mOnOpenList}

\* The call is about to return the path.
Returning == pc = "extract" /\ position = call.start

\* A step that a being of this mask may take: onto a tile it can walk on, never onto a
\* wall, and not around a corner.
IsStep(t, u) ==
    /\ u \in Neighbours(t)
    /\ GetWalk(u, call.mask) /\ "WALL" \notin blockmask[u]
    /\ Diagonal(t, u) => \A c \in Corners(t, u) : GetWalk(c, call.mask)

\* The path that is returned leads from the start to the destination.
PathLeads ==
    Returning =>
        /\ path # <<>> /\ path[Len(path)] = call.dest
        /\ IsStep(call.start, path[1])
        /\ \A i \in 1 .. Len(path) - 1 : IsStep(path[i], path[i + 1])

\* A step as a search may misjudge it: by the defect of a straight one, and by what the
\* heuristic, whose diagonals are 141.40625 before it is truncated, can add to a diagonal one.
JudgedCost(t, u) == IF Diagonal(t, u) THEN 142 ELSE 101

\* Of the pairs of a tile and a cost those with the least cost for their tile.
Cheapest(pairs) == {p \in pairs : \A q \in pairs : q[1] = p[1] => p[2] <= q[2]}

OneStepMore(pairs) ==
    Cheapest(pairs \cup
        UNION {{<<u, p[2] + JudgedCost(p[1], u)>> :
                    u \in {v \in Neighbours(p[1]) : IsStep(p[1], v)}} : p \in pairs})

\* The tiles that the being of the call may be on.
Walkable == {t \in Tiles : GetWalk(t, call.mask)}

\* The least costs of the ways from the start, of which none needs more steps than there are
\* tiles to walk on; a tile that cannot be reached is in no pair.
LeastCosts ==
    LET least[n \in Nat] == IF n = 0 THEN {<<call.start, 0>>} ELSE OneStepMore(least[n - 1])
    IN  least[Cardinality(Walkable)]

\* What a way really costs: 100 a straight step and 141 a diagonal one.
CostOf(from, way) ==
    100 * Len(way)
      + 41 * Cardinality({i \in 1 .. Len(way) :
                             Diagonal(IF i = 1 THEN from ELSE way[i - 1], way[i])})

\* In spite of the defect, of a heuristic that may exceed the real cost, of closed tiles that
\* are not opened again and of the end as soon as the destination is seen, the path that is
\* returned is longer than the shortest by at most 1 for each of the latter's steps.
NearlyShortest ==
    Returning =>
        \A p \in LeastCosts : p[1] = call.dest => CostOf(call.start, path) <= p[2]

\* A search that finds nothing has missed nothing: there is no way, or none that costs, as the
\* search may misjudge it, as little as the call allows.
NothingMissed ==
    Over /\ ~foundPath /\ call.start # call.dest =>
        \A p \in LeastCosts :
            p[1] = call.dest => call.maxCost > 0 /\ p[2] > call.maxCost * 100

\* Every call returns: no tile is processed twice, and the parents lead back to the start.
CallReturns == (pc # "idle") ~> (pc = "idle")
=============================================================================
