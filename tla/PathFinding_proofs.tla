------------------------- MODULE PathFinding_proofs -------------------------
(***************************************************************************)
(* Theorems about Map::findPath, for every map, every sequence of calls    *)
(* and changes, and every number of list numbers.                          *)
(***************************************************************************)
EXTENDS PathFinding, FiniteSetTheorems, WellFoundedInduction, TLAPS

Closed == {t \in Tiles : whichList[t] = mOnClosedList}
Opened == {t \in Tiles : whichList[t] = mOnOpenList}

\* The numbers in use are never below those on the tiles.
Numbers ==
    \A t \in Tiles :
        /\ whichList[t] <= mOnOpenList
        /\ pc # "search" => whichList[t] < mOnClosedList

\* The parents of the tiles of a set lead to the start, inside of it.
Leads(C) ==
    \A t \in C : t # call.start => parent[t] \in C /\ IsStep(parent[t], t)

\* What a search knows of the tiles.
Begun == call.start \in Closed

NotBegun ==
    /\ Closed = {} /\ Opened = {} /\ ~foundPath
    /\ openList = {[tile |-> call.start, tileCost |-> 0]}

Parents ==
    \A t \in Closed \cup Opened \cup (IF foundPath THEN {call.dest} ELSE {}) :
        t # call.start => parent[t] \in Closed /\ IsStep(parent[t], t)

Frontier ==
    /\ \A u \in Opened : \E l \in openList : l.tile = u
    /\ call.maxCost = 0 =>
         \A t \in Closed : \A u \in Tiles :
            IsStep(t, u) => u \in Closed \cup Opened \/ (u = call.dest /\ foundPath)

Tree ==
    /\ call.start \in Tiles
    /\ Begun \/ NotBegun
    /\ call.start \notin Opened
    /\ call.dest \notin Opened /\ (call.dest \in Closed => call.dest = call.start)
    /\ foundPath => call.dest # call.start
    /\ \A l \in openList : l.tile \in Closed \cup Opened \cup {call.start}
    /\ Parents
    /\ Frontier

\* What has been extracted, and why there is more.
Extracted ==
    /\ path = <<>> => position = call.dest /\ call.dest # call.start
    /\ path # <<>> =>
         /\ path[Len(path)] = call.dest
         /\ IsStep(position, path[1])
         /\ \A i \in 1 .. Len(path) - 1 : IsStep(path[i], path[i + 1])

Way == \E C \in SUBSET Tiles : position \in C /\ Leads(C)

IInv ==
    /\ TypeOK
    /\ Numbers
    /\ pc = "search" => Tree
    /\ pc = "search" => path = <<>>
    /\ pc = "extract" => Extracted /\ Way

----------------------------------------------------------------------------
(* The geometry.                                                           *)

LEMMA TilesType ==
    ASSUME map \in Maps
    PROVE  /\ map.width \in Nat \ {0} /\ map.height \in Nat \ {0}
           /\ \A t \in Tiles : t[1] \in Int /\ t[2] \in Int /\ t = <<t[1], t[2]>>
           /\ <<0, 0>> \in Tiles
  <1>1. map.width \in Nat \ {0} /\ map.height \in Nat \ {0}
    BY MapAssumption
  <1>2. 0 .. map.width - 1 \subseteq Int /\ 0 .. map.height - 1 \subseteq Int
    BY <1>1
  <1>3. 0 \in 0 .. map.width - 1 /\ 0 \in 0 .. map.height - 1
    BY <1>1
  <1> QED
    BY <1>1, <1>2, <1>3 DEF Tiles

LEMMA StepsStay == \A t, u : IsStep(t, u) => u \in Tiles
  BY DEF IsStep, Neighbours

\* findPath enters a tile exactly when that is a step, because it begins only when the
\* destination can be walked on.
LEMMA EntersAreSteps ==
    ASSUME map \in Maps, Searchable(call), NEW t \in Tiles, NEW u \in Neighbours(t)
    PROVE  CanEnter(t, u) <=> IsStep(t, u)
  <1>1. u \in Tiles /\ Corners(t, u) \subseteq Tiles
    BY TilesType DEF Neighbours, Corners, Tiles
  <1>2. u = call.dest => GetWalk(u, call.mask)
    BY DEF Searchable
  <1> QED
    BY <1>1, <1>2 DEF CanEnter, IsStep, GetWalk

LEMMA CostsAreNumbers ==
    ASSUME TypeOK, NEW t \in Tiles, NEW u \in Tiles
    PROVE  NewCost(t, u) \in Nat /\ Hcost(u) \in Nat
  <1>1. NewCost(t, u) \in Nat
    BY DEF TypeOK, NewCost, StepCost
  <1>2. u[1] \in Int /\ u[2] \in Int /\ call.dest[1] \in Int /\ call.dest[2] \in Int
    BY TilesType DEF TypeOK, CallArguments
  <1>3. \A a, b \in Int : AbsDiff(a, b) \in Nat
    BY DEF AbsDiff
  <1>4. AbsDiff(u[1], call.dest[1]) \in Nat /\ AbsDiff(u[2], call.dest[2]) \in Nat
    BY <1>2, <1>3
  <1> DEFINE dx == AbsDiff(u[1], call.dest[1])
             dy == AbsDiff(u[2], call.dest[2])
             least == IF dx < dy THEN dx ELSE dy
  <1>5. dx \in Nat /\ dy \in Nat /\ least \in Nat /\ AbsDiff(dx, dy) \in Nat
    BY <1>3, <1>4
  <1>6. Hcost(u) = AbsDiff(dx, dy) * 100 + (least * 36200) \div 256
    BY DEF Hcost
  <1> HIDE DEF dx, dy, least
  <1>7. \A n \in Nat : (n * 36200) \div 256 \in Nat
    OBVIOUS
  <1>8. Hcost(u) \in Nat
    BY <1>5, <1>6, <1>7
  <1> QED
    BY <1>1, <1>8

\* Where a tile can be entered, and which tiles there are, changes only between searches.
LEMMA StepsKept ==
    ASSUME UNCHANGED <<map, blockmask, call>>
    PROVE  Tiles' = Tiles /\ \A t, u : IsStep(t, u)' <=> IsStep(t, u)
  BY DEF Tiles, IsStep, Neighbours, GetWalk, Diagonal, Corners

----------------------------------------------------------------------------
(* Every step keeps the invariant.                                         *)

LEMMA InitInv == Init => IInv
  <1> SUFFICES ASSUME Init PROVE IInv
    OBVIOUS
  <1>1. blockmask \in [Tiles -> SUBSET Bits] /\ calls \in Seq(SUBSET CallArguments)
    BY MapAssumption DEF Init, Tiles
  <1>2. <<0, 0>> \in Tiles
    BY TilesType DEF Init
  <1>3. call \in CallArguments
    BY DEF Init, CallArguments
  <1>4. whichList \in [Tiles -> 0 .. MaxUInt] /\ Gcost \in [Tiles -> Nat]
        /\ parent \in [Tiles -> Tiles]
    BY <1>2, UIntAssumption DEF Init
  <1>5. mOnClosedList \in 1 .. MaxUInt /\ mOnOpenList = mOnClosedList + 1
        /\ mOnOpenList <= MaxUInt
    BY UIntAssumption DEF Init
  <1>6. <<>> \in Seq(Tiles)
    OBVIOUS
  <1>7. TypeOK
    BY <1>1, <1>2, <1>3, <1>4, <1>5, <1>6 DEF Init, TypeOK
  <1> QED
    BY <1>7 DEF Init, IInv, Numbers

LEMMA SetTilesTypeInv == IInv /\ SetTilesType => IInv'
  <1> SUFFICES ASSUME IInv, SetTilesType PROVE IInv'
    OBVIOUS
  <1>1. Tiles' = Tiles
    BY DEF SetTilesType, Tiles
  <1>2. PICK c \in map.changes :
            blockmask' = [t \in Tiles |->
                IF /\ c.from[1] <= t[1] /\ t[1] <= c.to[1]
                   /\ c.from[2] <= t[2] /\ t[2] <= c.to[2]
                THEN {c.type} ELSE blockmask[t]]
    BY DEF SetTilesType
  <1>3. c.type \in Bits
    BY MapAssumption DEF IInv, TypeOK
  <1>4. blockmask' \in [Tiles -> SUBSET Bits]
    BY <1>2, <1>3 DEF IInv, TypeOK
  <1>5. TypeOK'
    BY <1>1, <1>4 DEF IInv, TypeOK, SetTilesType, tiles, lists, search
  <1> QED
    BY <1>1, <1>5 DEF IInv, Numbers, SetTilesType, tiles, lists, search

LEMMA CalledType ==
    ASSUME TypeOK, NEW c \in Coming, Called(c)
    PROVE  c \in CallArguments /\ calls' \in Seq(SUBSET CallArguments) /\ path' = <<>>
  <1>1. calls # <<>> /\ c \in Head(calls)
    BY DEF Coming
  <1>2. Head(calls) \in SUBSET CallArguments /\ Tail(calls) \in Seq(SUBSET CallArguments)
    BY <1>1 DEF TypeOK
  <1> QED
    BY <1>1, <1>2 DEF Called

LEMMA FindNothingInv == IInv /\ FindNothing => IInv'
  <1> SUFFICES ASSUME IInv, FindNothing PROVE IInv'
    OBVIOUS
  <1>1. PICK c \in Coming : Called(c)
    BY DEF FindNothing
  <1>2. c \in CallArguments /\ calls' \in Seq(SUBSET CallArguments) /\ path' = <<>>
    BY <1>1, CalledType DEF IInv
  <1>3. Tiles' = Tiles
    BY <1>1 DEF Called, Tiles
  <1>4. TypeOK'
    BY <1>1, <1>2, <1>3 DEF IInv, TypeOK, FindNothing, Called, lists
  <1> QED
    BY <1>1, <1>3, <1>4 DEF IInv, Numbers, FindNothing, Called, lists

LEMMA FindPathInv == IInv /\ FindPath => IInv'
  <1> SUFFICES ASSUME IInv, FindPath PROVE IInv'
    OBVIOUS
  <1>1. PICK c \in Coming :
            /\ Called(c) /\ Searchable(c)
            /\ Gcost' = [Gcost EXCEPT ![c.start] = 0]
            /\ openList' = {[tile |-> c.start, tileCost |-> 0]}
    BY DEF FindPath
  <1>2. c \in CallArguments /\ calls' \in Seq(SUBSET CallArguments) /\ path' = <<>>
    BY <1>1, CalledType DEF IInv
  <1>3. Tiles' = Tiles /\ Searchable(call)' /\ c.start \in Tiles /\ call' = c
    BY <1>1 DEF Called, Tiles, Searchable, GetWalk
  <1>4. TypeOK'
    <2>1. Gcost' \in [Tiles -> Nat]
      BY <1>1, <1>3 DEF IInv, TypeOK
    <2>2. openList' \in SUBSET [tile : Tiles, tileCost : Nat]
      BY <1>1, <1>3
    <2>3. call' \in CallArguments /\ calls' \in Seq(SUBSET CallArguments)
      BY <1>2, <1>3
    <2>4. pc' = "search" /\ foundPath' = FALSE /\ <<>> \in Seq(Tiles)
      BY DEF FindPath
    <2> QED
      BY <1>1, <1>2, <1>3, <2>1, <2>2, <2>3, <2>4 DEF IInv, TypeOK, Called, lists
  <1>5. Numbers'
    BY <1>1, <1>3, UIntAssumption DEF IInv, TypeOK, Numbers, FindPath, Called, lists
  <1>6. Closed' = {} /\ Opened' = {}
    BY <1>1, <1>3 DEF IInv, TypeOK, Numbers, FindPath, Called, lists, Closed, Opened
  <1>7. NotBegun'
    BY <1>1, <1>3, <1>6 DEF FindPath, NotBegun
  <1>8. ~foundPath' /\ Parents' /\ Frontier'
    BY <1>6, <1>7 DEF NotBegun, Parents, Frontier
  <1>9. Tree'
    <2>1. \A l \in openList' : l.tile = c.start
      BY <1>1
    <2> QED
      BY <1>3, <1>6, <1>7, <1>8, <2>1 DEF Tree
  <1> QED
    BY <1>2, <1>4, <1>5, <1>9 DEF IInv, FindPath

LEMMA SkipInv == IInv /\ Skip => IInv'
  <1> SUFFICES ASSUME IInv, Skip PROVE IInv'
    OBVIOUS
  <1>1. PICK l \in openList : whichList[l.tile] = mOnClosedList /\ openList' = openList \ {l}
    BY DEF Skip, Lowest
  <1>2. UNCHANGED <<map, blockmask, call>> /\ UNCHANGED <<tiles, lists, calls, foundPath>>
        /\ UNCHANGED <<path, position, pc>>
    BY DEF Skip
  <1>3. Tiles' = Tiles /\ Searchable(call)' = Searchable(call) /\ Closed' = Closed
        /\ Opened' = Opened
    BY <1>2 DEF Tiles, Searchable, GetWalk, Closed, Opened, tiles, lists
  <1>4. TypeOK'
    BY <1>1, <1>2, <1>3 DEF IInv, TypeOK, tiles, lists
  <1>5. Numbers'
    BY <1>2, <1>3 DEF IInv, Numbers, tiles, lists
  <1>6. pc = "search" /\ Tree /\ path = <<>>
    BY DEF IInv, Skip, Searching
  <1>7. l.tile \in Closed /\ l.tile \notin Opened
    BY <1>1 DEF IInv, TypeOK, Closed, Opened
  <1>8. Begun'
    BY <1>2, <1>3, <1>6, <1>7 DEF Tree, Begun, NotBegun
  <1>9. Parents'
    BY <1>2, <1>3, <1>6, StepsKept DEF Tree, Parents, tiles
  <1>10. Frontier'
    <2>1. \A u \in Opened : \E k \in openList' : k.tile = u
      BY <1>1, <1>6, <1>7 DEF Tree, Frontier
    <2> QED
      BY <2>1, <1>2, <1>3, <1>6, StepsKept DEF Tree, Frontier
  <1>11. Tree'
    BY <1>1, <1>2, <1>3, <1>6, <1>8, <1>9, <1>10 DEF Tree
  <1> QED
    BY <1>2, <1>4, <1>5, <1>6, <1>11 DEF IInv

\* What one pass of the loop does to the lists and to the parents.
Pass(l, t, improved) ==
    /\ l \in Lowest /\ t = l.tile /\ t \notin Closed /\ improved = Improved(t)
    /\ t \notin improved /\ improved \cap Closed = {}
    /\ Closed' = Closed \cup {t}
    /\ Opened' = (Opened \ {t}) \cup (improved \ {call.dest})
    /\ parent' = [u \in Tiles |-> IF u \in improved THEN t ELSE parent[u]]
    /\ Gcost' = [u \in Tiles |-> IF u \in improved THEN NewCost(t, u) ELSE Gcost[u]]
    /\ openList' = (openList \ {l}) \cup
           {[tile |-> u, tileCost |-> NewCost(t, u) + Hcost(u)] : u \in improved \ {call.dest}}
    /\ foundPath' = (call.dest \in improved)
    /\ whichList' \in [Tiles -> 0 .. MaxUInt]
    /\ \A u \in Tiles : whichList'[u] <= mOnOpenList

LEMMA ExpandEffect ==
    ASSUME IInv, Expand
    PROVE  \E l \in openList : \E t \in Tiles : \E improved \in SUBSET Tiles :
             Pass(l, t, improved)
  <1>1. PICK l \in Lowest :
            LET t == l.tile
                improved == Improved(t)
                opened == improved \ {call.dest}
            IN  /\ whichList[t] # mOnClosedList
                /\ whichList' = [u \in Tiles |-> IF u = t THEN mOnClosedList
                                                 ELSE IF u \in opened THEN mOnOpenList
                                                 ELSE whichList[u]]
                /\ Gcost' = [u \in Tiles |->
                                 IF u \in improved THEN NewCost(t, u) ELSE Gcost[u]]
                /\ parent' = [u \in Tiles |-> IF u \in improved THEN t ELSE parent[u]]
                /\ openList' = (openList \ {l}) \cup
                       {[tile |-> u, tileCost |-> NewCost(t, u) + Hcost(u)] : u \in opened}
                /\ foundPath' = (call.dest \in improved)
    BY DEF Expand
  <1> DEFINE t == l.tile
             improved == Improved(t)
  <1>2. l \in openList /\ t \in Tiles
    BY DEF IInv, TypeOK, Lowest
  <1>3. improved \subseteq Tiles /\ t \notin improved /\ improved \cap Closed = {}
    BY DEF Improved, Neighbours, Closed
  <1>4. UNCHANGED <<map, lists>> /\ Tiles' = Tiles
    BY DEF Expand, Tiles
  <1>5. mOnClosedList \in 0 .. MaxUInt /\ mOnOpenList \in 0 .. MaxUInt
        /\ mOnClosedList < mOnOpenList
    BY DEF IInv, TypeOK
  <1> HIDE DEF improved
  <1>6. whichList' = [u \in Tiles |-> IF u = t THEN mOnClosedList
                                      ELSE IF u \in improved \ {call.dest} THEN mOnOpenList
                                      ELSE whichList[u]]
    BY <1>1 DEF improved
  <1>7. whichList' \in [Tiles -> 0 .. MaxUInt]
    BY <1>5, <1>6 DEF IInv, TypeOK
  <1>8. \A u \in Tiles : whichList'[u] <= mOnOpenList
    BY <1>5, <1>6 DEF IInv, TypeOK, Numbers
  <1>9. Closed' = Closed \cup {t}
    BY <1>2, <1>3, <1>4, <1>5, <1>6 DEF Closed, lists
  <1>10. Opened' = (Opened \ {t}) \cup (improved \ {call.dest})
    BY <1>2, <1>3, <1>4, <1>5, <1>6 DEF Opened, lists
  <1>11. t \notin Closed
    BY <1>1 DEF Closed
  <1>12. /\ parent' = [u \in Tiles |-> IF u \in improved THEN t ELSE parent[u]]
         /\ Gcost' = [u \in Tiles |-> IF u \in improved THEN NewCost(t, u) ELSE Gcost[u]]
         /\ openList' = (openList \ {l}) \cup
                {[tile |-> u, tileCost |-> NewCost(t, u) + Hcost(u)]
                    : u \in improved \ {call.dest}}
         /\ foundPath' = (call.dest \in improved)
    BY <1>1 DEF improved
  <1> QED
    BY <1>2, <1>3, <1>7, <1>8, <1>9, <1>10, <1>11, <1>12 DEF improved, Pass

LEMMA ExpandInv == IInv /\ Expand => IInv'
  <1> SUFFICES ASSUME IInv, Expand PROVE IInv'
    OBVIOUS
  <1>1. PICK l \in openList, t \in Tiles, improved \in SUBSET Tiles : Pass(l, t, improved)
    BY ExpandEffect
  <1> USE DEF Pass
  <1>2. UNCHANGED <<map, blockmask, call>> /\ UNCHANGED <<lists, calls, path, position, pc>>
        /\ Searchable(call)' = Searchable(call) /\ Tiles' = Tiles
    BY DEF Expand, Searchable, GetWalk, Tiles
  <1>3. pc = "search" /\ Tree /\ path = <<>> /\ ~foundPath /\ TypeOK /\ Searchable(call)
    BY DEF IInv, TypeOK, Expand, Searching
  <1>4. \A u \in improved : IsStep(t, u)
    <2>1. \A u \in improved : u \in Neighbours(t) /\ CanEnter(t, u)
      BY <1>1 DEF Improved
    <2> QED
      BY <1>3, <2>1, EntersAreSteps DEF TypeOK
  <1>5. TypeOK'
    <2>1. \A u \in improved : NewCost(t, u) \in Nat /\ Hcost(u) \in Nat
      BY <1>3, CostsAreNumbers
    <2>2. Gcost' \in [Tiles -> Nat] /\ parent' \in [Tiles -> Tiles]
      BY <1>1, <1>3, <2>1 DEF TypeOK
    <2>3. \A u \in improved : NewCost(t, u) + Hcost(u) \in Nat
      BY <2>1
    <2>4. openList' \in SUBSET [tile : Tiles, tileCost : Nat]
      BY <1>1, <1>3, <2>3 DEF TypeOK
    <2>5. foundPath' \in BOOLEAN
      BY <1>1
    <2> QED
      BY <1>1, <1>2, <1>3, <2>2, <2>4, <2>5 DEF TypeOK, lists
  <1>6. Numbers'
    BY <1>1, <1>2, <1>3 DEF Numbers, lists
  <1>7. t = call.start \/ Begun
    BY <1>1, <1>3 DEF Tree, NotBegun
  <1>8. t \in Opened \cup {call.start}
    BY <1>1, <1>3 DEF Tree
  <1>9. call.start \in Closed' /\ call.start \notin improved
    BY <1>1, <1>7 DEF Begun
  <1>10. call.dest \in Closed' => call.dest = call.start
    BY <1>1, <1>3, <1>8 DEF Tree
  <1>11. Parents'
    <2>1. \A u \in improved : parent'[u] = t
      BY <1>1
    <2>2. \A u \in Tiles \ improved : parent'[u] = parent[u]
      BY <1>1
    <2>3. \A u \in Closed \cup Opened :
             u # call.start => parent[u] \in Closed /\ IsStep(parent[u], u)
      BY <1>3 DEF Tree, Parents
    <2>4. \A u \in (Closed \cup Opened \cup {t} \cup improved) :
             u # call.start => parent'[u] \in Closed' /\ IsStep(parent'[u], u)
      BY <1>1, <1>4, <1>8, <2>1, <2>2, <2>3 DEF Closed, Opened
    <2>5. Closed' \cup Opened' \cup (IF foundPath' THEN {call.dest} ELSE {})
            \subseteq Closed \cup Opened \cup {t} \cup improved
      BY <1>1
    <2> QED
      BY <1>2, <2>4, <2>5, StepsKept DEF Parents
  <1>12. Frontier'
    <2>1. \A u \in Opened' : \E k \in openList' : k.tile = u
      <3>1. \A u \in Opened \ {t} : \E k \in openList' : k.tile = u
        BY <1>1, <1>3 DEF Tree, Frontier
      <3>2. ASSUME NEW u \in improved \ {call.dest} PROVE \E k \in openList' : k.tile = u
        <4> DEFINE k == [tile |-> u, tileCost |-> NewCost(t, u) + Hcost(u)]
        <4>1. k \in openList'
          BY <1>1
        <4>2. k.tile = u
          OBVIOUS
        <4> QED
          BY <4>1, <4>2
      <3>3. Opened' \subseteq (Opened \ {t}) \cup (improved \ {call.dest})
        BY <1>1
      <3> QED
        BY <3>1, <3>2, <3>3
    <2>2. ASSUME call.maxCost = 0, NEW v \in Closed', NEW u \in Tiles, IsStep(v, u)
          PROVE  u \in Closed' \cup Opened' \/ (u = call.dest /\ foundPath')
      <3>1. CASE v \in Closed
        BY <1>1, <1>3, <2>2, <3>1 DEF Tree, Frontier
      <3>2. CASE v = t
        <4>1. u \in Neighbours(t) /\ CanEnter(t, u)
          BY <1>3, <2>2, <3>2, EntersAreSteps DEF TypeOK, IsStep
        <4>2. whichList[u] # mOnClosedList /\ whichList[u] # mOnOpenList => u \in improved
          BY <1>1, <2>2, <4>1 DEF Improved
        <4> QED
          BY <1>1, <4>2 DEF Closed, Opened
      <3> QED
        BY <1>1, <2>2, <3>1, <3>2
    <2> QED
      BY <1>2, <2>1, <2>2, StepsKept DEF Frontier
  <1>13. Tree'
    <2>1. \A k \in openList' : k.tile \in Closed' \cup Opened' \cup {call.start}
      <3>1. \A k \in openList : k.tile \in Closed' \cup Opened' \cup {call.start}
        BY <1>1, <1>3 DEF Tree
      <3>2. \A k \in openList' \ openList : k.tile \in improved \ {call.dest}
        BY <1>1
      <3>3. improved \ {call.dest} \subseteq Opened'
        BY <1>1
      <3> QED
        BY <3>1, <3>2, <3>3
    <2>2. foundPath' => call.dest # call.start
      BY <1>1, <1>9
    <2>3. call.start \notin Opened' /\ call.dest \notin Opened'
      BY <1>1, <1>3, <1>9 DEF Tree
    <2> QED
      BY <1>2, <1>3, <1>9, <1>10, <1>11, <1>12, <2>1, <2>2, <2>3 DEF Tree, Begun
  <1> QED
    BY <1>2, <1>3, <1>5, <1>6, <1>13 DEF IInv

LEMMA EndSearchInv == IInv /\ EndSearch => IInv'
  <1> SUFFICES ASSUME IInv, EndSearch PROVE IInv'
    OBVIOUS
  <1>1. UNCHANGED <<map, blockmask, call>>
        /\ UNCHANGED <<Gcost, parent, calls, foundPath, path>>
        /\ Searchable(call)' = Searchable(call) /\ Tiles' = Tiles /\ openList' = {}
        /\ position' = call.dest /\ pc' = IF foundPath THEN "extract" ELSE "idle"
    BY DEF EndSearch, Searchable, GetWalk, Tiles
  <1>2. pc = "search" /\ Tree /\ path = <<>> /\ TypeOK /\ Numbers /\ Searchable(call)
    BY DEF IInv, TypeOK, EndSearch, Over
  <1>3. call.dest \in Tiles
    BY <1>2 DEF Searchable, GetWalk
  <1>4. /\ whichList' \in [Tiles -> 0 .. MaxUInt]
        /\ mOnClosedList' \in 1 .. MaxUInt /\ mOnOpenList' = mOnClosedList' + 1
        /\ mOnOpenList' <= MaxUInt
        /\ \A t \in Tiles : whichList'[t] < mOnClosedList'
    <2>1. CASE mOnOpenList > MaxUInt - 2
      BY <1>2, <2>1, UIntAssumption DEF EndSearch, Renumber, TypeOK
    <2>2. CASE ~(mOnOpenList > MaxUInt - 2)
      BY <1>2, <2>2, UIntAssumption DEF EndSearch, Renumber, TypeOK, Numbers
    <2> QED
      BY <2>1, <2>2
  <1>5. TypeOK'
    BY <1>1, <1>2, <1>3, <1>4 DEF TypeOK
  <1>6. Numbers'
    <2>1. \A t \in Tiles : whichList'[t] \in Nat
      BY <1>4
    <2> QED
      BY <1>1, <1>4, <2>1, UIntAssumption DEF Numbers
  <1>7. ASSUME foundPath PROVE Extracted' /\ Way'
    <2>1. Extracted'
      BY <1>1, <1>2, <1>7 DEF Tree, Extracted
    <2> DEFINE C == Closed \cup {call.dest}
    <2>2. C \in SUBSET Tiles /\ position' \in C
      BY <1>1, <1>3 DEF Closed
    <2>3. \A t \in C : t # call.start => parent[t] \in C /\ IsStep(parent[t], t)
      BY <1>2, <1>7 DEF Tree, Parents
    <2>4. \A t \in C : t # call'.start => parent'[t] \in C /\ IsStep(parent[t], t)'
      BY <1>1, <2>3, StepsKept
    <2> HIDE DEF C
    <2> QED
      BY <1>1, <2>1, <2>2, <2>4 DEF Way, Leads
  <1> QED
    BY <1>1, <1>5, <1>6, <1>7 DEF IInv

LEMMA ExtractInv == IInv /\ Extract => IInv'
  <1> SUFFICES ASSUME IInv, Extract PROVE IInv'
    OBVIOUS
  <1>1. UNCHANGED <<map, blockmask, call>> /\ UNCHANGED <<tiles, lists, calls, search, pc>>
        /\ Searchable(call)' = Searchable(call) /\ Tiles' = Tiles
        /\ position # call.start /\ path' = <<position>> \o path /\ position' = parent[position]
    BY DEF Extract, Searchable, GetWalk, Tiles, search
  <1>2. pc = "extract" /\ TypeOK /\ Numbers /\ Extracted /\ Way
    BY DEF IInv, Extract
  <1>3. path \in Seq(Tiles) /\ position \in Tiles /\ position' \in Tiles
    BY <1>1, <1>2 DEF TypeOK
  <1>4. path' \in Seq(Tiles) /\ Len(path') = Len(path) + 1 /\ path'[1] = position
        /\ \A i \in 2 .. Len(path') : path'[i] = path[i - 1]
    BY <1>1, <1>3
  <1>5. TypeOK'
    BY <1>1, <1>2, <1>3, <1>4 DEF TypeOK, tiles, lists, search
  <1>6. Numbers'
    BY <1>1, <1>2 DEF Numbers, tiles, lists
  <1>7. PICK C \in SUBSET Tiles : position \in C /\ Leads(C)
    BY <1>2 DEF Way
  <1>8. position' \in C /\ IsStep(position', position)
    BY <1>1, <1>7 DEF Leads
  <1>9. Way'
    <2>1. \A t \in C : t # call'.start => parent'[t] \in C /\ IsStep(parent[t], t)'
      BY <1>1, <1>7, StepsKept DEF Leads, tiles
    <2> QED
      BY <1>1, <1>8, <2>1 DEF Way, Leads
  <1>10. Extracted'
    <2>1. path' # <<>>
      BY <1>4, <1>3
    <2>2. path'[Len(path')] = call.dest
      <3>1. CASE path = <<>>
        BY <1>2, <1>4, <3>1 DEF Extracted
      <3>2. CASE path # <<>>
        <4>1. Len(path) \in Nat /\ Len(path) >= 1
          BY <1>3, <3>2
        <4> QED
          BY <1>2, <1>4, <3>2, <4>1 DEF Extracted
      <3> QED
        BY <3>1, <3>2
    <2>3. ASSUME NEW i \in 1 .. Len(path') - 1
          PROVE  IsStep(path'[i], path'[i + 1])
      <3>1. path # <<>> /\ Len(path) \in Nat /\ i \in 1 .. Len(path)
        BY <1>3, <1>4, <2>3
      <3>2. CASE i = 1
        BY <1>2, <1>4, <3>1, <3>2 DEF Extracted
      <3>3. CASE i > 1
        <4>1. i - 1 \in 1 .. Len(path) - 1 /\ path'[i] = path[i - 1]
              /\ path'[i + 1] = path[(i - 1) + 1]
          BY <1>4, <3>1, <3>3
        <4> QED
          BY <1>2, <3>1, <4>1 DEF Extracted
      <3> QED
        BY <3>1, <3>2, <3>3
    <2>4. IsStep(position', path'[1])
      BY <1>4, <1>8
    <2> QED
      BY <1>1, <2>1, <2>2, <2>3, <2>4, StepsKept DEF Extracted
  <1> QED
    BY <1>1, <1>2, <1>5, <1>6, <1>9, <1>10 DEF IInv

LEMMA ReturnInv == IInv /\ Return => IInv'
  <1> SUFFICES ASSUME IInv, Return PROVE IInv'
    OBVIOUS
  <1>1. Tiles' = Tiles
    BY DEF Return, Tiles
  <1> QED
    BY <1>1 DEF IInv, TypeOK, Numbers, Return, tiles, lists, search

LEMMA StutterInv == IInv /\ UNCHANGED vars => IInv'
  <1> SUFFICES ASSUME IInv, UNCHANGED vars PROVE IInv'
    OBVIOUS
  <1>1. UNCHANGED <<map, blockmask, call>> /\ UNCHANGED <<whichList, Gcost, parent>>
        /\ UNCHANGED <<mOnClosedList, mOnOpenList, calls, openList, foundPath>>
        /\ UNCHANGED <<path, position, pc>>
    BY DEF vars, tiles, lists, search
  <1> USE <1>1
  <1>2. TypeOK'
    BY DEF IInv, TypeOK, Tiles, Searchable, GetWalk
  <1>3. Numbers'
    BY DEF IInv, Numbers, Tiles
  <1>4. pc = "search" => Tree'
    BY StepsKept DEF IInv, Tree, Begun, NotBegun, Parents, Frontier, Closed, Opened, Tiles
  <1>5. pc = "extract" => Extracted' /\ Way'
    <2>1. Extracted => Extracted'
      BY StepsKept DEF Extracted
    <2>2. ASSUME Way PROVE Way'
      <3>1. PICK C \in SUBSET Tiles : position \in C /\ Leads(C)
        BY <2>2 DEF Way
      <3>2. C \in SUBSET Tiles' /\ position' \in C /\ Leads(C)'
        BY <3>1, StepsKept DEF Leads
      <3> QED
        BY <3>2 DEF Way
    <2> QED
      BY <2>1, <2>2 DEF IInv
  <1> QED
    BY <1>2, <1>3, <1>4, <1>5 DEF IInv

LEMMA Inductive == Spec => []IInv
  <1>1. IInv /\ [Next]_vars => IInv'
    BY SetTilesTypeInv, FindPathInv, FindNothingInv, SkipInv, ExpandInv, EndSearchInv,
       ExtractInv, ReturnInv, StutterInv DEF Next, FindsPath, Running
  <1> QED
    BY InitInv, <1>1, PTL DEF Spec

----------------------------------------------------------------------------
\* The number of a list stays within an unsigned int, every parent is a tile of the map,
\* and costs do not become negative.
THEOREM PathTypeOK == Spec => []TypeOK
  <1>1. IInv => TypeOK
    BY DEF IInv
  <1> QED
    BY Inductive, <1>1, PTL

\* No tile is on a list when a search begins, for every UINT_MAX.
THEOREM NumbersFresh == Spec => []ListsFresh
  <1>1. IInv => ListsFresh
    <2> SUFFICES ASSUME IInv, pc = "idle", NEW t \in Tiles
                 PROVE  whichList[t] \notin {mOnClosedList, mOnOpenList}
      BY DEF ListsFresh
    <2>1. whichList[t] \in Nat /\ mOnClosedList \in Nat /\ mOnOpenList = mOnClosedList + 1
      BY DEF IInv, TypeOK
    <2>2. whichList[t] < mOnClosedList
      BY DEF IInv, Numbers
    <2> QED
      BY <2>1, <2>2
  <1> QED
    BY Inductive, <1>1, PTL

\* A path that Map::findPath returns leads from the start to the destination by steps that
\* the being may take, whatever earlier searches left on the tiles.
THEOREM PathsLead == Spec => []PathLeads
  <1>1. IInv => PathLeads
    BY DEF IInv, PathLeads, Returning, Extracted
  <1> QED
    BY Inductive, <1>1, PTL

\* A search without a limit that finds nothing has closed a set of tiles with the start in
\* it and without the destination, and no step leads out of it.
NoWay ==
    Over /\ ~foundPath /\ call.maxCost = 0 /\ call.dest # call.start =>
        \E C \in SUBSET Tiles :
            /\ call.start \in C /\ call.dest \notin C
            /\ \A t \in C : \A u \in Tiles : IsStep(t, u) => u \in C

\* Map::findPath gives up only when there is no way.
THEOREM GivesUpRightly == Spec => []NoWay
  <1>1. IInv => NoWay
    <2> SUFFICES ASSUME IInv, Over, ~foundPath, call.maxCost = 0, call.dest # call.start
                 PROVE  \E C \in SUBSET Tiles :
                            /\ call.start \in C /\ call.dest \notin C
                            /\ \A t \in C : \A u \in Tiles : IsStep(t, u) => u \in C
      BY DEF NoWay
    <2>1. Tree /\ openList = {}
      BY DEF IInv, Over
    <2>2. Begun
      BY <2>1 DEF Tree, NotBegun
    <2>3. Opened = {}
      BY <2>1 DEF Tree, Frontier
    <2>4. Closed \in SUBSET Tiles /\ call.start \in Closed /\ call.dest \notin Closed
      BY <2>1, <2>2 DEF Tree, Begun, Closed
    <2>5. \A t \in Closed : \A u \in Tiles : IsStep(t, u) => u \in Closed
      BY <2>1, <2>3 DEF Tree, Frontier
    <2> QED
      BY <2>4, <2>5
  <1> QED
    BY Inductive, <1>1, PTL

----------------------------------------------------------------------------
(* What the path costs.  First the heuristic: it never falls, over a step, *)
(* by more than the step may be misjudged to cost.                         *)

\* The diagonal part of the heuristic.
Diagonals(n) == (n * 36200) \div 256

LEMMA DiagonalsStep ==
    /\ Diagonals(0) = 0 /\ Diagonals(1) = 141
    /\ \A n \in Nat : /\ Diagonals(n) \in Nat
                      /\ Diagonals(n) + 141 <= Diagonals(n + 1)
                      /\ Diagonals(n + 1) <= Diagonals(n) + 142
  BY DEF Diagonals

Smaller(a, b) == IF a < b THEN a ELSE b
Estimate(a, b) == AbsDiff(a, b) * 100 + Diagonals(Smaller(a, b))

LEMMA EstimateStep ==
    ASSUME NEW a \in Nat, NEW b \in Nat, NEW c \in Nat, NEW d \in Nat,
           a <= c + 1, c <= a + 1, b <= d + 1, d <= b + 1
    PROVE  /\ Estimate(a, b) \in Nat
           /\ Estimate(a, b) <= Estimate(c, d) + 142
           /\ a = c \/ b = d => Estimate(a, b) <= Estimate(c, d) + 101
  <1>1. PICK m \in Nat : m = Smaller(a, b)
    BY DEF Smaller
  <1>2. PICK n \in Nat : n = Smaller(c, d)
    BY DEF Smaller
  <1>3. PICK i \in Nat : i = Diagonals(m)
    BY DiagonalsStep
  <1>4. PICK j \in Nat : j = Diagonals(n)
    BY DiagonalsStep
  <1>5. /\ m = n => i = j
        /\ m = n + 1 => j + 141 <= i /\ i <= j + 142
        /\ n = m + 1 => i + 141 <= j /\ j <= i + 142
    BY <1>3, <1>4, DiagonalsStep
  <1>6. m = n \/ m = n + 1 \/ n = m + 1
    BY <1>1, <1>2 DEF Smaller
  <1>7. /\ Estimate(a, b) = AbsDiff(a, b) * 100 + i
        /\ Estimate(c, d) = AbsDiff(c, d) * 100 + j
    BY <1>1, <1>2, <1>3, <1>4 DEF Estimate
  <1>8. /\ a < b => m = a /\ AbsDiff(a, b) = b - a
        /\ ~(a < b) => m = b /\ AbsDiff(a, b) = a - b
        /\ c < d => n = c /\ AbsDiff(c, d) = d - c
        /\ ~(c < d) => n = d /\ AbsDiff(c, d) = c - d
    BY <1>1, <1>2 DEF Smaller, AbsDiff
  <1> QED
    BY <1>5, <1>6, <1>7, <1>8

LEMMA Distances ==
    ASSUME TypeOK, NEW t \in Tiles
    PROVE  /\ AbsDiff(t[1], call.dest[1]) \in Nat /\ AbsDiff(t[2], call.dest[2]) \in Nat
           /\ Hcost(t) = Estimate(AbsDiff(t[1], call.dest[1]), AbsDiff(t[2], call.dest[2]))
  <1>1. t[1] \in Int /\ t[2] \in Int /\ call.dest[1] \in Int /\ call.dest[2] \in Int
    BY TilesType DEF TypeOK, CallArguments
  <1> QED
    BY <1>1 DEF AbsDiff, Hcost, Estimate, Smaller, Diagonals

LEMMA HeuristicStep ==
    ASSUME TypeOK, NEW t \in Tiles, NEW u \in Neighbours(t)
    PROVE  Hcost(t) <= Hcost(u) + JudgedCost(t, u) /\ Hcost(t) \in Nat /\ Hcost(u) \in Nat
  <1>1. u \in Tiles /\ AbsDiff(u[1], t[1]) <= 1 /\ AbsDiff(u[2], t[2]) <= 1
    BY DEF Neighbours
  <1>2. /\ t[1] \in Int /\ t[2] \in Int /\ u[1] \in Int /\ u[2] \in Int
        /\ call.dest[1] \in Int /\ call.dest[2] \in Int
    BY <1>1, TilesType DEF TypeOK, CallArguments
  <1>3. PICK a \in Nat, b \in Nat : /\ a = AbsDiff(t[1], call.dest[1])
                                    /\ b = AbsDiff(t[2], call.dest[2])
                                    /\ Hcost(t) = Estimate(a, b)
    BY Distances
  <1>4. PICK c \in Nat, d \in Nat : /\ c = AbsDiff(u[1], call.dest[1])
                                    /\ d = AbsDiff(u[2], call.dest[2])
                                    /\ Hcost(u) = Estimate(c, d)
    BY <1>1, Distances
  <1>5. /\ a <= c + 1 /\ c <= a + 1 /\ (u[1] = t[1] => a = c)
        /\ b <= d + 1 /\ d <= b + 1 /\ (u[2] = t[2] => b = d)
    BY <1>1, <1>2, <1>3, <1>4 DEF AbsDiff
  <1>6. /\ Estimate(a, b) \in Nat
        /\ Estimate(a, b) <= Estimate(c, d) + 142
        /\ a = c \/ b = d => Estimate(a, b) <= Estimate(c, d) + 101
    <2>1. a <= c + 1 /\ c <= a + 1 /\ b <= d + 1 /\ d <= b + 1
      BY <1>5
    <2> QED
      BY ONLY <2>1, EstimateStep, SMTT(30)
  <1>7. Estimate(c, d) \in Nat
    <2>1. c <= c + 1 /\ d <= d + 1
      OBVIOUS
    <2> QED
      BY ONLY <2>1, EstimateStep, SMTT(30)
  <1> QED
    BY <1>3, <1>4, <1>5, <1>6, <1>7 DEF JudgedCost, Diagonal

\* Beside the destination the heuristic lacks no more than the defect.
LEMMA HeuristicLast ==
    ASSUME TypeOK, call.dest \in Tiles
    PROVE  /\ Hcost(call.dest) = 0
           /\ \A t \in Tiles : call.dest \in Neighbours(t) =>
                StepCost(t, call.dest) <= Hcost(t) + (IF Diagonal(t, call.dest) THEN 0 ELSE 1)
  <1>1. \A t \in Tiles : t[1] \in Int /\ t[2] \in Int /\ t = <<t[1], t[2]>>
    BY TilesType DEF TypeOK
  <1>2. PICK x \in Int, y \in Int : call.dest = <<x, y>> /\ call.dest[1] = x /\ call.dest[2] = y
    BY <1>1
  <1>3. AbsDiff(x, x) = 0 /\ AbsDiff(y, y) = 0 /\ Estimate(0, 0) = 0
    BY DiagonalsStep DEF AbsDiff, Estimate, Smaller
  <1>4. Hcost(call.dest) = 0
    BY <1>2, <1>3, Distances
  <1>5. ASSUME NEW t \in Tiles, call.dest \in Neighbours(t)
        PROVE  StepCost(t, call.dest) <= Hcost(t) + (IF Diagonal(t, call.dest) THEN 0 ELSE 1)
    <2>1. PICK v \in Int, w \in Int : t = <<v, w>> /\ t[1] = v /\ t[2] = w
      BY <1>1
    <2>2. /\ v # x \/ w # y
          /\ AbsDiff(x, v) <= 1 /\ AbsDiff(y, w) <= 1
      BY <1>2, <1>5, <2>1 DEF Neighbours
    <2>3. /\ AbsDiff(v, x) = 0 <=> v = x
          /\ AbsDiff(w, y) = 0 <=> w = y
          /\ AbsDiff(v, x) \in {0, 1} /\ AbsDiff(w, y) \in {0, 1}
      BY <2>2 DEF AbsDiff
    <2>4. Estimate(0, 1) = 100 /\ Estimate(1, 0) = 100 /\ Estimate(1, 1) = 141
      BY DiagonalsStep DEF AbsDiff, Estimate, Smaller
    <2>5. Hcost(t) = Estimate(AbsDiff(v, x), AbsDiff(w, y))
      BY <1>2, <2>1, Distances
    <2>6. Diagonal(t, call.dest) <=> v # x /\ w # y
      BY <1>2, <2>1 DEF Diagonal
    <2> QED
      BY <2>2, <2>3, <2>4, <2>5, <2>6 DEF StepCost
  <1> QED
    BY <1>4, <1>5

----------------------------------------------------------------------------
(* The least costs: that their recursive definition has a solution, and    *)
(* that each of them comes from another one step before.                   *)

\* Numbers have a least one among them.
LEMMA LeastNumber ==
    ASSUME NEW S \in SUBSET Nat, S # {}
    PROVE  \E i \in S : \A j \in S : i <= j
  <1>1. PICK i \in S : \A j \in S : <<j, i>> \notin OpToRel(<, Nat)
    BY NatLessThanWellFounded, WFMin
  <1>2. \A j \in S : ~(j < i)
    BY <1>1 DEF OpToRel
  <1> QED
    BY <1>2

\* A solution as far as n.
Solves(g, n) ==
    /\ DOMAIN g = 0 .. n /\ g[0] = {<<call.start, 0>>}
    /\ \A k \in 1 .. n : g[k] = OneStepMore(g[k - 1])

LEMMA SolutionsAgree ==
    ASSUME NEW n \in Nat, NEW m \in Nat, NEW g, NEW h, Solves(g, n), Solves(h, m)
    PROVE  \A k \in Nat : k <= n /\ k <= m => g[k] = h[k]
  <1> DEFINE S == {k \in Nat : k <= n /\ k <= m /\ g[k] # h[k]}
  <1>1. SUFFICES ASSUME S # {} PROVE FALSE
    OBVIOUS
  <1>2. PICK k \in S : \A j \in S : k <= j
    BY <1>1, LeastNumber
  <1>3. k # 0
    BY <1>2 DEF Solves
  <1>4. k \in Nat /\ k - 1 \in Nat /\ k \in 1 .. n /\ k \in 1 .. m /\ k - 1 \notin S
    BY <1>2, <1>3
  <1>5. g[k - 1] = h[k - 1]
    BY <1>4
  <1>6. g[k] = OneStepMore(g[k - 1]) /\ h[k] = OneStepMore(h[k - 1])
    BY <1>4 DEF Solves
  <1> QED
    BY <1>2, <1>5, <1>6

LEMMA SolutionsGrow == \A n \in Nat : \E g : Solves(g, n)
  <1> DEFINE S == {n \in Nat : ~ \E g : Solves(g, n)}
  <1>1. SUFFICES ASSUME S # {} PROVE FALSE
    OBVIOUS
  <1>2. PICK n \in S : \A j \in S : n <= j
    BY <1>1, LeastNumber
  <1>3. n # 0
    <2> DEFINE g == [k \in 0 .. 0 |-> {<<call.start, 0>>}]
    <2>1. Solves(g, 0)
      BY DEF Solves
    <2> QED
      BY <1>2, <2>1
  <1>4. n \in Nat /\ n - 1 \in Nat /\ n - 1 \notin S
    BY <1>2, <1>3
  <1>5. PICK g : Solves(g, n - 1)
    BY <1>4
  <1> DEFINE h == [k \in 0 .. n |-> IF k = n THEN OneStepMore(g[n - 1]) ELSE g[k]]
  <1>6. h[0] = {<<call.start, 0>>}
    BY <1>3, <1>4, <1>5 DEF Solves
  <1>7. ASSUME NEW k \in 1 .. n PROVE h[k] = OneStepMore(h[k - 1])
    <2>1. h[k - 1] = g[k - 1]
      BY <1>4
    <2>2. CASE k = n
      BY <1>4, <2>1, <2>2
    <2>3. CASE k # n
      <3>1. k \in 1 .. n - 1 /\ h[k] = g[k]
        BY <1>4, <2>3
      <3> QED
        BY <1>5, <2>1, <3>1 DEF Solves
    <2> QED
      BY <2>2, <2>3
  <1>8. Solves(h, n)
    BY <1>6, <1>7 DEF Solves
  <1> QED
    BY <1>2, <1>8

\* The equation that defines the least costs has a solution, and they are the last of it.
LEMMA LeastEquation ==
    ASSUME Cardinality(Walkable) \in Nat
    PROVE  \E least :
             /\ least[0] = {<<call.start, 0>>}
             /\ \A n \in Nat : least[n + 1] = OneStepMore(least[n])
             /\ LeastCosts = least[Cardinality(Walkable)]
  <1> DEFINE G(n) == CHOOSE g : Solves(g, n)
             f == [n \in Nat |-> G(n)[n]]
  <1>1. \A n \in Nat : Solves(G(n), n)
    BY SolutionsGrow
  <1> HIDE DEF G
  <1>2. f[0] = {<<call.start, 0>>}
    BY <1>1 DEF Solves
  <1>3. ASSUME NEW n \in Nat, n # 0 PROVE f[n] = OneStepMore(f[n - 1])
    <2>1. n - 1 \in Nat /\ n \in 1 .. n /\ n - 1 <= n
      BY <1>3
    <2>2. G(n)[n] = OneStepMore(G(n)[n - 1])
      BY <1>1, <2>1 DEF Solves
    <2>3. G(n)[n - 1] = G(n - 1)[n - 1]
      BY <1>1, <2>1, SolutionsAgree
    <2> QED
      BY <2>1, <2>2, <2>3
  <1> HIDE DEF f
  <1>4. f = [n \in Nat |-> IF n = 0 THEN {<<call.start, 0>>} ELSE OneStepMore(f[n - 1])]
    <2>1. f = [n \in Nat |-> f[n]]
      BY DEF f
    <2>2. \A n \in Nat : f[n] = IF n = 0 THEN {<<call.start, 0>>} ELSE OneStepMore(f[n - 1])
      BY <1>2, <1>3
    <2> QED
      BY <2>1, <2>2
  <1> DEFINE E(g) ==
               g = [n \in Nat |-> IF n = 0 THEN {<<call.start, 0>>} ELSE OneStepMore(g[n - 1])]
             least == CHOOSE g : E(g)
  <1>5. E(f)
    BY <1>4
  <1>6. E(least)
    BY <1>5
  <1>7. LeastCosts = least[Cardinality(Walkable)]
    BY DEF LeastCosts
  <1>8. least[0] = {<<call.start, 0>>}
    BY <1>6
  <1>9. ASSUME NEW n \in Nat PROVE least[n + 1] = OneStepMore(least[n])
    <2>1. n + 1 \in Nat /\ n + 1 # 0 /\ (n + 1) - 1 = n
      OBVIOUS
    <2> HIDE DEF least
    <2> QED
      BY <1>6, <2>1
  <1> HIDE DEF least
  <1> QED
    BY <1>7, <1>8, <1>9

\* A set of tiles and costs in which each but the start's is reached by a step from another one,
\* and costs at least as much more as the step may be misjudged to cost.
Certified(P) ==
    /\ P \subseteq Tiles \X Nat
    /\ \A p \in P :
         \/ p = <<call.start, 0>>
         \/ \E q \in P : IsStep(q[1], p[1]) /\ q[2] + JudgedCost(q[1], p[1]) <= p[2]

LEMMA CheapestAre ==
    ASSUME NEW A, A \subseteq Tiles \X Nat
    PROVE  /\ Cheapest(A) \subseteq A
           /\ \A p \in A : \E q \in Cheapest(A) : q[1] = p[1] /\ q[2] <= p[2]
  <1>1. ASSUME NEW p \in A PROVE \E q \in Cheapest(A) : q[1] = p[1] /\ q[2] <= p[2]
    <2> DEFINE S == {c \in Nat : <<p[1], c>> \in A}
    <2>1. \A r \in A : r = <<r[1], r[2]>> /\ r[2] \in Nat
      OBVIOUS
    <2>2. p[2] \in S
      BY <2>1
    <2>3. PICK c \in S : \A d \in S : c <= d
      BY <2>2, LeastNumber
    <2> DEFINE q == <<p[1], c>>
    <2>4. q \in A /\ q[1] = p[1] /\ q[2] = c
      BY <2>3
    <2>5. \A r \in A : r[1] = q[1] => q[2] <= r[2]
      BY <2>1, <2>3, <2>4
    <2> QED
      BY <2>2, <2>3, <2>4, <2>5 DEF Cheapest
  <1> QED
    BY <1>1 DEF Cheapest

LEMMA OneMoreCertified ==
    ASSUME map \in Maps, NEW P, Certified(P)
    PROVE  Certified(OneStepMore(P))
  <1> DEFINE A == P \cup
                 UNION {{<<u, p[2] + JudgedCost(p[1], u)>> :
                             u \in {v \in Neighbours(p[1]) : IsStep(p[1], v)}} : p \in P}
  <1>1. OneStepMore(P) = Cheapest(A)
    BY DEF OneStepMore
  <1>2. \A p \in P : p[1] \in Tiles /\ p[2] \in Nat
    BY DEF Certified
  <1>3. ASSUME NEW a \in A, a \notin P
        PROVE  \E p \in P : /\ IsStep(p[1], a[1]) /\ a = <<a[1], p[2] + JudgedCost(p[1], a[1])>>
                            /\ a[1] \in Tiles /\ a[2] = p[2] + JudgedCost(p[1], a[1])
    <2>1. PICK p \in P : \E u \in {v \in Neighbours(p[1]) : IsStep(p[1], v)} :
              a = <<u, p[2] + JudgedCost(p[1], u)>>
      BY <1>3
    <2> QED
      BY <2>1 DEF Neighbours
  <1>4. A \subseteq Tiles \X Nat
    <2>1. ASSUME NEW a \in A, a \notin P PROVE a \in Tiles \X Nat
      BY <1>2, <1>3, <2>1 DEF JudgedCost
    <2> QED
      BY <2>1 DEF Certified
  <1>5. \A a \in A : \/ a = <<call.start, 0>>
                     \/ \E p \in P : IsStep(p[1], a[1]) /\ p[2] + JudgedCost(p[1], a[1]) <= a[2]
    <2>1. ASSUME NEW a \in A, a \notin P
          PROVE  \E p \in P : IsStep(p[1], a[1]) /\ p[2] + JudgedCost(p[1], a[1]) <= a[2]
      <3>1. PICK p \in P : IsStep(p[1], a[1]) /\ a[2] = p[2] + JudgedCost(p[1], a[1])
        BY <1>3, <2>1
      <3>2. p[2] + JudgedCost(p[1], a[1]) \in Nat
        BY <1>2 DEF JudgedCost
      <3> QED
        BY <3>1, <3>2
    <2> QED
      BY <2>1 DEF Certified
  <1> HIDE DEF A
  <1>6. P \subseteq A
    BY DEF A
  <1>7. ASSUME NEW a \in Cheapest(A)
        PROVE  \/ a = <<call.start, 0>>
               \/ \E q \in Cheapest(A) :
                    IsStep(q[1], a[1]) /\ q[2] + JudgedCost(q[1], a[1]) <= a[2]
    <2>1. a \in A /\ a[2] \in Nat
      BY <1>4, CheapestAre
    <2>2. SUFFICES ASSUME a # <<call.start, 0>>
                   PROVE  \E q \in Cheapest(A) :
                            IsStep(q[1], a[1]) /\ q[2] + JudgedCost(q[1], a[1]) <= a[2]
      OBVIOUS
    <2>3. PICK p \in P : IsStep(p[1], a[1]) /\ p[2] + JudgedCost(p[1], a[1]) <= a[2]
      BY <1>5, <2>1, <2>2
    <2>4. PICK q \in Cheapest(A) : q[1] = p[1] /\ q[2] <= p[2]
      BY <1>4, <1>6, CheapestAre
    <2>5. q[2] \in Nat /\ p[2] \in Nat /\ JudgedCost(p[1], a[1]) \in Nat
      BY <1>2, <1>4, CheapestAre DEF JudgedCost
    <2> QED
      BY <2>1, <2>3, <2>4, <2>5
  <1>8. Cheapest(A) \subseteq Tiles \X Nat
    BY <1>4, CheapestAre
  <1> QED
    BY <1>1, <1>7, <1>8 DEF Certified

LEMMA LeastCertified ==
    ASSUME map \in Maps, call.start \in Tiles
    PROVE  Certified(LeastCosts)
  <1>1. map.width \in Nat /\ map.height \in Nat
    BY TilesType
  <1>2. Cardinality(Walkable) \in Nat
    <2>1. map.width - 1 \in Int /\ map.height - 1 \in Int /\ 0 \in Int
      BY <1>1
    <2>2. IsFiniteSet(Tiles)
      BY <2>1, FS_Interval, FS_Product DEF Tiles
    <2>3. IsFiniteSet(Walkable)
      BY <2>2, FS_Subset DEF Walkable
    <2> QED
      BY <2>3, FS_CardinalityType
  <1>3. PICK least : /\ least[0] = {<<call.start, 0>>}
                     /\ \A n \in Nat : least[n + 1] = OneStepMore(least[n])
                     /\ LeastCosts = least[Cardinality(Walkable)]
    BY <1>2, LeastEquation
  <1> DEFINE S == {n \in Nat : ~Certified(least[n])}
  <1>4. S = {}
    <2>1. SUFFICES ASSUME S # {} PROVE FALSE
      OBVIOUS
    <2>2. PICK n \in S : \A j \in S : n <= j
      BY <2>1, LeastNumber
    <2>3. n # 0
      BY <1>3, <2>2 DEF Certified
    <2>4. n - 1 \in Nat /\ n - 1 \notin S /\ (n - 1) + 1 = n
      BY <2>2, <2>3
    <2>5. Certified(least[n - 1]) /\ least[n] = OneStepMore(least[n - 1])
      BY <1>3, <2>4
    <2> QED
      BY <2>2, <2>5, OneMoreCertified
  <1> QED
    BY <1>2, <1>3, <1>4

----------------------------------------------------------------------------
(* The cost of a way, when a step is put in front of it.                   *)

DiagonalSteps(from, way) ==
    {i \in 1 .. Len(way) : Diagonal(IF i = 1 THEN from ELSE way[i - 1], way[i])}

LEMMA DiagonalsFinite ==
    ASSUME NEW from, NEW S, NEW way \in Seq(S)
    PROVE  /\ IsFiniteSet(DiagonalSteps(from, way))
           /\ Cardinality(DiagonalSteps(from, way)) \in Nat
  <1>1. Len(way) \in Nat /\ DiagonalSteps(from, way) \subseteq 1 .. Len(way)
    BY DEF DiagonalSteps
  <1>2. IsFiniteSet(1 .. Len(way))
    BY <1>1, FS_Interval
  <1>3. IsFiniteSet(DiagonalSteps(from, way))
    BY <1>1, <1>2, FS_Subset
  <1> QED
    BY <1>3, FS_CardinalityType

LEMMA CostOfNothing == \A from : CostOf(from, <<>>) = 0
  <1>1. \A from : {i \in 1 .. Len(<<>>) :
                     Diagonal(IF i = 1 THEN from ELSE <<>>[i - 1], <<>>[i])} = {}
    OBVIOUS
  <1> QED
    BY <1>1, FS_EmptySet DEF CostOf

LEMMA CostOfMore ==
    ASSUME NEW from, NEW S, NEW t \in S, NEW way \in Seq(S)
    PROVE  /\ CostOf(t, way) \in Nat
           /\ CostOf(from, <<t>> \o way)
                = CostOf(t, way) + (IF Diagonal(from, t) THEN 141 ELSE 100)
  <1> DEFINE D == DiagonalSteps(t, way)
             longer == <<t>> \o way
             E == DiagonalSteps(from, longer)
             F == {i + 1 : i \in D}
             f == [i \in D |-> i + 1]
  <1>1. /\ longer \in Seq(S) /\ Len(way) \in Nat /\ Len(longer) = Len(way) + 1 /\ longer[1] = t
        /\ \A i \in 1 .. Len(way) : longer[i + 1] = way[i]
    OBVIOUS
  <1>2. D \subseteq 1 .. Len(way) /\ IsFiniteSet(D) /\ Cardinality(D) \in Nat
    BY DiagonalsFinite DEF DiagonalSteps
  <1> HIDE DEF longer
  <1>3. ASSUME NEW i \in 1 .. Len(way) PROVE i + 1 \in E <=> i \in D
    <2>1. i + 1 \in 1 .. Len(longer) /\ i + 1 # 1 /\ (i + 1) - 1 = i /\ longer[i + 1] = way[i]
      BY <1>1
    <2>2. longer[i] = IF i = 1 THEN t ELSE way[i - 1]
      <3>1. CASE i = 1
        BY <1>1, <3>1
      <3>2. CASE i # 1
        <4>1. i - 1 \in 1 .. Len(way) /\ (i - 1) + 1 = i
          BY <1>1, <3>2
        <4> QED
          BY <1>1, <3>2, <4>1
      <3> QED
        BY <3>1, <3>2
    <2> QED
      BY <2>1, <2>2 DEF DiagonalSteps
  <1>4. 1 \in E <=> Diagonal(from, t)
    BY <1>1 DEF DiagonalSteps
  <1>5. E \subseteq 1 .. Len(way) + 1
    BY <1>1 DEF DiagonalSteps
  <1> HIDE DEF D, E
  <1>6. E = F \cup (IF Diagonal(from, t) THEN {1} ELSE {})
    <2>1. \A i \in E : i = 1 \/ (i - 1 \in 1 .. Len(way) /\ (i - 1) + 1 = i)
      BY <1>1, <1>5
    <2>2. \A i \in E : i = 1 \/ i \in F
      BY <1>3, <2>1
    <2>3. F \subseteq E
      BY <1>2, <1>3
    <2> QED
      BY <1>4, <2>2, <2>3
  <1>7. f \in Bijection(D, F)
    <2>1. f \in [D -> F] /\ \A i, j \in D : f[i] = f[j] => i = j
      BY <1>2
    <2>2. \A k \in F : \E i \in D : f[i] = k
      OBVIOUS
    <2> QED
      BY <2>1, <2>2 DEF Bijection, Injection, Surjection, IsInjective
  <1>8. IsFiniteSet(F) /\ Cardinality(F) = Cardinality(D)
    <2>1. ExistsBijection(D, F)
      BY <1>7 DEF ExistsBijection
    <2> QED
      BY <1>2, <2>1, FS_Bijection
  <1> HIDE DEF F
  <1>9. Cardinality(E) = Cardinality(D) + (IF Diagonal(from, t) THEN 1 ELSE 0)
    <2>1. 1 \notin F
      BY <1>2 DEF F
    <2>2. CASE Diagonal(from, t)
      <3>1. E = F \cup {1}
        BY <1>6, <2>2
      <3> QED
        BY <1>8, <2>1, <2>2, <3>1, FS_AddElement
    <2>3. CASE ~Diagonal(from, t)
      <3>1. E = F
        BY <1>6, <2>3
      <3> QED
        BY <1>2, <1>8, <2>3, <3>1
    <2> QED
      BY <2>2, <2>3
  <1>10. CostOf(t, way) = 100 * Len(way) + 41 * Cardinality(D)
    BY DEF CostOf, D, DiagonalSteps
  <1>11. CostOf(from, longer) = 100 * Len(longer) + 41 * Cardinality(E)
    BY DEF CostOf, E, DiagonalSteps
  <1> QED
    BY <1>1, <1>2, <1>9, <1>10, <1>11 DEF longer

----------------------------------------------------------------------------
(* What a search knows of the costs.                                       *)

WithinLimit(cost) == call.maxCost > 0 => cost <= call.maxCost * 100

\* What a path may cost less than the search counts for its last step, which it counts
\* whether or not the heuristic lacked the defect.
Defect(t, u) == IF Diagonal(t, u) THEN 0 ELSE 1

\* The cost of a tile is that of its parent and of the step from there.
Adds(t) == Gcost[t] = Gcost[parent[t]] + StepCost(parent[t], t)

Counted ==
    \A t \in Closed \cup Opened \cup (IF foundPath THEN {call.dest} ELSE {}) :
        t # call.start => Adds(t) /\ WithinLimit(Gcost[t])

\* Every step out of a closed tile has been looked at.
Reached ==
    \A t \in Closed : \A u \in Tiles :
        IsStep(t, u) /\ WithinLimit(NewCost(t, u)) =>
            u \in Closed \/ (u \in Opened /\ Gcost[u] <= NewCost(t, u))

Total(t) == Gcost[t] + Hcost(t)

\* An open tile is in the queue with the cost it has now; the higher costs it had before are
\* still there, too.
Queued ==
    /\ \A u \in Opened : [tile |-> u, tileCost |-> Total(u)] \in openList
    /\ \A l \in openList : l.tile \in Opened => Total(l.tile) <= l.tileCost

\* No way to a closed tile costs less than the tile, even as the search may misjudge it.
Near ==
    \A P \in SUBSET (Tiles \X Nat) :
        Certified(P) => \A p \in P : p[1] \in Closed => Gcost[p[1]] <= p[2]

\* None to the destination costs less than it, except by the defect of its last step.
Seen ==
    \A P \in SUBSET (Tiles \X Nat) :
        Certified(P) =>
            \A p \in P : p[1] = call.dest =>
                Gcost[call.dest] <= p[2] + Defect(parent[call.dest], call.dest)

SearchCosts ==
    /\ Gcost[call.start] = 0
    /\ Counted
    /\ ~foundPath => Reached
    /\ Queued
    /\ Near
    /\ foundPath => Seen

\* From where the extraction has got to, the parents lead on over tiles whose costs add up.
CountedWay ==
    \E C \in SUBSET Tiles :
        /\ position \in C
        /\ \A t \in C : t # call.start => parent[t] \in C /\ Adds(t)

ExtractCosts ==
    /\ Gcost[call.start] = 0
    /\ Seen
    /\ CountedWay
    /\ path # <<>> =>
         CostOf(position, path) + Gcost[position] + Defect(parent[call.dest], call.dest)
            <= Gcost[call.dest]

Costs ==
    /\ pc = "search" => SearchCosts
    /\ pc = "extract" => ExtractCosts

LEMMA LowerWithin ==
    ASSUME TypeOK, NEW a \in Nat, NEW b \in Nat, a <= b, WithinLimit(b)
    PROVE  WithinLimit(a)
  <1>1. call.maxCost \in Nat
    BY DEF TypeOK, CallArguments
  <1>2. PICK m \in Nat : m = call.maxCost
    BY <1>1
  <1> QED
    BY <1>2 DEF WithinLimit

LEMMA TotalType ==
    ASSUME TypeOK, NEW t \in Tiles
    PROVE  Total(t) \in Nat /\ Gcost[t] \in Nat /\ Hcost(t) \in Nat
  <1>1. Gcost[t] \in Nat /\ Hcost(t) \in Nat
    BY CostsAreNumbers DEF TypeOK
  <1> QED
    BY <1>1 DEF Total

LEMMA CertifiedKept ==
    ASSUME UNCHANGED <<map, blockmask, call>>
    PROVE  \A P : Certified(P)' <=> Certified(P)
  BY StepsKept DEF Certified, JudgedCost, Diagonal

\* Each way, to a tile that is not closed yet and within the limit, passes a tile from which the
\* search will go on, at no higher a total cost than the way's.
LEMMA FrontierNear ==
    ASSUME IInv, Costs, Searching, NEW P \in SUBSET (Tiles \X Nat), Certified(P),
           NEW p \in P, p[1] \notin Closed, WithinLimit(p[2])
    PROVE  \E x \in Opened \cup ({call.start} \ Closed) :
             x \in Tiles /\ Total(x) <= p[2] + Hcost(p[1])
  <1>1. TypeOK /\ Tree /\ SearchCosts /\ Reached
    BY DEF IInv, Costs, SearchCosts, Searching
  <1>2. \A q \in P : q[1] \in Tiles /\ q[2] \in Nat /\ Hcost(q[1]) \in Nat
    BY <1>1, CostsAreNumbers
  <1> DEFINE S == {q \in P : /\ q[1] \notin Closed /\ q[2] <= p[2]
                             /\ q[2] + Hcost(q[1]) <= p[2] + Hcost(p[1])}
             C == {q[2] : q \in S}
  <1>3. PICK q \in S : \A r \in S : q[2] <= r[2]
    <2>1. p \in S
      BY <1>2
    <2>2. C \in SUBSET Nat /\ C # {}
      BY <1>2, <2>1
    <2>3. PICK c \in C : \A d \in C : c <= d
      BY <2>2, LeastNumber
    <2> QED
      BY <2>3
  <1>4. CASE q = <<call.start, 0>>
    <2>1. call.start \notin Closed /\ call.start \in Tiles
      BY <1>1, <1>3, <1>4 DEF Tree
    <2>2. Total(call.start) = q[2] + Hcost(q[1])
      BY <1>1, <1>2, <1>3, <1>4 DEF SearchCosts, Total
    <2> QED
      BY <1>3, <2>1, <2>2
  <1>5. ASSUME NEW r \in P, IsStep(r[1], q[1]), r[2] + JudgedCost(r[1], q[1]) <= q[2]
        PROVE  q[1] \in Opened /\ Total(q[1]) <= q[2] + Hcost(q[1])
    <2>1. q[1] \in Neighbours(r[1])
      BY <1>5 DEF IsStep
    <2>2. Hcost(r[1]) <= Hcost(q[1]) + JudgedCost(r[1], q[1])
      BY <1>1, <1>2, <2>1, HeuristicStep
    <2>3. /\ JudgedCost(r[1], q[1]) \in Nat \ {0}
          /\ StepCost(r[1], q[1]) \in Nat /\ StepCost(r[1], q[1]) <= JudgedCost(r[1], q[1])
      BY DEF JudgedCost, StepCost
    <2>4. PICK j \in Nat \ {0}, s \in Nat :
              j = JudgedCost(r[1], q[1]) /\ s = StepCost(r[1], q[1]) /\ s <= j
      BY <2>3
    <2>5. PICK hr \in Nat, hq \in Nat, hp \in Nat :
              hr = Hcost(r[1]) /\ hq = Hcost(q[1]) /\ hp = Hcost(p[1])
      BY <1>2, <1>3
    <2>6. /\ r[2] \in Nat /\ q[2] \in Nat /\ p[2] \in Nat
          /\ hr <= hq + j /\ r[2] + j <= q[2] /\ q[2] <= p[2] /\ q[2] + hq <= p[2] + hp
      BY <1>2, <1>3, <1>5, <2>2, <2>4, <2>5
    <2>7. r[2] <= p[2] /\ r[2] + hr <= p[2] + hp /\ ~(q[2] <= r[2])
      BY ONLY <2>4, <2>5, <2>6
    <2>8. r[1] \in Closed
      BY <1>3, <2>5, <2>7
    <2>9. Gcost[r[1]] <= r[2] /\ Gcost[r[1]] \in Nat /\ Gcost[q[1]] \in Nat
      BY <1>1, <1>2, <1>3, <2>8 DEF SearchCosts, Near, TypeOK
    <2>10. NewCost(r[1], q[1]) = Gcost[r[1]] + s
      BY <2>4 DEF NewCost
    <2>11. NewCost(r[1], q[1]) <= q[2] /\ NewCost(r[1], q[1]) <= p[2]
           /\ NewCost(r[1], q[1]) \in Nat
      BY <2>4, <2>6, <2>9, <2>10
    <2>12. WithinLimit(NewCost(r[1], q[1]))
      BY <1>1, <2>6, <2>11, LowerWithin
    <2>13. q[1] \in Opened /\ Gcost[q[1]] <= NewCost(r[1], q[1])
      BY <1>1, <1>2, <1>3, <1>5, <2>8, <2>12 DEF Reached
    <2> QED
      BY <2>5, <2>6, <2>9, <2>11, <2>13 DEF Total
  <1>6. CASE q # <<call.start, 0>>
    <2>1. PICK r \in P : IsStep(r[1], q[1]) /\ r[2] + JudgedCost(r[1], q[1]) <= q[2]
      BY <1>3, <1>6 DEF Certified
    <2>2. q[1] \in Opened /\ Total(q[1]) <= q[2] + Hcost(q[1])
      BY <1>5, <2>1
    <2>3. Total(q[1]) \in Nat
      BY <1>1, <1>2, <1>3, TotalType
    <2> QED
      BY <1>2, <1>3, <2>2, <2>3
  <1> QED
    BY <1>4, <1>6

\* So does the tile that is taken from the queue.
LEMMA LowestNear ==
    ASSUME IInv, Costs, Searching, NEW l \in Lowest, l.tile \notin Closed,
           NEW P \in SUBSET (Tiles \X Nat), Certified(P),
           NEW p \in P, p[1] \notin Closed, WithinLimit(p[2])
    PROVE  Total(l.tile) <= p[2] + Hcost(p[1])
  <1>1. TypeOK /\ Tree /\ SearchCosts
    BY DEF IInv, Costs, Searching
  <1>2. PICK x \in Opened \cup ({call.start} \ Closed) :
            x \in Tiles /\ Total(x) <= p[2] + Hcost(p[1])
    BY FrontierNear
  <1>3. CASE NotBegun
    BY <1>2, <1>3 DEF NotBegun, Lowest
  <1>4. CASE Begun
    <2>1. x \in Opened /\ l \in openList /\ l.tile \in Opened
      BY <1>1, <1>2, <1>4 DEF Begun, Tree, Lowest
    <2>2. PICK k \in openList : k = [tile |-> x, tileCost |-> Total(x)]
      BY <1>1, <2>1 DEF SearchCosts, Queued
    <2>3. l.tileCost <= Total(x)
      BY <2>2 DEF Lowest
    <2>4. Total(l.tile) <= l.tileCost
      BY <1>1, <2>1 DEF SearchCosts, Queued
    <2>5. l.tile \in Tiles /\ l.tileCost \in Nat
      BY <1>1, <2>1 DEF TypeOK
    <2>6. Total(l.tile) \in Nat /\ Total(x) \in Nat /\ p[2] \in Nat /\ Hcost(p[1]) \in Nat
      BY <1>1, <1>2, <2>5, TotalType
    <2> QED
      BY <1>2, <2>3, <2>4, <2>5, <2>6
  <1> QED
    BY <1>1, <1>3, <1>4 DEF Tree

----------------------------------------------------------------------------
(* Every step keeps what is known of the costs.                            *)

LEMMA FindPathCosts == IInv /\ FindPath => Costs'
  <1> SUFFICES ASSUME IInv, FindPath PROVE Costs'
    OBVIOUS
  <1>1. PICK c \in Coming :
            /\ Called(c) /\ Searchable(c)
            /\ Gcost' = [Gcost EXCEPT ![c.start] = 0]
            /\ openList' = {[tile |-> c.start, tileCost |-> 0]}
    BY DEF FindPath
  <1>2. Tiles' = Tiles /\ c.start \in Tiles /\ call' = c
    BY <1>1 DEF Called, Tiles, Searchable
  <1>3. Closed' = {} /\ Opened' = {}
    BY <1>1, <1>2 DEF IInv, TypeOK, Numbers, FindPath, Called, lists, Closed, Opened
  <1>4. Gcost'[call'.start] = 0
    BY <1>1, <1>2 DEF IInv, TypeOK
  <1>5. ~foundPath' /\ pc' = "search"
    BY DEF FindPath
  <1>6. Counted' /\ Reached'
    BY <1>3, <1>5 DEF Counted, Reached
  <1>7. Near'
    BY <1>3 DEF Near
  <1>8. Queued'
    BY <1>3 DEF Queued
  <1> QED
    BY <1>4, <1>5, <1>6, <1>7, <1>8 DEF Costs, SearchCosts

LEMMA SkipCosts == IInv /\ Costs /\ Skip => Costs'
  <1> SUFFICES ASSUME IInv, Costs, Skip PROVE Costs'
    OBVIOUS
  <1>1. PICK l \in openList : whichList[l.tile] = mOnClosedList /\ openList' = openList \ {l}
    BY DEF Skip, Lowest
  <1>2. UNCHANGED <<map, blockmask, call>> /\ UNCHANGED <<whichList, Gcost, parent>>
        /\ UNCHANGED <<mOnClosedList, mOnOpenList, foundPath, pc>>
    BY DEF Skip, tiles, lists
  <1>3. Tiles' = Tiles /\ Closed' = Closed /\ Opened' = Opened
        /\ (\A t, u : IsStep(t, u)' <=> IsStep(t, u)) /\ (\A P : Certified(P)' <=> Certified(P))
    BY <1>2, StepsKept, CertifiedKept DEF Closed, Opened, Tiles
  <1>4. pc = "search" /\ SearchCosts /\ ~foundPath
    BY DEF Costs, Skip, Searching
  <1>5. l.tile \notin Opened
    BY <1>1 DEF IInv, TypeOK, Opened
  <1>6. Counted' /\ Reached'
    BY <1>2, <1>3, <1>4
       DEF SearchCosts, Counted, Adds, StepCost, Diagonal, WithinLimit, Reached, NewCost
  <1>7. Near'
    BY <1>2, <1>3, <1>4 DEF SearchCosts, Near
  <1>8. \A u : Total(u)' = Total(u)
    BY <1>2 DEF Total, Hcost
  <1>9. Queued'
    <2>1. ASSUME NEW u \in Opened PROVE [tile |-> u, tileCost |-> Total(u)] \in openList'
      BY <1>1, <1>4, <1>5, <2>1 DEF SearchCosts, Queued
    <2>2. \A k \in openList' : k.tile \in Opened => Total(k.tile) <= k.tileCost
      BY <1>1, <1>4 DEF SearchCosts, Queued
    <2> QED
      BY <1>3, <1>8, <2>1, <2>2 DEF Queued
  <1> QED
    BY <1>2, <1>4, <1>6, <1>7, <1>9 DEF Costs, SearchCosts

LEMMA ExpandCosts == IInv /\ Costs /\ Expand => Costs'
  <1> SUFFICES ASSUME IInv, Costs, Expand PROVE Costs'
    OBVIOUS
  <1>1. PICK l \in openList, t \in Tiles, improved \in SUBSET Tiles : Pass(l, t, improved)
    BY ExpandEffect
  <1>2. UNCHANGED <<map, blockmask, call>> /\ UNCHANGED <<mOnClosedList, mOnOpenList, pc>>
    BY DEF Expand, lists
  <1>3. Tiles' = Tiles /\ (\A v, u : IsStep(v, u)' <=> IsStep(v, u))
        /\ (\A P : Certified(P)' <=> Certified(P))
    BY <1>2, StepsKept, CertifiedKept
  <1>4. pc = "search" /\ Tree /\ ~foundPath /\ TypeOK /\ Searchable(call) /\ Searching
        /\ SearchCosts /\ Reached /\ Counted /\ Queued /\ Near
    BY DEF IInv, TypeOK, Expand, Searching, Costs, SearchCosts
  <1>5. /\ l \in Lowest /\ t = l.tile /\ t \notin Closed
        /\ t \notin improved /\ improved \cap Closed = {}
        /\ Closed' = Closed \cup {t}
        /\ Opened' = (Opened \ {t}) \cup (improved \ {call.dest})
        /\ foundPath' = (call.dest \in improved)
    BY <1>1 DEF Pass
  <1>6. /\ \A u \in improved : Gcost'[u] = NewCost(t, u) /\ parent'[u] = t
        /\ \A u \in Tiles \ improved : Gcost'[u] = Gcost[u] /\ parent'[u] = parent[u]
    BY <1>1 DEF Pass
  <1>7. \A u \in improved :
            /\ IsStep(t, u) /\ WithinLimit(NewCost(t, u)) /\ NewCost(t, u) \in Nat
            /\ u \notin Opened \/ NewCost(t, u) < Gcost[u]
    <2>1. \A u \in improved : u \in Neighbours(t) /\ CanEnter(t, u)
      BY <1>1 DEF Pass, Improved
    <2>2. \A u \in improved : IsStep(t, u) /\ NewCost(t, u) \in Nat
      BY <1>4, <2>1, EntersAreSteps, CostsAreNumbers DEF TypeOK
    <2> QED
      BY <1>1, <2>2 DEF Pass, Improved, WithinLimit, Opened
  <1>8. call.start \notin improved /\ call.start \in Closed' /\ call.start \in Tiles
    BY <1>4, <1>5 DEF Tree, Begun, NotBegun
  <1>9. Gcost'[call.start] = 0
    BY <1>4, <1>6, <1>8 DEF SearchCosts
  <1>10. Counted'
    <2>1. ASSUME NEW u \in Closed \cup Opened \cup {t} \cup improved, u # call.start
          PROVE  /\ Gcost'[u] = Gcost'[parent'[u]] + StepCost(parent'[u], u)
                 /\ WithinLimit(Gcost'[u])
      <3>1. CASE u \in improved
        BY <1>5, <1>6, <1>7, <3>1 DEF NewCost
      <3>2. CASE u \notin improved
        <4>1. u \in Closed \cup Opened /\ u \in Tiles
          BY <1>4, <1>5, <2>1, <3>2 DEF Tree, Closed, Opened
        <4>2. parent[u] \in Closed /\ Adds(u) /\ WithinLimit(Gcost[u])
          BY <1>4, <2>1, <4>1 DEF Tree, Parents, Counted
        <4>3. parent[u] \in Tiles \ improved
          BY <1>5, <4>2 DEF Closed
        <4> QED
          BY <1>6, <3>2, <4>1, <4>2, <4>3 DEF Adds
      <3> QED
        BY <3>1, <3>2
    <2>2. Closed' \cup Opened' \cup (IF foundPath' THEN {call.dest} ELSE {})
            \subseteq Closed \cup Opened \cup {t} \cup improved
      BY <1>5
    <2> QED
      BY <1>2, <2>1, <2>2 DEF Counted, Adds, WithinLimit
  <1>11. ASSUME ~foundPath' PROVE Reached'
    <2>1. ASSUME NEW v \in Closed', NEW u \in Tiles, IsStep(v, u),
                 WithinLimit(Gcost'[v] + StepCost(v, u))
          PROVE  u \in Closed' \/ (u \in Opened' /\ Gcost'[u] <= Gcost'[v] + StepCost(v, u))
      <3>1. v \in Tiles /\ Gcost'[v] = Gcost[v] /\ Gcost'[v] + StepCost(v, u) = NewCost(v, u)
        BY <1>5, <1>6, <2>1 DEF Closed, NewCost
      <3>2. SUFFICES ASSUME u \notin Closed'
                     PROVE  u \in Opened' /\ Gcost'[u] <= NewCost(v, u)
        BY <3>1
      <3>3. NewCost(v, u) \in Nat /\ NewCost(t, u) \in Nat /\ Gcost[u] \in Nat
        BY <1>4, <3>1, CostsAreNumbers, TotalType
      <3>4. CASE v \in Closed
        <4>1. u \in Opened /\ Gcost[u] <= NewCost(v, u)
          BY <1>4, <1>5, <2>1, <3>1, <3>2, <3>4 DEF Reached
        <4>2. Gcost'[u] <= Gcost[u]
          BY <1>6, <1>7, <3>3, <4>1
        <4>3. Gcost'[u] \in Nat
          BY <1>6, <1>7, <3>3
        <4> QED
          BY <1>5, <3>2, <3>3, <4>1, <4>2, <4>3
      <3>5. CASE v = t
        <4>1. u \in Neighbours(t) /\ CanEnter(t, u)
          BY <1>4, <2>1, <3>5, EntersAreSteps DEF TypeOK, IsStep
        <4>2. CASE u \in improved
          <5>1. u \in Opened'
            BY <1>5, <1>11, <4>2
          <5>2. Gcost'[u] = NewCost(t, u)
            BY <1>6, <4>2
          <5> QED
            BY <3>3, <3>5, <5>1, <5>2
        <4>3. CASE u \notin improved
          <5>1. whichList[u] # mOnClosedList
            BY <1>5, <3>2 DEF Closed
          <5>2. whichList[u] = mOnOpenList /\ ~(NewCost(t, u) < Gcost[u])
            BY <1>1, <2>1, <3>1, <3>5, <4>1, <4>3, <5>1 DEF Pass, Improved, WithinLimit
          <5>3. u \in Opened /\ u # t
            BY <1>5, <3>2, <5>2 DEF Opened
          <5> QED
            BY <1>5, <1>6, <3>3, <3>5, <4>3, <5>2, <5>3
        <4> QED
          BY <4>2, <4>3
      <3> QED
        BY <1>5, <2>1, <3>4, <3>5
    <2> QED
      BY <1>2, <1>3, <2>1 DEF Reached, NewCost, WithinLimit
  <1>12. Queued'
    <2>1. /\ \A u \in improved : Total(u)' = NewCost(t, u) + Hcost(u)
          /\ \A u \in Tiles \ improved : Total(u)' = Total(u)
      BY <1>2, <1>6 DEF Total, Hcost
    <2>2. openList' = (openList \ {l}) \cup
              {[tile |-> u, tileCost |-> NewCost(t, u) + Hcost(u)]
                  : u \in improved \ {call.dest}}
      BY <1>1 DEF Pass
    <2>3. ASSUME NEW u \in Opened' PROVE [tile |-> u, tileCost |-> Total(u)'] \in openList'
      <3>1. CASE u \in improved
        <4>1. u \in improved \ {call.dest}
          BY <1>4, <1>5, <2>3, <3>1 DEF Tree
        <4> QED
          BY <2>1, <2>2, <4>1
      <3>2. CASE u \notin improved
        <4>1. u \in Opened /\ u # t /\ u \in Tiles
          BY <1>5, <2>3, <3>2 DEF Opened
        <4>2. [tile |-> u, tileCost |-> Total(u)] \in openList
          BY <1>4, <4>1 DEF Queued
        <4>3. [tile |-> u, tileCost |-> Total(u)] # l
          BY <1>5, <4>1
        <4> QED
          BY <2>1, <2>2, <3>2, <4>1, <4>2, <4>3
      <3> QED
        BY <3>1, <3>2
    <2>4. ASSUME NEW k \in openList', k.tile \in Opened'
          PROVE  Total(k.tile)' <= k.tileCost
      <3>1. CASE k \in openList
        <4>1. k.tile \in Tiles /\ k.tileCost \in Nat
          BY <1>4, <3>1 DEF TypeOK
        <4>2. CASE k.tile \in Opened
          <5>1. Total(k.tile) <= k.tileCost
            BY <1>4, <3>1, <4>2 DEF Queued
          <5>2. Gcost[k.tile] \in Nat /\ Hcost(k.tile) \in Nat /\ Total(k.tile) \in Nat
            BY <1>4, <4>1, TotalType
          <5>3. CASE k.tile \in improved
            <6>1. NewCost(t, k.tile) < Gcost[k.tile] /\ NewCost(t, k.tile) \in Nat
              BY <1>7, <4>2, <5>3
            <6>2. Total(k.tile)' = NewCost(t, k.tile) + Hcost(k.tile)
              BY <2>1, <5>3
            <6> QED
              BY <4>1, <5>1, <5>2, <6>1, <6>2 DEF Total
          <5>4. CASE k.tile \notin improved
            BY <2>1, <4>1, <5>1, <5>4
          <5> QED
            BY <5>3, <5>4
        <4>3. CASE k.tile \notin Opened
          <5>1. k.tile \in Closed \cup {call.start}
            BY <1>4, <3>1, <4>3 DEF Tree
          <5>2. k.tile \notin improved
            BY <1>5, <1>8, <5>1
          <5> QED
            BY <1>5, <2>4, <4>3, <5>2
        <4> QED
          BY <4>2, <4>3
      <3>2. CASE k \notin openList
        <4>1. PICK u \in improved \ {call.dest} :
                  k = [tile |-> u, tileCost |-> NewCost(t, u) + Hcost(u)]
          BY <2>2, <2>4, <3>2
        <4>2. k.tile = u /\ k.tileCost = NewCost(t, u) + Hcost(u) /\ k.tileCost \in Nat
          BY <1>4, <1>7, <4>1, TotalType
        <4> QED
          BY <2>1, <4>1, <4>2
      <3> QED
        BY <3>1, <3>2
    <2> QED
      BY <2>3, <2>4 DEF Queued
  <1>13. ASSUME NEW P \in SUBSET (Tiles \X Nat), Certified(P), NEW p \in P, p[1] = t
         PROVE  Gcost[t] <= p[2]
    <2>1. p[2] \in Nat /\ Gcost[t] \in Nat /\ Hcost(t) \in Nat /\ call.maxCost \in Nat
      BY <1>4, <1>13, TotalType DEF TypeOK, CallArguments
    <2>2. CASE WithinLimit(p[2])
      <3>1. Total(t) <= p[2] + Hcost(t)
        BY <1>4, <1>5, <1>13, <2>2, LowestNear
      <3> QED
        BY <2>1, <3>1 DEF Total
    <2>3. CASE ~WithinLimit(p[2])
      <3>1. CASE t = call.start
        BY <1>4, <2>1, <3>1 DEF SearchCosts
      <3>2. CASE t # call.start
        <4>1. WithinLimit(Gcost[t])
          BY <1>4, <1>5, <3>2 DEF Tree, Counted, Lowest
        <4> QED
          BY <2>1, <2>3, <4>1 DEF WithinLimit
      <3> QED
        BY <3>1, <3>2
    <2> QED
      BY <2>2, <2>3
  <1>14. Near'
    <2>1. \A u \in Closed' : Gcost'[u] = Gcost[u]
      BY <1>5, <1>6 DEF Closed
    <2>2. ASSUME NEW P \in SUBSET (Tiles \X Nat), Certified(P), NEW p \in P, p[1] \in Closed'
          PROVE  Gcost'[p[1]] <= p[2]
      BY <1>4, <1>5, <1>13, <2>1, <2>2 DEF Near
    <2> QED
      BY <1>3, <2>2 DEF Near
  <1>15. ASSUME foundPath' PROVE Seen'
    <2> DEFINE d == call.dest
    <2>1. d \in improved /\ d \in Tiles /\ d \notin Closed
      BY <1>5, <1>15
    <2>2. Gcost'[d] = NewCost(t, d) /\ parent'[d] = t
      BY <1>6, <2>1
    <2>3. d \in Neighbours(t)
      BY <1>7, <2>1 DEF IsStep
    <2>4. Hcost(d) = 0 /\ StepCost(t, d) <= Hcost(t) + Defect(t, d)
      BY <1>4, <2>1, <2>3, HeuristicLast DEF Defect
    <2>5. ASSUME NEW P \in SUBSET (Tiles \X Nat), Certified(P), NEW p \in P, p[1] = d
          PROVE  Gcost'[d] <= p[2] + Defect(t, d)
      <3>1. /\ p[2] \in Nat /\ Gcost[t] \in Nat /\ Hcost(t) \in Nat /\ call.maxCost \in Nat
            /\ StepCost(t, d) \in Nat /\ Defect(t, d) \in Nat /\ NewCost(t, d) \in Nat
        BY <1>4, <1>7, <2>1, <2>5, TotalType DEF TypeOK, CallArguments, StepCost, Defect
      <3>2. CASE WithinLimit(p[2])
        <4>1. Total(t) <= p[2] + Hcost(d)
          BY <1>4, <1>5, <2>1, <2>5, <3>2, LowestNear
        <4>2. Gcost[t] + Hcost(t) <= p[2]
          BY <2>4, <3>1, <4>1 DEF Total
        <4>3. NewCost(t, d) = Gcost[t] + StepCost(t, d)
          BY DEF NewCost
        <4> HIDE DEF d
        <4> QED
          BY <2>2, <2>4, <3>1, <4>2, <4>3
      <3>3. CASE ~WithinLimit(p[2])
        <4>1. WithinLimit(NewCost(t, d))
          BY <1>7, <2>1
        <4>2. NewCost(t, d) <= p[2]
          BY <3>1, <3>3, <4>1 DEF WithinLimit
        <4> HIDE DEF d
        <4> QED
          BY <2>2, <3>1, <4>2
      <3> QED
        BY <3>2, <3>3
    <2> QED
      BY <1>2, <1>3, <2>2, <2>5 DEF Seen, Defect, Diagonal
  <1> QED
    BY <1>2, <1>4, <1>9, <1>10, <1>11, <1>12, <1>14, <1>15 DEF Costs, SearchCosts

LEMMA EndSearchCosts == IInv /\ Costs /\ EndSearch => Costs'
  <1> SUFFICES ASSUME IInv, Costs, EndSearch, pc' = "extract" PROVE ExtractCosts'
    BY DEF EndSearch, Costs
  <1>1. UNCHANGED <<map, blockmask, call>> /\ UNCHANGED <<Gcost, parent, foundPath, path>>
        /\ position' = call.dest /\ foundPath
    BY DEF EndSearch
  <1>2. Tiles' = Tiles /\ (\A P : Certified(P)' <=> Certified(P))
    BY <1>1, StepsKept, CertifiedKept
  <1>3. Tree /\ SearchCosts /\ path = <<>> /\ call.dest \in Tiles
    BY DEF IInv, TypeOK, EndSearch, Over, Costs, Searchable, GetWalk
  <1>4. Seen'
    BY <1>1, <1>2, <1>3 DEF SearchCosts, Seen, Defect, Diagonal
  <1>5. CountedWay'
    <2> DEFINE C == Closed \cup {call.dest}
    <2>1. C \in SUBSET Tiles /\ position' \in C
      BY <1>1, <1>3 DEF Closed
    <2>2. ASSUME NEW t \in C, t # call.start PROVE parent[t] \in C /\ Adds(t)
      BY <1>1, <1>3, <2>2 DEF Tree, Parents, SearchCosts, Counted
    <2>3. \A t : Adds(t)' <=> Adds(t)
      BY <1>1 DEF Adds, StepCost, Diagonal
    <2> HIDE DEF C
    <2> QED
      BY <1>1, <1>2, <2>1, <2>2, <2>3 DEF CountedWay
  <1> QED
    BY <1>1, <1>3, <1>4, <1>5 DEF ExtractCosts, SearchCosts

LEMMA ExtractsCosts == IInv /\ Costs /\ Extract => Costs'
  <1> SUFFICES ASSUME IInv, Costs, Extract PROVE ExtractCosts'
    BY DEF Extract, Costs
  <1>1. UNCHANGED <<map, blockmask, call>> /\ UNCHANGED <<Gcost, parent, pc>>
        /\ position # call.start /\ path' = <<position>> \o path /\ position' = parent[position]
    BY DEF Extract, tiles, search
  <1>2. Tiles' = Tiles /\ (\A P : Certified(P)' <=> Certified(P))
    BY <1>1, StepsKept, CertifiedKept
  <1>3. TypeOK /\ Extracted /\ ExtractCosts /\ call.dest \in Tiles
    BY DEF IInv, TypeOK, Extract, Costs, Searchable, GetWalk
  <1>4. Seen'
    BY <1>1, <1>2, <1>3 DEF ExtractCosts, Seen, Defect, Diagonal
  <1>5. PICK C \in SUBSET Tiles :
            /\ position \in C
            /\ \A t \in C : t # call.start => parent[t] \in C /\ Adds(t)
    BY <1>3 DEF ExtractCosts, CountedWay
  <1>6. parent[position] \in C /\ Adds(position)
    BY <1>1, <1>5
  <1>7. CountedWay'
    <2>1. \A t : Adds(t)' <=> Adds(t)
      BY <1>1 DEF Adds, StepCost, Diagonal
    <2> QED
      BY <1>1, <1>2, <1>5, <1>6, <2>1 DEF CountedWay
  <1>8. CostOf(parent[position], path') + Gcost[parent[position]]
            + Defect(parent[call.dest], call.dest) <= Gcost[call.dest]
    <2>1. /\ CostOf(position, path) \in Nat
          /\ CostOf(parent[position], path')
               = CostOf(position, path)
                   + (IF Diagonal(parent[position], position) THEN 141 ELSE 100)
      BY <1>1, <1>3, CostOfMore DEF TypeOK
    <2>2. Gcost[position] = Gcost[parent[position]] + StepCost(parent[position], position)
      BY <1>6 DEF Adds
    <2>3. /\ Gcost[position] \in Nat /\ Gcost[parent[position]] \in Nat
          /\ Gcost[call.dest] \in Nat
          /\ Defect(parent[call.dest], call.dest) \in Nat
      BY <1>3 DEF TypeOK, Defect
    <2>4. CASE path = <<>>
      <3>1. position = call.dest /\ CostOf(position, path) = 0
        BY <1>3, <2>4, CostOfNothing DEF Extracted
      <3> QED
        BY <2>1, <2>2, <2>3, <3>1 DEF StepCost, Defect
    <2>5. CASE path # <<>>
      <3>1. CostOf(position, path) + Gcost[position] + Defect(parent[call.dest], call.dest)
              <= Gcost[call.dest]
        BY <1>3, <2>5 DEF ExtractCosts
      <3> QED
        BY <2>1, <2>2, <2>3, <3>1 DEF StepCost
    <2> QED
      BY <2>4, <2>5
  <1>9. (CostOf(position, path) + Gcost[position] + Defect(parent[call.dest], call.dest)
            <= Gcost[call.dest])'
    BY <1>1, <1>8 DEF CostOf, Defect, Diagonal
  <1> QED
    BY <1>1, <1>3, <1>4, <1>7, <1>9 DEF ExtractCosts

LEMMA StutterCosts == Costs /\ UNCHANGED vars => Costs'
  <1> SUFFICES ASSUME Costs, UNCHANGED vars PROVE Costs'
    OBVIOUS
  <1>1. UNCHANGED <<map, blockmask, call>> /\ UNCHANGED <<whichList, Gcost, parent>>
        /\ UNCHANGED <<mOnClosedList, mOnOpenList, openList, foundPath>>
        /\ UNCHANGED <<path, position, pc>>
    BY DEF vars, tiles, lists, search
  <1>2. Tiles' = Tiles /\ Closed' = Closed /\ Opened' = Opened
        /\ (\A t, u : IsStep(t, u)' <=> IsStep(t, u)) /\ (\A P : Certified(P)' <=> Certified(P))
    BY <1>1, StepsKept, CertifiedKept DEF Closed, Opened, Tiles
  <1>3. /\ \A t : Adds(t)' <=> Adds(t)
        /\ \A t : Total(t)' = Total(t)
        /\ \A t, u : NewCost(t, u)' = NewCost(t, u)
        /\ \A c : WithinLimit(c)' <=> WithinLimit(c)
    BY <1>1 DEF Adds, StepCost, Diagonal, Total, Hcost, NewCost, WithinLimit
  <1>4. (Counted <=> Counted') /\ (Reached <=> Reached') /\ (Queued <=> Queued')
    BY <1>1, <1>2, <1>3 DEF Counted, Reached, Queued
  <1>5. (Near <=> Near') /\ (Seen <=> Seen')
    BY <1>1, <1>2 DEF Near, Seen, Defect, Diagonal
  <1>6. CountedWay <=> CountedWay'
    BY <1>1, <1>2, <1>3 DEF CountedWay
  <1>7. (SearchCosts <=> SearchCosts') /\ (ExtractCosts <=> ExtractCosts')
    BY <1>1, <1>4, <1>5, <1>6 DEF SearchCosts, ExtractCosts, CostOf, Defect, Diagonal
  <1> QED
    BY <1>1, <1>7 DEF Costs

LEMMA CostsHold == Spec => [](IInv /\ Costs)
  <1>1. Init => Costs
    BY DEF Init, Costs
  <1>2. IInv /\ Costs /\ [Next]_vars => Costs'
    <2>1. SetTilesType \/ FindNothing \/ Return => Costs'
      BY DEF SetTilesType, FindNothing, Called, Return, Costs
    <2> QED
      BY <2>1, FindPathCosts, SkipCosts, ExpandCosts, EndSearchCosts, ExtractsCosts,
         StutterCosts DEF Next, FindsPath, Running
  <1> QED
    BY Inductive, <1>1, <1>2, PTL DEF Spec

----------------------------------------------------------------------------
\* The path is no longer than any certified way to the destination is judged to be.
LEMMA ReturnedNear ==
    ASSUME IInv, Costs, Returning, NEW P \in SUBSET (Tiles \X Nat), Certified(P),
           NEW p \in P, p[1] = call.dest
    PROVE  CostOf(call.start, path) <= p[2]
  <1>1. TypeOK /\ Extracted /\ ExtractCosts /\ position = call.start
        /\ call.start \in Tiles /\ call.dest \in Tiles
    BY DEF IInv, TypeOK, Costs, Returning, Searchable, GetWalk
  <1>2. Gcost[call.dest] <= p[2] + Defect(parent[call.dest], call.dest) /\ p[2] \in Nat
    BY <1>1 DEF ExtractCosts, Seen
  <1>3. /\ Gcost[call.start] = 0
        /\ CostOf(call.start, path) + 0 + Defect(parent[call.dest], call.dest)
             <= Gcost[call.dest]
    BY <1>1 DEF Extracted, ExtractCosts
  <1>4. CostOf(call.start, path) \in Nat
    BY <1>1, CostOfMore DEF TypeOK
  <1>5. Gcost[call.dest] \in Nat /\ Defect(parent[call.dest], call.dest) \in Nat
    BY <1>1 DEF TypeOK, Defect
  <1> QED
    BY <1>2, <1>3, <1>4, <1>5

\* When the search gives up every certified way is judged to exceed the limit.
LEMMA GivenUpBeyond ==
    ASSUME IInv, Costs, Over, ~foundPath, call.start # call.dest,
           NEW P \in SUBSET (Tiles \X Nat), Certified(P), NEW p \in P, p[1] = call.dest
    PROVE  call.maxCost > 0 /\ p[2] > call.maxCost * 100
  <1>1. TypeOK /\ Tree /\ openList = {} /\ Searching
    BY DEF IInv, Over, Searching
  <1>2. Opened = {} /\ call.start \in Closed /\ call.dest \notin Closed
    BY <1>1 DEF Tree, NotBegun, Begun, Frontier
  <1>3. ~WithinLimit(p[2])
    BY <1>1, <1>2, FrontierNear
  <1>4. p[2] \in Nat /\ call.maxCost \in Nat
    BY <1>1 DEF TypeOK, CallArguments
  <1> QED
    BY <1>3, <1>4 DEF WithinLimit

\* Whatever the map, the calls and what earlier searches left on the tiles: the path that
\* Map::findPath returns costs no more than any other way, if each straight step of that one
\* cost 101 and each diagonal one 142.  Neither the defect nor the heuristic, neither the
\* closed tiles that are not opened again nor the early end do more harm than that.
THEOREM PathsNearlyShortest == Spec => []NearlyShortest
  <1>1. IInv /\ Costs => NearlyShortest
    <2> SUFFICES ASSUME IInv, Costs, Returning, NEW p \in LeastCosts, p[1] = call.dest
                 PROVE  CostOf(call.start, path) <= p[2]
      BY DEF NearlyShortest
    <2>1. Certified(LeastCosts)
      BY LeastCertified DEF IInv, TypeOK, Returning, Searchable
    <2> QED
      BY <2>1, ReturnedNear DEF Certified
  <1> QED
    BY CostsHold, <1>1, PTL

\* Whenever Map::findPath gives up there is no way to the destination, or the call has a
\* maximal cost and every way costs more, if a straight step cost 101 and a diagonal one 142.
THEOREM MissesNothing == Spec => []NothingMissed
  <1>1. IInv /\ Costs => NothingMissed
    <2> SUFFICES ASSUME IInv, Costs, Over, ~foundPath, call.start # call.dest,
                        NEW p \in LeastCosts, p[1] = call.dest
                 PROVE  call.maxCost > 0 /\ p[2] > call.maxCost * 100
      BY DEF NothingMissed
    <2>1. Certified(LeastCosts)
      BY LeastCertified DEF IInv, TypeOK, Over, Searchable
    <2> QED
      BY <2>1, GivenUpBeyond DEF Certified
  <1> QED
    BY CostsHold, <1>1, PTL

----------------------------------------------------------------------------
(* The same for each way by itself, without the recursive definition.      *)

Before(from, way, i) == IF i = 1 THEN from ELSE way[i - 1]

IsWay(from, way) ==
    way # <<>> /\ \A i \in 1 .. Len(way) : IsStep(Before(from, way, i), way[i])

\* What the first steps of a way cost, as the search may misjudge them.
JudgedUpTo(from, way, n) ==
    101 * n + 41 * Cardinality({i \in 1 .. n : Diagonal(Before(from, way, i), way[i])})

LEMMA JudgedStep ==
    ASSUME NEW from, NEW way, NEW n \in Nat
    PROVE  /\ JudgedUpTo(from, way, 0) = 0
           /\ JudgedUpTo(from, way, n) \in Nat
           /\ JudgedUpTo(from, way, n + 1)
                = JudgedUpTo(from, way, n) + JudgedCost(Before(from, way, n + 1), way[n + 1])
  <1> DEFINE D(m) == {i \in 1 .. m : Diagonal(Before(from, way, i), way[i])}
  <1>1. \A m \in Nat : IsFiniteSet(D(m)) /\ Cardinality(D(m)) \in Nat
    <2> SUFFICES ASSUME NEW m \in Nat PROVE IsFiniteSet(D(m)) /\ Cardinality(D(m)) \in Nat
      OBVIOUS
    <2>1. IsFiniteSet(1 .. m) /\ D(m) \subseteq 1 .. m
      BY FS_Interval
    <2> QED
      BY <2>1, FS_Subset, FS_CardinalityType
  <1>2. D(0) = {}
    OBVIOUS
  <1>3. Cardinality(D(0)) = 0
    BY <1>2, FS_EmptySet
  <1>4. n + 1 \notin D(n)
    OBVIOUS
  <1>5. Cardinality(D(n + 1))
          = Cardinality(D(n))
              + (IF Diagonal(Before(from, way, n + 1), way[n + 1]) THEN 1 ELSE 0)
    <2>1. 1 .. n + 1 = (1 .. n) \cup {n + 1}
      OBVIOUS
    <2>2. CASE Diagonal(Before(from, way, n + 1), way[n + 1])
      <3>1. D(n + 1) = D(n) \cup {n + 1}
        BY <2>1, <2>2
      <3> HIDE DEF D
      <3> QED
        BY <1>1, <1>4, <2>2, <3>1, FS_AddElement
    <2>3. CASE ~Diagonal(Before(from, way, n + 1), way[n + 1])
      <3>1. D(n + 1) = D(n)
        BY <2>1, <2>3
      <3> HIDE DEF D
      <3> QED
        BY <1>1, <2>3, <3>1
    <2> QED
      BY <2>2, <2>3
  <1>6. \A m \in Nat : JudgedUpTo(from, way, m) = 101 * m + 41 * Cardinality(D(m))
    BY DEF JudgedUpTo
  <1> HIDE DEF D
  <1>7. Cardinality(D(n)) \in Nat /\ n + 1 \in Nat
    BY <1>1
  <1>8. JudgedUpTo(from, way, 0) = 0 /\ JudgedUpTo(from, way, n) \in Nat
    BY <1>3, <1>6, <1>7
  <1> QED
    BY <1>5, <1>6, <1>7, <1>8 DEF JudgedCost

\* Its tiles, with what the search may judge them to cost, are certified.
LEMMA WayCertified ==
    ASSUME map \in Maps, call.start \in Tiles,
           NEW way \in Seq(Tiles), IsWay(call.start, way)
    PROVE  \E P \in SUBSET (Tiles \X Nat) :
             /\ Certified(P)
             /\ <<way[Len(way)], JudgedUpTo(call.start, way, Len(way))>> \in P
  <1> DEFINE J(n) == JudgedUpTo(call.start, way, n)
             B(i) == Before(call.start, way, i)
             P == {<<call.start, 0>>} \cup {<<way[i], J(i)>> : i \in 1 .. Len(way)}
  <1>1. /\ Len(way) \in Nat \ {0}
        /\ \A i \in 1 .. Len(way) : way[i] \in Tiles /\ IsStep(B(i), way[i])
    BY DEF IsWay
  <1>2. /\ J(0) = 0
        /\ \A n \in Nat : J(n) \in Nat /\ J(n + 1) = J(n) + JudgedCost(B(n + 1), way[n + 1])
    BY JudgedStep
  <1>3. \A i \in 1 .. Len(way) :
            /\ i \in Nat /\ i - 1 \in Nat /\ (i - 1) + 1 = i
            /\ B(i) = IF i = 1 THEN call.start ELSE way[i - 1]
    BY <1>1 DEF Before
  <1> HIDE DEF J, B
  <1>4. P \in SUBSET (Tiles \X Nat)
    <2>1. \A i \in 1 .. Len(way) : way[i] \in Tiles /\ J(i) \in Nat
      BY <1>1, <1>2, <1>3
    <2>2. \A i \in 1 .. Len(way) : <<way[i], J(i)>> \in Tiles \X Nat
      BY <2>1
    <2> QED
      BY <2>2
  <1>5. \A i \in 1 .. Len(way) : <<B(i), J(i - 1)>> \in P
    <2> SUFFICES ASSUME NEW i \in 1 .. Len(way) PROVE <<B(i), J(i - 1)>> \in P
      OBVIOUS
    <2>1. CASE i = 1
      BY <1>2, <1>3, <2>1
    <2>2. CASE i # 1
      <3>1. i - 1 \in 1 .. Len(way)
        BY <1>1, <2>2
      <3> QED
        BY <1>3, <2>2, <3>1
    <2> QED
      BY <2>1, <2>2
  <1>6. ASSUME NEW i \in 1 .. Len(way)
        PROVE  \E q \in P : IsStep(q[1], way[i]) /\ q[2] + JudgedCost(q[1], way[i]) <= J(i)
    <2> DEFINE q == <<B(i), J(i - 1)>>
    <2>1. q \in P /\ q[1] = B(i) /\ q[2] = J(i - 1)
      BY <1>5
    <2>2. J(i) = J(i - 1) + JudgedCost(B(i), way[i]) /\ J(i) \in Nat
      BY <1>2, <1>3
    <2> HIDE DEF q, P
    <2>3. IsStep(q[1], way[i]) /\ q[2] + JudgedCost(q[1], way[i]) <= J(i)
      BY <1>1, <2>1, <2>2
    <2> QED
      BY <2>1, <2>3
  <1>7. ASSUME NEW p \in P
        PROVE  \/ p = <<call.start, 0>>
               \/ \E q \in P : IsStep(q[1], p[1]) /\ q[2] + JudgedCost(q[1], p[1]) <= p[2]
    <2> SUFFICES ASSUME p # <<call.start, 0>>
                 PROVE  \E q \in P : IsStep(q[1], p[1]) /\ q[2] + JudgedCost(q[1], p[1]) <= p[2]
      OBVIOUS
    <2>1. PICK i \in 1 .. Len(way) : p = <<way[i], J(i)>>
      OBVIOUS
    <2>2. p[1] = way[i] /\ p[2] = J(i)
      BY <2>1
    <2> QED
      BY <1>6, <2>2
  <1>8. Len(way) \in 1 .. Len(way)
    BY <1>1
  <1>9. <<way[Len(way)], J(Len(way))>> \in P
    BY <1>8
  <1> HIDE DEF P
  <1>10. Certified(P)
    BY <1>4, <1>7 DEF Certified
  <1> QED
    BY <1>4, <1>9, <1>10 DEF J

LEMMA JudgedWay ==
    ASSUME NEW from, NEW S, NEW way \in Seq(S)
    PROVE  JudgedUpTo(from, way, Len(way)) = CostOf(from, way) + Len(way)
  <1>1. Cardinality(DiagonalSteps(from, way)) \in Nat /\ Len(way) \in Nat
    BY DiagonalsFinite
  <1>2. CostOf(from, way) = 100 * Len(way) + 41 * Cardinality(DiagonalSteps(from, way))
    BY DEF CostOf, DiagonalSteps
  <1>3. JudgedUpTo(from, way, Len(way))
          = 101 * Len(way) + 41 * Cardinality(DiagonalSteps(from, way))
    BY DEF JudgedUpTo, DiagonalSteps, Before
  <1> QED
    BY <1>1, <1>2, <1>3

\* A way that the being could take instead.
Alternative(way) == IsWay(call.start, way) /\ way[Len(way)] = call.dest

NoMuchShorterWay ==
    Returning =>
        \A way \in Seq(Tiles) :
            Alternative(way) => CostOf(call.start, path) <= CostOf(call.start, way) + Len(way)

NoWayWithin ==
    Over /\ ~foundPath /\ call.start # call.dest =>
        \A way \in Seq(Tiles) :
            Alternative(way) =>
                call.maxCost > 0 /\ CostOf(call.start, way) + Len(way) > call.maxCost * 100

\* The path that Map::findPath returns costs, at 100 a straight and 141 a diagonal step, at most
\* 1 more for each step of any other way to the destination than that way, however long it is.
THEOREM NoWayMuchShorter == Spec => []NoMuchShorterWay
  <1>1. IInv /\ Costs => NoMuchShorterWay
    <2> SUFFICES ASSUME IInv, Costs, Returning, NEW way \in Seq(Tiles), Alternative(way)
                 PROVE  CostOf(call.start, path) <= CostOf(call.start, way) + Len(way)
      BY DEF NoMuchShorterWay
    <2>1. TypeOK /\ call.start \in Tiles
      BY DEF IInv, TypeOK, Returning, Searchable
    <2>2. PICK P \in SUBSET (Tiles \X Nat) :
              /\ Certified(P)
              /\ <<call.dest, CostOf(call.start, way) + Len(way)>> \in P
      BY <2>1, WayCertified, JudgedWay DEF TypeOK, Alternative
    <2> QED
      BY <2>2, ReturnedNear
  <1> QED
    BY CostsHold, <1>1, PTL

\* Map::findPath gives up without a limit only when there is no way at all, and with one only
\* when each way costs more than the limit or exceeds it by the 1 for each step.
THEOREM NoWayWithinLimit == Spec => []NoWayWithin
  <1>1. IInv /\ Costs => NoWayWithin
    <2> SUFFICES ASSUME IInv, Costs, Over, ~foundPath, call.start # call.dest,
                        NEW way \in Seq(Tiles), Alternative(way)
                 PROVE  call.maxCost > 0
                          /\ CostOf(call.start, way) + Len(way) > call.maxCost * 100
      BY DEF NoWayWithin
    <2>1. TypeOK /\ call.start \in Tiles
      BY DEF IInv, TypeOK, Over, Searchable
    <2>2. PICK P \in SUBSET (Tiles \X Nat) :
              /\ Certified(P)
              /\ <<call.dest, CostOf(call.start, way) + Len(way)>> \in P
      BY <2>1, WayCertified, JudgedWay DEF TypeOK, Alternative
    <2> QED
      BY <2>2, GivenUpBeyond
  <1> QED
    BY CostsHold, <1>1, PTL

=============================================================================
