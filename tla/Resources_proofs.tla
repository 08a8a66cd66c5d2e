--------------------------- MODULE Resources_proofs ---------------------------
(***************************************************************************)
(* Theorems about the resource manager.  The invariant, ResourcesInv, is   *)
(* stated in the middle of a call as well as between calls: a reference    *)
(* count is what is kept, and what the calls on the stack are still going  *)
(* to give back and the one just got; the stack holds calls in the orders  *)
(* in which the code makes them, and a resource nobody refers to is among  *)
(* the orphans or is deleted in the next step.                             *)
(***************************************************************************)
EXTENDS Resources, FiniteSetTheorems, WellFoundedInduction, TLAPS

Pixels == Images \cup Textures

Record == [mRefCount : Nat, mTimeStamp : Ages, mProtected : BOOLEAN, holds : Seq(Res)]
CallType ==
    [op : {"decRef", "delete", "moveToDeleted", "decRefDelete"}, res : Res]
      \cup [op : {"clearDeleted"}, res : {Null}]
      \cup [op : {"moved"}, res : Res, count : Nat]
      \cup [op : {"get", "newSet", "newSprite", "retire", "newAtlas"}, id : Ids]
      \cup [op : {"hold", "unprotect", "sweepAll"}]
      \cup [op : {"sweep"}, iter : Ids \cup {End}, always : BOOLEAN, oldest : Ages]

----------------------------------------------------------------------------
(* Who refers to a resource: those that keep a reference, the calls that   *)
(* are going to give one back, and the caller that has just got one.       *)

Pending(stack, r) ==
    {i \in DOMAIN stack : /\ stack[i].op \in {"decRef", "moveToDeleted", "decRefDelete"}
                          /\ stack[i].res = r}
Owed(stack, r) == Cardinality(Pending(stack, r))
Holding(objects, r) == Cardinality(Holders(objects, r))
Keeping(objects, r) == Cardinality(Keepers(objects, r))
Bit(b) == IF b THEN 1 ELSE 0

Kept(r) == held[r] + Holding(object, r) + Keeping(object, r) + Bit(object[r].mProtected)
Claims(r) == Kept(r) + Owed(calls, r) + Bit(got = r)

\* It has been released and is deleted in the next step.
Doomed(r) == calls # <<>> /\ Top.op = "delete" /\ Top.res = r

Unclaimed(r) ==
    held[r] = 0 /\ Holders(object, r) = {} /\ Pending(calls, r) = {} /\ got # r

----------------------------------------------------------------------------
(* The resources.                                                          *)

\* What an atlas has put, or may put, into the cache.
Part(r) == Id(r) \in Textures \/ (Id(r) \in Images /\ object[r].holds # <<>>)

HoldsRight(r) ==
    LET h == object[r].holds
    IN  /\ Id(r) \in Images => h = <<>> \/ (Len(h) = 1 /\ Id(h[1]) \in Textures)
        /\ Id(r) \in Textures => h = <<>>
        /\ Id(r) \in Sets => \A i \in DOMAIN h : Id(h[i]) \in Pixels
        /\ Id(r) \in Sprites => \A i \in DOMAIN h : Id(h[i]) \in Sets
        /\ IsAtlas(r) => /\ \A i \in DOMAIN h : Part(h[i]) /\ Id(h[i]) \notin Wallpapers
                         /\ \A i, j \in DOMAIN h : h[i] = h[j] => i = j
                         /\ h # <<>> => IsTexture(h[Len(h)])

ObjectsRight ==
    /\ DOMAIN object \subseteq Res /\ IsFiniteSet(DOMAIN object)
    /\ \A r \in DOMAIN object : /\ object[r] \in Record
                                /\ HoldsRight(r)
                                /\ object[r].mProtected => Id(r) \in Sprites

HeldRight == held \in [Res -> 0 .. MaxHeld]

CountsRight ==
    \A r \in DOMAIN object : Doomed(r) \/ object[r].mRefCount = Claims(r)

\* Nothing refers to what was deleted or is about to be.
NoClaims ==
    \A r \in Res :
      /\ r \notin DOMAIN object => Unclaimed(r)
      /\ Doomed(r) => /\ r \in DOMAIN object /\ Unclaimed(r)
                      /\ Keepers(object, r) = {} /\ ~object[r].mProtected
                      /\ IsAtlas(r) => object[r].mRefCount = 0

----------------------------------------------------------------------------
(* The maps.                                                               *)

Leaving(r) ==
    \E i \in DOMAIN calls : calls[i].op \in {"moveToDeleted", "moved"} /\ calls[i].res = r

CacheRight ==
    \A i \in DOMAIN mResources :
      LET r == mResources[i]
      IN  /\ r \in DOMAIN object /\ Id(r) = i /\ object[r].mRefCount > 0 /\ ~Doomed(r)
          /\ Part(r) => Keepers(object, r) # {} \/ Leaving(r)

OrphanRight ==
    \A i \in DOMAIN mOrphanedResources :
      LET r == mOrphanedResources[i]
      IN  /\ r \in DOMAIN object /\ Id(r) = i /\ object[r].mRefCount = 0 /\ ~Doomed(r)
          /\ ~Part(r)
          /\ i \in DOMAIN mResources => Part(mResources[i])

DeletedRight ==
    \A r \in mDeletedResources :
      /\ r \in DOMAIN object /\ object[r].mRefCount > 0 /\ ~Doomed(r)
      /\ Id(r) \in Pixels \ Wallpapers
      /\ ~Part(r) => ~Has(mResources, r)

FoundAgain ==
    \A r \in DOMAIN object :
      /\ IsAtlas(r) /\ object[r].mRefCount > 0 => Has(mResources, r)
      /\ object[r].mRefCount = 0 => Has(mOrphanedResources, r) \/ Doomed(r)

----------------------------------------------------------------------------
(* The stack: which call may be above which, what is known of each, and    *)
(* what the calls find that wait for the result of a get.                  *)

Giving == {"decRef", "delete"}
Loading == {"get", "newSet", "newSprite", "newAtlas"}

MayStandOn(a, c) ==
    /\ a.op = "decRef" => ~IsAtlas(a.res)
    /\ c.op = "decRef" => ~IsAtlas(c.res)
    /\ c.op \notin {"delete", "decRefDelete", "get"}
    /\ c.op = "hold" =>
         \/ a.op \in Loading \cup {"retire", "moveToDeleted", "moved"}
         \/ a.op \in Giving /\ Id(a.res) \in Pixels
    /\ c.op = "newSprite" =>
         \/ a.op = "newSet"
         \/ a.op = "get" /\ a.id \in Images \cup Sets
         \/ a.op \in Giving /\ Id(a.res) \in Pixels
    /\ c.op = "newSet" => a.op = "get" /\ a.id \in Images
    /\ c.op \in {"retire", "newAtlas"} =>
         a.op \in {"retire", "moveToDeleted", "moved", "decRef"}
    /\ c.op = "moveToDeleted" => a.op \in {"moveToDeleted", "moved", "decRef"}
    /\ c.op = "moved" => a.op = "decRef"
    /\ c.op \in {"decRef", "clearDeleted", "unprotect", "sweep"} =>
         a.op \in Giving \cup {"clearDeleted"}
    /\ c.op = "sweepAll" => a.op \in Giving \cup {"clearDeleted", "unprotect", "sweep"}

StackRight ==
    /\ calls \in Seq(CallType)
    /\ \A i, j \in DOMAIN calls : i < j => MayStandOn(calls[i], calls[j])

\* What is moved to the deleted resources is kept by somebody.
Moving == {"moveToDeleted", "moved", "retire", "newAtlas"}
MoveRight(c) ==
    /\ c.op \in {"moveToDeleted", "moved"} =>
         c.res \in DOMAIN object /\ Kept(c.res) > 0 /\ Id(c.res) \in Pixels \ Wallpapers
    /\ c.op = "moved" => c.count > 1
    /\ c.op = "retire" => c.id \in Images \ Wallpapers
    /\ c.op = "decRefDelete" => Id(c.res) \in Wallpapers
MovesRight ==
    /\ \A i \in DOMAIN calls : MoveRight(calls[i])
    /\ (\E j \in DOMAIN calls : calls[j].op \in Moving) =>
         \A i \in DOMAIN calls : calls[i].op = "decRef" => Kept(calls[i].res) > 0

ToMake(c) == IF c.op \in {"get", "newAtlas"} THEN Needed(c.id) ELSE {c.id}

LoadRight(c) ==
    /\ c.op = "get" => c.id \notin Textures
    /\ c.op = "newSet" => c.id \in Sets
    /\ c.op = "newSprite" => c.id \in Sprites
    /\ c.op = "newAtlas" => c.id \in Atlases
    /\ c.op \in Loading => \A n \in ToMake(c) : Room(n) # {}
    /\ c.op \in Loading \ {"get"} =>
         c.id \notin DOMAIN mResources \cup DOMAIN mOrphanedResources
LoadsRight ==
    \A i \in DOMAIN calls :
      LoadRight(calls[i]) /\ (calls[i].op \in Loading => calls[Len(calls)].op = "hold")

\* What a call that waits for the result of a get will find.
Waiting == {"newSet", "newSprite", "hold"}
Fits(id, c) ==
    /\ c.op = "newSet" => id \in Images
    /\ c.op = "newSprite" => id \in Sets
    /\ c.op = "hold" => \A k \in 1 .. Copies : held[<<id, k>>] < MaxHeld
Answered(c) == got = Null \/ Fits(Id(got), c)
Supplies(a, c) == a.op \in Loading /\ Fits(a.id, c)

GotRight ==
    /\ got \in Res \cup {Null}
    /\ got # Null => /\ calls # <<>> /\ calls[Len(calls)].op = "hold"
                     /\ \A i \in DOMAIN calls : calls[i].op \in Giving \cup Waiting
    /\ \A i \in DOMAIN calls :
         calls[i].op \in Waiting =>
           IF i = 1 \/ calls[i - 1].op \in Giving THEN Answered(calls[i])
           ELSE Supplies(calls[i - 1], calls[i])

SweepRight(c) ==
    c.op = "sweep" =>
      /\ c.iter \in DOMAIN mOrphanedResources \cup {End}
      /\ \A n \in DOMAIN mOrphanedResources :
           c.iter = End \/ n < c.iter => object[mOrphanedResources[n]].mTimeStamp <= c.oldest
SweepsRight == \A i \in DOMAIN calls : SweepRight(calls[i])

Sweeping == \E i \in DOMAIN calls : calls[i].op = "sweep"
NoneOlder ==
    \A n \in DOMAIN mOrphanedResources :
      object[mOrphanedResources[n]].mTimeStamp <= mOldestOrphan
AgesRight == mOldestOrphan \in Ages /\ (Sweeping \/ NoneOlder)

ResourcesInv ==
    /\ ObjectsRight /\ HeldRight /\ CountsRight /\ NoClaims
    /\ CacheRight /\ OrphanRight /\ DeletedRight /\ FoundAgain
    /\ StackRight /\ MovesRight /\ LoadsRight /\ GotRight
    /\ SweepsRight /\ AgesRight

----------------------------------------------------------------------------
(* Resources, maps and calls.                                              *)

LEMMA ResFacts ==
    ASSUME NEW r \in Res
    PROVE  /\ Id(r) \in Ids /\ Id(r) \in Nat /\ Id(r) # 0 /\ r # Null
           /\ r[2] \in 1 .. Copies /\ r = <<Id(r), r[2]>>
  <1>1. r[1] \in Ids /\ r[2] \in 1 .. Copies /\ r = <<r[1], r[2]>>
    BY DEF Res
  <1>2. r[1] \in Nat /\ r[1] # 0
    BY <1>1, ResourcesAssumption
  <1>3. r # <<0, 0>>
    BY <1>2
  <1> QED
    BY <1>1, <1>2, <1>3 DEF Id, Null

LEMMA WithoutIs ==
    ASSUME NEW map, NEW k
    PROVE  /\ DOMAIN Without(map, k) = DOMAIN map \ {k}
           /\ \A i \in DOMAIN map \ {k} : Without(map, k)[i] = map[i]
  BY DEF Without, Restrict

LEMMA WithIs ==
    ASSUME NEW map, NEW k, NEW v
    PROVE  /\ DOMAIN With(map, k, v) = DOMAIN map \cup {k}
           /\ With(map, k, v)[k] = v
           /\ \A i \in DOMAIN map : i # k => With(map, k, v)[i] = map[i]
  BY DEF With

LEMMA OverIs ==
    ASSUME NEW f, NEW g
    PROVE  /\ DOMAIN Over(f, g) = DOMAIN f \cup DOMAIN g
           /\ \A i \in DOMAIN f : Over(f, g)[i] = f[i]
           /\ \A i \in DOMAIN g : i \notin DOMAIN f => Over(f, g)[i] = g[i]
  BY DEF Over

LEMMA HasIs ==
    ASSUME NEW map, NEW r \in Res
    PROVE  Has(map, r) <=> Id(r) \in DOMAIN map /\ map[Id(r)] = r
  BY ResFacts DEF Has, At

LEMMA EmptyMap ==
    ASSUME NEW x
    PROVE  x \notin DOMAIN <<>>
  OBVIOUS

\* Numbers, and so identifiers, have a least one among them.
LEMMA Least ==
    ASSUME NEW S \in SUBSET Nat, S # {}
    PROVE  \E i \in S : \A j \in S : i <= j
  <1>1. PICK i \in S : \A j \in S : <<j, i>> \notin OpToRel(<, Nat)
    BY NatLessThanWellFounded, WFMin
  <1>2. \A j \in S : ~(j < i)
    BY <1>1 DEF OpToRel
  <1> QED
    BY <1>2

LEMMA FromIs ==
    ASSUME NEW map, DOMAIN map \subseteq Ids, NEW k \in Nat
    PROVE  /\ From(map, k) \in DOMAIN map \cup {End}
           /\ From(map, k) # End => From(map, k) >= k
           /\ \A i \in DOMAIN map : i >= k => From(map, k) # End /\ From(map, k) <= i
  <1> DEFINE later == {i \in DOMAIN map : i >= k}
  <1>1. \A i \in DOMAIN map : i \in Nat /\ i # 0
    BY ResourcesAssumption
  <1>2. CASE later = {}
    BY <1>2 DEF From
  <1>3. CASE later # {}
    <2>1. \E i \in later : \A j \in later : i <= j
      BY <1>1, <1>3, Least
    <2>2. From(map, k) = CHOOSE i \in later : \A j \in later : i <= j
      BY <1>3 DEF From
    <2>3. From(map, k) \in later /\ \A j \in later : From(map, k) <= j
      BY <2>1, <2>2
    <2> QED
      BY <1>1, <2>3 DEF End
  <1> QED
    BY <1>2, <1>3

LEMMA FreshIs ==
    ASSUME NEW id \in Ids, Room(id) # {}
    PROVE  /\ Fresh(id) \in Res /\ Id(Fresh(id)) = id /\ Fresh(id) \notin DOMAIN object
  <1>1. Room(id) \in SUBSET Nat
    BY DEF Room
  <1>2. \E k \in Room(id) : \A j \in Room(id) : k <= j
    BY <1>1, Least
  <1> DEFINE k == CHOOSE i \in Room(id) : \A j \in Room(id) : i <= j
  <1>3. k \in Room(id)
    BY <1>2
  <1>4. Fresh(id) = <<id, k>>
    BY DEF Fresh
  <1> HIDE DEF k
  <1> QED
    BY <1>3, <1>4 DEF Room, Alive, Res, Id

\* What the fields of a call are.
LEMMA CallFacts ==
    ASSUME NEW c \in CallType
    PROVE  /\ c.op \in {"decRef", "delete", "moveToDeleted", "decRefDelete", "moved"} => c.res \in Res
           /\ c.op = "moved" => c.count \in Nat
           /\ c.op \in Loading \cup {"retire"} => c.id \in Ids
           /\ c.op = "sweep" => /\ c.iter \in Ids \cup {End} /\ c.always \in BOOLEAN
                                /\ c.oldest \in Ages
           /\ "res" \in DOMAIN c =>
                \/ c.op \in {"decRef", "delete", "moveToDeleted", "decRefDelete", "moved"}
                \/ c.op = "clearDeleted" /\ c.res = Null
           /\ c.op \in {"decRef", "delete", "moveToDeleted", "decRefDelete", "clearDeleted",
                        "moved", "get", "newSet", "newSprite", "retire", "newAtlas", "hold",
                        "unprotect", "sweepAll", "sweep"}
  <1>1. CASE c \in [op : {"decRef", "delete", "moveToDeleted", "decRefDelete"}, res : Res]
    BY <1>1 DEF Loading
  <1>2. CASE c \in [op : {"clearDeleted"}, res : {Null}]
    BY <1>2 DEF Loading
  <1>3. CASE c \in [op : {"moved"}, res : Res, count : Nat]
    BY <1>3 DEF Loading
  <1>4. CASE c \in [op : {"get", "newSet", "newSprite", "retire", "newAtlas"}, id : Ids]
    BY <1>4 DEF Loading
  <1>5. CASE c \in [op : {"hold", "unprotect", "sweepAll"}]
    BY <1>5 DEF Loading
  <1>6. CASE c \in [op : {"sweep"}, iter : Ids \cup {End}, always : BOOLEAN, oldest : Ages]
    BY <1>6 DEF Loading
  <1> QED
    BY <1>1, <1>2, <1>3, <1>4, <1>5, <1>6 DEF CallType

LEMMA CallIs ==
    ASSUME NEW r \in Res, NEW op \in {"decRef", "delete", "moveToDeleted", "decRefDelete"}
    PROVE  Call(op, r) \in CallType /\ Call(op, r).op = op /\ Call(op, r).res = r
  BY DEF Call, CallType

LEMMA CallsAre ==
    ASSUME NEW s \in Seq(Res), NEW op \in {"decRef", "delete", "moveToDeleted", "decRefDelete"}
    PROVE  /\ Calls(op, s) \in Seq(CallType) /\ Len(Calls(op, s)) = Len(s)
           /\ \A i \in 1 .. Len(s) : /\ Calls(op, s)[i].op = op
                                     /\ Calls(op, s)[i].res = s[i]
  <1>1. /\ Len(s) \in Nat /\ DOMAIN s = 1 .. Len(s)
        /\ \A i \in 1 .. Len(s) : s[i] \in Res
    OBVIOUS
  <1>2. Calls(op, s) = [i \in 1 .. Len(s) |-> Call(op, s[i])]
    BY <1>1 DEF Calls
  <1>3. \A i \in 1 .. Len(s) : /\ Call(op, s[i]) \in CallType
                               /\ Call(op, s[i]).op = op /\ Call(op, s[i]).res = s[i]
    BY <1>1, CallIs
  <1>4. [i \in 1 .. Len(s) |-> Call(op, s[i])] \in Seq(CallType)
    BY <1>1, <1>3
  <1> QED
    BY <1>1, <1>2, <1>3, <1>4

LEMMA ConcatIs ==
    ASSUME NEW S, NEW s \in Seq(S), NEW t \in Seq(S)
    PROVE  /\ s \o t \in Seq(S) /\ Len(s \o t) = Len(s) + Len(t)
           /\ \A i \in 1 .. Len(s) : (s \o t)[i] = s[i]
           /\ \A i \in 1 .. Len(t) : (s \o t)[Len(s) + i] = t[i]
  OBVIOUS

LEMMA TailIs ==
    ASSUME NEW S, NEW s \in Seq(S), s # <<>>
    PROVE  /\ Tail(s) \in Seq(S) /\ Len(Tail(s)) = Len(s) - 1 /\ Len(s) >= 1
           /\ Head(s) = s[1] /\ s[1] \in S
           /\ \A i \in 1 .. Len(s) - 1 : Tail(s)[i] = s[i + 1]
  OBVIOUS

\* The stack after a step of its innermost call.
LEMMA StackStep ==
    ASSUME calls \in Seq(CallType), calls # <<>>, NEW s \in Seq(CallType), Then(s)
    PROVE  /\ calls' \in Seq(CallType) /\ Len(calls') = Len(s) + Len(calls) - 1
           /\ \A i \in 1 .. Len(s) : i \in DOMAIN calls' /\ calls'[i] = s[i]
           /\ \A i \in 2 .. Len(calls) : /\ Len(s) + i - 1 \in DOMAIN calls'
                                         /\ calls'[Len(s) + i - 1] = calls[i]
           /\ \A i \in DOMAIN calls' :
                \/ i \in 1 .. Len(s)
                \/ /\ i - Len(s) + 1 \in 2 .. Len(calls)
                   /\ i - Len(s) + 1 \in DOMAIN calls
                   /\ calls'[i] = calls[i - Len(s) + 1]
  <1> DEFINE t == Tail(calls)
  <1>1. /\ t \in Seq(CallType) /\ Len(t) = Len(calls) - 1
        /\ \A i \in 1 .. Len(calls) - 1 : t[i] = calls[i + 1]
    BY TailIs
  <1>2. calls' = s \o t
    BY DEF Then
  <1>3. Len(s) \in Nat /\ Len(calls) \in Nat
    OBVIOUS
  <1> HIDE DEF t
  <1>4. /\ calls' \in Seq(CallType) /\ Len(calls') = Len(s) + Len(t)
        /\ \A i \in 1 .. Len(s) : calls'[i] = s[i]
        /\ \A i \in 1 .. Len(t) : calls'[Len(s) + i] = t[i]
    BY <1>1, <1>2, ConcatIs
  <1>5. ASSUME NEW i \in 2 .. Len(calls)
        PROVE  /\ Len(s) + i - 1 \in DOMAIN calls'
               /\ calls'[Len(s) + i - 1] = calls[i]
    <2>1. i - 1 \in 1 .. Len(t) /\ i - 1 \in 1 .. Len(calls) - 1
      BY <1>1, <1>3
    <2>2. Len(s) + (i - 1) = Len(s) + i - 1 /\ (i - 1) + 1 = i
      BY <1>3
    <2>3. t[i - 1] = calls[i] /\ calls'[Len(s) + i - 1] = t[i - 1]
      BY <1>1, <1>4, <2>1, <2>2
    <2>4. Len(s) + i - 1 \in 1 .. Len(calls')
      BY <1>1, <1>3, <1>4, <2>1
    <2> QED
      BY <1>4, <2>3, <2>4
  <1>6. ASSUME NEW i \in DOMAIN calls', i \notin 1 .. Len(s)
        PROVE  /\ i - Len(s) + 1 \in 2 .. Len(calls)
               /\ i - Len(s) + 1 \in DOMAIN calls
               /\ calls'[i] = calls[i - Len(s) + 1]
    <2>1. i \in 1 .. Len(calls')
      BY <1>4
    <2>2. i - Len(s) + 1 \in 2 .. Len(calls)
      BY <1>1, <1>3, <1>4, <1>6, <2>1
    <2>3. Len(s) + (i - Len(s) + 1) - 1 = i
      BY <1>3, <2>1
    <2> QED
      BY <1>3, <1>5, <2>2, <2>3
  <1>7. \A i \in 1 .. Len(s) : i \in DOMAIN calls'
    BY <1>1, <1>3, <1>4
  <1> QED
    BY <1>1, <1>3, <1>4, <1>5, <1>6, <1>7

----------------------------------------------------------------------------
(* Counting.                                                               *)

Times(s, r) == Cardinality({i \in DOMAIN s : s[i] = r})
Gives(c, r) == c.op \in {"decRef", "moveToDeleted", "decRefDelete"} /\ c.res = r

LEMMA SameSize ==
    ASSUME NEW S, NEW T, IsFiniteSet(S), NEW f, f \in [S -> T],
           \A a, b \in S : f[a] = f[b] => a = b, \A b \in T : \E a \in S : f[a] = b
    PROVE  IsFiniteSet(T) /\ Cardinality(T) = Cardinality(S)
  <1>1. f \in Bijection(S, T)
    BY DEF Bijection, Injection, Surjection, IsInjective
  <1>2. ExistsBijection(S, T)
    BY <1>1 DEF ExistsBijection
  <1> QED
    BY <1>2, FS_Bijection

LEMMA PlacesFinite ==
    ASSUME NEW S, NEW s \in Seq(S), NEW T \in SUBSET DOMAIN s
    PROVE  IsFiniteSet(T) /\ Cardinality(T) \in Nat
  <1>1. IsFiniteSet(DOMAIN s)
    BY FS_Interval
  <1> QED
    BY <1>1, FS_Subset, FS_CardinalityType

LEMMA OwedNat ==
    ASSUME NEW s \in Seq(CallType), NEW r
    PROVE  /\ IsFiniteSet(Pending(s, r)) /\ Owed(s, r) \in Nat
           /\ Owed(s, r) = 0 <=> Pending(s, r) = {}
  <1>1. Pending(s, r) \in SUBSET DOMAIN s
    BY DEF Pending
  <1> QED
    BY <1>1, PlacesFinite, FS_EmptySet DEF Owed

LEMMA TimesNat ==
    ASSUME NEW S, NEW s \in Seq(S), NEW r
    PROVE  /\ IsFiniteSet({i \in DOMAIN s : s[i] = r}) /\ Times(s, r) \in Nat
           /\ Times(s, r) = 0 <=> \A i \in DOMAIN s : s[i] # r
  <1> DEFINE T == {i \in DOMAIN s : s[i] = r}
  <1>1. IsFiniteSet(T) /\ Cardinality(T) \in Nat
    BY PlacesFinite
  <1>2. Cardinality(T) = 0 <=> T = {}
    BY <1>1, FS_EmptySet
  <1> QED
    BY <1>1, <1>2 DEF Times

LEMMA OwedConcat ==
    ASSUME NEW s \in Seq(CallType), NEW t \in Seq(CallType), NEW r
    PROVE  Owed(s \o t, r) = Owed(s, r) + Owed(t, r)
  <1> DEFINE u == s \o t
             P == Pending(s, r)
             Q == Pending(t, r)
             U == {i \in Pending(u, r) : i > Len(s)}
             f == [i \in Q |-> Len(s) + i]
  <1>1. /\ u \in Seq(CallType) /\ Len(u) = Len(s) + Len(t)
        /\ \A i \in 1 .. Len(s) : u[i] = s[i]
        /\ \A i \in 1 .. Len(t) : u[Len(s) + i] = t[i]
    BY ConcatIs
  <1>2. Len(s) \in Nat /\ Len(t) \in Nat /\ DOMAIN s = 1 .. Len(s) /\ DOMAIN t = 1 .. Len(t)
    OBVIOUS
  <1> HIDE DEF u
  <1>3. DOMAIN u = 1 .. Len(u)
    BY <1>1
  <1>4. P = {i \in Pending(u, r) : i <= Len(s)}
    BY <1>1, <1>2, <1>3 DEF Pending
  <1>5. ASSUME NEW i \in Q PROVE Len(s) + i \in U
    BY <1>1, <1>2, <1>3 DEF Pending
  <1>6. ASSUME NEW i \in U PROVE i - Len(s) \in Q /\ i = Len(s) + (i - Len(s))
    <2>1. i \in 1 .. Len(s) + Len(t) /\ i > Len(s)
      BY <1>1, <1>3 DEF Pending
    <2>2. i - Len(s) \in 1 .. Len(t) /\ i = Len(s) + (i - Len(s))
      BY <1>2, <2>1
    <2>3. u[i] = t[i - Len(s)]
      BY <1>1, <2>2
    <2> QED
      BY <1>2, <2>2, <2>3 DEF Pending
  <1>7. /\ IsFiniteSet(P) /\ IsFiniteSet(Q) /\ IsFiniteSet(Pending(u, r))
    BY <1>1, OwedNat
  <1>8. Cardinality(U) = Cardinality(Q) /\ IsFiniteSet(U)
    <2>1. f \in [Q -> U] /\ \A b \in U : \E a \in Q : f[a] = b
      BY <1>5, <1>6
    <2>2. \A a, b \in Q : f[a] = f[b] => a = b
      BY <1>2 DEF Pending
    <2> HIDE DEF f, Q, U
    <2> QED
      BY <1>7, <2>1, <2>2, SameSize
  <1>9. Pending(u, r) = P \cup U /\ P \cap U = {}
    BY <1>1, <1>2, <1>3, <1>4 DEF Pending
  <1> HIDE DEF P, Q, U
  <1>10. Cardinality(P \cup U) = Cardinality(P) + Cardinality(U)
    <2>1. Cardinality(P \cap U) = 0
      BY <1>9, FS_EmptySet
    <2>2. Cardinality(P) \in Nat /\ Cardinality(U) \in Nat
      BY <1>7, <1>8, FS_CardinalityType
    <2>3. Cardinality(P \cup U) = Cardinality(P) + Cardinality(U) - Cardinality(P \cap U)
      BY <1>7, <1>8, FS_Union
    <2> QED
      BY <2>1, <2>2, <2>3
  <1> QED
    BY <1>8, <1>9, <1>10 DEF Owed, P, Q, u

LEMMA OwedEmpty == ASSUME NEW r PROVE Owed(<<>>, r) = 0 /\ Pending(<<>>, r) = {}
  BY FS_EmptySet DEF Owed, Pending

LEMMA OwedOne ==
    ASSUME NEW c \in CallType, NEW r
    PROVE  <<c>> \in Seq(CallType) /\ Owed(<<c>>, r) = IF Gives(c, r) THEN 1 ELSE 0
  <1>1. Pending(<<c>>, r) = IF Gives(c, r) THEN {1} ELSE {}
    BY DEF Pending, Gives
  <1> QED
    BY <1>1, FS_EmptySet, FS_Singleton DEF Owed

LEMMA OwedTail ==
    ASSUME NEW s \in Seq(CallType), s # <<>>, NEW r
    PROVE  /\ Tail(s) \in Seq(CallType)
           /\ Owed(s, r) = (IF Gives(Head(s), r) THEN 1 ELSE 0) + Owed(Tail(s), r)
  <1>1. Head(s) \in CallType /\ Tail(s) \in Seq(CallType) /\ s = <<Head(s)>> \o Tail(s)
    OBVIOUS
  <1>2. Owed(<<Head(s)>> \o Tail(s), r) = Owed(<<Head(s)>>, r) + Owed(Tail(s), r)
    BY <1>1, OwedOne, OwedConcat
  <1> QED
    BY <1>1, <1>2, OwedOne

LEMMA OwedCalls ==
    ASSUME NEW s \in Seq(Res), NEW op \in {"decRef", "moveToDeleted"}, NEW r
    PROVE  Owed(Calls(op, s), r) = Times(s, r)
  <1>1. /\ Calls(op, s) \in Seq(CallType) /\ Len(Calls(op, s)) = Len(s)
        /\ \A i \in 1 .. Len(s) : Calls(op, s)[i].op = op /\ Calls(op, s)[i].res = s[i]
    BY CallsAre
  <1>2. DOMAIN Calls(op, s) = 1 .. Len(s) /\ DOMAIN s = 1 .. Len(s)
    BY <1>1
  <1>3. Pending(Calls(op, s), r) = {i \in DOMAIN s : s[i] = r}
    BY <1>1, <1>2 DEF Pending
  <1> QED
    BY <1>3 DEF Owed, Times

\* What a step does to the number of references the calls will give back.
LEMMA OwedStep ==
    ASSUME calls \in Seq(CallType), calls # <<>>, NEW s \in Seq(CallType), Then(s), NEW r
    PROVE  /\ Owed(calls', r) + (IF Gives(Top, r) THEN 1 ELSE 0)
                = Owed(calls, r) + Owed(s, r)
           /\ Owed(calls, r) \in Nat /\ Owed(s, r) \in Nat /\ Owed(calls', r) \in Nat
  <1>1. /\ Tail(calls) \in Seq(CallType)
        /\ Owed(calls, r) = (IF Gives(Top, r) THEN 1 ELSE 0) + Owed(Tail(calls), r)
    BY OwedTail DEF Top
  <1>2. Owed(calls', r) = Owed(s, r) + Owed(Tail(calls), r)
    BY <1>1, OwedConcat DEF Then
  <1>3. Owed(s, r) \in Nat /\ Owed(Tail(calls), r) \in Nat /\ Owed(calls, r) \in Nat
    BY <1>1, OwedNat
  <1> QED
    BY <1>1, <1>2, <1>3

Well(objects) ==
    /\ DOMAIN objects \subseteq Res /\ IsFiniteSet(DOMAIN objects)
    /\ \A x \in DOMAIN objects : objects[x] \in Record

SameHolds(objects, others) ==
    /\ DOMAIN objects = DOMAIN others
    /\ \A x \in DOMAIN objects : objects[x].holds = others[x].holds

LEMMA HoldsSeq ==
    ASSUME NEW objects, Well(objects), NEW x \in DOMAIN objects
    PROVE  /\ x \in Res /\ objects[x].holds \in Seq(Res) /\ objects[x].mRefCount \in Nat
           /\ objects[x].mTimeStamp \in Ages /\ objects[x].mProtected \in BOOLEAN
           /\ DOMAIN objects[x].holds = 1 .. Len(objects[x].holds)
           /\ Len(objects[x].holds) \in Nat
           /\ \A i \in DOMAIN objects[x].holds : objects[x].holds[i] \in Res
  <1>1. objects[x] \in Record /\ x \in Res
    BY DEF Well
  <1>2. objects[x].holds \in Seq(Res)
    BY <1>1 DEF Record
  <1>3. /\ objects[x].mRefCount \in Nat
        /\ objects[x].mTimeStamp \in Ages /\ objects[x].mProtected \in BOOLEAN
    BY <1>1 DEF Record
  <1> QED
    BY <1>1, <1>2, <1>3

LEMMA HoldersEmpty ==
    ASSUME NEW objects, NEW r
    PROVE  Holders(objects, r) = {} <=>
             \A x \in DOMAIN objects : \A i \in DOMAIN objects[x].holds : objects[x].holds[i] # r
  <1>1. ASSUME NEW x \in DOMAIN objects, NEW i \in DOMAIN objects[x].holds,
               objects[x].holds[i] = r
        PROVE  <<x, i>> \in Holders(objects, r)
    BY <1>1 DEF Holders
  <1>2. ASSUME NEW e \in Holders(objects, r)
        PROVE  \E x \in DOMAIN objects : \E i \in DOMAIN objects[x].holds :
                 objects[x].holds[i] = r
    BY <1>2 DEF Holders
  <1>3. Holders(objects, r) # {} => \E e : e \in Holders(objects, r)
    OBVIOUS
  <1> HIDE DEF Holders
  <1> QED
    BY <1>1, <1>2, <1>3

\* x as the holder of r, at each place of its list s.
Own(x, s, r) == {x} \X {i \in DOMAIN s : s[i] = r}

LEMMA HoldersOf ==
    ASSUME NEW x, NEW s \in Seq(Res), NEW r
    PROVE  IsFiniteSet(Own(x, s, r)) /\ Cardinality(Own(x, s, r)) = Times(s, r)
  <1> DEFINE I == {i \in DOMAIN s : s[i] = r}
             f == [i \in I |-> <<x, i>>]
  <1>1. IsFiniteSet(I)
    BY TimesNat
  <1>2. /\ f \in [I -> {x} \X I] /\ \A a, b \in I : f[a] = f[b] => a = b
        /\ \A b \in {x} \X I : \E a \in I : f[a] = b
    OBVIOUS
  <1> HIDE DEF f, I
  <1>3. IsFiniteSet({x} \X I) /\ Cardinality({x} \X I) = Cardinality(I)
    BY <1>1, <1>2, SameSize
  <1> QED
    BY <1>3 DEF I, Times, Own

LEMMA HoldersNat ==
    ASSUME NEW objects, Well(objects), NEW r
    PROVE  /\ IsFiniteSet(Holders(objects, r)) /\ Holding(objects, r) \in Nat
           /\ Holding(objects, r) = 0 <=> Holders(objects, r) = {}
  <1> DEFINE own(x) == Own(x, objects[x].holds, r)
             all == {own(x) : x \in DOMAIN objects}
  <1>1. ASSUME NEW x \in DOMAIN objects PROVE IsFiniteSet(own(x))
    <2>1. objects[x].holds \in Seq(Res)
      BY HoldsSeq
    <2> QED
      BY <2>1, HoldersOf
  <1>2. IsFiniteSet(all)
    <2> DEFINE f == [x \in DOMAIN objects |-> own(x)]
    <2>1. f \in Surjection(DOMAIN objects, all)
      BY DEF Surjection
    <2> HIDE DEF f, all
    <2> QED
      BY <2>1, FS_Surjection DEF Well
  <1>3. IsFiniteSet(UNION all)
    <2>1. \A T \in all : IsFiniteSet(T)
      BY <1>1
    <2> HIDE DEF all
    <2> QED
      BY <1>2, <2>1, FS_UNION
  <1>4. Holders(objects, r) = UNION all
    BY DEF Holders, Own
  <1> QED
    BY <1>3, <1>4, FS_CardinalityType, FS_EmptySet DEF Holding

LEMMA KeepersNat ==
    ASSUME NEW objects, Well(objects), NEW r
    PROVE  /\ IsFiniteSet(Keepers(objects, r)) /\ Keeping(objects, r) \in Nat
           /\ Keeping(objects, r) = 0 <=> Keepers(objects, r) = {}
  <1>1. Keepers(objects, r) \in SUBSET DOMAIN objects
    BY DEF Keepers
  <1>2. IsFiniteSet(Keepers(objects, r))
    BY <1>1, FS_Subset DEF Well
  <1> QED
    BY <1>2, FS_CardinalityType, FS_EmptySet DEF Keeping

LEMMA HoldersSame ==
    ASSUME NEW objects, NEW others, SameHolds(objects, others), NEW r
    PROVE  Holders(objects, r) = Holders(others, r)
  <1> DEFINE own(o, x) == {x} \X {i \in DOMAIN o[x].holds : o[x].holds[i] = r}
  <1>1. \A x \in DOMAIN objects : own(objects, x) = own(others, x)
    BY DEF SameHolds
  <1>2. {own(objects, x) : x \in DOMAIN objects} = {own(others, x) : x \in DOMAIN others}
    BY <1>1 DEF SameHolds
  <1> QED
    BY <1>2 DEF Holders

LEMMA KeepersSame ==
    ASSUME NEW objects, NEW others, SameHolds(objects, others), NEW r,
           \A x \in DOMAIN objects :
             IsAtlas(x) => (objects[x].mRefCount > 0 <=> others[x].mRefCount > 0)
    PROVE  Keepers(objects, r) = Keepers(others, r)
  BY DEF Keepers, SameHolds

\* One resource more, or one less.
LEMMA HoldersNew ==
    ASSUME NEW objects, NEW others, Well(objects), Well(others), NEW x, NEW r,
           x \notin DOMAIN objects, DOMAIN others = DOMAIN objects \cup {x},
           \A y \in DOMAIN objects : others[y].holds = objects[y].holds
    PROVE  /\ Holding(others, r) = Holding(objects, r) + Times(others[x].holds, r)
           /\ Times(others[x].holds, r) \in Nat
  <1> DEFINE own(o, y) == Own(y, o[y].holds, r)
             H == Holders(objects, r)
             N == own(others, x)
  <1>1. others[x].holds \in Seq(Res)
    BY HoldsSeq
  <1>2. IsFiniteSet(N) /\ Cardinality(N) = Times(others[x].holds, r)
    BY <1>1, HoldersOf
  <1>3. H = UNION {own(objects, y) : y \in DOMAIN objects}
    BY DEF Holders, Own
  <1>4. Holders(others, r) = UNION {own(others, y) : y \in DOMAIN others}
    BY DEF Holders, Own
  <1>5. \A y \in DOMAIN objects : own(others, y) = own(objects, y)
    OBVIOUS
  <1>6. H \cap N = {}
    BY <1>3 DEF Own
  <1>7. Holders(others, r) = H \cup N
    <2>1. ASSUME NEW e \in Holders(others, r) PROVE e \in H \cup N
      BY <1>3, <1>4, <1>5, <2>1
    <2>2. ASSUME NEW e \in H \cup N PROVE e \in Holders(others, r)
      BY <1>3, <1>4, <1>5, <2>2
    <2> QED
      BY <2>1, <2>2
  <1>8. IsFiniteSet(H) /\ Cardinality(H) \in Nat
    BY HoldersNat DEF Holding
  <1> HIDE DEF N, H
  <1>9. Cardinality(H \cup N) = Cardinality(H) + Cardinality(N) - Cardinality(H \cap N)
    BY <1>2, <1>8, FS_Union
  <1>10. Cardinality(H \cap N) = 0
    BY <1>6, FS_EmptySet
  <1>11. Times(others[x].holds, r) \in Nat
    BY <1>1, TimesNat
  <1> QED
    BY <1>2, <1>7, <1>8, <1>9, <1>10, <1>11 DEF H, Holding

----------------------------------------------------------------------------
(* What the invariant says of the innermost call, and of any resource.     *)

LEMMA TopIs ==
    ASSUME StackRight, calls # <<>>
    PROVE  /\ Top = calls[1] /\ Top \in CallType /\ 1 \in DOMAIN calls
           /\ \A j \in 2 .. Len(calls) : /\ j \in DOMAIN calls /\ calls[j] \in CallType
                                         /\ MayStandOn(Top, calls[j])
  <1>1. calls \in Seq(CallType)
    BY DEF StackRight
  <1>2. Len(calls) \in Nat /\ Len(calls) >= 1 /\ DOMAIN calls = 1 .. Len(calls)
    BY <1>1, TailIs
  <1>3. Top = calls[1] /\ Top \in CallType
    BY <1>1, TailIs DEF Top
  <1>4. ASSUME NEW j \in 2 .. Len(calls)
        PROVE  j \in DOMAIN calls /\ calls[j] \in CallType /\ MayStandOn(calls[1], calls[j])
    <2>1. j \in DOMAIN calls /\ 1 \in DOMAIN calls /\ 1 < j
      BY <1>2
    <2>2. MayStandOn(calls[1], calls[j])
      BY <2>1 DEF StackRight
    <2> QED
      BY <1>1, <2>1, <2>2
  <1> QED
    BY <1>2, <1>3, <1>4

LEMMA KeepStack ==
    ASSUME StackRight, calls # <<>>, NEW s \in Seq(CallType), Then(s),
           \A i, j \in DOMAIN s : i < j => MayStandOn(s[i], s[j]),
           \A i \in DOMAIN s : \A j \in 2 .. Len(calls) : MayStandOn(s[i], calls[j])
    PROVE  StackRight'
  <1>1. calls \in Seq(CallType) /\ Len(s) \in Nat /\ DOMAIN s = 1 .. Len(s)
    BY DEF StackRight
  <1>2. /\ calls' \in Seq(CallType)
        /\ \A i \in 1 .. Len(s) : calls'[i] = s[i]
        /\ \A i \in DOMAIN calls' :
             \/ i \in 1 .. Len(s)
             \/ /\ i - Len(s) + 1 \in 2 .. Len(calls)
                /\ i - Len(s) + 1 \in DOMAIN calls
                /\ calls'[i] = calls[i - Len(s) + 1]
    BY <1>1, StackStep
  <1>3. ASSUME NEW i \in DOMAIN calls', NEW j \in DOMAIN calls', i < j
        PROVE  MayStandOn(calls'[i], calls'[j])
    <2>1. DOMAIN calls' = 1 .. Len(calls') /\ i \in Nat /\ j \in Nat
      BY <1>2
    <2>2. CASE j \in 1 .. Len(s)
      <3>1. i \in DOMAIN s /\ j \in DOMAIN s
        BY <1>1, <1>3, <2>1, <2>2
      <3> QED
        BY <1>1, <1>2, <1>3, <3>1
    <2>3. CASE j \notin 1 .. Len(s) /\ i \in 1 .. Len(s)
      <3>1. i \in DOMAIN s /\ j - Len(s) + 1 \in 2 .. Len(calls)
        BY <1>1, <1>2, <2>3
      <3>2. calls'[i] = s[i] /\ calls'[j] = calls[j - Len(s) + 1]
        BY <1>2, <2>3
      <3> QED
        BY <3>1, <3>2
    <2>4. CASE j \notin 1 .. Len(s) /\ i \notin 1 .. Len(s)
      <3>1. i - Len(s) + 1 \in DOMAIN calls /\ j - Len(s) + 1 \in DOMAIN calls
        BY <1>2, <2>4
      <3>2. calls'[i] = calls[i - Len(s) + 1] /\ calls'[j] = calls[j - Len(s) + 1]
        BY <1>2, <2>4
      <3>3. i - Len(s) + 1 < j - Len(s) + 1
        BY <1>1, <1>3, <2>1
      <3> QED
        BY <3>1, <3>2, <3>3 DEF StackRight
    <2> QED
      BY <2>2, <2>3, <2>4
  <1> QED
    BY <1>2, <1>3 DEF StackRight

LEMMA NotDoomed ==
    ASSUME calls = <<>> \/ Top.op # "delete"
    PROVE  \A r : ~Doomed(r)
  BY DEF Doomed

LEMMA DoomAfter ==
    ASSUME StackRight, calls # <<>>, NEW s \in Seq(CallType), Then(s)
    PROVE  \A r : Doomed(r)' <=> s # <<>> /\ s[1].op = "delete" /\ s[1].res = r
  <1>1. calls \in Seq(CallType) /\ Len(s) \in Nat /\ Len(calls) \in Nat /\ Len(calls) >= 1
    BY TailIs DEF StackRight
  <1>2. /\ calls' \in Seq(CallType) /\ Len(calls') = Len(s) + Len(calls) - 1
        /\ \A i \in 1 .. Len(s) : calls'[i] = s[i]
        /\ \A i \in 2 .. Len(calls) : calls'[Len(s) + i - 1] = calls[i]
    BY <1>1, StackStep
  <1>3. calls' # <<>> => Head(calls') = calls'[1]
    BY <1>2, TailIs
  <1>4. CASE s # <<>>
    <2>1. Len(s) >= 1
      BY <1>4, TailIs
    <2>2. Len(calls') >= 1 /\ 1 \in 1 .. Len(s)
      BY <1>1, <1>2, <2>1
    <2>3. calls' # <<>> /\ calls'[1] = s[1]
      BY <1>2, <2>2
    <2> QED
      BY <1>3, <1>4, <2>3 DEF Doomed, Top
  <1>5. CASE s = <<>>
    <2>1. Len(s) = 0
      BY <1>5
    <2>2. ASSUME calls' # <<>> PROVE calls'[1].op # "delete"
      <3>1. Len(calls') >= 1
        BY <1>2, <2>2, TailIs
      <3>2. 2 \in 2 .. Len(calls) /\ Len(s) + 2 - 1 = 1
        BY <1>1, <1>2, <2>1, <3>1
      <3>3. calls'[1] = calls[2]
        BY <1>2, <3>2
      <3>4. MayStandOn(Top, calls[2])
        BY <3>2, TopIs
      <3> QED
        BY <3>3, <3>4 DEF MayStandOn
    <2> QED
      BY <1>3, <1>5, <2>2 DEF Doomed, Top
  <1> QED
    BY <1>4, <1>5

LEMMA Counted ==
    ASSUME ObjectsRight, HeldRight, StackRight, NEW r \in Res
    PROVE  /\ held[r] \in Nat /\ Holding(object, r) \in Nat /\ Keeping(object, r) \in Nat
           /\ Owed(calls, r) \in Nat /\ Bit(object[r].mProtected) \in Nat /\ Bit(got = r) \in Nat
           /\ Kept(r) \in Nat /\ Claims(r) \in Nat
           /\ Holding(object, r) = 0 <=> Holders(object, r) = {}
           /\ Keeping(object, r) = 0 <=> Keepers(object, r) = {}
           /\ Owed(calls, r) = 0 <=> Pending(calls, r) = {}
           /\ Bit(object[r].mProtected) = 0 <=> ~object[r].mProtected
           /\ Bit(got = r) = 0 <=> got # r
  <1>1. Well(object)
    BY DEF ObjectsRight, Well
  <1>2. calls \in Seq(CallType)
    BY DEF StackRight
  <1>3. held[r] \in Nat
    BY ResourcesAssumption DEF HeldRight
  <1>4. /\ Holding(object, r) \in Nat /\ Keeping(object, r) \in Nat
        /\ Holding(object, r) = 0 <=> Holders(object, r) = {}
        /\ Keeping(object, r) = 0 <=> Keepers(object, r) = {}
    BY <1>1, HoldersNat, KeepersNat
  <1>5. Owed(calls, r) \in Nat /\ (Owed(calls, r) = 0 <=> Pending(calls, r) = {})
    BY <1>2, OwedNat
  <1>6. /\ Bit(object[r].mProtected) \in Nat /\ Bit(got = r) \in Nat
        /\ Bit(object[r].mProtected) = 0 <=> ~object[r].mProtected
        /\ Bit(got = r) = 0 <=> got # r
    BY DEF Bit
  <1>7. Kept(r) \in Nat
    BY <1>3, <1>4, <1>6 DEF Kept
  <1>8. Claims(r) \in Nat
    BY <1>5, <1>6, <1>7 DEF Claims
  <1> QED
    BY <1>3, <1>4, <1>5, <1>6, <1>7, <1>8

\* Whatever is referred to is there, and counts its references.
LEMMA Referred ==
    ASSUME ObjectsRight, HeldRight, StackRight, CountsRight, NoClaims, NEW r \in Res,
           \/ held[r] # 0 \/ Holders(object, r) # {} \/ Pending(calls, r) # {} \/ got = r
    PROVE  r \in DOMAIN object /\ ~Doomed(r) /\ object[r].mRefCount = Claims(r)
  <1>1. ~Unclaimed(r)
    BY DEF Unclaimed
  <1>2. r \in DOMAIN object /\ ~Doomed(r)
    BY <1>1 DEF NoClaims
  <1> QED
    BY <1>2 DEF CountsRight

----------------------------------------------------------------------------
(* What a step of the innermost call must see to, for each part of the     *)
(* invariant that is about the stack.                                      *)

Below(c) == \E k \in 2 .. Len(calls) : k \in DOMAIN calls /\ calls[k] = c

LEMMA Elements ==
    ASSUME StackRight, calls # <<>>, NEW s \in Seq(CallType), Then(s)
    PROVE  /\ \A i \in DOMAIN calls' :
                (\E k \in DOMAIN s : calls'[i] = s[k]) \/ Below(calls'[i])
           /\ \A k \in DOMAIN s : \E i \in DOMAIN calls' : calls'[i] = s[k]
           /\ \A c : Below(c) => \E i \in DOMAIN calls' : calls'[i] = c
           /\ Len(calls) >= 2 => calls' # <<>> /\ calls'[Len(calls')] = calls[Len(calls)]
  <1>1. calls \in Seq(CallType) /\ DOMAIN s = 1 .. Len(s) /\ Len(s) \in Nat /\ Len(calls) \in Nat
    BY DEF StackRight
  <1>2. /\ calls' \in Seq(CallType) /\ Len(calls') = Len(s) + Len(calls) - 1
        /\ \A i \in 1 .. Len(s) : i \in DOMAIN calls' /\ calls'[i] = s[i]
        /\ \A i \in 2 .. Len(calls) : /\ Len(s) + i - 1 \in DOMAIN calls'
                                      /\ calls'[Len(s) + i - 1] = calls[i]
        /\ \A i \in DOMAIN calls' :
             \/ i \in 1 .. Len(s)
             \/ /\ i - Len(s) + 1 \in 2 .. Len(calls)
                /\ i - Len(s) + 1 \in DOMAIN calls
                /\ calls'[i] = calls[i - Len(s) + 1]
    BY <1>1, StackStep
  <1>3. ASSUME Len(calls) >= 2
        PROVE  calls' # <<>> /\ calls'[Len(calls')] = calls[Len(calls)]
    <2>1. Len(calls) \in 2 .. Len(calls) /\ Len(calls') >= 1
      BY <1>1, <1>2, <1>3
    <2> QED
      BY <1>2, <2>1
  <1>4. ASSUME NEW i \in DOMAIN calls'
        PROVE  (\E k \in DOMAIN s : calls'[i] = s[k]) \/ Below(calls'[i])
    BY <1>1, <1>2 DEF Below
  <1>5. \A c : Below(c) => \E i \in DOMAIN calls' : calls'[i] = c
    BY <1>2 DEF Below
  <1> QED
    BY <1>1, <1>2, <1>3, <1>4, <1>5

\* What is below the innermost call.
LEMMA BelowIs ==
    ASSUME StackRight, calls # <<>>, NEW c, Below(c)
    PROVE  /\ c \in CallType /\ MayStandOn(Top, c) /\ Len(calls) >= 2
           /\ \E k \in DOMAIN calls : calls[k] = c
  <1>1. PICK k \in 2 .. Len(calls) : k \in DOMAIN calls /\ calls[k] = c
    BY DEF Below
  <1>2. calls[k] \in CallType /\ MayStandOn(Top, calls[k])
    BY TopIs
  <1>3. Len(calls) \in Nat
    BY DEF StackRight
  <1> QED
    BY <1>1, <1>2, <1>3

LEMMA KeepMoves ==
    ASSUME StackRight, MovesRight, calls # <<>>, NEW s \in Seq(CallType), Then(s),
           \A i \in DOMAIN s : MoveRight(s[i])',
           \A c : Below(c) /\ MoveRight(c) => MoveRight(c)',
           \/ /\ \A c : Below(c) => c.op \notin Moving
              /\ \A i \in DOMAIN s : s[i].op \notin Moving
           \/ /\ \A c : Below(c) /\ c.op = "decRef" => Kept(c.res)' > 0
              /\ \A i \in DOMAIN s : s[i].op = "decRef" => Kept(s[i].res)' > 0
    PROVE  MovesRight'
  <1>1. \A i \in DOMAIN calls' : (\E k \in DOMAIN s : calls'[i] = s[k]) \/ Below(calls'[i])
    BY Elements
  <1>2. \A c : Below(c) => MoveRight(c)
    BY BelowIs DEF MovesRight
  <1>3. \A i \in DOMAIN calls' : MoveRight(calls[i])'
    <2> TAKE i \in DOMAIN calls'
    <2>1. \A c : c = calls'[i] => MoveRight(c)'
      BY <1>1, <1>2
    <2> QED
      BY <2>1
  <1>4. ASSUME NEW j \in DOMAIN calls', calls'[j].op \in Moving,
               NEW i \in DOMAIN calls', calls'[i].op = "decRef"
        PROVE  Kept(calls[i].res)' > 0
    <2>1. /\ \A c : Below(c) /\ c.op = "decRef" => Kept(c.res)' > 0
          /\ \A k \in DOMAIN s : s[k].op = "decRef" => Kept(s[k].res)' > 0
      BY <1>1, <1>4
    <2>2. \A c : c = calls'[i] => Kept(c.res)' > 0
      BY <1>1, <1>4, <2>1
    <2> QED
      BY <2>2
  <1> QED
    BY <1>3, <1>4 DEF MovesRight

LEMMA MovesStay ==
    ASSUME NEW c, MoveRight(c),
           \/ c.op \notin {"moveToDeleted", "moved"}
           \/ /\ DOMAIN object \subseteq DOMAIN object'
              /\ \A r \in DOMAIN object : Kept(r) > 0 => Kept(r)' > 0
    PROVE  MoveRight(c)'
  BY DEF MoveRight

LEMMA KeepLoads ==
    ASSUME StackRight, LoadsRight, calls # <<>>, NEW s \in Seq(CallType), Then(s),
           \A i \in DOMAIN s : LoadRight(s[i])',
           \A c : Below(c) /\ LoadRight(c) => LoadRight(c)',
           \A i \in DOMAIN s : s[i].op \in Loading => Top.op \in Loading
    PROVE  LoadsRight'
  <1>1. /\ \A i \in DOMAIN calls' : (\E k \in DOMAIN s : calls'[i] = s[k]) \/ Below(calls'[i])
        /\ Len(calls) >= 2 => calls'[Len(calls')] = calls[Len(calls)]
    BY Elements
  <1>2. Top = calls[1] /\ 1 \in DOMAIN calls /\ Len(calls) \in Nat /\ Len(calls) >= 1
    BY TopIs, TailIs DEF StackRight
  <1>3. ASSUME NEW c, Below(c) \/ c = Top, c.op \in Loading
        PROVE  calls'[Len(calls')].op = "hold"
    <2>1. PICK k \in DOMAIN calls : calls[k] = c
      BY <1>2, <1>3, BelowIs
    <2>2. calls[Len(calls)].op = "hold"
      BY <1>3, <2>1 DEF LoadsRight
    <2>3. Len(calls) >= 2
      <3>1. CASE Below(c)
        BY <3>1, BelowIs
      <3>2. CASE c = Top
        <4>1. Len(calls) # 1
          BY <1>2, <1>3, <2>2, <3>2 DEF Loading
        <4> QED
          BY <1>2, <4>1
      <3> QED
        BY <1>3, <3>1, <3>2
    <2> QED
      BY <1>1, <2>2, <2>3
  <1>4. \A c : Below(c) => LoadRight(c)
    BY BelowIs DEF LoadsRight
  <1>5. ASSUME NEW i \in DOMAIN calls'
        PROVE  /\ LoadRight(calls[i])'
               /\ calls'[i].op \in Loading => calls'[Len(calls')].op = "hold"
    <2>1. \A c : c = calls'[i] => LoadRight(c)'
      BY <1>1, <1>4
    <2>2. calls'[i].op \in Loading =>
            \E c : (Below(c) \/ c = Top) /\ c.op \in Loading
      BY <1>1
    <2> QED
      BY <1>3, <2>1, <2>2
  <1> QED
    BY <1>5 DEF LoadsRight

LEMMA LoadsStay ==
    ASSUME NEW c, LoadRight(c),
           \/ c.op \notin Loading
           \/ /\ DOMAIN object' \subseteq DOMAIN object
              /\ DOMAIN mResources' \subseteq DOMAIN mResources \cup Pixels
              /\ DOMAIN mOrphanedResources' \subseteq DOMAIN mOrphanedResources \cup Pixels
    PROVE  LoadRight(c)'
  <1>1. CASE c.op \notin Loading
    BY <1>1 DEF LoadRight, Loading
  <1>2. CASE /\ DOMAIN object' \subseteq DOMAIN object
             /\ DOMAIN mResources' \subseteq DOMAIN mResources \cup Pixels
             /\ DOMAIN mOrphanedResources' \subseteq DOMAIN mOrphanedResources \cup Pixels
    <2>1. \A n : Room(n) \subseteq Room(n)'
      BY <1>2 DEF Room, Alive
    <2>2. c.op \in Loading => \A n \in ToMake(c) : Room(n)' # {}
      BY <2>1 DEF LoadRight
    <2>3. ASSUME c.op \in Loading \ {"get"} PROVE c.id \notin Pixels
      BY <2>3, ResourcesAssumption DEF LoadRight, Loading, Pixels
    <2> QED
      BY <1>2, <2>2, <2>3 DEF LoadRight
  <1> QED
    BY <1>1, <1>2

LEMMA KeepSweeps ==
    ASSUME StackRight, SweepsRight, calls # <<>>, NEW s \in Seq(CallType), Then(s),
           \A i \in DOMAIN s : SweepRight(s[i])',
           \A c : Below(c) /\ SweepRight(c) => SweepRight(c)'
    PROVE  SweepsRight'
  <1>1. \A i \in DOMAIN calls' : (\E k \in DOMAIN s : calls'[i] = s[k]) \/ Below(calls'[i])
    BY Elements
  <1>2. \A c : Below(c) => SweepRight(c)
    BY BelowIs DEF SweepsRight
  <1>3. \A i \in DOMAIN calls' : SweepRight(calls[i])'
    <2> TAKE i \in DOMAIN calls'
    <2>1. \A c : c = calls'[i] => SweepRight(c)'
      BY <1>1, <1>2
    <2> QED
      BY <2>1
  <1> QED
    BY <1>3 DEF SweepsRight

\* The call right below the innermost one.
Second(c) == Len(calls) >= 2 /\ calls[2] = c

LEMMA KeepGot ==
    ASSUME StackRight, GotRight, calls # <<>>, NEW s \in Seq(CallType), Then(s),
           held' = held, got' \in Res \cup {Null},
           got' = got \/ \A c : Below(c) => c.op \notin Giving,
           \A i \in DOMAIN s :
             s[i].op \in Waiting =>
               i # 1 /\ s[i - 1].op \notin Giving /\ Supplies(s[i - 1], s[i]),
           \A c : Second(c) /\ c.op \in Waiting =>
             IF s = <<>> \/ s[Len(s)].op \in Giving THEN Answered(c)'
             ELSE Supplies(s[Len(s)], c),
           got' # Null => /\ Len(calls) >= 2 /\ calls[Len(calls)].op = "hold"
                          /\ \A i \in DOMAIN s : s[i].op \in Giving \cup Waiting
                          /\ \A c : Below(c) => c.op \in Giving \cup Waiting
    PROVE  GotRight'
  <1>1. /\ calls \in Seq(CallType) /\ DOMAIN s = 1 .. Len(s) /\ Len(s) \in Nat
        /\ Len(calls) \in Nat /\ DOMAIN calls = 1 .. Len(calls)
    BY DEF StackRight
  <1>2. /\ calls' \in Seq(CallType) /\ Len(calls') = Len(s) + Len(calls) - 1
        /\ \A i \in 1 .. Len(s) : i \in DOMAIN calls' /\ calls'[i] = s[i]
        /\ \A i \in DOMAIN calls' :
             \/ i \in 1 .. Len(s)
             \/ /\ i - Len(s) + 1 \in 2 .. Len(calls)
                /\ i - Len(s) + 1 \in DOMAIN calls
                /\ calls'[i] = calls[i - Len(s) + 1]
    BY <1>1, StackStep
  <1>3. /\ \A i \in DOMAIN calls' : (\E k \in DOMAIN s : calls'[i] = s[k]) \/ Below(calls'[i])
        /\ Len(calls) >= 2 => calls' # <<>> /\ calls'[Len(calls')] = calls[Len(calls)]
    BY Elements
  <1>4. \A a, c : Supplies(a, c) => Supplies(a, c)'
    BY DEF Supplies, Fits
  <1>5. \A id, c : Fits(id, c) => Fits(id, c)'
    BY DEF Fits
  <1>6. ASSUME NEW i \in DOMAIN calls', calls'[i].op \in Waiting
        PROVE  \A a, c : c = calls'[i] /\ (i # 1 => a = calls'[i - 1]) =>
                 IF i = 1 \/ a.op \in Giving THEN Answered(c)' ELSE Supplies(a, c)'
    <2> TAKE a, c
    <2> HAVE c = calls'[i] /\ (i # 1 => a = calls'[i - 1])
    <2>1. DOMAIN calls' = 1 .. Len(calls') /\ i \in 1 .. Len(calls')
      BY <1>2
    <2>2. CASE i \in 1 .. Len(s)
      <3>1. i \in DOMAIN s /\ c = s[i] /\ i # 1 /\ s[i - 1].op \notin Giving
            /\ Supplies(s[i - 1], s[i])
        BY <1>1, <1>2, <1>6, <2>2
      <3>2. i - 1 \in 1 .. Len(s)
        BY <1>1, <2>2, <3>1
      <3>3. a = s[i - 1]
        BY <1>2, <3>1, <3>2
      <3> QED
        BY <1>4, <3>1, <3>3
    <2>3. CASE i \notin 1 .. Len(s) /\ i - Len(s) + 1 = 2
      <3>1. i = Len(s) + 1 /\ c = calls[2] /\ 2 \in 2 .. Len(calls)
        BY <1>1, <1>2, <2>1, <2>3
      <3>2. Second(c) /\ c.op \in Waiting
        BY <1>1, <1>6, <3>1 DEF Second
      <3>3. IF s = <<>> \/ s[Len(s)].op \in Giving THEN Answered(c)'
            ELSE Supplies(s[Len(s)], c)
        BY <3>2
      <3>4. CASE s = <<>>
        BY <3>1, <3>3, <3>4
      <3>5. CASE s # <<>>
        <4>1. Len(s) >= 1
          BY <3>5, TailIs
        <4>2. Len(s) \in 1 .. Len(s) /\ i # 1 /\ i - 1 = Len(s)
          BY <1>1, <3>1, <4>1
        <4>3. a = s[Len(s)]
          BY <1>2, <4>2
        <4> QED
          BY <1>4, <3>3, <3>5, <4>2, <4>3
      <3> QED
        BY <3>4, <3>5
    <2>4. CASE i \notin 1 .. Len(s) /\ i - Len(s) + 1 # 2
      <3> DEFINE k == i - Len(s) + 1
      <3>1. /\ k \in DOMAIN calls /\ c = calls[k] /\ k # 1 /\ i # 1
            /\ k - 1 \in 2 .. Len(calls) /\ i - 1 \in DOMAIN calls' /\ i - 1 \notin 1 .. Len(s)
        <4>1. k \in 2 .. Len(calls) /\ k \in DOMAIN calls /\ calls'[i] = calls[k]
          BY <1>2, <2>4
        <4>2. k # 2 /\ i \in Nat
          BY <2>1, <2>4
        <4>3. k - 1 \in 2 .. Len(calls) /\ i - 1 > Len(s)
          BY <1>1, <4>1, <4>2
        <4>4. i - 1 \in 1 .. Len(calls')
          BY <1>1, <1>2, <2>1, <4>3
        <4> QED
          BY <1>1, <1>2, <2>1, <4>1, <4>2, <4>3, <4>4
      <3>2. a = calls[k - 1]
        <4>1. a = calls'[i - 1]
          BY <3>1
        <4>2. calls'[i - 1] = calls[(i - 1) - Len(s) + 1]
          BY <1>2, <3>1
        <4>3. (i - 1) - Len(s) + 1 = k - 1
          BY <1>1, <2>1
        <4> QED
          BY <4>1, <4>2, <4>3
      <3>3. IF calls[k - 1].op \in Giving THEN Answered(calls[k]) ELSE Supplies(calls[k - 1], calls[k])
        BY <1>6, <3>1 DEF GotRight
      <3>4. Below(a)
        BY <1>1, <3>1, <3>2 DEF Below
      <3>5. CASE a.op \in Giving
        <4>1. got' = got
          BY <3>4, <3>5
        <4>2. Answered(c)
          BY <3>1, <3>2, <3>3, <3>5
        <4> QED
          BY <1>5, <3>5, <4>1, <4>2 DEF Answered
      <3>6. CASE a.op \notin Giving
        BY <1>4, <3>1, <3>2, <3>3, <3>6
      <3> QED
        BY <3>5, <3>6
    <2> QED
      BY <2>2, <2>3, <2>4
  <1>7. ASSUME NEW i \in DOMAIN calls', calls'[i].op \in Waiting
        PROVE  IF i = 1 \/ calls'[i - 1].op \in Giving THEN Answered(calls[i])'
               ELSE Supplies(calls[i - 1], calls[i])'
    BY <1>6, <1>7
  <1>8. got' # Null => /\ calls' # <<>> /\ calls'[Len(calls')].op = "hold"
                       /\ \A i \in DOMAIN calls' : calls'[i].op \in Giving \cup Waiting
    BY <1>3
  <1> QED
    BY <1>7, <1>8 DEF GotRight

----------------------------------------------------------------------------
(* Steps that change no list of what a resource holds, and give no first   *)
(* reference and take no last one.                                         *)

SameMap(f, g) == DOMAIN f = DOMAIN g /\ \A i \in DOMAIN f : f[i] = g[i]

Firm ==
    /\ Well(object') /\ SameHolds(object', object)
    /\ \A r \in DOMAIN object :
         /\ object'[r].mRefCount > 0 <=> object[r].mRefCount > 0
         /\ object'[r].mProtected => object[r].mProtected

LEMMA FirmIs ==
    ASSUME ObjectsRight, Firm, NEW r
    PROVE  /\ Holders(object', r) = Holders(object, r) /\ Keepers(object', r) = Keepers(object, r)
           /\ Holding(object', r) = Holding(object, r) /\ Keeping(object', r) = Keeping(object, r)
           /\ DOMAIN object' = DOMAIN object
           /\ r \in DOMAIN object => /\ object'[r].holds = object[r].holds
                                     /\ Part(r)' <=> Part(r)
                                     /\ object'[r].mRefCount \in Nat
                                     /\ object[r].mRefCount \in Nat
                                     /\ object'[r].mRefCount > 0 <=> object[r].mRefCount > 0
  <1>1. DOMAIN object' = DOMAIN object /\ \A x \in DOMAIN object : object'[x].holds = object[x].holds
    BY DEF Firm, SameHolds
  <1>2. Holders(object', r) = Holders(object, r)
    BY HoldersSame DEF Firm
  <1>3. Keepers(object', r) = Keepers(object, r)
    BY <1>1, KeepersSame DEF Firm
  <1>4. r \in DOMAIN object => object'[r].mRefCount \in Nat /\ object[r].mRefCount \in Nat
    <2>1. Well(object) /\ Well(object')
      BY DEF ObjectsRight, Well, Firm
    <2> QED
      BY <1>1, <2>1, HoldsSeq
  <1>5. r \in DOMAIN object => (Part(r)' <=> Part(r))
    BY <1>1 DEF Part
  <1> QED
    BY <1>1, <1>2, <1>3, <1>4, <1>5 DEF Holding, Keeping, Firm

\* What a resource holds is there.
LEMMA HeldAlive ==
    ASSUME ObjectsRight, NoClaims, NEW x \in DOMAIN object, NEW i \in DOMAIN object[x].holds
    PROVE  /\ object[x].holds[i] \in DOMAIN object /\ object[x].holds[i] \in Res
           /\ ~Doomed(object[x].holds[i]) /\ Holders(object, object[x].holds[i]) # {}
  <1> DEFINE y == object[x].holds[i]
  <1>1. Well(object)
    BY DEF ObjectsRight, Well
  <1>2. y \in Res
    BY <1>1, HoldsSeq
  <1>3. Holders(object, y) # {}
    BY HoldersEmpty
  <1> HIDE DEF y
  <1>4. ~Unclaimed(y)
    BY <1>3 DEF Unclaimed
  <1>5. y \in DOMAIN object /\ ~Doomed(y)
    BY <1>2, <1>4 DEF NoClaims
  <1> QED
    BY <1>2, <1>3, <1>5 DEF y

LEMMA FirmObjects ==
    ASSUME ObjectsRight, NoClaims, Firm
    PROVE  ObjectsRight'
  <1>1. Well(object') /\ DOMAIN object' = DOMAIN object
    BY DEF Firm, SameHolds
  <1>2. ASSUME NEW r \in DOMAIN object PROVE HoldsRight(r)'
    <2> DEFINE h == object[r].holds
    <2>1. object'[r].holds = h /\ HoldsRight(r)
      BY FirmIs DEF ObjectsRight
    <2>2. \A i \in DOMAIN h : h[i] \in DOMAIN object
      BY HeldAlive
    <2>3. \A i \in DOMAIN h : Part(h[i])' <=> Part(h[i])
      BY <2>2, FirmIs
    <2>4. \A p : (p \in DOMAIN object /\ Part(p)) => Part(p)'
      BY FirmIs
    <2> HIDE DEF h
    <2>5. IsAtlas(r) => \A i \in DOMAIN h : \A p : p = h[i] => Part(p)'
      BY <2>1, <2>2, <2>4 DEF HoldsRight, h
    <2> HIDE DEF Part
    <2>6. \A i \in DOMAIN h : h[i] = object'[r].holds[i]
      BY <2>1
    <2> QED
      BY <2>1, <2>5, <2>6 DEF HoldsRight, h, IsAtlas
  <1>3. \A r \in DOMAIN object : object'[r].mProtected => Id(r) \in Sprites
    BY DEF ObjectsRight, Firm
  <1> QED
    BY <1>1, <1>2, <1>3 DEF ObjectsRight, Well

LEMMA FirmMaps ==
    ASSUME ObjectsRight, NoClaims, CacheRight, OrphanRight, DeletedRight, FoundAgain, Firm,
           SameMap(mResources', mResources), mOrphanedResources' = mOrphanedResources,
           mDeletedResources' = mDeletedResources,
           \A r : ~Doomed(r) /\ ~Doomed(r)', \A r : Leaving(r) => Leaving(r)'
    PROVE  CacheRight' /\ OrphanRight' /\ DeletedRight' /\ FoundAgain'
  <1>1. /\ DOMAIN mResources' = DOMAIN mResources
        /\ \A i \in DOMAIN mResources : mResources'[i] = mResources[i]
        /\ DOMAIN object' = DOMAIN object
    BY FirmIs DEF SameMap
  <1>2. \A r \in DOMAIN object : /\ Keepers(object', r) = Keepers(object, r)
                                 /\ object'[r].mRefCount \in Nat /\ object[r].mRefCount \in Nat
                                 /\ Part(r)' <=> Part(r)
                                 /\ object'[r].mRefCount > 0 <=> object[r].mRefCount > 0
    BY FirmIs
  <1>3. CacheRight'
    <2> SUFFICES ASSUME NEW i \in DOMAIN mResources
                 PROVE  \A r : r = mResources[i] =>
                          /\ r \in DOMAIN object' /\ Id(r) = i /\ object'[r].mRefCount > 0
                          /\ ~Doomed(r)'
                          /\ Part(r)' => Keepers(object', r) # {} \/ Leaving(r)'
      BY <1>1 DEF CacheRight
    <2> QED
      BY <1>1, <1>2 DEF CacheRight
  <1>4. OrphanRight'
    <2> SUFFICES ASSUME NEW i \in DOMAIN mOrphanedResources
                 PROVE  \A r : r = mOrphanedResources[i] =>
                          /\ r \in DOMAIN object' /\ Id(r) = i /\ object'[r].mRefCount = 0
                          /\ ~Doomed(r)' /\ ~Part(r)'
                          /\ i \in DOMAIN mResources => \A x : x = mResources[i] => Part(x)'
      BY <1>1 DEF OrphanRight
    <2>1. \A x \in DOMAIN object : object[x].mRefCount = 0 => object'[x].mRefCount = 0
      BY <1>2
    <2>2. i \in DOMAIN mResources => mResources[i] \in DOMAIN object
      BY DEF CacheRight
    <2> QED
      BY <1>1, <1>2, <2>1, <2>2 DEF OrphanRight
  <1>5. DeletedRight'
    <2> SUFFICES ASSUME NEW r \in mDeletedResources
                 PROVE  /\ r \in DOMAIN object' /\ object'[r].mRefCount > 0 /\ ~Doomed(r)'
                        /\ Id(r) \in Pixels \ Wallpapers
                        /\ ~Part(r)' => ~Has(mResources', r)
      BY DEF DeletedRight
    <2>1. Has(mResources', r) => Has(mResources, r)
      BY <1>1 DEF Has, At
    <2> QED
      BY <1>1, <1>2, <2>1 DEF DeletedRight
  <1>6. FoundAgain'
    <2> SUFFICES ASSUME NEW r \in DOMAIN object
                 PROVE  /\ IsAtlas(r) /\ object'[r].mRefCount > 0 => Has(mResources', r)
                        /\ object'[r].mRefCount = 0 =>
                             Has(mOrphanedResources, r) \/ Doomed(r)'
      BY <1>1 DEF FoundAgain
    <2>1. Has(mResources', r) <=> Has(mResources, r)
      BY <1>1 DEF Has, At
    <2>2. object'[r].mRefCount = 0 => object[r].mRefCount = 0
      BY <1>2
    <2> QED
      BY <1>2, <2>1, <2>2 DEF FoundAgain
  <1> QED
    BY <1>3, <1>4, <1>5, <1>6

LEMMA KeepUnclaimed ==
    ASSUME StackRight, calls # <<>>, NEW s \in Seq(CallType), Then(s), NEW r, Unclaimed(r),
           held'[r] = 0, Holders(object', r) = {}, \A i \in DOMAIN s : ~Gives(s[i], r),
           got' # r
    PROVE  Unclaimed(r)'
  <1>1. \A i \in DOMAIN calls' : (\E k \in DOMAIN s : calls'[i] = s[k]) \/ Below(calls'[i])
    BY Elements
  <1>2. ASSUME NEW c, Below(c), Gives(c, r) PROVE FALSE
    <2>1. PICK k \in DOMAIN calls : calls[k] = c
      BY <1>2, BelowIs
    <2>2. k \in Pending(calls, r)
      BY <1>2, <2>1 DEF Pending, Gives
    <2> QED
      BY <2>2 DEF Unclaimed
  <1>3. \A i \in DOMAIN calls' : ~Gives(calls'[i], r)
    BY <1>1, <1>2
  <1>4. Pending(calls', r) = {}
    BY <1>3 DEF Pending, Gives
  <1> QED
    BY <1>4 DEF Unclaimed

LEMMA KeptNat ==
    ASSUME NEW objects, Well(objects), NEW holds \in [Res -> 0 .. MaxHeld], NEW r \in DOMAIN objects
    PROVE  holds[r] + Holding(objects, r) + Keeping(objects, r) + Bit(objects[r].mProtected) \in Nat
  <1>1. r \in Res /\ Holding(objects, r) \in Nat /\ Keeping(objects, r) \in Nat
    BY HoldersNat, KeepersNat DEF Well
  <1>2. holds[r] \in Nat /\ Bit(objects[r].mProtected) \in Nat
    BY <1>1, ResourcesAssumption DEF Bit
  <1> QED
    BY <1>1, <1>2

\* The counts are right after a step when it changes each by what it changes the
\* claims by; one resource or more may be made, or the one that was doomed be gone.
LEMMA StepCounts ==
    ASSUME ObjectsRight, HeldRight, HeldRight', StackRight, CountsRight, NoClaims, Well(object'),
           calls # <<>>, NEW s \in Seq(CallType), Then(s), \A r : ~Doomed(r)',
           \A r \in DOMAIN object' :
             \/ /\ r \in DOMAIN object /\ ~Doomed(r)
                /\ object'[r].mRefCount + Kept(r) + Bit(got = r) + (IF Gives(Top, r) THEN 1 ELSE 0)
                     = object[r].mRefCount + Kept(r)' + Bit(got' = r) + Owed(s, r)
             \/ /\ r \notin DOMAIN object
                /\ object'[r].mRefCount = Kept(r)' + Bit(got' = r) + Owed(s, r),
           \A r \in Res \ DOMAIN object' :
             /\ r \notin DOMAIN object \/ Doomed(r)
             /\ held'[r] = 0 /\ Holders(object', r) = {} /\ got' # r
             /\ \A i \in DOMAIN s : ~Gives(s[i], r)
    PROVE  CountsRight' /\ NoClaims'
  <1>1. Well(object) /\ DOMAIN object' \subseteq Res
    BY DEF ObjectsRight, Well
  <1>2. ASSUME NEW r \in DOMAIN object' PROVE object'[r].mRefCount = Claims(r)'
    <2> DEFINE give == IF Gives(Top, r) THEN 1 ELSE 0
               g == Bit(got = r)
               g2 == Bit(got' = r)
               w == Owed(calls, r)
               w2 == Owed(calls', r)
               more == Owed(s, r)
               n2 == object'[r].mRefCount
    <2>1. PICK k2 \in Nat : k2 = Kept(r)'
      BY KeptNat DEF Kept, HeldRight
    <2>2. /\ w2 + give = w + more /\ give \in Nat /\ w \in Nat /\ more \in Nat /\ w2 \in Nat
          /\ g \in Nat /\ g2 \in Nat /\ n2 \in Nat
      BY OwedStep, HoldsSeq DEF StackRight, Bit
    <2>3. n2 = k2 + w2 + g2
      <3>1. CASE r \in DOMAIN object /\ ~Doomed(r)
        <4> DEFINE n == object[r].mRefCount
        <4>1. PICK k \in Nat : k = Kept(r)
          BY <1>1, <3>1, KeptNat DEF Kept, HeldRight
        <4>2. n = k + w + g
          BY <3>1, <4>1 DEF CountsRight, Claims
        <4>3. n2 + k + g + give = n + k2 + g2 + more
          BY <2>1, <3>1, <4>1
        <4>4. n \in Nat
          BY <1>1, <3>1, HoldsSeq
        <4> HIDE DEF give, g, g2, w, w2, more, n, n2
        <4> QED
          BY <2>2, <4>2, <4>3, <4>4
      <3>2. CASE r \notin DOMAIN object
        <4>1. n2 = k2 + g2 + more
          BY <2>1, <3>2
        <4>2. give = 0 /\ w = 0
          <5>1. Unclaimed(r)
            BY <1>1, <3>2 DEF NoClaims
          <5>2. w = 0
            BY <5>1, OwedEmpty, OwedNat DEF Unclaimed, StackRight
          <5>3. give = 0
            <6>1. give = 0 \/ give = 1
              OBVIOUS
            <6> HIDE DEF give, w, w2, more
            <6>2. CASE give = 0
              BY <6>2
            <6>3. CASE give = 1
              <7>1. ~Gives(Top, r)
                <8>1. 1 \in DOMAIN calls /\ calls[1] = Top
                  BY TopIs
                <8> QED
                  BY <5>1, <8>1 DEF Unclaimed, Pending, Gives
              <7> QED
                BY <7>1 DEF give
            <6> QED
              BY <6>1, <6>2, <6>3
          <5> QED
            BY <5>2, <5>3
        <4> HIDE DEF give, g, g2, w, w2, more, n2
        <4> QED
          BY <2>1, <2>2, <4>1, <4>2
      <3> QED
        BY <3>1, <3>2
    <2> QED
      BY <2>1, <2>3 DEF Claims
  <1>3. CountsRight'
    BY <1>2 DEF CountsRight
  <1>4. ASSUME NEW r \in Res \ DOMAIN object' PROVE Unclaimed(r)'
    <2>1. Unclaimed(r)
      BY DEF NoClaims
    <2> QED
      BY <2>1, KeepUnclaimed
  <1>5. NoClaims'
    BY <1>4 DEF NoClaims
  <1> QED
    BY <1>3, <1>5

LEMMA FirmCounts ==
    ASSUME ObjectsRight, HeldRight, HeldRight', StackRight, CountsRight, NoClaims, Firm,
           calls # <<>>, NEW s \in Seq(CallType), Then(s), \A r : ~Doomed(r) /\ ~Doomed(r)',
           \A r \in DOMAIN object :
             object'[r].mRefCount + held[r] + Bit(object[r].mProtected) + Bit(got = r)
                 + (IF Gives(Top, r) THEN 1 ELSE 0)
               = object[r].mRefCount + held'[r] + Bit(object'[r].mProtected) + Bit(got' = r)
                 + Owed(s, r),
           \A r \in Res \ DOMAIN object :
             held'[r] = 0 /\ got' # r /\ \A i \in DOMAIN s : ~Gives(s[i], r)
    PROVE  CountsRight' /\ NoClaims'
  <1>1. Well(object) /\ Well(object') /\ DOMAIN object' = DOMAIN object
    BY DEF ObjectsRight, Well, Firm, SameHolds
  <1>2. ASSUME NEW r \in DOMAIN object
        PROVE  object'[r].mRefCount + Kept(r) + Bit(got = r) + (IF Gives(Top, r) THEN 1 ELSE 0)
                 = object[r].mRefCount + Kept(r)' + Bit(got' = r) + Owed(s, r)
    <2> DEFINE give == IF Gives(Top, r) THEN 1 ELSE 0
               n == object[r].mRefCount
               m == object'[r].mRefCount
               o == Holding(object, r)
               k == Keeping(object, r)
               b == Bit(object[r].mProtected)
               b2 == Bit(object'[r].mProtected)
               g == Bit(got = r)
               g2 == Bit(got' = r)
               h == held[r]
               h2 == held'[r]
               more == Owed(s, r)
    <2>1. r \in Res
      BY <1>1 DEF Well
    <2>2. o \in Nat /\ k \in Nat
      BY <2>1, Counted
    <2>3. Kept(r) = h + o + k + b /\ Kept(r)' = h2 + o + k + b2
      BY FirmIs DEF Kept
    <2>4. /\ n \in Nat /\ m \in Nat /\ b \in Nat /\ b2 \in Nat /\ g \in Nat /\ g2 \in Nat
          /\ h \in Nat /\ h2 \in Nat /\ give \in Nat /\ more \in Nat
      BY <1>1, <2>1, HoldsSeq, OwedNat, ResourcesAssumption DEF HeldRight, Bit
    <2>5. m + h + b + g + give = n + h2 + b2 + g2 + more
      OBVIOUS
    <2> HIDE DEF n, m, o, k, b, b2, g, g2, h, h2, more, give
    <2>6. m + (h + o + k + b) + g + give = n + (h2 + o + k + b2) + g2 + more
      BY <2>2, <2>4, <2>5
    <2> QED
      BY <2>3, <2>6 DEF n, m, g, g2, more, give
  <1>3. \A r \in Res \ DOMAIN object : Holders(object', r) = {}
    BY FirmIs DEF NoClaims, Unclaimed
  <1> QED
    BY <1>1, <1>2, <1>3, StepCounts

\* The parts of the invariant that look at the calls below: the stack, and those that
\* stay as they are while no call of the kind is pushed.
LEMMA LeavingStays ==
    ASSUME StackRight, calls # <<>>, NEW s \in Seq(CallType), Then(s), NEW r, Leaving(r),
           Top.op \in {"moveToDeleted", "moved"} /\ Top.res = r =>
             \E i \in DOMAIN s : s[i].op \in {"moveToDeleted", "moved"} /\ s[i].res = r
    PROVE  Leaving(r)'
  <1>1. /\ \A k \in DOMAIN s : \E i \in DOMAIN calls' : calls'[i] = s[k]
        /\ \A c : Below(c) => \E i \in DOMAIN calls' : calls'[i] = c
    BY Elements
  <1>2. PICK k \in DOMAIN calls : calls[k].op \in {"moveToDeleted", "moved"} /\ calls[k].res = r
    BY DEF Leaving
  <1>3. k = 1 \/ k \in 2 .. Len(calls)
    BY DEF StackRight
  <1>4. CASE k = 1
    <2>1. \E i \in DOMAIN s : s[i].op \in {"moveToDeleted", "moved"} /\ s[i].res = r
      BY <1>2, <1>4, TopIs
    <2> QED
      BY <1>1, <2>1 DEF Leaving
  <1>5. CASE k \in 2 .. Len(calls)
    <2>1. Below(calls[k])
      BY <1>5 DEF Below
    <2> QED
      BY <1>1, <1>2, <2>1 DEF Leaving
  <1> QED
    BY <1>3, <1>4, <1>5

LEMMA SweepsStay ==
    ASSUME NEW c, SweepRight(c), c.op = "sweep" =>
             /\ DOMAIN mOrphanedResources \subseteq DOMAIN mOrphanedResources'
             /\ \A n \in DOMAIN mOrphanedResources' :
                  \/ /\ n \in DOMAIN mOrphanedResources
                     /\ object'[mOrphanedResources'[n]].mTimeStamp
                          = object[mOrphanedResources[n]].mTimeStamp
                  \/ \A t \in Ages : object'[mOrphanedResources'[n]].mTimeStamp <= t,
           c \in CallType
    PROVE  SweepRight(c)'
  <1> SUFFICES ASSUME c.op = "sweep"
               PROVE  /\ c.iter \in DOMAIN mOrphanedResources' \cup {End}
                      /\ \A n \in DOMAIN mOrphanedResources' :
                           c.iter = End \/ n < c.iter =>
                             object'[mOrphanedResources'[n]].mTimeStamp <= c.oldest
    BY DEF SweepRight
  <1>1. c.oldest \in Ages
    BY CallFacts
  <1> QED
    BY <1>1 DEF SweepRight

LEMMA AgesStay ==
    ASSUME AgesRight, StackRight, calls # <<>>, NEW s \in Seq(CallType), Then(s),
           Top.op = "sweep" => \E i \in DOMAIN s : s[i].op = "sweep",
           mOldestOrphan' = mOldestOrphan,
           \A n \in DOMAIN mOrphanedResources' :
             /\ n \in DOMAIN mOrphanedResources
             /\ object'[mOrphanedResources'[n]].mTimeStamp
                  = object[mOrphanedResources[n]].mTimeStamp
    PROVE  AgesRight'
  <1>1. /\ \A k \in DOMAIN s : \E i \in DOMAIN calls' : calls'[i] = s[k]
        /\ \A c : Below(c) => \E i \in DOMAIN calls' : calls'[i] = c
    BY Elements
  <1>2. ASSUME Sweeping PROVE Sweeping'
    <2>1. PICK k \in DOMAIN calls : calls[k].op = "sweep"
      BY <1>2 DEF Sweeping
    <2>2. k = 1 \/ k \in 2 .. Len(calls)
      BY DEF StackRight
    <2>3. CASE k = 1
      <3>1. \E i \in DOMAIN s : s[i].op = "sweep"
        BY <2>1, <2>3, TopIs
      <3> QED
        BY <1>1, <3>1 DEF Sweeping
    <2>4. CASE k \in 2 .. Len(calls)
      <3>1. Below(calls[k])
        BY <2>4 DEF Below
      <3> QED
        BY <1>1, <2>1, <3>1 DEF Sweeping
    <2> QED
      BY <2>2, <2>3, <2>4
  <1>3. NoneOlder => NoneOlder'
    BY DEF NoneOlder
  <1> QED
    BY <1>2, <1>3 DEF AgesRight

\* What such a step must see to.  Only what is known of ages is left to the caller.
AllButAges ==
    /\ ObjectsRight /\ HeldRight /\ CountsRight /\ NoClaims
    /\ CacheRight /\ OrphanRight /\ DeletedRight /\ FoundAgain
    /\ StackRight /\ MovesRight /\ LoadsRight /\ GotRight /\ SweepsRight

LEMMA FirmStep ==
    ASSUME ResourcesInv, calls # <<>>, NEW s \in Seq(CallType), Then(s),
           Top.op # "delete", \A i \in DOMAIN s : s[i].op # "delete",
           Firm, held' = held, SameMap(mResources', mResources),
           mOrphanedResources' = mOrphanedResources, mDeletedResources' = mDeletedResources,
           \A r \in DOMAIN object :
             object[r].mRefCount = 0 => object'[r].mTimeStamp = object[r].mTimeStamp,
           \A r \in DOMAIN object :
             object'[r].mRefCount + held[r] + Bit(object[r].mProtected) + Bit(got = r)
                 + (IF Gives(Top, r) THEN 1 ELSE 0)
               = object[r].mRefCount + held'[r] + Bit(object'[r].mProtected) + Bit(got' = r)
                 + Owed(s, r),
           \A r \in Res \ DOMAIN object : got' # r /\ \A i \in DOMAIN s : ~Gives(s[i], r),
           \A i, j \in DOMAIN s : i < j => MayStandOn(s[i], s[j]),
           \A i \in DOMAIN s : \A j \in 2 .. Len(calls) : MayStandOn(s[i], calls[j]),
           \A i \in DOMAIN s : MoveRight(s[i])' /\ LoadRight(s[i])' /\ SweepRight(s[i])',
           \/ /\ \A c : Below(c) => c.op \notin Moving
              /\ \A i \in DOMAIN s : s[i].op \notin Moving
           \/ /\ \A i \in DOMAIN s : s[i].op = "decRef" => Kept(s[i].res)' > 0
              /\ \A r \in DOMAIN object : object'[r].mProtected = object[r].mProtected
              /\ \/ Top.op \in Moving
                 \/ \A c : Below(c) => c.op # "decRef"
                 \/ \A i \in DOMAIN s : s[i].op \notin Moving,
           \A i \in DOMAIN s : s[i].op \in Loading => Top.op \in Loading,
           Top.op \in {"moveToDeleted", "moved"} =>
             \E i \in DOMAIN s : s[i].op \in {"moveToDeleted", "moved"} /\ s[i].res = Top.res,
           got' \in Res \cup {Null}, got' = got \/ \A c : Below(c) => c.op \notin Giving,
           \A i \in DOMAIN s :
             s[i].op \in Waiting =>
               i # 1 /\ s[i - 1].op \notin Giving /\ Supplies(s[i - 1], s[i]),
           \A c : Second(c) /\ c.op \in Waiting =>
             IF s = <<>> \/ s[Len(s)].op \in Giving THEN Answered(c)'
             ELSE Supplies(s[Len(s)], c),
           got' # Null => /\ Len(calls) >= 2 /\ calls[Len(calls)].op = "hold"
                          /\ \A i \in DOMAIN s : s[i].op \in Giving \cup Waiting
                          /\ \A c : Below(c) => c.op \in Giving \cup Waiting
    PROVE  AllButAges'
  <1>1. /\ ObjectsRight /\ HeldRight /\ CountsRight /\ NoClaims
        /\ CacheRight /\ OrphanRight /\ DeletedRight /\ FoundAgain
        /\ StackRight /\ MovesRight /\ LoadsRight /\ GotRight /\ SweepsRight /\ AgesRight
    BY DEF ResourcesInv
  <1>2. \A r : ~Doomed(r)
    BY NotDoomed
  <1>3. \A r : ~Doomed(r)'
    <2>1. s # <<>> => 1 \in DOMAIN s
      BY TailIs
    <2> QED
      BY <1>1, <2>1, DoomAfter
  <1>4. \A r : Leaving(r) => Leaving(r)'
    BY <1>1, LeavingStays
  <1>5. ObjectsRight'
    BY <1>1, FirmObjects
  <1>6. CacheRight' /\ OrphanRight' /\ DeletedRight' /\ FoundAgain'
    BY <1>1, <1>2, <1>3, <1>4, FirmMaps
  <1>7. HeldRight'
    BY <1>1 DEF HeldRight
  <1>8. CountsRight' /\ NoClaims'
    <2>1. \A r \in Res \ DOMAIN object : held'[r] = 0
      BY <1>1 DEF NoClaims, Unclaimed
    <2> QED
      BY <1>1, <1>2, <1>3, <1>7, <2>1, FirmCounts
  <1>9. StackRight'
    BY <1>1, KeepStack
  <1>10. MovesRight'
    <2>1. CASE /\ \A c : Below(c) => c.op \notin Moving
               /\ \A i \in DOMAIN s : s[i].op \notin Moving
      <3>1. \A c : Below(c) /\ MoveRight(c) => MoveRight(c)'
        BY <2>1, MovesStay DEF Moving
      <3> QED
        BY <1>1, <2>1, <3>1, KeepMoves
    <2>2. CASE /\ \A i \in DOMAIN s : s[i].op = "decRef" => Kept(s[i].res)' > 0
               /\ \A r \in DOMAIN object : object'[r].mProtected = object[r].mProtected
               /\ \/ Top.op \in Moving
                  \/ \A c : Below(c) => c.op # "decRef"
                  \/ \A i \in DOMAIN s : s[i].op \notin Moving
      <3>1. \A r \in DOMAIN object : Kept(r) = Kept(r)'
        BY <1>1, <2>2, FirmIs DEF Kept
      <3>2. DOMAIN object = DOMAIN object'
        BY <1>1, FirmIs
      <3>3. \A c : Below(c) /\ MoveRight(c) => MoveRight(c)'
        BY <3>1, <3>2, MovesStay
      <3>4. CASE (\A c : Below(c) => c.op \notin Moving) /\ \A i \in DOMAIN s : s[i].op \notin Moving
        BY <1>1, <3>3, <3>4, KeepMoves
      <3>5. CASE \/ \E c : Below(c) /\ c.op \in Moving
                 \/ \E i \in DOMAIN s : s[i].op \in Moving
        <4>1. ASSUME NEW c, Below(c), c.op = "decRef" PROVE Kept(c.res)' > 0
          <5>1. \E k \in DOMAIN calls : calls[k].op \in Moving
            BY <1>1, <2>2, <3>5, <4>1, BelowIs, TopIs
          <5>2. PICK k \in DOMAIN calls : calls[k] = c
            BY <1>1, <4>1, BelowIs
          <5>3. Kept(c.res) > 0
            BY <1>1, <4>1, <5>1, <5>2 DEF MovesRight
          <5>4. c.res \in DOMAIN object
            <6>1. c.res \in Res
              BY <1>1, <4>1, BelowIs, CallFacts
            <6>2. k \in Pending(calls, c.res)
              BY <4>1, <5>2 DEF Pending
            <6> QED
              BY <1>1, <6>1, <6>2, Referred
          <5> QED
            BY <3>1, <5>3, <5>4
        <4> QED
          BY <1>1, <2>2, <3>3, <4>1, KeepMoves
      <3> QED
        BY <3>4, <3>5
    <2> QED
      BY <2>1, <2>2
  <1>11. LoadsRight'
    <2>1. /\ DOMAIN object' \subseteq DOMAIN object
          /\ DOMAIN mResources' \subseteq DOMAIN mResources \cup Pixels
          /\ DOMAIN mOrphanedResources' \subseteq DOMAIN mOrphanedResources \cup Pixels
      BY <1>1, FirmIs DEF SameMap
    <2>2. \A c : Below(c) /\ LoadRight(c) => LoadRight(c)'
      BY <2>1, LoadsStay
    <2> QED
      BY <1>1, <2>2, KeepLoads
  <1>12. SweepsRight'
    <2>1. \A n \in DOMAIN mOrphanedResources' :
            /\ n \in DOMAIN mOrphanedResources
            /\ object'[mOrphanedResources'[n]].mTimeStamp = object[mOrphanedResources[n]].mTimeStamp
      BY <1>1 DEF OrphanRight
    <2>2. \A c : Below(c) /\ SweepRight(c) => SweepRight(c)'
      BY <1>1, <2>1, BelowIs, SweepsStay
    <2> QED
      BY <1>1, <2>2, KeepSweeps
  <1>13. GotRight'
    BY <1>1, KeepGot
  <1> QED
    BY <1>5, <1>6, <1>7, <1>8, <1>9, <1>10, <1>11, <1>12, <1>13 DEF AllButAges

LEMMA FirmAges ==
    ASSUME ResourcesInv, calls # <<>>, NEW s \in Seq(CallType), Then(s),
           Top.op = "sweep" => \E i \in DOMAIN s : s[i].op = "sweep",
           mOldestOrphan' = mOldestOrphan, mOrphanedResources' = mOrphanedResources,
           \A r \in DOMAIN object :
             object[r].mRefCount = 0 => object'[r].mTimeStamp = object[r].mTimeStamp
    PROVE  AgesRight'
  <1>1. AgesRight /\ StackRight /\ OrphanRight
    BY DEF ResourcesInv
  <1>2. \A n \in DOMAIN mOrphanedResources' :
          /\ n \in DOMAIN mOrphanedResources
          /\ object'[mOrphanedResources'[n]].mTimeStamp = object[mOrphanedResources[n]].mTimeStamp
    BY <1>1 DEF OrphanRight
  <1> QED
    BY <1>1, <1>2, AgesStay

\* A step that changes nothing but the stack.
LEMMA StackOnly ==
    ASSUME ResourcesInv, calls # <<>>, NEW s \in Seq(CallType), Then(s),
           UNCHANGED <<mResources, mOrphanedResources, mDeletedResources, object, held, got>>,
           got = Null, Top.op # "delete", \A i \in DOMAIN s : s[i].op # "delete",
           \A r \in Res : Owed(s, r) = IF Gives(Top, r) THEN 1 ELSE 0,
           \A i, j \in DOMAIN s : i < j => MayStandOn(s[i], s[j]),
           \A i \in DOMAIN s : \A j \in 2 .. Len(calls) : MayStandOn(s[i], calls[j]),
           \A i \in DOMAIN s : MoveRight(s[i]) /\ LoadRight(s[i]) /\ SweepRight(s[i]),
           \/ /\ \A c : Below(c) => c.op \notin Moving
              /\ \A i \in DOMAIN s : s[i].op \notin Moving
           \/ /\ \A i \in DOMAIN s : s[i].op = "decRef" => Kept(s[i].res) > 0
              /\ \/ Top.op \in Moving
                 \/ \A c : Below(c) => c.op # "decRef"
                 \/ \A i \in DOMAIN s : s[i].op \notin Moving,
           \A i \in DOMAIN s : s[i].op \in Loading => Top.op \in Loading,
           Top.op \in {"moveToDeleted", "moved"} =>
             \E i \in DOMAIN s : s[i].op \in {"moveToDeleted", "moved"} /\ s[i].res = Top.res,
           \A i \in DOMAIN s :
             s[i].op \in Waiting =>
               i # 1 /\ s[i - 1].op \notin Giving /\ Supplies(s[i - 1], s[i]),
           \A c : Second(c) /\ c.op \in Waiting =>
             s = <<>> \/ (s[Len(s)].op \notin Giving /\ Supplies(s[Len(s)], c))
    PROVE  AllButAges'
  <1>1. ObjectsRight /\ NoClaims /\ StackRight /\ CacheRight /\ CountsRight
    BY DEF ResourcesInv
  <1>2. Firm
    BY <1>1 DEF Firm, Well, SameHolds, ObjectsRight
  <1>3. SameMap(mResources', mResources)
    BY DEF SameMap
  <1>4. \A i \in DOMAIN s : MoveRight(s[i])' /\ LoadRight(s[i])' /\ SweepRight(s[i])'
    <2>1. \A c : MoveRight(c) => MoveRight(c)'
      BY <1>1, FirmIs, <1>2 DEF MoveRight, Kept
    <2>2. \A c : LoadRight(c) => LoadRight(c)'
      BY DEF LoadRight, Room, Alive
    <2>3. \A c : SweepRight(c) => SweepRight(c)'
      BY DEF SweepRight
    <2> QED
      BY <2>1, <2>2, <2>3
  <1>5. \A r : Kept(r) = Kept(r)'
    BY DEF Kept
  <1>6. \A c : Answered(c)'
    BY DEF Answered
  <1>7. ASSUME NEW r \in DOMAIN object
        PROVE  object'[r].mRefCount + held[r] + Bit(object[r].mProtected) + Bit(got = r)
                 + (IF Gives(Top, r) THEN 1 ELSE 0)
               = object[r].mRefCount + held'[r] + Bit(object'[r].mProtected) + Bit(got' = r)
                 + Owed(s, r)
    <2>1. r \in Res
      BY <1>1 DEF ObjectsRight
    <2> QED
      BY <2>1
  <1>8. ASSUME NEW r \in Res \ DOMAIN object
        PROVE  got' # r /\ \A i \in DOMAIN s : ~Gives(s[i], r)
    <2>1. Unclaimed(r)
      BY <1>1 DEF NoClaims
    <2>2. ~Gives(Top, r)
      BY <1>1, <2>1, TopIs DEF Unclaimed, Pending, Gives
    <2>3. Owed(s, r) = 0
      BY <2>2
    <2>4. Pending(s, r) = {}
      BY <2>3, OwedNat
    <2>5. \A i \in DOMAIN s : ~Gives(s[i], r)
      BY <2>4 DEF Pending, Gives
    <2> QED
      BY <2>1, <2>5 DEF Unclaimed
  <1>9. got' \in Res \cup {Null} /\ got' = got
    OBVIOUS
  <1>10. \A i \in DOMAIN s : s[i].op = "decRef" /\ Kept(s[i].res) > 0 => Kept(s[i].res)' > 0
    BY <1>5
  <1>11. ASSUME NEW c, Second(c), c.op \in Waiting
         PROVE  IF s = <<>> \/ s[Len(s)].op \in Giving THEN Answered(c)'
                ELSE Supplies(s[Len(s)], c)
    BY <1>6, <1>11
  <1> QED
    BY <1>2, <1>3, <1>4, <1>7, <1>8, <1>9, <1>10, <1>11, FirmStep

\* While any other call runs nothing has been got, and what waits right below it waits
\* for what it gets.
LEMMA Silent ==
    ASSUME GotRight, StackRight, calls # <<>>, Top.op \notin Giving \cup Waiting
    PROVE  /\ got = Null
           /\ \A c : Second(c) /\ c.op \in Waiting => Supplies(Top, c)
           /\ Top.op \notin Loading => \A c : Second(c) => c.op \notin Waiting
  <1>1. Top = calls[1] /\ 1 \in DOMAIN calls
    BY TopIs
  <1>2. got = Null
    BY <1>1 DEF GotRight
  <1>3. ASSUME NEW c, Second(c), c.op \in Waiting PROVE Supplies(Top, c)
    <2>1. 2 \in DOMAIN calls /\ calls[2] = c
      BY <1>3 DEF Second, StackRight
    <2> QED
      BY <1>1, <1>3, <2>1 DEF GotRight
  <1> QED
    BY <1>2, <1>3 DEF Supplies

LEMMA PopOnly ==
    ASSUME ResourcesInv, calls # <<>>, Then(<<>>),
           UNCHANGED <<mResources, mOrphanedResources, mDeletedResources, object, held, got>>,
           got = Null, Top.op \notin {"decRef", "delete", "moveToDeleted", "moved", "decRefDelete"}
    PROVE  AllButAges'
  <1> DEFINE s == <<>>
  <1>1. s \in Seq(CallType) /\ DOMAIN s = {}
    OBVIOUS
  <1>2. \A r \in Res : Owed(s, r) = IF Gives(Top, r) THEN 1 ELSE 0
    BY OwedEmpty DEF Gives
  <1> QED
    BY <1>1, <1>2, StackOnly

LEMMA PopAges ==
    ASSUME ResourcesInv, calls # <<>>, Then(<<>>), Top.op # "sweep",
           UNCHANGED <<mOldestOrphan, mOrphanedResources, object>>
    PROVE  AgesRight'
  <1> DEFINE s == <<>>
  <1>1. s \in Seq(CallType)
    OBVIOUS
  <1>2. Then(s)
    OBVIOUS
  <1> HIDE DEF s
  <1> QED
    BY <1>1, <1>2, FirmAges

LEMMA PairIs ==
    ASSUME NEW a \in CallType, NEW b \in CallType
    PROVE  /\ <<a, b>> \in Seq(CallType) /\ DOMAIN <<a, b>> = {1, 2} /\ Len(<<a, b>>) = 2
           /\ <<a, b>>[1] = a /\ <<a, b>>[2] = b /\ <<a, b>> # <<>>
           /\ <<a>> \o <<b>> = <<a, b>>
           /\ \A r : Owed(<<a, b>>, r) = (IF Gives(a, r) THEN 1 ELSE 0)
                                         + (IF Gives(b, r) THEN 1 ELSE 0)
  <1>1. /\ <<a, b>> \in Seq(CallType) /\ Head(<<a, b>>) = a /\ Tail(<<a, b>>) = <<b>>
        /\ <<a, b>> # <<>>
    OBVIOUS
  <1>2. \A t \in Seq(CallType) : t # <<>> => t = <<Head(t)>> \o Tail(t)
    OBVIOUS
  <1>3. ASSUME NEW r PROVE Owed(<<a, b>>, r) = (IF Gives(a, r) THEN 1 ELSE 0)
                                               + (IF Gives(b, r) THEN 1 ELSE 0)
    <2>1. Owed(<<a, b>>, r) = (IF Gives(a, r) THEN 1 ELSE 0) + Owed(<<b>>, r)
      BY <1>1, OwedTail
    <2>2. Owed(<<b>>, r) = IF Gives(b, r) THEN 1 ELSE 0
      BY OwedOne
    <2> QED
      BY <2>1, <2>2
  <1>4. <<a>> \o <<b>> = <<a, b>>
    BY <1>1, <1>2
  <1> QED
    BY <1>1, <1>3, <1>4

LEMMA OneIs ==
    ASSUME NEW a \in CallType
    PROVE  /\ <<a>> \in Seq(CallType) /\ DOMAIN <<a>> = {1} /\ Len(<<a>>) = 1
           /\ <<a>>[1] = a /\ <<a>> # <<>>
           /\ \A r : Owed(<<a>>, r) = IF Gives(a, r) THEN 1 ELSE 0
  <1>1. \A r : Owed(<<a>>, r) = IF Gives(a, r) THEN 1 ELSE 0
    BY OwedOne
  <1>2. <<a>> \in Seq(CallType) /\ DOMAIN <<a>> = {1} /\ Len(<<a>>) = 1
        /\ <<a>>[1] = a /\ <<a>> # <<>>
    OBVIOUS
  <1> QED
    BY <1>1, <1>2

----------------------------------------------------------------------------
(* Every step keeps the invariant: first, those of the stack alone.        *)

LEMMA MoveToDeletedKeeps ==
    ASSUME ResourcesInv, MoveToDeleted
    PROVE  ResourcesInv'
  <1>1. /\ ObjectsRight /\ HeldRight /\ CountsRight /\ NoClaims /\ StackRight /\ MovesRight
        /\ GotRight /\ AgesRight
    BY DEF ResourcesInv
  <1>2. calls # <<>> /\ Top.op = "moveToDeleted"
    BY DEF MoveToDeleted, Running
  <1>3. Top \in CallType /\ Top = calls[1] /\ 1 \in DOMAIN calls
    BY <1>1, <1>2, TopIs
  <1>4. PICK r \in Res : r = Top.res
    BY <1>2, <1>3, CallFacts
  <1>5. r \in DOMAIN object /\ Kept(r) > 0 /\ Id(r) \in Pixels \ Wallpapers
    BY <1>1, <1>2, <1>3, <1>4 DEF MovesRight, MoveRight
  <1>6. object[r].mRefCount = Claims(r)
    BY <1>1, <1>2, <1>5, NotDoomed DEF CountsRight
  <1>7. Owed(calls, r) > 0
    <2>1. 1 \in Pending(calls, r)
      BY <1>2, <1>3, <1>4 DEF Pending
    <2> QED
      BY <1>1, <2>1, Counted
  <1>8. object[r].mRefCount \in Nat /\ object[r].mRefCount > 1
    BY <1>1, <1>5, <1>6, <1>7, Counted DEF Claims
  <1> DEFINE a == Call("decRef", r)
             b == [op |-> "moved", res |-> r, count |-> object[r].mRefCount]
             s == <<a, b>>
  <1>9. /\ a \in CallType /\ a.op = "decRef" /\ a.res = r
        /\ b \in CallType /\ b.op = "moved" /\ b.res = r /\ b.count > 1
    BY <1>8, CallIs DEF CallType
  <1>10. Then(s) /\ UNCHANGED <<maps, object, held, got>>
    BY <1>4 DEF MoveToDeleted
  <1> HIDE DEF a, b
  <1>11. /\ s \in Seq(CallType) /\ DOMAIN s = {1, 2} /\ Len(s) = 2 /\ s[1] = a /\ s[2] = b
         /\ s # <<>> /\ \A x : Owed(s, x) = (IF Gives(a, x) THEN 1 ELSE 0)
                                           + (IF Gives(b, x) THEN 1 ELSE 0)
    BY <1>9, PairIs
  <1> HIDE DEF s
  <1>12. \A x \in Res : Owed(s, x) = IF Gives(Top, x) THEN 1 ELSE 0
    BY <1>2, <1>4, <1>9, <1>11 DEF Gives
  <1>13. Id(r) \in Pixels /\ ~IsAtlas(r)
    BY <1>5, ResourcesAssumption DEF Pixels, IsAtlas
  <1>14. \A i, j \in DOMAIN s : i < j => MayStandOn(s[i], s[j])
    BY <1>9, <1>11, <1>13 DEF MayStandOn
  <1>15. ASSUME NEW c \in CallType, MayStandOn(Top, c)
         PROVE  /\ MayStandOn(a, c) /\ MayStandOn(b, c)
                /\ c.op # "decRef" /\ c.op \notin Waiting \ {"hold"}
    BY <1>2, <1>9, <1>13, <1>15 DEF MayStandOn, Giving, Loading, Waiting
  <1>16. \A i \in DOMAIN s : \A j \in 2 .. Len(calls) : MayStandOn(s[i], calls[j])
    BY <1>1, <1>2, <1>11, <1>15, TopIs
  <1>17. \A i \in DOMAIN s : MoveRight(s[i]) /\ LoadRight(s[i]) /\ SweepRight(s[i])
    BY <1>5, <1>9, <1>11 DEF MoveRight, LoadRight, SweepRight, Loading
  <1>18. got = Null /\ \A c : Second(c) => c.op \notin Waiting
    BY <1>1, <1>2, Silent DEF Giving, Waiting, Loading
  <1>19. /\ Top.op \in Moving
         /\ \A i \in DOMAIN s : s[i].op = "decRef" => Kept(s[i].res) > 0
    BY <1>2, <1>5, <1>9, <1>11 DEF Moving
  <1>20. \A i \in DOMAIN s : /\ s[i].op \notin Loading /\ s[i].op \notin Waiting
                             /\ s[i].op # "delete"
    BY <1>9, <1>11 DEF Loading, Waiting
  <1>21. \E i \in DOMAIN s : s[i].op \in {"moveToDeleted", "moved"} /\ s[i].res = Top.res
    BY <1>4, <1>9, <1>11
  <1>22. UNCHANGED <<mResources, mOrphanedResources, mDeletedResources, object, held, got>>
    BY <1>10 DEF maps
  <1>23. AllButAges'
    BY <1>2, <1>10, <1>11, <1>12, <1>14, <1>16, <1>17, <1>18, <1>19, <1>20, <1>21, <1>22,
       StackOnly
  <1>24. AgesRight'
    BY <1>2, <1>10, <1>11, FirmAges DEF maps
  <1> QED
    BY <1>23, <1>24 DEF AllButAges, ResourcesInv

LEMMA ClearDeletedKeeps ==
    ASSUME ResourcesInv, ClearDeleted
    PROVE  ResourcesInv'
  <1>1. StackRight /\ GotRight /\ DeletedRight
    BY DEF ResourcesInv
  <1>2. calls # <<>> /\ Top.op = "clearDeleted"
    BY DEF ClearDeleted, Running
  <1>3. {r \in mDeletedResources : object[r].mRefCount = 0} = {}
    BY <1>1 DEF DeletedRight
  <1>4. /\ Then(<<>>) /\ UNCHANGED mOldestOrphan
        /\ UNCHANGED <<mResources, mOrphanedResources, mDeletedResources, object, held, got>>
    BY <1>3 DEF ClearDeleted
  <1>5. got = Null
    BY <1>1, <1>2, Silent DEF Giving, Waiting
  <1>6. AllButAges'
    BY <1>2, <1>4, <1>5, PopOnly
  <1>7. AgesRight'
    BY <1>2, <1>4, PopAges
  <1> QED
    BY <1>6, <1>7 DEF AllButAges, ResourcesInv

LEMMA GetNothingKeeps ==
    ASSUME ResourcesInv, GetNothing
    PROVE  ResourcesInv'
  <1>1. StackRight /\ GotRight
    BY DEF ResourcesInv
  <1>2. calls # <<>> /\ Top.op = "get"
    BY DEF GetNothing, Missed, Running
  <1>3. got = Null
    BY <1>1, <1>2, Silent DEF Giving, Waiting
  <1>4. /\ Then(<<>>) /\ UNCHANGED mOldestOrphan
        /\ UNCHANGED <<mResources, mOrphanedResources, mDeletedResources, object, held, got>>
    BY <1>3 DEF GetNothing, maps
  <1>5. AllButAges'
    BY <1>2, <1>3, <1>4, PopOnly
  <1>6. AgesRight'
    BY <1>2, <1>4, PopAges
  <1> QED
    BY <1>5, <1>6 DEF AllButAges, ResourcesInv

LEMMA SweepEndKeeps ==
    ASSUME ResourcesInv, SweepEnd
    PROVE  ResourcesInv'
  <1>1. StackRight /\ GotRight /\ SweepsRight /\ OrphanRight
    BY DEF ResourcesInv
  <1>2. calls # <<>> /\ Top.op = "sweep" /\ Top.iter = End
    BY DEF SweepEnd, Running
  <1>3. Top \in CallType /\ Top = calls[1] /\ 1 \in DOMAIN calls
    BY <1>1, <1>2, TopIs
  <1>4. got = Null
    BY <1>1, <1>2, Silent DEF Giving, Waiting
  <1>5. /\ Then(<<>>) /\ mOldestOrphan' = Top.oldest
        /\ UNCHANGED <<mResources, mOrphanedResources, mDeletedResources, object, held, got>>
    BY <1>4 DEF SweepEnd
  <1>6. AllButAges'
    BY <1>2, <1>4, <1>5, PopOnly
  <1>7. Top.oldest \in Ages
    BY <1>2, <1>3, CallFacts
  <1>8. \A n \in DOMAIN mOrphanedResources : object[mOrphanedResources[n]].mTimeStamp <= Top.oldest
    BY <1>1, <1>2, <1>3 DEF SweepsRight, SweepRight
  <1>9. AgesRight'
    BY <1>5, <1>7, <1>8 DEF AgesRight, NoneOlder
  <1> QED
    BY <1>6, <1>9 DEF AllButAges, ResourcesInv

\* Where a sweep begins.
LEMMA SweepIs ==
    ASSUME OrphanRight, ObjectsRight, AgesRight, NEW always \in BOOLEAN, Sweep(always) # <<>>
    PROVE  \E c \in CallType : /\ Sweep(always) = <<c>> /\ c.op = "sweep" /\ SweepRight(c)
  <1> DEFINE c == [op |-> "sweep", iter |-> From(mOrphanedResources, 1), always |-> always,
                   oldest |-> 0]
  <1>1. Sweep(always) = <<c>>
    BY DEF Sweep
  <1>2. DOMAIN mOrphanedResources \subseteq Ids
    <2>1. ASSUME NEW i \in DOMAIN mOrphanedResources PROVE i \in Ids
      <3>1. mOrphanedResources[i] \in Res /\ Id(mOrphanedResources[i]) = i
        BY DEF OrphanRight, ObjectsRight
      <3> QED
        BY <3>1, ResFacts
    <2> QED
      BY <2>1
  <1>3. /\ From(mOrphanedResources, 1) \in DOMAIN mOrphanedResources \cup {End}
        /\ \A i \in DOMAIN mOrphanedResources :
             i >= 1 => From(mOrphanedResources, 1) # End /\ From(mOrphanedResources, 1) <= i
    BY <1>2, FromIs
  <1>4. 0 \in Ages
    BY ResourcesAssumption DEF Ages
  <1>5. c \in CallType /\ c.op = "sweep" /\ c.iter = From(mOrphanedResources, 1)
    <2>1. From(mOrphanedResources, 1) \in Ids \cup {End}
      BY <1>2, <1>3
    <2>2. c \in [op : {"sweep"}, iter : Ids \cup {End}, always : BOOLEAN, oldest : Ages]
      BY <1>4, <2>1
    <2> QED
      BY <2>2 DEF CallType
  <1>6. \A n \in DOMAIN mOrphanedResources : n >= 1 /\ n \in Nat
    <2>1. \A n \in DOMAIN mOrphanedResources : n \in Nat /\ n # 0
      BY <1>2, ResourcesAssumption
    <2> QED
      BY <2>1
  <1>7. From(mOrphanedResources, 1) \in Nat
    BY <1>2, <1>3, <1>6 DEF End
  <1> HIDE DEF c
  <1>8. SweepRight(c)
    BY <1>3, <1>5, <1>6, <1>7 DEF SweepRight
  <1> QED
    BY <1>1, <1>5, <1>8

LEMMA SweepAgainKeeps ==
    ASSUME ResourcesInv, SweepAgain
    PROVE  ResourcesInv'
  <1>1. StackRight /\ GotRight /\ OrphanRight /\ ObjectsRight /\ AgesRight
    BY DEF ResourcesInv
  <1>2. calls # <<>> /\ Top.op = "sweepAll"
    BY DEF SweepAgain, Running
  <1>3. Top \in CallType /\ \A c : ~Second(c) \/ MayStandOn(Top, c)
    <2>1. \A c : Second(c) => 2 \in 2 .. Len(calls)
      BY <1>1 DEF Second, StackRight
    <2> QED
      BY <1>1, <1>2, <2>1, TopIs DEF Second
  <1>4. got = Null /\ \A c : Second(c) => c.op \notin Waiting
    BY <1>1, <1>2, Silent DEF Giving, Waiting, Loading
  <1>5. UNCHANGED mOldestOrphan /\
        UNCHANGED <<mResources, mOrphanedResources, mDeletedResources, object, held, got>>
    BY DEF SweepAgain, maps
  <1>6. CASE Sweep(TRUE) = <<>>
    <2>1. Then(<<>>)
      BY <1>6 DEF SweepAgain
    <2>2. AllButAges'
      BY <1>2, <1>4, <1>5, <2>1, PopOnly
    <2>3. AgesRight'
      BY <1>2, <1>5, <2>1, PopAges
    <2> QED
      BY <2>2, <2>3 DEF AllButAges, ResourcesInv
  <1>7. CASE Sweep(TRUE) # <<>>
    <2>1. PICK a \in CallType : Sweep(TRUE) = <<a>> /\ a.op = "sweep" /\ SweepRight(a)
      BY <1>1, <1>7, SweepIs
    <2>2. PICK b \in CallType : b = Top /\ b.op = "sweepAll"
      BY <1>2, <1>3
    <2> DEFINE s == <<a, b>>
    <2>3. Then(s)
      <3>1. <<a>> \o <<b>> = <<a, b>>
        BY PairIs
      <3> QED
        BY <1>7, <2>1, <2>2, <3>1 DEF SweepAgain
    <2>4. /\ s \in Seq(CallType) /\ DOMAIN s = {1, 2} /\ Len(s) = 2 /\ s[1] = a /\ s[2] = b
          /\ s # <<>> /\ \A x : Owed(s, x) = (IF Gives(a, x) THEN 1 ELSE 0)
                                             + (IF Gives(b, x) THEN 1 ELSE 0)
      BY PairIs
    <2> HIDE DEF s
    <2>5. \A x \in Res : Owed(s, x) = IF Gives(Top, x) THEN 1 ELSE 0
      BY <1>2, <2>1, <2>2, <2>4 DEF Gives
    <2>6. \A j \in 2 .. Len(calls) : FALSE
      <3>1. \A c : ~MayStandOn(Top, c) \/ c.op \notin
              {"decRef", "delete", "moveToDeleted", "decRefDelete", "clearDeleted", "moved", "get",
               "newSet", "newSprite", "retire", "newAtlas", "hold", "unprotect", "sweepAll", "sweep"}
        BY <1>2 DEF MayStandOn, Loading, Giving
      <3> QED
        BY <1>1, <1>2, <3>1, TopIs, CallFacts
    <2>7. \A i, j \in DOMAIN s : i < j => MayStandOn(s[i], s[j])
      BY <2>1, <2>2, <2>4 DEF MayStandOn, Giving
    <2>8. \A i \in DOMAIN s : MoveRight(s[i]) /\ LoadRight(s[i]) /\ SweepRight(s[i])
      BY <2>1, <2>2, <2>4 DEF MoveRight, LoadRight, SweepRight, Loading
    <2>9. \A c : ~Below(c)
      BY <2>6 DEF Below
    <2>10. \A i \in DOMAIN s : /\ s[i].op \notin Moving /\ s[i].op \notin Loading
                               /\ s[i].op \notin Waiting /\ s[i].op # "delete"
      BY <2>1, <2>2, <2>4 DEF Moving, Loading, Waiting
    <2>11. AllButAges'
      BY <1>2, <1>4, <1>5, <2>3, <2>4, <2>5, <2>6, <2>7, <2>8, <2>9, <2>10, StackOnly
    <2>12. AgesRight'
      BY <1>2, <1>5, <2>3, <2>4, FirmAges
    <2> QED
      BY <2>11, <2>12 DEF AllButAges, ResourcesInv
  <1> QED
    BY <1>6, <1>7

\* What waits below a get, and why: only the loaders that need what it gets.
LEMMA GetAbove ==
    ASSUME StackRight, calls # <<>>, Top.op = "get", NEW c, Below(c)
    PROVE  /\ c \in CallType /\ MayStandOn(Top, c)
           /\ \/ c.op = "hold"
              \/ c.op = "newSprite" /\ Top.id \in Images \cup Sets
              \/ c.op = "newSet" /\ Top.id \in Images
  <1>1. c \in CallType /\ MayStandOn(Top, c)
    BY BelowIs
  <1>2. c.op \in {"decRef", "delete", "moveToDeleted", "decRefDelete", "clearDeleted",
                  "moved", "get", "newSet", "newSprite", "retire", "newAtlas", "hold",
                  "unprotect", "sweepAll", "sweep"}
    BY <1>1, CallFacts
  <1> QED
    BY <1>1, <1>2 DEF MayStandOn, Giving

LEMMA SecondBelow ==
    ASSUME StackRight, calls # <<>>
    PROVE  /\ \A c : Second(c) => Below(c)
           /\ \A j \in 2 .. Len(calls) : Below(calls[j])
  <1>1. calls \in Seq(CallType)
    BY DEF StackRight
  <1> QED
    BY <1>1 DEF Second, Below

\* One resource more to get before the call that makes the next: two calls of a loader.
LEMMA LoadTwo ==
    ASSUME ResourcesInv, calls # <<>>, Top.op = "get", UNCHANGED <<maps, object, held, got>>,
           NEW a \in CallType, NEW b \in CallType, Then(<<a, b>>),
           a.op = "get", b.op \in {"newSet", "newSprite"}, b.id = Top.id,
           MayStandOn(a, b), \A c : Below(c) => MayStandOn(a, c) /\ MayStandOn(b, c),
           LoadRight(a), LoadRight(b), Supplies(a, b)
    PROVE  ResourcesInv'
  <1> DEFINE s == <<a, b>>
  <1>1. StackRight /\ GotRight
    BY DEF ResourcesInv
  <1>2. UNCHANGED <<mResources, mOrphanedResources, mDeletedResources, object, held, got>>
        /\ UNCHANGED mOldestOrphan
    BY DEF maps
  <1>3. /\ s \in Seq(CallType) /\ DOMAIN s = {1, 2} /\ Len(s) = 2 /\ s[1] = a /\ s[2] = b
        /\ s # <<>> /\ \A x : Owed(s, x) = (IF Gives(a, x) THEN 1 ELSE 0)
                                           + (IF Gives(b, x) THEN 1 ELSE 0)
    BY PairIs
  <1>4. Then(s)
    OBVIOUS
  <1> HIDE DEF s
  <1>5. \A x \in Res : Owed(s, x) = IF Gives(Top, x) THEN 1 ELSE 0
    BY <1>3 DEF Gives
  <1>6. \A i, j \in DOMAIN s : i < j => MayStandOn(s[i], s[j])
    BY <1>3
  <1>7. \A i \in DOMAIN s : \A j \in 2 .. Len(calls) : MayStandOn(s[i], calls[j])
    BY <1>1, <1>3, SecondBelow
  <1>8. \A i \in DOMAIN s : MoveRight(s[i]) /\ LoadRight(s[i]) /\ SweepRight(s[i])
    BY <1>3 DEF MoveRight, SweepRight
  <1>9. got = Null /\ \A c : Second(c) /\ c.op \in Waiting => Supplies(Top, c)
    BY <1>1, Silent DEF Giving, Waiting
  <1>10. \A c : Supplies(Top, c) => Supplies(b, c)
    BY DEF Supplies, Loading
  <1>11. \A c : Below(c) => c.op \notin Moving
    BY <1>1, GetAbove DEF Moving
  <1>12. \A i \in DOMAIN s : s[i].op \notin Moving /\ s[i].op # "delete"
    BY <1>3 DEF Moving
  <1>13. Top.op \in Loading
    BY DEF Loading
  <1>14. \A i \in DOMAIN s : s[i].op \in Waiting =>
            i # 1 /\ s[i - 1].op \notin Giving /\ Supplies(s[i - 1], s[i])
    BY <1>3 DEF Waiting, Giving
  <1>15. \A c : Second(c) /\ c.op \in Waiting =>
            s = <<>> \/ (s[Len(s)].op \notin Giving /\ Supplies(s[Len(s)], c))
    BY <1>3, <1>9, <1>10 DEF Giving
  <1>16. AllButAges'
    BY <1>1, <1>2, <1>3, <1>4, <1>5, <1>6, <1>7, <1>8, <1>9, <1>11, <1>12, <1>13, <1>14, <1>15,
       StackOnly
  <1>17. AgesRight'
    BY <1>2, <1>3, <1>4, FirmAges
  <1> QED
    BY <1>16, <1>17 DEF AllButAges, ResourcesInv

LEMMA KindsApart ==
    /\ \A i \in Images : i \notin Sets /\ i \notin Sprites /\ i \notin Atlases /\ i \notin Textures
    /\ \A i \in Sets : i \notin Images /\ i \notin Sprites /\ i \notin Atlases /\ i \notin Textures
    /\ \A i \in Sprites : i \notin Images /\ i \notin Sets /\ i \notin Atlases /\ i \notin Textures
    /\ \A i \in Atlases : i \notin Images /\ i \notin Sets /\ i \notin Sprites /\ i \notin Textures
    /\ \A i \in Textures : i \notin Images /\ i \notin Sets /\ i \notin Sprites /\ i \notin Atlases
    /\ Wallpapers \subseteq Images
  BY ResourcesAssumption

LEMMA LoadsIs ==
    ASSUME NEW id \in Ids
    PROVE  /\ Load(id) \in CallType /\ Load(id).op = "get" /\ Load(id).id = id
           /\ \A op \in {"newSet", "newSprite", "retire", "newAtlas"} :
                Make(op, id) \in CallType /\ Make(op, id).op = op /\ Make(op, id).id = id
  BY DEF Load, Make, CallType

LEMMA GetSetKeeps ==
    ASSUME ResourcesInv, GetParts, Top.id \in Sets
    PROVE  ResourcesInv'
  <1>1. StackRight /\ LoadsRight
    BY DEF ResourcesInv
  <1>2. /\ calls # <<>> /\ Top.op = "get" /\ UNCHANGED <<maps, object, held, got>>
        /\ Top.id \notin DOMAIN mResources \cup DOMAIN mOrphanedResources
    BY DEF GetParts, Missed, Running
  <1>3. PICK id \in Sets : id = Top.id
    OBVIOUS
  <1>4. PICK image \in Images : image = ImageOf[id]
    BY ResourcesAssumption
  <1> DEFINE a == Load(image)
             b == Make("newSet", id)
  <1>5. id \in Ids /\ image \in Ids
    BY DEF Ids
  <1>6. /\ a \in CallType /\ a.op = "get" /\ a.id = image
        /\ b \in CallType /\ b.op = "newSet" /\ b.id = id
    BY <1>5, LoadsIs
  <1>7. Then(<<a, b>>)
    BY <1>3, <1>4, KindsApart DEF GetParts
  <1> HIDE DEF a, b
  <1>8. LoadRight(Top) /\ Top \in CallType
    BY <1>1, <1>2, TopIs DEF LoadsRight
  <1>9. Needed(image) = {image} /\ Needed(id) = {id, image}
    BY <1>4, KindsApart DEF Needed
  <1>10. Room(image) # {} /\ Room(id) # {}
    BY <1>2, <1>3, <1>8, <1>9 DEF LoadRight, ToMake, Loading
  <1>11. LoadRight(a)
    BY <1>6, <1>9, <1>10, KindsApart DEF LoadRight, ToMake, Loading
  <1>12. LoadRight(b)
    BY <1>2, <1>3, <1>6, <1>10 DEF LoadRight, ToMake, Loading
  <1>13. MayStandOn(a, b) /\ Supplies(a, b)
    BY <1>6 DEF MayStandOn, Supplies, Fits, Loading, Giving
  <1>14. ASSUME NEW c, Below(c) PROVE MayStandOn(a, c) /\ MayStandOn(b, c)
    <2>1. c.op = "hold" \/ c.op = "newSprite"
      BY <1>1, <1>2, <1>14, GetAbove, KindsApart
    <2> QED
      BY <1>6, <2>1 DEF MayStandOn, Loading
  <1> QED
    BY <1>2, <1>3, <1>6, <1>7, <1>11, <1>12, <1>13, <1>14, LoadTwo

LEMMA GetSpriteKeeps ==
    ASSUME ResourcesInv, GetParts, Top.id \in Sprites
    PROVE  ResourcesInv'
  <1>1. StackRight /\ LoadsRight
    BY DEF ResourcesInv
  <1>2. /\ calls # <<>> /\ Top.op = "get" /\ UNCHANGED <<maps, object, held, got>>
        /\ Top.id \notin DOMAIN mResources \cup DOMAIN mOrphanedResources
    BY DEF GetParts, Missed, Running
  <1>3. PICK id \in Sprites : id = Top.id
    OBVIOUS
  <1>4. PICK set \in Sets : set = SetOf[id]
    BY ResourcesAssumption
  <1> DEFINE a == Load(set)
             b == Make("newSprite", id)
  <1>5. id \in Ids /\ set \in Ids
    BY DEF Ids
  <1>6. /\ a \in CallType /\ a.op = "get" /\ a.id = set
        /\ b \in CallType /\ b.op = "newSprite" /\ b.id = id
    BY <1>5, LoadsIs
  <1>7. Then(<<a, b>>)
    BY <1>3, <1>4, KindsApart DEF GetParts
  <1> HIDE DEF a, b
  <1>8. LoadRight(Top) /\ Top \in CallType
    BY <1>1, <1>2, TopIs DEF LoadsRight
  <1>9. Needed(set) = {set, ImageOf[set]} /\ Needed(id) = {id, set, ImageOf[set]}
    BY <1>3, <1>4, KindsApart DEF Needed
  <1>10. \A n \in {id, set, ImageOf[set]} : Room(n) # {}
    BY <1>2, <1>3, <1>8, <1>9 DEF LoadRight, ToMake, Loading
  <1>11. LoadRight(a)
    BY <1>6, <1>9, <1>10, KindsApart DEF LoadRight, ToMake, Loading
  <1>12. LoadRight(b)
    BY <1>2, <1>3, <1>6, <1>10 DEF LoadRight, ToMake, Loading
  <1>13. MayStandOn(a, b) /\ Supplies(a, b)
    BY <1>6 DEF MayStandOn, Supplies, Fits, Loading, Giving
  <1>14. ASSUME NEW c, Below(c) PROVE MayStandOn(a, c) /\ MayStandOn(b, c)
    <2>1. c.op = "hold"
      BY <1>1, <1>2, <1>14, GetAbove, KindsApart
    <2> QED
      BY <1>6, <2>1 DEF MayStandOn, Loading
  <1> QED
    BY <1>2, <1>3, <1>6, <1>7, <1>11, <1>12, <1>13, <1>14, LoadTwo

LEMMA AtlasFacts ==
    ASSUME NEW id \in Atlases
    PROVE  /\ DOMAIN FilesOf[id] = 1 .. Len(FilesOf[id]) /\ Len(FilesOf[id]) \in Nat
           /\ \A i \in DOMAIN FilesOf[id] : /\ FilesOf[id][i] \in Images \ Wallpapers
                                            /\ FilesOf[id][i] \in Ids
           /\ Range(FilesOf[id]) \subseteq Images \ Wallpapers
  <1> DEFINE F == FilesOf[id]
  <1>1. F \in Seq(Images) /\ Range(F) \cap Wallpapers = {}
    BY ResourcesAssumption
  <1>2. \A i \in DOMAIN F : F[i] \in Range(F)
    BY DEF Range
  <1>3. DOMAIN F = 1 .. Len(F) /\ Len(F) \in Nat /\ \A i \in DOMAIN F : F[i] \in Images
    BY <1>1
  <1>4. \A i \in DOMAIN F : F[i] \in Ids
    BY <1>3 DEF Ids
  <1>5. Range(F) \subseteq Images \ Wallpapers
    BY <1>1, <1>3 DEF Range
  <1> HIDE DEF F
  <1>6. \A i \in DOMAIN F : F[i] \in Images \ Wallpapers
    BY <1>2, <1>5
  <1> USE DEF F
  <1> QED
    BY <1>3, <1>4, <1>5, <1>6

LEMMA GetAtlasKeeps ==
    ASSUME ResourcesInv, GetParts, Top.id \in Atlases
    PROVE  ResourcesInv'
  <1>1. StackRight /\ LoadsRight /\ GotRight
    BY DEF ResourcesInv
  <1>2. /\ calls # <<>> /\ Top.op = "get" /\ UNCHANGED <<maps, object, held, got>>
        /\ Top.id \notin DOMAIN mResources \cup DOMAIN mOrphanedResources
    BY DEF GetParts, Missed, Running
  <1>3. PICK id \in Atlases : id = Top.id
    OBVIOUS
  <1>4. id \in Ids
    BY DEF Ids
  <1> DEFINE F == FilesOf[id]
             p == [i \in DOMAIN F |-> Make("retire", F[i])]
             b == Make("newAtlas", id)
             s == p \o <<b>>
  <1>5. /\ DOMAIN F = 1 .. Len(F) /\ Len(F) \in Nat
        /\ \A i \in DOMAIN F : F[i] \in Images \ Wallpapers /\ F[i] \in Ids
    BY AtlasFacts
  <1>6. b \in CallType /\ b.op = "newAtlas" /\ b.id = id
    BY <1>4, LoadsIs
  <1>7. /\ DOMAIN p = 1 .. Len(F)
        /\ \A i \in 1 .. Len(F) : p[i] \in CallType /\ p[i].op = "retire" /\ p[i].id = F[i]
    BY <1>5, LoadsIs
  <1>8. p \in Seq(CallType) /\ Len(p) = Len(F)
    <2>1. p = [i \in 1 .. Len(F) |-> p[i]]
      BY <1>5
    <2> HIDE DEF p
    <2>2. [i \in 1 .. Len(F) |-> p[i]] \in Seq(CallType)
      BY <1>5, <1>7
    <2> QED
      BY <1>5, <1>7, <2>1, <2>2
  <1>9. Then(s)
    BY <1>3, KindsApart DEF GetParts
  <1> HIDE DEF F, p, b
  <1>10. /\ <<b>> \in Seq(CallType) /\ Len(<<b>>) = 1 /\ <<b>>[1] = b
         /\ \A r : Owed(<<b>>, r) = 0
    BY <1>6, OneIs DEF Gives
  <1>11. /\ s \in Seq(CallType) /\ Len(s) = Len(F) + 1
         /\ \A i \in 1 .. Len(F) : s[i] = p[i]
         /\ s[Len(F) + 1] = b
    <2>1. 1 \in 1 .. Len(<<b>>)
      BY <1>10
    <2> QED
      BY <1>8, <1>10, <2>1, ConcatIs
  <1>12. \A r : Owed(s, r) = 0
    <2>1. ASSUME NEW r PROVE Pending(p, r) = {}
      BY <1>7 DEF Pending
    <2>2. \A r : Owed(p, r) = 0
      BY <1>8, <2>1, OwedNat
    <2>3. \A r : Owed(s, r) = Owed(p, r) + Owed(<<b>>, r)
      BY <1>8, <1>10, OwedConcat
    <2> HIDE DEF s
    <2> QED
      BY <1>10, <2>2, <2>3
  <1> HIDE DEF s
  <1>13. DOMAIN s = 1 .. Len(F) + 1 /\ s # <<>>
    BY <1>5, <1>11
  <1>14. \A i \in DOMAIN s : /\ s[i].op \in {"retire", "newAtlas"}
                             /\ s[i].op = "newAtlas" => i = Len(F) + 1 /\ s[i].id = id
                             /\ s[i].op = "retire" => s[i].id \in Images \ Wallpapers
    <2> TAKE i \in DOMAIN s
    <2>1. i \in 1 .. Len(F) \/ i = Len(F) + 1
      BY <1>5, <1>13
    <2>2. CASE i \in 1 .. Len(F)
      BY <1>5, <1>7, <1>11, <2>2
    <2>3. CASE i = Len(F) + 1
      BY <1>6, <1>11, <2>3
    <2> QED
      BY <2>1, <2>2, <2>3
  <1>15. LoadRight(Top)
    BY <1>1, <1>2, TopIs DEF LoadsRight
  <1>16. \A n \in Needed(id) : Room(n) # {}
    BY <1>2, <1>3, <1>15 DEF LoadRight, ToMake, Loading
  <1>17. \A i \in DOMAIN s : MoveRight(s[i]) /\ LoadRight(s[i]) /\ SweepRight(s[i])
    <2> TAKE i \in DOMAIN s
    <2>1. MoveRight(s[i]) /\ SweepRight(s[i])
      BY <1>14 DEF MoveRight, SweepRight
    <2>2. LoadRight(s[i])
      BY <1>2, <1>3, <1>14, <1>16 DEF LoadRight, ToMake, Loading
    <2> QED
      BY <2>1, <2>2
  <1>18. \A i, j \in DOMAIN s : i < j => MayStandOn(s[i], s[j])
    <2> TAKE i, j \in DOMAIN s
    <2> HAVE i < j
    <2>1. s[i].op = "retire"
      BY <1>5, <1>13, <1>14
    <2>2. s[j].op \in {"retire", "newAtlas"}
      BY <1>14
    <2> QED
      BY <2>1, <2>2 DEF MayStandOn
  <1>19. \A c : Below(c) => c.op = "hold"
    BY <1>1, <1>2, <1>3, GetAbove, KindsApart
  <1>20. \A i \in DOMAIN s : \A j \in 2 .. Len(calls) : MayStandOn(s[i], calls[j])
    <2>1. ASSUME NEW i \in DOMAIN s, NEW c, Below(c) PROVE MayStandOn(s[i], c)
      BY <1>14, <1>19, <2>1 DEF MayStandOn, Loading
    <2> QED
      BY <1>1, <1>2, <2>1, SecondBelow
  <1>21. got = Null /\ \A c : Second(c) /\ c.op \in Waiting => Supplies(Top, c)
    BY <1>1, <1>2, Silent DEF Giving, Waiting
  <1>22. \A c : Supplies(Top, c) => Supplies(b, c)
    BY <1>3, <1>6 DEF Supplies, Loading
  <1>23. /\ \A i \in DOMAIN s : /\ s[i].op \notin Waiting /\ s[i].op # "delete"
                                /\ s[i].op # "decRef"
         /\ Top.op \in Loading /\ \A c : Below(c) => c.op # "decRef"
    BY <1>2, <1>14, <1>19 DEF Waiting, Loading
  <1>24. \A c : Second(c) /\ c.op \in Waiting =>
            s = <<>> \/ (s[Len(s)].op \notin Giving /\ Supplies(s[Len(s)], c))
    BY <1>6, <1>11, <1>21, <1>22 DEF Giving
  <1>25. \A x \in Res : Owed(s, x) = IF Gives(Top, x) THEN 1 ELSE 0
    BY <1>2, <1>12 DEF Gives
  <1>26. /\ UNCHANGED <<mResources, mOrphanedResources, mDeletedResources, object, held, got>>
         /\ UNCHANGED mOldestOrphan
    BY <1>2 DEF maps
  <1>27. AllButAges'
    BY <1>2, <1>9, <1>11, <1>17, <1>18, <1>20, <1>21, <1>23, <1>24, <1>25, <1>26, StackOnly
  <1>28. AgesRight'
    BY <1>2, <1>9, <1>11, <1>26, FirmAges
  <1> QED
    BY <1>27, <1>28 DEF AllButAges, ResourcesInv

LEMMA GetPartsKeeps ==
    ASSUME ResourcesInv, GetParts
    PROVE  ResourcesInv'
  <1>1. Top.id \in Sets \cup Sprites \cup Atlases
    BY DEF GetParts, Missed
  <1> QED
    BY <1>1, GetSetKeeps, GetSpriteKeeps, GetAtlasKeeps

----------------------------------------------------------------------------
(* Steps that change counters.                                             *)

LEMMA ChangeIs ==
    ASSUME ObjectsRight, NEW r \in DOMAIN object, DOMAIN object' = DOMAIN object,
           object'[r] \in Record, object'[r].holds = object[r].holds,
           \A x \in DOMAIN object : x # r => object'[x] = object[x]
    PROVE  /\ Well(object') /\ SameHolds(object', object)
           /\ (/\ object'[r].mRefCount > 0 <=> object[r].mRefCount > 0
               /\ object'[r].mProtected => object[r].mProtected) => Firm
  <1>1. Well(object') /\ SameHolds(object', object)
    BY DEF Well, SameHolds, ObjectsRight
  <1> QED
    BY <1>1 DEF Firm

\* The call on the top that gives r back: r is there and counts what refers to it.
LEMMA GivenBack ==
    ASSUME ResourcesInv, calls # <<>>, Top.op \in {"decRef", "moveToDeleted", "decRefDelete"}
    PROVE  /\ Top.res \in Res /\ Top.res \in DOMAIN object
           /\ object[Top.res].mRefCount \in Nat
           /\ object[Top.res].mRefCount = Claims(Top.res)
           /\ Owed(calls, Top.res) >= 1 /\ Owed(calls, Top.res) \in Nat /\ Kept(Top.res) \in Nat
           /\ object[Top.res].mRefCount >= 1 /\ object[Top.res] \in Record
  <1>1. ObjectsRight /\ HeldRight /\ CountsRight /\ NoClaims /\ StackRight
    BY DEF ResourcesInv
  <1>2. Top \in CallType /\ Top = calls[1] /\ 1 \in DOMAIN calls
    BY <1>1, TopIs
  <1>3. PICK r \in Res : r = Top.res
    BY <1>2, CallFacts
  <1>4. 1 \in Pending(calls, r)
    BY <1>2, <1>3 DEF Pending
  <1>5. r \in DOMAIN object /\ object[r].mRefCount = Claims(r)
    BY <1>1, <1>4, Referred
  <1>6. /\ Owed(calls, r) \in Nat /\ Owed(calls, r) # 0 /\ Kept(r) \in Nat
        /\ Bit(got = r) \in Nat /\ Claims(r) = Kept(r) + Owed(calls, r) + Bit(got = r)
    BY <1>1, <1>4, Counted DEF Claims
  <1>7. object[r] \in Record
    BY <1>1, <1>5 DEF ObjectsRight
  <1> HIDE DEF Record
  <1>8. Owed(calls, r) >= 1 /\ Claims(r) \in Nat /\ Claims(r) >= 1
    BY <1>6
  <1> QED
    BY <1>3, <1>5, <1>6, <1>7, <1>8

\* While something is got, only what gives back runs above those that wait for it.
LEMMA GotBelow ==
    ASSUME StackRight, GotRight, calls # <<>>, Top.op \in Giving
    PROVE  /\ \A c : Second(c) /\ c.op \in Waiting => Answered(c)
           /\ got # Null => /\ Len(calls) >= 2 /\ calls[Len(calls)].op = "hold"
                            /\ \A c : Below(c) => c.op \in Giving \cup Waiting
  <1>1. Top = calls[1] /\ Len(calls) \in Nat /\ Len(calls) >= 1
    BY TopIs, TailIs DEF StackRight
  <1>2. ASSUME NEW c, Second(c), c.op \in Waiting PROVE Answered(c)
    <2>1. 2 \in DOMAIN calls /\ c = calls[2]
      BY <1>2 DEF Second, StackRight
    <2>2. calls[2 - 1].op \in Giving
      BY <1>1
    <2> QED
      BY <1>2, <2>1, <2>2 DEF GotRight
  <1>3. ASSUME got # Null
        PROVE  /\ Len(calls) >= 2 /\ calls[Len(calls)].op = "hold"
               /\ \A c : Below(c) => c.op \in Giving \cup Waiting
    <2>1. /\ calls[Len(calls)].op = "hold"
          /\ \A i \in DOMAIN calls : calls[i].op \in Giving \cup Waiting
      BY <1>3 DEF GotRight
    <2>2. Len(calls) # 1
      <3>1. Len(calls) = 1 => Top.op = "hold"
        BY <1>1, <2>1
      <3>2. Top.op # "hold"
        BY DEF Giving
      <3> QED
        BY <3>1, <3>2
    <2>3. Len(calls) >= 2
      <3>1. PICK n \in Nat : n = Len(calls) /\ n >= 1
        BY <1>1
      <3>2. n # 1
        BY <2>2, <3>1
      <3>3. n >= 2
        BY <3>1, <3>2
      <3> QED
        BY <3>1, <3>3
    <2>4. \A c : Below(c) => \E k \in DOMAIN calls : calls[k] = c
      BY BelowIs
    <2> QED
      BY <2>1, <2>3, <2>4
  <1> QED
    BY <1>2, <1>3

LEMMA DecRefSomeKeeps ==
    ASSUME ResourcesInv, DecRef, object[Top.res].mRefCount > 1
    PROVE  ResourcesInv'
  <1>1. ObjectsRight /\ StackRight /\ GotRight /\ OrphanRight /\ LoadsRight
    BY DEF ResourcesInv
  <1>2. calls # <<>> /\ Top.op = "decRef"
    BY DEF DecRef, Running
  <1>3. PICK r \in Res : r = Top.res
    BY <1>2, GivenBack
  <1> DEFINE n == object[r].mRefCount
  <1>4. /\ r \in DOMAIN object /\ n \in Nat /\ n > 1 /\ object[r] \in Record
    BY <1>2, <1>3, GivenBack
  <1>5. /\ object' = [object EXCEPT ![r].mRefCount = IF n = 0 THEN 0 ELSE n - 1,
                                    ![r].mTimeStamp = IF n = 1 THEN 0 ELSE @]
        /\ UNCHANGED maps /\ UNCHANGED <<held, got>>
    BY <1>3, <1>4 DEF DecRef
  <1>6. Then(<<>>)
    <2>1. Then((IF n = 1 /\ MustDelete(r) THEN <<Call("delete", r)>> ELSE <<>>) \o Retired(r))
      BY <1>3 DEF DecRef
    <2>2. Retired(r) = <<>>
      BY <1>4 DEF Retired
    <2>3. <<>> \o <<>> = <<>>
      OBVIOUS
    <2> QED
      BY <1>4, <2>1, <2>2, <2>3
  <1>7. /\ DOMAIN object' = DOMAIN object
        /\ \A x \in DOMAIN object : x # r => object'[x] = object[x]
    BY <1>5
  <1>8. /\ object'[r].mRefCount = n - 1 /\ object'[r].holds = object[r].holds
        /\ object'[r].mTimeStamp = object[r].mTimeStamp
        /\ object'[r].mProtected = object[r].mProtected /\ object'[r] \in Record
    <2>1. n # 0 /\ n # 1 /\ n - 1 \in Nat
      BY <1>4
    <2>2. object' = [object EXCEPT ![r].mRefCount = n - 1, ![r].mTimeStamp = @]
      BY <1>5, <2>1
    <2> HIDE DEF n
    <2> QED
      BY <1>4, <2>1, <2>2 DEF Record
  <1> DEFINE s == <<>>
  <1>9. s \in Seq(CallType) /\ DOMAIN s = {} /\ Then(s) /\ s = <<>>
    BY <1>6
  <1>10. Firm
    <2>1. n > 0 /\ n - 1 > 0
      BY <1>4
    <2> QED
      BY <1>1, <1>4, <1>7, <1>8, <2>1, ChangeIs
  <1>11. ASSUME NEW x \in DOMAIN object
         PROVE  object'[x].mRefCount + held[x] + Bit(object[x].mProtected) + Bit(got = x)
                  + (IF Gives(Top, x) THEN 1 ELSE 0)
                = object[x].mRefCount + held'[x] + Bit(object'[x].mProtected) + Bit(got' = x)
                  + Owed(s, x)
    <2>1. Owed(s, x) = 0
      BY OwedEmpty
    <2>2. /\ held'[x] = held[x] /\ Bit(got' = x) = Bit(got = x)
          /\ object'[x].mProtected = object[x].mProtected
      BY <1>5, <1>7, <1>8
    <2>3. object'[x].mRefCount + (IF Gives(Top, x) THEN 1 ELSE 0) = object[x].mRefCount
          /\ object'[x].mRefCount \in Nat /\ object[x].mRefCount \in Nat
      <3>1. CASE x = r
        <4>1. Gives(Top, x)
          BY <1>2, <1>3, <3>1 DEF Gives
        <4> QED
          BY <1>4, <1>8, <3>1, <4>1
      <3>2. CASE x # r
        <4>1. ~Gives(Top, x)
          BY <1>3, <3>2 DEF Gives
        <4>2. object[x].mRefCount \in Nat
          BY <1>1 DEF ObjectsRight, Record
        <4> QED
          BY <1>7, <3>2, <4>1, <4>2
      <3> QED
        BY <3>1, <3>2
    <2>4. held[x] \in Nat /\ Bit(object[x].mProtected) \in Nat /\ Bit(got = x) \in Nat
      BY <1>1, ResourcesAssumption DEF ResourcesInv, HeldRight, ObjectsRight, Bit
    <2> QED
      BY <2>1, <2>2, <2>3, <2>4
  <1>12. \A x \in DOMAIN object : /\ object'[x].mTimeStamp = object[x].mTimeStamp
                                  /\ object'[x].mProtected = object[x].mProtected
    BY <1>7, <1>8
  <1>13. ASSUME NEW x \in Res \ DOMAIN object PROVE got' # x
    BY <1>5 DEF ResourcesInv, NoClaims, Unclaimed
  <1>14. \A c : Second(c) /\ c.op \in Waiting => Answered(c)'
    <2> SUFFICES ASSUME NEW c, Second(c), c.op \in Waiting PROVE Answered(c)'
      OBVIOUS
    <2>1. Answered(c)
      BY <1>1, <1>2, GotBelow DEF Giving
    <2> QED
      BY <1>5, <2>1 DEF Answered, Fits
  <1>15. got' # Null => /\ Len(calls) >= 2 /\ calls[Len(calls)].op = "hold"
                        /\ \A c : Below(c) => c.op \in Giving \cup Waiting
    <2>1. Top.op \in Giving
      BY <1>2 DEF Giving
    <2> QED
      BY <1>1, <1>2, <1>5, <2>1, GotBelow
  <1>16. got' \in Res \cup {Null} /\ got' = got
    BY <1>1, <1>5 DEF GotRight
  <1>17. /\ SameMap(mResources', mResources)
         /\ mOrphanedResources' = mOrphanedResources /\ mDeletedResources' = mDeletedResources
         /\ mOldestOrphan' = mOldestOrphan
    BY <1>5 DEF maps, SameMap
  <1> HIDE DEF s
  <1>18. AllButAges'
    BY <1>2, <1>5, <1>9, <1>10, <1>11, <1>12, <1>13, <1>14, <1>15, <1>16, <1>17, FirmStep
  <1>19. AgesRight'
    BY <1>2, <1>9, <1>12, <1>17, FirmAges
  <1> QED
    BY <1>18, <1>19 DEF AllButAges, ResourcesInv

LEMMA CountsNat ==
    ASSUME ResourcesInv, NEW x \in DOMAIN object
    PROVE  /\ object[x].mRefCount \in Nat /\ held[x] \in Nat /\ Bit(object[x].mProtected) \in Nat
           /\ Bit(got = x) \in Nat /\ x \in Res /\ object[x] \in Record
           /\ object[x].mTimeStamp \in Ages /\ object[x].mProtected \in BOOLEAN
  <1>1. ObjectsRight /\ HeldRight
    BY DEF ResourcesInv
  <1>2. x \in Res /\ object[x] \in Record
    BY <1>1 DEF ObjectsRight
  <1>3. held[x] \in Nat
    BY <1>1, <1>2, ResourcesAssumption DEF HeldRight
  <1>4. Bit(object[x].mProtected) \in Nat /\ Bit(got = x) \in Nat
    BY DEF Bit
  <1> QED
    BY <1>2, <1>3, <1>4 DEF Record

LEMMA LoadBelow ==
    ASSUME StackRight, LoadsRight, calls # <<>>, Top.op \in Loading
    PROVE  Len(calls) >= 2 /\ calls[Len(calls)].op = "hold"
  <1>1. Top = calls[1] /\ 1 \in DOMAIN calls
    BY TopIs
  <1>2. calls[Len(calls)].op = "hold"
    BY <1>1 DEF LoadsRight
  <1>3. PICK k \in Nat : k = Len(calls) /\ k >= 1
    BY TailIs DEF StackRight
  <1>4. k # 1
    <2>1. Top.op # "hold"
      BY DEF Loading
    <2> QED
      BY <1>1, <1>2, <1>3, <2>1
  <1>5. k >= 2
    BY <1>3, <1>4
  <1> QED
    BY <1>2, <1>3, <1>5

LEMMA GetCachedKeeps ==
    ASSUME ResourcesInv, GetCached
    PROVE  ResourcesInv'
  <1>1. /\ ObjectsRight /\ StackRight /\ GotRight /\ OrphanRight /\ LoadsRight /\ CacheRight
        /\ NoClaims
    BY DEF ResourcesInv
  <1>2. calls # <<>> /\ Top.op = "get" /\ Top.id \in DOMAIN mResources
    BY DEF GetCached, Running
  <1>3. PICK r : r = mResources[Top.id]
    OBVIOUS
  <1> DEFINE n == object[r].mRefCount
  <1>4. r \in DOMAIN object /\ Id(r) = Top.id /\ n > 0
    BY <1>1, <1>2, <1>3 DEF CacheRight
  <1>5. n \in Nat /\ object[r] \in Record /\ r \in Res
    BY <1>4, CountsNat
  <1>6. /\ got' = r /\ object' = IncRef(object, r) /\ Then(<<>>)
        /\ mResources' = Over(Injected(object, r), mResources)
        /\ UNCHANGED <<mOrphanedResources, mDeletedResources, mOldestOrphan, held>>
    BY <1>3 DEF GetCached
  <1>7. n # 0
    BY <1>4, <1>5
  <1>8. SameMap(mResources', mResources)
    <2>1. Injected(object, r) = <<>>
      BY <1>7 DEF Injected
    <2>2. DOMAIN <<>> = {}
      OBVIOUS
    <2>3. mResources' = Over(<<>>, mResources)
      BY <1>6, <2>1
    <2>4. /\ DOMAIN Over(<<>>, mResources) = DOMAIN <<>> \cup DOMAIN mResources
          /\ \A i \in DOMAIN mResources :
               i \notin DOMAIN <<>> => Over(<<>>, mResources)[i] = mResources[i]
      BY OverIs
    <2> QED
      BY <2>2, <2>3, <2>4 DEF SameMap
  <1>9. /\ DOMAIN object' = DOMAIN object
        /\ \A x \in DOMAIN object : x # r => object'[x] = object[x]
        /\ object'[r] = [object[r] EXCEPT !.mRefCount = n + 1]
    BY <1>4, <1>6, <1>7 DEF IncRef
  <1>10. /\ object'[r].mRefCount = n + 1 /\ object'[r].holds = object[r].holds
         /\ object'[r].mTimeStamp = object[r].mTimeStamp
         /\ object'[r].mProtected = object[r].mProtected /\ object'[r] \in Record
    <2> HIDE DEF n
    <2> QED
      BY <1>5, <1>9 DEF Record
  <1>11. Firm
    <2>1. n > 0 /\ n + 1 > 0
      BY <1>5, <1>7
    <2> QED
      BY <1>1, <1>4, <1>9, <1>10, <2>1, ChangeIs
  <1> DEFINE s == <<>>
  <1>12. s \in Seq(CallType) /\ DOMAIN s = {} /\ Then(s) /\ s = <<>>
    BY <1>6
  <1>13. got = Null /\ \A c : Second(c) /\ c.op \in Waiting => Supplies(Top, c)
    BY <1>1, <1>2, Silent DEF Giving, Waiting
  <1>14. ASSUME NEW x \in DOMAIN object
         PROVE  object'[x].mRefCount + held[x] + Bit(object[x].mProtected) + Bit(got = x)
                  + (IF Gives(Top, x) THEN 1 ELSE 0)
                = object[x].mRefCount + held'[x] + Bit(object'[x].mProtected) + Bit(got' = x)
                  + Owed(s, x)
    <2>1. Owed(s, x) = 0 /\ ~Gives(Top, x)
      BY <1>2, OwedEmpty DEF Gives
    <2>2. held'[x] = held[x] /\ object'[x].mProtected = object[x].mProtected
      BY <1>6, <1>9, <1>10
    <2>3. Bit(got = x) = 0 /\ Bit(got' = x) = IF x = r THEN 1 ELSE 0
      <3>1. x # Null
        BY CountsNat, ResFacts
      <3> QED
        BY <1>6, <1>13, <3>1 DEF Bit
    <2>4. object[x].mRefCount \in Nat /\ held[x] \in Nat /\ Bit(object[x].mProtected) \in Nat
      BY CountsNat
    <2>5. object'[x].mRefCount = object[x].mRefCount + IF x = r THEN 1 ELSE 0
      <3>1. CASE x = r
        BY <1>10, <3>1
      <3>2. CASE x # r
        BY <1>9, <2>4, <3>2
      <3> QED
        BY <3>1, <3>2
    <2> QED
      BY <2>1, <2>2, <2>3, <2>5, <2>4
  <1>15. \A x \in DOMAIN object : /\ object'[x].mTimeStamp = object[x].mTimeStamp
                                  /\ object'[x].mProtected = object[x].mProtected
    BY <1>9, <1>10
  <1>16. \A x \in Res \ DOMAIN object : got' # x
    BY <1>4, <1>6
  <1>17. \A c : Second(c) /\ c.op \in Waiting => Answered(c)'
    BY <1>4, <1>6, <1>13 DEF Answered, Supplies, Fits
  <1>18. Len(calls) >= 2 /\ calls[Len(calls)].op = "hold"
    BY <1>1, <1>2, LoadBelow DEF Loading
  <1>19. \A c : Below(c) => c.op \notin Giving /\ c.op \in Giving \cup Waiting
    BY <1>1, <1>2, GetAbove DEF Giving, Waiting
  <1>20. got' \in Res \cup {Null}
    BY <1>5, <1>6
  <1>21. Top.op \notin {"delete", "moveToDeleted", "moved"}
    BY <1>2
  <1> HIDE DEF s
  <1>22. AllButAges'
    BY <1>2, <1>6, <1>8, <1>11, <1>12, <1>14, <1>15, <1>16, <1>17, <1>18, <1>19, <1>20, <1>21,
       FirmStep
  <1>23. AgesRight'
    BY <1>2, <1>6, <1>12, <1>15, FirmAges
  <1> QED
    BY <1>22, <1>23 DEF AllButAges, ResourcesInv

\* What may be below a loader that retires what the cache has.
LEMMA RetireAbove ==
    ASSUME StackRight, calls # <<>>, Top.op = "retire", NEW c, Below(c)
    PROVE  c \in CallType /\ c.op \in {"retire", "newAtlas", "hold"}
  <1>1. c \in CallType /\ MayStandOn(Top, c)
    BY BelowIs
  <1>2. c.op \in {"decRef", "delete", "moveToDeleted", "decRefDelete", "clearDeleted",
                  "moved", "get", "newSet", "newSprite", "retire", "newAtlas", "hold",
                  "unprotect", "sweepAll", "sweep"}
    BY <1>1, CallFacts
  <1> QED
    BY <1>1, <1>2 DEF MayStandOn, Giving, Loading

LEMMA RetireKeeps ==
    ASSUME ResourcesInv, Retire
    PROVE  ResourcesInv'
  <1>1. /\ ObjectsRight /\ HeldRight /\ StackRight /\ GotRight /\ CacheRight /\ NoClaims
        /\ MovesRight /\ CountsRight
    BY DEF ResourcesInv
  <1>2. calls # <<>> /\ Top.op = "retire"
    BY DEF Retire, Running
  <1>3. got = Null /\ \A c : Second(c) => c.op \notin Waiting
    BY <1>1, <1>2, Silent DEF Giving, Waiting, Loading
  <1>4. /\ UNCHANGED <<mResources, mOrphanedResources, mDeletedResources, held, got>>
        /\ UNCHANGED mOldestOrphan
    BY DEF Retire, maps
  <1>5. CASE At(mResources, Top.id) = Null
    <2>1. Then(<<>>) /\ UNCHANGED object
      BY <1>5 DEF Retire
    <2>2. AllButAges'
      BY <1>2, <1>3, <1>4, <2>1, PopOnly
    <2>3. AgesRight'
      BY <1>2, <1>4, <2>1, PopAges
    <2> QED
      BY <2>2, <2>3 DEF AllButAges, ResourcesInv
  <1>6. CASE At(mResources, Top.id) # Null
    <2>1. PICK r : r = At(mResources, Top.id)
      OBVIOUS
    <2>2. Top.id \in DOMAIN mResources /\ r = mResources[Top.id]
      BY <1>6, <2>1 DEF At
    <2> DEFINE n == object[r].mRefCount
    <2>3. r \in DOMAIN object /\ Id(r) = Top.id /\ n > 0
      BY <1>1, <2>2 DEF CacheRight
    <2>4. n \in Nat /\ object[r] \in Record /\ r \in Res
      BY <2>3, CountsNat
    <2>5. Top.id \in Images \ Wallpapers
      BY <1>1, <1>2, TopIs DEF MovesRight, MoveRight
    <2>6. object' = [object EXCEPT ![r].mRefCount = @ + 1] /\ Then(<<Call("moveToDeleted", r)>>)
      BY <1>6, <2>1 DEF Retire
    <2>7. /\ DOMAIN object' = DOMAIN object
          /\ \A x \in DOMAIN object : x # r => object'[x] = object[x]
          /\ object'[r].mRefCount = n + 1 /\ object'[r].holds = object[r].holds
          /\ object'[r].mTimeStamp = object[r].mTimeStamp
          /\ object'[r].mProtected = object[r].mProtected /\ object'[r] \in Record
      BY <2>3, <2>4, <2>6 DEF Record
    <2>8. Firm
      <3>1. n > 0 /\ n + 1 > 0
        BY <2>3, <2>4
      <3> QED
        BY <1>1, <2>3, <2>7, <3>1, ChangeIs
    <2> DEFINE a == Call("moveToDeleted", r)
               s == <<a>>
    <2>9. a \in CallType /\ a.op = "moveToDeleted" /\ a.res = r
      BY <2>4, CallIs
    <2>10. Then(s)
      BY <2>6
    <2> HIDE DEF a
    <2>11. /\ s \in Seq(CallType) /\ DOMAIN s = {1} /\ s[1] = a /\ Len(s) = 1 /\ s # <<>>
           /\ \A x : Owed(s, x) = IF Gives(a, x) THEN 1 ELSE 0
      BY <2>9, OneIs
    <2> HIDE DEF s, n
    \* Nobody else is about to give it back, so it is kept.
    <2>12. Kept(r) > 0
      <3>1. ~Gives(Top, r) /\ \A c : Below(c) => ~Gives(c, r)
        BY <1>1, <1>2, RetireAbove DEF Gives
      <3>2. \A k \in DOMAIN calls : calls[k] = Top \/ Below(calls[k])
        <4>1. \A k \in DOMAIN calls : k = 1 \/ k \in 2 .. Len(calls)
          BY <1>1 DEF StackRight
        <4> QED
          BY <1>1, <1>2, <4>1, TopIs, SecondBelow
      <3>3. Pending(calls, r) = {}
        BY <3>1, <3>2 DEF Pending, Gives
      <3>4. Owed(calls, r) = 0 /\ Bit(got = r) = 0 /\ Kept(r) \in Nat
        BY <1>1, <1>3, <2>4, <3>3, Counted, ResFacts
      <3>5. n = Claims(r)
        BY <1>1, <1>2, <2>3, NotDoomed DEF CountsRight, n
      <3> QED
        BY <2>3, <3>4, <3>5 DEF Claims, n
    <2>13. ASSUME NEW x \in DOMAIN object
           PROVE  object'[x].mRefCount + held[x] + Bit(object[x].mProtected) + Bit(got = x)
                    + (IF Gives(Top, x) THEN 1 ELSE 0)
                  = object[x].mRefCount + held'[x] + Bit(object'[x].mProtected) + Bit(got' = x)
                    + Owed(s, x)
      <3>1. Owed(s, x) = (IF x = r THEN 1 ELSE 0) /\ ~Gives(Top, x)
        BY <1>2, <2>9, <2>11 DEF Gives
      <3>2. /\ held'[x] = held[x] /\ object'[x].mProtected = object[x].mProtected
            /\ Bit(got' = x) = Bit(got = x)
        BY <1>4, <2>7
      <3>3. /\ object[x].mRefCount \in Nat /\ held[x] \in Nat /\ Bit(object[x].mProtected) \in Nat
            /\ Bit(got = x) \in Nat
        BY CountsNat
      <3>4. object'[x].mRefCount = object[x].mRefCount + IF x = r THEN 1 ELSE 0
        <4>1. CASE x = r
          BY <2>7, <4>1 DEF n
        <4>2. CASE x # r
          BY <2>7, <3>3, <4>2
        <4> QED
          BY <4>1, <4>2
      <3> QED
        BY <3>1, <3>2, <3>3, <3>4
    <2>14. \A x \in DOMAIN object : /\ object'[x].mTimeStamp = object[x].mTimeStamp
                                    /\ object'[x].mProtected = object[x].mProtected
      BY <2>7
    <2>15. \A x \in Res \ DOMAIN object : got' # x /\ ~Gives(a, x)
      BY <1>3, <1>4, <2>3, <2>9, ResFacts DEF Gives
    <2>16. \A i \in DOMAIN s : \A j \in 2 .. Len(calls) : MayStandOn(s[i], calls[j])
      <3>1. \A c : Below(c) => MayStandOn(a, c)
        BY <1>1, <1>2, <2>9, RetireAbove DEF MayStandOn
      <3> QED
        BY <1>1, <1>2, <2>11, <3>1, SecondBelow
    <2>17. Kept(r)' > 0
      <3>1. Holding(object', r) = Holding(object, r) /\ Keeping(object', r) = Keeping(object, r)
        BY <1>1, <2>8, FirmIs
      <3>2. object'[r].mProtected = object[r].mProtected
        BY <2>7
      <3> QED
        BY <1>4, <2>12, <3>1, <3>2 DEF Kept
    <2>18. MoveRight(a)' /\ LoadRight(a)' /\ SweepRight(a)'
      BY <2>3, <2>5, <2>7, <2>9, <2>17 DEF MoveRight, LoadRight, SweepRight, Pixels, Loading
    <2>19. \A i \in DOMAIN s : MoveRight(s[i])' /\ LoadRight(s[i])' /\ SweepRight(s[i])'
      <3>1. \A c : c = a => MoveRight(c)' /\ LoadRight(c)' /\ SweepRight(c)'
        BY <2>18
      <3> QED
        BY <2>11, <3>1
    <2>20. \A i \in DOMAIN s : /\ s[i].op \notin Waiting /\ s[i].op \notin Loading
                               /\ s[i].op \notin {"delete", "decRef"}
      BY <2>9, <2>11 DEF Waiting, Loading
    <2>21. Top.op \in Moving
      BY <1>2 DEF Moving
    <2>22. SameMap(mResources', mResources) /\ got' \in Res \cup {Null} /\ got' = got
           /\ got' = Null
      BY <1>3, <1>4 DEF SameMap
    <2>23. \A i, j \in DOMAIN s : ~(i < j)
      BY <2>11
    <2>24. \A x \in Res \ DOMAIN object : got' # x /\ \A i \in DOMAIN s : ~Gives(s[i], x)
      BY <2>11, <2>15
    <2>25. AllButAges'
      BY <1>2, <1>3, <1>4, <2>8, <2>10, <2>11, <2>13, <2>14, <2>24, <2>16, <2>19, <2>20, <2>21,
         <2>22, <2>23, FirmStep
    <2>26. AgesRight'
      BY <1>2, <1>4, <2>10, <2>11, <2>14, FirmAges
    <2> QED
      BY <2>25, <2>26 DEF AllButAges, ResourcesInv
  <1> QED
    BY <1>5, <1>6

LEMMA UnprotectKeeps ==
    ASSUME ResourcesInv, Unprotect
    PROVE  ResourcesInv'
  <1>1. /\ ObjectsRight /\ StackRight /\ GotRight /\ CacheRight /\ NoClaims /\ CountsRight
    BY DEF ResourcesInv
  <1>2. calls # <<>> /\ Top.op = "unprotect" /\ Top \in CallType
    BY <1>1, TopIs DEF Unprotect, Running
  <1>3. got = Null /\ \A c : Second(c) => c.op \notin Waiting
    BY <1>1, <1>2, Silent DEF Giving, Waiting, Loading
  <1>4. /\ UNCHANGED <<mResources, mOrphanedResources, mDeletedResources, held, got>>
        /\ UNCHANGED mOldestOrphan
    BY DEF Unprotect, maps
  <1> DEFINE protected == {i \in DOMAIN mResources : object[mResources[i]].mProtected}
  <1>5. CASE protected = {}
    <2>1. Then(<<>>) /\ UNCHANGED object
      BY <1>5 DEF Unprotect
    <2>2. AllButAges'
      BY <1>2, <1>3, <1>4, <2>1, PopOnly
    <2>3. AgesRight'
      BY <1>2, <1>4, <2>1, PopAges
    <2> QED
      BY <2>2, <2>3 DEF AllButAges, ResourcesInv
  <1>6. CASE protected # {}
    <2> DEFINE first == CHOOSE i \in protected : \A j \in protected : i <= j
    <2>1. first \in protected
      <3>1. \A i \in DOMAIN mResources : mResources[i] \in Res /\ Id(mResources[i]) = i
        BY <1>1 DEF CacheRight, ObjectsRight
      <3>2. protected \in SUBSET Nat
        BY <3>1, ResFacts
      <3>3. \E i \in protected : \A j \in protected : i <= j
        BY <1>6, <3>2, Least
      <3> HIDE DEF protected
      <3> QED
        BY <3>3
    <2>2. PICK r : r = mResources[first]
      OBVIOUS
    <2>3. /\ object' = [object EXCEPT ![r].mProtected = FALSE]
          /\ Then(<<Call("decRef", r), Top>>)
      BY <1>6, <2>2 DEF Unprotect
    <2>4. r \in DOMAIN object /\ object[r].mProtected
      BY <1>1, <2>1, <2>2 DEF CacheRight
    <2> HIDE DEF first, protected
    <2>5. r \in Res /\ object[r] \in Record /\ Id(r) \in Sprites
      BY <1>1, <2>4 DEF ObjectsRight
    <2>6. /\ DOMAIN object' = DOMAIN object
          /\ \A x \in DOMAIN object : x # r => object'[x] = object[x]
          /\ object'[r].mRefCount = object[r].mRefCount /\ object'[r].holds = object[r].holds
          /\ object'[r].mTimeStamp = object[r].mTimeStamp
          /\ object'[r].mProtected = FALSE /\ object'[r] \in Record
      BY <2>3, <2>4, <2>5 DEF Record
    <2>7. Firm
      BY <1>1, <2>4, <2>6, ChangeIs
    <2>8. PICK a \in CallType : a = Call("decRef", r) /\ a.op = "decRef" /\ a.res = r
      BY <2>5, CallIs
    <2>9. PICK b \in CallType : b = Top /\ b.op = "unprotect"
      BY <1>2
    <2> DEFINE s == <<a, b>>
    <2>10. Then(s)
      BY <2>3, <2>8, <2>9
    <2>11. /\ s \in Seq(CallType) /\ DOMAIN s = {1, 2} /\ s[1] = a /\ s[2] = b /\ Len(s) = 2
           /\ s # <<>> /\ \A x : Owed(s, x) = (IF Gives(a, x) THEN 1 ELSE 0)
                                              + (IF Gives(b, x) THEN 1 ELSE 0)
      BY PairIs
    <2> HIDE DEF s
    <2>12. ASSUME NEW x \in DOMAIN object
           PROVE  object'[x].mRefCount + held[x] + Bit(object[x].mProtected) + Bit(got = x)
                    + (IF Gives(Top, x) THEN 1 ELSE 0)
                  = object[x].mRefCount + held'[x] + Bit(object'[x].mProtected) + Bit(got' = x)
                    + Owed(s, x)
      <3>1. Owed(s, x) = (IF x = r THEN 1 ELSE 0) /\ ~Gives(Top, x)
        BY <1>2, <2>8, <2>9, <2>11 DEF Gives
      <3>2. /\ held'[x] = held[x] /\ object'[x].mRefCount = object[x].mRefCount
            /\ Bit(got' = x) = Bit(got = x)
        BY <1>4, <2>6
      <3>3. /\ object[x].mRefCount \in Nat /\ held[x] \in Nat /\ Bit(object[x].mProtected) \in Nat
            /\ Bit(got = x) \in Nat
        BY CountsNat
      <3>4. /\ Bit(object[x].mProtected) = Bit(object'[x].mProtected) + IF x = r THEN 1 ELSE 0
            /\ Bit(object'[x].mProtected) \in Nat
        <4>1. CASE x = r
          BY <2>4, <2>6, <4>1 DEF Bit
        <4>2. CASE x # r
          BY <2>6, <3>3, <4>2
        <4> QED
          BY <4>1, <4>2
      <3> QED
        BY <3>1, <3>2, <3>3, <3>4
    <2>13. \A x \in DOMAIN object : object'[x].mTimeStamp = object[x].mTimeStamp
      BY <2>6
    <2>14. \A x \in Res \ DOMAIN object : got' # x /\ \A i \in DOMAIN s : ~Gives(s[i], x)
      BY <1>3, <1>4, <2>4, <2>8, <2>9, <2>11, ResFacts DEF Gives
    <2>15. \A c : Below(c) => c.op = "sweepAll"
      <3>1. ASSUME NEW c \in CallType, MayStandOn(Top, c) PROVE c.op = "sweepAll"
        BY <1>2, <3>1, CallFacts DEF MayStandOn, Loading, Giving
      <3> QED
        BY <1>1, <1>2, <3>1, BelowIs
    <2>16. MayStandOn(a, b) /\ \A c : Below(c) => MayStandOn(a, c) /\ MayStandOn(b, c)
      BY <2>5, <2>8, <2>9, <2>15, KindsApart DEF MayStandOn, Giving, IsAtlas
    <2>17. \A i, j \in DOMAIN s : i < j => MayStandOn(s[i], s[j])
      BY <2>11, <2>16
    <2>18. \A i \in DOMAIN s : \A j \in 2 .. Len(calls) : MayStandOn(s[i], calls[j])
      BY <1>1, <1>2, <2>11, <2>16, SecondBelow
    <2>19. \A c : c = a \/ c = b => MoveRight(c)' /\ LoadRight(c)' /\ SweepRight(c)'
      BY <2>8, <2>9 DEF MoveRight, LoadRight, SweepRight, Loading
    <2>20. \A i \in DOMAIN s : MoveRight(s[i])' /\ LoadRight(s[i])' /\ SweepRight(s[i])'
      BY <2>11, <2>19
    <2>21. \A i \in DOMAIN s : /\ s[i].op \notin Waiting /\ s[i].op \notin Loading
                               /\ s[i].op \notin Moving /\ s[i].op # "delete"
      BY <2>8, <2>9, <2>11 DEF Waiting, Loading, Moving
    <2>22. \A c : Below(c) => c.op \notin Moving
      BY <2>15 DEF Moving
    <2>23. SameMap(mResources', mResources) /\ got' \in Res \cup {Null} /\ got' = got
           /\ got' = Null
      BY <1>3, <1>4 DEF SameMap
    <2>24. AllButAges'
      BY <1>2, <1>3, <1>4, <2>7, <2>10, <2>11, <2>12, <2>13, <2>14, <2>17, <2>18, <2>20, <2>21,
         <2>22, <2>23, FirmStep
    <2>25. AgesRight'
      BY <1>2, <1>4, <2>10, <2>11, <2>13, FirmAges
    <2> QED
      BY <2>24, <2>25 DEF AllButAges, ResourcesInv
  <1> QED
    BY <1>5, <1>6

\* Nothing is below a decRefDelete.
LEMMA DecRefDeleteAbove ==
    ASSUME StackRight, calls # <<>>, Top.op = "decRefDelete"
    PROVE  /\ \A c : ~Below(c) /\ ~Second(c)
           /\ \A j \in 2 .. Len(calls) : FALSE
  <1>1. ASSUME NEW c \in CallType, MayStandOn(Top, c) PROVE FALSE
    BY <1>1, CallFacts DEF MayStandOn, Loading, Giving
  <1>2. \A c : ~Below(c)
    BY <1>1, BelowIs
  <1> QED
    BY <1>2, SecondBelow

LEMMA DecRefDeleteSomeKeeps ==
    ASSUME ResourcesInv, DecRefDelete, object[Top.res].mRefCount # 1
    PROVE  ResourcesInv'
  <1>1. StackRight /\ GotRight /\ MovesRight
    BY DEF ResourcesInv
  <1>2. calls # <<>> /\ Top.op = "decRefDelete"
    BY DEF DecRefDelete, Running
  <1>3. PICK r \in Res : r = Top.res
    BY <1>2, GivenBack
  <1>4. /\ Then(<<Call("decRef", r)>>) /\ UNCHANGED mOldestOrphan
        /\ UNCHANGED <<mResources, mOrphanedResources, mDeletedResources, object, held, got>>
    BY <1>3 DEF DecRefDelete, maps
  <1>5. PICK a \in CallType : a = Call("decRef", r) /\ a.op = "decRef" /\ a.res = r
    BY CallIs
  <1> DEFINE s == <<a>>
  <1>6. Then(s)
    BY <1>4, <1>5
  <1>7. /\ s \in Seq(CallType) /\ DOMAIN s = {1} /\ s[1] = a /\ Len(s) = 1 /\ s # <<>>
        /\ \A x : Owed(s, x) = IF Gives(a, x) THEN 1 ELSE 0
    BY OneIs
  <1> HIDE DEF s
  <1>8. \A x \in Res : Owed(s, x) = IF Gives(Top, x) THEN 1 ELSE 0
    BY <1>2, <1>3, <1>5, <1>7 DEF Gives
  <1>9. /\ \A c : ~Below(c) /\ ~Second(c)
        /\ \A j \in 2 .. Len(calls) : FALSE
    BY <1>1, <1>2, DecRefDeleteAbove
  <1>10. \A i \in DOMAIN s : MoveRight(s[i]) /\ LoadRight(s[i]) /\ SweepRight(s[i])
    BY <1>5, <1>7 DEF MoveRight, LoadRight, SweepRight, Loading
  <1>11. \A i \in DOMAIN s : /\ s[i].op \notin Waiting /\ s[i].op \notin Loading
                             /\ s[i].op \notin Moving /\ s[i].op # "delete"
    BY <1>5, <1>7 DEF Waiting, Loading, Moving
  <1>12. \A i, j \in DOMAIN s : ~(i < j)
    BY <1>7
  <1>13. got = Null
    BY <1>1, <1>2, Silent DEF Giving, Waiting
  <1>14. AllButAges'
    BY <1>2, <1>4, <1>6, <1>7, <1>8, <1>9, <1>10, <1>11, <1>12, <1>13, StackOnly
  <1>15. AgesRight'
    BY <1>2, <1>4, <1>6, <1>7, FirmAges
  <1> QED
    BY <1>14, <1>15 DEF AllButAges, ResourcesInv

LEMMA OrphanIds ==
    ASSUME OrphanRight, ObjectsRight
    PROVE  \A i \in DOMAIN mOrphanedResources :
             /\ i \in Ids /\ i \in Nat /\ i # 0 /\ mOrphanedResources[i] \in Res
             /\ mOrphanedResources[i] \in DOMAIN object /\ Id(mOrphanedResources[i]) = i
  <1>1. \A i \in DOMAIN mOrphanedResources :
          mOrphanedResources[i] \in DOMAIN object /\ Id(mOrphanedResources[i]) = i
    BY DEF OrphanRight
  <1>2. \A i \in DOMAIN mOrphanedResources : mOrphanedResources[i] \in Res
    BY <1>1 DEF ObjectsRight
  <1> QED
    BY <1>1, <1>2, ResFacts

\* A sweep has its place among the orphans, and the next one is behind it.
LEMMA NextIs ==
    ASSUME ResourcesInv, calls # <<>>, Top.op = "sweep", Top.iter # End, NEW t \in Ages
    PROVE  /\ Top.iter \in DOMAIN mOrphanedResources /\ Top.oldest \in Ages
           /\ \A n \in DOMAIN mOrphanedResources :
                n < Top.iter => object[mOrphanedResources[n]].mTimeStamp <= Top.oldest
           /\ \E c \in CallType :
                /\ c = [[Top EXCEPT !.iter = From(mOrphanedResources, Top.iter + 1)]
                           EXCEPT !.oldest = t]
                /\ c.op = "sweep" /\ c.iter \in DOMAIN mOrphanedResources \cup {End}
                /\ c.iter # Top.iter /\ c.oldest = t
                /\ \A n \in DOMAIN mOrphanedResources :
                     c.iter = End \/ n < c.iter => n <= Top.iter
  <1>1. OrphanRight /\ ObjectsRight /\ StackRight /\ SweepsRight
    BY DEF ResourcesInv
  <1>2. Top \in CallType /\ Top = calls[1] /\ 1 \in DOMAIN calls
    BY <1>1, TopIs
  <1>3. /\ Top.iter \in DOMAIN mOrphanedResources /\ Top.oldest \in Ages
        /\ \A n \in DOMAIN mOrphanedResources :
             n < Top.iter => object[mOrphanedResources[n]].mTimeStamp <= Top.oldest
    BY <1>1, <1>2, CallFacts DEF SweepsRight, SweepRight
  <1> DEFINE next == From(mOrphanedResources, Top.iter + 1)
             c == [[Top EXCEPT !.iter = next] EXCEPT !.oldest = t]
  <1>4. \A i \in DOMAIN mOrphanedResources : i \in Nat /\ i # 0 /\ i \in Ids
    BY <1>1, OrphanIds
  <1>5. Top.iter \in Nat /\ Top.iter + 1 \in Nat /\ Top.iter # 0
    BY <1>3, <1>4
  <1>6. /\ next \in DOMAIN mOrphanedResources \cup {End}
        /\ next # End => next >= Top.iter + 1
        /\ \A i \in DOMAIN mOrphanedResources :
             i >= Top.iter + 1 => next # End /\ next <= i
    BY <1>4, <1>5, FromIs
  <1> HIDE DEF next
  <1>7. Top \in [op : {"sweep"}, iter : Ids \cup {End}, always : BOOLEAN, oldest : Ages]
    BY <1>2 DEF CallType
  <1>8. next \in Ids \cup {End}
    BY <1>4, <1>6
  <1>9. c \in [op : {"sweep"}, iter : Ids \cup {End}, always : BOOLEAN, oldest : Ages]
        /\ c.iter = next /\ c.oldest = t /\ c.op = "sweep"
    BY <1>7, <1>8
  <1>10. next # Top.iter
    BY <1>5, <1>6 DEF End
  <1>11. ASSUME NEW n \in DOMAIN mOrphanedResources, next = End \/ n < next
         PROVE  n <= Top.iter
    <2>1. ~(n >= Top.iter + 1)
      <3>1. next \in Nat /\ n \in Nat
        BY <1>4, <1>6 DEF End
      <3> QED
        BY <1>6, <1>11, <3>1
    <2> QED
      BY <1>4, <1>5, <2>1
  <1>12. c \in CallType
    BY <1>9 DEF CallType
  <1>13. c = [[Top EXCEPT !.iter = From(mOrphanedResources, Top.iter + 1)] EXCEPT !.oldest = t]
    BY DEF next
  <1> HIDE DEF c
  <1> QED
    BY <1>3, <1>6, <1>9, <1>10, <1>11, <1>12, <1>13

\* Below a sweep there is at most the loop that sweeps again.
LEMMA SweepAbove ==
    ASSUME StackRight, calls # <<>>, Top.op = "sweep"
    PROVE  \A c : Below(c) => c \in CallType /\ c.op = "sweepAll"
  <1>1. ASSUME NEW c \in CallType, MayStandOn(Top, c) PROVE c.op = "sweepAll"
    BY <1>1, CallFacts DEF MayStandOn, Loading, Giving
  <1> QED
    BY <1>1, BelowIs

LEMMA SweepOneStaysKeeps ==
    ASSUME ResourcesInv, SweepOne,
           ~Top.always /\ object[mOrphanedResources[Top.iter]].mTimeStamp <= Limit
    PROVE  ResourcesInv'
  <1>1. StackRight /\ GotRight /\ OrphanRight /\ ObjectsRight
    BY DEF ResourcesInv
  <1>2. calls # <<>> /\ Top.op = "sweep" /\ Top.iter # End
    BY DEF SweepOne, Running
  <1>3. Top.iter \in DOMAIN mOrphanedResources /\ Top.oldest \in Ages
        /\ \A n \in DOMAIN mOrphanedResources :
             n < Top.iter => object[mOrphanedResources[n]].mTimeStamp <= Top.oldest
    <2>1. 0 \in Ages
      BY ResourcesAssumption DEF Ages
    <2> QED
      BY <1>2, <2>1, NextIs
  <1>4. PICK t \in Ages : t = object[mOrphanedResources[Top.iter]].mTimeStamp
    BY <1>1, <1>3, OrphanIds, CountsNat
  <1>5. PICK m \in Ages : m = Older(t, Top.oldest) /\ m >= t /\ m >= Top.oldest
    <2>1. Older(t, Top.oldest) \in {t, Top.oldest}
      BY DEF Older
    <2>2. Older(t, Top.oldest) >= t /\ Older(t, Top.oldest) >= Top.oldest
      BY <1>3, ResourcesAssumption DEF Older, Ages
    <2> QED
      BY <1>3, <2>1, <2>2
  <1>6. \A n \in DOMAIN mOrphanedResources :
          n <= Top.iter => object[mOrphanedResources[n]].mTimeStamp <= m
    <2> SUFFICES ASSUME NEW n \in DOMAIN mOrphanedResources, n <= Top.iter
                 PROVE  object[mOrphanedResources[n]].mTimeStamp <= m
      OBVIOUS
    <2>1. object[mOrphanedResources[n]].mTimeStamp \in Ages
      BY <1>1, OrphanIds, CountsNat
    <2>2. n \in Nat /\ Top.iter \in Nat
      BY <1>1, <1>3, OrphanIds
    <2>3. CASE n < Top.iter
      <3>1. object[mOrphanedResources[n]].mTimeStamp <= Top.oldest
        BY <1>3, <2>3
      <3> QED
        BY <1>3, <1>5, <2>1, <3>1, ResourcesAssumption DEF Ages
    <2>4. CASE n = Top.iter
      BY <1>4, <1>5, <2>4
    <2> QED
      BY <2>2, <2>3, <2>4
  <1>7. PICK a \in CallType :
          /\ a = [[Top EXCEPT !.iter = From(mOrphanedResources, Top.iter + 1)] EXCEPT !.oldest = m]
          /\ a.op = "sweep" /\ a.iter \in DOMAIN mOrphanedResources \cup {End}
          /\ a.oldest = m
          /\ \A n \in DOMAIN mOrphanedResources : a.iter = End \/ n < a.iter => n <= Top.iter
    BY <1>2, NextIs
  <1>8. /\ Then(<<a>>) /\ UNCHANGED mOldestOrphan
        /\ UNCHANGED <<mResources, mOrphanedResources, mDeletedResources, object, held, got>>
    BY <1>4, <1>5, <1>7 DEF SweepOne
  <1> DEFINE s == <<a>>
  <1>9. Then(s)
    BY <1>8
  <1>10. /\ s \in Seq(CallType) /\ DOMAIN s = {1} /\ s[1] = a /\ Len(s) = 1 /\ s # <<>>
         /\ \A x : Owed(s, x) = IF Gives(a, x) THEN 1 ELSE 0
    BY OneIs
  <1> HIDE DEF s
  <1>11. SweepRight(a)
    BY <1>6, <1>7 DEF SweepRight
  <1>12. \A i \in DOMAIN s : MoveRight(s[i]) /\ LoadRight(s[i]) /\ SweepRight(s[i])
    BY <1>7, <1>10, <1>11 DEF MoveRight, LoadRight, Loading
  <1>13. \A x \in Res : Owed(s, x) = IF Gives(Top, x) THEN 1 ELSE 0
    BY <1>2, <1>7, <1>10 DEF Gives
  <1>14. \A i \in DOMAIN s : \A j \in 2 .. Len(calls) : MayStandOn(s[i], calls[j])
    <2>1. \A c : Below(c) => MayStandOn(a, c)
      BY <1>1, <1>2, <1>7, SweepAbove DEF MayStandOn
    <2> QED
      BY <1>1, <1>2, <1>10, <2>1, SecondBelow
  <1>15. \A i \in DOMAIN s : /\ s[i].op \notin Waiting /\ s[i].op \notin Loading
                             /\ s[i].op \notin Moving /\ s[i].op # "delete"
    BY <1>7, <1>10 DEF Waiting, Loading, Moving
  <1>16. \A i, j \in DOMAIN s : ~(i < j)
    BY <1>10
  <1>17. got = Null /\ \A c : Second(c) => c.op \notin Waiting
    BY <1>1, <1>2, Silent DEF Giving, Waiting, Loading
  <1>18. \A c : Below(c) => c.op \notin Moving
    BY <1>1, <1>2, SweepAbove DEF Moving
  <1>19. AllButAges'
    BY <1>2, <1>8, <1>9, <1>10, <1>12, <1>13, <1>14, <1>15, <1>16, <1>17, <1>18, StackOnly
  <1>20. AgesRight'
    BY <1>2, <1>7, <1>8, <1>9, <1>10, FirmAges
  <1> QED
    BY <1>19, <1>20 DEF AllButAges, ResourcesInv

----------------------------------------------------------------------------
(* Steps that give a resource up: its destructor runs next.                *)

LEMMA DoomCounts ==
    ASSUME ObjectsRight, HeldRight, StackRight, CountsRight, NoClaims,
           calls # <<>>, NEW s \in Seq(CallType), Then(s), NEW r \in DOMAIN object,
           \A x : ~Doomed(x), \A x : Doomed(x)' <=> x = r,
           held' = held, got' = got, Well(object'), SameHolds(object', object),
           \A x : Keepers(object', x) = Keepers(object, x),
           \A x \in DOMAIN object : object'[x].mProtected = object[x].mProtected,
           \A x \in DOMAIN object : x # r => object'[x].mRefCount = object[x].mRefCount,
           Claims(r) = (IF Gives(Top, r) THEN 1 ELSE 0), IsAtlas(r) => object'[r].mRefCount = 0,
           \A x \in Res : Owed(s, x) = 0, \A x \in Res : x # r => ~Gives(Top, x)
    PROVE  CountsRight' /\ NoClaims'
  <1>1. DOMAIN object' = DOMAIN object /\ r \in Res
    BY DEF SameHolds, ObjectsRight
  <1>2. ASSUME NEW x \in Res
        PROVE  /\ Owed(calls', x) + (IF Gives(Top, x) THEN 1 ELSE 0) = Owed(calls, x)
               /\ Owed(calls', x) \in Nat /\ Owed(calls, x) \in Nat
               /\ Owed(calls', x) = 0 <=> Pending(calls', x) = {}
    <2>1. calls' \in Seq(CallType)
      BY StackStep DEF StackRight
    <2>2. /\ Owed(calls', x) + (IF Gives(Top, x) THEN 1 ELSE 0) = Owed(calls, x) + Owed(s, x)
          /\ Owed(calls', x) \in Nat /\ Owed(calls, x) \in Nat
      BY OwedStep DEF StackRight
    <2> QED
      BY <2>1, <2>2, OwedNat
  <1>3. ASSUME NEW x \in DOMAIN object, x # r PROVE object'[x].mRefCount = Claims(x)'
    <2>1. x \in Res /\ object[x].mRefCount = Claims(x)
      BY DEF ObjectsRight, CountsRight
    <2>2. Owed(calls', x) = Owed(calls, x)
      BY <1>2, <1>3, <2>1
    <2>3. Holding(object', x) = Holding(object, x) /\ Keeping(object', x) = Keeping(object, x)
      BY HoldersSame DEF Holding, Keeping
    <2>4. object'[x].mRefCount = object[x].mRefCount /\ object'[x].mProtected = object[x].mProtected
      BY <1>3
    <2> QED
      BY <2>1, <2>2, <2>3, <2>4 DEF Claims, Kept
  <1>4. CountsRight'
    BY <1>1, <1>3 DEF CountsRight
  <1>5. /\ held[r] = 0 /\ Holders(object, r) = {} /\ Keepers(object, r) = {}
        /\ ~object[r].mProtected /\ got # r /\ Owed(calls', r) = 0
    <2> DEFINE give == IF Gives(Top, r) THEN 1 ELSE 0
    <2>1. /\ held[r] \in Nat /\ Holding(object, r) \in Nat /\ Keeping(object, r) \in Nat
          /\ Bit(object[r].mProtected) \in Nat /\ Bit(got = r) \in Nat
          /\ Holding(object, r) = 0 <=> Holders(object, r) = {}
          /\ Keeping(object, r) = 0 <=> Keepers(object, r) = {}
          /\ Bit(object[r].mProtected) = 0 <=> ~object[r].mProtected
          /\ Bit(got = r) = 0 <=> got # r
      BY <1>1, Counted
    <2>2. /\ give \in Nat /\ Owed(calls', r) + give = Owed(calls, r)
          /\ Owed(calls, r) \in Nat /\ Owed(calls', r) \in Nat
      BY <1>1, <1>2
    <2>3. held[r] + Holding(object, r) + Keeping(object, r) + Bit(object[r].mProtected)
            + Owed(calls, r) + Bit(got = r) = give
      BY DEF Claims, Kept
    <2> HIDE DEF give
    <2>4. /\ held[r] = 0 /\ Holding(object, r) = 0 /\ Keeping(object, r) = 0
          /\ Bit(object[r].mProtected) = 0 /\ Bit(got = r) = 0 /\ Owed(calls', r) = 0
      <3> DEFINE h == held[r]
                 o == Holding(object, r)
                 k == Keeping(object, r)
                 b == Bit(object[r].mProtected)
                 g == Bit(got = r)
                 w == Owed(calls, r)
                 w2 == Owed(calls', r)
      <3>1. /\ h \in Nat /\ o \in Nat /\ k \in Nat /\ b \in Nat /\ g \in Nat /\ w \in Nat
            /\ w2 \in Nat /\ give \in Nat /\ h + o + k + b + w + g = give /\ w2 + give = w
        BY <2>1, <2>2, <2>3
      <3> HIDE DEF h, o, k, b, g, w, w2
      <3>2. h = 0 /\ o = 0 /\ k = 0 /\ b = 0 /\ g = 0 /\ w2 = 0
        BY SMTT(30), <3>1
      <3> QED
        BY <3>2 DEF h, o, k, b, g, w2
    <2> QED
      BY <2>1, <2>4
  <1>6. Unclaimed(r)'
    <2>1. Holders(object', r) = {}
      BY <1>5, HoldersSame
    <2> QED
      BY <1>1, <1>2, <1>5, <2>1 DEF Unclaimed
  <1>7. ASSUME NEW x \in Res \ DOMAIN object PROVE Unclaimed(x)'
    <2>1. Unclaimed(x)
      BY DEF NoClaims
    <2>2. Holders(object', x) = {}
      BY <2>1, HoldersSame DEF Unclaimed
    <2>3. Owed(calls, x) = 0
      BY <2>1, OwedNat DEF StackRight, Unclaimed
    <2>4. Owed(calls', x) = 0
      BY <1>2, <2>3
    <2>5. Pending(calls', x) = {}
      BY <1>2, <2>4
    <2> QED
      BY <2>1, <2>2, <2>5 DEF Unclaimed
  <1>8. NoClaims'
    BY <1>1, <1>5, <1>6, <1>7 DEF NoClaims
  <1> QED
    BY <1>4, <1>8

\* What is left of a map.
SubMap(f, g) == DOMAIN f \subseteq DOMAIN g /\ \A i \in DOMAIN f : f[i] = g[i]

LEMMA DoomStep ==
    ASSUME ResourcesInv, calls # <<>>, NEW s \in Seq(CallType), Then(s), NEW r \in DOMAIN object,
           Top.op # "delete", s # <<>>, s[1].op = "delete", s[1].res = r,
           held' = held, got' = got, Well(object'), SameHolds(object', object),
           ~IsAtlas(r) \/ object' = object,
           \A x \in DOMAIN object : object'[x].mProtected = object[x].mProtected,
           \A x \in DOMAIN object : x # r => object'[x].mRefCount = object[x].mRefCount,
           Claims(r) = (IF Gives(Top, r) THEN 1 ELSE 0), IsAtlas(r) => object'[r].mRefCount = 0,
           \A x \in Res : Owed(s, x) = 0, \A x \in Res : x # r => ~Gives(Top, x),
           Top.op \notin {"moveToDeleted", "moved"},
           SubMap(mResources', mResources), ~Has(mResources', r),
           \A x \in Res : x # r /\ Has(mResources, x) => Has(mResources', x),
           SubMap(mOrphanedResources', mOrphanedResources), ~Has(mOrphanedResources', r),
           \A x \in Res : x # r /\ Has(mOrphanedResources, x) => Has(mOrphanedResources', x),
           mDeletedResources' \subseteq mDeletedResources \ {r},
           \A i, j \in DOMAIN s : i < j => MayStandOn(s[i], s[j]),
           \A i \in DOMAIN s : \A j \in 2 .. Len(calls) : MayStandOn(s[i], calls[j]),
           \A i \in DOMAIN s : /\ s[i].op \notin Moving \cup Waiting \cup Loading
                               /\ s[i].op \notin {"decRef", "decRefDelete"},
           \A c : Below(c) => c.op \notin Moving,
           \A i \in DOMAIN s : SweepRight(s[i])',
           \A c : Below(c) /\ SweepRight(c) => SweepRight(c)',
           \A c : Second(c) /\ c.op \in Waiting => Answered(c) /\ s[Len(s)].op \in Giving,
           got # Null => /\ Len(calls) >= 2 /\ calls[Len(calls)].op = "hold"
                         /\ \A i \in DOMAIN s : s[i].op \in Giving
                         /\ \A c : Below(c) => c.op \in Giving \cup Waiting
    PROVE  AllButAges'
  <1>1. /\ ObjectsRight /\ HeldRight /\ CountsRight /\ NoClaims
        /\ CacheRight /\ OrphanRight /\ DeletedRight /\ FoundAgain
        /\ StackRight /\ MovesRight /\ LoadsRight /\ GotRight /\ SweepsRight
    BY DEF ResourcesInv
  <1>2. \A x : ~Doomed(x)
    BY NotDoomed
  <1>3. \A x : Doomed(x)' <=> x = r
    BY <1>1, DoomAfter
  <1>4. DOMAIN object' = DOMAIN object /\ \A x \in DOMAIN object : object'[x].holds = object[x].holds
    BY DEF SameHolds
  <1>5. \A x : Keepers(object', x) = Keepers(object, x)
    <2>1. \A x \in DOMAIN object' :
            IsAtlas(x) => (object'[x].mRefCount > 0 <=> object[x].mRefCount > 0)
      BY <1>4
    <2> QED
      BY <2>1, KeepersSame
  <1>6. CountsRight' /\ NoClaims'
    BY <1>1, <1>2, <1>3, <1>5, DoomCounts
  <1>7. \A x \in DOMAIN object : Part(x)' <=> Part(x)
    BY <1>4 DEF Part
  <1>8. ObjectsRight'
    <2>1. ASSUME NEW x \in DOMAIN object PROVE HoldsRight(x)'
      <3>1. object'[x].holds = object[x].holds /\ HoldsRight(x)
        BY <1>1, <1>4 DEF ObjectsRight
      <3>2. \A i \in DOMAIN object[x].holds : object[x].holds[i] \in DOMAIN object
        BY <1>1, HeldAlive
      <3>3. \A p : p \in DOMAIN object /\ Part(p) => Part(p)'
        BY <1>7
      <3>4. IsAtlas(x) => \A i \in DOMAIN object[x].holds :
                            \A p : p = object[x].holds[i] => Part(p)'
        BY <3>1, <3>2, <3>3 DEF HoldsRight
      <3> HIDE DEF Part
      <3> QED
        BY <3>1, <3>4 DEF HoldsRight, IsAtlas
    <2>2. \A x \in DOMAIN object : object'[x].mProtected => Id(x) \in Sprites
      BY <1>1 DEF ObjectsRight
    <2> QED
      BY <1>4, <2>1, <2>2 DEF ObjectsRight, Well
  <1>9. CacheRight'
    <2> SUFFICES ASSUME NEW i \in DOMAIN mResources'
                 PROVE  \A x : x = mResources'[i] =>
                          /\ x \in DOMAIN object' /\ Id(x) = i /\ object'[x].mRefCount > 0
                          /\ ~Doomed(x)'
                          /\ Part(x)' => Keepers(object', x) # {} \/ Leaving(x)'
      BY DEF CacheRight
    <2> TAKE x
    <2> HAVE x = mResources'[i]
    <2>1. i \in DOMAIN mResources /\ x = mResources[i]
      BY DEF SubMap
    <2>2. /\ x \in DOMAIN object /\ Id(x) = i /\ object[x].mRefCount > 0
          /\ Part(x) => Keepers(object, x) # {} \/ Leaving(x)
      BY <1>1, <2>1 DEF CacheRight
    <2>3. x # r
      BY <1>1, <2>2, HasIs DEF ObjectsRight
    <2>4. Leaving(x) => Leaving(x)'
      BY <1>1, LeavingStays
    <2> QED
      BY <1>3, <1>4, <1>5, <1>7, <2>2, <2>3, <2>4
  <1>10. OrphanRight'
    <2> SUFFICES ASSUME NEW i \in DOMAIN mOrphanedResources'
                 PROVE  \A x : x = mOrphanedResources'[i] =>
                          /\ x \in DOMAIN object' /\ Id(x) = i /\ object'[x].mRefCount = 0
                          /\ ~Doomed(x)' /\ ~Part(x)'
                          /\ i \in DOMAIN mResources' => \A y : y = mResources'[i] => Part(y)'
      BY DEF OrphanRight
    <2> TAKE x
    <2> HAVE x = mOrphanedResources'[i]
    <2>1. i \in DOMAIN mOrphanedResources /\ x = mOrphanedResources[i]
      BY DEF SubMap
    <2>2. /\ x \in DOMAIN object /\ Id(x) = i /\ object[x].mRefCount = 0 /\ ~Part(x)
          /\ i \in DOMAIN mResources => Part(mResources[i]) /\ mResources[i] \in DOMAIN object
      BY <1>1, <2>1 DEF OrphanRight, CacheRight
    <2>3. x # r
      BY <1>1, <2>2, HasIs DEF ObjectsRight
    <2>4. i \in DOMAIN mResources' => i \in DOMAIN mResources /\ mResources'[i] = mResources[i]
      BY DEF SubMap
    <2> QED
      BY <1>3, <1>4, <1>7, <2>2, <2>3, <2>4
  <1>11. DeletedRight'
    <2> SUFFICES ASSUME NEW x \in mDeletedResources'
                 PROVE  /\ x \in DOMAIN object' /\ object'[x].mRefCount > 0 /\ ~Doomed(x)'
                        /\ Id(x) \in Pixels \ Wallpapers
                        /\ ~Part(x)' => ~Has(mResources', x)
      BY DEF DeletedRight
    <2>1. x \in mDeletedResources /\ x # r
      OBVIOUS
    <2>2. /\ x \in DOMAIN object /\ object[x].mRefCount > 0 /\ Id(x) \in Pixels \ Wallpapers
          /\ ~Part(x) => ~Has(mResources, x)
      BY <1>1, <2>1 DEF DeletedRight
    <2>3. Has(mResources', x) => Has(mResources, x)
      BY <1>1, <2>2, HasIs DEF SubMap, ObjectsRight
    <2> QED
      BY <1>3, <1>4, <1>7, <2>1, <2>2, <2>3
  <1>12. FoundAgain'
    <2> SUFFICES ASSUME NEW x \in DOMAIN object
                 PROVE  /\ IsAtlas(x) /\ object'[x].mRefCount > 0 => Has(mResources', x)
                        /\ object'[x].mRefCount = 0 => Has(mOrphanedResources', x) \/ Doomed(x)'
      BY <1>4 DEF FoundAgain
    <2>1. CASE x = r
      BY <1>3, <2>1
    <2>2. CASE x # r
      BY <1>1, <1>2, <2>2 DEF FoundAgain, ObjectsRight
    <2> QED
      BY <2>1, <2>2
  <1>13. HeldRight'
    BY <1>1 DEF HeldRight
  <1>14. StackRight'
    BY <1>1, KeepStack
  <1>15. MovesRight'
    <2>1. \A c : c.op \notin Moving /\ c.op # "decRefDelete" => MoveRight(c)'
      BY DEF MoveRight, Moving
    <2>2. \A i \in DOMAIN s : s[i].op \notin Moving
      OBVIOUS
    <2>3. \A i \in DOMAIN s : MoveRight(s[i])'
      <3>1. \A c : (\E i \in DOMAIN s : c = s[i]) => MoveRight(c)'
        BY <2>1
      <3> QED
        BY <3>1
    <2>4. \A c : Below(c) /\ MoveRight(c) => MoveRight(c)'
      BY MovesStay DEF Moving
    <2> QED
      BY <1>1, <2>2, <2>3, <2>4, KeepMoves
  <1>16. LoadsRight'
    <2>1. /\ DOMAIN object' \subseteq DOMAIN object
          /\ DOMAIN mResources' \subseteq DOMAIN mResources \cup Pixels
          /\ DOMAIN mOrphanedResources' \subseteq DOMAIN mOrphanedResources \cup Pixels
      BY <1>4 DEF SubMap
    <2>2. \A c : Below(c) /\ LoadRight(c) => LoadRight(c)'
      BY <2>1, LoadsStay
    <2>3. \A c : c.op \notin Loading => LoadRight(c)'
      BY DEF LoadRight, Loading
    <2>4. \A i \in DOMAIN s : LoadRight(s[i])'
      <3>1. \A c : (\E i \in DOMAIN s : c = s[i]) => LoadRight(c)'
        BY <2>3
      <3> QED
        BY <3>1
    <2> QED
      BY <1>1, <2>2, <2>4, KeepLoads
  <1>17. SweepsRight'
    BY <1>1, KeepSweeps
  <1>18. GotRight'
    <2>1. got' \in Res \cup {Null}
      BY <1>1 DEF GotRight
    <2>2. \A c : Answered(c) => Answered(c)'
      BY DEF Answered, Fits
    <2> QED
      BY <1>1, <2>1, <2>2, KeepGot
  <1> QED
    BY <1>6, <1>8, <1>9, <1>10, <1>11, <1>12, <1>13, <1>14, <1>15, <1>16, <1>17, <1>18
       DEF AllButAges

\* An orphan is in no other list, and nobody refers to it.
LEMMA OrphanAlone ==
    ASSUME ResourcesInv, NEW r \in Res, Has(mOrphanedResources, r)
    PROVE  /\ r \in DOMAIN object /\ object[r].mRefCount = 0 /\ Claims(r) = 0 /\ ~Part(r)
           /\ ~Has(mResources, r) /\ r \notin mDeletedResources
  <1>1. OrphanRight /\ CountsRight /\ CacheRight /\ DeletedRight
    BY DEF ResourcesInv
  <1>2. Id(r) \in DOMAIN mOrphanedResources /\ mOrphanedResources[Id(r)] = r
    BY HasIs
  <1>3. r \in DOMAIN object /\ object[r].mRefCount = 0 /\ ~Doomed(r) /\ ~Part(r)
    BY <1>1, <1>2 DEF OrphanRight
  <1>4. Claims(r) = 0
    BY <1>1, <1>3 DEF CountsRight
  <1>5. ~Has(mResources, r)
    <2>1. ~(object[r].mRefCount > 0)
      BY <1>3
    <2> QED
      BY <1>1, <2>1, HasIs DEF CacheRight
  <1>6. r \notin mDeletedResources
    <2>1. ~(object[r].mRefCount > 0)
      BY <1>3
    <2> QED
      BY <1>1, <2>1 DEF DeletedRight
  <1> QED
    BY <1>3, <1>4, <1>5, <1>6

LEMMA SweepOneDeletesKeeps ==
    ASSUME ResourcesInv, SweepOne,
           ~(~Top.always /\ object[mOrphanedResources[Top.iter]].mTimeStamp <= Limit)
    PROVE  ResourcesInv'
  <1>1. StackRight /\ GotRight /\ OrphanRight /\ ObjectsRight
    BY DEF ResourcesInv
  <1>2. calls # <<>> /\ Top.op = "sweep" /\ Top.iter # End
    BY DEF SweepOne, Running
  <1>3. Top \in CallType
    BY <1>1, <1>2, TopIs
  <1>4. PICK m \in Ages : m = Top.oldest
    BY <1>2, <1>3, CallFacts
  <1>5. /\ Top.iter \in DOMAIN mOrphanedResources
        /\ \A n \in DOMAIN mOrphanedResources :
             n < Top.iter => object[mOrphanedResources[n]].mTimeStamp <= m
    BY <1>2, <1>4, NextIs
  <1>6. PICK a \in CallType :
          /\ a = [[Top EXCEPT !.iter = From(mOrphanedResources, Top.iter + 1)] EXCEPT !.oldest = m]
          /\ a.op = "sweep" /\ a.iter \in DOMAIN mOrphanedResources \cup {End}
          /\ a.iter # Top.iter /\ a.oldest = m
          /\ \A n \in DOMAIN mOrphanedResources : a.iter = End \/ n < a.iter => n <= Top.iter
    BY <1>2, NextIs
  <1>7. a = [Top EXCEPT !.iter = From(mOrphanedResources, Top.iter + 1)]
    BY <1>4, <1>6
  <1>8. PICK r \in Res : r = mOrphanedResources[Top.iter] /\ Id(r) = Top.iter
    BY <1>1, <1>5, OrphanIds
  <1>9. /\ mOrphanedResources' = Without(mOrphanedResources, Top.iter)
        /\ Then(<<Call("delete", r), a>>)
        /\ UNCHANGED <<mResources, mDeletedResources, mOldestOrphan, object, held, got>>
    BY <1>7, <1>8 DEF SweepOne
  <1>10. PICK d \in CallType : d = Call("delete", r) /\ d.op = "delete" /\ d.res = r
    BY CallIs
  <1> DEFINE s == <<d, a>>
  <1>11. /\ s \in Seq(CallType) /\ DOMAIN s = {1, 2} /\ Len(s) = 2 /\ s[1] = d /\ s[2] = a
         /\ s # <<>> /\ Then(s)
         /\ \A x : Owed(s, x) = (IF Gives(d, x) THEN 1 ELSE 0) + (IF Gives(a, x) THEN 1 ELSE 0)
    BY <1>9, <1>10, PairIs
  <1> HIDE DEF s
  <1>12. Has(mOrphanedResources, r)
    BY <1>5, <1>8, HasIs
  <1>13. /\ r \in DOMAIN object /\ object[r].mRefCount = 0 /\ Claims(r) = 0
         /\ ~Has(mResources, r) /\ r \notin mDeletedResources
    BY <1>12, OrphanAlone
  <1>14. /\ DOMAIN mOrphanedResources' = DOMAIN mOrphanedResources \ {Top.iter}
         /\ \A n \in DOMAIN mOrphanedResources' : mOrphanedResources'[n] = mOrphanedResources[n]
    BY <1>9, WithoutIs
  <1>15. /\ SubMap(mOrphanedResources', mOrphanedResources) /\ ~Has(mOrphanedResources', r)
         /\ \A x \in Res : x # r /\ Has(mOrphanedResources, x) => Has(mOrphanedResources', x)
    <2>1. SubMap(mOrphanedResources', mOrphanedResources)
      BY <1>14 DEF SubMap
    <2>2. ~Has(mOrphanedResources', r)
      BY <1>8, <1>14, HasIs
    <2>3. ASSUME NEW x \in Res, x # r, Has(mOrphanedResources, x) PROVE Has(mOrphanedResources', x)
      <3>1. Id(x) \in DOMAIN mOrphanedResources /\ mOrphanedResources[Id(x)] = x
        BY <2>3, HasIs
      <3>2. Id(x) # Top.iter
        BY <1>8, <2>3, <3>1
      <3> QED
        BY <1>14, <3>1, <3>2, HasIs
    <2> QED
      BY <2>1, <2>2, <2>3
  <1>16. /\ SubMap(mResources', mResources) /\ ~Has(mResources', r)
         /\ \A x \in Res : x # r /\ Has(mResources, x) => Has(mResources', x)
         /\ mDeletedResources' \subseteq mDeletedResources \ {r}
    BY <1>9, <1>13 DEF SubMap
  <1>17. /\ object' = object /\ held' = held /\ got' = got /\ Well(object')
         /\ SameHolds(object', object)
    BY <1>1, <1>9 DEF ObjectsRight, Well, SameHolds
  <1>18. SweepRight(a)'
    <2>1. a.iter \in DOMAIN mOrphanedResources' \cup {End}
      BY <1>6, <1>14
    <2>2. ASSUME NEW n \in DOMAIN mOrphanedResources', a.iter = End \/ n < a.iter
          PROVE  object'[mOrphanedResources'[n]].mTimeStamp <= a.oldest
      <3>1. n \in DOMAIN mOrphanedResources /\ n # Top.iter /\ n <= Top.iter
        BY <1>6, <1>14, <2>2
      <3>2. n \in Nat /\ Top.iter \in Nat
        BY <1>1, <1>5, <3>1, OrphanIds
      <3>3. n < Top.iter
        BY <3>1, <3>2
      <3> QED
        BY <1>5, <1>6, <1>14, <1>17, <3>1, <3>3
    <2> QED
      BY <2>1, <2>2 DEF SweepRight
  <1>19. \A i \in DOMAIN s : SweepRight(s[i])'
    <2>1. SweepRight(d)'
      BY <1>10 DEF SweepRight
    <2>2. \A c : c \in {d, a} => SweepRight(c)'
      BY <1>18, <2>1
    <2> QED
      BY <1>11, <2>2
  <1>20. \A c : Below(c) => c \in CallType /\ c.op = "sweepAll"
    BY <1>1, <1>2, SweepAbove
  <1>21. \A c : Below(c) => SweepRight(c)' /\ MayStandOn(d, c) /\ MayStandOn(a, c)
    BY <1>6, <1>10, <1>20 DEF SweepRight, MayStandOn, Giving
  <1>22. \A i \in DOMAIN s : \A j \in 2 .. Len(calls) : MayStandOn(s[i], calls[j])
    BY <1>1, <1>2, <1>11, <1>21, SecondBelow
  <1>23. \A i, j \in DOMAIN s : i < j => MayStandOn(s[i], s[j])
    <2>1. MayStandOn(d, a)
      BY <1>6, <1>10 DEF MayStandOn, Giving
    <2> QED
      BY <1>11, <2>1
  <1>24. /\ \A x \in Res : Owed(s, x) = 0
         /\ \A x \in Res : ~Gives(Top, x)
    BY <1>2, <1>6, <1>10, <1>11 DEF Gives
  <1>25. \A i \in DOMAIN s : /\ s[i].op \notin Moving \cup Waiting \cup Loading
                             /\ s[i].op \notin {"decRef", "decRefDelete"}
    BY <1>6, <1>10, <1>11 DEF Moving, Waiting, Loading
  <1>26. /\ \A c : Below(c) => c.op \notin Moving /\ c.op \notin Waiting
         /\ \A c : Second(c) => c.op \notin Waiting
    BY <1>1, <1>2, <1>20, SecondBelow DEF Moving, Waiting
  <1>27. got = Null
    BY <1>1, <1>2, Silent DEF Giving, Waiting
  <1>28. Claims(r) = (IF Gives(Top, r) THEN 1 ELSE 0)
    BY <1>13, <1>24
  <1>29. s[1].op = "delete" /\ s[1].res = r
    BY <1>10, <1>11
  <1>30. AllButAges'
    BY <1>2, <1>11, <1>13, <1>15, <1>16, <1>17, <1>19, <1>21, <1>22, <1>23, <1>24, <1>25, <1>26,
       <1>27, <1>28, <1>29, DoomStep
  <1>31. AgesRight'
    <2>1. \E i \in DOMAIN s : s[i].op = "sweep"
      BY <1>6, <1>11
    <2> QED
      BY <1>1, <1>2, <1>9, <1>11, <1>14, <1>17, <2>1, AgesStay DEF ResourcesInv
  <1> QED
    BY <1>30, <1>31 DEF AllButAges, ResourcesInv

\* What counts references is not an orphan.
LEMMA CountedApart ==
    ASSUME ResourcesInv, NEW r \in DOMAIN object, object[r].mRefCount # 0
    PROVE  r \in Res /\ ~Has(mOrphanedResources, r)
  <1>1. r \in Res
    BY CountsNat
  <1> QED
    BY <1>1, OrphanAlone

LEMMA LeaveCache ==
    ASSUME NEW r \in Res, NEW map, Has(map, r)
    PROVE  /\ SubMap(Without(map, Id(r)), map) /\ ~Has(Without(map, Id(r)), r)
           /\ \A x \in Res : x # r /\ Has(map, x) => Has(Without(map, Id(r)), x)
  <1>1. Id(r) \in DOMAIN map /\ map[Id(r)] = r
    BY HasIs
  <1>2. /\ DOMAIN Without(map, Id(r)) = DOMAIN map \ {Id(r)}
        /\ \A i \in DOMAIN map \ {Id(r)} : Without(map, Id(r))[i] = map[i]
    BY WithoutIs
  <1>3. ~Has(Without(map, Id(r)), r)
    BY <1>2, HasIs
  <1>4. ASSUME NEW x \in Res, x # r, Has(map, x) PROVE Has(Without(map, Id(r)), x)
    <2>1. Id(x) \in DOMAIN map /\ map[Id(x)] = x
      BY <1>4, HasIs
    <2>2. Id(x) # Id(r)
      BY <1>1, <1>4, <2>1
    <2> QED
      BY <1>2, <2>1, <2>2, HasIs
  <1> QED
    BY <1>2, <1>3, <1>4 DEF SubMap

LEMMA DecRefDeleteLastKeeps ==
    ASSUME ResourcesInv, DecRefDelete, object[Top.res].mRefCount = 1
    PROVE  ResourcesInv'
  <1>1. StackRight /\ GotRight /\ OrphanRight /\ ObjectsRight /\ MovesRight /\ DeletedRight
    BY DEF ResourcesInv
  <1>2. calls # <<>> /\ Top.op = "decRefDelete"
    BY DEF DecRefDelete, Running
  <1>3. PICK r \in Res : r = Top.res
    BY <1>2, GivenBack
  <1>4. r \in DOMAIN object /\ object[r].mRefCount = 1 /\ Claims(r) = 1
    BY <1>2, <1>3, GivenBack
  <1>5. Id(r) \in Wallpapers /\ ~IsAtlas(r)
    <2>1. MoveRight(Top)
      BY <1>1, <1>2, TopIs DEF MovesRight
    <2> QED
      BY <1>2, <1>3, <2>1, KindsApart DEF MoveRight, IsAtlas
  <1>6. ~Has(mOrphanedResources, r) /\ r \notin mDeletedResources
    <2>1. ~Has(mOrphanedResources, r)
      BY <1>4, CountedApart
    <2> QED
      BY <1>1, <1>5, <2>1 DEF DeletedRight
  <1>7. PICK d \in CallType : d = Call("delete", r) /\ d.op = "delete" /\ d.res = r
    BY CallIs
  <1>8. /\ Then(<<d>>) /\ object' = object /\ held' = held /\ got' = got
        /\ mResources' = (IF Has(mResources, r) THEN Without(mResources, Id(r)) ELSE mResources)
        /\ mOrphanedResources' = mOrphanedResources
        /\ mDeletedResources' = mDeletedResources /\ mOldestOrphan' = mOldestOrphan
    BY <1>3, <1>4, <1>6, <1>7 DEF DecRefDelete
  <1> DEFINE s == <<d>>
  <1>9. /\ s \in Seq(CallType) /\ DOMAIN s = {1} /\ Len(s) = 1 /\ s[1] = d /\ s # <<>> /\ Then(s)
        /\ \A x : Owed(s, x) = IF Gives(d, x) THEN 1 ELSE 0
    BY <1>8, OneIs
  <1> HIDE DEF s
  <1>10. /\ SubMap(mResources', mResources) /\ ~Has(mResources', r)
         /\ \A x \in Res : x # r /\ Has(mResources, x) => Has(mResources', x)
    <2>1. CASE Has(mResources, r)
      BY <1>8, <2>1, LeaveCache
    <2>2. CASE ~Has(mResources, r)
      BY <1>8, <2>2 DEF SubMap
    <2> QED
      BY <2>1, <2>2
  <1>11. /\ SubMap(mOrphanedResources', mOrphanedResources) /\ ~Has(mOrphanedResources', r)
         /\ \A x \in Res : x # r /\ Has(mOrphanedResources, x) => Has(mOrphanedResources', x)
         /\ mDeletedResources' \subseteq mDeletedResources \ {r}
    BY <1>6, <1>8 DEF SubMap
  <1>12. Well(object') /\ SameHolds(object', object)
    BY <1>1, <1>8 DEF ObjectsRight, Well, SameHolds
  <1>13. \A i \in DOMAIN s : SweepRight(s[i])'
    <2>1. \A c : c = d => SweepRight(c)'
      BY <1>7 DEF SweepRight
    <2> QED
      BY <1>9, <2>1
  <1>14. /\ \A c : ~Below(c) /\ ~Second(c)
         /\ \A j \in 2 .. Len(calls) : FALSE
    BY <1>1, <1>2, DecRefDeleteAbove
  <1>15. /\ \A x \in Res : Owed(s, x) = 0
         /\ \A x \in Res : x # r => ~Gives(Top, x)
         /\ Claims(r) = (IF Gives(Top, r) THEN 1 ELSE 0)
    BY <1>2, <1>3, <1>4, <1>7, <1>9 DEF Gives
  <1>16. /\ s[1].op = "delete" /\ s[1].res = r
         /\ \A i \in DOMAIN s : /\ s[i].op \notin Moving \cup Waiting \cup Loading
                                /\ s[i].op \notin {"decRef", "decRefDelete"}
         /\ \A i, j \in DOMAIN s : ~(i < j)
    BY <1>7, <1>9 DEF Moving, Waiting, Loading
  <1>17. got = Null
    BY <1>1, <1>2, Silent DEF Giving, Waiting
  <1>18. AllButAges'
    BY <1>2, <1>4, <1>5, <1>8, <1>9, <1>10, <1>11, <1>12, <1>13, <1>14, <1>15, <1>16, <1>17,
       DoomStep
  <1>19. AgesRight'
    BY <1>1, <1>2, <1>8, <1>9, AgesStay DEF ResourcesInv
  <1> QED
    BY <1>18, <1>19 DEF AllButAges, ResourcesInv

\* The reference that a call gives back is the only one left.
LEMMA LastReference ==
    ASSUME ResourcesInv, calls # <<>>, Top.op = "decRef", object[Top.res].mRefCount = 1
    PROVE  /\ Top.res \in Res /\ Top.res \in DOMAIN object /\ Claims(Top.res) = 1
           /\ Kept(Top.res) = 0 /\ held[Top.res] = 0 /\ Holders(object, Top.res) = {}
           /\ Keepers(object, Top.res) = {} /\ ~object[Top.res].mProtected /\ got # Top.res
           /\ Owed(calls, Top.res) = 1
           /\ ~Leaving(Top.res) /\ \A c : Below(c) => c.op \notin Moving
  <1>1. ObjectsRight /\ HeldRight /\ StackRight /\ MovesRight
    BY DEF ResourcesInv
  <1>2. PICK r \in Res : r = Top.res
    BY GivenBack
  <1>3. /\ r \in DOMAIN object /\ Claims(r) = 1 /\ Owed(calls, r) >= 1
        /\ Owed(calls, r) \in Nat /\ Kept(r) \in Nat
    BY <1>2, GivenBack
  <1>4. /\ held[r] \in Nat /\ Holding(object, r) \in Nat /\ Keeping(object, r) \in Nat
        /\ Bit(object[r].mProtected) \in Nat /\ Bit(got = r) \in Nat
        /\ Holding(object, r) = 0 <=> Holders(object, r) = {}
        /\ Keeping(object, r) = 0 <=> Keepers(object, r) = {}
        /\ Bit(object[r].mProtected) = 0 <=> ~object[r].mProtected
        /\ Bit(got = r) = 0 <=> got # r
    BY <1>1, Counted
  <1>5. Kept(r) = 0 /\ Owed(calls, r) = 1 /\ Bit(got = r) = 0
    <2>1. Kept(r) + Owed(calls, r) + Bit(got = r) = 1
      BY <1>3 DEF Claims
    <2> QED
      BY <1>3, <1>4, <2>1
  <1>6. held[r] + Holding(object, r) + Keeping(object, r) + Bit(object[r].mProtected) = 0
    BY <1>5 DEF Kept
  <1>7. /\ held[r] = 0 /\ Holding(object, r) = 0 /\ Keeping(object, r) = 0
        /\ Bit(object[r].mProtected) = 0
    BY <1>4, <1>6
  <1>8. ~\E j \in DOMAIN calls : calls[j].op \in Moving
    <2>1. 1 \in DOMAIN calls /\ calls[1] = Top
      BY <1>1, TopIs
    <2>2. ~(Kept(calls[1].res) > 0) /\ calls[1].op = "decRef"
      BY <1>2, <1>5, <2>1
    <2> QED
      BY <1>1, <2>1, <2>2 DEF MovesRight
  <1>9. \A c : Below(c) => c.op \notin Moving
    BY <1>8 DEF Below
  <1>10. ~Leaving(r)
    BY <1>8 DEF Leaving, Moving
  <1> QED
    BY <1>2, <1>3, <1>4, <1>5, <1>7, <1>9, <1>10

\* Whatever stands on a call below, its destructor may stand there too.
LEMMA DeleteStands ==
    ASSUME NEW r, NEW a, NEW c, NEW d, a.op = "decRef", a.res = r, d.op = "delete", d.res = r,
           MayStandOn(a, c), c.op \notin Moving
    PROVE  MayStandOn(d, c)
  BY DEF MayStandOn, Moving, Giving, Loading

\* What the last decRef does to the counters.
LEMMA LastCounters ==
    ASSUME ResourcesInv, DecRef, object[Top.res].mRefCount = 1
    PROVE  /\ Well(object') /\ SameHolds(object', object)
           /\ \A x \in DOMAIN object : x # Top.res => object'[x] = object[x]
           /\ object'[Top.res].mRefCount = 0 /\ object'[Top.res].mTimeStamp = 0
           /\ object'[Top.res].mProtected = object[Top.res].mProtected
           /\ held' = held /\ got' = got
           /\ Release(Top.res)
           /\ Then((IF MustDelete(Top.res) THEN <<Call("delete", Top.res)>> ELSE <<>>)
                     \o Retired(Top.res))
  <1>1. ObjectsRight
    BY DEF ResourcesInv
  <1>2. calls # <<>> /\ Top.op = "decRef"
    BY DEF DecRef, Running
  <1>3. PICK r \in Res : r = Top.res
    BY <1>2, GivenBack
  <1>4. r \in DOMAIN object /\ object[r] \in Record
    BY <1>2, <1>3, GivenBack
  <1>5. /\ object' = [object EXCEPT ![r].mRefCount = 0, ![r].mTimeStamp = 0]
        /\ held' = held /\ got' = got /\ Release(r)
        /\ Then((IF MustDelete(r) THEN <<Call("delete", r)>> ELSE <<>>) \o Retired(r))
    <2>1. 1 # 0 /\ 1 - 1 = 0
      OBVIOUS
    <2> QED
      BY <1>3, <2>1 DEF DecRef
  <1>6. /\ DOMAIN object' = DOMAIN object
        /\ \A x \in DOMAIN object : x # r => object'[x] = object[x]
    BY <1>5
  <1>7. 0 \in Nat /\ 0 \in Ages
    BY ResourcesAssumption DEF Ages
  <1>8. /\ object'[r].mRefCount = 0 /\ object'[r].mTimeStamp = 0
        /\ object'[r].mProtected = object[r].mProtected /\ object'[r].holds = object[r].holds
        /\ object'[r] \in Record
    BY <1>4, <1>5, <1>7 DEF Record
  <1>9. Well(object') /\ SameHolds(object', object)
    BY <1>1, <1>4, <1>6, <1>8, ChangeIs
  <1> QED
    BY <1>3, <1>5, <1>6, <1>8, <1>9

LEMMA DecRefDoomsKeeps ==
    ASSUME ResourcesInv, DecRef, object[Top.res].mRefCount = 1, MustDelete(Top.res)
    PROVE  ResourcesInv'
  <1>1. StackRight /\ GotRight /\ OrphanRight /\ ObjectsRight /\ DeletedRight /\ CacheRight
        /\ FoundAgain
    BY DEF ResourcesInv
  <1>2. calls # <<>> /\ Top.op = "decRef"
    BY DEF DecRef, Running
  <1>3. PICK r \in Res : r = Top.res
    BY <1>2, GivenBack
  <1>4. /\ r \in DOMAIN object /\ Claims(r) = 1 /\ Keepers(object, r) = {} /\ ~Leaving(r)
        /\ \A c : Below(c) => c.op \notin Moving
    BY <1>2, <1>3, LastReference
  <1>5. /\ Well(object') /\ SameHolds(object', object)
        /\ \A x \in DOMAIN object : x # r => object'[x] = object[x]
        /\ object'[r].mRefCount = 0 /\ object'[r].mProtected = object[r].mProtected
        /\ held' = held /\ got' = got
    BY <1>3, LastCounters
  <1>6. ~IsAtlas(r)
    <2> SUFFICES ASSUME IsAtlas(r) PROVE FALSE
      OBVIOUS
    <2>1. Has(mResources, r)
      BY <1>1, <1>3, <1>4 DEF FoundAgain
    <2>2. r \in mDeletedResources
      BY <1>3, <2>1 DEF MustDelete
    <2> QED
      BY <1>1, <2>2, KindsApart DEF DeletedRight, IsAtlas, Pixels
  <1>7. ~Has(mResources, r)
    <2> SUFFICES ASSUME Has(mResources, r) PROVE FALSE
      OBVIOUS
    <2>1. Part(r)
      BY <1>1, <1>3 DEF MustDelete, DeletedRight
    <2> QED
      BY <1>1, <1>4, <2>1, HasIs DEF CacheRight
  <1>8. ~Has(mOrphanedResources, r)
    BY <1>3, <1>4, CountedApart
  <1>9. PICK d \in CallType : d = Call("delete", r) /\ d.op = "delete" /\ d.res = r
    BY CallIs
  <1> DEFINE s == <<d>>
  <1>10. /\ s \in Seq(CallType) /\ DOMAIN s = {1} /\ Len(s) = 1 /\ s[1] = d /\ s # <<>>
         /\ \A x : Owed(s, x) = IF Gives(d, x) THEN 1 ELSE 0
    BY OneIs
  <1>11. /\ Then(s) /\ mResources' = mResources /\ mOrphanedResources' = mOrphanedResources
         /\ mDeletedResources' = mDeletedResources \ {r} /\ mOldestOrphan' = mOldestOrphan
    <2>1. Release(r) /\ Then(<<d>> \o Retired(r))
      BY <1>3, <1>9, LastCounters
    <2>2. Retired(r) = <<>>
      BY <1>6 DEF Retired
    <2>3. <<d>> \o <<>> = <<d>>
      OBVIOUS
    <2> QED
      BY <1>3, <2>1, <2>2, <2>3 DEF Release
  <1> HIDE DEF s
  <1>12. /\ SubMap(mResources', mResources) /\ ~Has(mResources', r)
         /\ \A x \in Res : x # r /\ Has(mResources, x) => Has(mResources', x)
         /\ SubMap(mOrphanedResources', mOrphanedResources) /\ ~Has(mOrphanedResources', r)
         /\ \A x \in Res : x # r /\ Has(mOrphanedResources, x) => Has(mOrphanedResources', x)
    BY <1>7, <1>8, <1>11 DEF SubMap
  <1>13. /\ \A x \in Res : Owed(s, x) = 0
         /\ \A x \in Res : x # r => ~Gives(Top, x)
         /\ Claims(r) = (IF Gives(Top, r) THEN 1 ELSE 0)
    BY <1>2, <1>3, <1>4, <1>9, <1>10 DEF Gives
  <1>14. /\ s[1].op = "delete" /\ s[1].res = r /\ s[Len(s)].op \in Giving
         /\ \A i \in DOMAIN s : /\ s[i].op \notin Moving \cup Waiting \cup Loading
                                /\ s[i].op \notin {"decRef", "decRefDelete"}
                                /\ s[i].op \in Giving
         /\ \A i, j \in DOMAIN s : ~(i < j)
    BY <1>9, <1>10 DEF Moving, Waiting, Loading, Giving
  <1>15. \A i \in DOMAIN s : \A j \in 2 .. Len(calls) : MayStandOn(s[i], calls[j])
    <2>1. \A c : Below(c) => MayStandOn(d, c)
      BY <1>1, <1>2, <1>3, <1>4, <1>9, BelowIs, DeleteStands
    <2> QED
      BY <1>1, <1>2, <1>10, <2>1, SecondBelow
  <1>16. \A n \in DOMAIN mOrphanedResources :
           object'[mOrphanedResources[n]] = object[mOrphanedResources[n]]
    <2> SUFFICES ASSUME NEW n \in DOMAIN mOrphanedResources
                 PROVE  object'[mOrphanedResources[n]] = object[mOrphanedResources[n]]
      OBVIOUS
    <2>1. mOrphanedResources[n] \in DOMAIN object /\ Id(mOrphanedResources[n]) = n
      BY <1>1, OrphanIds
    <2>2. mOrphanedResources[n] # r
      BY <1>8, <2>1, HasIs
    <2> QED
      BY <1>5, <2>1, <2>2
  <1>17. \A i \in DOMAIN s : SweepRight(s[i])'
    <2>1. \A c : c = d => SweepRight(c)'
      BY <1>9 DEF SweepRight
    <2> QED
      BY <1>10, <2>1
  <1>18. \A c : Below(c) /\ SweepRight(c) => SweepRight(c)'
    <2> SUFFICES ASSUME NEW c, Below(c), SweepRight(c) PROVE SweepRight(c)'
      OBVIOUS
    <2>1. c \in CallType
      BY <1>1, <1>2, BelowIs
    <2> QED
      BY <1>11, <1>16, <2>1, SweepsStay
  <1>19. /\ \A c : Second(c) /\ c.op \in Waiting => Answered(c)
         /\ got # Null => /\ Len(calls) >= 2 /\ calls[Len(calls)].op = "hold"
                          /\ \A c : Below(c) => c.op \in Giving \cup Waiting
    <2>1. Top.op \in Giving
      BY <1>2 DEF Giving
    <2> QED
      BY <1>1, <1>2, <2>1, GotBelow
  <1>20. /\ \A x \in DOMAIN object : object'[x].mProtected = object[x].mProtected
         /\ \A x \in DOMAIN object : x # r => object'[x].mRefCount = object[x].mRefCount
    BY <1>5
  <1>21. AllButAges'
    BY <1>2, <1>4, <1>5, <1>6, <1>10, <1>11, <1>12, <1>13, <1>14, <1>15, <1>17, <1>18, <1>19,
       <1>20, DoomStep
  <1>22. AgesRight'
    BY <1>1, <1>2, <1>10, <1>11, <1>16, AgesStay DEF ResourcesInv
  <1> QED
    BY <1>21, <1>22 DEF AllButAges, ResourcesInv

----------------------------------------------------------------------------
(* The last reference to what is in the cache: it becomes an orphan, and   *)
(* an atlas gives its parts back.                                          *)

Retires(s, r) ==
    \A i \in DOMAIN s : /\ s[i].op = "moveToDeleted"
                        /\ \E j \in DOMAIN object[r].holds : s[i].res = object[r].holds[j]

LEMMA OrphanStep ==
    ASSUME ResourcesInv, DecRef, object[Top.res].mRefCount = 1, ~MustDelete(Top.res),
           NEW s \in Seq(CallType), Then(s), Retires(s, Top.res), s # <<>> => IsAtlas(Top.res),
           \A x \in Res : Keeping(object', x) + Owed(s, x) = Keeping(object, x)
    PROVE  ResourcesInv'
  <1>1. /\ ObjectsRight /\ HeldRight /\ CountsRight /\ NoClaims
        /\ CacheRight /\ OrphanRight /\ DeletedRight /\ FoundAgain
        /\ StackRight /\ MovesRight /\ LoadsRight /\ GotRight /\ SweepsRight /\ AgesRight
    BY DEF ResourcesInv
  <1>2. calls # <<>> /\ Top.op = "decRef"
    BY DEF DecRef, Running
  <1>3. PICK r \in Res : r = Top.res
    BY <1>2, GivenBack
  <1>4. /\ r \in DOMAIN object /\ Claims(r) = 1 /\ Kept(r) = 0 /\ got # r
        /\ held[r] = 0 /\ Holders(object, r) = {} /\ Keepers(object, r) = {}
        /\ ~object[r].mProtected /\ ~Leaving(r) /\ \A c : Below(c) => c.op \notin Moving
    BY <1>2, <1>3, LastReference
  <1>5. /\ Well(object') /\ SameHolds(object', object)
        /\ \A x \in DOMAIN object : x # r => object'[x] = object[x]
        /\ object'[r].mRefCount = 0 /\ object'[r].mTimeStamp = 0
        /\ object'[r].mProtected = object[r].mProtected
        /\ held' = held /\ got' = got /\ Release(r)
    BY <1>3, LastCounters
  <1>6. r \notin mDeletedResources /\ Has(mResources, r)
    BY <1>3 DEF MustDelete
  <1>7. ~Part(r)
    <2>1. Id(r) \in DOMAIN mResources /\ mResources[Id(r)] = r
      BY <1>6, HasIs
    <2> QED
      BY <1>1, <1>4, <2>1 DEF CacheRight
  <1>8. Id(r) \notin DOMAIN mOrphanedResources
    <2>1. Id(r) \in DOMAIN mResources /\ mResources[Id(r)] = r
      BY <1>6, HasIs
    <2> QED
      BY <1>1, <1>7, <2>1 DEF OrphanRight
  <1>9. /\ mResources' = Without(mResources, Id(r))
        /\ mOrphanedResources' = With(mOrphanedResources, Id(r), r)
        /\ mDeletedResources' = mDeletedResources
        /\ mOldestOrphan' = IF mOrphanedResources = <<>> THEN 0 ELSE mOldestOrphan
    BY <1>3, <1>5, <1>6, <1>8 DEF Release, Insert
  <1>10. /\ DOMAIN object' = DOMAIN object
         /\ \A x \in DOMAIN object : object'[x].holds = object[x].holds
         /\ \A x \in DOMAIN object : Part(x)' <=> Part(x)
    BY <1>5 DEF SameHolds, Part
  <1>11. /\ SubMap(mResources', mResources)
         /\ \A x \in Res : x # r /\ Has(mResources, x) => Has(mResources', x)
         /\ Id(r) \notin DOMAIN mResources'
    BY <1>6, <1>9, LeaveCache, WithoutIs
  <1>12. /\ DOMAIN mOrphanedResources' = DOMAIN mOrphanedResources \cup {Id(r)}
         /\ mOrphanedResources'[Id(r)] = r
         /\ \A n \in DOMAIN mOrphanedResources : mOrphanedResources'[n] = mOrphanedResources[n]
    BY <1>8, <1>9 DEF With
  <1>13. \A n \in DOMAIN mOrphanedResources :
           /\ mOrphanedResources[n] \in DOMAIN object /\ mOrphanedResources[n] # r
           /\ object'[mOrphanedResources[n]] = object[mOrphanedResources[n]]
    <2>1. \A n \in DOMAIN mOrphanedResources :
            mOrphanedResources[n] \in DOMAIN object /\ Id(mOrphanedResources[n]) = n
      BY <1>1, OrphanIds
    <2> QED
      BY <1>5, <1>8, <2>1
  <1>14. \A x : ~Doomed(x) /\ ~Doomed(x)'
    <2>1. \A x : ~Doomed(x)
      BY <1>2, NotDoomed
    <2>2. s = <<>> \/ s[1].op # "delete"
      BY DEF Retires
    <2>3. \A x : ~Doomed(x)'
      BY <1>1, <1>2, <2>2, DoomAfter
    <2> QED
      BY <2>1, <2>3
  <1>15. \A i \in DOMAIN s : /\ s[i].op = "moveToDeleted"
                             /\ \A x : s[i].res = x =>
                                  /\ x \in DOMAIN object /\ x # r /\ Holders(object, x) # {}
                                  /\ Part(x) /\ Id(x) \notin Wallpapers
    <2> SUFFICES ASSUME NEW i \in DOMAIN s
                 PROVE  s[i].op = "moveToDeleted" /\
                          \A x : s[i].res = x =>
                            /\ x \in DOMAIN object /\ x # r /\ Holders(object, x) # {}
                            /\ Part(x) /\ Id(x) \notin Wallpapers
      OBVIOUS
    <2>1. PICK j \in DOMAIN object[r].holds : s[i].res = object[r].holds[j]
      BY <1>3 DEF Retires
    <2>2. s[i].op = "moveToDeleted"
      BY DEF Retires
    <2>3. PICK x : x = object[r].holds[j]
      OBVIOUS
    <2>4. x \in DOMAIN object /\ Holders(object, x) # {}
      BY <1>1, <1>4, <2>3, HeldAlive
    <2>5. Part(x) /\ Id(x) \notin Wallpapers
      <3>1. IsAtlas(r)
        BY <1>3
      <3>2. HoldsRight(r)
        BY <1>1, <1>4 DEF ObjectsRight
      <3> QED
        BY <2>3, <3>1, <3>2 DEF HoldsRight
    <2> QED
      BY <1>4, <2>1, <2>2, <2>3, <2>4, <2>5
  <1>16. s # <<>> => \A c : ~Below(c) /\ ~Second(c)
    <2> SUFFICES ASSUME s # <<>>, NEW c PROVE ~Below(c)
      BY <1>1, <1>2, SecondBelow
    <2>1. IsAtlas(Top.res)
      OBVIOUS
    <2> QED
      BY <1>1, <1>2, <2>1, BelowIs DEF MayStandOn
  <1>17. HeldRight'
    BY <1>1, <1>5 DEF HeldRight
  <1>18. ObjectsRight'
    <2>1. ASSUME NEW x \in DOMAIN object PROVE HoldsRight(x)'
      <3>1. object'[x].holds = object[x].holds /\ HoldsRight(x)
        BY <1>1, <1>10 DEF ObjectsRight
      <3>2. \A i \in DOMAIN object[x].holds : object[x].holds[i] \in DOMAIN object
        BY <1>1, HeldAlive
      <3>3. \A p : p \in DOMAIN object /\ Part(p) => Part(p)'
        BY <1>10
      <3>4. IsAtlas(x) => \A i \in DOMAIN object[x].holds :
                            \A p : p = object[x].holds[i] => Part(p)'
        BY <3>1, <3>2, <3>3 DEF HoldsRight
      <3> HIDE DEF Part
      <3> QED
        BY <3>1, <3>4 DEF HoldsRight, IsAtlas
    <2>2. \A x \in DOMAIN object : object'[x].mProtected => Id(x) \in Sprites
      BY <1>1, <1>4, <1>5 DEF ObjectsRight
    <2> QED
      BY <1>5, <1>10, <2>1, <2>2 DEF ObjectsRight, Well
  <1>19. \A x \in Res : /\ Holders(object', x) = Holders(object, x)
                        /\ Keeping(object, x) \in Nat /\ Keeping(object', x) \in Nat
                        /\ Owed(s, x) \in Nat /\ Holding(object, x) \in Nat
    BY <1>1, <1>5, HoldersSame, KeepersNat, OwedNat, Counted
  <1>20. \A x \in Res : Holders(object, x) = {} => Keeping(object, x) = 0 /\ Owed(s, x) = 0
    <2> SUFFICES ASSUME NEW x \in Res, Holders(object, x) = {}
                 PROVE  Keeping(object, x) = 0 /\ Owed(s, x) = 0
      OBVIOUS
    <2>1. \A y \in DOMAIN object : \A i \in DOMAIN object[y].holds : object[y].holds[i] # x
      BY HoldersEmpty
    <2>2. Keepers(object, x) = {}
      BY <2>1 DEF Keepers, Range
    <2>3. Keeping(object, x) = 0
      BY <1>1, <2>2, Counted
    <2> QED
      BY <1>19, <2>3
  <1>21. CountsRight' /\ NoClaims'
    <2>1. ASSUME NEW x \in DOMAIN object
          PROVE  object'[x].mRefCount + Kept(x) + Bit(got = x) + (IF Gives(Top, x) THEN 1 ELSE 0)
                   = object[x].mRefCount + Kept(x)' + Bit(got' = x) + Owed(s, x)
      <3> DEFINE n == object[x].mRefCount
                 m == object'[x].mRefCount
                 give == IF Gives(Top, x) THEN 1 ELSE 0
                 o == Holding(object, x)
                 k == Keeping(object, x)
                 k2 == Keeping(object', x)
                 b == Bit(object[x].mProtected)
                 h == held[x]
                 g == Bit(got = x)
                 more == Owed(s, x)
      <3>1. /\ x \in Res /\ n \in Nat /\ b \in Nat /\ h \in Nat /\ g \in Nat
        BY CountsNat
      <3>2. k \in Nat /\ k2 \in Nat /\ more \in Nat /\ o \in Nat /\ k2 + more = k
        BY <1>19, <3>1
      <3>3. m + give = n /\ m \in Nat /\ give \in Nat
        <4>1. CASE x = r
          BY <1>2, <1>3, <1>5, <4>1 DEF Gives
        <4>2. CASE x # r
          BY <1>3, <1>5, <3>1, <4>2 DEF Gives
        <4> QED
          BY <4>1, <4>2
      <3>4. Kept(x) = h + o + k + b
        BY DEF Kept
      <3>5. Kept(x)' = h + o + k2 + b
        <4>1. object'[x].mProtected = object[x].mProtected
          BY <1>5
        <4>2. Holding(object', x) = Holding(object, x)
          BY <1>19, <3>1 DEF Holding
        <4> QED
          BY <1>5, <4>1, <4>2 DEF Kept
      <3>6. Bit(got' = x) = g
        BY <1>5
      <3> HIDE DEF n, m, give, o, k, k2, b, h, g, more
      <3>7. m + (h + o + k + b) + g + give = n + (h + o + k2 + b) + g + more
        BY <3>1, <3>2, <3>3
      <3> QED
        BY <3>4, <3>5, <3>6, <3>7 DEF n, m, give, g, more
    <2>2. ASSUME NEW x \in Res \ DOMAIN object
          PROVE  /\ held'[x] = 0 /\ Holders(object', x) = {} /\ got' # x
                 /\ \A i \in DOMAIN s : ~Gives(s[i], x)
      <3>1. Unclaimed(x)
        BY <1>1 DEF NoClaims
      <3>2. held[x] = 0 /\ Holders(object, x) = {} /\ got # x
        BY <3>1 DEF Unclaimed
      <3>3. \A i \in DOMAIN s : ~Gives(s[i], x)
        BY <1>15 DEF Gives
      <3> QED
        BY <1>5, <1>19, <3>2, <3>3
    <2> QED
      BY <1>1, <1>2, <1>5, <1>10, <1>14, <1>17, <2>1, <2>2, StepCounts
  <1>22. \A x : Leaving(x) => Leaving(x)'
    BY <1>1, <1>2, LeavingStays
  <1>23. \A x \in DOMAIN object : Keepers(object, x) # {} => Keepers(object', x) # {} \/ Leaving(x)'
    <2> SUFFICES ASSUME NEW x \in DOMAIN object, Keepers(object, x) # {}, Keepers(object', x) = {}
                 PROVE  Leaving(x)'
      OBVIOUS
    <2>1. x \in Res
      BY <1>1 DEF ObjectsRight
    <2>2. Keeping(object, x) # 0 /\ Keeping(object', x) = 0
      BY <1>1, <1>5, <2>1, Counted, KeepersNat
    <2>3. Owed(s, x) # 0
      BY <1>19, <2>1, <2>2
    <2>4. Pending(s, x) # {}
      BY <2>3, OwedNat
    <2>5. PICK i \in DOMAIN s : s[i].res = x
      BY <2>4 DEF Pending
    <2>6. s[i].op = "moveToDeleted"
      BY <1>15
    <2>7. PICK j \in DOMAIN calls' : calls'[j] = s[i]
      BY <1>1, <1>2, Elements
    <2> QED
      BY <2>5, <2>6, <2>7 DEF Leaving
  <1>24. CacheRight'
    <2> SUFFICES ASSUME NEW i \in DOMAIN mResources'
                 PROVE  \A x : x = mResources'[i] =>
                          /\ x \in DOMAIN object' /\ Id(x) = i /\ object'[x].mRefCount > 0
                          /\ ~Doomed(x)'
                          /\ Part(x)' => Keepers(object', x) # {} \/ Leaving(x)'
      BY DEF CacheRight
    <2> TAKE x
    <2> HAVE x = mResources'[i]
    <2>1. i \in DOMAIN mResources /\ x = mResources[i] /\ i # Id(r)
      BY <1>11 DEF SubMap
    <2>2. /\ x \in DOMAIN object /\ Id(x) = i /\ object[x].mRefCount > 0
          /\ Part(x) => Keepers(object, x) # {} \/ Leaving(x)
      BY <1>1, <2>1 DEF CacheRight
    <2>3. object'[x] = object[x]
      BY <1>5, <2>1, <2>2
    <2> QED
      BY <1>10, <1>14, <1>22, <1>23, <2>2, <2>3
  <1>25. OrphanRight'
    <2> SUFFICES ASSUME NEW i \in DOMAIN mOrphanedResources'
                 PROVE  \A x : x = mOrphanedResources'[i] =>
                          /\ x \in DOMAIN object' /\ Id(x) = i /\ object'[x].mRefCount = 0
                          /\ ~Doomed(x)' /\ ~Part(x)'
                          /\ i \in DOMAIN mResources' => \A y : y = mResources'[i] => Part(y)'
      BY DEF OrphanRight
    <2> TAKE x
    <2> HAVE x = mOrphanedResources'[i]
    <2>1. CASE i = Id(r)
      BY <1>4, <1>5, <1>7, <1>10, <1>11, <1>12, <1>14, <2>1
    <2>2. CASE i \in DOMAIN mOrphanedResources
      <3>1. x = mOrphanedResources[i]
        BY <1>12, <2>2
      <3>2. /\ x \in DOMAIN object /\ Id(x) = i /\ object[x].mRefCount = 0 /\ ~Part(x)
            /\ i \in DOMAIN mResources => Part(mResources[i]) /\ mResources[i] \in DOMAIN object
        BY <1>1, <2>2, <3>1 DEF OrphanRight, CacheRight
      <3>3. i \in DOMAIN mResources' => i \in DOMAIN mResources /\ mResources'[i] = mResources[i]
        BY <1>11 DEF SubMap
      <3>4. object'[x] = object[x]
        BY <1>13, <2>2, <3>1
      <3> QED
        BY <1>10, <1>14, <3>2, <3>3, <3>4
    <2> QED
      BY <1>12, <2>1, <2>2
  <1>26. DeletedRight'
    <2> SUFFICES ASSUME NEW x \in mDeletedResources
                 PROVE  /\ x \in DOMAIN object' /\ object'[x].mRefCount > 0 /\ ~Doomed(x)'
                        /\ Id(x) \in Pixels \ Wallpapers
                        /\ ~Part(x)' => ~Has(mResources', x)
      BY <1>9 DEF DeletedRight
    <2>1. /\ x \in DOMAIN object /\ object[x].mRefCount > 0 /\ Id(x) \in Pixels \ Wallpapers
          /\ ~Part(x) => ~Has(mResources, x)
      BY <1>1 DEF DeletedRight
    <2>2. object'[x] = object[x]
      BY <1>5, <1>6, <2>1
    <2>3. Has(mResources', x) => Has(mResources, x)
      BY <1>1, <1>11, <2>1, HasIs DEF SubMap, ObjectsRight
    <2> QED
      BY <1>10, <1>14, <2>1, <2>2, <2>3
  <1>27. FoundAgain'
    <2> SUFFICES ASSUME NEW x \in DOMAIN object
                 PROVE  /\ IsAtlas(x) /\ object'[x].mRefCount > 0 => Has(mResources', x)
                        /\ object'[x].mRefCount = 0 => Has(mOrphanedResources', x)
      BY <1>10 DEF FoundAgain
    <2>1. x \in Res
      BY <1>1 DEF ObjectsRight
    <2>2. CASE x = r
      BY <1>5, <1>12, <2>1, <2>2, HasIs
    <2>3. CASE x # r
      <3>1. object'[x] = object[x]
        BY <1>5, <2>3
      <3>2. Has(mOrphanedResources, x) => Has(mOrphanedResources', x)
        BY <1>12, <2>1, HasIs
      <3> QED
        BY <1>1, <1>11, <1>14, <2>1, <2>3, <3>1, <3>2 DEF FoundAgain
    <2> QED
      BY <2>2, <2>3
  <1>28. StackRight'
    <2>1. \A i, j \in DOMAIN s : MayStandOn(s[i], s[j])
      BY <1>15 DEF MayStandOn
    <2>2. \A i \in DOMAIN s : \A j \in 2 .. Len(calls) : MayStandOn(s[i], calls[j])
      BY <1>1, <1>2, <1>16, SecondBelow, EmptyMap
    <2> QED
      BY <1>1, <1>2, <2>1, <2>2, KeepStack
  <1>29. MovesRight'
    <2>1. ASSUME NEW i \in DOMAIN s PROVE MoveRight(s[i])'
      <3>1. PICK c : c = s[i]
        OBVIOUS
      <3>2. PICK x : c.res = x
        OBVIOUS
      <3>3. /\ c.op = "moveToDeleted" /\ x \in DOMAIN object /\ Holders(object, x) # {}
            /\ Part(x) /\ Id(x) \notin Wallpapers /\ x \in Res
        BY <1>1, <1>15, <3>1, <3>2 DEF ObjectsRight
      <3>4. Id(x) \in Pixels
        BY <3>3 DEF Part, Pixels
      <3>5. Kept(x)' > 0
        <4>1. Holding(object', x) \in Nat /\ Holding(object', x) # 0
          BY <1>5, <1>19, <3>3, HoldersNat
        <4>2. /\ held'[x] \in Nat /\ Keeping(object', x) \in Nat /\ Bit(object'[x].mProtected) \in Nat
          BY <1>17, <1>19, <3>3, ResourcesAssumption DEF HeldRight, Bit
        <4> QED
          BY <4>1, <4>2 DEF Kept
      <3>6. MoveRight(c)'
        BY <1>10, <3>2, <3>3, <3>4, <3>5 DEF MoveRight
      <3> QED
        BY <3>1, <3>6
    <2>2. \A c : Below(c) /\ MoveRight(c) => MoveRight(c)'
      BY <1>4, MovesStay DEF Moving
    <2>3. \/ /\ \A c : Below(c) => c.op \notin Moving
             /\ \A i \in DOMAIN s : s[i].op \notin Moving
          \/ /\ \A c : Below(c) /\ c.op = "decRef" => Kept(c.res)' > 0
             /\ \A i \in DOMAIN s : s[i].op = "decRef" => Kept(s[i].res)' > 0
      <3>1. CASE s = <<>>
        BY <1>4, <3>1
      <3>2. CASE s # <<>>
        BY <1>15, <1>16, <3>2
      <3> QED
        BY <3>1, <3>2
    <2> QED
      BY <1>1, <1>2, <2>1, <2>2, <2>3, KeepMoves
  <1>30. LoadsRight'
    <2>1. ASSUME NEW i \in DOMAIN s PROVE LoadRight(s[i])' /\ s[i].op \notin Loading
      <3>1. \A c : c.op = "moveToDeleted" => LoadRight(c)' /\ c.op \notin Loading
        BY DEF LoadRight, Loading
      <3> QED
        BY <1>15, <3>1
    <2>2. ASSUME NEW c, Below(c), LoadRight(c) PROVE LoadRight(c)'
      <3>1. MayStandOn(Top, c)
        BY <1>1, <1>2, <2>2, BelowIs
      <3>2. c.op \in Loading => Id(r) \in Pixels
        BY <1>2, <1>3, <1>4, <2>2, <3>1 DEF MayStandOn, Loading, Moving
      <3>3. c.op \in Loading =>
              /\ DOMAIN object' \subseteq DOMAIN object
              /\ DOMAIN mResources' \subseteq DOMAIN mResources \cup Pixels
              /\ DOMAIN mOrphanedResources' \subseteq DOMAIN mOrphanedResources \cup Pixels
        BY <1>10, <1>11, <1>12, <3>2 DEF SubMap
      <3> QED
        BY <2>2, <3>3, LoadsStay
    <2> QED
      BY <1>1, <1>2, <2>1, <2>2, KeepLoads
  <1>31. SweepsRight'
    <2>1. \A i \in DOMAIN s : SweepRight(s[i])'
      <3>1. \A c : c.op = "moveToDeleted" => SweepRight(c)'
        BY DEF SweepRight
      <3> QED
        BY <1>15, <3>1
    <2>2. ASSUME NEW c, Below(c), SweepRight(c) PROVE SweepRight(c)'
      <3>1. c \in CallType
        BY <1>1, <1>2, <2>2, BelowIs
      <3>2. \A n \in DOMAIN mOrphanedResources' :
              \/ /\ n \in DOMAIN mOrphanedResources
                 /\ object'[mOrphanedResources'[n]].mTimeStamp
                      = object[mOrphanedResources[n]].mTimeStamp
              \/ \A t \in Ages : object'[mOrphanedResources'[n]].mTimeStamp <= t
        <4>1. \A t \in Ages : 0 <= t
          BY ResourcesAssumption DEF Ages
        <4> QED
          BY <1>5, <1>12, <1>13, <4>1
      <3> QED
        BY <1>12, <2>2, <3>1, <3>2, SweepsStay
    <2> QED
      BY <1>1, <1>2, <2>1, <2>2, KeepSweeps
  <1>32. GotRight'
    <2>1. got' \in Res \cup {Null}
      BY <1>1, <1>5 DEF GotRight
    <2>2. Top.op \in Giving
      BY <1>2 DEF Giving
    <2>3. /\ \A c : Second(c) /\ c.op \in Waiting => Answered(c)
          /\ got # Null => /\ Len(calls) >= 2 /\ calls[Len(calls)].op = "hold"
                           /\ \A c : Below(c) => c.op \in Giving \cup Waiting
      BY <1>1, <1>2, <2>2, GotBelow
    <2>4. s # <<>> => got = Null
      <3>1. Len(calls) >= 2 => Second(calls[2])
        BY DEF Second
      <3> QED
        BY <1>16, <2>3, <3>1
    <2>5. \A c : Answered(c) => Answered(c)'
      BY <1>5 DEF Answered, Fits
    <2>6. \A i \in DOMAIN s : s[i].op \notin Waiting
      BY <1>15 DEF Waiting
    <2>7. \A c : Second(c) /\ c.op \in Waiting => s = <<>> /\ Answered(c)'
      BY <1>16, <2>3, <2>5
    <2>8. got' # Null => /\ Len(calls) >= 2 /\ calls[Len(calls)].op = "hold"
                         /\ \A i \in DOMAIN s : s[i].op \in Giving \cup Waiting
                         /\ \A c : Below(c) => c.op \in Giving \cup Waiting
      BY <1>5, <2>3, <2>4
    <2> QED
      BY <1>1, <1>2, <1>5, <2>1, <2>6, <2>7, <2>8, KeepGot
  <1>33. AgesRight'
    <2>1. mOldestOrphan' \in Ages
      BY <1>1, <1>9, ResourcesAssumption DEF AgesRight, Ages
    <2>2. CASE Sweeping
      <3>1. \E c : Below(c) /\ c.op = "sweep"
        <4>1. PICK i \in DOMAIN calls : calls[i].op = "sweep"
          BY <2>2 DEF Sweeping
        <4>2. i # 1
          BY <1>1, <1>2, <4>1, TopIs
        <4>3. i \in 2 .. Len(calls)
          BY <1>1, <4>1, <4>2 DEF StackRight
        <4> QED
          BY <1>1, <1>2, <4>1, <4>3, SecondBelow
      <3>2. Sweeping'
        BY <1>1, <1>2, <3>1, Elements DEF Sweeping
      <3> QED
        BY <2>1, <3>2 DEF AgesRight
    <2>3. CASE NoneOlder
      <3>1. ASSUME NEW n \in DOMAIN mOrphanedResources'
            PROVE  object'[mOrphanedResources'[n]].mTimeStamp <= mOldestOrphan'
        <4>1. CASE n = Id(r)
          <5>1. \A t \in Ages : 0 <= t
            BY ResourcesAssumption DEF Ages
          <5> QED
            BY <1>5, <1>12, <2>1, <4>1, <5>1
        <4>2. CASE n \in DOMAIN mOrphanedResources
          <5>1. mOrphanedResources # <<>>
            BY <4>2, EmptyMap
          <5> QED
            BY <1>9, <1>12, <1>13, <2>3, <4>2, <5>1 DEF NoneOlder
        <4> QED
          BY <1>12, <4>1, <4>2
      <3> QED
        BY <2>1, <3>1 DEF AgesRight, NoneOlder
    <2> QED
      BY <1>1, <2>2, <2>3 DEF AgesRight
  <1> QED
    BY <1>17, <1>18, <1>21, <1>24, <1>25, <1>26, <1>27, <1>28, <1>29, <1>30, <1>31, <1>32, <1>33
       DEF ResourcesInv

\* The texture of a place of an atlas is the first one from there on.
LEMMA TextureIs ==
    ASSUME NEW S, NEW h \in Seq(S), h # <<>> => IsTexture(h[Len(h)]), NEW i \in DOMAIN h
    PROVE  /\ Texture(h, i) \in DOMAIN h /\ Texture(h, i) \in Nat /\ i <= Texture(h, i)
           /\ IsTexture(h[Texture(h, i)])
           /\ \A k \in DOMAIN h : i <= k /\ k < Texture(h, i) => ~IsTexture(h[k])
           /\ IsTexture(h[i]) => Texture(h, i) = i
  <1>1. PICK n \in Nat : n = Len(h) /\ DOMAIN h = 1 .. n /\ n >= 1
    <2>1. PICK n \in Nat : n = Len(h) /\ DOMAIN h = 1 .. n
      OBVIOUS
    <2>2. i \in 1 .. n
      BY <2>1
    <2>3. n >= 1
      BY <2>2
    <2> QED
      BY <2>1, <2>3
  <1>2. IsTexture(h[n])
    <2>1. h # <<>>
      BY EmptyMap
    <2> QED
      BY <1>1, <2>1
  <1> DEFINE later == {j \in i .. n : IsTexture(h[j])}
             First(j) == IsTexture(h[j]) /\ \A k \in i .. j - 1 : ~IsTexture(h[k])
  <1>3. i \in Nat /\ i >= 1 /\ i <= n
    BY <1>1
  <1>4. later \in SUBSET Nat /\ n \in later
    BY <1>2, <1>3
  <1> HIDE DEF IsTexture
  <1>5. PICK j \in later : \A k \in later : j <= k
    BY <1>4, Least
  <1>6. j \in i .. n /\ First(j)
    BY <1>3, <1>5
  <1>7. Texture(h, i) = CHOOSE k \in i .. n : First(k)
    BY <1>1 DEF Texture
  <1>8. PICK t : t = Texture(h, i)
    OBVIOUS
  <1>9. t \in i .. n /\ First(t)
    BY <1>6, <1>7, <1>8
  <1>10. t \in Nat /\ i <= t /\ t \in DOMAIN h /\ IsTexture(h[t])
    BY <1>1, <1>3, <1>9
  <1>11. \A k \in DOMAIN h : i <= k /\ k < t => ~IsTexture(h[k])
    BY <1>1, <1>3, <1>9
  <1>12. IsTexture(h[i]) => t = i
    <2> SUFFICES ASSUME IsTexture(h[i]) PROVE t = i
      OBVIOUS
    <2>1. ~(i < t)
      BY <1>3, <1>11
    <2> QED
      BY <1>3, <1>10, <2>1
  <1> QED
    BY <1>8, <1>10, <1>11, <1>12

\* Each texture before its parts: the same resources in another order.
LEMMA TextureFirstIs ==
    ASSUME NEW S, NEW h \in Seq(S), \A i, j \in DOMAIN h : h[i] = h[j] => i = j,
           h # <<>> => IsTexture(h[Len(h)])
    PROVE  /\ TextureFirst(h) \in Seq(S)
           /\ \A i \in DOMAIN TextureFirst(h) : \E j \in DOMAIN h : TextureFirst(h)[i] = h[j]
           /\ \A j \in DOMAIN h : \E i \in DOMAIN TextureFirst(h) : TextureFirst(h)[i] = h[j]
           /\ \A i, j \in DOMAIN TextureFirst(h) : TextureFirst(h)[i] = TextureFirst(h)[j] => i = j
  <1>1. PICK n \in Nat : n = Len(h) /\ DOMAIN h = 1 .. n
    OBVIOUS
  <1> DEFINE Start(i) == i = 1 \/ IsTexture(h[i - 1])
             Source(i) == IF Start(i) THEN Texture(h, i) ELSE i - 1
  <1>2. ASSUME NEW i \in 1 .. n
        PROVE  /\ Texture(h, i) \in 1 .. n /\ i <= Texture(h, i) /\ IsTexture(h[Texture(h, i)])
               /\ \A k \in 1 .. n : i <= k /\ k < Texture(h, i) => ~IsTexture(h[k])
    BY <1>1, TextureIs
  <1>3. PICK t : t = TextureFirst(h)
    OBVIOUS
  <1>4. DOMAIN t = 1 .. n /\ \A i \in 1 .. n : t[i] = h[Source(i)]
    BY <1>1, <1>3 DEF TextureFirst
  <1>5. \A i \in 1 .. n : Source(i) \in 1 .. n
    BY <1>2
  <1>6. t \in Seq(S)
    <2>1. t = [i \in 1 .. n |-> t[i]]
      <3>1. t = [i \in DOMAIN h |-> t[i]]
        BY <1>1, <1>3, <1>4 DEF TextureFirst
      <3> QED
        BY <1>1, <3>1
    <2>2. \A i \in 1 .. n : t[i] \in S
      BY <1>1, <1>4, <1>5
    <2> QED
      BY <2>1, <2>2
  <1> HIDE DEF IsTexture
  <1>7. \A i \in 1 .. n : \E j \in 1 .. n : t[i] = h[j]
    BY <1>4, <1>5
  \* The places do not collide: between two starts there is the texture of the first.
  <1>8. ASSUME NEW i \in 1 .. n, NEW j \in 1 .. n, i < j, Source(i) = Source(j)
        PROVE  FALSE
    <2>1. j - 1 \in 1 .. n /\ i <= j - 1
      BY <1>8
    <2>2. CASE Start(j)
      <3>1. IsTexture(h[j - 1])
        BY <1>8, <2>2
      <3>2. ~(j - 1 < Texture(h, i))
        BY <1>2, <2>1, <3>1
      <3>3. Source(j) = Texture(h, j) /\ j <= Texture(h, j) /\ Texture(h, j) \in 1 .. n
        BY <1>2, <2>2
      <3>4. Source(i) = Texture(h, i) \/ Source(i) = i - 1
        OBVIOUS
      <3>5. Texture(h, i) \in 1 .. n
        BY <1>2
      <3> QED
        BY <1>8, <2>1, <3>2, <3>3, <3>4, <3>5
    <2>3. CASE ~Start(j)
      <3>1. Source(j) = j - 1 /\ ~IsTexture(h[j - 1])
        BY <2>3
      <3>2. CASE Start(i)
        <4>1. IsTexture(h[Source(i)])
          BY <1>2, <3>2
        <4> QED
          BY <1>8, <3>1, <4>1
      <3>3. CASE ~Start(i)
        BY <1>8, <3>1, <3>3
      <3> QED
        BY <3>2, <3>3
    <2> QED
      BY <2>2, <2>3
  <1>9. \A i, j \in 1 .. n : t[i] = t[j] => i = j
    <2> SUFFICES ASSUME NEW i \in 1 .. n, NEW j \in 1 .. n, t[i] = t[j] PROVE i = j
      OBVIOUS
    <2> HIDE DEF Source
    <2>1. Source(i) = Source(j)
      <3>1. /\ h[Source(i)] = h[Source(j)]
            /\ Source(i) \in DOMAIN h /\ Source(j) \in DOMAIN h
        BY <1>1, <1>4, <1>5
      <3> QED
        BY <3>1
    <2>2. ~(i < j) /\ ~(j < i)
      BY <1>8, <2>1
    <2> QED
      BY <2>2
  \* Every place is the source of one.
  <1>10. ASSUME NEW j \in 1 .. n PROVE \E i \in 1 .. n : Source(i) = j
    <2>1. CASE ~IsTexture(h[j])
      <3>1. h # <<>>
        BY <1>1, EmptyMap
      <3>2. j # n
        BY <1>1, <2>1, <3>1
      <3>3. j + 1 \in 1 .. n /\ j + 1 # 1 /\ (j + 1) - 1 = j
        BY <3>2
      <3>4. ~Start(j + 1)
        BY <2>1, <3>3
      <3> QED
        BY <3>3, <3>4
    <2>2. CASE IsTexture(h[j])
      <3> DEFINE starts == {i \in 1 .. j : \A k \in i .. j - 1 : ~IsTexture(h[k])}
      <3>1. j \in starts /\ starts \in SUBSET Nat
        OBVIOUS
      <3>2. PICK i \in starts : \A k \in starts : i <= k
        BY <3>1, Least
      <3>3. i \in 1 .. n /\ i <= j
        OBVIOUS
      <3>4. Start(i)
        <4> SUFFICES ASSUME i # 1, ~IsTexture(h[i - 1]) PROVE FALSE
          OBVIOUS
        <4>1. i - 1 \in 1 .. j /\ \A k \in i - 1 .. j - 1 : k = i - 1 \/ k \in i .. j - 1
          OBVIOUS
        <4>2. i - 1 \in starts
          BY <4>1
        <4> QED
          BY <3>2, <4>2
      <3>5. ~(j < Texture(h, i))
        BY <1>2, <2>2, <3>3
      <3>6. ~(Texture(h, i) < j)
        <4>1. ASSUME Texture(h, i) < j PROVE Texture(h, i) \in i .. j - 1
          BY <1>2, <3>3, <4>1
        <4> QED
          BY <1>2, <3>3, <4>1
      <3>7. Texture(h, i) = j
        BY <1>2, <3>3, <3>5, <3>6
      <3> QED
        BY <3>3, <3>4, <3>7
    <2> QED
      BY <2>1, <2>2
  <1>11. \A j \in 1 .. n : \E i \in 1 .. n : t[i] = h[j]
    BY <1>4, <1>10
  <1> HIDE DEF Source, Start
  <1>12. DOMAIN t = 1 .. n /\ DOMAIN h = 1 .. n
    BY <1>1, <1>4
  <1>13. \A i \in DOMAIN t : \E j \in DOMAIN h : t[i] = h[j]
    BY ONLY <1>7, <1>12
  <1>14. \A j \in DOMAIN h : \E i \in DOMAIN t : t[i] = h[j]
    BY ONLY <1>11, <1>12
  <1>15. \A i, j \in DOMAIN t : t[i] = t[j] => i = j
    BY ONLY <1>9, <1>12
  <1> QED
    BY <1>3, <1>6, <1>13, <1>14, <1>15

LEMMA TimesOnce ==
    ASSUME NEW S, NEW s \in Seq(S), \A i, j \in DOMAIN s : s[i] = s[j] => i = j, NEW x
    PROVE  Times(s, x) = IF \E i \in DOMAIN s : s[i] = x THEN 1 ELSE 0
  <1>1. CASE \E i \in DOMAIN s : s[i] = x
    <2>1. PICK i \in DOMAIN s : s[i] = x
      BY <1>1
    <2>2. {j \in DOMAIN s : s[j] = x} = {i}
      BY <2>1
    <2>3. Cardinality({i}) = 1
      BY FS_Singleton
    <2> QED
      BY <1>1, <2>2, <2>3 DEF Times
  <1>2. CASE ~\E i \in DOMAIN s : s[i] = x
    BY <1>2, TimesNat
  <1> QED
    BY <1>1, <1>2

\* An atlas lists each of its parts once.
LEMMA HoldsOnce ==
    ASSUME ResourcesInv, NEW a \in DOMAIN object, IsAtlas(a)
    PROVE  /\ object[a].holds \in Seq(Res) /\ object[a].holds \in Seq(DOMAIN object)
           /\ \A i, j \in DOMAIN object[a].holds :
                object[a].holds[i] = object[a].holds[j] => i = j
           /\ \A i \in DOMAIN object[a].holds : /\ Part(object[a].holds[i])
                                                /\ Id(object[a].holds[i]) \notin Wallpapers
           /\ object[a].holds # <<>> => IsTexture(object[a].holds[Len(object[a].holds)])
  <1>1. Well(object) /\ HoldsRight(a) /\ ObjectsRight /\ NoClaims
    BY DEF ResourcesInv, ObjectsRight, Well
  <1>2. object[a].holds \in Seq(Res)
    BY <1>1, HoldsSeq
  <1>3. \A i \in DOMAIN object[a].holds : object[a].holds[i] \in DOMAIN object
    BY <1>1, HeldAlive
  <1>4. PICK h \in Seq(Res) : h = object[a].holds
    BY <1>2
  <1>5. \A i \in DOMAIN h : h[i] \in DOMAIN object
    BY <1>3, <1>4
  <1>6. h \in Seq(DOMAIN object)
    BY <1>5
  <1> QED
    BY <1>1, <1>4, <1>6 DEF HoldsRight

LEMMA DecRefOrphansKeeps ==
    ASSUME ResourcesInv, DecRef, object[Top.res].mRefCount = 1, ~MustDelete(Top.res)
    PROVE  ResourcesInv'
  <1>1. ObjectsRight
    BY DEF ResourcesInv
  <1>2. calls # <<>> /\ Top.op = "decRef"
    BY DEF DecRef, Running
  <1>3. PICK r \in Res : r = Top.res
    BY <1>2, GivenBack
  <1>4. r \in DOMAIN object /\ object[r].mRefCount = 1
    BY <1>2, <1>3, GivenBack
  <1>5. /\ Well(object') /\ SameHolds(object', object)
        /\ \A x \in DOMAIN object : x # r => object'[x] = object[x]
        /\ object'[r].mRefCount = 0
    BY <1>3, LastCounters
  <1>6. Then(Retired(r))
    <2>1. Then(<<>> \o Retired(r))
      BY <1>3, LastCounters
    <2>2. calls' = (<<>> \o Retired(r)) \o Tail(calls)
      BY <2>1 DEF Then
    <2>3. CASE ~IsAtlas(r)
      <3>1. Retired(r) = <<>>
        BY <2>3 DEF Retired
      <3>2. <<>> \o <<>> = <<>>
        OBVIOUS
      <3> QED
        BY <2>1, <3>1, <3>2
    <2>4. CASE IsAtlas(r)
      <3>1. object[r].holds \in Seq(Res)
        BY <1>4, <2>4, HoldsOnce
      <3>2. TextureFirst(object[r].holds) \in Seq(Res)
        BY <1>4, <2>4, <3>1, HoldsOnce, TextureFirstIs
      <3>3. Calls("moveToDeleted", TextureFirst(object[r].holds)) \in Seq(CallType)
        BY <3>2, CallsAre
      <3>4. Retired(r) \in Seq(CallType)
        BY <1>4, <3>3 DEF Retired
      <3>5. <<>> \o Retired(r) = Retired(r)
        BY <3>4
      <3> QED
        BY <2>1, <3>5
    <2> QED
      BY <2>3, <2>4
  <1>7. CASE ~IsAtlas(r)
    <2> DEFINE s == <<>>
    <2>1. s \in Seq(CallType) /\ Then(s) /\ DOMAIN s = {} /\ s = <<>>
      BY <1>6, <1>7 DEF Retired
    <2>2. \A x : Keeping(object', x) = Keeping(object, x)
      <3>1. \A x \in DOMAIN object' :
              IsAtlas(x) => (object'[x].mRefCount > 0 <=> object[x].mRefCount > 0)
        BY <1>5, <1>7 DEF SameHolds
      <3> QED
        BY <1>5, <3>1, KeepersSame DEF Keeping
    <2>3. \A x \in Res : Keeping(object', x) + Owed(s, x) = Keeping(object, x)
      <3>1. Well(object)
        BY <1>1 DEF ObjectsRight, Well
      <3>2. \A x : Keeping(object, x) \in Nat /\ Owed(s, x) = 0
        BY <3>1, KeepersNat, OwedEmpty
      <3> HIDE DEF s
      <3> QED
        BY <2>2, <3>2
    <2>4. Retires(s, Top.res) /\ ~(s # <<>>)
      BY <2>1 DEF Retires
    <2> HIDE DEF s
    <2> QED
      BY <2>1, <2>3, <2>4, OrphanStep
  <1>8. CASE IsAtlas(r)
    <2>1. PICK h \in Seq(Res) : h = object[r].holds
      BY <1>4, <1>8, HoldsOnce
    <2>2. /\ \A i, j \in DOMAIN h : h[i] = h[j] => i = j
          /\ h # <<>> => IsTexture(h[Len(h)])
      BY <1>4, <1>8, <2>1, HoldsOnce
    <2>3. PICK t \in Seq(Res) :
            /\ t = TextureFirst(h)
            /\ \A i \in DOMAIN t : \E j \in DOMAIN h : t[i] = h[j]
            /\ \A j \in DOMAIN h : \E i \in DOMAIN t : t[i] = h[j]
            /\ \A i, j \in DOMAIN t : t[i] = t[j] => i = j
      BY <2>2, TextureFirstIs
    <2> DEFINE s == Calls("moveToDeleted", t)
    <2>4. Then(s)
      BY <1>4, <1>6, <1>8, <2>1, <2>3 DEF Retired
    <2>5. /\ s \in Seq(CallType) /\ Len(s) = Len(t)
          /\ \A i \in 1 .. Len(t) : s[i].op = "moveToDeleted" /\ s[i].res = t[i]
      BY CallsAre
    <2>6. \A x : Owed(s, x) = IF \E j \in DOMAIN h : h[j] = x THEN 1 ELSE 0
      <3>1. \A x : Owed(s, x) = Times(t, x)
        BY OwedCalls
      <3>2. \A x : Times(t, x) = IF \E i \in DOMAIN t : t[i] = x THEN 1 ELSE 0
        BY <2>3, TimesOnce
      <3>3. \A x : (\E i \in DOMAIN t : t[i] = x) <=> (\E j \in DOMAIN h : h[j] = x)
        BY <2>3
      <3> HIDE DEF s
      <3> QED
        BY <3>1, <3>2, <3>3
    <2> HIDE DEF s
    <2>7. Retires(s, Top.res)
      <3>1. \A i \in DOMAIN s : i \in 1 .. Len(t) /\ i \in DOMAIN t
        BY <2>5
      <3> QED
        BY <1>3, <2>1, <2>3, <2>5, <3>1 DEF Retires
    <2>8. ASSUME NEW x \in Res PROVE Keeping(object', x) + Owed(s, x) = Keeping(object, x)
      <3>1. Well(object) /\ DOMAIN object' = DOMAIN object
        BY <1>1, <1>5 DEF ObjectsRight, Well, SameHolds
      <3>2. Keepers(object', x) = Keepers(object, x) \ {r}
        <4>1. ~(object'[r].mRefCount > 0)
          BY <1>5
        <4>2. \A a \in DOMAIN object : a # r => object'[a] = object[a]
          BY <1>5
        <4> QED
          BY <3>1, <4>1, <4>2 DEF Keepers
      <3>3. IsFiniteSet(Keepers(object, x)) /\ Keeping(object, x) \in Nat
        BY <3>1, KeepersNat
      <3>4. CASE \E j \in DOMAIN h : h[j] = x
        <4>1. r \in Keepers(object, x)
          <5>1. x \in Range(object[r].holds)
            BY <2>1, <3>4 DEF Range
          <5>2. object[r].mRefCount > 0
            BY <1>4
          <5> QED
            BY <1>4, <1>8, <5>1, <5>2 DEF Keepers
        <4>2. Cardinality(Keepers(object, x) \ {r}) = Cardinality(Keepers(object, x)) - 1
          BY <3>3, <4>1, FS_RemoveElement
        <4>3. Owed(s, x) = 1
          BY <2>6, <3>4
        <4> QED
          BY <3>2, <3>3, <4>2, <4>3 DEF Keeping
      <3>5. CASE ~\E j \in DOMAIN h : h[j] = x
        <4>1. r \notin Keepers(object, x)
          BY <2>1, <3>5 DEF Keepers, Range
        <4>2. Keepers(object', x) = Keepers(object, x)
          BY <3>2, <4>1
        <4>3. Owed(s, x) = 0
          BY <2>6, <3>5
        <4> QED
          BY <3>3, <4>2, <4>3 DEF Keeping
      <3> QED
        BY <3>4, <3>5
    <2> QED
      BY <1>3, <1>8, <2>4, <2>5, <2>7, <2>8, OrphanStep
  <1> QED
    BY <1>7, <1>8

LEMMA DecRefKeeps ==
    ASSUME ResourcesInv, DecRef
    PROVE  ResourcesInv'
  <1>1. calls # <<>> /\ Top.op = "decRef"
    BY DEF DecRef, Running
  <1>2. object[Top.res].mRefCount \in Nat /\ object[Top.res].mRefCount >= 1
    BY <1>1, GivenBack
  <1>3. object[Top.res].mRefCount > 1 \/ object[Top.res].mRefCount = 1
    BY <1>2
  <1> QED
    BY <1>3, DecRefSomeKeeps, DecRefDoomsKeeps, DecRefOrphansKeeps

----------------------------------------------------------------------------
(* A destructor: the resource is gone, and gives back what it held.        *)

\* What runs next when r is gone.
Destroys(s, r) ==
    \A i \in DOMAIN s :
      \/ s[i].op = "decRef" /\ \E j \in DOMAIN object[r].holds : s[i].res = object[r].holds[j]
      \/ s[i].op = "clearDeleted" /\ IsAtlas(r)

LEMMA DeleteStack ==
    ASSUME ResourcesInv, Delete
    PROVE  \E s \in Seq(CallType) :
             /\ Then(s) /\ Destroys(s, Top.res)
             /\ \A x : Owed(s, x) = Times(object[Top.res].holds, x)
  <1>1. calls # <<>> /\ Top.op = "delete"
    BY DEF Delete, Running
  <1>2. PICK r : r = Top.res
    OBVIOUS
  <1>3. r \in DOMAIN object /\ r \in Res
    <2>1. Doomed(r)
      BY <1>1, <1>2 DEF Doomed
    <2>2. r \in Res
      <3>1. Top \in CallType
        BY <1>1, TopIs DEF ResourcesInv
      <3> QED
        BY <1>1, <1>2, <3>1, CallFacts
    <2> QED
      BY <2>1, <2>2 DEF ResourcesInv, NoClaims
  <1>4. PICK h \in Seq(Res) : h = object[r].holds
    BY <1>3, HoldsSeq DEF ResourcesInv, ObjectsRight, Well
  <1>5. PICK t \in Seq(CallType) :
          /\ t = Calls("decRef", h) /\ Len(t) = Len(h)
          /\ \A i \in 1 .. Len(h) : t[i].op = "decRef" /\ t[i].res = h[i]
    BY CallsAre
  <1>6. \A x : Owed(t, x) = Times(h, x)
    BY <1>5, OwedCalls
  <1>7. DOMAIN t = 1 .. Len(h) /\ DOMAIN h = 1 .. Len(h)
    BY <1>5
  <1>8. CASE ~IsAtlas(r)
    <2>1. t \o <<>> = t
      OBVIOUS
    <2>2. Then(t)
      BY <1>2, <1>4, <1>5, <1>8, <2>1 DEF Delete
    <2>3. Destroys(t, r)
      BY <1>4, <1>5, <1>7 DEF Destroys
    <2> QED
      BY <1>2, <1>4, <1>6, <2>2, <2>3
  <1>9. CASE IsAtlas(r)
    <2>1. PICK c \in CallType : c = Call("clearDeleted", Null) /\ c.op = "clearDeleted"
      <3>1. Call("clearDeleted", Null) \in [op : {"clearDeleted"}, res : {Null}]
        BY DEF Call
      <3> QED
        BY <3>1 DEF CallType
    <2>2. PICK u \in Seq(CallType) : u = <<c>> /\ Len(u) = 1 /\ u[1] = c
      BY OneIs
    <2>3. PICK s : s = t \o u
      OBVIOUS
    <2>4. Then(s)
      BY <1>2, <1>4, <1>5, <1>9, <2>1, <2>2, <2>3 DEF Delete
    <2>5. /\ s \in Seq(CallType) /\ Len(s) = Len(h) + 1
          /\ \A i \in 1 .. Len(h) : s[i] = t[i]
          /\ \A i \in 1 .. 1 : s[Len(h) + i] = u[i]
      <3>1. /\ t \o u \in Seq(CallType) /\ Len(t \o u) = Len(t) + Len(u)
            /\ \A i \in 1 .. Len(t) : (t \o u)[i] = t[i]
            /\ \A i \in 1 .. Len(u) : (t \o u)[Len(t) + i] = u[i]
        BY ConcatIs
      <3>2. /\ s \in Seq(CallType) /\ Len(s) = Len(t) + Len(u)
            /\ \A i \in 1 .. Len(t) : s[i] = t[i]
            /\ \A i \in 1 .. Len(u) : s[Len(t) + i] = u[i]
        BY <2>3, <3>1
      <3> QED
        BY <1>5, <2>2, <3>2
    <2>6. \A i \in DOMAIN s : (i \in 1 .. Len(h) /\ s[i] = t[i]) \/ s[i] = c
      <3>1. PICK n \in Nat : n = Len(h)
        OBVIOUS
      <3>2. s[n + 1] = c
        BY <2>2, <2>5, <3>1
      <3>3. \A i \in DOMAIN s : i \in 1 .. n \/ i = n + 1
        BY <2>5, <3>1
      <3> QED
        BY <2>5, <3>1, <3>2, <3>3
    <2>7. Destroys(s, r)
      BY <1>4, <1>5, <1>7, <1>9, <2>1, <2>6 DEF Destroys
    <2>8. \A x : Owed(s, x) = Times(h, x)
      <3> SUFFICES ASSUME NEW x PROVE Owed(s, x) = Times(h, x)
        OBVIOUS
      <3>1. Owed(s, x) = Owed(t, x) + Owed(u, x)
        BY <2>3, OwedConcat
      <3>2. Owed(u, x) = 0
        BY <2>1, <2>2, OwedOne DEF Gives
      <3>3. Owed(t, x) \in Nat
        BY OwedNat
      <3> QED
        BY <1>6, <3>1, <3>2, <3>3
    <2> QED
      BY <1>2, <1>4, <2>4, <2>5, <2>7, <2>8
  <1> QED
    BY <1>8, <1>9

\* What is below a destructor.
LEMMA DeleteAbove ==
    ASSUME StackRight, calls # <<>>, Top.op = "delete", NEW c, Below(c)
    PROVE  /\ c \in CallType /\ c.op \notin Moving
           /\ c.op \in Waiting \cup Loading => Id(Top.res) \in Pixels
  <1>1. MayStandOn(Top, c) /\ c \in CallType
    BY BelowIs
  <1>2. c.op \notin {"newSet", "get", "retire", "newAtlas", "moveToDeleted", "moved"}
    BY <1>1 DEF MayStandOn, Giving
  <1>3. c.op \in {"hold", "newSprite"} => Id(Top.res) \in Pixels
    BY <1>1 DEF MayStandOn, Loading
  <1> QED
    BY <1>1, <1>2, <1>3 DEF Moving, Waiting, Loading

LEMMA DeleteKeeps ==
    ASSUME ResourcesInv, Delete
    PROVE  ResourcesInv'
  <1>1. /\ ObjectsRight /\ HeldRight /\ CountsRight /\ NoClaims
        /\ CacheRight /\ OrphanRight /\ DeletedRight /\ FoundAgain
        /\ StackRight /\ MovesRight /\ LoadsRight /\ GotRight /\ SweepsRight /\ AgesRight
    BY DEF ResourcesInv
  <1>2. calls # <<>> /\ Top.op = "delete"
    BY DEF Delete, Running
  <1>3. PICK r \in Res : r = Top.res /\ Doomed(r)
    <2>1. Top \in CallType
      BY <1>1, <1>2, TopIs
    <2> QED
      BY <1>2, <2>1, CallFacts DEF Doomed
  <1>4. /\ r \in DOMAIN object /\ held[r] = 0 /\ Holders(object, r) = {} /\ got # r
        /\ Keepers(object, r) = {} /\ ~object[r].mProtected
        /\ IsAtlas(r) => object[r].mRefCount = 0
    BY <1>1, <1>3 DEF NoClaims, Unclaimed
  <1>5. \A x : Doomed(x) => x = r
    BY <1>3 DEF Doomed
  <1>6. /\ object' = Without(object, r) /\ mResources' = mResources
        /\ mOrphanedResources' = mOrphanedResources /\ mDeletedResources' = mDeletedResources
        /\ mOldestOrphan' = mOldestOrphan /\ held' = held /\ got' = got
    BY <1>3 DEF Delete, maps
  <1>7. /\ DOMAIN object' = DOMAIN object \ {r}
        /\ \A x \in DOMAIN object' : x \in DOMAIN object /\ x # r /\ object'[x] = object[x]
    BY <1>6 DEF Without, Restrict
  <1>8. Well(object) /\ Well(object')
    <2>1. Well(object)
      BY <1>1 DEF ObjectsRight, Well
    <2>2. IsFiniteSet(DOMAIN object')
      BY <1>7, <2>1, FS_Subset DEF Well
    <2> QED
      BY <1>7, <2>1, <2>2 DEF Well
  <1>9. PICK h \in Seq(Res) : h = object[r].holds
    BY <1>4, <1>8, HoldsSeq
  <1>10. PICK s \in Seq(CallType) : /\ Then(s) /\ Destroys(s, r)
                                    /\ \A x : Owed(s, x) = Times(h, x)
    BY <1>3, <1>9, DeleteStack
  <1>11. \A y \in DOMAIN object : \A i \in DOMAIN object[y].holds : object[y].holds[i] # r
    BY <1>4, HoldersEmpty
  <1>12. \A i \in DOMAIN h : /\ h[i] \in DOMAIN object /\ h[i] # r /\ ~IsAtlas(h[i])
                             /\ Id(r) \in Pixels => Id(h[i]) \in Pixels
    <2> SUFFICES ASSUME NEW i \in DOMAIN h
                 PROVE  /\ h[i] \in DOMAIN object /\ h[i] # r /\ ~IsAtlas(h[i])
                        /\ Id(r) \in Pixels => Id(h[i]) \in Pixels
      OBVIOUS
    <2>1. h[i] \in DOMAIN object /\ h[i] # r
      BY <1>1, <1>4, <1>9, <1>11, HeldAlive
    <2>2. HoldsRight(r) /\ Id(r) \in Ids
      BY <1>1, <1>4, ResFacts DEF ObjectsRight
    <2>3. Id(r) \in Images \cup Textures => Id(h[i]) \in Textures
      <3>1. CASE Id(r) \in Images
        <4>1. Len(h) = 1 /\ Id(h[1]) \in Textures
          BY <1>9, <2>2, <3>1, EmptyMap DEF HoldsRight
        <4>2. i = 1
          BY <4>1
        <4> QED
          BY <4>1, <4>2
      <3>2. CASE Id(r) \in Textures
        BY <1>9, <2>2, <3>2, EmptyMap DEF HoldsRight
      <3> QED
        BY <3>1, <3>2
    <2>4. Id(r) \in Sets => Id(h[i]) \in Pixels
      BY <1>9, <2>2 DEF HoldsRight
    <2>5. Id(r) \in Sprites => Id(h[i]) \in Sets
      BY <1>9, <2>2 DEF HoldsRight
    <2>6. Id(r) \in Atlases => Id(h[i]) \in Pixels
      <3>1. Id(r) \in Atlases => Part(h[i])
        BY <1>9, <2>2 DEF HoldsRight, IsAtlas
      <3> QED
        BY <3>1 DEF Part, Pixels
    <2>7. Id(h[i]) \notin Atlases
      BY <2>2, <2>3, <2>4, <2>5, <2>6, KindsApart DEF Ids, Pixels
    <2>8. Id(r) \in Pixels => Id(h[i]) \in Pixels
      BY <2>3 DEF Pixels
    <2> QED
      BY <2>1, <2>7, <2>8 DEF IsAtlas
  <1>13. \A i \in DOMAIN s :
           \/ s[i].op = "decRef" /\ \E j \in DOMAIN h : s[i].res = h[j]
           \/ s[i].op = "clearDeleted" /\ IsAtlas(r)
    BY <1>9, <1>10 DEF Destroys
  <1>14. \A x : ~Doomed(x)'
    <2>1. s = <<>> \/ s[1].op # "delete"
      BY <1>13
    <2> QED
      BY <1>1, <1>2, <1>10, <2>1, DoomAfter
  <1>15. \A x : Keepers(object', x) = Keepers(object, x)
    <2>1. IsAtlas(r) => ~(object[r].mRefCount > 0)
      BY <1>4
    <2> QED
      BY <1>7, <2>1 DEF Keepers
  <1>16. \A x \in DOMAIN object' : Part(x)' <=> Part(x)
    BY <1>7 DEF Part
  <1>17. HeldRight'
    BY <1>1, <1>6 DEF HeldRight
  <1>18. ObjectsRight'
    <2>1. ASSUME NEW x \in DOMAIN object' PROVE HoldsRight(x)'
      <3>1. object'[x].holds = object[x].holds /\ HoldsRight(x) /\ x \in DOMAIN object
        BY <1>1, <1>7 DEF ObjectsRight
      <3>2. \A i \in DOMAIN object[x].holds : object[x].holds[i] \in DOMAIN object'
        BY <1>1, <1>7, <1>11, <3>1, HeldAlive
      <3>3. \A p : p \in DOMAIN object' /\ Part(p) => Part(p)'
        BY <1>16
      <3>4. IsAtlas(x) => \A i \in DOMAIN object[x].holds :
                            \A p : p = object[x].holds[i] => Part(p)'
        BY <3>1, <3>2, <3>3 DEF HoldsRight
      <3> HIDE DEF Part
      <3> QED
        BY <3>1, <3>4 DEF HoldsRight, IsAtlas
    <2>2. \A x \in DOMAIN object' : object'[x].mProtected => Id(x) \in Sprites
      BY <1>1, <1>7 DEF ObjectsRight
    <2> QED
      BY <1>8, <2>1, <2>2 DEF ObjectsRight, Well
  <1>19. CountsRight' /\ NoClaims'
    <2>1. ASSUME NEW x \in DOMAIN object'
          PROVE  object'[x].mRefCount + Kept(x) + Bit(got = x) + (IF Gives(Top, x) THEN 1 ELSE 0)
                   = object[x].mRefCount + Kept(x)' + Bit(got' = x) + Owed(s, x)
      <3> DEFINE o == Holding(object, x)
                 o2 == Holding(object', x)
                 k == Keeping(object, x)
                 b == Bit(object[x].mProtected)
                 n == object[x].mRefCount
                 g == Bit(got = x)
                 t == Times(h, x)
                 e == held[x]
      <3>1. /\ x \in Res /\ x \in DOMAIN object /\ object'[x] = object[x]
            /\ n \in Nat /\ b \in Nat /\ e \in Nat /\ g \in Nat
        BY <1>7, CountsNat
      <3>2. o = o2 + t /\ t \in Nat
        <4>1. \A y \in DOMAIN object' : object[y].holds = object'[y].holds
          BY <1>7
        <4>2. r \notin DOMAIN object' /\ DOMAIN object = DOMAIN object' \cup {r}
          BY <1>4, <1>7
        <4>3. Holding(object, x) = Holding(object', x) + Times(object[r].holds, x)
              /\ Times(object[r].holds, x) \in Nat
          BY <1>8, <4>1, <4>2, HoldersNew
        <4> QED
          BY <1>9, <4>3
      <3>3. o2 \in Nat /\ k \in Nat
        BY <1>8, HoldersNat, KeepersNat
      <3>4. ~Gives(Top, x)
        BY <1>2 DEF Gives
      <3>5. Owed(s, x) = t
        BY <1>10
      <3>6. Kept(x) = e + o + k + b /\ Kept(x)' = e + o2 + k + b
        BY <1>6, <1>15, <3>1 DEF Kept, Keeping
      <3>7. object'[x].mRefCount = n /\ Bit(got' = x) = g
        BY <1>6, <3>1
      <3> HIDE DEF o, o2, k, b, n, g, t, e
      <3>8. n + (e + o + k + b) + g + 0 = n + (e + o2 + k + b) + g + t
        BY <3>1, <3>2, <3>3
      <3> QED
        BY <3>4, <3>5, <3>6, <3>7, <3>8 DEF n, g
    <2>2. ASSUME NEW x \in Res \ DOMAIN object'
          PROVE  /\ x \notin DOMAIN object \/ Doomed(x)
                 /\ held'[x] = 0 /\ Holders(object', x) = {} /\ got' # x
                 /\ \A i \in DOMAIN s : ~Gives(s[i], x)
      <3>1. x \notin DOMAIN object \/ Doomed(x)
        BY <1>3, <1>7
      <3>2. Unclaimed(x)
        BY <1>1, <3>1 DEF NoClaims
      <3>3. held[x] = 0 /\ Holders(object, x) = {} /\ got # x
        BY <3>2 DEF Unclaimed
      <3>4. \A y \in DOMAIN object : \A i \in DOMAIN object[y].holds : object[y].holds[i] # x
        BY <3>3, HoldersEmpty
      <3>5. Holders(object', x) = {}
        <4>1. \A y \in DOMAIN object' : \A i \in DOMAIN object'[y].holds : object'[y].holds[i] # x
          BY <1>7, <3>4
        <4> QED
          BY <4>1, HoldersEmpty
      <3>6. \A i \in DOMAIN s : ~Gives(s[i], x)
        BY <1>4, <1>9, <1>13, <3>4 DEF Gives
      <3> QED
        BY <1>6, <3>1, <3>3, <3>5, <3>6
    <2>3. \A x \in DOMAIN object' : x \in DOMAIN object /\ ~Doomed(x)
      BY <1>5, <1>7
    <2> QED
      BY <1>1, <1>2, <1>8, <1>10, <1>14, <1>17, <2>1, <2>2, <2>3, StepCounts
  <1>20. \A x : Leaving(x) => Leaving(x)'
    BY <1>1, <1>2, <1>10, LeavingStays
  <1>21. \A x : x \in DOMAIN object /\ ~Doomed(x) => x \in DOMAIN object'
    BY <1>3, <1>7
  <1>22. CacheRight'
    <2>1. ASSUME NEW i \in DOMAIN mResources, NEW x, x = mResources[i]
          PROVE  /\ x \in DOMAIN object' /\ Id(x) = i /\ object'[x].mRefCount > 0
                 /\ Part(x)' => Keepers(object', x) # {} \/ Leaving(x)'
      <3>1. /\ x \in DOMAIN object /\ Id(x) = i /\ object[x].mRefCount > 0 /\ ~Doomed(x)
            /\ Part(x) => Keepers(object, x) # {} \/ Leaving(x)
        BY <1>1, <2>1 DEF CacheRight
      <3> QED
        BY <1>7, <1>15, <1>16, <1>20, <1>21, <3>1
    <2> QED
      BY <1>6, <1>14, <2>1 DEF CacheRight
  <1>23. OrphanRight'
    <2>1. ASSUME NEW i \in DOMAIN mOrphanedResources, NEW x, x = mOrphanedResources[i]
          PROVE  /\ x \in DOMAIN object' /\ Id(x) = i /\ object'[x].mRefCount = 0 /\ ~Part(x)'
                 /\ i \in DOMAIN mResources => \A y : y = mResources[i] => Part(y)'
      <3>1. /\ x \in DOMAIN object /\ Id(x) = i /\ object[x].mRefCount = 0 /\ ~Doomed(x)
            /\ ~Part(x)
            /\ i \in DOMAIN mResources => /\ Part(mResources[i]) /\ mResources[i] \in DOMAIN object
                                          /\ ~Doomed(mResources[i])
        BY <1>1, <2>1 DEF OrphanRight, CacheRight
      <3> QED
        BY <1>7, <1>16, <1>21, <3>1
    <2> QED
      BY <1>6, <1>14, <2>1 DEF OrphanRight
  <1>24. DeletedRight'
    <2> SUFFICES ASSUME NEW x \in mDeletedResources
                 PROVE  /\ x \in DOMAIN object' /\ object'[x].mRefCount > 0 /\ ~Doomed(x)'
                        /\ Id(x) \in Pixels \ Wallpapers
                        /\ ~Part(x)' => ~Has(mResources', x)
      BY <1>6 DEF DeletedRight
    <2>1. /\ x \in DOMAIN object /\ object[x].mRefCount > 0 /\ ~Doomed(x)
          /\ Id(x) \in Pixels \ Wallpapers
          /\ ~Part(x) => ~Has(mResources, x)
      BY <1>1 DEF DeletedRight
    <2> QED
      BY <1>6, <1>7, <1>14, <1>16, <1>21, <2>1
  <1>25. FoundAgain'
    BY <1>1, <1>5, <1>6, <1>7 DEF FoundAgain
  <1>26. StackRight'
    <2>1. \A a, c : /\ (a.op = "decRef" /\ ~IsAtlas(a.res)) \/ a.op = "clearDeleted"
                    /\ (c.op = "decRef" /\ ~IsAtlas(c.res)) \/ c.op = "clearDeleted"
                    => MayStandOn(a, c)
      BY DEF MayStandOn, Giving
    <2>2. \A i \in DOMAIN s :
            (s[i].op = "decRef" /\ ~IsAtlas(s[i].res)) \/ s[i].op = "clearDeleted"
      BY <1>12, <1>13
    <2>3. \A i, j \in DOMAIN s : MayStandOn(s[i], s[j])
      BY <2>1, <2>2
    <2>4. ASSUME NEW c, NEW a, Below(c), a.op = "decRef", ~IsAtlas(a.res),
                 Id(r) \in Pixels => Id(a.res) \in Pixels
          PROVE  MayStandOn(a, c)
      <3>1. MayStandOn(Top, c)
        BY <1>1, <1>2, <2>4, BelowIs
      <3> QED
        BY <1>2, <1>3, <2>4, <3>1 DEF MayStandOn, Giving, Loading
    <2>5. ASSUME NEW c, NEW a, Below(c), a.op = "clearDeleted", IsAtlas(r)
          PROVE  MayStandOn(a, c)
      <3>1. MayStandOn(Top, c)
        BY <1>1, <1>2, <2>5, BelowIs
      <3>2. Id(r) \notin Pixels
        BY <2>5, KindsApart DEF IsAtlas, Pixels
      <3> QED
        BY <1>2, <1>3, <2>5, <3>1, <3>2 DEF MayStandOn, Giving, Loading
    <2>6. ASSUME NEW i \in DOMAIN s, NEW c, Below(c) PROVE MayStandOn(s[i], c)
      <3>1. CASE s[i].op = "decRef" /\ \E j \in DOMAIN h : s[i].res = h[j]
        BY <1>12, <2>4, <2>6, <3>1
      <3>2. CASE s[i].op = "clearDeleted" /\ IsAtlas(r)
        BY <2>5, <2>6, <3>2
      <3> QED
        BY <1>13, <3>1, <3>2
    <2>7. \A i \in DOMAIN s : \A j \in 2 .. Len(calls) : MayStandOn(s[i], calls[j])
      BY <1>1, <1>2, <2>6, SecondBelow
    <2> QED
      BY <1>1, <1>2, <1>10, <2>3, <2>7, KeepStack
  <1>27. \A i \in DOMAIN s : /\ s[i].op \notin Moving \cup Waiting \cup Loading
                             /\ s[i].op \in {"decRef", "clearDeleted"}
    BY <1>13 DEF Moving, Waiting, Loading
  <1>28. \A c : Below(c) => /\ c \in CallType /\ c.op \notin Moving
                            /\ c.op \in Waiting \cup Loading => Id(r) \in Pixels
    BY <1>1, <1>2, <1>3, DeleteAbove
  <1>29. MovesRight'
    <2>1. \A c : c.op \in {"decRef", "clearDeleted"} => MoveRight(c)'
      BY DEF MoveRight
    <2>2. \A i \in DOMAIN s : MoveRight(s[i])'
      BY <1>27, <2>1
    <2>3. \A c : Below(c) /\ MoveRight(c) => MoveRight(c)'
      BY <1>28, MovesStay DEF Moving
    <2> QED
      BY <1>1, <1>2, <1>10, <1>27, <1>28, <2>2, <2>3, KeepMoves
  <1>30. LoadsRight'
    <2>1. \A c : c.op \in {"decRef", "clearDeleted"} => LoadRight(c)'
      BY DEF LoadRight, Loading
    <2>2. \A i \in DOMAIN s : LoadRight(s[i])'
      BY <1>27, <2>1
    <2>3. \A c : Below(c) /\ LoadRight(c) => LoadRight(c)'
      BY <1>6, <1>7, LoadsStay
    <2> QED
      BY <1>1, <1>2, <1>10, <1>27, <2>2, <2>3, KeepLoads
  <1>31. \A n \in DOMAIN mOrphanedResources :
           object'[mOrphanedResources[n]] = object[mOrphanedResources[n]]
    BY <1>1, <1>7, <1>21 DEF OrphanRight
  <1>32. SweepsRight'
    <2>1. \A c : c.op \in {"decRef", "clearDeleted"} => SweepRight(c)'
      BY DEF SweepRight
    <2>2. \A i \in DOMAIN s : SweepRight(s[i])'
      BY <1>27, <2>1
    <2>3. ASSUME NEW c, Below(c), SweepRight(c) PROVE SweepRight(c)'
      <3>1. c \in CallType
        BY <1>28, <2>3
      <3> QED
        BY <1>6, <1>31, <2>3, <3>1, SweepsStay
    <2> QED
      BY <1>1, <1>2, <1>10, <2>2, <2>3, KeepSweeps
  <1>33. GotRight'
    <2>1. got' \in Res \cup {Null}
      BY <1>1, <1>6 DEF GotRight
    <2>2. /\ \A c : Second(c) /\ c.op \in Waiting => Answered(c)
          /\ got # Null => /\ Len(calls) >= 2 /\ calls[Len(calls)].op = "hold"
                           /\ \A c : Below(c) => c.op \in Giving \cup Waiting
      <3>1. Top.op \in Giving
        BY <1>2 DEF Giving
      <3> QED
        BY <1>1, <1>2, <3>1, GotBelow
    <2>3. \A c : Answered(c) => Answered(c)'
      BY <1>6 DEF Answered, Fits
    <2>4. Id(r) \in Pixels => \A i \in DOMAIN s : s[i].op \in Giving
      <3>1. Id(r) \in Pixels => ~IsAtlas(r)
        BY KindsApart DEF IsAtlas, Pixels
      <3> QED
        BY <1>13, <3>1 DEF Giving
    <2>5. \A c : Second(c) /\ c.op \in Waiting =>
                   Answered(c)' /\ (s = <<>> \/ s[Len(s)].op \in Giving)
      <3> SUFFICES ASSUME NEW c, Second(c), c.op \in Waiting
                   PROVE  Answered(c)' /\ (s = <<>> \/ s[Len(s)].op \in Giving)
        OBVIOUS
      <3>1. Id(r) \in Pixels
        BY <1>1, <1>2, <1>28, SecondBelow
      <3>2. s # <<>> => Len(s) \in DOMAIN s
        OBVIOUS
      <3> QED
        BY <2>2, <2>3, <2>4, <3>1, <3>2
    <2>6. got' # Null => /\ Len(calls) >= 2 /\ calls[Len(calls)].op = "hold"
                         /\ \A i \in DOMAIN s : s[i].op \in Giving \cup Waiting
                         /\ \A c : Below(c) => c.op \in Giving \cup Waiting
      <3> SUFFICES ASSUME got # Null
                   PROVE  \A i \in DOMAIN s : s[i].op \in Giving \cup Waiting
        BY <1>6, <2>2
      <3>1. Len(calls) \in 2 .. Len(calls)
        BY <1>1, <2>2 DEF StackRight
      <3>2. Below(calls[Len(calls)])
        BY <1>1, <1>2, <3>1, SecondBelow
      <3>3. Id(r) \in Pixels
        BY <1>28, <2>2, <3>2 DEF Waiting
      <3> QED
        BY <2>4, <3>3
    <2> QED
      BY <1>1, <1>2, <1>6, <1>10, <1>27, <2>1, <2>5, <2>6, KeepGot
  <1>34. AgesRight'
    BY <1>1, <1>2, <1>6, <1>10, <1>31, AgesStay
  <1> QED
    BY <1>17, <1>18, <1>19, <1>22, <1>23, <1>24, <1>25, <1>26, <1>29, <1>30, <1>32, <1>33, <1>34
       DEF ResourcesInv

----------------------------------------------------------------------------
(* Moved to the deleted resources, given nothing, handed to the game.      *)

LEMMA MovedKeeps ==
    ASSUME ResourcesInv, Moved
    PROVE  ResourcesInv'
  <1>1. /\ ObjectsRight /\ HeldRight /\ CountsRight /\ NoClaims
        /\ CacheRight /\ OrphanRight /\ DeletedRight /\ FoundAgain
        /\ StackRight /\ MovesRight /\ LoadsRight /\ GotRight /\ SweepsRight /\ AgesRight
    BY DEF ResourcesInv
  <1>2. calls # <<>> /\ Top.op = "moved"
    BY DEF Moved, Running
  <1>3. PICK r \in Res : r = Top.res
    <2>1. Top \in CallType
      BY <1>1, <1>2, TopIs
    <2> QED
      BY <1>2, <2>1, CallFacts
  <1>4. /\ r \in DOMAIN object /\ Kept(r) > 0 /\ Id(r) \in Pixels \ Wallpapers /\ Top.count > 1
    <2>1. MoveRight(Top)
      BY <1>1, <1>2, TopIs DEF MovesRight
    <2> QED
      BY <1>2, <1>3, <2>1 DEF MoveRight
  <1>5. \A x : ~Doomed(x)
    BY <1>2, NotDoomed
  <1>6. object[r].mRefCount > 0
    <2>1. object[r].mRefCount = Claims(r)
      BY <1>1, <1>4, <1>5 DEF CountsRight
    <2>2. Kept(r) \in Nat /\ Owed(calls, r) \in Nat /\ Bit(got = r) \in Nat
      BY <1>1, Counted
    <2> QED
      BY <1>4, <2>1, <2>2 DEF Claims
  <1>7. ~Has(mOrphanedResources, r)
    BY <1>4, <1>6, CountedApart
  <1>8. /\ Then(<<>>) /\ object' = object /\ held' = held /\ got' = got
        /\ mResources' = (IF Has(mResources, r) THEN Without(mResources, Id(r)) ELSE mResources)
        /\ mOrphanedResources' = mOrphanedResources /\ mOldestOrphan' = mOldestOrphan
        /\ mDeletedResources' \subseteq mDeletedResources \cup {r}
    <2>1. Top.count \in Nat /\ ~(Top.count <= 1)
      <3>1. Top \in CallType
        BY <1>1, <1>2, TopIs
      <3>2. Top.count \in Nat
        BY <1>2, <3>1, CallFacts
      <3> QED
        BY <1>4, <3>2
    <2> QED
      BY <1>3, <1>7, <2>1 DEF Moved
  <1> DEFINE s == <<>>
  <1>9. s \in Seq(CallType) /\ DOMAIN s = {} /\ Then(s) /\ s = <<>> /\ \A x : Owed(s, x) = 0
    BY <1>8, OwedEmpty
  <1> HIDE DEF s
  <1>10. /\ SubMap(mResources', mResources) /\ ~Has(mResources', r)
         /\ \A x \in Res : x # r /\ Has(mResources, x) => Has(mResources', x)
    <2>1. CASE Has(mResources, r)
      BY <1>8, <2>1, LeaveCache
    <2>2. CASE ~Has(mResources, r)
      BY <1>8, <2>2 DEF SubMap
    <2> QED
      BY <2>1, <2>2
  <1>11. Firm
    BY <1>1, <1>8 DEF Firm, ObjectsRight, Well, SameHolds
  <1>12. \A x : ~Doomed(x)'
    BY <1>1, <1>2, <1>9, DoomAfter
  <1>13. HeldRight'
    BY <1>1, <1>8 DEF HeldRight
  <1>14. ObjectsRight'
    BY <1>1, <1>11, FirmObjects
  <1>15. CountsRight' /\ NoClaims'
    <2>1. \A x \in DOMAIN object :
            object'[x].mRefCount + held[x] + Bit(object[x].mProtected) + Bit(got = x)
                + (IF Gives(Top, x) THEN 1 ELSE 0)
              = object[x].mRefCount + held'[x] + Bit(object'[x].mProtected) + Bit(got' = x)
                + Owed(s, x)
      <3>1. \A x : ~Gives(Top, x)
        BY <1>2 DEF Gives
      <3> QED
        BY <1>8, <1>9, <3>1
    <2>2. \A x \in Res \ DOMAIN object : held[x] = 0 /\ got # x
      BY <1>1 DEF NoClaims, Unclaimed
    <2> QED
      BY <1>1, <1>2, <1>5, <1>8, <1>9, <1>11, <1>12, <1>13, <2>1, <2>2, FirmCounts
  <1>16. \A x : x # r /\ Leaving(x) => Leaving(x)'
    <2> SUFFICES ASSUME NEW x, x # r, Leaving(x) PROVE Leaving(x)'
      OBVIOUS
    <2> QED
      BY <1>1, <1>2, <1>3, <1>9, LeavingStays
  <1>17. \A x : (Part(x)' <=> Part(x)) /\ Keepers(object', x) = Keepers(object, x)
    BY <1>8 DEF Part
  <1>18. CacheRight'
    <2> SUFFICES ASSUME NEW i \in DOMAIN mResources'
                 PROVE  \A x : x = mResources'[i] =>
                          /\ x \in DOMAIN object' /\ Id(x) = i /\ object'[x].mRefCount > 0
                          /\ ~Doomed(x)'
                          /\ Part(x)' => Keepers(object', x) # {} \/ Leaving(x)'
      BY DEF CacheRight
    <2> TAKE x
    <2> HAVE x = mResources'[i]
    <2>1. i \in DOMAIN mResources /\ x = mResources[i]
      BY <1>10 DEF SubMap
    <2>2. /\ x \in DOMAIN object /\ Id(x) = i /\ object[x].mRefCount > 0
          /\ Part(x) => Keepers(object, x) # {} \/ Leaving(x)
      BY <1>1, <2>1 DEF CacheRight
    <2>3. x # r
      BY <1>10, <2>2, HasIs
    <2> QED
      BY <1>8, <1>12, <1>16, <1>17, <2>2, <2>3
  <1>19. OrphanRight'
    <2> SUFFICES ASSUME NEW i \in DOMAIN mOrphanedResources
                 PROVE  \A x : x = mOrphanedResources[i] =>
                          /\ x \in DOMAIN object' /\ Id(x) = i /\ object'[x].mRefCount = 0
                          /\ ~Doomed(x)' /\ ~Part(x)'
                          /\ i \in DOMAIN mResources' => \A y : y = mResources'[i] => Part(y)'
      BY <1>8 DEF OrphanRight
    <2> TAKE x
    <2> HAVE x = mOrphanedResources[i]
    <2>1. /\ x \in DOMAIN object /\ Id(x) = i /\ object[x].mRefCount = 0 /\ ~Part(x)
          /\ i \in DOMAIN mResources => Part(mResources[i])
      BY <1>1 DEF OrphanRight
    <2>2. i \in DOMAIN mResources' => i \in DOMAIN mResources /\ mResources'[i] = mResources[i]
      BY <1>10 DEF SubMap
    <2> QED
      BY <1>8, <1>12, <1>17, <2>1, <2>2
  <1>20. DeletedRight'
    <2> SUFFICES ASSUME NEW x \in mDeletedResources'
                 PROVE  /\ x \in DOMAIN object' /\ object'[x].mRefCount > 0 /\ ~Doomed(x)'
                        /\ Id(x) \in Pixels \ Wallpapers
                        /\ ~Part(x)' => ~Has(mResources', x)
      BY DEF DeletedRight
    <2>1. CASE x = r
      BY <1>4, <1>6, <1>8, <1>10, <1>12, <2>1
    <2>2. CASE x # r
      <3>1. /\ x \in DOMAIN object /\ object[x].mRefCount > 0 /\ Id(x) \in Pixels \ Wallpapers
            /\ ~Part(x) => ~Has(mResources, x)
        BY <1>1, <1>8, <2>2 DEF DeletedRight
      <3>2. Has(mResources', x) => Has(mResources, x)
        BY <1>1, <1>10, <3>1, HasIs DEF SubMap, ObjectsRight
      <3> QED
        BY <1>8, <1>12, <1>17, <3>1, <3>2
    <2> QED
      BY <2>1, <2>2
  <1>21. FoundAgain'
    <2> SUFFICES ASSUME NEW x \in DOMAIN object
                 PROVE  /\ IsAtlas(x) /\ object[x].mRefCount > 0 => Has(mResources', x)
                        /\ object[x].mRefCount = 0 => Has(mOrphanedResources, x)
      BY <1>8 DEF FoundAgain
    <2>1. x \in Res /\ (IsAtlas(x) => x # r)
      BY <1>1, <1>4, KindsApart DEF ObjectsRight, IsAtlas, Pixels
    <2> QED
      BY <1>1, <1>5, <1>10, <2>1 DEF FoundAgain
  <1>22. StackRight'
    BY <1>1, <1>2, <1>9, KeepStack
  <1>23. MovesRight'
    <2>1. \A x : Kept(x)' = Kept(x)
      BY <1>8 DEF Kept
    <2>2. \A c : Below(c) /\ MoveRight(c) => MoveRight(c)'
      BY <1>8, <2>1, MovesStay
    <2>3. \A c : Below(c) => c.op # "decRef"
      BY <1>1, <1>2, BelowIs DEF MayStandOn, Giving
    <2> QED
      BY <1>1, <1>2, <1>9, <2>2, <2>3, KeepMoves
  <1>24. LoadsRight'
    <2>1. \A c : Below(c) /\ LoadRight(c) => LoadRight(c)'
      BY <1>8, <1>10, LoadsStay DEF SubMap
    <2> QED
      BY <1>1, <1>2, <1>9, <2>1, KeepLoads
  <1>25. SweepsRight'
    <2>1. \A c : SweepRight(c) => SweepRight(c)'
      BY <1>8 DEF SweepRight
    <2> QED
      BY <1>1, <1>2, <1>9, <2>1, KeepSweeps
  <1>26. GotRight'
    <2>1. got = Null /\ \A c : Second(c) => c.op \notin Waiting
      BY <1>1, <1>2, Silent DEF Giving, Waiting, Loading
    <2> QED
      BY <1>1, <1>2, <1>8, <1>9, <2>1, KeepGot
  <1>27. AgesRight'
    BY <1>1, <1>2, <1>8, <1>9, AgesStay
  <1> QED
    BY <1>13, <1>14, <1>15, <1>18, <1>19, <1>20, <1>21, <1>22, <1>23, <1>24, <1>25, <1>26, <1>27
       DEF ResourcesInv

LEMMA NewSetOfNothingKeeps ==
    ASSUME ResourcesInv, NewSet, got = Null
    PROVE  ResourcesInv'
  <1>1. calls # <<>> /\ Top.op = "newSet"
    BY DEF NewSet, Running
  <1>2. Then(<<>>) /\ UNCHANGED <<maps, object, held, got>>
    BY DEF NewSet
  <1>3. AllButAges'
    BY <1>1, <1>2, PopOnly DEF maps
  <1>4. AgesRight'
    BY <1>1, <1>2, PopAges DEF maps
  <1> QED
    BY <1>3, <1>4 DEF AllButAges, ResourcesInv

LEMMA HoldKeeps ==
    ASSUME ResourcesInv, Hold
    PROVE  ResourcesInv'
  <1>1. /\ ObjectsRight /\ HeldRight /\ CountsRight /\ NoClaims
        /\ CacheRight /\ OrphanRight /\ DeletedRight /\ FoundAgain
        /\ StackRight /\ MovesRight /\ LoadsRight /\ GotRight /\ SweepsRight /\ AgesRight
    BY DEF ResourcesInv
  <1>2. calls # <<>> /\ Top.op = "hold"
    BY DEF Hold, Running
  <1>3. /\ Then(<<>>) /\ UNCHANGED <<maps, object>> /\ got' = Null
        /\ held' = IF got = Null THEN held ELSE [held EXCEPT ![got] = @ + 1]
    BY DEF Hold
  <1>4. \A c : ~Below(c)
    <2> SUFFICES ASSUME NEW c, Below(c) PROVE FALSE
      OBVIOUS
    <2>1. c \in CallType /\ MayStandOn(Top, c)
      BY <1>1, <1>2, BelowIs
    <2> QED
      BY <1>2, <2>1, CallFacts DEF MayStandOn, Giving, Loading
  <1> DEFINE s == <<>>
  <1>5. s \in Seq(CallType) /\ DOMAIN s = {} /\ Then(s) /\ s = <<>> /\ \A x : Owed(s, x) = 0
    BY <1>3, OwedEmpty
  <1> HIDE DEF s
  <1>6. Firm
    BY <1>1, <1>3 DEF Firm, ObjectsRight, Well, SameHolds
  <1>7. \A x : ~Doomed(x) /\ ~Doomed(x)'
    <2>1. \A x : ~Doomed(x)
      BY <1>2, NotDoomed
    <2>2. \A x : ~Doomed(x)'
      BY <1>1, <1>2, <1>5, DoomAfter
    <2> QED
      BY <2>1, <2>2
  <1>8. got \in Res \cup {Null} /\ (got # Null => held[got] < MaxHeld)
    <2>1. got \in Res \cup {Null}
      BY <1>1 DEF GotRight
    <2>2. Answered(Top)
      <3>1. 1 \in DOMAIN calls /\ calls[1] = Top
        BY <1>1, <1>2, TopIs
      <3> QED
        BY <1>1, <1>2, <3>1 DEF GotRight, Waiting
    <2>3. got # Null => got = <<Id(got), got[2]>> /\ got[2] \in 1 .. Copies
      BY <2>1, ResFacts
    <2> QED
      BY <1>2, <2>1, <2>2, <2>3 DEF Answered, Fits
  <1>9. HeldRight' /\ \A x \in Res : held'[x] = held[x] + Bit(got = x)
    <2>1. \A x \in Res : held[x] \in 0 .. MaxHeld
      BY <1>1 DEF HeldRight
    <2>2. CASE got = Null
      <3>1. \A x \in Res : x # Null
        BY ResFacts
      <3> QED
        BY <1>1, <1>3, <2>1, <2>2, <3>1, ResourcesAssumption DEF HeldRight, Bit
    <2>3. CASE got # Null
      <3>1. got \in Res /\ held[got] + 1 \in 0 .. MaxHeld
        BY <1>8, <2>1, <2>3, ResourcesAssumption
      <3>2. held' = [held EXCEPT ![got] = held[got] + 1]
        BY <1>3, <2>3
      <3>3. HeldRight'
        BY <1>1, <3>1, <3>2 DEF HeldRight
      <3>4. \A x \in Res : held'[x] = IF x = got THEN held[x] + 1 ELSE held[x]
        BY <1>1, <3>1, <3>2 DEF HeldRight
      <3>5. \A x \in Res : held'[x] = held[x] + Bit(got = x)
        BY <2>1, <3>4, ResourcesAssumption DEF Bit
      <3> QED
        BY <3>3, <3>5
    <2> QED
      BY <2>2, <2>3
  <1>10. ObjectsRight'
    BY <1>1, <1>6, FirmObjects
  <1>11. CountsRight' /\ NoClaims'
    <2>1. ASSUME NEW x \in DOMAIN object
          PROVE  object'[x].mRefCount + held[x] + Bit(object[x].mProtected) + Bit(got = x)
                     + (IF Gives(Top, x) THEN 1 ELSE 0)
                   = object[x].mRefCount + held'[x] + Bit(object'[x].mProtected) + Bit(got' = x)
                     + Owed(s, x)
      <3>1. ~Gives(Top, x)
        BY <1>2 DEF Gives
      <3>2. /\ object[x].mRefCount \in Nat /\ held[x] \in Nat /\ Bit(object[x].mProtected) \in Nat
            /\ Bit(got = x) \in Nat /\ x \in Res
        BY CountsNat
      <3>3. Bit(got' = x) = 0 /\ held'[x] = held[x] + Bit(got = x)
        BY <1>3, <1>9, <3>2, ResFacts DEF Bit
      <3>4. object' = object
        BY <1>3
      <3> QED
        BY <1>5, <3>1, <3>2, <3>3, <3>4
    <2>2. ASSUME NEW x \in Res \ DOMAIN object PROVE held'[x] = 0 /\ got' # x
      <3>1. held[x] = 0 /\ got # x
        BY <1>1 DEF NoClaims, Unclaimed
      <3> QED
        BY <1>3, <1>9, <3>1, ResFacts DEF Bit
    <2> QED
      BY <1>1, <1>2, <1>5, <1>6, <1>7, <1>9, <2>1, <2>2, FirmCounts
  <1>12. CacheRight' /\ OrphanRight' /\ DeletedRight' /\ FoundAgain'
    <2>1. \A x : Leaving(x) => Leaving(x)'
      BY <1>1, <1>2, <1>5, LeavingStays
    <2> QED
      BY <1>1, <1>3, <1>6, <1>7, <2>1, FirmMaps DEF SameMap, maps
  <1>13. StackRight'
    BY <1>1, <1>2, <1>4, <1>5, KeepStack
  <1>14. MovesRight'
    BY <1>1, <1>2, <1>4, <1>5, KeepMoves
  <1>15. LoadsRight'
    BY <1>1, <1>2, <1>4, <1>5, KeepLoads
  <1>16. SweepsRight'
    BY <1>1, <1>2, <1>4, <1>5, KeepSweeps
  <1>17. GotRight'
    <2>1. \A i \in DOMAIN calls' : FALSE
      BY <1>1, <1>2, <1>4, <1>5, Elements
    <2> QED
      BY <1>3, <2>1 DEF GotRight
  <1>18. AgesRight'
    BY <1>2, <1>3, PopAges DEF maps
  <1> QED
    BY <1>9, <1>10, <1>11, <1>12, <1>13, <1>14, <1>15, <1>16, <1>17, <1>18 DEF ResourcesInv

----------------------------------------------------------------------------
(* What a get finds among the orphans, and what a loader makes.            *)

\* A place in the cache is one that was there, or that of something in use.
CacheGrows ==
    \A i \in DOMAIN mResources' :
      \/ i \in DOMAIN mResources /\ mResources'[i] = mResources[i]
      \/ \E x \in DOMAIN object' :
           /\ mResources'[i] = x /\ Id(x) = i /\ object'[x].mRefCount > 0
           /\ Part(x)' => Keepers(object', x) # {}
           /\ i \in DOMAIN mOrphanedResources' => Part(x)'
           /\ x \in mDeletedResources => Part(x)'

\* What is below a loader waits for what it makes.
LEMMA LoadersWait ==
    ASSUME StackRight, GotRight, LoadsRight, calls # <<>>, Top.op \in Loading
    PROVE  /\ \A c : Below(c) => c \in CallType /\ c.op \in Waiting
           /\ \A c : Second(c) /\ c.op \in Waiting => Supplies(Top, c)
           /\ Len(calls) >= 2 /\ calls[Len(calls)].op = "hold"
  <1>1. ASSUME NEW c, Below(c) PROVE c \in CallType /\ c.op \in Waiting
    <2>1. MayStandOn(Top, c) /\ c \in CallType
      BY <1>1, BelowIs
    <2>2. c.op \notin {"delete", "decRefDelete", "get", "retire", "newAtlas", "moveToDeleted",
                       "moved", "decRef", "clearDeleted", "unprotect", "sweep", "sweepAll"}
      BY <2>1 DEF MayStandOn, Loading, Giving
    <2> QED
      BY <2>1, <2>2, CallFacts DEF Waiting
  <1>2. ASSUME NEW c, Second(c), c.op \in Waiting PROVE Supplies(Top, c)
    <2>1. 2 \in DOMAIN calls /\ calls[2] = c /\ calls[1] = Top /\ 2 - 1 = 1
      BY <1>2, TopIs DEF Second, StackRight
    <2>2. Top.op \notin Giving
      BY DEF Loading, Giving
    <2> QED
      BY <1>2, <2>1, <2>2 DEF GotRight
  <1> QED
    BY <1>1, <1>2, LoadBelow

LEMMA LoadStep ==
    ASSUME ResourcesInv, calls # <<>>, Top.op \in Loading, NEW s \in Seq(CallType), Then(s),
           \A i \in DOMAIN s : /\ s[i].op = "decRef" /\ s[i].res \in DOMAIN object
                               /\ Id(s[i].res) \in Pixels,
           s # <<>> => Top.op = "newSet",
           Well(object'), DOMAIN object \subseteq DOMAIN object',
           \A x \in DOMAIN object : /\ object'[x].holds = object[x].holds
                                    /\ object'[x].mProtected = object[x].mProtected
                                    /\ object[x].mRefCount > 0 => object'[x].mRefCount > 0
                                    /\ object'[x].mRefCount = 0 /\ Has(mOrphanedResources, x)
                                           => Has(mOrphanedResources', x),
           \A x \in DOMAIN object' : x \notin DOMAIN object =>
             HoldsRight(x)' /\ object'[x].mRefCount > 0 /\ (object'[x].mProtected => Id(x) \in Sprites),
           held' = held, got' \in DOMAIN object', Id(got') = Top.id,
           \A x \in DOMAIN object :
             object'[x].mRefCount + Kept(x) + Bit(got = x)
               = object[x].mRefCount + Kept(x)' + Bit(got' = x) + Owed(s, x),
           \A x \in DOMAIN object' : x \notin DOMAIN object =>
             object'[x].mRefCount = Kept(x)' + Bit(got' = x) + Owed(s, x),
           \A x \in Res \ DOMAIN object' : Holders(object', x) = {},
           CacheGrows, mDeletedResources' = mDeletedResources, mOldestOrphan' = mOldestOrphan,
           \A x \in DOMAIN object' :
             IsAtlas(x) /\ object'[x].mRefCount > 0 =>
               \/ Has(mResources', x)
               \/ /\ x \in DOMAIN object /\ object[x].mRefCount > 0
                  /\ Has(mResources, x) => Has(mResources', x),
           SubMap(mOrphanedResources', mOrphanedResources),
           \A i \in DOMAIN mOrphanedResources' :
             object'[mOrphanedResources[i]] = object[mOrphanedResources[i]],
           \A c : Below(c) /\ LoadRight(c) => LoadRight(c)'
    PROVE  ResourcesInv'
  <1>1. /\ ObjectsRight /\ HeldRight /\ CountsRight /\ NoClaims
        /\ CacheRight /\ OrphanRight /\ DeletedRight /\ FoundAgain
        /\ StackRight /\ MovesRight /\ LoadsRight /\ GotRight /\ SweepsRight /\ AgesRight
    BY DEF ResourcesInv
  <1>2. /\ \A c : Below(c) => c \in CallType /\ c.op \in Waiting
        /\ \A c : Second(c) /\ c.op \in Waiting => Supplies(Top, c)
        /\ Len(calls) >= 2 /\ calls[Len(calls)].op = "hold"
    BY <1>1, LoadersWait
  <1>3. \A x : ~Doomed(x) /\ ~Doomed(x)'
    <2>1. \A x : ~Doomed(x)
      BY NotDoomed DEF Loading
    <2>2. \A x : ~Doomed(x)'
      BY <1>1, DoomAfter
    <2> QED
      BY <2>1, <2>2
  <1>4. \A x \in DOMAIN object : Part(x)' <=> Part(x)
    BY DEF Part
  <1>5. \A x \in DOMAIN object : Keepers(object, x) # {} => Keepers(object', x) # {}
    BY DEF Keepers
  <1>6. HeldRight'
    BY <1>1 DEF HeldRight
  <1>7. ObjectsRight'
    <2>1. ASSUME NEW x \in DOMAIN object PROVE HoldsRight(x)'
      <3>1. object'[x].holds = object[x].holds /\ HoldsRight(x)
        BY <1>1 DEF ObjectsRight
      <3>2. \A i \in DOMAIN object[x].holds : object[x].holds[i] \in DOMAIN object
        BY <1>1, HeldAlive
      <3>3. \A p : p \in DOMAIN object /\ Part(p) => Part(p)'
        BY <1>4
      <3>4. IsAtlas(x) => \A i \in DOMAIN object[x].holds :
                            \A p : p = object[x].holds[i] => Part(p)'
        BY <3>1, <3>2, <3>3 DEF HoldsRight
      <3> HIDE DEF Part
      <3> QED
        BY <3>1, <3>4 DEF HoldsRight, IsAtlas
    <2>2. \A x \in DOMAIN object' : HoldsRight(x)'
      BY <2>1
    <2>3. \A x \in DOMAIN object' : object'[x].mProtected => Id(x) \in Sprites
      BY <1>1 DEF ObjectsRight
    <2> QED
      BY <2>2, <2>3 DEF ObjectsRight, Well
  <1>8. \A x : ~Gives(Top, x)
    BY DEF Gives, Loading
  <1>9. CountsRight' /\ NoClaims'
    <2>1. \A x \in DOMAIN object' :
             \/ /\ x \in DOMAIN object /\ ~Doomed(x)
                /\ object'[x].mRefCount + Kept(x) + Bit(got = x) + (IF Gives(Top, x) THEN 1 ELSE 0)
                     = object[x].mRefCount + Kept(x)' + Bit(got' = x) + Owed(s, x)
             \/ /\ x \notin DOMAIN object
                /\ object'[x].mRefCount = Kept(x)' + Bit(got' = x) + Owed(s, x)
      <3> SUFFICES ASSUME NEW x \in DOMAIN object, x \in DOMAIN object'
                   PROVE  object'[x].mRefCount + Kept(x) + Bit(got = x)
                            + (IF Gives(Top, x) THEN 1 ELSE 0)
                            = object[x].mRefCount + Kept(x)' + Bit(got' = x) + Owed(s, x)
        BY <1>3
      <3>1. PICK k \in Nat : k = Kept(x)
        BY <1>1, KeptNat DEF Kept, HeldRight, ObjectsRight, Well
      <3>2. object'[x].mRefCount \in Nat /\ Bit(got = x) \in Nat
        BY HoldsSeq DEF Bit
      <3>3. object'[x].mRefCount + Kept(x) + Bit(got = x)
               = object[x].mRefCount + Kept(x)' + Bit(got' = x) + Owed(s, x)
        OBVIOUS
      <3>4. (IF Gives(Top, x) THEN 1 ELSE 0) = 0
        BY <1>8
      <3>5. object'[x].mRefCount + Kept(x) + Bit(got = x) + 0
              = object'[x].mRefCount + Kept(x) + Bit(got = x)
        BY <3>1, <3>2
      <3> QED
        BY <3>3, <3>4, <3>5
    <2>2. ASSUME NEW x \in Res \ DOMAIN object'
          PROVE  /\ x \notin DOMAIN object
                 /\ held'[x] = 0 /\ Holders(object', x) = {} /\ got' # x
                 /\ \A i \in DOMAIN s : ~Gives(s[i], x)
      <3>1. x \notin DOMAIN object
        OBVIOUS
      <3>2. held[x] = 0
        BY <1>1, <3>1 DEF NoClaims, Unclaimed
      <3>3. \A i \in DOMAIN s : ~Gives(s[i], x)
        BY <3>1 DEF Gives
      <3> QED
        BY <3>1, <3>2, <3>3
    <2> QED
      BY <1>1, <1>3, <1>6, <2>1, <2>2, StepCounts
  <1>10. \A x : Leaving(x) => Leaving(x)'
    BY <1>1, LeavingStays DEF Loading
  <1>11. CacheRight'
    <2> SUFFICES ASSUME NEW i \in DOMAIN mResources'
                 PROVE  \A x : x = mResources'[i] =>
                          /\ x \in DOMAIN object' /\ Id(x) = i /\ object'[x].mRefCount > 0
                          /\ ~Doomed(x)'
                          /\ Part(x)' => Keepers(object', x) # {} \/ Leaving(x)'
      BY DEF CacheRight
    <2> TAKE x
    <2> HAVE x = mResources'[i]
    <2>1. CASE i \in DOMAIN mResources /\ mResources'[i] = mResources[i]
      <3>1. /\ x \in DOMAIN object /\ Id(x) = i /\ object[x].mRefCount > 0
            /\ Part(x) => Keepers(object, x) # {} \/ Leaving(x)
        BY <1>1, <2>1 DEF CacheRight
      <3> QED
        BY <1>3, <1>4, <1>5, <1>10, <3>1
    <2>2. CASE ~(i \in DOMAIN mResources /\ mResources'[i] = mResources[i])
      BY <1>3, <2>2 DEF CacheGrows
    <2> QED
      BY <2>1, <2>2
  <1>12. OrphanRight'
    <2> SUFFICES ASSUME NEW i \in DOMAIN mOrphanedResources'
                 PROVE  \A x : x = mOrphanedResources'[i] =>
                          /\ x \in DOMAIN object' /\ Id(x) = i /\ object'[x].mRefCount = 0
                          /\ ~Doomed(x)' /\ ~Part(x)'
                          /\ i \in DOMAIN mResources' => \A y : y = mResources'[i] => Part(y)'
      BY DEF OrphanRight
    <2> TAKE x
    <2> HAVE x = mOrphanedResources'[i]
    <2>1. i \in DOMAIN mOrphanedResources /\ x = mOrphanedResources[i]
      BY DEF SubMap
    <2>2. /\ x \in DOMAIN object /\ Id(x) = i /\ object[x].mRefCount = 0 /\ ~Part(x)
          /\ i \in DOMAIN mResources => Part(mResources[i]) /\ mResources[i] \in DOMAIN object
      BY <1>1, <2>1 DEF OrphanRight, CacheRight
    <2>3. object'[x] = object[x]
      BY <2>1
    <2>4. i \in DOMAIN mResources' => \A y : y = mResources'[i] => Part(y)'
      BY <1>4, <2>2 DEF CacheGrows
    <2> QED
      BY <1>3, <1>4, <2>2, <2>3, <2>4
  <1>13. DeletedRight'
    <2> SUFFICES ASSUME NEW x \in mDeletedResources
                 PROVE  /\ x \in DOMAIN object' /\ object'[x].mRefCount > 0 /\ ~Doomed(x)'
                        /\ Id(x) \in Pixels \ Wallpapers
                        /\ ~Part(x)' => ~Has(mResources', x)
      BY DEF DeletedRight
    <2>1. /\ x \in DOMAIN object /\ object[x].mRefCount > 0 /\ Id(x) \in Pixels \ Wallpapers
          /\ ~Part(x) => ~Has(mResources, x)
      BY <1>1 DEF DeletedRight
    <2>2. ASSUME ~Part(x)', Has(mResources', x) PROVE FALSE
      <3>1. x \in Res
        BY <1>1, <2>1 DEF ObjectsRight
      <3>2. Id(x) \in DOMAIN mResources' /\ mResources'[Id(x)] = x
        BY <2>2, <3>1, HasIs
      <3>3. Id(x) \in DOMAIN mResources /\ mResources[Id(x)] = x
        BY <2>2, <3>2 DEF CacheGrows
      <3>4. Has(mResources, x)
        BY <3>1, <3>3, HasIs
      <3> QED
        BY <1>4, <2>1, <2>2, <3>4
    <2> QED
      BY <1>3, <2>1, <2>2
  <1>14. FoundAgain'
    <2> SUFFICES ASSUME NEW x \in DOMAIN object'
                 PROVE  /\ IsAtlas(x) /\ object'[x].mRefCount > 0 => Has(mResources', x)
                        /\ object'[x].mRefCount = 0 => Has(mOrphanedResources', x)
      BY DEF FoundAgain
    <2>1. IsAtlas(x) /\ object'[x].mRefCount > 0 => Has(mResources', x)
      BY <1>1 DEF FoundAgain
    <2>2. ASSUME object'[x].mRefCount = 0 PROVE Has(mOrphanedResources', x)
      <3>1. ~(object'[x].mRefCount > 0)
        BY <2>2
      <3>2. x \in DOMAIN object /\ ~(object[x].mRefCount > 0)
        BY <3>1
      <3>3. object[x].mRefCount = 0
        BY <3>2, CountsNat
      <3>4. Has(mOrphanedResources, x)
        BY <1>1, <1>3, <3>2, <3>3 DEF FoundAgain
      <3> QED
        BY <2>2, <3>2, <3>4
    <2> QED
      BY <2>1, <2>2
  <1>15. \A i \in DOMAIN s : /\ s[i].op \notin Moving \cup Waiting \cup Loading
                             /\ ~IsAtlas(s[i].res)
    BY KindsApart DEF Moving, Waiting, Loading, IsAtlas, Pixels
  <1>16. StackRight'
    <2>1. \A i, j \in DOMAIN s : MayStandOn(s[i], s[j])
      <3>1. \A a, c : a.op = "decRef" /\ ~IsAtlas(a.res) /\ c.op = "decRef" /\ ~IsAtlas(c.res)
                        => MayStandOn(a, c)
        BY DEF MayStandOn, Giving
      <3> QED
        BY <1>15, <3>1
    <2>2. ASSUME NEW i \in DOMAIN s, NEW c, Below(c) PROVE MayStandOn(s[i], c)
      <3>1. MayStandOn(Top, c) /\ c.op \in Waiting
        BY <1>1, <1>2, <2>2, BelowIs
      <3>2. \A a : a.op = "decRef" /\ ~IsAtlas(a.res) /\ Id(a.res) \in Pixels /\ c.op # "newSet"
                     => MayStandOn(a, c)
        BY <3>1 DEF MayStandOn, Giving, Waiting
      <3>3. c.op # "newSet"
        BY <3>1, EmptyMap DEF MayStandOn
      <3> QED
        BY <1>15, <3>2, <3>3
    <2>3. \A i \in DOMAIN s : \A j \in 2 .. Len(calls) : MayStandOn(s[i], calls[j])
      BY <1>1, <2>2, SecondBelow
    <2> QED
      BY <1>1, <2>1, <2>3, KeepStack
  <1>17. MovesRight'
    <2>1. \A c : c.op = "decRef" => MoveRight(c)'
      BY DEF MoveRight
    <2>2. \A i \in DOMAIN s : MoveRight(s[i])'
      BY <2>1
    <2>3. \A c : Below(c) => c.op \notin Moving
      BY <1>2 DEF Waiting, Moving
    <2>4. \A c : Below(c) /\ MoveRight(c) => MoveRight(c)'
      BY <2>3, MovesStay DEF Moving
    <2> QED
      BY <1>1, <1>15, <2>2, <2>3, <2>4, KeepMoves
  <1>18. LoadsRight'
    <2>1. \A c : c.op = "decRef" => LoadRight(c)'
      BY DEF LoadRight, Loading
    <2>2. \A i \in DOMAIN s : LoadRight(s[i])'
      BY <2>1
    <2> QED
      BY <1>1, <1>15, <2>2, KeepLoads
  <1>19. SweepsRight'
    <2>1. \A c : c.op # "sweep" => SweepRight(c)'
      BY DEF SweepRight
    <2>2. \A c : Below(c) => c.op # "sweep"
      BY <1>2 DEF Waiting
    <2>3. \A i \in DOMAIN s : SweepRight(s[i])'
      BY <2>1
    <2> QED
      BY <1>1, <2>1, <2>2, <2>3, KeepSweeps
  <1>20. GotRight'
    <2>1. got' \in Res \cup {Null}
      BY DEF Well
    <2>2. \A c : Below(c) => c.op \notin Giving
      BY <1>2 DEF Waiting, Giving
    <2>3. \A c : Second(c) /\ c.op \in Waiting => Answered(c)'
      BY <1>2 DEF Answered, Fits, Supplies
    <2>4. \A i \in DOMAIN s : s[i].op \in Giving
      BY DEF Giving
    <2>5. s # <<>> => Len(s) \in DOMAIN s
      OBVIOUS
    <2>6. \A c : Second(c) /\ c.op \in Waiting =>
            Answered(c)' /\ (s = <<>> \/ s[Len(s)].op \in Giving)
      BY <2>3, <2>4, <2>5
    <2> QED
      BY <1>1, <1>2, <1>15, <2>1, <2>2, <2>4, <2>6, KeepGot
  <1>21. AgesRight'
    <2>1. Top.op # "sweep"
      BY DEF Loading
    <2>2. \A n \in DOMAIN mOrphanedResources' :
            /\ n \in DOMAIN mOrphanedResources
            /\ object'[mOrphanedResources'[n]].mTimeStamp
                 = object[mOrphanedResources[n]].mTimeStamp
      BY DEF SubMap
    <2> QED
      BY <1>1, <2>1, <2>2, AgesStay
  <1> QED
    BY <1>6, <1>7, <1>9, <1>11, <1>12, <1>13, <1>14, <1>16, <1>17, <1>18, <1>19, <1>20, <1>21
       DEF ResourcesInv

\* Whatever is made, what waits below for it is the maker of something else.
LEMMA LoadsBelow ==
    ASSUME StackRight, GotRight, LoadsRight, calls # <<>>, Top.op \in Loading,
           \A x \in DOMAIN object' : x \in DOMAIN object \/ Id(x) \in Pixels \cup {Top.id},
           DOMAIN mResources' \subseteq DOMAIN mResources \cup Pixels \cup {Top.id},
           DOMAIN mOrphanedResources' \subseteq DOMAIN mOrphanedResources
    PROVE  \A c : Below(c) /\ LoadRight(c) => LoadRight(c)'
  <1> SUFFICES ASSUME NEW c, Below(c), LoadRight(c) PROVE LoadRight(c)'
    OBVIOUS
  <1>1. c \in CallType /\ c.op \in Waiting /\ MayStandOn(Top, c)
    BY LoadersWait, BelowIs
  <1>2. Top.op = "newSet" => Top.id \in Sets
    <2>1. 1 \in DOMAIN calls /\ calls[1] = Top
      BY TopIs
    <2>2. LoadRight(Top)
      BY <2>1 DEF LoadsRight
    <2> QED
      BY <2>2 DEF LoadRight
  <1>3. CASE c.op \notin Loading
    BY <1>1, <1>3 DEF LoadRight, Loading
  <1>4. CASE c.op \in Loading
    <2>1. c.op \in {"newSet", "newSprite"}
      BY <1>1, <1>4 DEF Waiting, Loading
    <2>2. /\ c.op = "newSet" => c.id \in Sets
          /\ c.op = "newSprite" => c.id \in Sprites
      BY DEF LoadRight
    <2>3. /\ c.op = "newSet" => Top.id \in Images
          /\ c.op = "newSprite" => Top.id \in Images \cup Sets
      BY <1>1, <1>2 DEF MayStandOn, Loading, Giving
    <2>4. c.id \notin Pixels /\ c.id # Top.id
      BY <2>1, <2>2, <2>3, KindsApart DEF Pixels
    <2>5. /\ \A n \in ToMake(c) : Room(n) # {}
          /\ c.id \notin DOMAIN mResources \cup DOMAIN mOrphanedResources
      BY <2>1 DEF LoadRight, Loading
    <2>6. ToMake(c) = {c.id}
      BY <2>1 DEF ToMake
    <2>7. ASSUME NEW k \in Room(c.id) PROVE k \in Room(c.id)'
      <3>1. k \in 1 .. Copies /\ <<c.id, k>> \notin DOMAIN object
        BY DEF Room, Alive
      <3>2. Id(<<c.id, k>>) = c.id
        BY DEF Id
      <3>3. <<c.id, k>> \notin DOMAIN object'
        BY <2>4, <3>1, <3>2
      <3> QED
        BY <3>1, <3>3 DEF Room, Alive
    <2>8. Room(c.id)' # {}
      BY <2>5, <2>6, <2>7
    <2>9. \A n \in ToMake(c) : Room(n)' # {}
      BY <2>6, <2>8
    <2>10. c.id \notin DOMAIN mResources' \cup DOMAIN mOrphanedResources'
      BY <2>4, <2>5
    <2> HIDE DEF Room, ToMake
    <2> QED
      BY <2>1, <2>2, <2>9, <2>10 DEF LoadRight
  <1> QED
    BY <1>3, <1>4

\* An atlas that is used from now on keeps what it holds.
LEMMA KeepersMore ==
    ASSUME NEW objects, NEW others, Well(objects), Well(others), DOMAIN objects \subseteq DOMAIN others,
           NEW a \in DOMAIN others, IsAtlas(a), others[a].mRefCount > 0,
           a \in DOMAIN objects => ~(objects[a].mRefCount > 0),
           \A y \in DOMAIN others : IsAtlas(y) /\ y # a =>
             /\ y \in DOMAIN objects /\ others[y].holds = objects[y].holds
             /\ others[y].mRefCount > 0 <=> objects[y].mRefCount > 0,
           NEW x
    PROVE  Keeping(others, x)
             = Keeping(objects, x) + Bit(\E i \in DOMAIN others[a].holds : others[a].holds[i] = x)
  <1> DEFINE K == Keepers(objects, x)
             has == \E i \in DOMAIN others[a].holds : others[a].holds[i] = x
  <1>1. has <=> x \in Range(others[a].holds)
    BY DEF Range
  <1>2. Keepers(others, x) = K \cup (IF has THEN {a} ELSE {})
    BY <1>1 DEF Keepers
  <1>3. a \notin K
    BY DEF Keepers
  <1>4. IsFiniteSet(K) /\ Cardinality(K) \in Nat
    BY KeepersNat DEF Keeping
  <1> HIDE DEF K
  <1>5. Cardinality(K \cup {a}) = Cardinality(K) + 1
    BY <1>3, <1>4, FS_AddElement
  <1>6. CASE has
    BY <1>2, <1>5, <1>6 DEF Keeping, Bit, K
  <1>7. CASE ~has
    <2>1. Keepers(others, x) = K
      BY <1>2, <1>7
    <2> QED
      BY <1>4, <1>7, <2>1 DEF Keeping, Bit, K
  <1> QED
    BY <1>6, <1>7

LEMMA ClaimsCount ==
    ASSUME ObjectsRight, HeldRight, StackRight, NEW r \in Res, Holders(object, r) # {}
    PROVE  Claims(r) # 0 /\ Claims(r) \in Nat
  <1>1. PICK h \in Nat, o \in Nat, k \in Nat, b \in Nat, w \in Nat, g \in Nat :
          /\ h = held[r] /\ o = Holding(object, r) /\ k = Keeping(object, r)
          /\ b = Bit(object[r].mProtected) /\ w = Owed(calls, r) /\ g = Bit(got = r)
    BY Counted
  <1>2. o # 0
    BY <1>1, Counted
  <1>3. h + o + k + b + w + g # 0 /\ h + o + k + b + w + g \in Nat
    BY <1>2
  <1> QED
    BY <1>1, <1>3 DEF Claims, Kept

\* What an atlas that nobody used puts into the cache.
LEMMA InjectedIs ==
    ASSUME NEW objects, NEW r, IsAtlas(r), objects[r].mRefCount = 0, NEW S, objects[r].holds \in Seq(S)
    PROVE  \A i \in DOMAIN Injected(objects, r) :
             /\ Injected(objects, r)[i] \in Range(objects[r].holds)
             /\ Id(Injected(objects, r)[i]) = i
  <1>1. PICK h \in Seq(S) : h = objects[r].holds
    OBVIOUS
  <1>2. PICK n \in Nat : n = Len(h) /\ DOMAIN h = 1 .. n
    OBVIOUS
  <1>3. ASSUME NEW id \in {Id(x) : x \in Range(h)}
        PROVE  LastOf(h, id) \in Range(h) /\ Id(LastOf(h, id)) = id
    <2> DEFINE Found(i) == Id(h[i]) = id
               fromEnd == {n - i : i \in {j \in 1 .. n : Found(j)}}
    <2>1. PICK i \in 1 .. n : Found(i)
      BY <1>2 DEF Range
    <2> HIDE DEF Found
    <2>2. fromEnd \in SUBSET Nat /\ fromEnd # {}
      BY <2>1
    <2>3. PICK m \in fromEnd : \A k \in fromEnd : m <= k
      BY <2>2, Least
    <2>4. PICK l \in 1 .. n : Found(l) /\ m = n - l
      OBVIOUS
    <2>5. ASSUME NEW j \in 1 .. n, Found(j) PROVE j <= l
      <3>1. n - j \in fromEnd
        BY <2>5
      <3>2. m <= n - j
        BY <2>3, <3>1
      <3> QED
        BY <2>4, <3>2
    <2> USE DEF Found
    <2>6. \E k \in DOMAIN h : Id(h[k]) = id /\ \A j \in DOMAIN h : Id(h[j]) = id => j <= k
      BY <1>2, <2>4, <2>5
    <2>7. PICK k \in DOMAIN h : LastOf(h, id) = h[k] /\ Id(h[k]) = id
      BY <2>6 DEF LastOf
    <2> QED
      BY <2>7 DEF Range
  <1>4. Injected(objects, r) = [id \in {Id(x) : x \in Range(h)} |-> LastOf(h, id)]
    BY <1>1 DEF Injected
  <1> QED
    BY <1>1, <1>3, <1>4

LEMMA GetOrphanKeeps ==
    ASSUME ResourcesInv, GetOrphan
    PROVE  ResourcesInv'
  <1>1. /\ ObjectsRight /\ StackRight /\ GotRight /\ OrphanRight /\ LoadsRight /\ CacheRight
        /\ NoClaims /\ HeldRight /\ FoundAgain /\ DeletedRight
    BY DEF ResourcesInv
  <1>2. /\ calls # <<>> /\ Top.op = "get" /\ Top.id \notin DOMAIN mResources
        /\ Top.id \in DOMAIN mOrphanedResources
    BY DEF GetOrphan, Running
  <1>3. PICK r : r = mOrphanedResources[Top.id]
    OBVIOUS
  <1>4. /\ r \in DOMAIN object /\ Id(r) = Top.id /\ object[r].mRefCount = 0 /\ ~Part(r)
        /\ r \in Res /\ r \notin mDeletedResources
    BY <1>1, <1>2, <1>3 DEF OrphanRight, ObjectsRight, DeletedRight
  <1>5. /\ got' = r /\ object' = [IncRef(object, r) EXCEPT ![r].mTimeStamp = 0] /\ Then(<<>>)
        /\ mResources' = Over(Injected(object, r), With(mResources, Id(r), r))
        /\ mOrphanedResources' = Without(mOrphanedResources, Id(r))
        /\ UNCHANGED <<mDeletedResources, mOldestOrphan, held>>
    BY <1>3, <1>4 DEF GetOrphan
  <1> DEFINE inject == IF IsAtlas(r) THEN Range(object[r].holds) ELSE {}
  <1>6. \A x \in inject : /\ x \in DOMAIN object /\ Part(x) /\ Id(x) \in Pixels /\ x # r
                          /\ object[x].mRefCount > 0
    <2> SUFFICES ASSUME IsAtlas(r), NEW x \in Range(object[r].holds)
                 PROVE  /\ x \in DOMAIN object /\ Part(x) /\ Id(x) \in Pixels /\ x # r
                        /\ object[x].mRefCount > 0
      OBVIOUS
    <2>1. PICK i \in DOMAIN object[r].holds : x = object[r].holds[i]
      BY DEF Range
    <2>2. Part(x) /\ Id(x) \in Pixels
      BY <1>4, <2>1, HoldsOnce DEF Part, Pixels
    <2>3. x \in DOMAIN object /\ x \in Res /\ ~Doomed(x) /\ Holders(object, x) # {}
      BY <1>1, <1>4, <2>1, HeldAlive
    <2>4. object[x].mRefCount = Claims(x) /\ object[x].mRefCount \in Nat
      BY <2>3, CountsNat DEF ResourcesInv, CountsRight
    <2>5. Claims(x) # 0
      BY <1>1, <2>3, ClaimsCount
    <2>6. x # r
      BY <1>4, <2>4, <2>5
    <2> QED
      BY <2>2, <2>3, <2>4, <2>5, <2>6
  <1>7. /\ DOMAIN object' = DOMAIN object
        /\ \A x \in DOMAIN object :
             object'[x] = IF x = r THEN [object[r] EXCEPT !.mRefCount = object[r].mRefCount + 1,
                                                          !.mTimeStamp = 0]
                          ELSE IF x \in inject THEN [object[x] EXCEPT !.mRefCount = object[x].mRefCount + 1]
                          ELSE object[x]
    BY <1>4, <1>5 DEF IncRef
  <1>8. \A x \in DOMAIN object :
          /\ object[x].mRefCount \in Nat /\ object[x] \in Record
          /\ object'[x].holds = object[x].holds /\ object'[x].mProtected = object[x].mProtected
          /\ object'[x].mRefCount
               = IF x = r \/ x \in inject THEN object[x].mRefCount + 1 ELSE object[x].mRefCount
          /\ object'[x] \in Record
    <2> HIDE DEF inject
    <2> SUFFICES ASSUME NEW x \in DOMAIN object
                 PROVE  /\ object[x].mRefCount \in Nat /\ object[x] \in Record
                        /\ object'[x].holds = object[x].holds
                        /\ object'[x].mProtected = object[x].mProtected
                        /\ object'[x].mRefCount = IF x = r \/ x \in inject
                                                  THEN object[x].mRefCount + 1 ELSE object[x].mRefCount
                        /\ object'[x] \in Record
      OBVIOUS
    <2>1. object[x].mRefCount \in Nat /\ object[x] \in Record /\ 0 \in Ages
      BY CountsNat, ResourcesAssumption DEF Ages
    <2>2. object[x].mRefCount + 1 \in Nat
      BY <2>1
    <2>3. CASE x = r
      <3>1. object'[x] = [object[x] EXCEPT !.mRefCount = object[x].mRefCount + 1, !.mTimeStamp = 0]
        BY <1>7, <2>3
      <3> QED
        BY <2>1, <2>2, <2>3, <3>1 DEF Record
    <2>4. CASE x # r /\ x \in inject
      <3>1. object'[x] = [object[x] EXCEPT !.mRefCount = object[x].mRefCount + 1]
        BY <1>7, <2>4
      <3> QED
        BY <2>1, <2>2, <2>4, <3>1 DEF Record
    <2>5. CASE x # r /\ x \notin inject
      BY <1>7, <2>1, <2>5
    <2> QED
      BY <2>3, <2>4, <2>5
  <1> HIDE DEF inject
  <1>9. Well(object) /\ Well(object')
    BY <1>1, <1>7, <1>8 DEF ObjectsRight, Well
  <1>10. SameHolds(object', object)
    BY <1>7, <1>8 DEF SameHolds
  <1>11. \A x : Holders(object', x) = Holders(object, x)
    BY <1>10, HoldersSame
  <1>12. \A x \in DOMAIN object : x # r => (object'[x].mRefCount > 0 <=> object[x].mRefCount > 0)
    BY <1>6, <1>8
  <1>13. \A x : Keeping(object', x) = Keeping(object, x) + Bit(x \in inject)
    <2> TAKE x
    <2>1. CASE IsAtlas(r)
      <3>1. x \in inject <=> \E i \in DOMAIN object'[r].holds : object'[r].holds[i] = x
        BY <1>4, <1>8, <2>1 DEF inject, Range
      <3>2. object'[r].mRefCount > 0 /\ ~(object[r].mRefCount > 0) /\ r \in DOMAIN object'
        BY <1>4, <1>7, <1>8
      <3>3. \A y \in DOMAIN object' : IsAtlas(y) /\ y # r =>
              /\ y \in DOMAIN object /\ object'[y].holds = object[y].holds
              /\ object'[y].mRefCount > 0 <=> object[y].mRefCount > 0
        BY <1>7, <1>8, <1>12
      <3>4. DOMAIN object \subseteq DOMAIN object'
        BY <1>7
      <3>5. Keeping(object', x) = Keeping(object, x)
               + Bit(\E i \in DOMAIN object'[r].holds : object'[r].holds[i] = x)
        BY <1>9, <2>1, <3>2, <3>3, <3>4, KeepersMore DEF Bit
      <3> QED
        BY <3>1, <3>5 DEF Bit
    <2>2. CASE ~IsAtlas(r)
      <3>1. Keepers(object', x) = Keepers(object, x)
        BY <1>7, <1>10, <1>12, <2>2, KeepersSame
      <3>2. Keeping(object, x) \in Nat
        BY <1>9, KeepersNat
      <3> QED
        BY <2>2, <3>1, <3>2 DEF inject, Keeping, Bit
    <2> QED
      BY <2>1, <2>2
  <1>14. got = Null
    BY <1>1, <1>2, Silent DEF Giving, Waiting
  <1> DEFINE s == <<>>
  <1>15. s \in Seq(CallType) /\ DOMAIN s = {} /\ Then(s) /\ s = <<>> /\ \A x : Owed(s, x) = 0
    BY <1>5, OwedEmpty
  <1> HIDE DEF s
  <1>16. ASSUME NEW x \in DOMAIN object
         PROVE  object'[x].mRefCount + Kept(x) + Bit(got = x)
                  = object[x].mRefCount + Kept(x)' + Bit(got' = x) + Owed(s, x)
    <2>1. PICK n \in Nat, h \in Nat, o \in Nat, k \in Nat, b \in Nat :
            /\ n = object[x].mRefCount /\ h = held[x] /\ o = Holding(object, x)
            /\ k = Keeping(object, x) /\ b = Bit(object[x].mProtected)
      BY <1>1, CountsNat, Counted
    <2>2. Kept(x) = h + o + k + b
      BY <2>1 DEF Kept
    <2>3. Kept(x)' = h + o + (k + Bit(x \in inject)) + b
      BY <1>5, <1>8, <1>11, <1>13, <2>1 DEF Kept, Holding
    <2>4. Bit(got = x) = 0 /\ Bit(got' = x) = Bit(x = r) /\ Owed(s, x) = 0
      BY <1>5, <1>14, <1>15, CountsNat, ResFacts DEF Bit
    <2>5. object'[x].mRefCount = n + Bit(x \in inject) + Bit(x = r)
      BY <1>6, <1>8, <2>1 DEF Bit
    <2>6. Bit(x \in inject) \in Nat /\ Bit(x = r) \in Nat
      BY DEF Bit
    <2>7. PICK u \in Nat, v \in Nat : u = Bit(x \in inject) /\ v = Bit(x = r)
      BY <2>6
    <2>8. (n + u + v) + (h + o + k + b) + 0 = n + (h + o + (k + u) + b) + v + 0
      OBVIOUS
    <2> QED
      BY <2>1, <2>2, <2>3, <2>4, <2>5, <2>7, <2>8
  <1>17. /\ DOMAIN mOrphanedResources' = DOMAIN mOrphanedResources \ {Id(r)}
         /\ SubMap(mOrphanedResources', mOrphanedResources)
    BY <1>5, WithoutIs DEF SubMap
  <1>18. \A i \in DOMAIN Injected(object, r) :
           /\ IsAtlas(r) /\ Injected(object, r)[i] \in inject /\ Id(Injected(object, r)[i]) = i
    <2>1. CASE IsAtlas(r)
      BY <1>4, <2>1, HoldsOnce, InjectedIs DEF inject
    <2>2. CASE ~IsAtlas(r)
      BY <2>2, EmptyMap DEF Injected
    <2> QED
      BY <2>1, <2>2
  <1>19. PICK f : f = Injected(object, r)
    OBVIOUS
  <1>20. \A i \in DOMAIN f : /\ f[i] \in DOMAIN object /\ Part(f[i]) /\ Id(f[i]) \in Pixels
                             /\ f[i] \in inject /\ Id(f[i]) = i /\ IsAtlas(r)
    BY <1>6, <1>18, <1>19
  <1>21. /\ DOMAIN mResources' = DOMAIN f \cup DOMAIN mResources \cup {Id(r)}
         /\ \A i \in DOMAIN f : mResources'[i] = f[i]
         /\ Id(r) \notin DOMAIN f => mResources'[Id(r)] = r
         /\ \A i \in DOMAIN mResources : i \notin DOMAIN f => mResources'[i] = mResources[i]
    <2> DEFINE g == With(mResources, Id(r), r)
    <2>1. /\ DOMAIN g = DOMAIN mResources \cup {Id(r)} /\ g[Id(r)] = r
          /\ \A i \in DOMAIN mResources : i # Id(r) => g[i] = mResources[i]
      BY DEF With
    <2>2. mResources' = Over(f, g)
      BY <1>5, <1>19
    <2>3. /\ DOMAIN Over(f, g) = DOMAIN f \cup DOMAIN g
          /\ \A i \in DOMAIN f : Over(f, g)[i] = f[i]
          /\ \A i \in DOMAIN g : i \notin DOMAIN f => Over(f, g)[i] = g[i]
      BY OverIs
    <2> HIDE DEF g
    <2>4. Id(r) \notin DOMAIN mResources
      BY <1>2, <1>4
    <2> QED
      BY <2>1, <2>2, <2>3, <2>4
  <1>22. \A x \in DOMAIN object : Part(x)' <=> Part(x)
    BY <1>8 DEF Part
  <1>23. CacheGrows
    <2> SUFFICES ASSUME NEW i \in DOMAIN mResources',
                        ~(i \in DOMAIN mResources /\ mResources'[i] = mResources[i])
                 PROVE  \E x \in DOMAIN object' :
                          /\ mResources'[i] = x /\ Id(x) = i /\ object'[x].mRefCount > 0
                          /\ Part(x)' => Keepers(object', x) # {}
                          /\ i \in DOMAIN mOrphanedResources' => Part(x)'
                          /\ x \in mDeletedResources => Part(x)'
      BY DEF CacheGrows
    <2>1. CASE i \in DOMAIN f
      <3>1. PICK x \in DOMAIN object : x = f[i]
        BY <1>20, <2>1
      <3>2. /\ mResources'[i] = x /\ Id(x) = i /\ Part(x)' /\ object'[x].mRefCount > 0
            /\ x \in inject
        BY <1>6, <1>8, <1>20, <1>21, <1>22, <2>1, <3>1
      <3>3. r \in Keepers(object', x)
        BY <1>4, <1>7, <1>8, <3>2 DEF Keepers, inject
      <3> QED
        BY <1>7, <3>2, <3>3
    <2>2. CASE i \notin DOMAIN f
      <3>1. i = Id(r) /\ mResources'[i] = r
        BY <1>21, <2>2
      <3>2. i \notin DOMAIN mOrphanedResources' /\ object'[r].mRefCount > 0
        BY <1>4, <1>8, <1>17, <3>1
      <3> QED
        BY <1>4, <1>7, <1>22, <3>1, <3>2
    <2> QED
      BY <2>1, <2>2
  <1>24. ASSUME NEW x \in DOMAIN object', IsAtlas(x), object'[x].mRefCount > 0
         PROVE  Has(mResources', x)
    <2>1. Id(x) \notin DOMAIN f /\ x \in Res /\ x \in DOMAIN object
      BY <1>7, <1>9, <1>20, <1>24, KindsApart DEF Pixels, IsAtlas, Well
    <2>2. CASE x = r
      BY <1>21, <2>1, <2>2, HasIs
    <2>3. CASE x # r
      <3>1. object[x].mRefCount > 0
        BY <1>12, <1>24, <2>1, <2>3
      <3>2. Id(x) \in DOMAIN mResources /\ mResources[Id(x)] = x
        BY <1>1, <1>24, <2>1, <3>1, HasIs DEF FoundAgain
      <3> QED
        BY <1>21, <2>1, <3>2, HasIs
    <2> QED
      BY <2>2, <2>3
  <1>25. ASSUME NEW i \in DOMAIN mOrphanedResources'
         PROVE  object'[mOrphanedResources[i]] = object[mOrphanedResources[i]]
    <2>1. PICK x : x = mOrphanedResources[i]
      OBVIOUS
    <2>2. x \in DOMAIN object /\ Id(x) = i /\ object[x].mRefCount = 0 /\ i # Id(r)
      BY <1>1, <1>17, <2>1 DEF OrphanRight
    <2>3. x # r /\ x \notin inject
      BY <1>6, <2>2
    <2> QED
      BY <1>7, <2>1, <2>2, <2>3
  <1>26. \A c : Below(c) /\ LoadRight(c) => LoadRight(c)'
    <2>1. DOMAIN mResources' \subseteq DOMAIN mResources \cup Pixels \cup {Top.id}
      BY <1>4, <1>20, <1>21
    <2> QED
      BY <1>1, <1>2, <1>7, <1>17, <2>1, LoadsBelow DEF Loading
  <1>27. \A x \in DOMAIN object :
           /\ object[x].mRefCount > 0 => object'[x].mRefCount > 0
           /\ object'[x].mRefCount = 0 /\ Has(mOrphanedResources, x)
                  => Has(mOrphanedResources', x)
    <2> SUFFICES ASSUME NEW x \in DOMAIN object
                 PROVE  /\ object[x].mRefCount > 0 => object'[x].mRefCount > 0
                        /\ object'[x].mRefCount = 0 /\ Has(mOrphanedResources, x)
                               => Has(mOrphanedResources', x)
      OBVIOUS
    <2>1. object[x].mRefCount > 0 => object'[x].mRefCount > 0
      BY <1>8
    <2>2. ASSUME object'[x].mRefCount = 0, Has(mOrphanedResources, x)
          PROVE  Has(mOrphanedResources', x)
      <3>1. x # r /\ x \in Res
        BY <1>8, <1>9, <2>2 DEF Well
      <3>2. Id(x) \in DOMAIN mOrphanedResources /\ mOrphanedResources[Id(x)] = x
        BY <2>2, <3>1, HasIs
      <3>3. Id(x) # Id(r)
        BY <1>2, <1>3, <1>4, <3>1, <3>2
      <3>4. Id(x) \in DOMAIN mOrphanedResources' /\ mOrphanedResources'[Id(x)] = x
        BY <1>17, <3>2, <3>3 DEF SubMap
      <3> QED
        BY <3>1, <3>4, HasIs
    <2> QED
      BY <2>1, <2>2
  <1>28. \A x \in Res \ DOMAIN object' : Holders(object', x) = {}
    BY <1>1, <1>7, <1>11 DEF NoClaims, Unclaimed
  <1>29. got' \in DOMAIN object' /\ Id(got') = Top.id
    BY <1>4, <1>5, <1>7
  <1> QED
    BY <1>2, <1>5, <1>7, <1>8, <1>9, <1>15, <1>16, <1>17, <1>23, <1>24, <1>25, <1>26, <1>27,
       <1>28, <1>29, LoadStep DEF Loading

\* What is not there is nobody's.
LEMMA NotThere ==
    ASSUME NoClaims, NEW x \in Res, x \notin DOMAIN object
    PROVE  /\ held[x] = 0 /\ got # x /\ Holders(object, x) = {} /\ Keepers(object, x) = {}
           /\ Holding(object, x) = 0 /\ Keeping(object, x) = 0
  <1>1. held[x] = 0 /\ Holders(object, x) = {} /\ got # x
    BY DEF NoClaims, Unclaimed
  <1>2. \A y \in DOMAIN object : \A i \in DOMAIN object[y].holds : object[y].holds[i] # x
    BY <1>1, HoldersEmpty
  <1>3. \A y \in DOMAIN object : x \notin Range(object[y].holds)
    BY <1>2 DEF Range
  <1>4. Keepers(object, x) = {}
    BY <1>3 DEF Keepers
  <1> QED
    BY <1>1, <1>4, FS_EmptySet DEF Holding, Keeping

LEMMA TimesNone ==
    ASSUME NEW S, NEW s \in Seq(S), NEW x, x \notin S
    PROVE  Times(s, x) = 0
  <1>1. \A i \in DOMAIN s : s[i] # x
    OBVIOUS
  <1> QED
    BY <1>1, TimesNat

\* A loader that makes one resource.
LEMMA MakeOne ==
    ASSUME ResourcesInv, calls # <<>>, Top.op \in Loading, NEW s \in Seq(CallType), Then(s),
           \A i \in DOMAIN s : /\ s[i].op = "decRef" /\ s[i].res \in DOMAIN object
                               /\ Id(s[i].res) \in Pixels,
           s # <<>> => Top.op = "newSet",
           NEW r \in Res, r \notin DOMAIN object, Id(r) = Top.id,
           Top.id \notin DOMAIN mResources \cup DOMAIN mOrphanedResources,
           mResources' = With(mResources, Top.id, r), got' = r,
           UNCHANGED <<mOrphanedResources, mDeletedResources, mOldestOrphan, held>>,
           DOMAIN object' = DOMAIN object \cup {r},
           NEW h \in Seq(DOMAIN object), object'[r] \in Record, object'[r].holds = h, HoldsRight(r)',
           Id(r) \notin Textures, Id(r) \in Images \cup Atlases => h = <<>>,
           object'[r].mProtected => Id(r) \in Sprites,
           object'[r].mRefCount = 1 + Bit(object'[r].mProtected),
           \A x \in DOMAIN object :
             /\ object'[x] \in Record
             /\ object'[x].holds = object[x].holds /\ object'[x].mProtected = object[x].mProtected
             /\ object'[x].mRefCount > 0 <=> object[x].mRefCount > 0
             /\ object[x].mRefCount = 0 => object'[x] = object[x]
             /\ object'[x].mRefCount + Bit(got = x) = object[x].mRefCount + Times(h, x) + Owed(s, x)
    PROVE  ResourcesInv'
  <1>1. /\ ObjectsRight /\ StackRight /\ GotRight /\ OrphanRight /\ LoadsRight /\ CacheRight
        /\ NoClaims /\ HeldRight /\ FoundAgain /\ DeletedRight
    BY DEF ResourcesInv
  <1>2. Well(object) /\ Well(object')
    <2>1. IsFiniteSet(DOMAIN object \cup {r})
      BY <1>1, FS_AddElement DEF ObjectsRight
    <2> QED
      BY <1>1, <2>1 DEF ObjectsRight, Well
  <1>3. \A x : /\ Holding(object', x) = Holding(object, x) + Times(h, x)
               /\ Times(h, x) \in Nat
    <2>1. \A y \in DOMAIN object : object'[y].holds = object[y].holds
      OBVIOUS
    <2>2. PICK o : o = object'
      OBVIOUS
    <2>3. /\ Well(o) /\ DOMAIN o = DOMAIN object \cup {r} /\ o[r].holds = h
          /\ \A y \in DOMAIN object : o[y].holds = object[y].holds
      BY <1>2, <2>1, <2>2
    <2>4. \A x : Holding(o, x) = Holding(object, x) + Times(o[r].holds, x)
                 /\ Times(o[r].holds, x) \in Nat
      BY <1>2, <2>3, HoldersNew
    <2> QED
      BY <2>2, <2>3, <2>4
  <1>4. \A x : Keeping(object', x) = Keeping(object, x)
    <2> SUFFICES ASSUME NEW x PROVE Keepers(object', x) = Keepers(object, x)
      BY DEF Keeping
    <2>1. r \notin Keepers(object', x)
      <3>1. IsAtlas(r) => Range(object'[r].holds) = {}
        BY EmptyMap DEF IsAtlas, Range
      <3> QED
        BY <3>1 DEF Keepers
    <2> QED
      BY <2>1 DEF Keepers
  <1>5. \A x : x \notin DOMAIN object => Times(h, x) = 0
    BY TimesNone
  <1>6. \A x \in Res : x \notin DOMAIN object =>
          held[x] = 0 /\ Holding(object, x) = 0 /\ Keeping(object, x) = 0
    BY <1>1, NotThere
  <1>7. \A x \in Res : x \notin DOMAIN object => Holding(object', x) = 0 /\ Keeping(object', x) = 0
    BY <1>3, <1>4, <1>5, <1>6
  <1>8. ASSUME NEW x \in DOMAIN object
        PROVE  object'[x].mRefCount + Kept(x) + Bit(got = x)
                 = object[x].mRefCount + Kept(x)' + Bit(got' = x) + Owed(s, x)
    <2>1. PICK n \in Nat, c \in Nat, o \in Nat, k \in Nat, b \in Nat, t \in Nat, w \in Nat, g \in Nat :
            /\ n = object[x].mRefCount /\ c = held[x] /\ o = Holding(object, x)
            /\ k = Keeping(object, x) /\ b = Bit(object[x].mProtected)
            /\ t = Times(h, x) /\ w = Owed(s, x) /\ g = Bit(got = x)
      BY <1>1, <1>3, CountsNat, Counted, OwedNat
    <2>2. PICK m \in Nat : m = object'[x].mRefCount
      BY <1>2, HoldsSeq
    <2>3. m + g = n + t + w
      BY <2>1, <2>2
    <2>4. Kept(x) = c + o + k + b /\ Kept(x)' = c + (o + t) + k + b
      BY <1>3, <1>4, <2>1 DEF Kept
    <2>5. Bit(got' = x) = 0
      BY DEF Bit
    <2>6. m + (c + o + k + b) + g = n + (c + (o + t) + k + b) + 0 + w
      BY <2>3
    <2> QED
      BY <2>1, <2>2, <2>4, <2>5, <2>6
  <1>9. object'[r].mRefCount = Kept(r)' + Bit(got' = r) + Owed(s, r)
    <2>1. Pending(s, r) = {}
      BY DEF Pending
    <2>2. Owed(s, r) = 0
      BY <2>1, OwedNat
    <2>3. Bit(got' = r) = 1 /\ Bit(object'[r].mProtected) \in Nat /\ held'[r] = 0
      BY <1>6 DEF Bit
    <2>4. Kept(r)' = 0 + 0 + 0 + Bit(object'[r].mProtected)
      BY <1>7, <2>3 DEF Kept
    <2> QED
      BY <2>2, <2>3, <2>4
  <1>10. \A x \in Res \ DOMAIN object' : Holders(object', x) = {}
    BY <1>2, <1>7, HoldersNat
  <1>11. /\ DOMAIN mResources' = DOMAIN mResources \cup {Top.id} /\ mResources'[Top.id] = r
         /\ \A i \in DOMAIN mResources : mResources'[i] = mResources[i]
    BY DEF With
  <1>12. object'[r].mRefCount > 0
    BY DEF Bit
  <1>13. CacheGrows
    <2> SUFFICES ASSUME NEW i \in DOMAIN mResources',
                        ~(i \in DOMAIN mResources /\ mResources'[i] = mResources[i])
                 PROVE  /\ mResources'[i] = r /\ Id(r) = i /\ object'[r].mRefCount > 0
                        /\ Part(r)' => Keepers(object', r) # {}
                        /\ i \in DOMAIN mOrphanedResources' => Part(r)'
                        /\ r \in mDeletedResources => Part(r)'
      BY DEF CacheGrows
    <2>1. i = Top.id
      BY <1>11
    <2>2. ~Part(r)'
      BY DEF Part
    <2>3. r \notin mDeletedResources
      BY <1>1 DEF DeletedRight
    <2> QED
      BY <1>11, <1>12, <2>1, <2>2, <2>3
  <1>14. ASSUME NEW x \in DOMAIN object', IsAtlas(x), object'[x].mRefCount > 0
         PROVE  Has(mResources', x)
    <2>1. CASE x = r
      BY <1>11, <2>1, HasIs
    <2>2. CASE x # r
      <3>1. x \in DOMAIN object /\ x \in Res /\ object[x].mRefCount > 0
        BY <1>2, <1>14, <2>2 DEF Well
      <3>2. Id(x) \in DOMAIN mResources /\ mResources[Id(x)] = x
        BY <1>1, <1>14, <3>1, HasIs DEF FoundAgain
      <3> QED
        BY <1>11, <3>1, <3>2, HasIs
    <2> QED
      BY <2>1, <2>2
  <1>15. SubMap(mOrphanedResources', mOrphanedResources)
    BY DEF SubMap
  <1>16. \A i \in DOMAIN mOrphanedResources' :
           object'[mOrphanedResources[i]] = object[mOrphanedResources[i]]
    BY <1>1 DEF OrphanRight
  <1>17. \A c : Below(c) /\ LoadRight(c) => LoadRight(c)'
    <2>1. DOMAIN mResources' \subseteq DOMAIN mResources \cup Pixels \cup {Top.id}
      BY <1>11
    <2>2. \A x \in DOMAIN object' : x \in DOMAIN object \/ Id(x) \in Pixels \cup {Top.id}
      OBVIOUS
    <2> QED
      BY <1>1, <2>1, <2>2, LoadsBelow
  <1> QED
    BY <1>2, <1>8, <1>9, <1>10, <1>12, <1>13, <1>14, <1>15, <1>16, <1>17, LoadStep

\* A loader knows what it makes, and that there is room for it.
LEMMA MakerIs ==
    ASSUME ResourcesInv, calls # <<>>, Top.op \in Loading
    PROVE  /\ Top.id \in Ids /\ Top.id \in ToMake(Top) /\ \A n \in ToMake(Top) : Room(n) # {}
           /\ Top.op = "newSet" => Top.id \in Sets
           /\ Top.op = "newSprite" => Top.id \in Sprites
           /\ Top.op = "newAtlas" => Top.id \in Atlases
           /\ Top.op # "get" => Top.id \notin DOMAIN mResources \cup DOMAIN mOrphanedResources
           /\ Fresh(Top.id) \in Res /\ Id(Fresh(Top.id)) = Top.id /\ Fresh(Top.id) \notin DOMAIN object
  <1>1. StackRight /\ LoadsRight
    BY DEF ResourcesInv
  <1>2. 1 \in DOMAIN calls /\ calls[1] = Top /\ Top \in CallType
    BY <1>1, TopIs
  <1>3. LoadRight(Top)
    BY <1>1, <1>2 DEF LoadsRight
  <1>4. Top.id \in Ids
    BY <1>2, CallFacts
  <1>5. Top.id \in ToMake(Top)
    BY DEF ToMake, Needed
  <1>6. /\ \A n \in ToMake(Top) : Room(n) # {}
        /\ Top.op = "newSet" => Top.id \in Sets
        /\ Top.op = "newSprite" => Top.id \in Sprites
        /\ Top.op = "newAtlas" => Top.id \in Atlases
        /\ Top.op # "get" => Top.id \notin DOMAIN mResources \cup DOMAIN mOrphanedResources
    BY <1>3 DEF LoadRight
  <1> QED
    BY <1>4, <1>5, <1>6, FreshIs

LEMMA GetImageKeeps ==
    ASSUME ResourcesInv, GetImage
    PROVE  ResourcesInv'
  <1>1. calls # <<>> /\ Top.op = "get" /\ Top.op \in Loading /\ Top.id \in Images
    BY DEF GetImage, Missed, Running, Loading
  <1>2. Top.id \notin DOMAIN mResources \cup DOMAIN mOrphanedResources
    BY DEF GetImage, Missed
  <1>3. PICK r : r = Fresh(Top.id)
    OBVIOUS
  <1>4. r \in Res /\ Id(r) = Top.id /\ r \notin DOMAIN object
    BY <1>1, <1>3, MakerIs
  <1>5. /\ object' = With(object, r, New(1, <<>>)) /\ mResources' = With(mResources, Top.id, r)
        /\ got' = r /\ Then(<<>>)
        /\ UNCHANGED <<mOrphanedResources, mDeletedResources, mOldestOrphan, held>>
    BY <1>3 DEF GetImage, Created
  <1>6. /\ DOMAIN object' = DOMAIN object \cup {r} /\ object'[r] = New(1, <<>>)
        /\ \A x \in DOMAIN object : object'[x] = object[x]
    BY <1>4, <1>5 DEF With
  <1> DEFINE s == <<>>
             h == <<>>
  <1>7. s \in Seq(CallType) /\ DOMAIN s = {} /\ Then(s) /\ s = <<>> /\ \A x : Owed(s, x) = 0
    BY <1>5, OwedEmpty
  <1>8. h \in Seq(DOMAIN object) /\ h = <<>> /\ \A x : Times(h, x) = 0
    <2>1. h \in Seq(DOMAIN object) /\ DOMAIN h = {}
      OBVIOUS
    <2> HIDE DEF h
    <2>2. \A x : Times(h, x) = 0
      BY <2>1, TimesNat
    <2> QED
      BY <2>1, <2>2 DEF h
  <1>9. /\ New(1, <<>>) \in Record /\ New(1, <<>>).holds = <<>>
        /\ New(1, <<>>).mProtected = FALSE /\ New(1, <<>>).mRefCount = 1
    BY ResourcesAssumption DEF New, Record, Ages
  <1>10. /\ object'[r] \in Record /\ object'[r].holds = h /\ ~object'[r].mProtected
         /\ object'[r].mRefCount = 1 + Bit(object'[r].mProtected)
    BY <1>6, <1>9 DEF Bit
  <1>11. Id(r) \notin Textures /\ Id(r) \notin Sets \cup Sprites \cup Atlases
    BY <1>1, <1>4, KindsApart
  <1>12. HoldsRight(r)'
    BY <1>10, <1>11 DEF HoldsRight, IsAtlas
  <1>13. ASSUME NEW x \in DOMAIN object
         PROVE  /\ object'[x] = object[x] /\ object'[x] \in Record
                /\ object'[x].mRefCount + Bit(got = x)
                     = object[x].mRefCount + Times(h, x) + Owed(s, x)
    <2>1. got = Null
      BY <1>1, Silent DEF Giving, Waiting, ResourcesInv
    <2>2. object'[x] = object[x] /\ object[x].mRefCount \in Nat /\ object[x] \in Record /\ Bit(got = x) = 0
      BY <1>6, <2>1, CountsNat, ResFacts DEF Bit
    <2> QED
      BY <1>7, <1>8, <2>2
  <1> HIDE DEF s, h
  <1>14. \A x \in DOMAIN object :
           /\ object'[x] \in Record
           /\ object'[x].holds = object[x].holds /\ object'[x].mProtected = object[x].mProtected
           /\ object'[x].mRefCount > 0 <=> object[x].mRefCount > 0
           /\ object[x].mRefCount = 0 => object'[x] = object[x]
           /\ object'[x].mRefCount + Bit(got = x) = object[x].mRefCount + Times(h, x) + Owed(s, x)
    BY <1>13
  <1>15. UNCHANGED <<mOrphanedResources, mDeletedResources, mOldestOrphan, held>>
    BY <1>5
  <1> QED
    BY ZenonT(60), <1>1, <1>2, <1>4, <1>5, <1>6, <1>7, <1>8, <1>10, <1>11, <1>12, <1>14, <1>15, MakeOne

\* The resource that was got is there, and it is what the innermost call waits for.
LEMMA GotIs ==
    ASSUME ResourcesInv, calls # <<>>, Top.op \in {"newSet", "newSprite"}
    PROVE  /\ got \in Res \cup {Null}
           /\ got # Null => /\ got \in Res /\ got \in DOMAIN object /\ Fits(Id(got), Top)
                            /\ object[got].mRefCount > 0
  <1>1. /\ ObjectsRight /\ HeldRight /\ StackRight /\ CountsRight /\ NoClaims /\ GotRight
    BY DEF ResourcesInv
  <1>2. got \in Res \cup {Null}
    BY <1>1 DEF GotRight
  <1>3. 1 \in DOMAIN calls /\ calls[1] = Top
    BY <1>1, TopIs
  <1>4. Answered(Top)
    BY <1>1, <1>3 DEF GotRight, Waiting
  <1>5. ASSUME got # Null PROVE object[got].mRefCount > 0 /\ got \in DOMAIN object
    <2>1. PICK r \in Res : r = got
      BY <1>2, <1>5
    <2>2. r \in DOMAIN object /\ object[r].mRefCount = Claims(r)
      BY <1>1, <2>1, Referred
    <2>3. Kept(r) \in Nat /\ Owed(calls, r) \in Nat /\ Bit(got = r) = 1
      BY <1>1, <2>1, Counted DEF Bit
    <2>4. PICK k \in Nat, w \in Nat : k = Kept(r) /\ w = Owed(calls, r)
      BY <2>3
    <2>5. k + w + 1 > 0
      OBVIOUS
    <2> QED
      BY <2>1, <2>2, <2>3, <2>4, <2>5 DEF Claims
  <1> QED
    BY <1>2, <1>4, <1>5 DEF Answered

LEMMA NewSpriteKeeps ==
    ASSUME ResourcesInv, NewSprite
    PROVE  ResourcesInv'
  <1>1. calls # <<>> /\ Top.op = "newSprite" /\ Top.op \in Loading
    BY DEF NewSprite, Running, Loading
  <1>2. Top.id \notin DOMAIN mResources \cup DOMAIN mOrphanedResources /\ Top.id \in Sprites
    BY <1>1, MakerIs
  <1>3. PICK r : r = Fresh(Top.id)
    OBVIOUS
  <1>4. r \in Res /\ Id(r) = Top.id /\ r \notin DOMAIN object
    BY <1>1, <1>3, MakerIs
  <1>5. PICK h : h = IF got = Null THEN <<>> ELSE <<got>>
    OBVIOUS
  <1>6. PICK new : new = [New(IF LongLived THEN 2 ELSE 1, h) EXCEPT !.mProtected = LongLived]
    OBVIOUS
  <1>7. /\ object' = With(object, r, new) /\ mResources' = With(mResources, Top.id, r)
        /\ got' = r /\ Then(<<>>)
        /\ UNCHANGED <<mOrphanedResources, mDeletedResources, mOldestOrphan, held>>
    BY <1>3, <1>5, <1>6 DEF NewSprite, Created
  <1>8. /\ DOMAIN object' = DOMAIN object \cup {r} /\ object'[r] = new
        /\ \A x \in DOMAIN object : object'[x] = object[x]
    BY <1>4, <1>7 DEF With
  <1> DEFINE s == <<>>
  <1>9. s \in Seq(CallType) /\ DOMAIN s = {} /\ Then(s) /\ s = <<>> /\ \A x : Owed(s, x) = 0
    BY <1>7, OwedEmpty
  <1>10. /\ got = Null => h = <<>> /\ DOMAIN h = {}
         /\ got # Null => /\ got \in DOMAIN object /\ got \in Res /\ Id(got) \in Sets
                          /\ h = <<got>> /\ DOMAIN h = {1} /\ h[1] = got
    <2>1. got = Null => h = <<>> /\ DOMAIN h = {}
      BY <1>5
    <2>2. got # Null => got \in DOMAIN object /\ got \in Res /\ Id(got) \in Sets
      BY <1>1, GotIs DEF Fits
    <2>3. got # Null => h = <<got>> /\ DOMAIN h = {1} /\ h[1] = got
      BY <1>5
    <2> QED
      BY <2>1, <2>2, <2>3
  <1>11. h \in Seq(DOMAIN object) /\ h \in Seq(Res)
    <2>1. CASE got = Null
      <3>1. h = <<>>
        BY <1>10, <2>1
      <3> QED
        BY <3>1
    <2>2. CASE got # Null
      <3>1. h = <<got>> /\ got \in DOMAIN object /\ got \in Res
        BY <1>10, <2>2
      <3> QED
        BY <3>1
    <2> QED
      BY <2>1, <2>2
  <1>12. ASSUME NEW x \in DOMAIN object PROVE Times(h, x) = Bit(got = x)
    <2>1. x # Null
      BY CountsNat, ResFacts
    <2>2. \A i, j \in DOMAIN h : h[i] = h[j] => i = j
      BY <1>10
    <2>3. Times(h, x) = IF \E i \in DOMAIN h : h[i] = x THEN 1 ELSE 0
      BY <1>11, <2>2, TimesOnce
    <2>4. (\E i \in DOMAIN h : h[i] = x) <=> got = x
      BY <1>10, <2>1
    <2> QED
      BY <2>3, <2>4 DEF Bit
  <1>13. /\ new \in Record /\ new.holds = h /\ new.mProtected = LongLived
         /\ new.mRefCount = 1 + Bit(new.mProtected)
    <2>1. LongLived \in BOOLEAN /\ 0 \in Ages
      BY ResourcesAssumption DEF Ages
    <2>2. new = [mRefCount |-> IF LongLived THEN 2 ELSE 1, mTimeStamp |-> 0,
                 mProtected |-> LongLived, holds |-> h]
      BY <1>6 DEF New
    <2>3. new \in Record
      BY <1>11, <2>1, <2>2 DEF Record
    <2> QED
      BY <2>1, <2>2, <2>3 DEF Bit
  <1>14. Id(r) \notin Textures /\ Id(r) \notin Images \cup Sets \cup Atlases /\ Id(r) \in Sprites
    BY <1>2, <1>4, KindsApart
  <1>15. HoldsRight(r)'
    BY <1>8, <1>10, <1>13, <1>14 DEF HoldsRight, IsAtlas
  <1> HIDE DEF s
  <1>16. \A x \in DOMAIN object :
           /\ object'[x] \in Record
           /\ object'[x].holds = object[x].holds /\ object'[x].mProtected = object[x].mProtected
           /\ object'[x].mRefCount > 0 <=> object[x].mRefCount > 0
           /\ object[x].mRefCount = 0 => object'[x] = object[x]
           /\ object'[x].mRefCount + Bit(got = x) = object[x].mRefCount + Times(h, x) + Owed(s, x)
    <2> TAKE x \in DOMAIN object
    <2>1. PICK n \in Nat, b \in Nat : n = object[x].mRefCount /\ b = Bit(got = x)
      BY CountsNat
    <2>2. object'[x] = object[x] /\ object[x] \in Record
      BY <1>8, CountsNat
    <2>3. Times(h, x) = b /\ Owed(s, x) = 0 /\ n + b = n + b + 0
      BY <1>9, <1>12, <2>1
    <2> QED
      BY <2>1, <2>2, <2>3
  <1>17. /\ object'[r].mProtected => Id(r) \in Sprites
         /\ object'[r].mRefCount = 1 + Bit(object'[r].mProtected)
    BY <1>8, <1>13, <1>14
  <1>18. UNCHANGED <<mOrphanedResources, mDeletedResources, mOldestOrphan, held>>
    BY <1>7
  <1>19. Id(r) \in Images \cup Atlases => h = <<>>
    BY <1>14
  <1>20. object'[r] \in Record /\ object'[r].holds = h
    BY <1>8, <1>13
  <1>21. /\ mResources' = With(mResources, Top.id, r) /\ got' = r
         /\ DOMAIN object' = DOMAIN object \cup {r}
    BY <1>7, <1>8
  <1> QED
    BY ZenonT(60), <1>1, <1>2, <1>4, <1>9, <1>11, <1>14, <1>15, <1>16, <1>17, <1>18, <1>19, <1>20, <1>21,
       MakeOne

LEMMA TimesAll ==
    ASSUME NEW n \in Nat, NEW b, NEW h, DOMAIN h = 1 .. n, \A i \in DOMAIN h : h[i] = b, NEW x
    PROVE  Times(h, x) = IF x = b THEN n ELSE 0
  <1>1. CASE x = b
    <2>1. {i \in DOMAIN h : h[i] = x} = 1 .. n
      BY <1>1
    <2>2. Cardinality(1 .. n) = n
      BY FS_Interval
    <2> QED
      BY <1>1, <2>1, <2>2 DEF Times
  <1>2. CASE x # b
    <2>1. {i \in DOMAIN h : h[i] = x} = {}
      BY <1>2
    <2> QED
      BY <1>2, <2>1, FS_EmptySet DEF Times
  <1> QED
    BY <1>1, <1>2

LEMMA NewSetOfImageKeeps ==
    ASSUME ResourcesInv, NewSet, got # Null
    PROVE  ResourcesInv'
  <1>1. calls # <<>> /\ Top.op = "newSet" /\ Top.op \in Loading
    BY DEF NewSet, Running, Loading
  <1>2. Top.id \notin DOMAIN mResources \cup DOMAIN mOrphanedResources /\ Top.id \in Sets
    BY <1>1, MakerIs
  <1>3. PICK r : r = Fresh(Top.id)
    OBVIOUS
  <1>4. r \in Res /\ Id(r) = Top.id /\ r \notin DOMAIN object
    BY <1>1, <1>3, MakerIs
  <1>5. /\ got \in Res /\ got \in DOMAIN object /\ Id(got) \in Images /\ object[got].mRefCount > 0
    BY <1>1, GotIs DEF Fits
  <1>6. PICK n \in Nat : n = Tiles[Top.id]
    BY <1>2, ResourcesAssumption
  <1>7. PICK b : b = IF object[got].holds = <<>> THEN got ELSE Head(object[got].holds)
    OBVIOUS
  <1>8. /\ b \in DOMAIN object /\ b \in Res /\ Id(b) \in Pixels /\ object[b].mRefCount > 0
    <2>1. CASE object[got].holds = <<>>
      BY <1>5, <1>7, <2>1 DEF Pixels
    <2>2. CASE object[got].holds # <<>>
      <3>1. /\ ObjectsRight /\ NoClaims /\ CountsRight /\ HeldRight /\ StackRight
        BY DEF ResourcesInv
      <3>2. HoldsRight(got) /\ object[got].holds \in Seq(Res)
        BY <1>5, <3>1 DEF ObjectsRight, Record
      <3>3. Len(object[got].holds) = 1 /\ Id(object[got].holds[1]) \in Textures
        BY <1>5, <2>2, <3>2 DEF HoldsRight
      <3>4. 1 \in DOMAIN object[got].holds /\ b = object[got].holds[1]
        BY <1>7, <2>2, <3>2, <3>3
      <3>5. b \in DOMAIN object /\ b \in Res /\ ~Doomed(b) /\ Holders(object, b) # {}
        BY <1>5, <3>1, <3>4, HeldAlive
      <3>6. object[b].mRefCount = Claims(b)
        BY <3>1, <3>5 DEF CountsRight
      <3>7. Claims(b) # 0 /\ Claims(b) \in Nat
        BY <3>1, <3>5, ClaimsCount
      <3>8. object[b].mRefCount > 0
        BY <3>6, <3>7
      <3> QED
        BY <3>3, <3>4, <3>5, <3>8 DEF Pixels
    <2> QED
      BY <2>1, <2>2
  <1>9. PICK h : h = [i \in 1 .. n |-> b]
    OBVIOUS
  <1>10. PICK c : c = Call("decRef", got)
    OBVIOUS
  <1>11. c \in CallType /\ c.op = "decRef" /\ c.res = got
    BY <1>5, <1>10, CallIs
  <1>12. PICK mid : mid = [object EXCEPT ![b].mRefCount = object[b].mRefCount + n]
    OBVIOUS
  <1>13. /\ object' = With(mid, r, New(1, h)) /\ mResources' = With(mResources, Top.id, r)
         /\ got' = r /\ Then(<<c>>)
         /\ UNCHANGED <<mOrphanedResources, mDeletedResources, mOldestOrphan, held>>
    BY <1>3, <1>6, <1>7, <1>9, <1>10, <1>12 DEF NewSet, Created
  <1>14. /\ DOMAIN object' = DOMAIN object \cup {r} /\ object'[r] = New(1, h)
         /\ \A x \in DOMAIN object : object'[x] = mid[x]
    BY <1>4, <1>12, <1>13 DEF With
  <1>15. /\ DOMAIN h = 1 .. n /\ \A i \in DOMAIN h : h[i] = b
         /\ h \in Seq(DOMAIN object) /\ h \in Seq(Res)
    BY <1>8, <1>9
  <1>16. /\ New(1, h) \in Record /\ New(1, h).holds = h
         /\ New(1, h).mProtected = FALSE /\ New(1, h).mRefCount = 1
    BY <1>15, ResourcesAssumption DEF New, Record, Ages
  <1>17. /\ Id(r) \notin Textures /\ Id(r) \notin Images \cup Sprites \cup Atlases
         /\ Id(r) \in Sets
    BY <1>2, <1>4, KindsApart
  <1>18. /\ object'[r] \in Record /\ object'[r].holds = h /\ ~object'[r].mProtected
         /\ object'[r].mRefCount = 1 + Bit(object'[r].mProtected)
    BY <1>14, <1>16 DEF Bit
  <1>19. HoldsRight(r)'
    BY <1>8, <1>15, <1>17, <1>18 DEF HoldsRight, IsAtlas
  <1> DEFINE s == <<c>>
  <1>20. /\ s \in Seq(CallType) /\ DOMAIN s = {1} /\ s[1] = c /\ s # <<>> /\ Then(s)
         /\ \A x : Owed(s, x) = Bit(got = x)
    <2>1. \A x : Owed(s, x) = IF Gives(c, x) THEN 1 ELSE 0
      BY <1>11, OneIs
    <2>2. \A x : Gives(c, x) <=> got = x
      BY <1>11 DEF Gives
    <2>3. \A x : Owed(s, x) = Bit(got = x)
      BY <2>1, <2>2 DEF Bit
    <2> QED
      BY <1>11, <1>13, <2>3, OneIs
  <1> HIDE DEF s
  <1>21. \A i \in DOMAIN s : s[i].op = "decRef" /\ s[i].res \in DOMAIN object
                             /\ Id(s[i].res) \in Pixels
    BY <1>5, <1>11, <1>20 DEF Pixels
  <1>22. \A x \in DOMAIN object :
           /\ object'[x] \in Record
           /\ object'[x].holds = object[x].holds /\ object'[x].mProtected = object[x].mProtected
           /\ object'[x].mRefCount > 0 <=> object[x].mRefCount > 0
           /\ object[x].mRefCount = 0 => object'[x] = object[x]
           /\ object'[x].mRefCount + Bit(got = x) = object[x].mRefCount + Times(h, x) + Owed(s, x)
    <2> TAKE x \in DOMAIN object
    <2>1. PICK m \in Nat, g \in Nat : m = object[x].mRefCount /\ g = Bit(got = x)
      BY CountsNat
    <2>2. object[x] \in Record
      BY CountsNat
    <2>3. Owed(s, x) = g /\ Times(h, x) = IF x = b THEN n ELSE 0
      <3>1. Times(h, x) = IF x = b THEN n ELSE 0
        BY <1>6, <1>15, TimesAll
      <3> QED
        BY <1>20, <2>1, <3>1
    <2>4. CASE x = b
      <3>1. object'[x] = [object[x] EXCEPT !.mRefCount = m + n]
        BY <1>12, <1>14, <2>1, <2>4
      <3>2. /\ object'[x].mRefCount = m + n /\ object'[x].holds = object[x].holds
            /\ object'[x].mProtected = object[x].mProtected /\ object'[x] \in Record
        BY <2>2, <3>1 DEF Record
      <3>3. m > 0 /\ m + n > 0 /\ m + n + g = m + n + g
        BY <1>8, <2>1, <2>4
      <3> QED
        BY <2>1, <2>3, <2>4, <3>2, <3>3
    <2>5. CASE x # b
      <3>1. object'[x] = object[x]
        BY <1>12, <1>14, <2>5
      <3> QED
        BY <2>1, <2>2, <2>3, <2>5, <3>1
    <2> QED
      BY <2>4, <2>5
  <1>23. UNCHANGED <<mOrphanedResources, mDeletedResources, mOldestOrphan, held>>
    BY <1>13
  <1> QED
    BY <1>1, <1>2, <1>4, <1>13, <1>14, <1>15, <1>17, <1>18, <1>19, <1>20, <1>21, <1>22, <1>23,
       MakeOne

LEMMA NewSetKeeps ==
    ASSUME ResourcesInv, NewSet
    PROVE  ResourcesInv'
  BY NewSetOfNothingKeeps, NewSetOfImageKeeps

\* The pieces of an atlas, its textures and their parts, when they are new.
AllNew(h) ==
    /\ h \in Seq(Res)
    /\ \A i \in DOMAIN h : Id(h[i]) \in Textures \cup (Images \ Wallpapers)
    /\ h # <<>> => IsTexture(h[Len(h)])
    /\ \A i, j \in DOMAIN h : h[i] = h[j] => i = j
    /\ \A i \in DOMAIN h : h[i] \notin DOMAIN object

Users(h, i) == {j \in DOMAIN h : Texture(h, j) = i}

LEMMA AllNewIs ==
    ASSUME NEW h, AllNew(h), NEW i \in DOMAIN h
    PROVE  /\ h[i] \in Res /\ h[i] \notin DOMAIN object /\ Id(h[i]) \in Pixels \ Wallpapers
           /\ ~IsAtlas(h[i]) /\ (~IsTexture(h[i]) => Id(h[i]) \in Images)
           /\ Texture(h, i) \in DOMAIN h /\ IsTexture(h[Texture(h, i)])
           /\ IsTexture(h[i]) => Texture(h, i) = i
           /\ Cardinality(Users(h, i)) \in Nat
  <1>1. PICK n \in Nat : n = Len(h) /\ DOMAIN h = 1 .. n /\ h \in Seq(Res)
    BY DEF AllNew
  <1>2. Id(h[i]) \in Textures \cup (Images \ Wallpapers) /\ h[i] \in Res /\ h[i] \notin DOMAIN object
    BY <1>1 DEF AllNew
  <1>3. Id(h[i]) \in Pixels \ Wallpapers /\ ~IsAtlas(h[i]) /\ (~IsTexture(h[i]) => Id(h[i]) \in Images)
    BY <1>2, KindsApart DEF Pixels, IsAtlas, IsTexture
  <1>4. /\ Texture(h, i) \in DOMAIN h /\ IsTexture(h[Texture(h, i)])
        /\ IsTexture(h[i]) => Texture(h, i) = i
    BY <1>1, TextureIs DEF AllNew
  <1>5. IsFiniteSet(1 .. n)
    BY FS_Interval
  <1>6. IsFiniteSet(Users(h, i))
    <2>1. Users(h, i) \subseteq 1 .. n
      BY <1>1 DEF Users
    <2> QED
      BY <1>5, <2>1, FS_Subset
  <1>7. Cardinality(Users(h, i)) \in Nat
    BY <1>6, FS_CardinalityType
  <1> QED
    BY <1>2, <1>3, <1>4, <1>7

\* New resources for a layout are that.
LEMMA PiecesAre ==
    ASSUME NEW id \in Atlases, NEW s \in Layouts[id], NEW h \in Pieces(s)
    PROVE  AllNew(h)
  <1>1. s \in Seq(Range(FilesOf[id]) \cup Textures) /\ (s # <<>> => Last(s) \in Textures)
    BY ResourcesAssumption DEF Layout
  <1>2. PICK n \in Nat : n = Len(s) /\ DOMAIN s = 1 .. n
    BY <1>1
  <1>3. PICK k \in [1 .. n -> 1 .. Copies] : h = [i \in 1 .. n |-> <<s[i], k[i]>>]
    BY <1>2 DEF Pieces
  <1>4. IsInjective(h) /\ \A i \in 1 .. n : ~Alive(h[i])
    BY <1>2 DEF Pieces
  <1>5. ASSUME NEW i \in 1 .. n
        PROVE  /\ h[i] = <<s[i], k[i]>> /\ Id(h[i]) = s[i] /\ h[i] \in Res
               /\ s[i] \in Textures \cup (Images \ Wallpapers)
    <2>1. s[i] \in Range(FilesOf[id]) \cup Textures
      BY <1>1, <1>2
    <2>2. s[i] \in Textures \cup (Images \ Wallpapers)
      BY <2>1, AtlasFacts
    <2>3. h[i] = <<s[i], k[i]>> /\ k[i] \in 1 .. Copies
      BY <1>3
    <2>4. s[i] \in Ids
      BY <2>2 DEF Ids
    <2> QED
      BY <2>2, <2>3, <2>4 DEF Id, Res
  <1>6. h \in Seq(Res) /\ Len(h) = n /\ DOMAIN h = 1 .. n
    <2>1. h = [i \in 1 .. n |-> h[i]]
      BY <1>3
    <2>2. \A i \in 1 .. n : h[i] \in Res
      BY <1>5
    <2> QED
      BY <2>1, <2>2
  <1>7. h # <<>> => IsTexture(h[Len(h)])
    <2> SUFFICES ASSUME h # <<>> PROVE Id(h[n]) \in Textures
      BY <1>6 DEF IsTexture
    <2>1. n \in 1 .. n
      BY <1>6
    <2>2. s # <<>> /\ Last(s) = s[n]
      BY <1>2, <2>1 DEF Last
    <2> QED
      BY <1>1, <1>5, <2>1, <2>2
  <1>8. \A i, j \in DOMAIN h : h[i] = h[j] => i = j
    BY <1>4 DEF IsInjective
  <1> QED
    BY <1>4, <1>5, <1>6, <1>7, <1>8 DEF AllNew, Alive

\* What there is when an atlas a has been made of the pieces h.
Made(h, a) ==
    /\ DOMAIN object' = DOMAIN object \cup {h[i] : i \in DOMAIN h} \cup {a}
    /\ \A x \in DOMAIN object : object'[x] = object[x]
    /\ object'[a] = New(1, h)
    /\ \A i \in DOMAIN h :
         object'[h[i]] = IF IsTexture(h[i]) THEN New(Cardinality(Users(h, i)) + 1, <<>>)
                                            ELSE New(2, <<h[Texture(h, i)]>>)

LEMMA NewIs ==
    ASSUME NEW c \in Nat, NEW g
    PROVE  /\ New(c, g).holds = g /\ New(c, g).mRefCount = c /\ New(c, g).mProtected = FALSE
           /\ g \in Seq(Res) => New(c, g) \in Record
  <1>1. New(c, g).holds = g /\ New(c, g).mRefCount = c /\ New(c, g).mProtected = FALSE
    BY DEF New
  <1>2. ASSUME g \in Seq(Res) PROVE New(c, g) \in Record
    BY <1>2, ResourcesAssumption DEF New, Record, Ages
  <1> QED
    BY <1>1, <1>2

LEMMA NewMore ==
    ASSUME NEW c, NEW d, NEW g, NEW old, old = New(c, g)
    PROVE  [old EXCEPT !.mRefCount = d] = New(d, g)
  <1>1. PICK p : p = FALSE
    OBVIOUS
  <1>2. old = [mRefCount |-> c, mTimeStamp |-> 0, mProtected |-> p, holds |-> g]
    BY <1>1 DEF New
  <1>3. [old EXCEPT !.mRefCount = d]
          = [mRefCount |-> d, mTimeStamp |-> 0, mProtected |-> p, holds |-> g]
    BY <1>2
  <1> QED
    BY <1>1, <1>3 DEF New

\* How convertAtlas makes it: the pieces, then the atlas.
Laid(h, a, leaves, made) ==
    /\ DOMAIN leaves = Range(h) /\ \A i \in DOMAIN h : leaves[h[i]] = Piece(h, i)
    /\ made = With(Over(leaves, object), a, New(0, h))
    /\ object' = IncRef(made, a)

LEMMA MadeIs ==
    ASSUME NEW h, AllNew(h), NEW a, IsAtlas(a), a \notin DOMAIN object, NEW leaves, NEW made,
           Laid(h, a, leaves, made)
    PROVE  Made(h, a) /\ made[a].holds = h /\ made[a].mRefCount = 0
  <1>1. /\ DOMAIN leaves = Range(h) /\ \A i \in DOMAIN h : leaves[h[i]] = Piece(h, i)
        /\ made = With(Over(leaves, object), a, New(0, h)) /\ object' = IncRef(made, a)
    BY DEF Laid
  <1>2. \A i \in DOMAIN h : h[i] # a /\ h[i] \notin DOMAIN object
    BY AllNewIs
  <1>3. PICK P : P = Range(h)
    OBVIOUS
  <1>4. P = {h[i] : i \in DOMAIN h}
    BY <1>3 DEF Range
  <1>5. /\ DOMAIN made = P \cup DOMAIN object \cup {a} /\ made[a] = New(0, h)
        /\ \A i \in DOMAIN h : made[h[i]] = Piece(h, i)
        /\ \A x \in DOMAIN object : made[x] = object[x]
    <2>1. PICK mid : mid = Over(leaves, object)
      OBVIOUS
    <2>2. /\ DOMAIN mid = P \cup DOMAIN object
          /\ \A i \in DOMAIN h : mid[h[i]] = Piece(h, i)
          /\ \A x \in DOMAIN object : mid[x] = object[x]
      <3>1. /\ DOMAIN mid = DOMAIN leaves \cup DOMAIN object
            /\ \A x \in DOMAIN leaves : mid[x] = leaves[x]
            /\ \A x \in DOMAIN object : x \notin DOMAIN leaves => mid[x] = object[x]
        BY <2>1 DEF Over
      <3>2. \A x \in DOMAIN object : x \notin P
        BY <1>2, <1>4
      <3>3. DOMAIN leaves = P /\ \A i \in DOMAIN h : h[i] \in P
        BY <1>1, <1>3, <1>4
      <3>4. \A i \in DOMAIN h : mid[h[i]] = Piece(h, i)
        BY <1>1, <3>1, <3>3
      <3> QED
        BY <3>1, <3>2, <3>3, <3>4
    <2>3. /\ DOMAIN made = DOMAIN mid \cup {a} /\ made[a] = New(0, h)
          /\ \A x \in DOMAIN mid : x # a => made[x] = mid[x]
      <3>1. PICK v : v = New(0, h)
        OBVIOUS
      <3>2. made = With(mid, a, v)
        BY <1>1, <2>1, <3>1
      <3> QED
        BY <3>1, <3>2 DEF With
    <2>4. \A i \in DOMAIN h : h[i] \in DOMAIN mid
      BY <1>4, <2>2
    <2>5. \A x \in DOMAIN object : x \in DOMAIN mid /\ x # a
      BY <2>2
    <2>6. ASSUME NEW i \in DOMAIN h PROVE made[h[i]] = Piece(h, i)
      <3>1. made[h[i]] = mid[h[i]]
        BY <1>2, <2>3, <2>4
      <3> QED
        BY <2>2, <3>1
    <2>7. \A x \in DOMAIN object : made[x] = object[x]
      BY <2>2, <2>3, <2>5
    <2>8. DOMAIN made = P \cup DOMAIN object \cup {a} /\ made[a] = New(0, h)
      BY ONLY <2>2, <2>3
    <2>9. \A i \in DOMAIN h : made[h[i]] = Piece(h, i)
      BY <2>6
    <2> QED
      BY <2>7, <2>8, <2>9, Zenon
  <1>6. made[a].holds = h /\ made[a].mRefCount = 0
    <2>1. New(0, h).holds = h /\ New(0, h).mRefCount = 0
      BY DEF New
    <2> QED
      BY <1>5, <2>1
  <1>7. /\ DOMAIN object' = DOMAIN made
        /\ \A x \in DOMAIN made :
             object'[x] = IF x = a \/ x \in P
                          THEN [made[x] EXCEPT !.mRefCount = made[x].mRefCount + 1] ELSE made[x]
    BY <1>1, <1>3, <1>6 DEF IncRef
  <1>8. DOMAIN object' = DOMAIN object \cup {h[i] : i \in DOMAIN h} \cup {a}
    BY <1>4, <1>5, <1>7
  <1>9. \A x \in DOMAIN object : object'[x] = object[x]
    <2> TAKE x \in DOMAIN object
    <2>1. x \in DOMAIN made /\ made[x] = object[x] /\ x # a /\ x \notin P
      BY <1>2, <1>4, <1>5
    <2> QED
      BY <1>7, <2>1
  <1>10. ASSUME NEW x \in DOMAIN made, x = a \/ x \in P, NEW c \in Nat, NEW d, NEW g,
                made[x] = New(c, g), d = c + 1
         PROVE  object'[x] = New(d, g)
    <2>1. PICK old : old = made[x]
      OBVIOUS
    <2>2. old.mRefCount + 1 = d
      <3>1. New(c, g).mRefCount = c
        BY NewIs
      <3>2. old = New(c, g)
        BY <1>10, <2>1
      <3> QED
        BY <1>10, <3>1, <3>2
    <2>3. object'[x] = [old EXCEPT !.mRefCount = d]
      BY <1>7, <1>10, <2>1, <2>2
    <2>4. [old EXCEPT !.mRefCount = d] = New(d, g)
      BY <1>10, <2>1, NewMore
    <2> QED
      BY <2>3, <2>4
  <1>11. object'[a] = New(1, h)
    <2>1. a \in DOMAIN made /\ made[a] = New(0, h) /\ 0 \in Nat /\ 1 = 0 + 1
      BY <1>5
    <2> QED
      BY <1>10, <2>1
  <1>12. ASSUME NEW i \in DOMAIN h
         PROVE  object'[h[i]] = IF IsTexture(h[i]) THEN New(Cardinality(Users(h, i)) + 1, <<>>)
                                                   ELSE New(2, <<h[Texture(h, i)]>>)
    <2>1. PICK x : x = h[i]
      OBVIOUS
    <2>2. x \in P /\ x \in DOMAIN made /\ made[x] = Piece(h, i)
      BY <1>4, <1>5, <2>1
    <2>3. CASE IsTexture(x)
      <3>1. PICK c \in Nat : c = Cardinality(Users(h, i))
        BY AllNewIs
      <3>2. PICK d \in Nat : d = c + 1
        BY <3>1
      <3>3. PICK e : e = <<>>
        OBVIOUS
      <3>4. made[x] = New(c, e)
        BY <2>1, <2>2, <2>3, <3>1, <3>3 DEF Piece, Users
      <3>5. object'[x] = New(d, e)
        BY <1>10, <2>2, <3>1, <3>2, <3>4
      <3> QED
        BY <2>1, <2>3, <3>1, <3>2, <3>3, <3>5
    <2>4. CASE ~IsTexture(x)
      <3>1. PICK q : q = <<h[Texture(h, i)]>>
        OBVIOUS
      <3>2. made[x] = New(1, q)
        BY <2>1, <2>2, <2>4, <3>1 DEF Piece
      <3>3. object'[x] = New(2, q)
        <4>1. 1 \in Nat /\ 2 = 1 + 1
          OBVIOUS
        <4> QED
          BY <1>10, <2>2, <3>2, <4>1
      <3> QED
        BY <2>1, <2>4, <3>1, <3>3
    <2> QED
      BY <2>3, <2>4
  <1> HIDE DEF AllNew, Users
  <1> QED
    BY <1>6, <1>8, <1>9, <1>11, <1>12 DEF Made

\* What the fields of the new pieces are.
LEMMA MadeFields ==
    ASSUME NEW h, AllNew(h), NEW a, Made(h, a)
    PROVE  /\ object'[a].holds = h /\ object'[a].mRefCount = 1 /\ object'[a].mProtected = FALSE
           /\ \A i \in DOMAIN h :
                LET x == h[i]
                IN  /\ object'[x].mProtected = FALSE
                    /\ IsTexture(x) => /\ object'[x].holds = <<>>
                                       /\ object'[x].mRefCount = Cardinality(Users(h, i)) + 1
                    /\ ~IsTexture(x) => /\ object'[x].holds = <<h[Texture(h, i)]>>
                                        /\ object'[x].mRefCount = 2
                    /\ object'[x] \in Record
           /\ a \in Res => object'[a] \in Record
  <1>1. ASSUME NEW x, NEW c \in Nat, NEW g \in Seq(Res), object'[x] = New(c, g)
        PROVE  /\ object'[x].holds = g /\ object'[x].mRefCount = c
               /\ object'[x].mProtected = FALSE /\ object'[x] \in Record
    <2>1. PICK z : z = New(c, g)
      OBVIOUS
    <2>2. z.holds = g /\ z.mRefCount = c /\ z.mProtected = FALSE /\ z \in Record
      BY <2>1, NewIs
    <2>3. object'[x] = z
      BY <1>1, <2>1
    <2> QED
      BY <2>2, <2>3
  <1>2. h \in Seq(Res)
    BY DEF AllNew
  <1>3. /\ object'[a].holds = h /\ object'[a].mRefCount = 1 /\ object'[a].mProtected = FALSE
        /\ object'[a] \in Record
    <2>1. object'[a] = New(1, h) /\ 1 \in Nat
      BY DEF Made
    <2> QED
      BY <1>1, <1>2, <2>1
  <1>4. ASSUME NEW i \in DOMAIN h, NEW x, x = h[i]
        PROVE  /\ object'[x].mProtected = FALSE /\ object'[x] \in Record
               /\ IsTexture(x) => /\ object'[x].holds = <<>>
                                  /\ object'[x].mRefCount = Cardinality(Users(h, i)) + 1
               /\ ~IsTexture(x) => /\ object'[x].holds = <<h[Texture(h, i)]>>
                                   /\ object'[x].mRefCount = 2
    <2>1. CASE IsTexture(x)
      <3> DEFINE n == Cardinality(Users(h, i))
      <3>1. n \in Nat
        BY AllNewIs
      <3> HIDE DEF n
      <3>2. PICK c \in Nat : c = n + 1
        BY <3>1
      <3>3. PICK e \in Seq(Res) : e = <<>>
        <4>1. <<>> \in Seq(Res)
          OBVIOUS
        <4> QED
          BY <4>1
      <3>4. object'[x] = New(c, e)
        BY <1>4, <2>1, <3>2, <3>3 DEF Made, n
      <3>5. /\ object'[x].holds = e /\ object'[x].mRefCount = c
            /\ object'[x].mProtected = FALSE /\ object'[x] \in Record
        BY <1>1, <3>4
      <3> QED
        BY <2>1, <3>2, <3>3, <3>5 DEF n
    <2>2. CASE ~IsTexture(x)
      <3>1. h[Texture(h, i)] \in Res
        <4>1. PICK j : j = Texture(h, i) /\ j \in DOMAIN h
          BY AllNewIs
        <4>2. h[j] \in Res
          BY <4>1, AllNewIs
        <4> QED
          BY <4>1, <4>2
      <3>2. PICK q \in Seq(Res) : q = <<h[Texture(h, i)]>>
        <4>1. PICK y \in Res : y = h[Texture(h, i)]
          BY <3>1
        <4>2. <<y>> \in Seq(Res)
          OBVIOUS
        <4> QED
          BY <4>1, <4>2
      <3>3. object'[x] = New(2, q) /\ 2 \in Nat
        BY <1>4, <2>2, <3>2 DEF Made
      <3>4. /\ object'[x].holds = q /\ object'[x].mRefCount = 2
            /\ object'[x].mProtected = FALSE /\ object'[x] \in Record
        BY <1>1, <3>3
      <3> QED
        BY <2>2, <3>2, <3>4
    <2> QED
      BY <2>1, <2>2
  <1> QED
    BY <1>3, <1>4

\* Who refers to the new pieces: a texture is kept by the parts that were cut from it,
\* and each piece by the atlas.
LEMMA MadeHolders ==
    ASSUME ObjectsRight, NoClaims, NEW h, AllNew(h), NEW a \in Res, IsAtlas(a), a \notin DOMAIN object,
           Made(h, a)
    PROVE  /\ Well(object')
           /\ \A x \in DOMAIN object : Holding(object', x) = Holding(object, x)
           /\ \A i \in DOMAIN h :
                Holding(object', h[i]) = IF IsTexture(h[i]) THEN Cardinality(Users(h, i)) ELSE 1
           /\ \A x \in Res : x \notin DOMAIN object /\ (\A i \in DOMAIN h : x # h[i]) =>
                Holders(object', x) = {}
  <1>1. PICK o : o = object'
    OBVIOUS
  <1>2. PICK n \in Nat : n = Len(h) /\ DOMAIN h = 1 .. n /\ h \in Seq(Res)
    BY DEF AllNew
  <1>3. \A i, j \in DOMAIN h : h[i] = h[j] => i = j
    BY DEF AllNew
  <1>4. ASSUME NEW i \in DOMAIN h
        PROVE  /\ h[i] \in Res /\ h[i] \notin DOMAIN object /\ h[i] # a
               /\ Texture(h, i) \in DOMAIN h /\ IsTexture(h[Texture(h, i)])
               /\ IsTexture(h[i]) => Texture(h, i) = i
    BY AllNewIs
  <1>5. /\ DOMAIN o = DOMAIN object \cup {h[i] : i \in DOMAIN h} \cup {a}
        /\ \A x \in DOMAIN object : o[x] = object[x]
    BY <1>1 DEF Made
  <1>6. /\ o[a].holds = h /\ o[a] \in Record
        /\ \A i \in DOMAIN h : /\ o[h[i]] \in Record
                               /\ IsTexture(h[i]) => o[h[i]].holds = <<>>
                               /\ ~IsTexture(h[i]) => o[h[i]].holds = <<h[Texture(h, i)]>>
    BY <1>1, MadeFields
  <1>7. Well(object)
    BY DEF ObjectsRight, Well
  <1>8. Well(o)
    <2>1. IsFiniteSet(DOMAIN o)
      <3>1. IsFiniteSet({h[i] : i \in DOMAIN h})
        <4> DEFINE S == 1 .. n
                   T == {h[i] : i \in S}
                   f == [i \in S |-> h[i]]
        <4>1. IsFiniteSet(S)
          BY FS_Interval
        <4>2. f \in [S -> T] /\ (\A b \in T : \E i \in S : f[i] = b)
          OBVIOUS
        <4>3. \A i, j \in S : f[i] = f[j] => i = j
          BY <1>2, <1>3
        <4> HIDE DEF S, f
        <4>4. IsFiniteSet(T)
          <5> HIDE DEF T
          <5> QED
            BY <4>1, <4>2, <4>3, SameSize
        <4> QED
          BY <1>2, <4>4 DEF S
      <3>2. IsFiniteSet(DOMAIN object \cup {h[i] : i \in DOMAIN h})
        BY <1>7, <3>1, FS_Union DEF Well
      <3> QED
        BY <1>5, <3>2, FS_AddElement
    <2>2. \A x \in DOMAIN o : o[x] \in Record /\ x \in Res
      BY <1>4, <1>5, <1>6, <1>7 DEF Well
    <2> QED
      BY <2>1, <2>2 DEF Well
  \* A place in a list of what is held is an old one, one of the atlas or one of a part.
  <1>9. ASSUME NEW x, NEW e
        PROVE  e \in Holders(o, x) <=>
                 \/ e \in Holders(object, x)
                 \/ \E i \in DOMAIN h : h[i] = x /\ e = <<a, i>>
                 \/ \E i \in DOMAIN h : /\ ~IsTexture(h[i]) /\ h[Texture(h, i)] = x
                                        /\ e = <<h[i], 1>>
    <2>1. \A f, z : e \in Holders(f, z) <=>
            \E y \in DOMAIN f : \E i \in DOMAIN f[y].holds : f[y].holds[i] = z /\ e = <<y, i>>
      BY DEF Holders
    <2>2. ASSUME NEW y \in DOMAIN o, NEW i \in DOMAIN o[y].holds, o[y].holds[i] = x, e = <<y, i>>
          PROVE  \/ e \in Holders(object, x)
                 \/ \E j \in DOMAIN h : h[j] = x /\ e = <<a, j>>
                 \/ \E j \in DOMAIN h : /\ ~IsTexture(h[j]) /\ h[Texture(h, j)] = x
                                        /\ e = <<h[j], 1>>
      <3>1. CASE y \in DOMAIN object
        <4>1. i \in DOMAIN object[y].holds /\ object[y].holds[i] = x
          BY <1>5, <2>2, <3>1
        <4> QED
          BY <2>1, <2>2, <3>1, <4>1
      <3>2. CASE y = a
        BY <1>6, <2>2, <3>2
      <3>3. ASSUME NEW j \in DOMAIN h, y = h[j]
            PROVE  /\ ~IsTexture(h[j]) /\ h[Texture(h, j)] = x /\ e = <<h[j], 1>>
        <4>1. ~IsTexture(h[j])
          <5> SUFFICES ASSUME IsTexture(h[j]) PROVE FALSE
            OBVIOUS
          <5>1. o[y].holds = <<>>
            BY <1>6, <3>3
          <5> QED
            BY <2>2, <5>1, EmptyMap
        <4>2. PICK t : t = h[Texture(h, j)]
          OBVIOUS
        <4>3. o[y].holds = <<t>>
          BY <1>6, <3>3, <4>1, <4>2
        <4>4. i = 1 /\ x = t
          BY <2>2, <4>3
        <4> QED
          BY <2>2, <3>3, <4>1, <4>2, <4>4
      <3> QED
        BY <1>5, <3>1, <3>2, <3>3
    <2>3. ASSUME e \in Holders(object, x) PROVE e \in Holders(o, x)
      <3>1. PICK y \in DOMAIN object : \E i \in DOMAIN object[y].holds :
                 object[y].holds[i] = x /\ e = <<y, i>>
        BY <2>1, <2>3
      <3>2. y \in DOMAIN o /\ o[y] = object[y]
        BY <1>5
      <3> QED
        BY <2>1, <3>1, <3>2
    <2>4. ASSUME NEW i \in DOMAIN h, h[i] = x, e = <<a, i>> PROVE e \in Holders(o, x)
      <3>1. a \in DOMAIN o /\ i \in DOMAIN o[a].holds /\ o[a].holds[i] = x
        BY <1>5, <1>6, <2>4
      <3> QED
        BY <2>1, <2>4, <3>1
    <2>5. ASSUME NEW i \in DOMAIN h, ~IsTexture(h[i]), h[Texture(h, i)] = x, e = <<h[i], 1>>
          PROVE  e \in Holders(o, x)
      <3>1. h[i] \in DOMAIN o /\ o[h[i]].holds = <<x>>
        BY <1>5, <1>6, <2>5
      <3>2. 1 \in DOMAIN o[h[i]].holds /\ o[h[i]].holds[1] = x
        BY <3>1
      <3> QED
        BY <2>1, <2>5, <3>1, <3>2
    <2>6. ASSUME e \in Holders(o, x)
          PROVE  \/ e \in Holders(object, x)
                 \/ \E j \in DOMAIN h : h[j] = x /\ e = <<a, j>>
                 \/ \E j \in DOMAIN h : /\ ~IsTexture(h[j]) /\ h[Texture(h, j)] = x
                                        /\ e = <<h[j], 1>>
      <3>1. PICK y \in DOMAIN o : \E i \in DOMAIN o[y].holds : o[y].holds[i] = x /\ e = <<y, i>>
        BY <2>1, <2>6
      <3>2. PICK i \in DOMAIN o[y].holds : o[y].holds[i] = x /\ e = <<y, i>>
        BY <3>1
      <3> QED
        BY <2>2, <3>2
    <2> QED
      BY <2>3, <2>4, <2>5, <2>6
  <1>10. \A x \in DOMAIN object : Holders(o, x) = Holders(object, x)
    <2> TAKE x \in DOMAIN object
    <2>1. \A i \in DOMAIN h : h[i] # x /\ h[Texture(h, i)] # x
      BY <1>4
    <2>2. \A e : e \in Holders(o, x) <=> e \in Holders(object, x)
      BY <1>9, <2>1
    <2> HIDE DEF Holders
    <2> QED
      BY <2>2
  <1>11. \A x \in Res : x \notin DOMAIN object => Holders(object, x) = {}
    BY DEF NoClaims, Unclaimed
  <1>12. \A x \in Res : x \notin DOMAIN object /\ (\A i \in DOMAIN h : x # h[i]) =>
           Holders(o, x) = {}
    <2> SUFFICES ASSUME NEW x \in Res, x \notin DOMAIN object, \A i \in DOMAIN h : x # h[i]
                 PROVE  Holders(o, x) = {}
      OBVIOUS
    <2>1. \A i \in DOMAIN h : h[Texture(h, i)] # x
      BY <1>4
    <2>2. \A e : e \notin Holders(o, x)
      BY <1>9, <1>11, <2>1
    <2> HIDE DEF Holders
    <2> QED
      BY <2>2
  <1>13. ASSUME NEW i \in DOMAIN h, ~IsTexture(h[i]) PROVE Holding(o, h[i]) = 1
    <2>1. \A j \in DOMAIN h : h[Texture(h, j)] # h[i]
      BY <1>4, <1>13
    <2>2. \A e : e \in Holders(o, h[i]) <=> e = <<a, i>>
      BY <1>3, <1>4, <1>9, <1>11, <2>1
    <2>3. Holders(o, h[i]) = {<<a, i>>}
      BY <2>2
    <2> QED
      BY <2>3, FS_Singleton DEF Holding
  <1>14. ASSUME NEW i \in DOMAIN h, IsTexture(h[i]) PROVE Holding(o, h[i]) = Cardinality(Users(h, i))
    <2> DEFINE S == Users(h, i)
               T == Holders(o, h[i])
               f == [j \in S |-> IF j = i THEN <<a, i>> ELSE <<h[j], 1>>]
    <2>1. \A j \in S : j \in DOMAIN h /\ Texture(h, j) = i
      BY DEF Users
    <2>2. \A j \in DOMAIN h : h[Texture(h, j)] = h[i] => j \in S
      BY <1>3, <1>4 DEF Users
    <2>3. i \in S
      BY <1>4, <1>14 DEF Users
    <2>4. \A j \in S : j = i \/ ~IsTexture(h[j])
      BY <1>4, <2>1
    <2>5. \A e : e \in T <=> e = <<a, i>> \/ \E j \in S : j # i /\ e = <<h[j], 1>>
      <3> TAKE e
      <3>1. Holders(object, h[i]) = {}
        BY <1>4, <1>11
      <3>2. e \in T <=> \/ \E j \in DOMAIN h : h[j] = h[i] /\ e = <<a, j>>
                        \/ \E j \in DOMAIN h : /\ ~IsTexture(h[j]) /\ h[Texture(h, j)] = h[i]
                                               /\ e = <<h[j], 1>>
        BY <1>9, <3>1
      <3>3. (\E j \in DOMAIN h : h[j] = h[i] /\ e = <<a, j>>) <=> e = <<a, i>>
        BY <1>3
      <3> HIDE DEF S, T
      <3>4. ASSUME NEW j \in DOMAIN h, ~IsTexture(h[j]), h[Texture(h, j)] = h[i]
            PROVE  j \in S /\ j # i
        BY <1>14, <2>2, <3>4
      <3>5. ASSUME NEW j \in S, j # i
            PROVE  j \in DOMAIN h /\ ~IsTexture(h[j]) /\ h[Texture(h, j)] = h[i]
        BY <2>1, <2>4, <3>5
      <3> QED
        BY <3>2, <3>3, <3>4, <3>5
    <2>6. \A j \in S : f[j] = IF j = i THEN <<a, i>> ELSE <<h[j], 1>>
      OBVIOUS
    <2>7. f \in [S -> T]
      <3> HIDE DEF S, T
      <3> QED
        BY <2>5
    <2>8. \A j, k \in S : f[j] = f[k] => j = k
      <3> SUFFICES ASSUME NEW j \in S, NEW k \in S, f[j] = f[k] PROVE j = k
        OBVIOUS
      <3>1. f[j][1] = (IF j = i THEN a ELSE h[j]) /\ f[k][1] = (IF k = i THEN a ELSE h[k])
        BY <2>6
      <3>2. j \in DOMAIN h /\ k \in DOMAIN h /\ h[j] # a /\ h[k] # a
        BY <1>4, <2>1
      <3> HIDE DEF f, S
      <3> QED
        BY <1>3, <3>1, <3>2
    <2> HIDE DEF S, T, f
    <2>9. \A e \in T : \E j \in S : f[j] = e
      <3> SUFFICES ASSUME NEW e \in T PROVE \E j \in S : f[j] = e
        OBVIOUS
      <3>1. CASE e = <<a, i>>
        BY <2>3, <2>6, <3>1
      <3>2. ASSUME NEW j \in S, j # i, e = <<h[j], 1>> PROVE f[j] = e
        BY <2>6, <3>2
      <3> QED
        BY <2>5, <3>1, <3>2
    <2>10. IsFiniteSet(S)
      <3>1. S \subseteq 1 .. n
        BY <1>2, <2>1
      <3>2. IsFiniteSet(1 .. n)
        BY <1>2, FS_Interval
      <3> QED
        BY <3>1, <3>2, FS_Subset
    <2>11. Cardinality(T) = Cardinality(S)
      BY <2>7, <2>8, <2>9, <2>10, SameSize
    <2> QED
      BY <2>11 DEF Holding, T, S
  <1> HIDE DEF Holders, AllNew, Users
  <1> QED
    BY <1>1, <1>8, <1>10, <1>12, <1>13, <1>14 DEF Holding

\* The counters of what is new are right, and what it holds is of the right kinds.
LEMMA MadeRight ==
    ASSUME ObjectsRight, HeldRight, NoClaims, NEW h, AllNew(h), NEW a \in Res, IsAtlas(a),
           a \notin DOMAIN object, Made(h, a), held' = held, got' = a
    PROVE  /\ \A x \in DOMAIN object :
                Holding(object', x) = Holding(object, x) /\ Keeping(object', x) = Keeping(object, x)
           /\ \A x \in DOMAIN object' : x \notin DOMAIN object =>
                /\ HoldsRight(x)' /\ object'[x].mRefCount > 0 /\ ~object'[x].mProtected
                /\ object'[x].mRefCount = Kept(x)' + Bit(got' = x)
           /\ \A i \in DOMAIN h : Part(h[i])' /\ Keepers(object', h[i]) # {}
                                  /\ object'[h[i]].mRefCount > 0
           /\ ~Part(a)' /\ object'[a].mRefCount > 0
  <1>1. h \in Seq(Res)
    BY DEF AllNew
  <1>2. \A i, j \in DOMAIN h : h[i] = h[j] => i = j
    BY DEF AllNew
  <1>3. ASSUME NEW i \in DOMAIN h
        PROVE  /\ h[i] \in Res /\ h[i] \notin DOMAIN object /\ h[i] # a
               /\ Id(h[i]) \in Pixels \ Wallpapers /\ ~IsAtlas(h[i])
               /\ (~IsTexture(h[i]) => Id(h[i]) \in Images)
               /\ Texture(h, i) \in DOMAIN h /\ IsTexture(h[Texture(h, i)])
               /\ Cardinality(Users(h, i)) \in Nat
    BY AllNewIs
  <1>4. /\ DOMAIN object' = DOMAIN object \cup {h[i] : i \in DOMAIN h} \cup {a}
        /\ \A x \in DOMAIN object : object'[x] = object[x]
    BY DEF Made
  <1>5. /\ object'[a].holds = h /\ object'[a].mRefCount = 1 /\ object'[a].mProtected = FALSE
        /\ \A i \in DOMAIN h :
             /\ object'[h[i]].mProtected = FALSE
             /\ IsTexture(h[i]) => /\ object'[h[i]].holds = <<>>
                                   /\ object'[h[i]].mRefCount = Cardinality(Users(h, i)) + 1
             /\ ~IsTexture(h[i]) => /\ object'[h[i]].holds = <<h[Texture(h, i)]>>
                                    /\ object'[h[i]].mRefCount = 2
    <2>1. object'[a].holds = h /\ object'[a].mRefCount = 1 /\ object'[a].mProtected = FALSE
      BY MadeFields
    <2>2. ASSUME NEW i \in DOMAIN h
          PROVE  /\ object'[h[i]].mProtected = FALSE
                 /\ IsTexture(h[i]) => /\ object'[h[i]].holds = <<>>
                                       /\ object'[h[i]].mRefCount = Cardinality(Users(h, i)) + 1
                 /\ ~IsTexture(h[i]) => /\ object'[h[i]].holds = <<h[Texture(h, i)]>>
                                        /\ object'[h[i]].mRefCount = 2
      BY MadeFields
    <2> QED
      BY <2>1, <2>2
  <1>6. Well(object) /\ Well(object')
    BY MadeHolders DEF ObjectsRight, Well
  <1>7. /\ \A x \in DOMAIN object : Holding(object', x) = Holding(object, x)
        /\ \A i \in DOMAIN h :
             Holding(object', h[i]) = IF IsTexture(h[i]) THEN Cardinality(Users(h, i)) ELSE 1
        /\ \A x \in Res : x \notin DOMAIN object /\ (\A i \in DOMAIN h : x # h[i]) =>
             Holding(object', x) = 0
    <2>1. /\ \A x \in DOMAIN object : Holding(object', x) = Holding(object, x)
          /\ \A i \in DOMAIN h :
               Holding(object', h[i]) = IF IsTexture(h[i]) THEN Cardinality(Users(h, i)) ELSE 1
          /\ \A x \in Res : x \notin DOMAIN object /\ (\A i \in DOMAIN h : x # h[i]) =>
               Holders(object', x) = {}
      BY MadeHolders
    <2>2. \A x : Holders(object', x) = {} => Holding(object', x) = 0
      BY <1>6, HoldersNat
    <2> QED
      BY <2>1, <2>2
  <1>8. ASSUME NEW x
        PROVE  Keeping(object', x) = Keeping(object, x) + Bit(\E i \in DOMAIN h : h[i] = x)
    <2>1. \A y \in DOMAIN object' : IsAtlas(y) /\ y # a =>
            /\ y \in DOMAIN object /\ object'[y].holds = object[y].holds
            /\ object'[y].mRefCount > 0 <=> object[y].mRefCount > 0
      BY <1>3, <1>4
    <2>2. /\ DOMAIN object \subseteq DOMAIN object' /\ a \in DOMAIN object'
          /\ object'[a].mRefCount > 0
      BY <1>4, <1>5
    <2>3. (\E i \in DOMAIN object'[a].holds : object'[a].holds[i] = x)
            <=> \E i \in DOMAIN h : h[i] = x
      BY <1>5
    <2> QED
      BY <1>6, <2>1, <2>2, <2>3, KeepersMore DEF Bit
  <1>9. \A x \in DOMAIN object : Keeping(object', x) = Keeping(object, x)
    <2> TAKE x \in DOMAIN object
    <2>1. ~ \E i \in DOMAIN h : h[i] = x
      BY <1>3
    <2>2. Keeping(object, x) \in Nat
      BY <1>6, KeepersNat
    <2> QED
      BY <1>8, <2>1, <2>2 DEF Bit
  <1>10. \A x \in Res : x \notin DOMAIN object => held[x] = 0 /\ Keeping(object, x) = 0
    BY NotThere
  <1>11. ASSUME NEW i \in DOMAIN h
         PROVE  /\ Keeping(object', h[i]) = 1 /\ Keepers(object', h[i]) # {} /\ held'[h[i]] = 0
                /\ Bit(got' = h[i]) = 0
    <2>1. PICK x : x = h[i]
      OBVIOUS
    <2>2. Keeping(object', x) = 0 + 1 /\ held[x] = 0
      BY <1>3, <1>8, <1>10, <2>1 DEF Bit
    <2>3. Keepers(object', x) # {}
      BY <1>6, <2>2, KeepersNat
    <2> QED
      BY <1>3, <2>1, <2>2, <2>3 DEF Bit
  <1>12. Bit(FALSE) = 0
    BY DEF Bit
  <1>13. ASSUME NEW i \in DOMAIN h, NEW x, x = h[i]
         PROVE  /\ HoldsRight(x)' /\ object'[x].mRefCount > 0 /\ object'[x].mProtected = FALSE
                /\ object'[x].mRefCount = Kept(x)' + Bit(got' = x)
                /\ Part(x)'
    <2>1. held'[x] = 0 /\ Keeping(object', x) = 1 /\ Bit(got' = x) = 0 /\ object'[x].mProtected = FALSE
      BY <1>5, <1>11, <1>13
    <2>2. CASE IsTexture(x)
      <3>1. PICK c \in Nat : c = Cardinality(Users(h, i))
        BY <1>3
      <3>2. object'[x].holds = <<>> /\ object'[x].mRefCount = c + 1 /\ Holding(object', x) = c
        BY <1>5, <1>7, <1>13, <2>2, <3>1
      <3>3. Kept(x)' = 0 + c + 1 + 0
        BY <1>12, <2>1, <3>2 DEF Kept
      <3>4. Id(x) \in Textures
        BY <2>2 DEF IsTexture
      <3>5. HoldsRight(x)' /\ Part(x)'
        BY <3>2, <3>4, KindsApart DEF HoldsRight, IsAtlas, Part
      <3> QED
        BY <2>1, <3>1, <3>2, <3>3, <3>5
    <2>3. CASE ~IsTexture(x)
      <3>1. PICK t : t = h[Texture(h, i)] /\ Id(t) \in Textures
        BY <1>3 DEF IsTexture
      <3>2. PICK q : q = <<t>>
        OBVIOUS
      <3>3. q # <<>> /\ Len(q) = 1 /\ q[1] = t
        BY <3>2
      <3>4. object'[x].holds = q /\ object'[x].mRefCount = 2 /\ Holding(object', x) = 1
        BY <1>5, <1>7, <1>13, <2>3, <3>1, <3>2
      <3>5. Kept(x)' = 0 + 1 + 1 + 0
        BY <1>12, <2>1, <3>4 DEF Kept
      <3>6. Id(x) \in Images
        BY <1>3, <1>13, <2>3
      <3>7. HoldsRight(x)' /\ Part(x)'
        BY <3>1, <3>3, <3>4, <3>6, KindsApart DEF HoldsRight, IsAtlas, Part
      <3> QED
        BY <2>1, <3>4, <3>5, <3>7
    <2> QED
      BY <2>2, <2>3
  <1>14. \A i \in DOMAIN h : /\ Part(h[i])' /\ Id(h[i]) \notin Wallpapers
                             /\ object'[h[i]].mRefCount > 0
    BY <1>3, <1>13
  <1>15. /\ HoldsRight(a)' /\ object'[a].mRefCount > 0 /\ ~Part(a)'
         /\ object'[a].mRefCount = Kept(a)' + Bit(got' = a)
    <2>1. Keeping(object', a) = 0
      BY <1>3, <1>8, <1>10 DEF Bit
    <2>2. /\ held'[a] = 0 /\ Holding(object', a) = 0 /\ Bit(got' = a) = 1
          /\ Bit(object'[a].mProtected) = 0
      BY <1>3, <1>5, <1>7, <1>10 DEF Bit
    <2>3. Kept(a)' = 0
      BY <2>1, <2>2 DEF Kept
    <2>4. Id(a) \notin Images \cup Textures \cup Sets \cup Sprites
      BY KindsApart DEF IsAtlas
    <2>5. ~Part(a)'
      BY <2>4 DEF Part
    <2>6. \A i \in DOMAIN h : \A p : p = h[i] => Part(p)' /\ Id(p) \notin Wallpapers
      BY <1>14
    <2>7. h # <<>> => IsTexture(h[Len(h)])
      BY DEF AllNew
    <2> HIDE DEF Part, IsTexture
    <2>8. HoldsRight(a)'
      BY <1>2, <1>5, <2>4, <2>6, <2>7 DEF HoldsRight
    <2> QED
      BY <1>5, <2>2, <2>3, <2>5, <2>8
  <1>16. ASSUME NEW x \in DOMAIN object', x \notin DOMAIN object
         PROVE  /\ HoldsRight(x)' /\ object'[x].mRefCount > 0 /\ ~object'[x].mProtected
                /\ object'[x].mRefCount = Kept(x)' + Bit(got' = x)
    <2>1. x = a \/ \E i \in DOMAIN h : x = h[i]
      BY <1>4, <1>16
    <2> QED
      BY <1>5, <1>13, <1>15, <2>1
  <1> HIDE DEF AllNew, Users
  <1> QED
    BY <1>7, <1>9, <1>11, <1>14, <1>15, <1>16

LEMMA NewAtlasMadeKeeps ==
    ASSUME ResourcesInv, NewAtlas, NEW h, AllNew(h), NEW a, a = Fresh(Top.id), Made(h, a),
           NEW made, made[a].holds = h, made[a].mRefCount = 0,
           mResources' = With(Over(Injected(made, a), mResources), Top.id, a)
    PROVE  ResourcesInv'
  <1>1. calls # <<>> /\ Top.op = "newAtlas" /\ Top.op \in Loading
    BY DEF NewAtlas, Running, Loading
  <1>2. Top.id \notin DOMAIN mResources \cup DOMAIN mOrphanedResources /\ Top.id \in Atlases
    BY <1>1, MakerIs
  <1>3. a \in Res /\ Id(a) = Top.id /\ a \notin DOMAIN object /\ IsAtlas(a)
    BY <1>1, <1>2, MakerIs DEF IsAtlas
  <1>4. /\ got' = a /\ Then(<<>>)
        /\ UNCHANGED <<mOrphanedResources, mDeletedResources, mOldestOrphan, held>>
    BY DEF NewAtlas
  <1>5. /\ ObjectsRight /\ StackRight /\ GotRight /\ OrphanRight /\ LoadsRight /\ CacheRight
        /\ NoClaims /\ HeldRight /\ FoundAgain /\ DeletedRight
    BY DEF ResourcesInv
  <1>6. Well(object')
    BY <1>3, <1>5, MadeHolders
  <1>7. /\ DOMAIN object' = DOMAIN object \cup {h[i] : i \in DOMAIN h} \cup {a}
        /\ \A x \in DOMAIN object : object'[x] = object[x]
    BY DEF Made
  <1>8. /\ \A x \in DOMAIN object :
             Holding(object', x) = Holding(object, x) /\ Keeping(object', x) = Keeping(object, x)
        /\ \A x \in DOMAIN object' : x \notin DOMAIN object =>
             /\ HoldsRight(x)' /\ object'[x].mRefCount > 0 /\ ~object'[x].mProtected
             /\ object'[x].mRefCount = Kept(x)' + Bit(got' = x)
        /\ \A i \in DOMAIN h : /\ Part(h[i])' /\ Keepers(object', h[i]) # {}
                               /\ object'[h[i]].mRefCount > 0
        /\ ~Part(a)' /\ object'[a].mRefCount > 0
    BY <1>3, <1>4, <1>5, MadeRight
  <1>9. \A i \in DOMAIN h : Id(h[i]) \in Pixels /\ Id(h[i]) # Top.id
    <2>1. \A i \in DOMAIN h : Id(h[i]) \in Images \cup Textures
      BY DEF AllNew
    <2> QED
      BY <1>2, <2>1, KindsApart DEF Pixels
  <1>10. got = Null
    BY <1>1, <1>5, Silent DEF Giving, Waiting
  <1> DEFINE s == <<>>
  <1>11. s \in Seq(CallType) /\ DOMAIN s = {} /\ Then(s) /\ s = <<>> /\ \A x : Owed(s, x) = 0
    BY <1>4, OwedEmpty
  <1> HIDE DEF s
  <1>12. \A x \in DOMAIN object :
           object'[x].mRefCount + Kept(x) + Bit(got = x)
             = object[x].mRefCount + Kept(x)' + Bit(got' = x) + Owed(s, x)
    <2> TAKE x \in DOMAIN object
    <2>1. PICK m \in Nat, k \in Nat : m = object[x].mRefCount /\ k = Kept(x)
      BY <1>5, CountsNat, Counted
    <2>2. Kept(x)' = k
      BY <1>4, <1>7, <1>8, <2>1 DEF Kept
    <2>3. Bit(got = x) = 0 /\ Bit(got' = x) = 0 /\ Owed(s, x) = 0
      BY <1>3, <1>4, <1>10, <1>11, CountsNat, ResFacts DEF Bit
    <2>4. object'[x].mRefCount = m
      BY <1>7, <2>1
    <2> QED
      BY <2>1, <2>2, <2>3, <2>4
  <1>13. ASSUME NEW x \in DOMAIN object', x \notin DOMAIN object
         PROVE  object'[x].mRefCount = Kept(x)' + Bit(got' = x) + Owed(s, x)
    <2>1. object'[x].mRefCount = Kept(x)' + Bit(got' = x) /\ Owed(s, x) = 0
      BY <1>8, <1>11, <1>13
    <2>2. object'[x].mRefCount \in Nat
      BY <1>6, HoldsSeq
    <2> QED
      BY <2>1, <2>2
  <1>14. \A x \in Res \ DOMAIN object' : Holders(object', x) = {}
    <2> TAKE x \in Res \ DOMAIN object'
    <2>1. x \notin DOMAIN object /\ \A i \in DOMAIN h : x # h[i]
      BY <1>7
    <2> QED
      BY <1>3, <1>5, <2>1, MadeHolders
  <1>15. PICK f : f = Injected(made, a)
    OBVIOUS
  <1>16. \A i \in DOMAIN f : \E j \in DOMAIN h : f[i] = h[j] /\ Id(h[j]) = i
    <2>1. h \in Seq(Res)
      BY DEF AllNew
    <2>2. \A i \in DOMAIN f : f[i] \in Range(h) /\ Id(f[i]) = i
      BY <1>3, <1>15, <2>1, InjectedIs
    <2> QED
      BY <2>2 DEF Range
  <1>17. /\ DOMAIN mResources' = DOMAIN f \cup DOMAIN mResources \cup {Top.id}
         /\ mResources'[Top.id] = a
         /\ \A i \in DOMAIN f : i # Top.id => mResources'[i] = f[i]
         /\ \A i \in DOMAIN mResources : i \notin DOMAIN f /\ i # Top.id =>
              mResources'[i] = mResources[i]
    <2> DEFINE g == Over(f, mResources)
    <2>1. /\ DOMAIN g = DOMAIN f \cup DOMAIN mResources
          /\ \A i \in DOMAIN f : g[i] = f[i]
          /\ \A i \in DOMAIN mResources : i \notin DOMAIN f => g[i] = mResources[i]
      BY OverIs
    <2>2. mResources' = With(g, Top.id, a)
      BY <1>15
    <2> HIDE DEF g
    <2>3. /\ DOMAIN mResources' = DOMAIN g \cup {Top.id} /\ mResources'[Top.id] = a
          /\ \A i \in DOMAIN g : i # Top.id => mResources'[i] = g[i]
      BY <2>2 DEF With
    <2> QED
      BY <2>1, <2>3
  <1>18. CacheGrows
    <2> SUFFICES ASSUME NEW i \in DOMAIN mResources',
                        ~(i \in DOMAIN mResources /\ mResources'[i] = mResources[i])
                 PROVE  \E x \in DOMAIN object' :
                          /\ mResources'[i] = x /\ Id(x) = i /\ object'[x].mRefCount > 0
                          /\ Part(x)' => Keepers(object', x) # {}
                          /\ i \in DOMAIN mOrphanedResources' => Part(x)'
                          /\ x \in mDeletedResources => Part(x)'
      BY DEF CacheGrows
    <2>1. CASE i = Top.id
      <3>1. a \in DOMAIN object' /\ a \notin mDeletedResources
        BY <1>3, <1>5, <1>7 DEF DeletedRight
      <3>2. i \notin DOMAIN mOrphanedResources'
        BY <1>2, <1>4, <2>1
      <3> QED
        BY <1>3, <1>8, <1>17, <2>1, <3>1, <3>2
    <2>2. CASE i # Top.id
      <3>1. i \in DOMAIN f /\ mResources'[i] = f[i]
        BY <1>17, <2>2
      <3>2. PICK j \in DOMAIN h : f[i] = h[j] /\ Id(h[j]) = i
        BY <1>16, <3>1
      <3>3. PICK x : x = h[j]
        OBVIOUS
      <3>4. x \in DOMAIN object' /\ Part(x)' /\ Keepers(object', x) # {} /\ object'[x].mRefCount > 0
        BY <1>7, <1>8, <3>3
      <3> QED
        BY <3>1, <3>2, <3>3, <3>4
    <2> QED
      BY <2>1, <2>2
  <1>19. ASSUME NEW x \in DOMAIN object', IsAtlas(x), object'[x].mRefCount > 0
         PROVE  Has(mResources', x)
    <2>1. x \in Res /\ Id(x) \notin DOMAIN f
      <3>1. x \in Res /\ Id(x) \notin Pixels
        BY <1>6, <1>19, KindsApart DEF Well, IsAtlas, Pixels
      <3> QED
        BY <1>9, <1>16, <3>1
    <2>2. CASE x = a
      BY <1>3, <1>17, <2>1, <2>2, HasIs
    <2>3. CASE x # a
      <3>1. x \in DOMAIN object
        BY <1>7, <1>9, <1>19, <2>3, KindsApart DEF IsAtlas, Pixels
      <3>2. Id(x) \in DOMAIN mResources /\ mResources[Id(x)] = x
        BY <1>5, <1>7, <1>19, <2>1, <3>1, HasIs DEF FoundAgain
      <3>3. mResources'[Id(x)] = x /\ Id(x) \in DOMAIN mResources'
        BY <1>2, <1>17, <2>1, <3>2
      <3> QED
        BY <2>1, <3>3, HasIs
    <2> QED
      BY <2>2, <2>3
  <1>20. SubMap(mOrphanedResources', mOrphanedResources)
    BY <1>4 DEF SubMap
  <1>21. \A i \in DOMAIN mOrphanedResources' :
           object'[mOrphanedResources[i]] = object[mOrphanedResources[i]]
    BY <1>4, <1>5, <1>7 DEF OrphanRight
  <1>22. \A c : Below(c) /\ LoadRight(c) => LoadRight(c)'
    <2>1. DOMAIN mResources' \subseteq DOMAIN mResources \cup Pixels \cup {Top.id}
      BY <1>9, <1>16, <1>17
    <2>2. \A x \in DOMAIN object' : x \in DOMAIN object \/ Id(x) \in Pixels \cup {Top.id}
      BY <1>3, <1>7, <1>9
    <2>3. DOMAIN mOrphanedResources' \subseteq DOMAIN mOrphanedResources
      BY <1>4
    <2> QED
      BY <1>1, <1>5, <2>1, <2>2, <2>3, LoadsBelow
  <1>23. \A x \in DOMAIN object :
           /\ object'[x].holds = object[x].holds /\ object'[x].mProtected = object[x].mProtected
           /\ object[x].mRefCount > 0 => object'[x].mRefCount > 0
           /\ object'[x].mRefCount = 0 /\ Has(mOrphanedResources, x)
                  => Has(mOrphanedResources', x)
    BY <1>4, <1>7
  <1>24. \A x \in DOMAIN object' : x \notin DOMAIN object =>
           HoldsRight(x)' /\ object'[x].mRefCount > 0 /\ (object'[x].mProtected => Id(x) \in Sprites)
    BY <1>8
  <1>25. /\ DOMAIN object \subseteq DOMAIN object' /\ got' \in DOMAIN object' /\ Id(got') = Top.id
    BY <1>3, <1>4, <1>7
  <1>26. /\ held' = held /\ mDeletedResources' = mDeletedResources
         /\ mOldestOrphan' = mOldestOrphan
    BY <1>4
  <1> QED
    BY <1>1, <1>6, <1>11, <1>12, <1>13, <1>14, <1>18, <1>19, <1>20, <1>21, <1>22, <1>23, <1>24,
       <1>25, <1>26, LoadStep

LEMMA NewAtlasKeeps ==
    ASSUME ResourcesInv, NewAtlas
    PROVE  ResourcesInv'
  <1>1. calls # <<>> /\ Top.op = "newAtlas"
    BY DEF NewAtlas, Running
  <1>2. PICK a : a = Fresh(Top.id)
    OBVIOUS
  <1>3. a \notin DOMAIN object /\ IsAtlas(a) /\ Top.id \in Atlases
    BY <1>1, <1>2, MakerIs DEF Loading, IsAtlas
  <1>4. PICK s \in Layouts[Top.id] :
          LET h == CHOOSE p \in Pieces(s) : TRUE
              place(x) == CHOOSE i \in DOMAIN h : h[i] = x
              made == With(Over([x \in Range(h) |-> Piece(h, place(x))], object), a, New(0, h))
          IN  /\ Pieces(s) # {}
              /\ object' = IncRef(made, a)
              /\ mResources' = With(Over(Injected(made, a), mResources), Top.id, a)
    BY <1>2 DEF NewAtlas
  <1>5. PICK h \in Pieces(s) : h = CHOOSE p \in Pieces(s) : TRUE
    BY <1>4
  <1>6. AllNew(h)
    BY <1>3, PiecesAre
  <1> DEFINE place(x) == CHOOSE i \in DOMAIN h : h[i] = x
  <1>7. PICK leaves : leaves = [x \in Range(h) |-> Piece(h, place(x))]
    OBVIOUS
  <1>8. PICK made : made = With(Over(leaves, object), a, New(0, h))
    OBVIOUS
  <1>9. /\ object' = IncRef(made, a)
        /\ mResources' = With(Over(Injected(made, a), mResources), Top.id, a)
    BY <1>4, <1>5, <1>7, <1>8
  <1>10. ASSUME NEW i \in DOMAIN h PROVE leaves[h[i]] = Piece(h, i)
    <2>1. place(h[i]) \in DOMAIN h /\ h[place(h[i])] = h[i]
      OBVIOUS
    <2>2. place(h[i]) = i
      BY <1>6, <2>1 DEF AllNew
    <2>3. h[i] \in Range(h)
      BY DEF Range
    <2> QED
      BY <1>7, <2>2, <2>3
  <1>11. Laid(h, a, leaves, made)
    BY <1>7, <1>8, <1>9, <1>10 DEF Laid
  <1>12. Made(h, a) /\ made[a].holds = h /\ made[a].mRefCount = 0
    BY <1>3, <1>6, <1>11, MadeIs
  <1>13. h \in Seq(Res)
    BY <1>6 DEF AllNew
  <1> QED
    BY <1>2, <1>6, <1>9, <1>12, NewAtlasMadeKeeps

LEMMA DecRefDeleteKeeps ==
    ASSUME ResourcesInv, DecRefDelete
    PROVE  ResourcesInv'
  BY DecRefDeleteSomeKeeps, DecRefDeleteLastKeeps

LEMMA SweepOneKeeps ==
    ASSUME ResourcesInv, SweepOne
    PROVE  ResourcesInv'
  BY SweepOneStaysKeeps, SweepOneDeletesKeeps

----------------------------------------------------------------------------
(* Between calls.                                                          *)

\* What the rest of the game begins with the calls s, giving up the references that they
\* will give back.
LEMMA GameStep ==
    ASSUME ResourcesInv, calls = <<>>, NEW s \in Seq(CallType), calls' = s,
           UNCHANGED <<mResources, mOrphanedResources, mDeletedResources, mOldestOrphan>>,
           UNCHANGED <<object, got>>, HeldRight',
           \A r \in Res : held'[r] + Owed(s, r) = held[r],
           \A i, j \in DOMAIN s : i < j => MayStandOn(s[i], s[j]),
           \A i \in DOMAIN s : s[i].op # "delete" /\ s[i].op \notin Moving,
           \A i \in DOMAIN s : MoveRight(s[i])' /\ LoadRight(s[i])' /\ SweepRight(s[i])',
           \A i \in DOMAIN s : s[i].op \in Loading => s[Len(s)].op = "hold",
           \A i \in DOMAIN s :
             s[i].op \in Waiting => /\ i # 1 /\ s[i - 1].op \notin Giving
                                    /\ Supplies(s[i - 1], s[i])'
    PROVE  ResourcesInv'
  <1>1. /\ ObjectsRight /\ HeldRight /\ CountsRight /\ NoClaims
        /\ CacheRight /\ OrphanRight /\ DeletedRight /\ FoundAgain
        /\ StackRight /\ GotRight /\ AgesRight
    BY DEF ResourcesInv
  <1>2. \A r : ~Doomed(r)
    BY NotDoomed
  <1>3. \A r : ~Doomed(r)'
    <2> TAKE r
    <2>1. CASE s = <<>>
      BY <2>1 DEF Doomed
    <2>2. CASE s # <<>>
      <3>1. Head(s) = s[1] /\ 1 \in DOMAIN s
        BY <2>2, TailIs
      <3>2. s[1].op # "delete"
        BY <3>1
      <3> QED
        BY <3>1, <3>2 DEF Doomed, Top
    <2> QED
      BY <2>1, <2>2
  <1>4. \A i \in DOMAIN calls : FALSE
    BY EmptyMap
  <1>5. \A r : ~Leaving(r)
    BY <1>4 DEF Leaving
  <1>6. got = Null
    BY <1>1 DEF GotRight
  <1>7. ObjectsRight'
    BY <1>1 DEF ObjectsRight, HoldsRight, Part
  <1>8. ASSUME NEW r \in Res
        PROVE  /\ held[r] \in Nat /\ held'[r] \in Nat /\ Owed(s, r) \in Nat
               /\ Owed(s, r) = 0 <=> Pending(s, r) = {}
               /\ held'[r] + Owed(s, r) = held[r]
    <2>1. held'[r] \in Nat /\ held[r] \in Nat
      BY <1>1 DEF HeldRight
    <2> QED
      BY <2>1, OwedNat
  <1>9. CountsRight'
    <2> SUFFICES ASSUME NEW r \in DOMAIN object
                 PROVE  object[r].mRefCount = Claims(r)'
      BY DEF CountsRight
    <2>1. r \in Res
      BY <1>1 DEF ObjectsRight
    <2>2. object[r].mRefCount = Claims(r)
      BY <1>1, <1>2 DEF CountsRight
    <2>3. PICK a \in Nat, b \in Nat, c \in Nat, d \in Nat :
            /\ a = Holding(object, r) /\ b = Keeping(object, r)
            /\ c = Bit(object[r].mProtected) /\ d = Bit(got = r)
      BY <1>1, <2>1, Counted
    <2>4. PICK x \in Nat, y \in Nat, z \in Nat :
            x = held[r] /\ y = held'[r] /\ z = Owed(s, r) /\ y + z = x
      BY <1>8, <2>1
    <2>5. Owed(calls, r) = 0
      BY OwedEmpty
    <2>6. Claims(r) = x + a + b + c + 0 + d
      BY <2>3, <2>4, <2>5 DEF Claims, Kept
    <2>7. Claims(r)' = y + a + b + c + z + d
      BY <2>3, <2>4 DEF Claims, Kept
    <2>8. y + a + b + c + z + d = x + a + b + c + 0 + d
      <3>1. /\ a \in Nat /\ b \in Nat /\ c \in Nat /\ d \in Nat
            /\ x \in Nat /\ y \in Nat /\ z \in Nat /\ y + z = x
        BY <2>3, <2>4
      <3> QED
        BY <3>1
    <2> QED
      BY <2>2, <2>6, <2>7, <2>8
  <1>10. NoClaims'
    <2> SUFFICES ASSUME NEW r \in Res, r \notin DOMAIN object
                 PROVE  Unclaimed(r)'
      BY <1>3 DEF NoClaims
    <2>1. held[r] = 0 /\ Holders(object, r) = {} /\ got # r
      BY <1>1 DEF NoClaims, Unclaimed
    <2>2. held'[r] = 0 /\ Pending(s, r) = {}
      BY <1>8, <2>1
    <2> QED
      BY <2>1, <2>2 DEF Unclaimed
  <1>11. CacheRight' /\ OrphanRight' /\ DeletedRight' /\ FoundAgain'
    <2>1. CacheRight'
      BY <1>1, <1>3, <1>5 DEF CacheRight, Part
    <2>2. OrphanRight'
      BY <1>1, <1>3 DEF OrphanRight, Part
    <2>3. DeletedRight'
      BY <1>1, <1>3 DEF DeletedRight, Part, Has, At
    <2>4. FoundAgain'
      BY <1>1, <1>2 DEF FoundAgain, Has, At
    <2> QED
      BY <2>1, <2>2, <2>3, <2>4
  <1>12. StackRight'
    BY DEF StackRight
  <1>13. MovesRight'
    BY DEF MovesRight
  <1>14. LoadsRight'
    BY DEF LoadsRight
  <1>15. GotRight'
    BY <1>1, <1>6 DEF GotRight
  <1>16. SweepsRight'
    BY DEF SweepsRight
  <1>17. AgesRight'
    <2>1. NoneOlder
      BY <1>1, <1>4 DEF AgesRight, Sweeping
    <2>2. NoneOlder'
      BY <2>1 DEF NoneOlder
    <2> QED
      BY <1>1, <2>2 DEF AgesRight
  <1> QED
    BY <1>7, <1>9, <1>10, <1>11, <1>12, <1>13, <1>14, <1>15, <1>16, <1>17 DEF ResourcesInv

LEMMA GameGetKeeps ==
    ASSUME ResourcesInv, NEW id \in Asked, GameGet(id)
    PROVE  ResourcesInv'
  <1>1. /\ calls = <<>> /\ calls' = <<Load(id), [op |-> "hold"]>>
        /\ UNCHANGED <<mResources, mOrphanedResources, mDeletedResources, mOldestOrphan>>
        /\ UNCHANGED <<object, got, held>>
        /\ \A n \in Needed(id) : Room(n) # {}
        /\ \A k \in 1 .. Copies : held[<<id, k>>] < MaxHeld
    BY DEF GameGet, Idle, maps
  <1>2. id \in Ids \ Textures
    BY ResourcesAssumption
  <1>3. PICK a \in CallType : a = Load(id) /\ a.op = "get" /\ a.id = id
    <2>1. Load(id) \in CallType /\ Load(id).op = "get" /\ Load(id).id = id
      BY <1>2 DEF Load, CallType
    <2> QED
      BY <2>1
  <1>4. PICK b \in CallType : b = [op |-> "hold"] /\ b.op = "hold"
    <2>1. [op |-> "hold"] \in CallType /\ [op |-> "hold"].op = "hold"
      BY DEF CallType
    <2> QED
      BY <2>1
  <1> DEFINE s == <<a, b>>
  <1>5. /\ s \in Seq(CallType) /\ DOMAIN s = {1, 2} /\ Len(s) = 2 /\ s[1] = a /\ s[2] = b
        /\ \A x : Owed(s, x) = (IF Gives(a, x) THEN 1 ELSE 0) + (IF Gives(b, x) THEN 1 ELSE 0)
    BY PairIs
  <1>6. calls' = s
    BY <1>1, <1>3, <1>4
  <1> HIDE DEF s
  <1>7. HeldRight'
    BY <1>1 DEF ResourcesInv, HeldRight
  <1>8. \A r \in Res : held'[r] + Owed(s, r) = held[r]
    <2> TAKE r \in Res
    <2>1. Owed(s, r) = 0
      BY <1>3, <1>4, <1>5 DEF Gives
    <2>2. held[r] \in Nat
      BY DEF ResourcesInv, HeldRight
    <2> QED
      BY <1>1, <2>1, <2>2
  <1>9. MayStandOn(a, b)
    BY <1>3, <1>4 DEF MayStandOn, Loading
  <1>10. \A i, j \in DOMAIN s : i < j => MayStandOn(s[i], s[j])
    BY <1>5, <1>9
  <1>11. \A i \in DOMAIN s : s[i].op # "delete" /\ s[i].op \notin Moving
    BY <1>3, <1>4, <1>5 DEF Moving
  <1>12. LoadRight(a)' /\ LoadRight(b)'
    <2>1. \A n : Room(n)' = Room(n)
      BY <1>1 DEF Room, Alive
    <2>2. LoadRight(b)'
      BY <1>4 DEF LoadRight, Loading
    <2>3. \A n \in ToMake(a) : Room(n)' # {}
      BY <1>1, <1>3, <2>1 DEF ToMake
    <2>4. LoadRight(a)'
      BY <1>2, <1>3, <2>3 DEF LoadRight, Loading
    <2> QED
      BY <2>2, <2>4
  <1>13. MoveRight(a)' /\ MoveRight(b)' /\ SweepRight(a)' /\ SweepRight(b)'
    BY <1>3, <1>4 DEF MoveRight, SweepRight
  <1>14. \A i \in DOMAIN s : MoveRight(s[i])' /\ LoadRight(s[i])' /\ SweepRight(s[i])'
    BY <1>5, <1>12, <1>13
  <1>15. \A i \in DOMAIN s : s[i].op \in Loading => s[Len(s)].op = "hold"
    BY <1>4, <1>5
  <1>16. Supplies(a, b)'
    <2>1. Fits(id, b)'
      BY <1>1, <1>4 DEF Fits
    <2> QED
      BY <1>3, <2>1 DEF Supplies, Loading
  <1>17. ASSUME NEW i \in DOMAIN s, s[i].op \in Waiting
         PROVE  i # 1 /\ s[i - 1].op \notin Giving /\ Supplies(s[i - 1], s[i])'
    <2>1. i = 2
      BY <1>3, <1>5, <1>17 DEF Waiting
    <2>2. s[i - 1] = a /\ s[i] = b
      BY <1>5, <2>1
    <2> QED
      BY <1>3, <1>16, <2>1, <2>2 DEF Giving
  <1> QED
    BY <1>1, <1>5, <1>6, <1>7, <1>8, <1>10, <1>11, <1>14, <1>15, <1>17, GameStep

LEMMA GameDropKeeps ==
    ASSUME ResourcesInv, NEW r \in Res, NEW how \in {"decRef", "decRefDelete"}, GameDrop(r, how)
    PROVE  ResourcesInv'
  <1>1. /\ calls = <<>> /\ calls' = <<Call(how, r)>> /\ held[r] > 0
        /\ held' = [held EXCEPT ![r] = held[r] - 1]
        /\ how = "decRefDelete" => Id(r) \in Wallpapers
        /\ UNCHANGED <<mResources, mOrphanedResources, mDeletedResources, mOldestOrphan>>
        /\ UNCHANGED <<object, got>>
    BY DEF GameDrop, Idle, maps
  <1>2. PICK a \in CallType : a = Call(how, r) /\ a.op = how /\ a.res = r
    BY CallIs
  <1> DEFINE s == <<a>>
  <1>3. /\ s \in Seq(CallType) /\ DOMAIN s = {1} /\ Len(s) = 1 /\ s[1] = a
        /\ \A x : Owed(s, x) = IF Gives(a, x) THEN 1 ELSE 0
    BY OneIs
  <1>4. calls' = s
    BY <1>1, <1>2
  <1> HIDE DEF s
  <1>5. held \in [Res -> 0 .. MaxHeld] /\ MaxHeld \in Nat
    BY ResourcesAssumption DEF ResourcesInv, HeldRight
  <1>6. HeldRight'
    <2>1. held[r] - 1 \in 0 .. MaxHeld
      BY <1>1, <1>5
    <2> QED
      BY <1>1, <1>5, <2>1 DEF HeldRight
  <1>7. \A x \in Res : held'[x] + Owed(s, x) = held[x]
    <2> TAKE x \in Res
    <2>1. PICK n \in Nat : n = held[x]
      BY <1>5
    <2>2. CASE x = r
      <3>1. held'[x] = n - 1 /\ Owed(s, x) = 1
        BY <1>1, <1>2, <1>3, <1>5, <2>1, <2>2 DEF Gives
      <3> QED
        BY <2>1, <3>1
    <2>3. CASE x # r
      <3>1. held'[x] = n /\ Owed(s, x) = 0
        BY <1>1, <1>2, <1>3, <1>5, <2>1, <2>3 DEF Gives
      <3> QED
        BY <2>1, <3>1
    <2> QED
      BY <2>2, <2>3
  <1>8. \A i, j \in DOMAIN s : ~(i < j)
    BY <1>3
  <1>9. \A i \in DOMAIN s : /\ s[i].op # "delete" /\ s[i].op \notin Moving
                            /\ s[i].op \notin Waiting /\ s[i].op \notin Loading
    BY <1>2, <1>3 DEF Moving, Waiting, Loading
  <1>10. MoveRight(a)' /\ LoadRight(a)' /\ SweepRight(a)'
    BY <1>1, <1>2 DEF MoveRight, LoadRight, SweepRight, Loading
  <1>11. \A i \in DOMAIN s : MoveRight(s[i])' /\ LoadRight(s[i])' /\ SweepRight(s[i])'
    BY <1>3, <1>10
  <1> QED
    BY <1>1, <1>3, <1>4, <1>6, <1>7, <1>8, <1>9, <1>11, GameStep

\* The loops of the manager, begun from outside: no reference is given up for them.
LEMMA LoopStep ==
    ASSUME ResourcesInv, calls = <<>>, NEW s \in Seq(CallType), calls' = s,
           UNCHANGED <<mResources, mOrphanedResources, mDeletedResources, mOldestOrphan>>,
           UNCHANGED <<object, held, got>>,
           \A i \in DOMAIN s : s[i].op \in {"unprotect", "sweep", "sweepAll"},
           \A i, j \in DOMAIN s : i < j => MayStandOn(s[i], s[j]),
           \A i \in DOMAIN s : SweepRight(s[i])
    PROVE  ResourcesInv'
  <1>1. \A i \in DOMAIN s : /\ s[i].op # "delete" /\ s[i].op \notin Moving
                            /\ s[i].op \notin Waiting /\ s[i].op \notin Loading
                            /\ s[i].op \notin {"decRef", "moveToDeleted", "decRefDelete"}
    BY DEF Moving, Waiting, Loading
  <1>2. HeldRight'
    BY DEF ResourcesInv, HeldRight
  <1>3. \A x \in Res : held'[x] + Owed(s, x) = held[x]
    <2> TAKE x \in Res
    <2>1. Pending(s, x) = {}
      BY <1>1 DEF Pending
    <2>2. Owed(s, x) = 0
      BY <2>1, OwedNat
    <2>3. held[x] \in Nat
      BY DEF ResourcesInv, HeldRight
    <2> QED
      BY <2>2, <2>3
  <1>4. ASSUME NEW c, c.op \in {"unprotect", "sweep", "sweepAll"}, SweepRight(c)
        PROVE  MoveRight(c)' /\ LoadRight(c)' /\ SweepRight(c)'
    BY <1>4 DEF MoveRight, LoadRight, SweepRight, Loading
  <1>5. \A i \in DOMAIN s : MoveRight(s[i])' /\ LoadRight(s[i])' /\ SweepRight(s[i])'
    BY <1>4
  <1> QED
    BY <1>1, <1>2, <1>3, <1>5, GameStep

LEMMA CleanProtectedKeeps ==
    ASSUME ResourcesInv, CleanProtected
    PROVE  ResourcesInv'
  <1>1. /\ calls = <<>> /\ calls' = <<[op |-> "unprotect"]>>
        /\ UNCHANGED <<mResources, mOrphanedResources, mDeletedResources, mOldestOrphan>>
        /\ UNCHANGED <<object, got, held>>
    BY DEF CleanProtected, Idle, maps
  <1>2. PICK a \in CallType : a = [op |-> "unprotect"] /\ a.op = "unprotect"
    <2>1. [op |-> "unprotect"] \in CallType /\ [op |-> "unprotect"].op = "unprotect"
      BY DEF CallType
    <2> QED
      BY <2>1
  <1> DEFINE s == <<a>>
  <1>3. s \in Seq(CallType) /\ DOMAIN s = {1} /\ s[1] = a
    BY OneIs
  <1>4. calls' = s
    BY <1>1, <1>2
  <1> HIDE DEF s
  <1>5. \A i, j \in DOMAIN s : ~(i < j)
    BY <1>3
  <1>6. \A i \in DOMAIN s : SweepRight(s[i]) /\ s[i].op = "unprotect"
    BY <1>2, <1>3 DEF SweepRight
  <1> QED
    BY <1>1, <1>3, <1>4, <1>5, <1>6, LoopStep

LEMMA ClearCacheKeeps ==
    ASSUME ResourcesInv, ClearCache
    PROVE  ResourcesInv'
  <1>1. /\ calls = <<>> /\ calls' = <<[op |-> "unprotect"], [op |-> "sweepAll"]>>
        /\ UNCHANGED <<mResources, mOrphanedResources, mDeletedResources, mOldestOrphan>>
        /\ UNCHANGED <<object, got, held>>
    BY DEF ClearCache, Idle, maps
  <1>2. PICK a \in CallType : a = [op |-> "unprotect"] /\ a.op = "unprotect"
    <2>1. [op |-> "unprotect"] \in CallType /\ [op |-> "unprotect"].op = "unprotect"
      BY DEF CallType
    <2> QED
      BY <2>1
  <1>3. PICK b \in CallType : b = [op |-> "sweepAll"] /\ b.op = "sweepAll"
    <2>1. [op |-> "sweepAll"] \in CallType /\ [op |-> "sweepAll"].op = "sweepAll"
      BY DEF CallType
    <2> QED
      BY <2>1
  <1> DEFINE s == <<a, b>>
  <1>4. s \in Seq(CallType) /\ DOMAIN s = {1, 2} /\ s[1] = a /\ s[2] = b
    BY PairIs
  <1>5. calls' = s
    BY <1>1, <1>2, <1>3
  <1> HIDE DEF s
  <1>6. MayStandOn(a, b)
    BY <1>2, <1>3 DEF MayStandOn
  <1>7. \A i, j \in DOMAIN s : i < j => MayStandOn(s[i], s[j])
    BY <1>4, <1>6
  <1>8. \A i \in DOMAIN s : SweepRight(s[i]) /\ s[i].op \in {"unprotect", "sweepAll"}
    BY <1>2, <1>3, <1>4 DEF SweepRight
  <1> QED
    BY <1>1, <1>4, <1>5, <1>7, <1>8, LoopStep

LEMMA CleanOrphansKeeps ==
    ASSUME ResourcesInv, CleanOrphans
    PROVE  ResourcesInv'
  <1>1. /\ calls = <<>> /\ Sweep(FALSE) # <<>> /\ calls' = Sweep(FALSE)
        /\ UNCHANGED <<mResources, mOrphanedResources, mDeletedResources, mOldestOrphan>>
        /\ UNCHANGED <<object, got, held>>
    BY DEF CleanOrphans, Idle, maps
  <1>2. PICK a \in CallType : Sweep(FALSE) = <<a>> /\ a.op = "sweep" /\ SweepRight(a)
    <2>1. OrphanRight /\ ObjectsRight /\ AgesRight
      BY DEF ResourcesInv
    <2> QED
      BY <1>1, <2>1, SweepIs
  <1> DEFINE s == <<a>>
  <1>3. s \in Seq(CallType) /\ DOMAIN s = {1} /\ s[1] = a
    BY OneIs
  <1>4. calls' = s
    BY <1>1, <1>2
  <1> HIDE DEF s
  <1>5. \A i, j \in DOMAIN s : ~(i < j)
    BY <1>3
  <1>6. \A i \in DOMAIN s : SweepRight(s[i]) /\ s[i].op = "sweep"
    BY <1>2, <1>3
  <1> QED
    BY <1>1, <1>3, <1>4, <1>5, <1>6, LoopStep

\* Time passes: the orphans grow older, and what the manager believes of them with them.
LEMMA Aged ==
    ASSUME NEW t \in Ages, NEW m \in Ages, t <= m, NEW u, NEW v,
           u = (IF t <= Limit THEN t + 1 ELSE t), v = (IF m <= Limit THEN m + 1 ELSE m)
    PROVE  u \in Ages /\ v \in Ages /\ u <= v
  BY ResourcesAssumption DEF Ages

LEMMA TickKeeps ==
    ASSUME ResourcesInv, Tick
    PROVE  ResourcesInv'
  <1>1. /\ calls = <<>> /\ calls' = calls
        /\ UNCHANGED <<mResources, mOrphanedResources, mDeletedResources, held, got>>
        /\ mOldestOrphan' = IF mOldestOrphan <= Limit THEN mOldestOrphan + 1 ELSE mOldestOrphan
    BY DEF Tick, Idle
  <1>2. /\ ObjectsRight /\ HeldRight /\ CountsRight /\ NoClaims
        /\ CacheRight /\ OrphanRight /\ DeletedRight /\ FoundAgain
        /\ StackRight /\ GotRight /\ AgesRight
    BY DEF ResourcesInv
  <1>3. PICK o : o = object'
    OBVIOUS
  <1>4. /\ DOMAIN o = DOMAIN object
        /\ \A r \in DOMAIN object :
             o[r] = IF r \in Range(mOrphanedResources) /\ object[r].mTimeStamp <= Limit
                    THEN [object[r] EXCEPT !.mTimeStamp = object[r].mTimeStamp + 1] ELSE object[r]
    BY <1>3 DEF Tick
  <1>5. ASSUME NEW r \in DOMAIN object
        PROVE  /\ o[r] \in Record /\ o[r].holds = object[r].holds
               /\ o[r].mRefCount = object[r].mRefCount /\ o[r].mProtected = object[r].mProtected
               /\ object[r].mTimeStamp \in Ages
               /\ r \in Range(mOrphanedResources) =>
                    o[r].mTimeStamp = IF object[r].mTimeStamp <= Limit
                                      THEN object[r].mTimeStamp + 1 ELSE object[r].mTimeStamp
    <2>1. PICK old \in Record : old = object[r]
      BY <1>2 DEF ObjectsRight
    <2>2. old.mTimeStamp \in Ages
      BY <2>1 DEF Record
    <2>3. CASE r \in Range(mOrphanedResources) /\ old.mTimeStamp <= Limit
      <3>1. PICK t \in Ages : t = old.mTimeStamp + 1
        BY <2>2, <2>3, ResourcesAssumption DEF Ages
      <3>2. o[r] = [old EXCEPT !.mTimeStamp = t]
        BY <1>4, <2>1, <2>3, <3>1
      <3>3. /\ [old EXCEPT !.mTimeStamp = t] \in Record
            /\ [old EXCEPT !.mTimeStamp = t].holds = old.holds
            /\ [old EXCEPT !.mTimeStamp = t].mRefCount = old.mRefCount
            /\ [old EXCEPT !.mTimeStamp = t].mProtected = old.mProtected
            /\ [old EXCEPT !.mTimeStamp = t].mTimeStamp = t
        BY <2>1, <3>1 DEF Record
      <3> QED
        BY <2>1, <2>2, <2>3, <3>1, <3>2, <3>3
    <2>4. CASE ~(r \in Range(mOrphanedResources) /\ old.mTimeStamp <= Limit)
      BY <1>4, <2>1, <2>2, <2>4
    <2> QED
      BY <2>3, <2>4
  <1>6. Firm
    <2>1. Well(object)
      BY <1>2 DEF ObjectsRight, Well
    <2>2. Well(object') /\ SameHolds(object', object)
      <3> HIDE DEF Record
      <3> QED
        BY <1>3, <1>4, <1>5, <2>1 DEF Well, SameHolds
    <2> QED
      BY <1>3, <1>5, <2>2 DEF Firm
  <1>7. \A r : ~Doomed(r) /\ ~Doomed(r)'
    BY <1>1 DEF Doomed
  <1>8. ObjectsRight'
    BY <1>2, <1>6, FirmObjects
  <1>9. CacheRight' /\ OrphanRight' /\ DeletedRight' /\ FoundAgain'
    <2>1. SameMap(mResources', mResources)
      BY <1>1 DEF SameMap
    <2>2. \A r : Leaving(r) => Leaving(r)'
      BY <1>1 DEF Leaving
    <2> QED
      BY <1>1, <1>2, <1>6, <1>7, <2>1, <2>2, FirmMaps
  <1>10. ASSUME NEW r
         PROVE  /\ Holders(object', r) = Holders(object, r)
                /\ Keepers(object', r) = Keepers(object, r)
                /\ Holding(object', r) = Holding(object, r)
                /\ Keeping(object', r) = Keeping(object, r) /\ DOMAIN object' = DOMAIN object
    BY <1>2, <1>6, FirmIs
  <1>11. CountsRight'
    <2> SUFFICES ASSUME NEW r \in DOMAIN object'
                 PROVE  object'[r].mRefCount = Claims(r)'
      BY DEF CountsRight
    <2>1. object[r].mRefCount = Claims(r)
      BY <1>2, <1>7, <1>10 DEF CountsRight
    <2>2. object'[r].mRefCount = object[r].mRefCount /\ object'[r].mProtected = object[r].mProtected
      BY <1>3, <1>5, <1>10
    <2>3. Claims(r)' = Claims(r)
      BY <1>1, <1>10, <2>2 DEF Claims, Kept
    <2> QED
      BY <2>1, <2>2, <2>3
  <1>12. NoClaims'
    <2> SUFFICES ASSUME NEW r \in Res, r \notin DOMAIN object'
                 PROVE  Unclaimed(r)'
      BY <1>7 DEF NoClaims
    <2>1. Unclaimed(r)
      BY <1>2, <1>10 DEF NoClaims
    <2> QED
      BY <1>1, <1>10, <2>1 DEF Unclaimed
  <1>13. \A i \in DOMAIN calls' : FALSE
    BY <1>1, EmptyMap
  <1>14. HeldRight' /\ StackRight'
    BY <1>1, <1>2 DEF HeldRight, StackRight
  <1>15. MovesRight' /\ LoadsRight' /\ SweepsRight'
    BY <1>13 DEF MovesRight, LoadsRight, SweepsRight
  <1>16. GotRight'
    BY <1>1, <1>2, <1>13 DEF GotRight
  <1>17. AgesRight'
    <2>1. mOldestOrphan \in Ages /\ NoneOlder
      BY <1>1, <1>2, <1>13 DEF AgesRight, Sweeping
    <2>2. mOldestOrphan' \in Ages
      <3>1. PICK m \in Ages : m = mOldestOrphan
        BY <2>1
      <3>2. m <= m
        BY <3>1, ResourcesAssumption DEF Ages
      <3>3. mOldestOrphan' = IF m <= Limit THEN m + 1 ELSE m
        BY <1>1, <3>1
      <3> QED
        BY <3>1, <3>2, <3>3, Aged
    <2>3. ASSUME NEW n \in DOMAIN mOrphanedResources
          PROVE  object'[mOrphanedResources[n]].mTimeStamp <= mOldestOrphan'
      <3>1. PICK r \in DOMAIN object : r = mOrphanedResources[n] /\ r \in Range(mOrphanedResources)
        BY <1>2 DEF OrphanRight, Range
      <3>2. PICK t \in Ages : t = object[r].mTimeStamp /\ t <= mOldestOrphan
        BY <1>5, <2>1, <3>1 DEF NoneOlder
      <3>3. object'[r].mTimeStamp = IF t <= Limit THEN t + 1 ELSE t
        BY <1>3, <1>5, <3>1, <3>2
      <3> QED
        BY <1>1, <2>1, <3>1, <3>2, <3>3, Aged
    <2> QED
      BY <1>1, <2>2, <2>3 DEF AgesRight, NoneOlder
  <1> QED
    BY <1>8, <1>9, <1>11, <1>12, <1>14, <1>15, <1>16, <1>17 DEF ResourcesInv

----------------------------------------------------------------------------
(* The theorems.                                                           *)

LEMMA InvInit ==
    ASSUME Init
    PROVE  ResourcesInv
  <1>1. /\ mResources = <<>> /\ mOrphanedResources = <<>> /\ mDeletedResources = {}
        /\ mOldestOrphan = 0 /\ object = <<>> /\ held = [r \in Res |-> 0]
        /\ calls = <<>> /\ got = Null
    BY DEF Init
  <1>2. \A x : /\ x \notin DOMAIN mResources /\ x \notin DOMAIN mOrphanedResources
               /\ x \notin DOMAIN object /\ x \notin DOMAIN calls
    BY <1>1, EmptyMap
  <1>3. DOMAIN object = {}
    BY <1>2
  <1>4. ObjectsRight
    BY <1>2, <1>3, FS_EmptySet DEF ObjectsRight
  <1>5. HeldRight
    <2>1. 0 \in 0 .. MaxHeld
      BY ResourcesAssumption
    <2> QED
      BY <1>1, <2>1 DEF HeldRight
  <1>6. CountsRight
    BY <1>2 DEF CountsRight
  <1>7. NoClaims
    <2> SUFFICES ASSUME NEW r \in Res PROVE Unclaimed(r) /\ ~Doomed(r)
      BY DEF NoClaims
    <2>1. Holders(object, r) = {}
      BY <1>2, HoldersEmpty
    <2>2. Pending(calls, r) = {}
      BY <1>2 DEF Pending
    <2>3. held[r] = 0 /\ got # r
      BY <1>1, ResFacts
    <2>4. ~Doomed(r)
      BY <1>1 DEF Doomed
    <2> QED
      BY <2>1, <2>2, <2>3, <2>4 DEF Unclaimed
  <1>8. CacheRight /\ OrphanRight /\ DeletedRight /\ FoundAgain
    BY <1>1, <1>2 DEF CacheRight, OrphanRight, DeletedRight, FoundAgain
  <1>9. StackRight /\ MovesRight /\ LoadsRight /\ SweepsRight
    <2>1. calls \in Seq(CallType)
      BY <1>1
    <2> QED
      BY <1>2, <2>1 DEF StackRight, MovesRight, LoadsRight, SweepsRight
  <1>10. GotRight
    BY <1>1, <1>2 DEF GotRight
  <1>11. AgesRight
    <2>1. 0 \in Ages
      BY ResourcesAssumption DEF Ages
    <2> QED
      BY <1>1, <1>2, <2>1 DEF AgesRight, NoneOlder
  <1> QED
    BY <1>4, <1>5, <1>6, <1>7, <1>8, <1>9, <1>10, <1>11 DEF ResourcesInv

LEMMA InvStutter ==
    ASSUME ResourcesInv, UNCHANGED vars
    PROVE  ResourcesInv'
  <1>1. /\ mResources' = mResources /\ mOrphanedResources' = mOrphanedResources
        /\ mDeletedResources' = mDeletedResources /\ mOldestOrphan' = mOldestOrphan
        /\ object' = object /\ held' = held /\ calls' = calls /\ got' = got
    BY DEF vars, maps
  <1>2. \A r : Doomed(r)' = Doomed(r) /\ Leaving(r)' = Leaving(r) /\ Part(r)' = Part(r)
    BY <1>1 DEF Doomed, Top, Leaving, Part
  <1>3. \A r : Claims(r)' = Claims(r) /\ Kept(r)' = Kept(r) /\ Unclaimed(r)' = Unclaimed(r)
    BY <1>1 DEF Claims, Kept, Unclaimed
  <1>4. ObjectsRight' /\ HeldRight' /\ CountsRight' /\ NoClaims'
    BY <1>1, <1>2, <1>3
       DEF ResourcesInv, ObjectsRight, HoldsRight, HeldRight, CountsRight, NoClaims
  <1>5. CacheRight' /\ OrphanRight' /\ DeletedRight' /\ FoundAgain'
    BY <1>1, <1>2
       DEF ResourcesInv, CacheRight, OrphanRight, DeletedRight, FoundAgain, Has, At
  <1>6. \A c : /\ MoveRight(c)' = MoveRight(c) /\ LoadRight(c)' = LoadRight(c)
               /\ SweepRight(c)' = SweepRight(c)
    BY <1>1, <1>3 DEF MoveRight, LoadRight, SweepRight, Room, Alive
  <1>7. StackRight' /\ MovesRight' /\ LoadsRight' /\ SweepsRight'
    BY <1>1, <1>3, <1>6 DEF ResourcesInv, StackRight, MovesRight, LoadsRight, SweepsRight
  <1>8. GotRight'
    BY <1>1 DEF ResourcesInv, GotRight, Answered, Fits, Supplies
  <1>9. AgesRight'
    BY <1>1 DEF ResourcesInv, AgesRight, NoneOlder, Sweeping
  <1> QED
    BY <1>4, <1>5, <1>7, <1>8, <1>9 DEF ResourcesInv

LEMMA InvNext ==
    ASSUME ResourcesInv, [Next]_vars
    PROVE  ResourcesInv'
  <1>1. CASE Step
    <2>1. CASE DecRef
      BY <2>1, DecRefKeeps
    <2>2. CASE Delete
      BY <2>2, DeleteKeeps
    <2>3. CASE MoveToDeleted
      BY <2>3, MoveToDeletedKeeps
    <2>4. CASE Moved
      BY <2>4, MovedKeeps
    <2>5. CASE ClearDeleted
      BY <2>5, ClearDeletedKeeps
    <2>6. CASE DecRefDelete
      BY <2>6, DecRefDeleteKeeps
    <2>7. CASE GetCached
      BY <2>7, GetCachedKeeps
    <2>8. CASE GetOrphan
      BY <2>8, GetOrphanKeeps
    <2>9. CASE GetNothing
      BY <2>9, GetNothingKeeps
    <2>10. CASE GetImage
      BY <2>10, GetImageKeeps
    <2>11. CASE GetParts
      BY <2>11, GetPartsKeeps
    <2>12. CASE NewSet
      BY <2>12, NewSetKeeps
    <2>13. CASE NewSprite
      BY <2>13, NewSpriteKeeps
    <2>14. CASE Retire
      BY <2>14, RetireKeeps
    <2>15. CASE NewAtlas
      BY <2>15, NewAtlasKeeps
    <2>16. CASE Hold
      BY <2>16, HoldKeeps
    <2>17. CASE Unprotect
      BY <2>17, UnprotectKeeps
    <2>18. CASE SweepOne
      BY <2>18, SweepOneKeeps
    <2>19. CASE SweepEnd
      BY <2>19, SweepEndKeeps
    <2>20. CASE SweepAgain
      BY <2>20, SweepAgainKeeps
    <2> QED
      BY <1>1, <2>1, <2>2, <2>3, <2>4, <2>5, <2>6, <2>7, <2>8, <2>9, <2>10, <2>11, <2>12,
         <2>13, <2>14, <2>15, <2>16, <2>17, <2>18, <2>19, <2>20 DEF Step
  <1>2. CASE Game
    <2>1. ASSUME NEW id \in Asked, GameGet(id) PROVE ResourcesInv'
      BY <2>1, GameGetKeeps
    <2>2. ASSUME NEW r \in Res, NEW how \in {"decRef", "decRefDelete"}, GameDrop(r, how)
          PROVE  ResourcesInv'
      BY <2>2, GameDropKeeps
    <2>3. CASE CleanProtected
      BY <2>3, CleanProtectedKeeps
    <2>4. CASE ClearCache
      BY <2>4, ClearCacheKeeps
    <2> QED
      BY <1>2, <2>1, <2>2, <2>3, <2>4 DEF Game
  <1>3. CASE CleanOrphans
    BY <1>3, CleanOrphansKeeps
  <1>4. CASE Tick
    BY <1>4, TickKeeps
  <1>5. CASE UNCHANGED vars
    BY <1>5, InvStutter
  <1> QED
    BY <1>1, <1>2, <1>3, <1>4, <1>5 DEF Next

\* The counts, the maps and the stack of calls fit together after every step of every
\* call, however deep they nest.
THEOREM ResourcesInvHolds == Spec => []ResourcesInv
  <1>1. Init => ResourcesInv
    BY InvInit
  <1>2. ResourcesInv /\ [Next]_vars => ResourcesInv'
    BY InvNext
  <1> QED
    BY <1>1, <1>2, PTL DEF Spec

LEMMA InvTypeOK ==
    ASSUME ResourcesInv
    PROVE  TypeOK
  <1>1. ObjectsRight /\ HeldRight /\ CacheRight /\ OrphanRight /\ DeletedRight /\ GotRight /\ AgesRight
    BY DEF ResourcesInv
  <1>2. Well(object)
    BY <1>1 DEF ObjectsRight, Well
  <1>3. ASSUME NEW r \in DOMAIN object
        PROVE  /\ r \in Res /\ Id(r) \in Ids
               /\ object[r].mRefCount \in Nat /\ object[r].mTimeStamp \in Ages
               /\ object[r].mProtected \in BOOLEAN /\ Range(object[r].holds) \subseteq Res
    <2>1. r \in Res /\ \A i \in DOMAIN object[r].holds : object[r].holds[i] \in Res
      BY <1>2, HoldsSeq
    <2> QED
      BY <1>2, <2>1, HoldsSeq, ResFacts DEF Range
  <1>4. /\ DOMAIN mResources \cup DOMAIN mOrphanedResources \subseteq Ids
        /\ Range(mResources) \cup Range(mOrphanedResources) \cup mDeletedResources \subseteq Res
    <2>1. \A i \in DOMAIN mResources : mResources[i] \in Res /\ i \in Ids
      BY <1>1, <1>3 DEF CacheRight
    <2>2. \A i \in DOMAIN mOrphanedResources : mOrphanedResources[i] \in Res /\ i \in Ids
      BY <1>1, <1>3 DEF OrphanRight
    <2>3. mDeletedResources \subseteq Res
      BY <1>1, <1>3 DEF DeletedRight
    <2> QED
      BY <2>1, <2>2, <2>3 DEF Range
  <1>5. mOldestOrphan \in Ages /\ held \in [Res -> 0 .. MaxHeld] /\ got \in Res \cup {Null}
    BY <1>1 DEF AgesRight, HeldRight, GotRight
  <1>6. DOMAIN object \subseteq Res
    BY <1>2 DEF Well
  <1> QED
    BY <1>3, <1>4, <1>5, <1>6 DEF TypeOK

\* The state is always one the program can be in: maps from names to resources, counters
\* and ages within their ranges.
THEOREM TypesRight == Spec => []TypeOK
  BY ResourcesInvHolds, InvTypeOK, PTL

LEMMA InvNoDangling ==
    ASSUME ResourcesInv
    PROVE  NoDangling
  <1>1. /\ ObjectsRight /\ HeldRight /\ CountsRight /\ NoClaims /\ CacheRight /\ OrphanRight
        /\ DeletedRight /\ StackRight /\ MovesRight /\ GotRight
    BY DEF ResourcesInv
  <1>2. \A r \in Range(mResources) \cup Range(mOrphanedResources) \cup mDeletedResources : Alive(r)
    BY <1>1 DEF CacheRight, OrphanRight, DeletedRight, Range, Alive
  <1>3. \A r \in Res : held[r] > 0 => Alive(r)
    <2> SUFFICES ASSUME NEW r \in Res, held[r] > 0 PROVE Alive(r)
      OBVIOUS
    <2>1. held[r] # 0
      OBVIOUS
    <2> QED
      BY <1>1, <2>1, Referred DEF Alive
  <1>4. \A x \in DOMAIN object : \A r \in Range(object[x].holds) : Alive(r)
    BY <1>1, HeldAlive DEF Range, Alive
  <1>5. got # Null => Alive(got)
    <2> SUFFICES ASSUME got # Null PROVE Alive(got)
      OBVIOUS
    <2>1. got \in Res
      BY <1>1 DEF GotRight
    <2> QED
      BY <1>1, <2>1, Referred DEF Alive
  <1>6. ASSUME NEW i \in DOMAIN calls, "res" \in DOMAIN calls[i], calls[i].res # Null
        PROVE  Alive(calls[i].res)
    <2>1. PICK c \in CallType : c = calls[i]
      BY <1>1 DEF StackRight
    <2>2. /\ c.op \in {"decRef", "delete", "moveToDeleted", "decRefDelete", "moved"}
          /\ c.res \in Res
      BY <1>6, <2>1, CallFacts
    <2>3. CASE c.op \in {"decRef", "moveToDeleted", "decRefDelete"}
      <3>1. i \in Pending(calls, c.res)
        BY <2>1, <2>3 DEF Pending
      <3> QED
        BY <1>1, <2>1, <2>2, <3>1, Referred DEF Alive
    <2>4. CASE c.op = "moved"
      BY <1>1, <2>1, <2>4 DEF MovesRight, MoveRight, Alive
    <2>5. CASE c.op = "delete"
      <3>1. calls # <<>> /\ i = 1
        <4>1. calls # <<>>
          BY EmptyMap
        <4>2. i \notin 2 .. Len(calls)
          BY <1>1, <2>1, <2>5, <4>1, TopIs DEF MayStandOn
        <4>3. i \in 1 .. Len(calls)
          BY <1>1 DEF StackRight
        <4>4. Len(calls) \in Nat
          BY <1>1 DEF StackRight
        <4> QED
          BY <4>1, <4>2, <4>3, <4>4
      <3>2. Doomed(c.res)
        BY <1>1, <2>1, <2>5, <3>1, TopIs DEF Doomed
      <3> QED
        BY <1>1, <2>1, <2>2, <3>2 DEF NoClaims, Alive
    <2> QED
      BY <2>2, <2>3, <2>4, <2>5
  <1> SUFFICES ASSUME NEW r \in Range(mResources) \cup Range(mOrphanedResources)
                       \cup mDeletedResources
              \cup {x \in Res : held[x] > 0}
              \cup (UNION {Range(object[x].holds) : x \in DOMAIN object})
              \cup {got}
              \cup {calls[i].res : i \in {j \in DOMAIN calls : "res" \in DOMAIN calls[j]}},
                      r # Null
               PROVE  Alive(r)
    BY DEF NoDangling
  <1>7. CASE r \in {calls[i].res : i \in {j \in DOMAIN calls : "res" \in DOMAIN calls[j]}}
    BY <1>6, <1>7
  <1>8. CASE r \in UNION {Range(object[x].holds) : x \in DOMAIN object}
    BY <1>4, <1>8
  <1>9. CASE r \in {x \in Res : held[x] > 0}
    BY <1>3, <1>9
  <1>10. CASE r \in {got}
    BY <1>5, <1>10
  <1>11. CASE r \in Range(mResources) \cup Range(mOrphanedResources) \cup mDeletedResources
    BY <1>2, <1>11
  <1> HIDE DEF Alive
  <1> QED
    BY <1>7, <1>8, <1>9, <1>10, <1>11

\* Nobody ever keeps a pointer to a resource that was deleted.
THEOREM NoDanglingHolds == Spec => []NoDangling
  BY ResourcesInvHolds, InvNoDangling, PTL

LEMMA InvIdle ==
    ASSUME ResourcesInv
    PROVE  CountsExact /\ NoneLost /\ OrphansRight
  <1> SUFFICES ASSUME Idle
               PROVE  CountsExact /\ NoneLost /\ OrphansRight
    BY DEF CountsExact, NoneLost, OrphansRight
  <1>1. /\ ObjectsRight /\ HeldRight /\ CountsRight /\ NoClaims /\ CacheRight /\ OrphanRight
        /\ DeletedRight /\ FoundAgain /\ StackRight /\ GotRight /\ AgesRight
    BY DEF ResourcesInv
  <1>2. calls = <<>> /\ \A r : ~Doomed(r)
    BY NotDoomed DEF Idle
  <1>3. \A i \in DOMAIN calls : FALSE
    BY <1>2, EmptyMap
  <1>4. CountsExact
    <2> SUFFICES ASSUME NEW r \in DOMAIN object
                 PROVE  object[r].mRefCount =
                          held[r] + Holding(object, r) + Keeping(object, r) + Bit(object[r].mProtected)
      BY DEF CountsExact, Holding, Keeping, Bit
    <2>1. r \in Res
      BY <1>1 DEF ObjectsRight
    <2>2. object[r].mRefCount = Claims(r)
      BY <1>1, <1>2 DEF CountsRight
    <2>3. Owed(calls, r) = 0
      BY <1>2, OwedEmpty
    <2>4. Bit(got = r) = 0
      BY <1>1, <1>2, <2>1, ResFacts DEF GotRight, Bit
    <2>5. Kept(r) \in Nat
      BY <1>1, <2>1, Counted
    <2>6. Claims(r) = Kept(r)
      BY <2>3, <2>4, <2>5 DEF Claims
    <2> QED
      BY <2>2, <2>6 DEF Kept
  <1>5. NoneLost
    BY <1>1, <1>2 DEF NoneLost, FoundAgain
  <1>6. OrphansRight
    <2> SUFFICES ASSUME NEW i \in DOMAIN mOrphanedResources, NEW r, r = mOrphanedResources[i]
                 PROVE  /\ object[r].mRefCount = 0
                        /\ r \notin Range(mResources) \cup mDeletedResources
                        /\ object[r].mTimeStamp <= mOldestOrphan
      BY DEF OrphansRight
    <2>1. object[r].mRefCount = 0
      BY <1>1 DEF OrphanRight
    <2>2. r \notin Range(mResources)
      BY <1>1, <2>1 DEF CacheRight, Range
    <2>3. r \notin mDeletedResources
      BY <1>1, <2>1 DEF DeletedRight
    <2>4. object[r].mTimeStamp <= mOldestOrphan
      BY <1>1, <1>3 DEF AgesRight, Sweeping, NoneOlder
    <2> QED
      BY <2>1, <2>2, <2>3, <2>4
  <1> QED
    BY <1>4, <1>5, <1>6

\* Between calls each counter is the number of references there are.
THEOREM CountsExactHolds == Spec => []CountsExact
  BY ResourcesInvHolds, InvIdle, PTL

\* Between calls what nobody refers to is an orphan, under its own name.
THEOREM NoneLostHolds == Spec => []NoneLost
  BY ResourcesInvHolds, InvIdle, PTL

\* Between calls an orphan has no references, is in no other list, and is not older than
\* the manager believes.
THEOREM OrphansRightHolds == Spec => []OrphansRight
  BY ResourcesInvHolds, InvIdle, PTL

LEMMA InvSweepValid ==
    ASSUME ResourcesInv
    PROVE  SweepValid
  BY DEF ResourcesInv, SweepsRight, SweepRight, SweepValid

\* A loop over the orphans keeps its place while what it deletes changes the map.
THEOREM SweepValidHolds == Spec => []SweepValid
  BY ResourcesInvHolds, InvSweepValid, PTL

=============================================================================
