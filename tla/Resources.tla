------------------------------ MODULE Resources ------------------------------
(***************************************************************************)
(* ResourceManager, Resource, and the resources that hold others: image    *)
(* sets (their tiles keep the image they were cut from), sprite            *)
(* definitions (their image sets) and texture atlases (their texture and   *)
(* its parts).  All of it runs on the main thread.  What is hard is that   *)
(* calls nest: the last decRef releases or deletes a resource, whose       *)
(* destructor calls decRef for what it holds, while a loop over the same   *)
(* maps may be under way further up the stack.  So the stack of calls is   *)
(* part of the state, and each step runs the call on its top.              *)
(*                                                                         *)
(* An identifier is the number of its place in the order of a std::map.    *)
(* A resource is its identifier and the number of its copy: there may be   *)
(* several, and the number of a copy that was deleted is used again.       *)
(***************************************************************************)
EXTENDS Integers, Sequences, FiniteSets, SequencesExt, Functions

CONSTANTS
    Images, Sets, Sprites, Atlases, Textures,  \* identifiers of each kind
    ImageOf,     \* [Sets -> Images]: the file an image set is cut from
    Tiles,       \* [Sets -> Nat]: into how many tiles
    SetOf,       \* [Sprites -> Sets]
    FilesOf,     \* [Atlases -> Seq(Images)]: a file may be listed twice
    Layouts,     \* [Atlases -> sets of layouts]
    Wallpapers,  \* images that are given back through decRefDelete
    LongLived,   \* settings.uselonglivesprites
    Limit,       \* 30 seconds, in the units of Tick
    Asked,       \* identifiers the game asks for itself
    Copies,      \* bound: resources with the same identifier
    Memory,      \* bound: resources that exist when the game asks for another
    MaxHeld      \* bound: references to one resource held by the game

\* What an atlas may be made of its files: the parts of a texture and then the texture,
\* for one texture after the other.  It depends on which files can be read and on their
\* sizes; there may be no texture at all.
Layout(a) ==
    {s \in Seq(Range(FilesOf[a]) \cup Textures) : s # <<>> => Last(s) \in Textures}

Ids == Images \cup Sets \cup Sprites \cup Atlases \cup Textures
Res == Ids \X (1 .. Copies)
Id(r) == r[1]
Null == <<0, 0>>

ASSUME ResourcesAssumption ==
    /\ Ids \subseteq Nat \ {0}
    /\ ImageOf \in [Sets -> Images] /\ Tiles \in [Sets -> Nat]
    /\ SetOf \in [Sprites -> Sets]
    /\ FilesOf \in [Atlases -> Seq(Images)]
    /\ DOMAIN Layouts = Atlases /\ \A a \in Atlases : \A s \in Layouts[a] : s \in Layout(a)
    /\ Wallpapers \subseteq Images /\ LongLived \in BOOLEAN
    \* A name tells what kind of resource it is the name of.
    /\ Images \cap (Sets \cup Sprites \cup Atlases \cup Textures) = {}
    /\ Sets \cap (Sprites \cup Atlases \cup Textures) = {}
    /\ Sprites \cap (Atlases \cup Textures) = {} /\ Atlases \cap Textures = {}
    \* The game's data: no wallpaper is listed in an atlas.
    /\ \A a \in Atlases : Range(FilesOf[a]) \cap Wallpapers = {}
    /\ Asked \subseteq Ids \ Textures
    /\ Limit \in Nat /\ Copies \in Nat /\ Memory \in Nat /\ MaxHeld \in Nat

VARIABLES
    mResources, mOrphanedResources,  \* functions from some identifiers to resources
    mDeletedResources,
    mOldestOrphan,  \* age of the oldest orphan, as the manager believes
    object,         \* the resources that exist
    held,           \* references held by the rest of the game
    calls,          \* the calls that are running, innermost first
    got             \* what the last get returned

maps == <<mResources, mOrphanedResources, mDeletedResources, mOldestOrphan>>
vars == <<maps, object, held, calls, got>>

\* Times are ages, counted up to the first that is past the limit.
Ages == 0 .. Limit + 1
Older(a, b) == IF a > b THEN a ELSE b

\* holds lists what the destructor gives back.
New(count, holds) ==
    [mRefCount |-> count, mTimeStamp |-> 0, mProtected |-> FALSE, holds |-> holds]
Alive(r) == r \in DOMAIN object
Room(id) == {k \in 1 .. Copies : ~Alive(<<id, k>>)}
Fresh(id) == <<id, CHOOSE k \in Room(id) : \A j \in Room(id) : k <= j>>
IsAtlas(r) == Id(r) \in Atlases

\* map.find(id), and find(res->mIdPath) finding res itself
At(map, id) == IF id \in DOMAIN map THEN map[id] ELSE Null
Has(map, r) == At(map, Id(r)) = r
Without(map, k) == Restrict(map, DOMAIN map \ {k})
With(map, k, v) == [i \in DOMAIN map \cup {k} |-> IF i = k THEN v ELSE map[i]]
Over(f, g) == [i \in DOMAIN f \cup DOMAIN g |-> IF i \in DOMAIN f THEN f[i] ELSE g[i]]
Insert(map, k, v) == IF k \in DOMAIN map THEN map ELSE With(map, k, v)

\* Iterators: the first key from k on, or End.
End == 0
From(map, k) == LET later == {i \in DOMAIN map : i >= k}
                IN  IF later = {} THEN End ELSE CHOOSE i \in later : \A j \in later : i <= j

----------------------------------------------------------------------------
(* The stack of calls.  Run(op) is the innermost call; a step puts what it *)
(* calls in turn before the rest.                                          *)

Top == Head(calls)
Running(op) == calls # <<>> /\ Top.op = op
Then(s) == calls' = s \o Tail(calls)
Idle == calls = <<>>

Call(op, r) == [op |-> op, res |-> r]
Calls(op, s) == [i \in DOMAIN s |-> Call(op, s[i])]

Init ==
    /\ mResources = <<>> /\ mOrphanedResources = <<>> /\ mDeletedResources = {}
    /\ mOldestOrphan = 0
    /\ object = <<>> /\ held = [r \in Res |-> 0]
    /\ calls = <<>> /\ got = Null

----------------------------------------------------------------------------
(* References.                                                             *)

\* A mistake the runs must find: an injected part is not counted.
IncRefPlain(objects, r) == [objects EXCEPT ![r].mRefCount = @ + 1]

\* Resource::incRef.  An atlas that nobody used before puts its texture and the
\* texture's parts into mResources, whatever was there (injectToResources,
\* addResource).
IncRef(objects, r) ==
    LET inject == IF IsAtlas(r) /\ objects[r].mRefCount = 0
                  THEN Range(objects[r].holds) ELSE {}
    IN  [x \in DOMAIN objects |->
           IF x = r \/ x \in inject THEN [objects[x] EXCEPT !.mRefCount = @ + 1]
                                    ELSE objects[x]]

\* Of two with the same name the last stays there.
LastOf(h, id) == h[CHOOSE i \in DOMAIN h : /\ Id(h[i]) = id
                                           /\ \A j \in DOMAIN h : Id(h[j]) = id => j <= i]
Injected(objects, r) ==
    IF IsAtlas(r) /\ objects[r].mRefCount = 0
    THEN [id \in {Id(x) : x \in Range(objects[r].holds)} |-> LastOf(objects[r].holds, id)]
    ELSE <<>>

\* ResourceManager::release of a resource whose last reference is gone: what the
\* maps are after it, and what it deletes at once.
MustDelete(r) == r \in mDeletedResources \/ ~Has(mResources, r)

\* A mistake the runs must find: what was deleted stays in the list of the deleted.
ReleaseForgets(r) ==
    /\ UNCHANGED mDeletedResources
    /\ IF MustDelete(r)
       THEN UNCHANGED <<mResources, mOrphanedResources, mOldestOrphan>>
       ELSE /\ mResources' = Without(mResources, Id(r))
            /\ mOrphanedResources' = Insert(mOrphanedResources, Id(r), r)
            /\ mOldestOrphan' = IF mOrphanedResources = <<>> THEN 0 ELSE mOldestOrphan

Release(r) ==
    /\ mDeletedResources' = mDeletedResources \ {r}
    /\ IF MustDelete(r)
       THEN UNCHANGED <<mResources, mOrphanedResources, mOldestOrphan>>
       ELSE /\ mResources' = Without(mResources, Id(r))
            /\ mOrphanedResources' = Insert(mOrphanedResources, Id(r), r)
            /\ mOldestOrphan' = IF mOrphanedResources = <<>> THEN 0 ELSE mOldestOrphan

\* AtlasResource::decRef goes on after Resource::decRef: without references its parts
\* leave the cache, of each texture the texture first.
IsTexture(r) == Id(r) \in Textures
Texture(h, i) ==   \* the place of the texture that h[i] belongs to
    CHOOSE j \in i .. Len(h) : IsTexture(h[j]) /\ \A k \in i .. j - 1 : ~IsTexture(h[k])
TextureFirst(h) ==
    [i \in DOMAIN h |-> IF i = 1 \/ IsTexture(h[i - 1]) THEN h[Texture(h, i)] ELSE h[i - 1]]
Retired(r) == IF IsAtlas(r) /\ object[r].mRefCount <= 1
              THEN Calls("moveToDeleted", TextureFirst(object[r].holds)) ELSE <<>>

DecRef ==
    /\ Running("decRef")
    /\ LET r == Top.res
           n == object[r].mRefCount
       IN  /\ object' = [object EXCEPT ![r].mRefCount = IF n = 0 THEN 0 ELSE n - 1,
                                       ![r].mTimeStamp = IF n = 1 THEN 0 ELSE @]
           /\ IF n = 1 THEN Release(r) ELSE UNCHANGED maps
           /\ Then((IF n = 1 /\ MustDelete(r) THEN <<Call("delete", r)>> ELSE <<>>)
                     \o Retired(r))
    /\ UNCHANGED <<held, got>>

\* The destructors of ImageSet, SubImage, SpriteDef, AtlasResource.
Delete ==
    /\ Running("delete")
    /\ object' = Without(object, Top.res)
    /\ Then(Calls("decRef", object[Top.res].holds)
              \o IF IsAtlas(Top.res) THEN <<Call("clearDeleted", Null)>> ELSE <<>>)
    /\ UNCHANGED <<maps, held, got>>

\* ResourceManager::moveToDeleted: decRef, and then out of the maps.
MoveToDeleted ==
    /\ Running("moveToDeleted")
    /\ Then(<<Call("decRef", Top.res),
              [op |-> "moved", res |-> Top.res, count |-> object[Top.res].mRefCount]>>)
    /\ UNCHANGED <<maps, object, held, got>>

Moved ==
    /\ Running("moved")
    /\ LET r == Top.res
           found == Has(mResources, r) \/ Has(mOrphanedResources, r)
       IN  /\ mResources' = IF Has(mResources, r)
                            THEN Without(mResources, Id(r)) ELSE mResources
           /\ mOrphanedResources' =
                IF ~Has(mResources, r) /\ Has(mOrphanedResources, r)
                THEN Without(mOrphanedResources, Id(r)) ELSE mOrphanedResources
           /\ mDeletedResources' = mDeletedResources \cup
                                     (IF found /\ Top.count > 1 THEN {r} ELSE {})
           /\ Then(IF found /\ Top.count <= 1 THEN <<Call("delete", r)>> ELSE <<>>)
    /\ UNCHANGED <<mOldestOrphan, object, held, got>>

\* clearDeleted(false): one at a time, from the beginning again after each.
ClearDeleted ==
    /\ Running("clearDeleted")
    /\ LET unused == {r \in mDeletedResources : object[r].mRefCount = 0}
           r == CHOOSE x \in unused : TRUE
       IN  IF unused = {} THEN Then(<<>>) /\ UNCHANGED mDeletedResources
           ELSE /\ mDeletedResources' = mDeletedResources \ {r}
                /\ Then(<<Call("delete", r), Top>>)
    /\ UNCHANGED <<mResources, mOrphanedResources, mOldestOrphan, object, held, got>>

\* decRefDelete: the last reference takes the resource out of the maps.
DecRefDelete ==
    /\ Running("decRefDelete")
    /\ LET r == Top.res
       IN  IF object[r].mRefCount # 1
           THEN Then(<<Call("decRef", r)>>) /\ UNCHANGED maps
           ELSE /\ Then(<<Call("delete", r)>>)
                /\ mResources' = IF Has(mResources, r) THEN Without(mResources, Id(r))
                                                        ELSE mResources
                /\ mOrphanedResources' =
                     IF ~Has(mResources, r) /\ Has(mOrphanedResources, r)
                     THEN Without(mOrphanedResources, Id(r)) ELSE mOrphanedResources
                /\ UNCHANGED <<mDeletedResources, mOldestOrphan>>
    /\ UNCHANGED <<object, held, got>>

----------------------------------------------------------------------------
(* ResourceManager::get and the loaders.                                   *)

Load(id) == [op |-> "get", id |-> id]
Make(op, id) == [op |-> op, id |-> id]

\* getFromCache: in use already ...
GetCached ==
    /\ Running("get") /\ Top.id \in DOMAIN mResources
    /\ LET r == mResources[Top.id]
       IN  /\ got' = r
           /\ object' = IncRef(object, r)
           /\ mResources' = Over(Injected(object, r), mResources)
    /\ Then(<<>>)
    /\ UNCHANGED <<mOrphanedResources, mDeletedResources, mOldestOrphan, held>>

\* ... or given up but not deleted yet.
GetOrphan ==
    /\ Running("get") /\ Top.id \notin DOMAIN mResources
    /\ Top.id \in DOMAIN mOrphanedResources
    /\ LET r == mOrphanedResources[Top.id]
       IN  /\ got' = r
           /\ object' = [IncRef(object, r) EXCEPT ![r].mTimeStamp = 0]
           /\ mResources' = Over(Injected(object, r), With(mResources, Top.id, r))
    /\ mOrphanedResources' = Without(mOrphanedResources, Top.id)
    /\ Then(<<>>)
    /\ UNCHANGED <<mDeletedResources, mOldestOrphan, held>>

Missed(kind) == /\ Running("get") /\ Top.id \in kind
                /\ Top.id \notin DOMAIN mResources \cup DOMAIN mOrphanedResources

\* A mistake the runs must find: the cache keeps the null pointer.
GetNothingCached ==
    /\ Missed(Images \cup Sprites)
    /\ got' = Null /\ mResources' = With(mResources, Top.id, Null)
    /\ Then(<<>>)
    /\ UNCHANGED <<mOrphanedResources, mDeletedResources, mOldestOrphan, object, held>>

\* An image or a sprite that cannot be read.
GetNothing ==
    /\ Missed(Images \cup Sprites)
    /\ got' = Null
    /\ Then(<<>>) /\ UNCHANGED <<maps, object, held>>

Created(objects, record) ==
    LET r == Fresh(Top.id)
    IN  /\ object' = With(objects, r, record)
        /\ mResources' = With(mResources, Top.id, r)
        /\ got' = r
        /\ UNCHANGED <<mOrphanedResources, mDeletedResources, mOldestOrphan, held>>

GetImage ==
    /\ Missed(Images)
    /\ Created(object, New(1, <<>>))
    /\ Then(<<>>)

\* The loaders of sets, sprites and atlases get what they need first.
GetParts ==
    /\ Missed(Sets \cup Sprites \cup Atlases)
    /\ Then(CASE Top.id \in Sets -> <<Load(ImageOf[Top.id]), Make("newSet", Top.id)>>
              [] Top.id \in Sprites -> <<Load(SetOf[Top.id]), Make("newSprite", Top.id)>>
              [] Top.id \in Atlases ->
                   [i \in DOMAIN FilesOf[Top.id] |-> Make("retire", FilesOf[Top.id][i])]
                     \o <<Make("newAtlas", Top.id)>>)
    /\ UNCHANGED <<maps, object, held, got>>

\* ImageSetLoader: the tiles of a part of a texture are cut from the texture.
NewSet ==
    /\ Running("newSet")
    /\ IF got = Null
       THEN Then(<<>>) /\ UNCHANGED <<maps, object, held, got>>
       ELSE LET base == IF object[got].holds = <<>> THEN got ELSE Head(object[got].holds)
                n == Tiles[Top.id]
            IN  /\ Created([object EXCEPT ![base].mRefCount = @ + n],
                           New(1, [i \in 1 .. n |-> base]))
                /\ Then(<<Call("decRef", got)>>)

\* SpriteDef::load, with a reference of its own when sprites live long.
NewSprite ==
    /\ Running("newSprite")
    /\ Created(object,
               [New(IF LongLived THEN 2 ELSE 1, IF got = Null THEN <<>> ELSE <<got>>)
                  EXCEPT !.mProtected = LongLived])
    /\ Then(<<>>)

\* loadImages: what the cache has of an atlas's file is moved to the deleted ones.
Retire ==
    /\ Running("retire")
    /\ LET r == At(mResources, Top.id)
       IN  IF r = Null
           THEN Then(<<>>) /\ UNCHANGED object
           ELSE /\ object' = [object EXCEPT ![r].mRefCount = @ + 1]
                /\ Then(<<Call("moveToDeleted", r)>>)
    /\ UNCHANGED <<maps, held, got>>

\* New resources for the places of a layout.
Pieces(s) ==
    {h \in {[i \in DOMAIN s |-> <<s[i], k[i]>>] : k \in [DOMAIN s -> 1 .. Copies]} :
       IsInjective(h) /\ \A i \in DOMAIN s : ~Alive(h[i])}

\* convertAtlas: a texture, with a reference of its own and one of each part, and the
\* part at place i, with one and keeping its texture.
Piece(h, i) ==
    IF IsTexture(h[i])
    THEN New(Cardinality({j \in DOMAIN h : Texture(h, j) = i}), <<>>)
    ELSE New(1, <<h[Texture(h, i)]>>)

\* The first incRef of the new atlas injects all its pieces.  Bound: there is room for
\* them.
NewAtlas ==
    /\ Running("newAtlas")
    /\ \E s \in Layouts[Top.id] :
         LET h == CHOOSE p \in Pieces(s) : TRUE
             place(x) == CHOOSE i \in DOMAIN h : h[i] = x
             atlas == Fresh(Top.id)
             made == With(Over([x \in Range(h) |-> Piece(h, place(x))], object),
                          atlas, New(0, h))
         IN  /\ Pieces(s) # {}
             /\ got' = atlas
             /\ object' = IncRef(made, atlas)
             /\ mResources' = With(Over(Injected(made, atlas), mResources), Top.id, atlas)
    /\ Then(<<>>)
    /\ UNCHANGED <<mOrphanedResources, mDeletedResources, mOldestOrphan, held>>

Hold ==
    /\ Running("hold")
    /\ held' = IF got = Null THEN held ELSE [held EXCEPT ![got] = @ + 1]
    /\ got' = Null
    /\ Then(<<>>) /\ UNCHANGED <<maps, object>>

----------------------------------------------------------------------------
(* The manager's loops.                                                    *)

\* A mistake the runs must find: the count goes down, and nobody is told.
UnprotectPlain ==
    /\ Running("unprotect")
    /\ LET protected == {i \in DOMAIN mResources : object[mResources[i]].mProtected}
           r == mResources[CHOOSE i \in protected : \A j \in protected : i <= j]
       IN  IF protected = {} THEN Then(<<>>) /\ UNCHANGED object
           ELSE /\ object' = [object EXCEPT ![r].mProtected = FALSE, ![r].mRefCount = @ - 1]
                /\ UNCHANGED calls
    /\ UNCHANGED <<maps, held, got>>

\* cleanProtected: from the beginning again after each decRef.
Unprotect ==
    /\ Running("unprotect")
    /\ LET protected == {i \in DOMAIN mResources : object[mResources[i]].mProtected}
           r == mResources[CHOOSE i \in protected : \A j \in protected : i <= j]
       IN  IF protected = {} THEN Then(<<>>) /\ UNCHANGED object
           ELSE /\ object' = [object EXCEPT ![r].mProtected = FALSE]
                /\ Then(<<Call("decRef", r), Top>>)
    /\ UNCHANGED <<maps, held, got>>

\* cleanOrphans: the loop over the orphans; the iterator is past the orphan before
\* it is deleted.
Sweep(always) ==
    IF mOrphanedResources = <<>> \/ (~always /\ mOldestOrphan <= Limit) THEN <<>>
    ELSE <<[op |-> "sweep", iter |-> From(mOrphanedResources, 1), always |-> always,
            oldest |-> 0]>>

\* Mistakes the runs must find: the oldest of those that stay is not looked for; the
\* iterator is moved on only after the orphan is gone.
SweepOneYoung ==
    /\ Running("sweep") /\ Top.iter # End
    /\ LET r == mOrphanedResources[Top.iter]
           next == [Top EXCEPT !.iter = From(mOrphanedResources, Top.iter + 1)]
       IN  IF ~Top.always /\ object[r].mTimeStamp <= Limit
           THEN Then(<<next>>) /\ UNCHANGED mOrphanedResources
           ELSE /\ mOrphanedResources' = Without(mOrphanedResources, Top.iter)
                /\ Then(<<Call("delete", r), next>>)
    /\ UNCHANGED <<mResources, mDeletedResources, mOldestOrphan, object, held, got>>

SweepOneLate ==
    /\ Running("sweep") /\ Top.iter # End
    /\ LET r == mOrphanedResources[Top.iter]
           next == [Top EXCEPT !.iter = From(mOrphanedResources, Top.iter + 1)]
       IN  IF ~Top.always /\ object[r].mTimeStamp <= Limit
           THEN /\ Then(<<[next EXCEPT !.oldest = Older(object[r].mTimeStamp, Top.oldest)]>>)
                /\ UNCHANGED mOrphanedResources
           ELSE /\ mOrphanedResources' = Without(mOrphanedResources, Top.iter)
                /\ Then(<<Call("delete", r), Top>>)
    /\ UNCHANGED <<mResources, mDeletedResources, mOldestOrphan, object, held, got>>

SweepOne ==
    /\ Running("sweep") /\ Top.iter # End
    /\ LET r == mOrphanedResources[Top.iter]
           t == object[r].mTimeStamp
           next == [Top EXCEPT !.iter = From(mOrphanedResources, Top.iter + 1)]
       IN  IF ~Top.always /\ t <= Limit
           THEN /\ Then(<<[next EXCEPT !.oldest = Older(t, Top.oldest)]>>)
                /\ UNCHANGED mOrphanedResources
           ELSE /\ mOrphanedResources' = Without(mOrphanedResources, Top.iter)
                /\ Then(<<Call("delete", r), next>>)
    /\ UNCHANGED <<mResources, mDeletedResources, mOldestOrphan, object, held, got>>

SweepEnd ==
    /\ Running("sweep") /\ Top.iter = End
    /\ mOldestOrphan' = Top.oldest
    /\ Then(<<>>)
    /\ UNCHANGED <<mResources, mOrphanedResources, mDeletedResources, object, held, got>>

\* clearCache: sweep until a sweep finds nothing.
SweepAgain ==
    /\ Running("sweepAll")
    /\ Then(IF Sweep(TRUE) = <<>> THEN <<>> ELSE Sweep(TRUE) \o <<Top>>)
    /\ UNCHANGED <<maps, object, held, got>>

----------------------------------------------------------------------------
(* The rest of the game, between calls.                                    *)

\* Bound: room for a copy of all that one get may create.
Needed(id) == {id} \cup (IF id \in Sprites THEN {SetOf[id], ImageOf[SetOf[id]]}
                         ELSE IF id \in Sets THEN {ImageOf[id]} ELSE {})

GameGet(id) ==
    /\ Idle /\ \A i \in Needed(id) : Room(i) # {}
    /\ id \in Atlases =>
         \A s \in Layouts[id] : \A i \in DOMAIN s :
           Cardinality({j \in DOMAIN s : s[j] = s[i]}) <= Cardinality(Room(s[i]))
    /\ Cardinality(DOMAIN object) < Memory
    /\ \A k \in 1 .. Copies : held[<<id, k>>] < MaxHeld
    /\ calls' = <<Load(id), [op |-> "hold"]>>
    /\ UNCHANGED <<maps, object, held, got>>

GameDrop(r, how) ==
    /\ Idle /\ held[r] > 0
    /\ how = IF Id(r) \in Wallpapers THEN "decRefDelete" ELSE "decRef"
    /\ held' = [held EXCEPT ![r] = @ - 1]
    /\ calls' = <<Call(how, r)>>
    /\ UNCHANGED <<maps, object, got>>

\* changeMap
CleanProtected ==
    /\ Idle /\ calls' = <<[op |-> "unprotect"]>>
    /\ UNCHANGED <<maps, object, held, got>>

\* Gui::slowLogic, every ten seconds
CleanOrphans ==
    /\ Idle /\ Sweep(FALSE) # <<>>
    /\ calls' = Sweep(FALSE)
    /\ UNCHANGED <<maps, object, held, got>>

ClearCache ==
    /\ Idle /\ calls' = <<[op |-> "unprotect"], [op |-> "sweepAll"]>>
    /\ UNCHANGED <<maps, object, held, got>>

Tick ==
    /\ Idle /\ mOrphanedResources # <<>>
    /\ \E age \in {mOldestOrphan} \cup {object[r].mTimeStamp : r \in Range(mOrphanedResources)} :
         age <= Limit
    /\ object' = [r \in DOMAIN object |->
                    IF r \in Range(mOrphanedResources) /\ object[r].mTimeStamp <= Limit
                    THEN [object[r] EXCEPT !.mTimeStamp = @ + 1] ELSE object[r]]
    /\ mOldestOrphan' = IF mOldestOrphan <= Limit THEN mOldestOrphan + 1 ELSE mOldestOrphan
    /\ UNCHANGED <<mResources, mOrphanedResources, mDeletedResources, held, calls, got>>

----------------------------------------------------------------------------
Step ==
    \/ DecRef \/ Delete \/ MoveToDeleted \/ Moved \/ ClearDeleted \/ DecRefDelete
    \/ GetCached \/ GetOrphan \/ GetNothing \/ GetImage \/ GetParts
    \/ NewSet \/ NewSprite \/ Retire \/ NewAtlas \/ Hold
    \/ Unprotect \/ SweepOne \/ SweepEnd \/ SweepAgain

Game ==
    \/ \E id \in Asked : GameGet(id)
    \/ \E r \in Res : \E how \in {"decRef", "decRefDelete"} : GameDrop(r, how)
    \/ CleanProtected \/ ClearCache

Next == Step \/ Game \/ CleanOrphans \/ Tick

Spec == Init /\ [][Next]_vars

----------------------------------------------------------------------------
(* Properties.                                                             *)

\* The references to r that other resources hold, each with its place in their lists,
\* and the atlases in use whose parts, or texture, it is.
Holders(objects, r) ==
    UNION {{x} \X {i \in DOMAIN objects[x].holds : objects[x].holds[i] = r} :
             x \in DOMAIN objects}
Keepers(objects, r) ==
    {a \in DOMAIN objects :
       IsAtlas(a) /\ objects[a].mRefCount > 0 /\ r \in Range(objects[a].holds)}

\* The maps hold resources, each counter is within what fits, and the calls under
\* way are of resources that exist.
TypeOK ==
    /\ DOMAIN mResources \cup DOMAIN mOrphanedResources \subseteq Ids
    /\ Range(mResources) \cup Range(mOrphanedResources) \cup mDeletedResources \subseteq Res
    /\ mOldestOrphan \in Ages
    /\ DOMAIN object \subseteq Res
    /\ \A r \in DOMAIN object :
         /\ object[r].mRefCount \in Nat /\ object[r].mTimeStamp \in Ages
         /\ object[r].mProtected \in BOOLEAN /\ Range(object[r].holds) \subseteq Res
    /\ held \in [Res -> 0 .. MaxHeld]
    /\ got \in Res \cup {Null}

\* Nobody keeps a pointer to a resource that was deleted: not the maps, not the
\* resources that hold others, not the game, and not a call that goes on after
\* what it called has deleted things (release's delete res, moveToDeleted after its
\* decRef, AtlasResource::decRef after Resource::decRef).
NoDangling ==
    \A r \in Range(mResources) \cup Range(mOrphanedResources) \cup mDeletedResources
              \cup {x \in Res : held[x] > 0}
              \cup (UNION {Range(object[x].holds) : x \in DOMAIN object})
              \cup {got}
              \cup {calls[i].res : i \in {j \in DOMAIN calls : "res" \in DOMAIN calls[j]}} :
        r # Null => Alive(r)

\* Between calls a reference count is the number of references there are: those of
\* the game, of other resources, of the protection of a sprite, and of the cache
\* while the atlas of a texture or a part of it is in use.
CountsExact ==
    Idle => \A r \in DOMAIN object :
        object[r].mRefCount =
            held[r] + Cardinality(Holders(object, r)) + Cardinality(Keepers(object, r))
              + (IF object[r].mProtected THEN 1 ELSE 0)

\* Between calls a resource without references is an orphan, under its own name:
\* it will be found again or deleted, and never lost.
NoneLost ==
    Idle => \A r \in DOMAIN object :
        object[r].mRefCount = 0 => Has(mOrphanedResources, r)

\* And an orphan has no references, is in no other list, and is not older than the
\* manager believes: else it would be deleted in use, twice, or too late.
OrphansRight ==
    Idle => \A i \in DOMAIN mOrphanedResources :
        LET r == mOrphanedResources[i]
        IN  /\ object[r].mRefCount = 0
            /\ r \notin Range(mResources) \cup mDeletedResources
            /\ object[r].mTimeStamp <= mOldestOrphan

\* A loop over the orphans keeps its place while what it deletes changes the map.
SweepValid ==
    \A i \in DOMAIN calls :
        calls[i].op = "sweep" => calls[i].iter \in DOMAIN mOrphanedResources \cup {End}
=============================================================================
