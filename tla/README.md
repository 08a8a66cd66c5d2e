# A TLA+ development of the ManaVerse client

ManaVerse (ManaPlus) is a game client in C++: one main thread that runs the frame
loop, and a few threads of its own making behind it: one that receives from the game
server, one per HTTP download. This directory holds TLA+ modules of the parts where
those threads meet, of the state machine every session runs through, of the resource
cache, whose calls nest, and of the path finding, TLC configurations that check them,
and theorems about them that TLAPS proves. Source paths below are relative to `src/src/` of the repository.

## The system

| Component | State | Operations | Who it talks to |
|---|---|---|---|
| Server connection: `net/ea/network.cpp`, `net/tmwa/network.cpp`, `net/eathena/network.cpp` | `mState`, `mInBuffer`/`mInSize`/`mToSkip`, `mOutBuffer`/`mOutSize`, socket, worker thread | `connect`, `disconnect`, `flush`, `skip`, `dispatchMessages`, `fixSendBuffer`; thread: `realConnect`, `receive` | frame loop (`flushNetwork`), packet handlers, `MessageOut`, the server |
| Server handlers: `net/tmwa`, `net/eathena`, `net/ea` | tokens, server addresses, the dialogs' models | one function per packet | the connection, client state, game objects |
| HTTP download: `net/download.cpp` | mirrors, options (`cancel`), attempts, the `.part` file | `start`, `cancel`, destructor; thread: `downloadThread` | curl, files, the owner's callback |
| Update window: `gui/windows/updaterwindow.cpp` | `mDownloadStatus`, `mDownloadComplete`, list and index, memory buffer | `logic` per frame, keys and buttons, `updateProgress` on the download's thread | one download at a time, client state, virtual files |
| Client state machine: `progs/manaverse/client.cpp` | `mState`, `mOldState`, the current dialog | `gameExec`, `setState` | everything |
| Resource manager: `resources/resourcemanager` , `resources/resource.cpp`, atlases, image sets | live, orphaned and deleted resources, reference counts | `get`, `release`, `cleanOrphans`, `clearDeleted` | all drawing code |
| Map and path finding: `resources/map` | tiles with block masks, and what the last searches left on them | `findPath`, `setBlockMask` | beings, the player, the server's changes of tiles |
| Delayed sprites: `resources/delayedmanager.cpp` | list of sprites to load later | `delayedLoad`, `removeDelayLoad` | sprites |
| Virtual file system: `fs/virtfs` | ordered mounts | mount, unmount, open | files, zip archives, updater |
| Trade, inventory, pin code, packet limiter, actors, IPC | small tables and dialogs' states | packet handlers and clicks | the server |
| GUI, rendering, input, particles, sound, databases, configuration | presentation and tables | | |

What is hard to test here: the receiving thread shares `mState` and the bytes of
`mInBuffer` with the main thread without a lock; a packet handler disconnects from
within the loop that called it; a download is cancelled at any point of its retries;
the updater's status is written by two threads without a lock; resources are deleted
some time after they were released and may be asked for again in between, and a
destructor that gives back what it holds changes the maps somebody is iterating over;
`Client::mState` is assigned by packet handlers, dialogs and the entry of states, and
only the last assignment of a frame counts; a search for a path starts on tiles that
keep the marks of all the searches before it.
`PROJECT.json` lists these hazards at their lines, with the properties that cover them.

What makes each component correct:

- connection: handlers see whole messages of the current connection, in order, none
  twice; buffers stay in their arrays; one thread and one socket at a time; an error
  reaches the user;
- download: "complete" means that the right file is stored, if files can be removed and
  renamed; a stored file is never replaced by half of one; cancelling ends the thread;
- updater: the update is over only when the listed files are there; nobody reads what
  the other thread still writes; the player gets out;
- resource manager: nothing that is referenced is deleted, nothing is deleted twice,
  what is released is deleted in the end;
- client state machine: each state has the connection it talks over, and no state keeps
  one it has no use for; who waits for an answer has asked; an error is shown;
- path finding: a path is one the being can walk and one of the shortest, and none is
  given only when there is none.

## Modules

- `Network.tla`: the connection, and the refinement mapping to `MessageStream.tla`, the
  abstract specification of what it promises to packet handlers. `MCNetwork.tla` gives
  TLC its instances.
- `Download.tla`: a download and its owner's calls. `MCDownload.tla`.
- `Updater.tla`: the update window; it EXTENDS `Download` and composes each of its own
  steps with the step of the download that it makes. `MCUpdater.tla`.
- `Client.tla`: the state machine with its dialogs and an abstract connection.
  `Session.tla` is the abstract specification of the course of a session; `stage` in
  `Client` is the refinement mapping.
- `Resources.tla`: the resource manager with image sets, sprites and atlases.
  `MCResources.tla`.
- `PathFinding.tla`: `Map::findPath` and the tiles. `MCPathFinding.tla`.
- `Network_proofs.tla`, `NetworkBuffer_proofs.tla`, `Download_proofs.tla`,
  `Updater_proofs.tla`, `Client_proofs.tla`, `ClientSession_proofs.tla`,
  `Resources_proofs.tla`, `PathFinding_proofs.tla`: theorems.

A definition that begins with the comment "Mutant:" or "A mistake the runs must find:"
is no part of the model. It is a wrong version of the definition after it;
`PROJECT.json` says which property TLC finds violated when it takes its place.

### Network

The main thread is a small program: `pc` is its step and `ret` the step a call returns
to. A call that is atomic for the other thread (what is done under `mMutexIn`, or reads
and writes one shared variable) is one action; `flush` is two, because it looks at
`mState` first and sends later; `fixSendBuffer` looks at `mState` itself and again
through `flush`; `disconnect` sets `mState` in one step and waits in another;
`dispatchMessages` is one step for `messageReady`, one for the header, one for the
handler, one for `skip`. The worker of each session is a step label in `worker[s]`.
A session is one successful `createThread`; sessions are numbered, and the socket of a
session is its number.

Abstractions. A byte is the message it belongs to and its offset, so that the buffer's
contents can be compared with messages. A packet is its kind and its length, taken from
the table of registered lengths as in the code (-1 for variable, 0 for unregistered);
its content is left out. Handlers are of three sorts: those that only read (one may
pause dispatching, as `GameRecv::processMapLogin` does through `pauseDispatch`), those
that write an answer, and those that redirect (`processCharMapInfo`,
`processChangeMapServer`: `disconnect`, then `setState`). The two subclasses of
`Ea::Network` have the same dispatch loop, so one model stands for both. The unlocked
reads and writes of the enum `mState` are a data race in C++; each stands between
calls into libraries the compiler cannot look through, so the model takes every read
to return the value written last. A server may close or send at any time, `send`, `recv`,
`open`, the resolver, the socket set and thread creation may each fail.
`client` keeps of `Client::mState` what the network needs: that a redirect awaits its
`GameHandler::connect`, or that an error was shown.

### Download

One action per step of `downloadThread` between two points at which somebody else could
see a difference: a callback, a change of a file, a look at the cancel flag. A file's
content is one of `none`, `partial`, `wrong`, `good`; the checksum tells `good` from the
rest, the XML check refuses `none` and `partial` and may accept `wrong`. curl's transfer
asks the callback any number of times, may be refused, may fail, or succeed with
whatever the server sent. The callback is a step of its own: the thread is "asking" or
"telling" while it runs. Nobody looks at the results of `remove` and `renameFile`
(461-462), and each may fail: the file is replaced (`Replace`), gone without another in its
place (`RemoveOnly`), or the old one stays (`LeaveOld`), as on Windows while a mounted
archive is open; what is looked at is whether some file of that name can then be opened.
`stayed` is history, read by properties only: the old files that stayed so. `cancel()` is
two steps: the flag, and the return of `WaitThread`. Left out: `isTerminate` (it acts like a cancel at program exit), headers,
proxies and curl handles, and the bytes of a download kept in memory.

### Updater

Nothing that the two threads share is under a lock, so every read and write of
`mDownloadStatus` and `mDownloadComplete` is a step: `Look` is the switch of `logic()`, which
reads the first, and the actions of `Frame` its branches, which read the second and write.
On the other thread `updateProgress` runs while the download is "asking" or "telling":
`Enter`, then `LookAtStage`, `Fail`, `Ignore`, `Flag` and `Free` in the order of the lines, and
`Answer`, which is what it returns. Its label, which reads `mCurrentFile`, belongs to
`Answer`. A branch of `logic()` with what it writes is one step: once it is taken, all that
the other thread may still do to what both share is to set the flag, which the branch does
not read again, and to free the buffer (`QuietWhenComplete`).
The player's actions are the buttons and keys of the window; `Leave` is the deletion of the
window by `gameExec` once the client's state has changed. A frame that begins the next
download goes on in `Deleted` and `NextDownload`, when the former one's `cancel()` has
returned.

Seen on the way: when the news cannot be had, `logic()` may have read NEWS (797) before the
thread writes COMPLETE and the flag (527-528); it then sees the flag (818) and runs
`loadNews()`, which reads and frees `mMemoryBuffer`, while the thread frees it (529). And
the thread copies `mCurrentFile` for its label (552) while `logic()` may assign it. The
comment at 526, "ignoring error in last state (was UPDATE_PATCH)", covers the stage NEWS as
well: without news there is no list, no update, and the window says that it is complete.
Left out: `UPDATE_LIST2` and `UPDATE_RESOURCES2` (the code that would enter them is
commented out), the window opened from within a game (`State::GAME`), the contents of
news and version, the mounting of archives, updates that are turned off by options.
An update list is the same in both formats except that only the XML one has types,
which is what makes a player without music skip a file. A wrong list is taken to name
nothing.

### Client

`pc` is the phase of the main loop: `handleEvents`, `flushNetwork` (one action per
packet, and one that looks for an error), the user's action, `Game::slowLogic`, what the
loop does in a state in every frame, and the entry of a new state. The order matters,
because each phase may overwrite the state that an earlier one has set. `Entering` is
what the loop does with every new state: it leaves the old one, deletes its dialog, the
game and the list of characters; the `Enter...` actions add the cases of the `switch`.

`conn` stands for `Ea::Network`, with what `Network` shows of it: a connection that
exists is not made a second time; disconnecting leaves what was received in the buffer,
where it is still dispatched until the next `connect`; an error may be noticed at the same
time. `asked` is what the server at the other end has not answered; servers are modelled
from what the handlers expect of them: they answer in order, say that there is a problem,
or close. Two fields are history and are read by properties only: `wanted` (the client
made this connection and has not given it up since) and `stray` (it has acted on a
message of a connection it had given up).

The user presses any button that is enabled, once a frame at most. Three habits are the
constant `Careless`, because what the program promises depends on them: to `cancel` the
connection to the game server, to answer a `stale` dialog that an earlier state left
open, and to log in `again` while the first attempt is unanswered. `Client.cfg` has a
user without them; `Lapse` is a step in which the user does one of these things, and the
theorems are about behaviours without such a step (`Careful`). Run with one of them, TLC finds: with `cancel`, `RightServer` and
`GameReady` violated; with `stale`, `RightServer`, `GameReady` and `WaitsForAnswer` (an
OkDialog of a changed password leads to CHAR_SELECT in any state, `client.cpp:224`); with
`again`, `WaitsForAnswer` (the second answer finds the client elsewhere).

Left out: states that tmwAthena servers do not lead to (WORLD_SELECT_ATTEMPT, the change
of an e-mail address, LOGIN_ERROR, WAIT, AUTORECONNECT_SERVER), creating and deleting
characters, pin codes, the update window's stages (`Updater`). What was seen on the way:
`mQuitDialog` is never assigned, so that "it might not be correct anymore"
(`client.cpp:1092`) deletes nothing; the condition of `stateSwitchLogin1` cannot hold;
`mVersionResponse` is never reset, so that at the second login CONNECT_SERVER goes on
before the server's version has come; when the server closes while a login is
waited for, `recv` returns 0, the state is IDLE and nobody tells the user; SDL_QUIT in
the game sets EXIT, which a packet of the same frame may overwrite.

### Resources

The stack of calls is the variable `calls`: a step runs the innermost call and puts
what it calls before the rest, so that a destructor may change the maps under a loop
further out. A resource is an identifier and the number of a copy, because there may be
several resources with one name (one in use, one in `mDeletedResources`); the number of
a deleted copy is used again, as an address may be. `holds` lists what a destructor
gives back: an image set one reference to its image for each tile, a sprite definition
its image set, a part of a texture the texture, an atlas the parts and the texture of each
of its textures. An `std::map`'s order is the order of identifiers, an iterator a key or `End`.

What an atlas is made of is a *layout*, the names of the parts of a texture and of the
texture, for one texture after the other: it depends on which files can be read, on the
sizes of the images and of a texture (`simpleSort`), and no texture is made of one image
(`createSDLAtlas`); the atlas of empty images always has one (`emptySort`). `Layouts` gives
each atlas the set of those that may come about, any set of such sequences in the proofs. A
layout may have a name several times: `readAtlas` appends to `mAtlases`, which
`MapDB::unload` does not clear, so that after a second LOAD_DATA each file of an atlas is
listed twice; then the later piece displaces the earlier from the cache, and two textures
that begin with the same image have one name.

Times are ages, in units of which `Limit` make the thirty seconds. A loader that fails
returns nothing, after whatever it has loaded before. `decRefDelete` is what map code
calls for wallpapers. Left out: `deleteResourceManager`, sounds, music, dyes, resources
of `SDL_Surface`s that are deleted later, and `AnimatedSprite`, which only holds sprites.

`ResourcesAssumption` says two things of names. A name tells the kind of resource,
because each loader is asked for names of a form of its own. No wallpaper is listed in
an atlas: this is true of the game's data and nothing in the code sees to it (`readAtlas`
of `resources/db/mapdb.cpp` takes the list as it is). A texture that the graphics library
cannot make is left out.

Seen on the way: the references that an atlas keeps to its parts are why
`clearDeleted(false)` never finds anything; the image of a texture that is not made, because
it would be the only one there, is never deleted; the delayed load
of a sprite looks into the cache under a name without the prefix that
`SpriteDef` is stored under.

### PathFinding

One action takes a location from the queue and looks at all its neighbours; which of
several with the same cost comes first is open, as it is in `std::priority_queue`. What a
search leaves in the `MetaTile`s is the state in which the next begins: `whichList`,
`Gcost`, the parents. The costs are those of the code, with the defect of 1 on straight
steps and the heuristic truncated to an integer. Between two searches the server may
change tiles (`SetTilesType`). `MaxUInt` is `UINT_MAX`: small in TLC, any number in the
proofs. A map, its calls and its changes are a record, and `Maps` a set of them.
Left out: who calls, and what becomes of the path.

Seen on the way: three diagonal steps cost 423 and the heuristic says 424, against the
comment that it must not be higher than the real cost. The search counts a straight step 1
too dear, and its heuristic falls by up to 142 over a diagonal step, which costs 141. That is
all the harm: the path exceeds the shortest by at most 1 for each step of the latter
(`NearlyShortest`). It need not be the shortest, although the comment at `map.cpp:980` says that "as long as the total defect along any path is less than the basicCost, the
pathfinder will still find one of the shortest paths": on the map `Fork` of `MCPathFinding`
the search returns 10 diagonal and 2 straight steps, which cost 1610, and not the 16 straight
ones, which cost 1600 and have a defect of 16, where `basicCost` is 100. A straight way of
exactly `maxCost` tiles costs `101 * maxCost` and is refused, although `actormanager.h:433` calls it the "allowed max
pathfinder distance". A search for the tile one stands on looks at everything that can
be reached and returns the empty path. `readWalkingAttributes`
(`resources/beingcommon.cpp:75`) compares the whole string in the loop over its tokens,
so that "walk,swim" allows nothing.

## Runs

| Run | Specification | Bounds | States |
|---|---|---|---|
| `NetworkIn` | `Spec` | 2 sessions, 2 messages each, buffer 8, limit 5, prefix 2; four kinds of packet | 437 000 |
| `NetworkOut` | `Spec` | 2 sessions, 1 message, packets of 1 and 2 bytes, buffer 7, limit 3 | 126 000 |
| `NetworkLive` | `FairSpec` | 1 session, 2 messages | 58 000 |
| `Download` | `Spec` | 3 attempts as in the code, 2 mirrors, 5 kinds of request | 8 596 000 |
| `DownloadError`, `DownloadCorrupt` | `Spec` | as `Download`; expected to fail | |
| `Updater` | `FairSpec` | list of 2 files, one of them music; 2 attempts, 1 mirror | 681 000 |
| `UpdaterCancel` | `SlowSpec` | as `Updater`, 1 attempt; expected to fail | |
| `Resources` | `Spec` | 3 images, 1 set, 1 sprite, 2 atlases, one with two textures; 3 copies of a name, 9 resources when the game asks for another, 1 reference each held by the game, 2 units of time | 755 000 |
| `Client` | `Spec` | 2 requests unanswered, 2 messages received, a careful user | 373 000 |
| `ClientCancel` | `Spec` | as `Client`, a user who cancels the last connection; expected to fail | |
| `PathFinding` | `Spec` | 3 x 2 tiles, 4 searches, 7 as `UINT_MAX`; 5 x 4 tiles, every start and destination, two masks, with and without a limit; 13 x 8 tiles, one way of straight and one of diagonal steps | 24 000 |

What they show:

- `NetworkIn`: `MessageIntact` (a handler reads exactly one whole message of the newest
  connection, although the worker appends meanwhile and the handler may disconnect),
  `SkipOnlyWhenEmpty` and `ExitOnlyOnUnknown` (the prefix that is skipped, in pieces and
  from two threads, never shifts the stream), `OneConnection`,
  `DisconnectedBeforeConnect`, and `StreamSpec`: the whole implements `MessageStream`.
- `NetworkOut`: `OutBufferFits`, `SentWhereWritten`, `DeletedAfterConnecting`.
- `NetworkLive`: `Delivered` (except for a variable packet of exactly four bytes with
  nothing behind it, which the code does not look at), `ErrorReported`, and
  `DisconnectReturns`, which states the one way in which `disconnect()` may hang: the
  worker connected after `mState = IDLE` and overwrote it.
- `Download`: `StoredWhenComplete` (with the exception that the code has: an old file that
  could be neither removed nor replaced), `WholeFileStored`.
- `Updater`: `QuietWhenComplete` (with the exception that the code has: a failure that is
  ignored), `ResourcesVerified` (with that of `StoredWhenComplete`, and music),
  `UpdateEnds`, `LeavingEnds`.
- `Resources`: `NoDangling` (no map, resource, caller or call under way keeps a pointer to
  what was deleted), `CountsExact` (a count is the number of references), `NoneLost`
  and `OrphansRight` (what nobody refers to is among the orphans, which are used by
  nobody, and are not older than `mOldestOrphan` says), `SweepValid` (the loop over the
  orphans keeps its place while its deletions change the map).
- `Client`: `RightServer`, `GameReady`, `CharactersShown`, `WaitsForAnswer`, `ErrorShown`,
  and `SessionSpec`: it implements `Session`. The first, the fourth and the last
  end where a message of a given-up connection has been acted on: the code does act on
  them.
- `PathFinding`: `ListsFresh` (although nothing is cleared between searches no tile is
  on a list when one begins, also when the numbers wrap around), `PathLeads`,
  `NearlyShortest` and `NothingMissed` (both compare the search with `LeastCosts`, what ways
  cost with 101 for a straight and 142 for a diagonal step), `CallReturns`.

Why the bounds are enough. Two sessions are one connection and whatever an earlier one
left behind; nothing in the code relates more than two. Two messages are one being
handled and one behind it. The buffer holds a message that is being handled, part of
another, and the room above the limit that makes receiving pause; the prefix can
arrive in pieces. In `Download`, three attempts are the code's own number, and two
mirrors give one that fails before one that succeeds. A list of two files has a file
that was passed and one that is in progress; the updater starts without `.part` files, without
the music file, and with no lists or two useless ones, all of which `Download` is checked
with. In `Resources` the images are shared
by a set and both atlases, so that one atlas takes over what the other has in use; atlas 7
lists its two files twice and is made into no texture or into two of the same name, atlas 6
is the one of empty images; three copies of a name are the two of that atlas and one on its
way out; an atlas is asked for while fewer than nine resources exist, which leaves those
that its seven displace. A client talks to one server
and looks at one message at a time; two of each let something be behind. In `PathFinding`
the numbers wrap around in the third search, and the large map has room for three
diagonal steps, the first that the heuristic overrates; the third map has a
fork at which the defect leads astray. Deadlock is checked except where
the system stops: the client at `pc = "done"`, `PathFinding` when its calls are used up.
Elsewhere the stuttering steps `Terminated` and `Closed` stand for the ends the program
really has.

### Disagreements found

1. `DownloadError`: the attempt that succeeds is counted as well
   (`net/download.cpp:493`), so a file that comes at the third attempt is fetched again
   from the next mirror or, from the last one, reported as an error.
2. `DownloadCorrupt`: "Remove the corrupted file" (`net/download.cpp:430`) removes
   `mFileName`, the file stored earlier; the corrupted one is the `.part` file, which
   stays until the next attempt overwrites it.
3. `UpdaterCancel`: `net/download.h:83` says that `cancel()` "Returns immediately". It
   waits for the thread, and while the news are downloaded the callback answers the
   cancelled status with 0, so the main thread waits for the transfer.
4. `ClientCancel`: the dialog of CONNECT_GAME leads to CHOOSE_SERVER
   (`client.cpp:1361`), the only one that leads to a state whose entry keeps the
   connection. The player is logged in to the map server in a state of which
   `quitdialog.cpp:84` says "we're not logged in to someone", and what the map server says
   next sets the state from there.

## Fairness

- `Network`: a call that has begun runs on (`WF(Calling)`); `gameExec` calls
  `flushNetwork` in every iteration, whatever else happens in it (`SF(FlushNetwork)`;
  weak fairness would let the other uses of the thread starve it); a thread that can
  run is scheduled (`WF(Worker(s))`); `checkSockets` does not fail or time out for ever
  on a socket that can be read (`SF(Receive)`, `SF(ReceiveEnd)`). The server and the
  user are not fair.
- `Updater`: the main thread runs (`WF(MainThread)`) and calls `logic()` in every
  iteration of `gameExec` however many keys are pressed (`SF(Look)`), and so it compares the
  state (`SF(Leave)`); the download's thread is scheduled (`WF(OwnSteps)`), curl calls the
  progress callback about once a second (`WF(Asks)`), and transfers end, because
  `CURLOPT_TIMEOUT` is 1800 seconds however often curl asks in the meantime
  (`SF(TransferOver)`: weak fairness would not do, because a transfer cannot end while its
  callback runs). `SlowSpec` leaves the last one out: what the program does for as long as
  a transfer lasts.
- `Client`: the main loop runs (`WF(MainLoop)`), and the user does not act in every
  frame (`SF(NoAction)`): an action in the frame in which an error is found may overwrite
  the state ERROR, each time anew. Servers, the worker and the user owe nothing else.
- `PathFinding`: a call that has begun runs on (`WF(Running)`); nobody has to call.
- `Resources` has no fairness: it states no liveness.

## Proofs

For all values of the constants that satisfy the named assumptions:

- `Network_proofs`: `ConnInv` relates `mState`, the worker's step, the thread and the
  socket. `OneConnection` is not inductive by itself: one has to know that between the
  end of `disconnect` and the next `connect` no worker is left, although the worker
  may have written `mState` last, and which labels of the worker go with which states.
  For the output buffer `OutInv` says how much is in it at each step of a write
  (at most `BUFFER_LIMIT`, or, after a flush that did not send, one packet more with the
  connection gone) and that every byte in it belongs to the session of the socket
  unless there is none. The assumption `OutAssumption` (two packets fit above the
  limit) is what the code's constants give: a buffer of 1 000 000 bytes and a limit of
  930 000.
- `NetworkBuffer_proofs`: `BufferInv`, with the lemmas on dropping and appending
  (`DroppedProperties`, `Chunk`), gives `SkipOnlyWhenEmpty` and `TypeOK`. For what a handler
  reads it is not enough: that the next bytes are a message follows only from what all the
  bytes before them were. So the rest of the invariant is about the stream, the buffer
  with what the server has sent behind it: it is a run of whole messages (`Runs`: of two
  neighbouring bytes the second goes on with the message of the first or begins the next,
  none is missing, and the last message is whole), the buffer begins with a message, or
  with what is left of the prefix, which is as long as `mToSkip` (`Beginning`), and the
  message a handler has in hand is the one in front (`Reading`). A step of the worker
  moves the border between buffer and server, a step of `skip` takes a whole message from
  the front; neither changes the run. `MessageIntact` and `ExitOnlyOnUnknown` follow, and
  that every step is one of `MessageStream` or a stutter (`StreamImplemented`).
- `Download_proofs`: `Inv` says of each step what is known of the attempt counter, of
  `complete` and of the two files, whichever calls on files fail; `complete` alone is not
  enough, because it may be left over from before the first mirror. From it follow `DownloadTypeOK`,
  `StoredWhenComplete` and the action property `WholeFileStored`.
- `Updater_proofs`: `UInv` adds to `Inv` what is being downloaded at each stage
  (`StageInv`), that an attempt under way is cancelled only while somebody waits
  (`ThreadInv`), when there is no download at all (`WindowInv`), what `logic()` has read and
  how it may have changed since (`LogicInv`), and where `updateProgress` can be (`CallbackInv`). With it every step
  of the updater is a step of `Download` (`UpdaterRefinesDownload`), so that `Inv` holds
  of it too; `QuietWhenComplete` and `ResourcesVerified` follow. Neither is inductive:
  the first needs that a cancelled callback comes only while the main thread waits, the
  second that the file being stored is none of those passed before.
- `Client_proofs`: `IInv` adds to the types that game and state go together and that a
  connection that is closed owes nothing. `ClientTypeOK` holds for every bound and every
  user. `GameInItsState` says that the Game exists in the state GAME and in no other,
  whoever answers whichever dialog; the other half of `GameReady`, that the databases are
  there, depends on the user.
- `ClientSession_proofs`: the theorems have the form `Spec /\ Careful => ...`, where
  `Careful == [][~Lapse]_vars` says that the user does none of the three things, whatever
  `Careless` allows. The code does not see to that, and `ClientCancel` shows that one
  lapse is enough to lose these properties. The bounds `MaxInbox`
  and `MaxAsked` are any numbers. Four layers of invariants, each of which needs the one
  before: `IInv`; `PInv`, which server is at the other end in which state and in which
  phase of the loop; `LInv`, what can be unanswered there (at most one request at the
  character server, because its dialog is locked while it waits; the version and one login
  at the login server); `WInv`, what follows from something received over a connection
  that was given up, and that the databases and the characters are there when they are
  needed. A property like `WaitsForAnswer` needs all of them, because an answer that is
  waited for may be unanswered, received and not dispatched, or already dispatched and
  turned into the next state in the same frame. From them: `RightServer`, `GameReady`,
  `CharactersShown`, `WaitsForAnswer`, the refinement `SessionSpec`, and that QuitDialog's
  "not logged in" is right for this user (`NobodyLoggedIn`).
- `Resources_proofs`: one invariant for all six properties, because none of them is
  inductive and each needs the others. `CountsRight` is `CountsExact` in the middle of
  calls: a count is the references kept (by the game, by resources that hold others, by
  atlases in use, by a sprite's protection) and those the calls under way will still give
  back (`Owed`), and the one just got; the only exception is a resource about to be deleted
  in the next step, of which nobody has a reference (`NoClaims`). That a counter is not
  pushed to zero while a loop still looks at its resource depends on which call may be
  running inside which: `StackRight` states that order (`MayStandOn`) for any two calls of a
  stack of any depth, and `MovesRight`, `LoadsRight`, `GotRight` and `SweepsRight` what each
  kind of call may rely on when those above it have returned: what `moveToDeleted` moves is
  referred to by somebody else, names being loaded are not in the cache, what was got
  is what the one who waits asked for, an iterator is on an orphan, and what it has passed
  is not older than it says. `CacheRight`, `OrphanRight`, `DeletedRight` and `FoundAgain`
  tie the three maps to the counts. TLC checks the whole as an invariant on the instance of
  `Resources.cfg`. Every number of names, copies, tiles, files and textures is covered, with
  files listed more than once and layouts of any length, and sums over holders: the lemmas
  on `Holders` and `Owed` say what one resource or one call more or less does to them, and
  those on `Users` what all the pieces of a new atlas do. `ResourcesInvHolds` has one lemma per action.
- `PathFinding_proofs`: `Numbers` says that no tile has a number above those in use, and
  none as high between searches; `NumbersFresh` follows for every `UINT_MAX`. `Tree` says of
  a search that the parents of the tiles on its lists are closed and one step away, that
  every open tile is in the queue, and that a step from a closed tile leads to a tile on
  a list. `Extracted` and `Way` say of the path so far that it is walkable and that the
  rest of it is in a set of tiles whose parents lead to the start. From them follow
  `PathsLead` and `GivesUpRightly`: without a limit, a search that finds nothing has closed
  a set of tiles with the start in it and not the destination, which no step leaves.
  What a path costs is proved from a second layer on top, `Costs`. The heuristic falls over
  a step by no more than the step is judged to cost (`HeuristicStep`), and beside the
  destination it lacks no more than the defect (`HeuristicLast`). A set of tiles and costs
  is `Certified` when every pair but the start's comes from another one by a step that costs
  at least as the search may misjudge it. `Near` says that no certified cost of a closed
  tile is below its own; `Reached` that a step out of a closed tile, unless it exceeds the
  limit, leads to a closed tile or to an open one that costs no more than by that step;
  `Queued` that the queue holds every open tile with its present cost, and stale entries
  only with higher ones; `Counted` that costs add up along the parents. `FrontierNear` is
  the heart: for every certified pair that is not closed and within the limit some open
  tile has a total cost no higher. It takes the pair of least cost among those that are no
  dearer in total, instead of an induction over the way. So the tile that is popped keeps
  `Near`, the destination gets its cost (`Seen`), and when the queue is empty nothing was
  left to find. `LeastCertified` shows of the recursive function in `LeastCosts` that it has
  a solution (`LeastEquation`) and that its values are certified, from which follow
  `PathsNearlyShortest` and `MissesNothing`. `WayCertified` shows the same of the tiles of
  any way, so that `NoWayMuchShorter` and `NoWayWithinLimit` say it of every sequence of steps
  without `LeastCosts`. TLC has checked `Costs` on the instance of `PathFinding.cfg`, with
  `LeastCosts` for the certified set.

Only model-checked: `ErrorShown` and all other liveness, for TLAPS has no rules for ENABLED
here; that `LeastCosts` looks at enough steps to be the least is not needed for the theorems and
not proved. Every other property of a passing run has its theorem. Besides the named
assumptions nothing is assumed.

## Not modelled, and the plan

Order of what follows, most important first:

1. Theorems: what is left of `RightServer` after one lapse of the user.
2. `VirtFs`: the order of mounts, with the updater's mounting and unmounting.
3. `DelayedManager`: sprites loaded later, deleted in between; on top of `Resources`.
4. Trade: what the two sides believe of each other. To look at: the side that asks
   never sets `setTrading`, `tradePartnerName` is overwritten by an own request while
   the other's dialog is open, and an answer for an item that is gone calls
   `receivedOk(true)`.
5. Packet limiter, pin code, inventory: small machines in one thread with one hazard each.

Left out for good: rendering, the widget toolkit, particles, sound, translations,
databases and configuration (tables and presentation in a single thread), parsers of
file formats, and the libraries (SDL, SDL_net, curl, libxml2), which the models take as
choices of outcomes. Most of the repository's lines are these.
