# beanpon_messenger in TLA+

A verification project for the Go messenger in `src/`: TLA+ models of its
stateful parts, TLC runs over small instances, and TLAPS proofs for every value
of the constants. `PROJECT.json` ties every definition to the lines it models
(`map`), every property to a mutation of the code that breaks it (`mutants`),
and every known hazard to the properties that watch it (`hazards`).

## 1. Inventory

One Go process (several behind a load balancer) with PostgreSQL, Redis, S3, an
XMPP server and a Laravel application (`piokio_live`, the admin panel) beside
it. `src/_to_delete/` holds staged old copies of files that are also in place;
it is left aside.

| Component | State it keeps | Operations | What is hard | What makes it correct |
|---|---|---|---|---|
| Watch rooms (`watch/hub.go`, `playback.go`, `rooms.go`, `chat.go`, `sweeper.go`) | one row per room, sessions, polls; a copy of each room in use in memory, under its lock | open, start, play, pause, seek, rate, break, change of film, polls, end; ticker, sweeper, eviction, reload | two copies of the truth, partial failures inside a handler, a clock others extrapolate, ends written by the admin panel | copy = row, a break stands still, one session and one poll open, no status goes back, versions grow |
| Watch members (`watch/members.go`, `rooms.go`) | a row per member, roles, requests, invitations | join, request, cancel, accept one or all, invite, co-host, hand over, kick, leave, a host who stays away | two ways in at once, requests older than a kick, cancelling without the room's lock | one host, the limit, a kick is for good |
| Watch cinema (`watch/cinema.go`) | places, offers, a queue, requests to swap, locks with a deadline; rows of the seats | sit, move, swap, couch, offer, reclaim, the tick | a chain of moves with a write that may fail in each, old apps that know no hall | one viewer per seat, offers and requests stand for what they name |
| Mafia game (`websocket/mafia_*.go`) | the whole game as JSON in `live_rooms.active_game` | start, ready, night actions, votes, defences, leaving, the timer | each goroutine loads, changes and writes the whole game, nothing locks it | the rules of the game hold in every copy anybody writes |
| Live rooms (`websocket/live_hub.go`, `live_handler.go`, `live_transfer.go`) | connections, rooms, the registry of who is live, grace timers, hand-over codes; rows of rooms, roles, bans | connect, leave, roles, kicks, hand-over to a device or a room, forced end | the hub's goroutine beside timers, HTTP handlers and UPDATEs in goroutines; statements that fail unnoticed; reconnects | the registry points into a room, a host who stays away has the room ended, guests do not end it as far as the hub has read who the host is |
| Chat media (`services/media_gc.go` and its callers) | objects in S3, rows of `chat_media_objects`, a mark per row | upload, send (mark), sweep | a sweep between a send's statements, refused deletions, restarts | no mark without a message, no row dropped before its object |
| Circuit breaker (`cache/breaker.go`, `redis.go`) | closed, open or half-open; the instant it opened; recent errors | allow, success, failure, called by every goroutine | three variables, one of them under a mutex, read and written one by one | half-open always has the trial that ends it; it closes again |
| Direct messages (`handlers/message_handler.go`, `conversation_handler.go`, `websocket/hub.go`) | messages with marks (read, delivered, hidden, starred, reactions, opened), a conversation per pair with counters, a status and per-side settings | send over HTTP and over WebSocket, accept, reject, read, delete, clear, star, react, edit, open once | the row is read before and written after; whole-row saves; ids clients choose and repeat | what is announced is stored, no message counted twice, the status fits the counters, a mark was meant by somebody |
| Message hub and presence (`websocket/hub.go`, `presence.go`) | connections per user, screens, online flags | register, unregister, evict, shut down, open a chat | goroutines that write online and offline, a client replaced by a newer one | who is connected is reachable and shown, who is gone is forgotten |
| Cluster (`websocket/cluster.go`, `cache/pubsub.go`) | bounded publish queue, who else is up, presence keys with a life | publish, subscribe, heartbeat, mark delivered from afar | a full queue, a lost subscription, frames that arrive twice | a queued frame reaches each connection once |
| Groups (`handlers/group_handler.go`, `group_message_handler.go`) | a row per participant, kept when the user leaves; roles, invitations; messages, who has read them, reactions, the pin | join by link, add, accept, decline, leave, kick, change a role; send over REST or XMPP, read, delete, pin, edit, open once, react | joining, adding and leaving lock the group's row; accepting, kicking, roles and messages lock nothing; goroutines and timers that outlive their request | the limit, a manager, whose doing a membership is; a message counts once, nobody hears of it twice, clients show what is stored |
| Rooms (`handlers/room_*.go`) | members, admins, bans, write blocks; messages and reactions | join, join by writing, promote, kick, unban, block, leave, delete; edit, react, delete a message, clear | no handler holds a lock or, but for clearing, a transaction; a DELETE that fails leaves a row | a banned user is out, or has only the row that a failed DELETE left; the owner is not banned; as for the messages of groups |
| Moderation queue (`services/moderation_queue.go`) | bounded channel | enqueue, classify, log | a full channel drops | best effort: it only logs |
| XMPP bridge (`xmpp/`) | which transport a user was seen on last | mark, forget, route | forget after a newer mark | a message goes to one of the two paths |
| Rave, calls, uploads, middleware, configuration, metrics | rows, counters | | | mostly I/O |

How they interact: HTTP handlers and WebSocket readers call the hubs; the live
hub calls the Mafia game when a player leaves; message handlers call the media
tracker inside their transactions; the hub and the cluster call Redis through
the breaker; the admin panel writes rows the watch hub then reads; a room's
members, its seats and its clock share the room's mutex.

## 2. Modules

| Module | Models | EXTENDS / refines |
|---|---|---|
| `WatchRoom`, `WatchRoomProofs` | one watch room's clock, sessions and polls; theorems | implements `WatchParty` |
| `WatchParty` | what a watch room promises its viewers, with no memory, database or clock | |
| `WatchMembers` | who is in a watch room and as what | |
| `WatchCinema` | who sits where in its hall | |
| `WatchHallProofs` | theorems about both | EXTENDS `WatchMembers` and `WatchCinema` |
| `MafiaGame` | the game and the goroutines that load and write it | |
| `LiveRoom` | connections, grace timers, roles, hand-over | |
| `LiveRoomProofs` | theorems about the room and the game played in it | EXTENDS `LiveRoom` and `MafiaGame` |
| `MediaGC`, `MediaGCProofs` | uploads, sends, the reaper; theorems | |
| `CircuitBreaker` | the breaker step by step | |
| `DirectMessages` | one conversation and the sends of both transports | |
| `MessageRows`, `MessageRowsProofs` | what becomes of its messages; theorems about both | EXTENDS and implements `DirectMessages` |
| `HubPresence`, `HubPresenceProofs` | connections of the message hub, presence in Redis and in the database; theorems | |
| `ClusterFanout` | frames between instances | |
| `RedisProofs` | theorems about both | EXTENDS `CircuitBreaker` and `ClusterFanout` |
| `GroupMembers`, `RoomMembers` | who is in a group, who is in a room | |
| `ChatMembers` | the two beside each other | EXTENDS both |
| `ChatMessages` | the messages of a group or a room, their reading, changing and delayed notifications | |
| `Chats`, `ChatsProofs` | members and messages beside each other; theorems | EXTENDS `ChatMembers` and `ChatMessages` |
| `MC*` | small instances of each for TLC | |

A constant named `Scenarios`, `Tables`, `Plans`, `Kinds`, `May` or `Tools` holds
alternatives among which a behaviour chooses in its first state: one run then
explores several families of operations in full without multiplying them. The
theorems hold for all of them at once.

**`WatchRoom`.** `row`, `open`, `pollRows` are the database; `room` is the
loaded copy (`liveRoom`), `now` the server's time. Handlers run under the room's
lock, so a handler is one action; but a handler is several statements, and each
of them may succeed, fail, or take effect and still report an error
(`DbOutcomes`). Every function of the code (`setPlaybackLocked`,
`openSessionLocked`, `endRoomLocked` ...) is therefore an operator from a world
to the worlds it can leave, composed in the order the code calls them, and
`Commit` makes one of them the next state. `Load`, `Evict` and `Crash` move
between row and copy; the SELECTs of a load succeed (a session or poll that
cannot be read counts as ended, hub.go:379-385, which is not modelled);
`ExternalEnd` is the admin panel's write.

**`WatchMembers`.** A member's row is written before the memory, with the same
values, so `member` is both; `before` is who joined before whom, `req` the row of a
request, `desk` the controller between the SELECT of a request (or of all of
them) and the writes. Cancelling and the sweeper need no lock and come in
between. A write that closes a request may fail unnoticed (`StrayRequests`).
Left out: chat mutes, reminders, the batch limit of 25, rooms that are
scheduled or over.

**`WatchCinema`.** `hall` is the whole state, and an operator of the hall
returns the set of halls it may end in: a move frees a seat, which is offered,
which moves somebody else, whose own offer goes on. The functions of the code
that call each other are written as rounds: what a call leaves to be done is
part of its result (`Goes`: a hall and the seat that has still to be offered),
and `Ends` collects the halls of the chains that have nothing left. The loops of
`offerFreeSeatsLocked`, of the tick and of the sweep are rounds over the seats
or members they have left. `queue` numbers those who asked for a seat in the
order of `queued_at`; whoever is behind moves up, so the numbers stay as small
as the queue. `Faults` says whose rows cannot be written during one step. The
geometry (`Cols`, `Rows`, `RowLen`, scores) is translated as operators over the
number of seats and checked for every hall of 6 to 60 (`HallsAreWhole` in
`MCWatchCinema`). The setting that forbids changing seats is off (changing is
allowed), the room is live, and one swap is open at a time in the run.

**`MafiaGame`.** `activeGame` is the column, `todo[r]` what goroutine `r` (hub,
timer, starter, a leaving player) has computed from the copy it loaded and has
still to write. A handler is: load, compute, then one step per write. A table
says who plays, how many goroutines are inside a handler at once (`width`: 1 is
a sequential game, 2 interleaves loads and writes) and how many writes may fail
(`fails`; `saveGame` ignores the error).

**`LiveRoom`.** `client` has one record per connection and goes through
`allowed` (precheck), `checked`, `open`, `leaving`; `rooms` and `liveUsers` are
the hub's two maps; `hostGrace` and `timer` are the planned ends and the timer
callbacks, whose three steps (forget the entry, look for the host, end the
room) are three actions; `writes` are UPDATEs in goroutines of their own, which
arrive in any order. When a connection is unregistered, the hub's goroutine
clears its maps and looks the host up in one step (`Unregister`), and ends the
room or plans its end in the next (`HostLeft`): timers, HTTP handlers and those
UPDATEs come in between, so that the host may be another by then, while
registrations and events wait in the hub's channels. A scenario says which of
moderation, transfers, changes of role, hand-over, switching and failing
statements a behaviour has (`events`), and how many rooms, timers, late writes
and restarts. With `failures` every SELECT of `host_user_id` may fail: the hub
then takes the connection's own role for granted (live_hub.go:467-473), and the
grace callback finds no host and ends the room (231); each UPDATE of an ending
room and each late UPDATE may be lost, because their errors are not looked at.

**`MediaGC`.** `upload`, `row`, `s3` follow one object; a direct message is a
transaction (`OpenTx`, `Commit`, `Rollback`) that marks in a savepoint and
holds the row's lock; a group message is two statements (`Store`, `Mark`); a
sweep is SELECT, one deletion at a time in S3, one DELETE.

**`CircuitBreaker`.** Every atomic read, swap and store of `Allow`, `Success`
and `Failure` is a step of the calling goroutine; the mutex covers the list of
errors only, as in the code. `up` is Redis.

**`DirectMessages`.** `row` is the pair's row in `conversations`, `messages`
the table under the ids clients choose, `reqs[r]` a request between its steps
with what it has read. A send is: checks (`CheckRest`, with
`LooksAgain` for the second look at the row, or `CheckWs`, which makes the row
and asks for no limit), the transaction (`Store`, or `StoreAgain` when the id is
taken), the fan-out; REST answers after the fan-out, the socket before it.
Accepting, rejecting and the fifteen settings read the row (`ReadToSave`) and
write all of it back (`SaveRow`). A request may stop at any step (`Fails`).
Left out: account 1, which everybody may write to; the receiver's
`MessageRequests` setting and the bans that stop a request before its first
read; the settings' own columns (a setting is its whole-row write); the mute
that runs out in `hub.go:2470`, which is one more `ChangeSetting`. The unique
index over the pair is assumed to be applied.

**`MessageRows`.** `marks` are the columns of each message of
`DirectMessages`, `work[h]` what a handler has read: a whole copy that gorm's
`Save` writes back, the text of media that may be opened once, or the ids a
SELECT found before the UPDATE. `asked` remembers who asked for what. Call
messages, which are stored read and not delivered, are not sent here.

**`HubPresence`.** `clients` is each instance's map, changed by the hub's
goroutine; everything it tells Redis and the database it tells from goroutines
nobody waits for: `tasks`, which run in any order. `key` is the Redis record
with its life of `TTL` heartbeats. The memo of remote lookups
(`cluster.go:678-770`) is not modelled.

**`ClusterFanout`.** A frame goes to the connections of its own instance, then
into `queue` (unless the instance believes it is alone), through one of the
writers in `hands` to Redis, into the `inbox` of every subscribed instance, and
to the connections there. `heard`, `beat` and `uptime` are what "alone" rests
on. The frames are a direct message and its second tick; the broadcast of
`user_status`, counters and log lines are left out.

**`GroupMembers`.** `part` has a row per user, kept when the user leaves;
`desk[g]` is a handler between what it read and what it will write. Joining,
adding and leaving hold the lock of the group's row (a task at `seat`, `place`,
`left` or `close` has it); accepting, kicking and roles hold nothing. A new
group is made in one step; the link's renewal and expiry, the filter that
refuses an invitation, names and settings are left out; statements that read,
and DELETEs, do not fail.

**`RoomMembers`.** `calls[r]` is a handler between two statements: no handler
holds a lock. Two reads of one handler that follow each other are one step.
`tools` says what the admins of a behaviour do and whether its statements may
fail: with `reads`, a SELECT may fail and is taken as having found nothing, as in
the code, which looks only at what it found; with `writes`, an INSERT, UPDATE or
DELETE may fail, with what the handler then does: it answers, or does not
notice and goes on (`WriteFails`, `KeepRow`). `leftover` remembers the banned
users whose row is still there because such a statement failed: the DELETE of a
kick (room_moderation_handler.go:258), the DELETE of a row written while the
user was being banned (room_handler.go:345), or the look at the bans before it.
Guests and blocks by users, hidden rooms, frozen and locked messaging are
left out.

**`ChatMessages`.** `stored`, `emoji`, `pinned`, `readBy`, `lastRead`, `readTo`
and `counted` are the tables; `jobs[h]` is a handler between two statements with
what it has read; `chores` are the goroutine that marks a new message as read by
those who look at it, and the timers of the delayed notifications; `screen`,
`banner` and `told` are what the frames and notifications sent so far amount to
at a client. A send over REST is a row of statements (`InsertMessage`,
`ReadOwn`, `CountMessage`; the last cannot fail here, though the code would not
notice), over XMPP one transaction (`Commit`); then the frame (`FanOut`), those
mentioned (`Mention`) and the delayed rest (`Schedule`). In `Chats` the members
are `GroupMembers`' and `RoomMembers`'; a message handler looks at them once, at
its beginning, so here people come and go freely (`Enter`, `Exit`) and the two
halves are explored in turn. Left out: shadow bans, permissions, blocks, frozen
and locked rooms, stars, `cleared_at`, the second to which `last_read_at` is
rounded; the marks of media are `MediaGC`'s.

## 3. Runs

Counts are distinct states on two cores.

| Run | Instance | What it shows |
|---|---|---|
| `room` | a film of length 2 and a companion show of unknown length, rates 1 and 2, one viewer presence bit, time to 7, users act until 2 (165 thousand) | the safety of the room with every statement succeeding, through loads, evictions, crashes and outside ends; that it implements `WatchParty`; that breaks and films end, abandoned rooms are ended, outside ends adopted |
| `hall` | two seats and one place on a couch; host, a friend with a kept seat, a guest with an old or a new app; a write may fail | seats, offers and swaps fit each other after every chain of moves; who is there keeps a seat; a freed seat is offered |
| `members` | four people, a room for three, three settings | one host, the limit, kicks, whichever ways in and out meet |
| `mafia` | four players (the smallest game with two on trial); three and a write that fails; three, two of them voting, and two handlers at once (1.3 million) | the rules and the life of the game, and what of them survives lost updates |
| `live_room` | a host, an administrator, two connections; two timers, kicks, bans, forced ends; or transfers with late UPDATEs, roles that change, and a restart, or statements that fail (1.4 million, by symmetry) | nothing is left behind in the hub's maps; nobody ends a room by leaving it while the host of record, whom the hub has read, is connected |
| `live_host` | one host, two connections; hand-over, or put out and forced ends, within one room, or switching between two (354 thousand) | the registry, and: the host is back or the room ends |
| `media` | two objects, the older one never deletable, two requests, a restart (21 thousand) | marks, deletions and the fate of orphans |
| `dm` | three ids, two requests, a limit of one pending message, a banned sender, a whole-row save; or two handlers on the rows of the messages (991 thousand, by symmetry) | status and counters, ids, announcements; whose doing each mark is and what takes it away |
| `presence` | one user, two connections, two instances, one trouble at a time (570 thousand) | nobody is deaf; presence heals, and is forgotten |
| `fanout` | two instances, a sender and a receiver on both, a queue of one (485 thousand) | a queued frame arrives once; instances know of each other |
| `breaker` | three goroutines, threshold 2, chunks, one outage (106 thousand) | mutex, trial, recovery |
| `chats` | a group of at most two among three users, or a room of three people; two handlers at once; or two messages of a group or room among two people, in ten plans (549 thousand, by symmetry) | limit, manager and whose doing; bans, with DELETEs and looks that fail; a message counts once and is told once, read is read, shown is stored |

`RoomIsSound`, `CopiesKeepRules`, `PlacesStand`, `RowIsSound`, `HubIsSound`,
`FanoutIsExact`, `BreakerIsSound`, `GroupIsSound`, `RoomIsGuarded`,
`MessagesAreSound` and `NothingIsLeftBehind` contain the type invariant of their module.

*Bounds.* Two connections and two timers give every overlap of an old and a new
one, and both are used again without limit. A host's transfer has three late
UPDATEs, an administrator's two; the scenario with three, and the one in which
they fail, have no timers: whoever is host leaves them on purpose. Timers and
failing looks meet in a scenario of their own. Kicks, roles and returns of a
group meet in pairs of kicks with one of the others; the theorems have them all.
`AwayHostEndsRoom` is checked with every statement succeeding and refuted
otherwise (section 5). Three goroutines are one more than any step of the
breaker looks at, with a trial, a late call and a caller that races. Three ids
and two requests give a repeated id beside a new one, and a save around a send
(that two saves do no harm either is proved); one pending message is the
smallest limit that still lets one pass. Two ids, two people and two handlers
are the smallest chat in which a repeated send meets the first, or a deletion an
edit; one handler at a time is the condition under which clients show what is
stored (section 5). No plan of `chats` has failing statements and an open group
screen together (`AutoRead`, section 5). Two objects give a batch whose first
row is stuck. Two seats and a couch are the smallest hall in which a move frees
a seat for somebody who has another place; four people and a limit of three
leave one who waits outside a full room with a host, a co-host and a viewer. A
queue of one is full at the second frame (the tick). Two handlers at once and a
limit of two are the smallest group in which two ways in race for the last
place, and three people are a manager, a member and one who comes. In `room`,
`MaxNow` lies past the latest instant at which anything started by a user by
`UserHorizon` falls due. Symmetry is used in safety runs only, over connections,
timers, devices, ids, requests, handlers and members, which no definition tells
apart; liveness runs use none.

*Deadlock* is checked except in `LiveRoom`, where everybody may be gone and
every room ended; in `ClusterFanout`, where every instance may have stopped; and
in `Chats`, where a group or room may have been deleted and all messages sent.

*Fairness.* `WatchRoom`: the one-second ticker, the sweeper, the check for
outside ends and time itself go on; the ticker and the sweeper, which find a
room only while it is loaded or reload it, get strong fairness because a loaded
room stays for the idle window, longer than their periods. `FairSpec` also says
that a clock unit is longer than the ticker's second (`TimelyNext`). `MediaGC`:
the reaper's ticker; S3 and the database do not refuse the same object for
ever, except the keys declared so (`Undeletable`); transactions end.
`LiveRoom`: the hub takes what waits in its channels, timers fire, callbacks
run, a closed socket's reader stops; clients owe nothing. `CircuitBreaker`:
goroutines run, the mutex is granted (strong, on the steps that take it), an
outage ends, and callers keep calling: the presence heartbeat does.
`HubPresence`: the hub's goroutine takes what waits, a reader whose socket is
closed ends, started goroutines run, the heartbeat's timer fires; nobody has to
dial, close, or open a chat. `ClusterFanout`: an instance that starts gets
ready and subscribes, its timers fire, its writers and handlers run, time
passes; nobody has to send, connect or stop.

## 4. Proofs

All for arbitrary constants satisfying the modules' named assumptions.

* `WatchRoomProofs`, first part: `ClockRule` (the types, `BreakStopsClock` and
  `CountdownIsClock`, together `RoomIsSound`) and `Lifecycle`, for any media,
  timings and any outcomes of statements, so including the failures `room`
  leaves out. `BreakStopsClock` is not inductive: it needs that a loaded copy
  and the row agree on enough of the clock for a reload, and that a row which is
  not live has no running clock; `IInv` collects these as an invariant on worlds
  (`WInv`), with a relation `Good` from the world a handler finds to every world
  it leaves. Each function of the code has its lemma (what it preserves,
  whatever fails in it), and each handler's proof composes the lemmas as the
  handler composes the calls.
* `WatchRoomProofs`, second part: `RecordRule`, `VersionRule` and the refinement
  `RoomImplementsParty`, under the hypothesis `Reliable`: every statement
  succeeds, which is what `room` checks and what the properties are about. With
  `fail` or `lost` among the outcomes they are false (section 5, the first
  line). Crashes, evictions, reloads, the sweeper, the players' reports and
  the admin panel's write are all in. The inductive invariant is about what a
  viewer would see: the loaded copy, or, when nothing is loaded, the copy that
  loading would make of the row (`Shadow`). Three facts about it carry each
  other: the session, the poll and the status of copy and tables match until
  somebody ends the row from outside (`Tracked`), the copy is the row
  (`Mirrors`), and what plays has an open session (`FilmRecorded`). `Mirrors`
  alone is not inductive: a session is closed where the copy believes one to be
  open, so it needs `Tracked`, and a reload starts the clock of what the row
  says is playing, so it needs `FilmRecorded`. One lemma per function of the
  code says what a viewer sees of it; `PartyStep` names the steps of
  `WatchParty`, `NextShown` says that every action of every actor is one of
  them or shows nothing, and the three theorems read it off.
* `WatchHallProofs`, first part (`WatchMembers`): `MembershipRule` and
  `KickIsForGood`, as long as no write that closes a request is lost
  (`~StrayRequests`; with it `OneHost` is refuted, section 5). The
  strengthening: a request that the controller at work has found is admissible
  (`FoundIsAdmissible`): whoever it names is neither in nor kicked, because what
  changes that runs under the mutex the controller has. `MembersTyped` needs no
  such condition: whatever writes are lost, the order of joining has exactly
  those who are in, each once. Its strengthening is that the host of record is
  in, since a hand-over makes a co-host of whoever that is.
* `WatchHallProofs`, second part (`WatchCinema`): `PlacesRule`, `SeatRule`,
  `FreedSeatRule` and `ChainsEnd`, for any members, seats, couches, kept seats,
  faults and bound on the swaps, and in whatever order the code ranges over its
  maps. `ChainsEnd` says that `offerSeatLocked`, `moveLocked` and
  `releaseOfferOfLocked`, which call each other under the room's mutex, come to
  an end: every call that leaves a seat to offer has put somebody on a seat who
  had no place (`Unplaced`), and nobody loses a place in a chain. The rounds of
  `Ends` are therefore enough to see every outcome. The other three have the
  hypothesis `~KeptFaults`: the write that makes a kept seat one's own, whose
  error `autoSeatLocked` ignores, succeeds. Without it they are refuted (section
  5); all other writes may fail. The inductive invariant `Sound` adds to
  `PlacesStand` that kept seats are the same in memory and in the rows, that
  nobody with a kept seat is a member yet (`KeptAway`: else the sweep takes the
  seat of somebody who is there), that nobody on a seat is in the queue, and
  that sockets are members'. Inside a chain it does not hold: whoever has just
  sat down may still hold the offer they no longer need, so the lemmas about the
  calls say which one member may (`StandBut`). What a chain does to seats is a
  relation of the hall before and after (`Later`): people only get seats, and a
  seat that is taken, held or has nobody to ask stays so (`Settled`). It composes
  from call to call and from round to round (`EndsKeep`, and its likes for the
  loops, since a recursive function has to be shown to exist: `RoundsExist`);
  the two action properties are read off it. Each operator that the handlers
  share has a lemma (`MoveKeeps`, `ReleaseKeeps`, `SwapKeeps`, ...), each
  handler one that ends in `OK`.
* `LiveRoomProofs`, first part (`LiveRoom`): `RegistryRule`, `NothingLeftRule`,
  `GuestRule`, for any scenario, so with moderation, transfers, hand-over,
  timers, restarts and failing statements at once, which the runs take in turns.
  `RegistryIsInRoom` is not inductive: a record of a connection that is over is
  used for the next one, so the registry must not name it still. `ConnInv` says
  that whoever holds a place is a connection of that user to that room which is
  not over, and that whoever the registry names holds a place: a connection that
  gives up its place takes its name out of the registry in the same step, and
  one that is displaced has nothing to give up. `GuestRule` needs `HubInv`:
  whoever the hub has still to deal with has given up the place, which nobody
  takes before that is done, and is the host the hub has read, if its SELECT
  answered. `GraceInv` says that a planned end has a timer of its own, running
  or fired: the callback forgets the room's plan before it looks for the host,
  so a timer in that state is nobody's plan.
* `LiveRoomProofs`, second part (`MafiaGame`): `CopiesRule`, for any tables, so
  any number of players, of goroutines inside a handler and of failing writes.
  It is about one copy at a time: whatever a handler computes from a copy that
  keeps the rules (`SoundGames`) keeps them, so it does not matter which copy
  was loaded when or who overwrites whom. Each rule of the engine has its lemma;
  the don's succession rests on there being one don at most before a death
  (`ReassignedFacts`) and on the row of the table a game is dealt from
  (`NewGameSound`). `UndecidedRule`, `UndoneRule` and `DefenseRule`, with the
  condition on the width in them, need what a handler has still to write: it
  fits the copy it starts from and each write fits the one before (`Plan`,
  `Goes`), the last of them leaves a game that goes on or none (`Settled`), and
  a new game is open because no row of the table that fits the players gives
  the mafia half of them. A write that succeeds, one that fails and a phase
  whose time is up each leave a plan a plan.
* `HubPresenceProofs`: `HubRule`. That nobody is deaf needs that a connection
  leaves the map only after its socket is closed or its reader is over, and that
  an eviction waits in `unregister` for the connection it was ordered for.
* `MediaGCProofs`: `MarkRule` and `SweepRule`. The strengthening says where an
  uncommitted mark lives, that a request which has stored its message is in
  `mentioned`, and that `reaper.gone` is out of the bucket and cannot return,
  because only an upload that has no row yet writes the object.
* `RedisProofs`, first part (`CircuitBreaker`): `BreakerRule`. A half-open
  breaker having its trial needs: at most one goroutine can bring the breaker
  out of half-open before the trial does, every goroutine that is about to store
  `open` or `closed` was let through or is the trial, and the mutex has one
  holder.
* `RedisProofs`, second part (`ClusterFanout`): `FanoutRule`, for any number of
  instances, connections and messages, any length of the queues, and failed
  publications, broken subscriptions, stops and starts without limit. Neither
  "at most once" nor "not lost" is inductive. The invariant follows each frame
  (`Travels`): it is not sent twice (`Unsent`), by one instance (`OneOrigin`),
  it is in one of the places between `publishCluster` and the inboxes
  (`OnePlace`), and no sequence holds it twice (`Once`); hence those it is on
  its way to have not got it (`NotYet`), and whoever it is owed to has got it or
  it is on its way there (`OnTheWay`). Each action has its lemma.
* `MessageRowsProofs`, first part (`DirectMessages`): `RowSound`, `Announced`,
  `Counted`, for any ids, any number of requests, any limit. `SidesMatchStatus`
  and the bound on the counters are stated of the row and of every copy that
  waits to be written back, since a copy becomes the row; a bound on an old copy
  stays true because no message is ever taken away (`StoredStays`, `SentGrows`).
  That a message goes out once needs `FanOnce`: only the request that inserted a
  message waits for its fan-out.
* `MessageRowsProofs`, second part: `RowsImplementSends` lifts the theorems of
  `DirectMessages` to the whole. `MarksMeant` needs `CopiesKeep`: a copy that
  waits to be written has only marks somebody asked for, and it has itself the
  one its handler was asked to set. `UndoneByOldCopies` follows step by step.
* `ChatsProofs`, first part (`ChatMembers`): `GroupRule`, `OwnDoingRule`,
  `RoomRule`. The limit needs that one handler at a time has the lock and that
  what it counted stays true until it writes (`CountsHold`): the others only
  take people away, or turn an invitation, which was counted, into a membership.
  The manager, in a group without kicks, roles and returns, needs that whoever
  is leaving is known to have left a manager behind (`LeaverIsKnown`) and that
  the invited manage nothing. For a room the invariant says which handlers may
  still delete the row of somebody banned (`OnTheWayOut`), that who has one
  beside that is in `leftover`, which has nobody else (`LeftoverIsThere`), and
  that no kick is aimed at the owner (`OwnerIsSpared`); it holds whatever
  statements fail.
* `ChatsProofs`, second part (`ChatMessages`): `MessagesRule`, `SentRule`,
  `ShownRule`, each invariant resting on the one before.
  * `MessagesRule`: no time is later than the clock (`TimesInv`), what is stored,
    read or past never goes back (`Grows`), and each job and each chore relies
    on a message that is there, read already when only `last_read` is left to
    write (`StandInv`). That part holds only when no plan lets an INSERT fail
    where people have the group open (`FailsUnwatched`, a hypothesis of the
    theorem that the plans of `chats` meet): the code breaks it otherwise
    (section 5). The other two theorems need no such hypothesis.
  * `SentRule`: from its INSERT on a message has one handler and then at most one
    timer, and whom these have still to notify has not been notified
    (`ToldInv`). The counter equals the messages stored less those whose handler
    has still to count; a handler that is cut off leaves it behind for good, so
    that it is then a bound (`CountInv`).
  * `ShownRule`: a message is either still unknown to every client and unchanged,
    or shown as it is stored once the frame its handler still owes has gone out;
    between the deletion and its cleanup only the message just deleted may have a
    pin or reactions (`ShownInv`). It holds between any two statements of a
    handler, and `ShownIsStored` is what is left of it when none runs.
* `ChatsRule` lifts the safety of both to `Chats` (`EachFollowsItsOwn`: whichever
  of the two moves, the other's specification stutters).

Model-checked only: the liveness properties (`EverythingEnds`, `OrphansGo`,
`AwayHostEndsRoom`, `PresenceSettles`, `PeersAreKnown`, `Recovers`), which rest
on fairness and ENABLED. Checked by evaluation: the geometry of the halls
(`HallsAreWhole`), over the 55 sizes there are.

## 5. Disagreements between code and documents

The modules state these sentences in their last section; each is refuted by
checking it, alone, in the instance named here (safety under `Spec`, or
`BreakerSpec`, and without deadlock, and without the symmetry of the run).

| Property | Sentence | What happens | Instance |
|---|---|---|---|
| `WatchRoom!MemoryMirrorsRow` | hub.go:90, copy and row never diverge | a break is taken off the copy before the UPDATE that may fail (playback.go:392) | (a) `room.cfg` with `Media <- MCFilmOnly`, `Duration <- MCFilmDuration`, `Companion <- MCNone`, `Delays = {1, 2}`, `DbOutcomes = {"ok", "fail"}` |
| `WatchRoom!FutureClockIsCountdown` | WATCH_PARTY.md:142, a reload rebuilds the same state | the countdown is kept in memory only (hub.go:333) | (a) with `DbOutcomes = {"ok"}`, `IdleWindow = 0`, `Delays = {2}` |
| `WatchRoom!EveryChangeBumpsVersion` | WATCH_PARTY.md:128, every change bumps the version | loading a room clears a break that ran out (hub.go:394) | the same, with `Delays = {1}` |
| `WatchMembers!FewCohosts` | WATCH_PARTY.md:185, at most five co-hosts | the host who hands over becomes one more | `members.cfg` |
| `WatchMembers!CancelledStaysOut` | a cancelled request lets nobody in | it is cancelled between the controller's look and write, without the room's lock | `members.cfg` |
| `WatchMembers!OneHost` | | a request whose closing UPDATE was lost is accepted later and makes a host a viewer | `members.cfg` with `StrayRequests = TRUE` |
| `WatchCinema!ReturnersAreSeated`, `NoSeatWaitsInVain` | who comes back gets a place again; a free seat is offered | they were away when it was freed, and nobody asks later | `hall.cfg` |
| `WatchCinema!ConnectedKeepSeat`, `OffersStand` | the seats kept for friends | the write that makes a kept seat one's own fails unnoticed | `hall.cfg` with `KeptFaults = TRUE` |
| `MafiaGame!NothingIsUndone` without its condition on the width | mafia_flow.go:10, who leaves is dead; mafia_state.go:13, NULL once the game is over | another handler writes back an older copy (mafia_flow.go:36, mafia_handler.go:32) | `mafia.cfg`, the table of width 2 |
| `MafiaGame!DefenseTurnKept`, the same | mafia_engine.go:22, a minute for every defence | the timer's test and its advance load twice (mafia_flow.go:501) | the same |
| `MafiaGame!RolesFit` | mafia_engine.go:68-71, games of 4 to 12 | the table has more roles than players from nine on, and dealing them runs out of players (81, 112) | `NotForNine` in `MCMafiaGame`; a table of nine players |
| `MediaGC!ReferencedMediaKept` | media_gc.go:46, media a message names is never deleted | the message commits between the sweep's SELECT and its delete (264, 279) | `media.cfg` with one sender, `MarksFail = FALSE`, `MaxCrashes = 0`, `Undeletable = {}` |
| `MediaGC!StoredIsMarked` | group_message_handler.go:314, the first send has marked it | a stop between insert and mark (317) | the same with `MaxCrashes = 1` |
| `MediaGC!OrphansGo` for every object | media_gc.go:47 | rows S3 refuses fill the batch (267) | `media.cfg` with `BatchSize = 1` and the property over all of `Objects \ Undeletable` |
| `LiveRoom!AwayHostEndsRoom` | live_hub.go:207, a host who does not come back has the room closed | the planned end is in memory only: a restart forgets it (223) | `live_host.cfg` with one room and a scenario with `crashes = 1` |
| the same | the same | a host demoted in memory leaves without a planned end (462) | `live_host.cfg` with two users and the scenario of transfers, three writes |
| the same | the same | the UPDATEs that end the room fail unnoticed (274-279), or a lost UPDATE leaves another host of record | `live_host.cfg` with one room and the scenario of events `{"handover", "failures"}` |
| `LiveRoom!GuestsNeverEnd` | live_hub.go:458-463, who leaves and is not the host any more ends nothing | the SELECT fails and the stale role counts (467-473), or the new host's UPDATE (1555) arrives between SELECT and end (488) | `live_room.cfg` |
| `LiveRoom!BackInTime` | live_hub.go:158, the end is called off | the host registers between look and end (237), or the look fails (231) | `live_host.cfg` |
| `LiveRoom!OneHost` | live_hub.go:1540, a room has one host | an administrator's transfer leaves the old one (1548) | `live_room.cfg` |
| `LiveRoom!OneLivePerUser` | live_transfer.go:5 | two prechecks pass before a registration (63) | `live_host.cfg` |
| `LiveRoom!ToldClientsGo` | live_transfer.go:157 | the three-second callback spares a client that is not the registered one (186) | `live_host.cfg` |
| `CircuitBreaker!TrialsWaitForCooldown` | breaker.go:26 | the swap rests on an older instant (63) | `breaker.cfg` |
| `CircuitBreaker!TrialCloses` | breaker.go:26 | an old call's success closes it (79) | `breaker.cfg` |
| `DirectMessages!EveryMessageCounted` | conversation_handler.go:482-494, increments are not lost | a setting saves the whole row from a copy read before a send (659) | `dm.cfg` with `Banned = {}`, `MaxSaves = 1`, `Plans = {"sends"}` |
| `MessageRows!DeletedStaysDeleted` | message_handler.go:2714-2720, a deleted message stays deleted | a copy older than the deletion is saved | `dm.cfg` with `Plans = {"rows"}` |
| `MessageRows!OpenedStaysOpened` | message_handler.go:3178-3182, who has opened stays on the list | two who open at once write two lists | the same |
| `MessageRows!ReadIsAnnounced` | message_handler.go:1913-1914, the sender is told of each message that becomes read | a message is stored between SELECT and UPDATE | the same |
| `HubPresence!RowShowsConnected` | hub.go:416-420, cluster.go:562-566 | "offline" of the replaced connection is written after "online" of the new one | `presence.cfg` |
| `ClusterFanout!TickMeansReached` | cluster.go:521, delivered only when it entered a buffer of the receiver | the sender's own copy on another instance marks it (480-492, 503-540) | `fanout.cfg` |
| `GroupMembers!NeverWithoutManager` | group_handler.go:838, the last admin does not leave a group | the owner gives up the role, two managers kick each other, or an owner invited back is counted and declines | `chats.cfg` |
| `RoomMembers!NeverRejoined` | DEPLOY_rooms_moderation.md:44-45, a client that asks for it is not made a member by writing | the row is deleted after the check and before the insert (room_message_handler.go:41) | `chats.cfg` |
| `RoomMembers!OwnerIsOwner` | room_handler.go:563 | creating loses the owner's row, or a deletion stops halfway; joining then makes a member of the owner (558) | `chats.cfg` |
| `RoomMembers!AdminsHaveNoBlock` | room_handler.go:555-557, a promotion takes the block away | a block that was checked before is written after | `chats.cfg` |
| `RoomMembers!BannedDoNotModerate` | room_bans_handler.go:16-18, for who is banned the room does not exist | an admin whose row a failed DELETE left (room_moderation_handler.go:258) kicks others: that handler looks at the row only (230) | `chats.cfg` with `Kinds = {"room"}` |
| `RoomMembers!UnbannedAreOut` | room_bans_handler.go:19-20, an unbanned user is not re-added | the row that a failed DELETE left counts again | the same |
| `ChatMessages!ShownIsStored` for more than one handler at a time | room_message_handler.go:797, a deleted message leaves no reactions; group_message_handler.go:1337, nor a pin | a reaction or a pin is written after the deletion has cleaned up (1406, 1838); frames of two edits cross their UPDATEs | `chats.cfg`, a plan of width 2 with `react` and `delete` |
| `ChatMessages!PinIsShown` | group_message_handler.go:1370-1372, one pin, and everybody is told of it | unpinning a message that is not the pinned one changes nothing (1427) and tells everybody there is no pin (1435) | `chats.cfg`, the plan with `pin` |
| `ChatMessages!OpenedStaysOpened` | group_message_handler.go:1511-1513, a member looks only once | an edit, or another opening read before, writes a text without the name | `chats.cfg`, the first plan |
| `ChatMessages!HiddenIsUnread` | group_message_handler.go:1122-1126, what was sent before one joined is not marked read | who joins between `created_at` and the fan-out with the group open is marked (457) | `chats.cfg`, a plan with `move` and `watch` |
| `ChatMessages!ReadersHaveRead` | the same handler gives up when its INSERT fails (1194-1197) | the goroutine for those who look at the group only logs and goes on to `last_read` (490, 496) | `chats.cfg`, a plan with `watch` and `fail` |

Seen while reading, on the same lines, and not stated as properties: a message
published while its receiver is moving to a new instance during a deploy is not
live anywhere, though cluster.go:205-208 says there is no race; frames of one
client pass through four writers, so their order (hub.go:588) is kept on one
instance only; the seconds of a session are counted twice when two connections
overlap (presence.go:88-89); an instance that starts resets the rows of users
on the others (main.go:177-183); `SetActiveChat` of an old connection changes
the chat of the new one; a later invitation to a watch room is swallowed by
`ON CONFLICT DO NOTHING`; a kicked member of a group who comes back by the link
keeps the role, or stays "invited"; accepting answers "accepted" after the row
was declined; a seat is offered again to who refused it within one tick; a
failed move after an offer was deleted loses the offer; kicking and blocking in
a room look at a role that a promotion may change before they write; the delayed
notification of a group goes to who has left or was kicked meanwhile, a room's
does not (hub.go:2178, 2346).
Further hazards of the modelled code that no property covers have a `note` in
`PROJECT.json`; of the same kind, and only described here: a countdown lost by a
reload (hub.go:333), the grace callback's two looks (live_hub.go:237), prechecks
that pass twice (live_transfer.go:64), the breaker's instant (breaker.go:63), the
stop between a group message and its mark (group_message_handler.go:317) and
between the end of a game and its clearing (mafia_flow.go:237), a copy the
sender's other instance got (cluster.go:522), a request cancelled under the
controller's hand (members.go:433).

## 6. Not modelled, and the plan

In this order:

1. `ModerationQueue`, `XmppRegistry`, calls, the cached spam bans.
2. Live questions.
3. Composition of `WatchMembers` and `WatchCinema` with `WatchRoom`'s life
   cycle: a room that ends under its members' hands.

Theorems planned: that the membership of `WatchMembers` and the places of
`WatchCinema` fit each other, once they are composed. Every safety invariant and
every action property of the runs has its theorem.

Not modelled because there is nothing to check: wording and layout of answers,
lookups (`watch/youtube.go`, `views.go`), configuration, metrics, SQL
migrations. Abstracted: texts, payloads, user names, durations other than their
order, JSON encoding (a copy is written and read back unchanged).
