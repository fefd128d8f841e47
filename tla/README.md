# A verification of minnatropolis

minnatropolis is the server behind an online game: a game websocket (`api/room`),
a chat websocket (`api/chat`), an HTTP API for accounts, blocklists and parties
(`api/*.go`) and a PostgreSQL store (`datastore`, `sql`). It is concurrent through
and through: every connection and every request is a goroutine, they share maps
under mutexes, push messages into each other's channels, and act on rows that
other transactions change. The modules here model that concurrency in TLA+, TLC
checks it on small instances, and TLAPS proves the safety properties of those runs for
instances of every size, some of them under a hypothesis that "What is proved" names.

## The system

| Part | State | Operations | Meets others through |
|---|---|---|---|
| Room handler (`api/room/handler.go`, `rooms.go`) | `users` (UUID to connection, `usersMu`), a member list per room (RWMutex) | `Authorize`, `OnOpen`, `OnMessage`, `OnClose`, `changeRoom`, `setRoom`, `unsetRoom`, `shareToRoom` | every player's outbox; blocklists of other players; the database |
| Outbox and `SendLoop` (`api/room/user/user.go`) | an unbuffered channel, a pending batch, two timers | `Send`, `SendImmediate`, `OnClose` | the client |
| Blocklist updates (`api/users.go`, `api/room/interop.go`) | `block_relations`; `ClientData.Blocklist` under `BlocklistMu` | `handleBlockListAdd/Remove`, `UpdateBlockList`, `sendToListDifferences` | registry, outboxes, database, chat |
| Accounts and sessions (`api/auth.go`, `api/web/web.go`) | `users`, `session_tokens`, a cookie per browser | register, login, logout, logout-others, renew, `GetAuth` | both websockets' `Authorize` |
| Parties (`api/parties.go`, `datastore`) | `parties`, `party_members`; `clientData.partyID` of chat connections | create, join, leave, me, `UpdateParty` | chat |
| Chat (`api/chat`) | `users` (set of connections), blocklist and party copies under `mu` | `Authorize`, `OnOpen`, `OnMessage`, `OnClose`, `broadcast` | `room.GetRoommates` |
| Appearance (`process.go`, `user.go`) | position, sprite, pictures... of `ClientData` | `processMessage`, `GetIntroMessages` | roommates' screens |
| Packet guard (`handler.go`, `validate.go`) | `GuardKey`, `GuardCount` | HMAC, counter, all-or-nothing validation | |
| Rate limiters (`web/ratelimit.go`) | a bucket per IP, a sweeper | `Check`, `sweep` | the routes |
| Time and weather (`background.go`, `unconscious`) | random value, temperature, precipitation, two tickers | ticks, broadcast, the packets of `OnOpen` | registry, outboxes |
| Filters, codec, JSON, generated queries, start-up | constant or none | conversions and wiring | |

What is hard here: two goroutines that enter and leave rooms at once; messages
that overtake the outbox; a check under a lock whose answer is used after the
unlock; a lookup in the database that is applied later than a newer one; nested
read locks with writers waiting; transactions at READ COMMITTED. `PROJECT.json`
lists each at its line under `hazards`, with the properties that watch it.

What makes each part correct: the registry holds an account once and forgets it
when, and only when, its own connection ends; a player is in the room it says it
is in; once the handlers are done, screens show roommates, not blocked players
and not players that left; nothing is ever sent to a closed channel; every
handler ends; signed-out sessions stay signed out; the party tables and the chat
copies agree and no party transaction is stuck; forgetting an address never lets it
exceed its rate; a batch ends in time however many messages come; every client comes to
show the newest time and weather; a packet is applied wholly or not at all and none of
the game's own is dropped; what newcomers are told of a player is what the others saw;
a chat message reaches those it is meant for, and no block that was answered lets it
pass.

## The modules

**`SessionRegistry`** is the abstract specification of the registry: `online` says
which connection an account plays on, `past` which connections are over; admit,
refuse, end.

**`RoomHandler`** is the room handler. A connection's read loop is `pc[c]`, the
section it runs next, one action per lock region or send:

| `pc` | code | actions |
|---|---|---|
| `new`, `looked`, `authorized` | `Authorize`, upgrade, `OnOpen` | `AuthorizeNoRoom`, `AuthorizeLookup`, `AuthorizeCheck`, `UpgradeFails`, `OnOpenTwice`, `OnOpenRegister` |
| `ready` | the loop waits for a message | `SwitchRoom`, `ConnectionLost` |
| `hide`, `show`, `gone` | the three calls of `shareToRoom` | `ShareSkipped`, `ShareBegin`, `ShareVisit`, `ShareSend`, `ShareEnd` |
| `inform`, `unset`, `join`, `setid`, `greet` | `changeRoom`, `setRoom` | `SendRoomInfo`, `unsetRoom`, `setRoomJoin`, `setRoomID`, `GreetBegin`, `GreetVisit`, `GreetEnd` |
| `leave`, `deregister`, `close` | `OnClose` | `unsetRoom`, `OnCloseDeregister`, `OnCloseOutbox` |

A section that write-locks a mutex is one step, enabled while nobody read-locks it;
a section that read-locks is several steps, and `reading` says who holds the
room's lock (an exclusive section cannot be observed from inside). `pending[c]` is
`SendLoop`'s batch, reduced to the last word about each player, since a client that
gets Connect and Disconnect packets in order shows what the last one says;
`Flush` applies it to `shown[c]`, the players on the client's screen. `RoomInfo` goes
past the batch and clears the screen. Player data other than UUID, room and
blocklist is left out, as are log lines and the game-specific initial packets. A
guest has a fresh UUID and is named like its connection.

**`BlockSync`** extends it with the blocklist requests: `rpc[q]` goes through the
transaction (the statement and the list it reads back, then the commit), the
lookup without lock, the two locks, the two loops of `sendToListDifferences` with a
step per send, and the store. A panic on a closed channel is recovered by net/http,
with the deferred unlocks.

**`BlocklistLocks`** looks into what the other two take in one step: the two nested
read locks of `arePacketsSkippedPlayer` against the write lock of `UpdateBlockList`,
with the writer preference of Go's `sync.RWMutex`.

**`Sessions`** models the `/auth` handlers, the cookie and the token table; a handler
that needs authentication is two steps, the lookup and the statement.

**`Parties`** models create, join and leave as transactions at READ COMMITTED,
statement by statement: row locks, the foreign key's share lock, the snapshot of
`NOT EXISTS` and the cascade, whose semantics are PostgreSQL's; then `UpdateParty`,
one chat connection after the other, or nothing of it if the commit was applied but its
answer lost; and the opening of chat connections, whose
party is read before they are registered.

**`TokenBuckets`** is the abstract rate limiter: a bucket per address, kept for ever.
**`RateLimiter`** is `web.Limiter`: buckets are objects, `byIP` names the one of each
known address, and a request that `Check` has given a bucket (`held[q]`) asks it for a
token in a later step, when a `sweep` may have run. Time is counted in ticks; a token
is worth `Cost` units and a bucket gains one unit per tick, lazily, as x/time/rate
does. Two things are urgent: the ticker fires when it is due, and a request gets from
`getOrCreate` to `Allow` within `MaxLag`.

**`SendLoop`** is the loop with its timers, in ticks: `endC` and `endMax` are counted
down, `Receive` sets `endC` anew as `SendLoop` does, `Flush` sends the batch. A goroutine
that can run is late by at most `Lag` ticks, which stands in the guard of the tick.

**`Clock`** extends it with Collective Unconscious: `Background` waits for its two
tickers, resets each after its first tick, reads the clock and broadcasts to one user
after the other; `OnOpen` gathers the initial packets and sends them past the outbox;
`Chatter` is any other message. The tickers keep one tick, as Go's do. It implements
`SendLoop` (`ClockImplementsLoop`).

**`Appearance`** is `processMessage`, `GetIntroMessages` and the greeting: a player
changes its sprite, flashes and pictures in a singleplayer map and in the shared one; a
newcomer gathers introductions under the read lock, one after the other, and queues them
together at the end. Introductions point at the picture (`pic.BasePicture`) and at the
data while the player's own goroutine writes them: a torn sprite is a nondeterministic
outcome, a map that is iterated while it is written stops the server (`crashed`). A client
applies a batch in order, so `coming` keeps of it what its screen will show afterwards;
the base of a picture is looked up when the batch is serialized (`Flush`).

**`Packets`** follows one player's packets through `OnMessage`: seal and counter,
`Deserialize`, `validateMessage`, then what each message writes, what is shared of it and
what an introduction would say. A message is a kind with its parts; the kinds are those
of the protocol's registry, with their types and limits. Two workers could run
`OnMessage`; gws lets one at a time (`ParallelEnabled`).

**`Chat`** composes the chat handler with what reaches it: the blocklist and party
requests, and the room handler's `setRoom` and `unsetRoom` step by step, since
`GetRoommates` reads `RoomID` without a lock and then the members. A request begins its
transaction (`BeginTx`, with the list it reads back), commits it or not (`CommitFails`: rolled
back, or applied with the answer lost), may panic in the room handler (`RoomPanics`; that
`rh.UpdateBlockList` comes first and can panic is `SendPanics` of `BlockSync`), and passes its
list on from one connection to the next. Any number of requests of an account may overlap;
`BlockSync` and `Parties` look into the transactions. `broadcast` goes from connection to
connection and reads the two blocklists one after the other.

Its history variables say what the properties may expect. `overlapped` are the requests
beside which another one of the same account ran, for the same list or party; `astray` the
lists and parties whose tabs may be wrong since, because requests overlapped, a commit was
lost or the room handler panicked: the next change that runs alone takes them out. `missed`
are the connections that were being opened while an update was passed along, `shunned`
the blocks that have been answered and hold. A connection is meant to hear a message if it
stays where the message goes for as long as it is processed: `Watch` notes who does not
(`Stays`).

`MCRoomHandler`, `MCBlockSync`, `MCParties`, `MCRateLimiter`, `MCPackets` and `MCChat` add
what an instance needs (symmetry, sets of block relations, messages at and beyond their
limits). The theorems are in `RoomHandlerProofs` (`RoomHandler` and `BlockSync`),
`ClockProofs` (`SendLoop` and `Clock`), `ChatProofs`, `PacketsProofs`, `PartiesProofs`,
`RateLimiterProofs`, `SessionsProofs` and `AppearanceProofs`; those of `BlocklistLocks` are
in `RoomHandlerProofs`, too, which is why its definitions have names of their own
(`LocksSpec`, `at` and `left` for `pc` and `todo`).

Definitions named `Something_variant` are faulty versions of `Something`, as a
plausible slip in the code would make it. No action uses them; each run's properties
have been seen to fail when one takes the place of the definition it varies.

## The runs

| Run | Instance | What it shows |
|---|---|---|
| `MCSwitching` | 2 connections, accounts a and b (a may have blocked b; both may log in as the same), a shared and a singleplayer room, 2 switches each, failing lookups | `TypeOK`, `RegistryExact`, `MembershipSound`, `ScreensExact`, `RoommatesShown`, `BlockedNeverShown`, `RefinesRegistry`, `NothingSendsToClosedChannel` |
| `MCLive` | 2 guests, 2 shared rooms, 1 switch each, fairness | `HandlersEnd`, `ArrivalsSeen`, `DeparturesSeen` |
| `MCBlockSync` | 2 connections, 1 request, failing commits | `BlockTypeOK`, `UnblockedShown` |
| `MCBlockPanic` | 2 connections, 1 request to block | **violated** `NoRequestPanics` |
| `MCLocks` | 3 players, 2 updates; it may come to stand still, as the code may | `ComparedListsStay`, `OnlyRingsWait` |
| `MCSessions` | 2 browsers, 2 accounts, 3 tokens, time 0 to 2, lifetime 2 | `SignedOutForGood`, `OnlyOwnSessionsEnd` |
| `MCParties` | 2 accounts, 1 party, 3 requests, 1 chat connection, cancellations, fairness | `NoOrphans`, `NeverOutsiders`, `RequestsEnd` |
| `MCRateLimiter` | 2 addresses, 2 requests at a time, burst 2, a token per 2 ticks, stale after 5, sweep every 2, lag 1, time 0 to 9 | `TypeOK`, `HeldIsCurrent`, `RateBounded`, `QuietForgotten`, `RefinesTokenBuckets` |
| `MCAppearance` | 2 players, one of which sends 4 messages about its looks | `LooksAgree`, `MovesNeverLost` |
| `MCClock` | 1 client, send delay 2, interval 3, lag 1, a minute of 8 ticks, a cycle of 3 hours, 2 values | `TypeOK`, `BatchBounded`, `QuietEnds`, `RateLow`, `NewestShown`, `HourFollows` |
| `MCPackets` | 2 packets: every kind of message with each part at, and one beyond, its limits, or no number | `AllOrNothing`, `LegitDelivered`, `DataValid`, `RoommatesAgree` |
| `MCChat` | 2 chat connections of one account or of two (one has blocked the other), 1 message over any channel, and 2 changes: requests, which may overlap, fail, get lost or panic, or moves | `BlockedSilent`, `HeardWhereMeant`, `EveryTabFresh` |

The type invariants that are not listed are proved (`Sessions`, `Parties`,
`BlocklistLocks`, `Chat`, `Appearance`) or checked by the instances below (`Packets`).

Bounds, and why they are enough. `MaxSwitches` bounds the SwitchRoom messages of a
connection: two bring a player out of a room and back, which is the longest memory
the handler has (old room, new room). Two players are enough for every property
about a pair; a third one in `MCLocks` and in the instance `MCArrivals` shows that a bystander who
holds a lock or is visited in between changes nothing. One blocklist request against
two comings and goings covers each order of its steps and theirs. In `Sessions` three
tokens allow a second login of one account while another account is signed in, and
time runs past one lifetime. Three party requests are a creation, a join and a leave
in every overlap; party ids are drawn once. `MCParties` lets requests fail, the
others need not. `MCRateLimiter` keeps the order of the code's limits (a bucket refills,
then is stale) as tight as it can be, and runs long enough for an address to be used up,
swept, created anew and used up again.

`MCAppearance`: four messages show a picture, move it, take it back and show another,
before, while and after the newcomer gathers. `MCClock`: the interval is longer than the delay but no
multiple of it, so that the last timer of a batch is cut short; the server may start in
the middle of the last second of a minute or before it; the clock runs through its cycle
for ever, so nothing is cut off. `MCPackets`: one packet may stay behind what the other
did to counter and data, and packets of two messages have a valid and an invalid one in
either order; `MCPacketsThree` adds a third packet. `MCChat` meets one message with two
changes (`MaxChanges`), each a request or a move: two requests of one account can overlap
in every order, and a second one can make good what the first left astray; a request and a
move can fall before, between and after the steps of the message. `MCChatMoves` meets two
messages with two moves. Who has left the game does not come back. `MCLocks` has as many
updates as a ring needs, and a third player for the locks that a bystander holds; a ring of
three is within the reach of `RingsOnly` only.

### What the violations show

* `MCBlockPanic`: `UpdateBlockList` reads `h.users` without `usersMu` and sends to
  `us` later, when it may have left: a send on a closed channel.

More instances are kept beside the regular runs, to be run by hand
(`tlc -config X.cfg M`). These violate what they check:

| cfg (module) | Property | What TLC finds |
|---|---|---|
| `MCLeavers` (MCRoomHandler) | `LeaversHidden` | `changeRoom` tells the room of the departure *before* it takes the player out of the member list; a player that enters in between still gathers the leaver, and nothing removes it from its screen |
| `MCOldRoom` (MCRoomHandler) | `OldRoomForgotten` | `RoomInfo` overtakes introductions of the old room that wait in the batch |
| `MCLocksStuck` (BlocklistLocks) | `NobodyWaitsForEver` | two players compare their lists with each other while two updates wait to write-lock them: each holds its own read lock and waits, behind a writer, for the other's; four goroutines stop, and with them the room's lock. `OnlyRingsWait` says that this, or a longer ring, is the only way |
| `MCBlockRace` (MCBlockSync) | `BlockedStayHidden` | the lists are compared, then changed, then the introduction is sent |
| `MCBlockReverse` (MCBlockSync) | `BlockedStayHidden` | `sendToListDifferences` ignores the other player's list: of two that block each other one unblocks, and both are shown |
| `MCBlockSingle` (MCBlockSync) | `SingleplayerSilent` | unblocking shows players in a singleplayer room |
| `MCBlockSelf` (MCBlockSync) | `NeverIntroducedToSelf` | unblocking oneself |
| `MCBlockStale` (MCBlockSync) | `BlockedNow` | lists applied in another order than their commits |
| `MCRenew` (Sessions) | `RenewKeepsCookie` | the renewed cookie is empty, because `dbSessionTokenWithUserToApp` drops the token |
| `MCPartyLeavers` (MCParties) | `OnlyLeaversLeave`, `EmptyPartyDeleted` | a party found empty is deleted with the member that just joined; two members that leave together each still see the other's row, and the empty party stays |
| `MCPartyCopy` (MCParties) | `PartyCopyFresh` | a chat connection keeps an old party |
| `MCLooks` (Appearance) | `NeverCrashed`, `FlashIntroduced`, `NeverOutdated` | the map of pictures is iterated over, for an introduction, while its player's goroutine writes it, which stops the whole server; `RepeatingFlash` is shared but never stored, so newcomers do not see it; a change shared between the gathering of an introduction and its queueing is overtaken by the older introduction |
| `MCDesync` (Clock) | `ReadBeforeMinute`, `SameHour` | `getUntil59` drops the fraction of the second, so that the packets may be read after the minute; a broadcast then carries one hour, and who connects later is told the next |
| `MCChatMore` (MCChat) | `EveryTabFreshAlways` | a tab keeps an old list or party: two requests of one account pass theirs on in another order than they committed, a commit is applied but answers an error, or `rh.UpdateBlockList` panics (`MCBlockPanic`) before `ch.UpdateBlockList` is called |
| `MCChatOpening` (MCChat) | `BlockedSilentToAll` | a connection that is being opened when a block is passed along keeps the old list |
| `MCChatEcho` (MCChat) | `SentBack` | who has blocked itself does not get its own messages back |

These hold: `MCArrivals` (MCRoomHandler, three guests in one room: `ScreensExact`,
`NothingSendsToClosedChannel`), `MCPacketsThree` (MCPackets) and `MCChatMoves` (MCChat).
Where a cfg lists two properties that fail, TLC stops at the
first; take it out to see the other.

## Fairness

`RoomHandler`: weak fairness of each connection's `ServerStep` (a goroutine that can
run does; a mutex that is free long enough is taken) and of its `Flush` (the batch's
timer fires). Nothing is assumed of clients: they may stay silent for ever, never
finish the upgrade, never close. `BlocklistLocks`, for the instance
`MCLocksStuck`: weak fairness of each goroutine, with the queueing of `sync.RWMutex`
spelled out instead of assumed. `Parties`: weak
fairness of each request, so a statement that need not wait is served; a transaction
may always fail, and none is assumed to succeed. The other modules are checked for
safety only. That something happens in time is a safety property where time is counted:
the urgency of `RateLimiter`'s ticker, and that goroutines of `SendLoop` and `Clock` are
late by `Lag` at most, stand in the guards of their ticks.

## What is proved

`RoomHandlerProofs` proves, for any sets of connections, accounts and rooms, any
initial block relations and any bound on switches (assumption `RoomAssumption`: the
sets do not overlap and there is a room), and for any number of blocklist requests
(`ReqAssumption`: there is an account to make one):

| Theorem | Statement |
|---|---|
| `TypeCorrect` | `Spec => []TypeOK` |
| `RegistryCorrect` | `Spec => []RegistryExact` |
| `MembershipCorrect` | `Spec => []MembershipSound` |
| `ClosedChannelSafe` | `Spec => NothingSendsToClosedChannel` |
| `ImplementsRegistry` | `Spec => RefinesRegistry` |
| `BlockedHidden` | `Spec => []BlockedNeverShown` |
| `RoommatesMeet` | `Spec => []RoommatesShown` |
| `ScreensCorrect` | `Spec => []ScreensExact` |
| `BlockTypeCorrect` | `BlockSpec => []BlockTypeOK` |
| `RoomsWhileBlocking` | `BlockSpec => [](RegistryExact /\ MembershipSound)` |
| `UnblockedMeet` | `BlockSpec => []UnblockedShown` |

The first four rest on one inductive invariant, `IInv == TypeOK /\ Placed`.
`RegistryExact` and `MembershipSound` are inductive only together with three facts
about the goroutines: the outbox is made, served and closed exactly at the points
of OnOpen and OnClose (`OutboxFollows`); a batch exists only while it is served
(`BatchServed`); and whoever a reader of a room has still to visit, or has chosen to
send to, is a member of that room, because the room's lock keeps members in place
(`ReadersHold`). From the last one follows that a share never sends to a closed outbox:
the receiver is a member, a member is registered, and OnClose takes a player out of
its room before it deregisters and closes.

`BlockedHidden` needs to follow an introduction on its whole way, from being chosen or
gathered, through the batch, to the screen (`OnTheWay`). `RoommatesMeet` is the
deepest: for two members of a room (`MeetInv`) either one of them is about to leave,
or the newcomer has yet to gather the other, or the other has yet to share its
introduction, or the screen, with the pending batch, shows it. Each step of either
handler hands this obligation on. `ScreensCorrect` is the opposite direction (`ExactInv`):
as long as nobody switches, whoever is or will be on a screen (`WillShow`) is in the same
room and has yet to tell that player that it leaves (`ToHide`). A newcomer holds on to
the members it gathers (`GreetersHold`), so that none of them can have said so already.

With requests, `Placed` stays inductive beside two facts about them (`BlockIInv`): the
connections that a request has looked up are registered for as long as it holds the lock
(`RequestsHold`), and two requests never dispatch for the same player (`OneDispatches`).
`UnblockedMeet` weakens the obligation of `RoommatesMeet` by what blocks excuse
(`MeetMeanwhileInv`): one of the two blocks the other and no request under way has passed
the point where it should have made up for that (`Silenced`), or a request is about to
store a block (`AboutToBlock`). A request that unblocks sends its introductions before it
stores the list, and who greets meanwhile still compares with the old one: this is why
`Passed` has to speak of each of the two sends of the second loop.

`RateLimiterProofs` proves, for any addresses, requests and buckets and any limits that
satisfy `LimiterAssumption` (a bucket refills, plus the lag of a request, within
`StaleAfter`: 25 minutes for the slowest limit of `api.go`, against an hour):

| Theorem | Statement |
|---|---|
| `LimiterTypeCorrect` | `Spec => []TypeOK` |
| `NoForgottenBucket` | `Spec => []HeldIsCurrent` |
| `LimiterRefinesTokenBuckets` | `Spec => RefinesTokenBuckets` |
| `RateIsBounded` | `Spec => []RateBounded` |
| `QuietAreForgotten` | `Spec => []QuietForgotten` |

Its inductive invariant says when things happened: the address of a request was seen
no earlier than the request came, the request is at most `MaxLag` old, and a bucket was
last drawn from at most `MaxLag` after its address was last seen. So whatever is stale
is full and held by nobody (`StaleFull`), and sweeping it changes no address' credit.
`RateBounded` follows from `Balance`: what was drawn and what is left never exceed the
first burst plus the time that passed.

`ClockProofs`, for any users, messages, intervals and lag with a
delay that is not zero and at most the interval (`SendLoopAssumption`), and for `Clock`
any length of minute and cycle (`ClockAssumption`):

| Theorem | Statement |
|---|---|
| `BatchesEnd` | `LoopSpec => []BatchBounded` |
| `QuietBatchesEnd` | `LoopSpec => []QuietEnds` |
| `PacketRateLow` | `LoopSpec => RateLow` |
| `ClockTypeCorrect` | `Spec => []TypeOK` |
| `ClockImplementsLoop` | `Spec => LoopSpec` |
| `ClockBatches` | `Spec => []BatchBounded /\ []QuietEnds /\ RateLow` |
| `NewestIsShown` | `Spec => []NewestShown`, if `Timely` |
| `HoursFollow` | `Spec => []HourFollows`, if `Timely` |

The inductive invariant relates the timers to the history variables: `endC` is never
later than `endMax`, the age of a batch is what `endMax` has lost, and `endC` plus the
time since the last message, or since the last batch, stays on its side of the delay. Each
step of `Clock` is a step of `SendLoop` or leaves it alone, which gives its bounds for
free.

`NewestIsShown` and `HoursFollow` need `Timely`: a goroutine is late by less than
`sendDelay`, and by less than a third of a minute. `MCClock` satisfies it (2 against 1, 8
against 3), and the server does unless it stalls for tens of milliseconds at the wrong
moment: when the lag reaches the delay, TLC shows a broadcast that overtakes the packets
of an `OnOpen` under way, which then show older values for a minute or two. `NewestInv`
has a part for each way of the newest packet to a client: `Background` comes to a tick
that fired, after that of the other ticker at the latest (`TickersInTime`); while it
handles it, everyone is still to be sent the packet, or the last packet of its kind in
the user's batch is the newest, or there is none there and `OnOpen` or the client has it
(`Knows`); a packet does not stay in a batch for long (`Fresh`); and the batch of a
connection that opens does not end before the packets of `OnOpen` are out (`Gathers`).

`PacketsProofs`, for any packets, at least one message each, and any limits:

| Theorem | Statement |
|---|---|
| `PacketsWhole` | `Spec => []AllOrNothing` |
| `LegitimateDelivered` | `Spec => []LegitDelivered`, if each of the client's messages is valid by itself (`LegitValid`, which `MCPackets`' messages satisfy) |
| `RoommatesSeeTheSame` | `Spec => []RoommatesAgree` |
| `LooksAreValid` | `Spec => []DataValid`, if what passes the checks by itself is one of the client's messages (`LegitComplete`, which they satisfy, too) |

One handler runs at a time (`Alone`), on the packet taken last, so the last effect is
either of an earlier packet or of the message before (`LastEffect`). The counter is the
greatest that a sealed packet has carried so far (`Counted`). What is written and shared
has been parsed and validated before (`Passed`), and a sprite comes with its index
(`Dressed`), without which an introduction would leave out what the others saw.

`ChatProofs`, for any accounts, connections, requests, rooms, parties and channels:

| Theorem | Statement |
|---|---|
| `ChatTypeCorrect` | `Spec => []TypeOK` |
| `MessagesReachTheMeant` | `Spec => []HeardWhereMeant` |
| `TabsFresh` | `Spec => []EveryTabFresh` |
| `BlockedAreSilent` | `Spec => []BlockedSilent` |

None of them asks anything of the clients: requests may overlap as they like.
`FreshInv` says that a request which nothing overlapped (`Unrivalled`) holds, once it has
committed, what the database has (`Sound`), and that each tab whose list is not astray has it
or is about to be updated (`Coming`). `SilentInv` cannot rest on that, since it also speaks of
accounts whose lists are astray: it says that a block which has been answered is on every tab of
the one who blocks (`Shuns`), and that nothing can take it away while it lasts, because every
list that a request of the account carries or is about to read has it (`Brings`), and an
unblock that does not have it ends the block when it commits. Whoever `broadcast` asks
first, one of the two then says no.
`MeantInv` follows a message: who must hear it is in the audience that `processMessage`
has or will gather, then among those that `broadcast` has to visit, is asking or has
sent to; who hears it was meant to, unless the author moved meanwhile.

`AppearanceProofs`, for any players, any of them changing their looks, and any number of
messages:

| Theorem | Statement |
|---|---|
| `AppearanceTypeCorrect` | `Spec => []TypeOK` |
| `PlayersLookRight` | `Spec => []LooksAgree` |
| `MovesAreKept` | `Spec => []MovesNeverLost` |

The invariant is about what a player will show of another when the batch, and the
introduction it has gathered, have arrived (`Shown`): it has yet to gather the other, or
the other has yet to show itself, or `Shown` is there (`KnowsOf`); and then each field is as
the data has it, unless the data is being written, or the change is still to be sent to this
player (`Owes`), or it overtook the introduction. What a torn read put into an introduction
is excused by the write in progress, and the message that follows the write makes up for it.
A moved picture needs no such excuse (`KnowsBase`): an introduction that brings the picture
has no base until it is serialized. That a picture is never mistaken for an older one takes
`Seen`, the number of the last message whose picture may have been shown.

`SessionsProofs`, `PartiesProofs` and, of `BlocklistLocks`, `RoomHandlerProofs`, for any
accounts, tokens, requests, connections, players and updates:

| Theorem | Statement |
|---|---|
| `SessionsTypeCorrect`, `PartiesTypeCorrect` | `Spec => []TypeOK` |
| `LocksTypeCorrect` | `LocksSpec => []LocksTypeOK` |
| `SignedOutStaysOut` | `Spec => SignedOutForGood` |
| `OwnSessionsOnly` | `Spec => OnlyOwnSessionsEnd` |
| `NobodyOrphaned` | `Spec => []NoOrphans` |
| `OutsidersKeptOut` | `Spec => []NeverOutsiders` |
| `ListsStay` | `LocksSpec => []ComparedListsStay` |
| `RingsOnly` | `LocksSpec => []OnlyRingsWait` |

A session's handler acts on what an earlier statement found; all that remains true of it
is that the token was issued and that its row, if there, is the same account's
(`SessionHeld`). `NoOrphans` follows from the locks: two transactions never hold the same
member's row (`RowsApart`), nobody is about to commit an insertion into a party that
another has deleted (`PartyHeld`), and when the deletion commits every member's row is in
it, because the cascade takes a new snapshot (`TxHolds`).

`RingsOnly` needs to know who holds what: a list that is write-locked by an update that has
called Lock has that update in line, and readers queue only behind one. If nobody can go
on, an update waits for a reader, that reader for the list of the player it compares with,
behind an update that waits in turn: the players who wait so are the ring.

Only model-checked: liveness (`MCLive`, `MCParties`), which the prover has no
means for. Every invariant and every other action property of the passing runs is proved.

## What is not modelled, and the plan

Still to do: the event variable that `changeRoom` sends in Collective Unconscious
(`unconscious/events.go`), which belongs into `Clock`.

Not modelled for good: the asset filters (read once; they are the constants `Room`,
`Rooms`, `SPMaps`, `Sprites` and so on), how packets are split into strings and formatted
by reflection and how JSON is parsed (pure conversions; which packets are accepted is in
`Packets`), the arithmetic of the weather (any value may follow any other in `Clock`),
password hashing, the generated query code (its statements are modelled where they are
used), start-up and shutdown. A browser's own expiry of the cookie after seven days is
left out: it only signs the browser out. Process crashes are not modelled (but for the flag
`crashed` of `Appearance`), among them the one that Go may answer the unsynchronised read
of `h.users` in `UpdateBlockList` with (`BlockSync.FindUser`): everything but
the database is lost with the process, and no transaction spans a step outside the
database.
